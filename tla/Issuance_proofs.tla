--------------------------- MODULE Issuance_proofs ---------------------------
(***************************************************************************)
(* Issuance's properties, for any configuration in OIDC mode, any number   *)
(* of users and of requests that overtake each other, any clock, and any   *)
(* number of restarts.                                                     *)
(***************************************************************************)
EXTENDS Issuance, FiniteSetTheorems, TLAPS

\* What a user's browser and the provider do.
LogsIn == \E l \in Logins : SignIn(l) \/ \E u \in Users : Authenticate(l, u)

-----------------------------------------------------------------------------
(* To the limiter, the handlers are what module RateLimit takes them for.   *)

LEMMA LimiterInit == Init => Limiter!Init
BY DEF Init

LEMMA LimiterStep == [Next]_vars => [Limiter!Next]_(Limiter!vars)
<1> SUFFICES ASSUME [Next]_vars
             PROVE  Limiter!Next \/ UNCHANGED <<clock, limiterVars>>
  BY DEF Limiter!vars, limiterVars
<1>1. CASE PassTime
  BY <1>1 DEF PassTime, Limiter!Next
<1>2. CASE \E r \in Requests, u \in Users, k \in Kinds : Ask(r, u, k)
  BY <1>2 DEF Ask, Limiter!Next
<1>3. CASE \E r \in Requests : Grant(r) \/ Refuse(r)
  BY <1>3 DEF Grant, Refuse, Limiter!Next
<1>4. CASE \E r \in Requests : Record(r)
  BY <1>4 DEF Record
<1>5. CASE \E r \in Requests : Sign(r) \/ FailSign(r) \/ Answer(r) \/ LoseAnswer(r)
  BY <1>5 DEF Sign, FailSign, Answer, LoseAnswer
<1>6. CASE LogsIn \/ \E u \in Users, x \in Roles : Withdraw(u, x)
  BY <1>6 DEF LogsIn, Authenticate, SignIn, Withdraw
<1>7. CASE Restart
  BY <1>7 DEF Restart, Limiter!Next
<1>8. CASE UNCHANGED vars
  BY <1>8 DEF vars
<1> QED
  BY <1>1, <1>2, <1>3, <1>4, <1>5, <1>6, <1>7, <1>8 DEF Next, Handle, LogsIn

\* Both handlers use the limiter of module RateLimit and no other: its theorems
\* about the budget hold of what they grant.
THEOREM LimiterIsUsed == Spec => UsesTheLimiter
<1> QED
  BY LimiterInit, LimiterStep, PTL DEF Spec, UsesTheLimiter, Limiter!Spec

-----------------------------------------------------------------------------
(* The configuration, and the times of a certificate.                      *)

\* A name that leads to a profile leads to one of the list.
LEMMA LookupFindsOne ==
  ASSUME NEW ps, ps \in Seq(ToSet(ps)), Distinct(ps), NEW name, Lookup(ps, name) # NoProfile
  PROVE  \E i \in DOMAIN ps : Lookup(ps, name) = ps[i]
<1> DEFINE found == {i \in DOMAIN ps : ps[i].name = name}
<1>1. PICK i \in found : TRUE
  BY DEF Lookup
<1>2. found = {i}
  BY DEF Distinct
<1>3. (CHOOSE j \in {i} : \A m \in {i} : j <= m) = i
  <2>1. i \in Int
    OBVIOUS
  <2> QED  BY <2>1
<1> QED  BY <1>1, <1>2, <1>3 DEF Lookup

LEMMA ServedDurations ==
  /\ SessionDuration(Conf.auth) \in Int /\ 0 < SessionDuration(Conf.auth)
  /\ \A kind \in Kinds : ProfileOf(kind) # NoProfile =>
       ProfileOf(kind).duration \in Int /\ 0 < ProfileOf(kind).duration
<1>1. ValidAuth(Conf.auth) /\ Distinct(Conf.profiles) /\ Distinct(Conf.sshProfiles)
  BY ConfIsServed DEF Valid
<1>2. \A ps \in {Conf.profiles, Conf.sshProfiles} : \A i \in DOMAIN ps : ValidDuration(ps[i].duration)
  BY ConfIsServed DEF Valid, ValidProfile, ValidSSHProfile
<1>3. 0 < SessionDuration(Conf.auth)
  BY <1>1, ConfIsServed DEF ValidAuth
<1>4. SessionDuration(Conf.auth) \in Int
  BY DurationsAreInt DEF SessionDuration
<1>5. ASSUME NEW kind \in Kinds, ProfileOf(kind) # NoProfile
      PROVE  ProfileOf(kind).duration \in Int /\ 0 < ProfileOf(kind).duration
  <2> DEFINE ps == IF kind = "vpn" THEN Conf.profiles ELSE Conf.sshProfiles
  <2>1. ps \in {Conf.profiles, Conf.sshProfiles} /\ ProfileOf(kind) = Lookup(ps, kind)
    BY DEF ProfileOf
  <2> HIDE DEF ps
  <2>2. ps \in Seq(ToSet(ps)) /\ Distinct(ps)
    BY <1>1, <2>1, DurationsAreInt
  <2>3. PICK i \in DOMAIN ps : ProfileOf(kind) = ps[i]
    BY <1>5, <2>1, <2>2, LookupFindsOne
  <2> QED  BY <1>2, <2>1, <2>3, DurationsAreInt DEF ValidDuration
<1> QED
  BY <1>3, <1>4, <1>5

\* A whole number of seconds, less than a second earlier.
LEMMA TruncateBounds ==
  ASSUME NEW t \in Int
  PROVE  Truncate(t) \in Int /\ Truncate(t) <= t /\ t < Truncate(t) + SecondTicks
<1>1. t % SecondTicks \in 0..(SecondTicks - 1)
  BY TimesAreNat
<1> QED
  BY <1>1, TimesAreNat DEF Truncate

\* What a certificate issued at t says, and what the portal says of it.
LEMMA ExpiryTimes ==
  ASSUME NEW kind \in Kinds, ProfileOf(kind) # NoProfile, NEW t \in Nat
  PROVE  /\ Expiry(kind, t) \in Int
         /\ Expiry(kind, t) <= t + ProfileOf(kind).duration
         /\ kind = "vpn" => Expiry(kind, t) <= CAEnd
<1>1. ProfileOf(kind).duration \in Int /\ CAEnd \in Int
  BY ServedDurations, TimesAreNat
<1>2. Truncate(t) \in Int /\ Truncate(t) <= t
  BY TruncateBounds
<1>3. Truncate(CAEnd) \in Int /\ Truncate(CAEnd) <= CAEnd
  BY <1>1, TruncateBounds
<1> QED
  BY <1>1, <1>2, <1>3 DEF Expiry, BoundedExpiry, Earlier

-----------------------------------------------------------------------------
(* Types: what a request has in hand at each of its steps.                 *)

Certificates == [user : Users, kind : Kinds, expires : Int, ends : Int]
Claims == [user : Users, roles : SUBSET Roles, at : Nat]
Entry == [user : Users, kind : Kinds, expires : Int]
Asked == [step : {"limit", "sign"}, user : Users, kind : Kinds, begun : Nat]
Signed == [step : {"record"}, begun : Nat, cert : Certificates]
Answered == [step : {"answer"}, begun : Nat, cert : Certificates, serial : Nat]
Delivery == [cert : Certificates, serial : Nat]

TypeInv ==
  /\ clock \in Nat
  /\ issued \in Seq(Entry)
  /\ held \subseteq DOMAIN issued
  /\ waiting \in [Requests -> [user : Users, now : Nat] \cup {Limiter!None}]
  /\ granted \in [Users -> Seq(Nat)]
  /\ roles \in [Users -> SUBSET Roles]
  /\ lost \in [Users -> [Roles -> Int]]
  /\ login \in [Logins -> Claims \cup {NoLogin}]
  /\ session \in [Users -> [roles : SUBSET Roles, expires : Int]]
  /\ request \in [Requests -> {Free} \cup Asked \cup Signed \cup Answered]

\* The limiter waits for those that asked; a profile was found for them; an answer,
\* and a delivery of this process, are of a credential that the store was told of,
\* as it is.
KnownTo(cert, s) ==
  /\ s \in DOMAIN issued
  /\ issued[s] = [user |-> cert.user, kind |-> cert.kind, expires |-> cert.expires]
LinkInv ==
  /\ \A r \in Requests :
       /\ (request[r].step = "limit") <=> (waiting[r] # Limiter!None)
       /\ request[r].step = "limit" => waiting[r].user = request[r].user
       /\ request[r].step \in {"limit", "sign"} => ProfileOf(request[r].kind) # NoProfile
       /\ request[r].step = "record" => ProfileOf(request[r].cert.kind) # NoProfile
       /\ request[r].step = "answer" =>
            /\ ProfileOf(request[r].cert.kind) # NoProfile
            /\ KnownTo(request[r].cert, request[r].serial)
  /\ \A d \in delivered :
       /\ d \in Delivery
       /\ ProfileOf(d.cert.kind) # NoProfile
       /\ d.serial # Forgotten => KnownTo(d.cert, d.serial)

LEMMA TypeInit == Init => TypeInv /\ LinkInv
<1> SUFFICES ASSUME Init PROVE TypeInv /\ LinkInv
  OBVIOUS
<1>1. TypeInv
  BY DEF Init, TypeInv, Limiter!Init, NoLogin, NoSession, Free
<1>2. LinkInv
  BY DEF Init, LinkInv, Limiter!Init, Free
<1> QED  BY <1>1, <1>2

\* What the store does with a credential.
LEMMA AddTypes ==
  ASSUME TypeInv, NEW u \in Users, NEW k \in Kinds, NEW e \in Int,
         Store!Add(u, k, e - clock)
  PROVE  /\ issued' = Append(issued, [user |-> u, kind |-> k, expires |-> e])
         /\ issued' \in Seq(Entry) /\ DOMAIN issued' = DOMAIN issued \cup {Len(issued) + 1}
         /\ held' \subseteq DOMAIN issued'
         /\ clock' = clock
<1> DEFINE x == [user |-> u, kind |-> k, expires |-> clock + (e - clock)]
<1>1. x = [user |-> u, kind |-> k, expires |-> e] /\ x \in Entry
  BY DEF TypeInv, Entry
<1>2. issued' = Append(issued, x) /\ clock' = clock
  BY DEF Store!Add
<1>3. /\ issued' \in Seq(Entry) /\ Len(issued') = Len(issued) + 1
      /\ DOMAIN issued' = DOMAIN issued \cup {Len(issued) + 1}
  <2> HIDE DEF x
  <2> QED  BY <1>1, <1>2 DEF TypeInv
<1>4. held' \subseteq held \cup {Len(issued')}
  BY DEF Store!Add, Store!Prune, Store!Longest, Store!Unexpired
<1> QED
  BY <1>1, <1>2, <1>3, <1>4 DEF TypeInv

Sound == TypeInv /\ LinkInv

\* A request's step tells what it has in hand.
LEMMA InHand ==
  ASSUME TypeInv, NEW r \in Requests
  PROVE  /\ request[r].step \in {"limit", "sign"} => request[r] \in Asked
         /\ request[r].step = "record" => request[r] \in Signed
         /\ request[r].step = "answer" => request[r] \in Answered
<1>1. request[r] \in {Free} \cup Asked \cup Signed \cup Answered
  BY DEF TypeInv
<1> QED  BY <1>1 DEF Free, Asked, Signed, Answered

LEMMA QuietSound ==
  ASSUME Sound, UNCHANGED <<issued, held, roles, lost, waiting, granted, request, delivered>>,
         clock' \in Nat, login' \in [Logins -> Claims \cup {NoLogin}],
         session' \in [Users -> [roles : SUBSET Roles, expires : Int]]
  PROVE  Sound'
BY DEF Sound, TypeInv, LinkInv, KnownTo

LEMMA WithdrawSound ==
  ASSUME Sound, NEW u \in Users, NEW x \in Roles, Withdraw(u, x)
  PROVE  Sound'
<1>1. roles' \in [Users -> SUBSET Roles] /\ lost' \in [Users -> [Roles -> Int]]
  BY DEF Sound, TypeInv, Withdraw
<1>2. TypeInv'
  BY <1>1 DEF Sound, TypeInv, Withdraw, limiterVars, storeVars
<1>3. LinkInv'
  BY DEF Sound, LinkInv, KnownTo, Withdraw, limiterVars, storeVars
<1> QED  BY <1>2, <1>3 DEF Sound

LEMMA AskSound ==
  ASSUME Sound, NEW r \in Requests, NEW u \in Users, NEW k \in Kinds, Ask(r, u, k)
  PROVE  Sound'
<1>1. /\ request' = [request EXCEPT ![r] =
                      [step |-> "limit", user |-> u, kind |-> k, begun |-> clock]]
      /\ waiting' = [waiting EXCEPT ![r] = [user |-> u, now |-> clock]]
      /\ UNCHANGED <<clock, granted, issued, held, roles, lost, login, session, delivered>>
  BY DEF Ask, Limiter!Arrive, storeVars, peopleVars
<1>2. TypeInv'
  BY <1>1 DEF Sound, TypeInv, Asked
<1>3. [user |-> u, now |-> clock] # Limiter!None
  BY NoRequestIsNoUser DEF Limiter!None
<1>4. LinkInv'
  BY <1>1, <1>3 DEF Sound, TypeInv, LinkInv, KnownTo, Ask
<1> QED  BY <1>2, <1>4 DEF Sound

LEMMA GrantSound ==
  ASSUME Sound, NEW r \in Requests, Grant(r)
  PROVE  /\ Sound'
         /\ request[r].step = "limit"
         /\ granted' = [granted EXCEPT ![request[r].user] = Append(@, clock)]
<1>1. /\ request' = [request EXCEPT ![r].step = "sign"]
      /\ waiting[r] # Limiter!None
      /\ waiting' = [waiting EXCEPT ![r] = Limiter!None]
      /\ granted' = [granted EXCEPT ![waiting[r].user] = Append(@, clock)]
      /\ UNCHANGED <<clock, issued, held, roles, lost, login, session, delivered>>
  BY DEF Grant, Limiter!Allow, storeVars, peopleVars
<1>2. request[r].step = "limit" /\ waiting[r].user = request[r].user
  BY <1>1 DEF Sound, LinkInv
<1>3. request[r] \in Asked
  BY <1>2, InHand DEF Sound
<1>4. [request[r] EXCEPT !.step = "sign"] \in Asked
  BY <1>3 DEF Asked
<1>5. request' \in [Requests -> {Free} \cup Asked \cup Signed \cup Answered]
  BY <1>1, <1>4 DEF Sound, TypeInv
<1>6. granted' \in [Users -> Seq(Nat)]
  BY <1>1, <1>2, <1>3 DEF Sound, TypeInv, Asked
<1>7. TypeInv'
  BY <1>1, <1>5, <1>6 DEF Sound, TypeInv
<1>8. LinkInv'
  BY <1>1, <1>3, <1>4 DEF Sound, TypeInv, LinkInv, KnownTo, Asked
<1> QED  BY <1>1, <1>2, <1>7, <1>8 DEF Sound

\* A request that ends, and one that is refused.
LEMMA EndSound ==
  ASSUME Sound, NEW r \in Requests,
         request' = [request EXCEPT ![r] = Free],
         \/ waiting' = [waiting EXCEPT ![r] = Limiter!None]
         \/ UNCHANGED waiting /\ request[r].step # "limit",
         UNCHANGED <<clock, granted, issued, held, roles, lost, login, session>>,
         \A d \in delivered' \ delivered :
           d \in Delivery /\ ProfileOf(d.cert.kind) # NoProfile /\ KnownTo(d.cert, d.serial)
  PROVE  Sound'
<1>1. TypeInv'
  BY DEF Sound, TypeInv
<1>2. LinkInv'
  BY DEF Sound, TypeInv, LinkInv, KnownTo, Free
<1> QED  BY <1>1, <1>2 DEF Sound

\* What a signing makes.
LEMMA CertificateTimes ==
  ASSUME NEW u \in Users, NEW k \in Kinds, ProfileOf(k) # NoProfile, NEW t \in Nat
  PROVE  LET c == Certificate(u, k, t) IN
         /\ c \in Certificates /\ c.user = u /\ c.kind = k
         /\ c.expires <= t + ProfileOf(k).duration
         /\ c.ends <= c.expires /\ c.expires < c.ends + SecondTicks
         /\ k = "vpn" => c.ends <= CAEnd
<1>1. /\ Expiry(k, t) \in Int /\ Expiry(k, t) <= t + ProfileOf(k).duration
      /\ k = "vpn" => Expiry(k, t) <= CAEnd
  BY ExpiryTimes
<1>2. /\ Truncate(Expiry(k, t)) \in Int /\ Truncate(Expiry(k, t)) <= Expiry(k, t)
      /\ Expiry(k, t) < Truncate(Expiry(k, t)) + SecondTicks
  BY <1>1, TruncateBounds
<1>3. CAEnd \in Int
  BY TimesAreNat
<1> QED
  BY <1>1, <1>2, <1>3 DEF Certificate, Certificates

LEMMA SignSound ==
  ASSUME Sound, NEW r \in Requests, Sign(r)
  PROVE  /\ Sound'
         /\ request[r] \in Asked /\ request[r].step = "sign"
         /\ ProfileOf(request[r].kind) # NoProfile
         /\ request' = [request EXCEPT ![r] =
              [step |-> "record", begun |-> request[r].begun,
               cert |-> Certificate(request[r].user, request[r].kind, clock)]]
         /\ UNCHANGED <<clock, issued, granted, delivered, roles, lost, login, session>>
<1> DEFINE q == request[r]
           c == Certificate(q.user, q.kind, clock)
<1>1. /\ q.step = "sign"
      /\ request' = [request EXCEPT ![r] = [step |-> "record", begun |-> q.begun, cert |-> c]]
      /\ UNCHANGED <<clock, waiting, granted, issued, held, roles, lost, login, session, delivered>>
  BY DEF Sign, limiterVars, storeVars, peopleVars
<1>2. q \in Asked
  BY <1>1, InHand DEF Sound
<1>3. q.user \in Users /\ q.kind \in Kinds /\ q.begun \in Nat /\ ProfileOf(q.kind) # NoProfile
  BY <1>1, <1>2 DEF Asked, Sound, LinkInv
<1>4. c \in Certificates /\ c.kind = q.kind
  BY <1>3, CertificateTimes DEF Sound, TypeInv
<1> HIDE DEF c
<1>5. [step |-> "record", begun |-> q.begun, cert |-> c] \in Signed
  BY <1>3, <1>4 DEF Signed
<1>6. TypeInv'
  BY <1>1, <1>5 DEF Sound, TypeInv
<1>7. LinkInv'
  BY <1>1, <1>3, <1>4 DEF Sound, TypeInv, LinkInv, KnownTo
<1> QED  BY <1>1, <1>2, <1>3, <1>6, <1>7 DEF Sound, c

LEMMA RecordSound ==
  ASSUME Sound, NEW r \in Requests, Record(r)
  PROVE  /\ Sound'
         /\ request[r] \in Signed
         /\ request' = [request EXCEPT ![r] =
              [step |-> "answer", begun |-> request[r].begun,
               cert |-> request[r].cert, serial |-> Len(issued) + 1]]
         /\ issued' = Append(issued, [user |-> request[r].cert.user,
              kind |-> request[r].cert.kind, expires |-> request[r].cert.expires])
         /\ UNCHANGED <<clock, granted, delivered, roles, lost, login, session>>
<1> DEFINE q == request[r]
<1>0. PICK c, n, b : c = q.cert /\ n = Len(issued) + 1 /\ b = q.begun
  OBVIOUS
<1> DEFINE a == [step |-> "answer", begun |-> b, cert |-> c, serial |-> n]
<1>1. /\ q.step = "record"
      /\ Store!Add(c.user, c.kind, c.expires - clock)
      /\ request' = [request EXCEPT ![r] = a]
      /\ UNCHANGED <<clock, waiting, granted, roles, lost, login, session, delivered>>
  BY <1>0 DEF Record, limiterVars, peopleVars
<1>2. q \in Signed
  BY <1>1, InHand DEF Sound
<1>3. /\ c \in Certificates /\ b \in Nat
      /\ c.user \in Users /\ c.kind \in Kinds /\ c.expires \in Int
  BY <1>0, <1>2 DEF Signed, Certificates
<1>4. /\ issued' = Append(issued, [user |-> c.user, kind |-> c.kind, expires |-> c.expires])
      /\ issued' \in Seq(Entry) /\ DOMAIN issued' = DOMAIN issued \cup {n}
      /\ held' \subseteq DOMAIN issued'
  BY <1>0, <1>1, <1>3, AddTypes DEF Sound
<1>5. a \in Answered
  BY <1>0, <1>3 DEF Answered, Sound, TypeInv
<1>6. TypeInv'
  BY <1>1, <1>4, <1>5 DEF Sound, TypeInv
<1>7. \A d, s : KnownTo(d, s) => KnownTo(d, s)'
  BY <1>4 DEF KnownTo, Sound, TypeInv
<1>8. KnownTo(c, n)'
  BY <1>0, <1>4 DEF KnownTo, Sound, TypeInv
<1>9. ASSUME NEW p \in Requests
      PROVE  /\ (request'[p].step = "limit") <=> (waiting'[p] # Limiter!None)
             /\ request'[p].step = "limit" => waiting'[p].user = request'[p].user
             /\ request'[p].step \in {"limit", "sign"} => ProfileOf(request'[p].kind) # NoProfile
             /\ request'[p].step = "record" => ProfileOf(request'[p].cert.kind) # NoProfile
             /\ request'[p].step = "answer" =>
                  /\ ProfileOf(request'[p].cert.kind) # NoProfile
                  /\ KnownTo(request[p].cert, request[p].serial)'
  <2>1. CASE p = r
    <3>1. request'[p] = a /\ a.cert = c /\ a.serial = n /\ a.step = "answer"
      BY <1>1, <2>1 DEF Sound, TypeInv
    <3>2. waiting[r] = Limiter!None /\ ProfileOf(c.kind) # NoProfile
      BY <1>0, <1>1 DEF Sound, LinkInv
    <3>3. KnownTo(request[p].cert, request[p].serial)'
      BY <1>8, <3>1 DEF KnownTo
    <3> HIDE DEF a
    <3> QED  BY <1>1, <2>1, <3>1, <3>2, <3>3
  <2>2. CASE p # r
    <3>1. request'[p] = request[p] /\ waiting'[p] = waiting[p]
      BY <1>1, <2>2 DEF Sound, TypeInv
    <3>2. request[p].step = "answer" => KnownTo(request[p].cert, request[p].serial)'
      <4>1. request[p].step = "answer" => KnownTo(request[p].cert, request[p].serial)
        BY DEF Sound, LinkInv
      <4>2. PICK d, s : d = request[p].cert /\ s = request[p].serial
        OBVIOUS
      <4> QED  BY <1>7, <3>1, <4>1, <4>2 DEF KnownTo
    <3> QED  BY <3>1, <3>2 DEF Sound, LinkInv
  <2> QED  BY <2>1, <2>2
<1>10. LinkInv'
  <2>1. ASSUME NEW d \in delivered'
        PROVE  /\ d \in Delivery /\ ProfileOf(d.cert.kind) # NoProfile
               /\ d.serial # Forgotten => KnownTo(d.cert, d.serial)'
    BY <1>1, <1>7 DEF Sound, LinkInv
  <2> QED  BY <1>9, <2>1 DEF LinkInv
<1> QED  BY <1>0, <1>1, <1>2, <1>4, <1>6, <1>10 DEF Sound

LEMMA AnswerSound ==
  ASSUME Sound, NEW r \in Requests, Answer(r)
  PROVE  /\ Sound'
         /\ request[r] \in Answered
         /\ clock <= request[r].begun + WriteTimeout
         /\ request' = [request EXCEPT ![r] = Free]
         /\ delivered' = delivered \cup {[cert |-> request[r].cert, serial |-> request[r].serial]}
         /\ UNCHANGED <<clock, issued, granted, roles, lost, login, session>>
<1>1. /\ request[r].step = "answer"
      /\ clock <= request[r].begun + WriteTimeout
      /\ request' = [request EXCEPT ![r] = Free]
      /\ delivered' = delivered \cup {[cert |-> request[r].cert, serial |-> request[r].serial]}
      /\ UNCHANGED <<clock, waiting, granted, issued, held, roles, lost, login, session>>
  BY DEF Answer, limiterVars, storeVars, peopleVars
<1>2. request[r] \in Answered
  BY <1>1, InHand DEF Sound
<1>3. \A d \in delivered' \ delivered :
        d \in Delivery /\ ProfileOf(d.cert.kind) # NoProfile /\ KnownTo(d.cert, d.serial)
  BY <1>1, <1>2 DEF Sound, LinkInv, Answered, Delivery
<1>4. Sound'
  BY <1>1, <1>3, EndSound
<1> QED  BY <1>1, <1>2, <1>4

\* A refused request, a failed signing, a lost answer.
LEMMA DropSound ==
  ASSUME Sound, NEW r \in Requests, Refuse(r) \/ FailSign(r) \/ LoseAnswer(r)
  PROVE  /\ Sound'
         /\ request' = [request EXCEPT ![r] = Free]
         /\ UNCHANGED <<clock, issued, granted, delivered, roles, lost, login, session>>
<1>1. /\ request' = [request EXCEPT ![r] = Free]
      /\ UNCHANGED <<clock, issued, held, granted, delivered, roles, lost, login, session>>
  BY DEF Refuse, Limiter!Refuse, FailSign, LoseAnswer, limiterVars, storeVars, peopleVars
<1>2. \/ waiting' = [waiting EXCEPT ![r] = Limiter!None]
      \/ UNCHANGED waiting /\ request[r].step # "limit"
  BY DEF Refuse, Limiter!Refuse, FailSign, LoseAnswer, limiterVars
<1>3. Sound'
  BY <1>1, <1>2, EndSound
<1> QED  BY <1>1, <1>3

\* Time passes, a login goes on, or nothing happens.
LEMMA RestSound ==
  ASSUME Sound, PassTime \/ LogsIn \/ UNCHANGED vars
  PROVE  /\ Sound'
         /\ clock' \in Nat /\ clock <= clock'
         /\ UNCHANGED <<issued, roles, lost, granted, request, delivered>>
<1>1. /\ clock' \in Nat /\ clock <= clock'
      /\ UNCHANGED <<issued, held, roles, lost, waiting, granted, request, delivered>>
  <2>1. clock \in Nat
    BY DEF Sound, TypeInv
  <2>2. CASE PassTime
    BY <2>1, <2>2 DEF PassTime, Limiter!PassTime, storeVars, peopleVars
  <2>3. CASE LogsIn
    BY <2>1, <2>3 DEF LogsIn, Authenticate, SignIn, limiterVars, storeVars
  <2>4. CASE UNCHANGED vars
    BY <2>1, <2>4 DEF vars, limiterVars, storeVars, peopleVars
  <2> QED  BY <2>2, <2>3, <2>4
<1>2. /\ login' \in [Logins -> Claims \cup {NoLogin}]
      /\ session' \in [Users -> [roles : SUBSET Roles, expires : Int]]
  <2>1. ASSUME NEW l \in Logins, NEW u \in Users, Authenticate(l, u)
        PROVE  login' \in [Logins -> Claims \cup {NoLogin}] /\ session' = session
    BY <2>1 DEF Authenticate, Claims, Sound, TypeInv
  <2>2. ASSUME NEW l \in Logins, SignIn(l)
        PROVE  /\ login' \in [Logins -> Claims \cup {NoLogin}]
               /\ session' \in [Users -> [roles : SUBSET Roles, expires : Int]]
    <3>1. login[l] \in Claims
      BY <2>2 DEF SignIn, Sound, TypeInv
    <3> QED  BY <2>2, <3>1, ServedDurations DEF SignIn, Claims, Sound, TypeInv
  <2>3. CASE PassTime \/ UNCHANGED vars
    BY <2>3 DEF PassTime, vars, peopleVars, Sound, TypeInv
  <2> QED  BY <2>1, <2>2, <2>3 DEF LogsIn, Sound, TypeInv
<1>3. Sound'
  BY <1>1, <1>2, QuietSound
<1> QED  BY <1>1, <1>3

\* A new process knows nothing of what its users hold.
LEMMA RestartSound ==
  ASSUME Sound, Restart
  PROVE  /\ Sound'
         /\ request' = [r \in Requests |-> Free]
         /\ issued' = <<>> /\ granted' = [u \in Users |-> <<>>]
         /\ \A d \in delivered' :
              d.serial = Forgotten /\ \E old \in delivered : d.cert = old.cert
         /\ UNCHANGED <<clock, roles, lost, login, session>>
<1>1. /\ waiting' = [r \in Requests |-> Limiter!None]
      /\ request' = [r \in Requests |-> Free]
      /\ issued' = <<>> /\ held' = {} /\ granted' = [u \in Users |-> <<>>]
      /\ delivered' = {[d EXCEPT !.serial = Forgotten] : d \in delivered}
      /\ UNCHANGED <<clock, roles, lost, login, session>>
  BY DEF Restart, Limiter!Restart, peopleVars
<1>2. ASSUME NEW d \in delivered
      PROVE  LET new == [d EXCEPT !.serial = Forgotten] IN
             new \in Delivery /\ new.cert = d.cert /\ new.serial = Forgotten
  BY DEF Sound, LinkInv, Delivery, Forgotten
<1>3. TypeInv'
  BY <1>1 DEF Sound, TypeInv
<1>4. \A r \in Requests :
        request'[r].step = "free" /\ waiting'[r] = Limiter!None
  BY <1>1 DEF Free
<1>5. \A d \in delivered' :
        d \in Delivery /\ d.serial = Forgotten /\ \E old \in delivered : d.cert = old.cert
  BY <1>1, <1>2
<1>6. LinkInv'
  BY <1>4, <1>5 DEF Sound, LinkInv
<1> QED  BY <1>1, <1>3, <1>5, <1>6 DEF Sound

LEMMA Steps ==
  ASSUME [Next]_vars
  PROVE  \/ \E r \in Requests, u \in Users, k \in Kinds : Ask(r, u, k)
         \/ \E r \in Requests : Grant(r)
         \/ \E r \in Requests : Sign(r)
         \/ \E r \in Requests : Record(r)
         \/ \E r \in Requests : Answer(r)
         \/ \E r \in Requests : Refuse(r) \/ FailSign(r) \/ LoseAnswer(r)
         \/ \E u \in Users, x \in Roles : Withdraw(u, x)
         \/ Restart
         \/ PassTime \/ LogsIn \/ UNCHANGED vars
BY DEF Next, Handle, LogsIn

LEMMA SoundStep == Sound /\ [Next]_vars => Sound'
BY Steps, AskSound, GrantSound, SignSound, RecordSound, AnswerSound, DropSound,
   WithdrawSound, RestartSound, RestSound

\* Whoever is at which step has what it needs, and what was delivered is recorded
\* as it is.
THEOREM TypeCorrect == Spec => []TypeOK
<1>1. Sound => TypeOK
  BY DEF Sound, TypeInv, LinkInv, KnownTo, TypeOK, Claims
<1> QED
  BY <1>1, TypeInit, SoundStep, PTL DEF Spec, Sound

-----------------------------------------------------------------------------
(* What a certificate says, and what is said of it.                        *)

Honest(c) ==
  /\ c.ends <= c.expires /\ c.expires < c.ends + SecondTicks
  /\ c.kind = "vpn" => c.ends <= CAEnd

HonestInv ==
  /\ \A r \in Requests : request[r].step \in {"record", "answer"} => Honest(request[r].cert)
  /\ \A d \in delivered : Honest(d.cert)

LEMMA HonestStep == Sound /\ HonestInv /\ [Next]_vars => HonestInv'
<1> SUFFICES ASSUME Sound, HonestInv, [Next]_vars PROVE HonestInv'
  OBVIOUS
<1> USE DEF HonestInv
<1>1. CASE \E r \in Requests, u \in Users, k \in Kinds : Ask(r, u, k)
  BY <1>1 DEF Ask, Sound, TypeInv
<1>2. CASE \E r \in Requests : Grant(r)
  BY <1>2 DEF Grant, Sound, TypeInv
<1>3. ASSUME NEW r \in Requests, Sign(r) PROVE HonestInv'
  <2>1. PICK c : c = Certificate(request[r].user, request[r].kind, clock)
    OBVIOUS
  <2>2. Honest(c)
    BY <1>3, <2>1, SignSound, CertificateTimes DEF Honest, Asked, Sound, TypeInv
  <2>3. /\ request' = [request EXCEPT ![r] =
             [step |-> "record", begun |-> request[r].begun, cert |-> c]]
        /\ delivered' = delivered
    BY <1>3, <2>1, SignSound
  <2> QED  BY <2>2, <2>3 DEF Sound, TypeInv
<1>4. CASE \E r \in Requests : Record(r)
  BY <1>4 DEF Record, Sound, TypeInv
<1>5. ASSUME NEW r \in Requests, Answer(r) PROVE HonestInv'
  <2>1. Honest(request[r].cert)
    BY <1>5 DEF Answer
  <2>2. /\ request' = [request EXCEPT ![r] = Free]
        /\ delivered' = delivered \cup {[cert |-> request[r].cert, serial |-> request[r].serial]}
    BY <1>5, AnswerSound
  <2> QED  BY <2>1, <2>2 DEF Sound, TypeInv, Free
<1>6. ASSUME NEW r \in Requests, Refuse(r) \/ FailSign(r) \/ LoseAnswer(r) PROVE HonestInv'
  <2>1. request' = [request EXCEPT ![r] = Free] /\ delivered' = delivered
    BY <1>6, DropSound
  <2> QED  BY <2>1 DEF Sound, TypeInv, Free
<1>7. CASE \E u \in Users, x \in Roles : Withdraw(u, x)
  BY <1>7 DEF Withdraw
<1>8. CASE PassTime \/ LogsIn \/ UNCHANGED vars
  <2>1. request' = request /\ delivered' = delivered
    BY <1>8, RestSound
  <2> QED  BY <2>1
<1>9. CASE Restart
  BY <1>9, RestartSound DEF Free
<1> QED
  BY <1>1, <1>2, <1>3, <1>4, <1>5, <1>6, <1>7, <1>8, <1>9, Steps

\* For every lifetime, CA and length of a second: the portal never says that a
\* credential has ended while it is valid, is right to the second, and signs nothing
\* for longer than its CA lasts.
THEOREM ExpiriesAreHonest == Spec => []ExpiryIsHonest
<1>1. Init => HonestInv
  BY DEF Init, HonestInv, Free
<1>2. HonestInv => ExpiryIsHonest
  BY DEF HonestInv, Honest, ExpiryIsHonest
<1> QED
  BY <1>1, <1>2, TypeInit, SoundStep, HonestStep, PTL DEF Spec, Sound

-----------------------------------------------------------------------------
(* Tokens and credentials.                                                 *)

IssuedTo(u) == {i \in DOMAIN issued : issued[i].user = u}

PaidInv ==
  \A u \in Users :
    /\ IsFiniteSet(InFlight(u))
    /\ Cardinality(IssuedTo(u)) + Cardinality(InFlight(u)) <= Len(granted[u])

LEMMA AddOne ==
  ASSUME NEW S, IsFiniteSet(S), NEW x
  PROVE  /\ IsFiniteSet(S \cup {x}) /\ Cardinality(S \cup {x}) \in Nat
         /\ Cardinality(S \cup {x}) <= Cardinality(S) + 1
<1>1. IsFiniteSet(S \cup {x})
      /\ Cardinality(S \cup {x}) = IF x \in S THEN Cardinality(S) ELSE Cardinality(S) + 1
  BY FS_AddElement
<1>2. Cardinality(S) \in Nat /\ Cardinality(S \cup {x}) \in Nat
  BY <1>1, FS_CardinalityType
<1> QED  BY <1>1, <1>2

LEMMA IssuedIsFinite ==
  ASSUME TypeInv, NEW u
  PROVE  IsFiniteSet(IssuedTo(u)) /\ Cardinality(IssuedTo(u)) \in Nat
<1>1. IsFiniteSet(1..Len(issued)) /\ DOMAIN issued = 1..Len(issued)
  BY FS_Interval DEF TypeInv
<1>2. IsFiniteSet(IssuedTo(u))
  BY <1>1, FS_Subset DEF IssuedTo
<1> QED  BY <1>2, FS_CardinalityType

\* Nothing that is paid for comes to be, and no token is given back.
LEMMA PaidKept ==
  ASSUME TypeInv, PaidInv, UNCHANGED <<issued, granted>>,
         \A u \in Users : InFlight(u)' \subseteq InFlight(u)
  PROVE  PaidInv'
<1> SUFFICES ASSUME NEW u \in Users
             PROVE  /\ IsFiniteSet(InFlight(u)')
                    /\ Cardinality(IssuedTo(u)) + Cardinality(InFlight(u)') <= Len(granted[u])
  BY DEF PaidInv, IssuedTo
<1>1. /\ IsFiniteSet(InFlight(u)')
      /\ Cardinality(InFlight(u)') <= Cardinality(InFlight(u))
  BY FS_Subset DEF PaidInv
<1>2. /\ Cardinality(InFlight(u)') \in Nat /\ Cardinality(InFlight(u)) \in Nat
      /\ Cardinality(IssuedTo(u)) \in Nat
  BY <1>1, FS_CardinalityType, IssuedIsFinite DEF PaidInv
<1>3. Len(granted[u]) \in Nat
  BY DEF TypeInv
<1> QED  BY <1>1, <1>2, <1>3 DEF PaidInv

LEMMA GrantPaid ==
  ASSUME Sound, PaidInv, NEW r \in Requests, Grant(r)
  PROVE  PaidInv'
<1>1. /\ request[r] \in Asked /\ request[r].step = "limit"
      /\ request' = [request EXCEPT ![r].step = "sign"]
      /\ granted' = [granted EXCEPT ![request[r].user] = Append(@, clock)]
      /\ UNCHANGED issued
  BY GrantSound, InHand DEF Sound, Grant, storeVars
<1> SUFFICES ASSUME NEW u \in Users
             PROVE  /\ IsFiniteSet(InFlight(u)')
                    /\ Cardinality(IssuedTo(u)) + Cardinality(InFlight(u)') <= Len(granted'[u])
  BY <1>1 DEF PaidInv, IssuedTo
<1>2. /\ IsFiniteSet(InFlight(u)) /\ Cardinality(InFlight(u)) \in Nat
      /\ Cardinality(IssuedTo(u)) \in Nat /\ Len(granted[u]) \in Nat
  BY IssuedIsFinite, FS_CardinalityType DEF PaidInv, Sound, TypeInv
<1>3. CASE u = request[r].user
  <2>1. InFlight(u)' \subseteq InFlight(u) \cup {r}
    BY <1>1 DEF InFlight, Sound, TypeInv
  <2>2. /\ IsFiniteSet(InFlight(u) \cup {r})
        /\ Cardinality(InFlight(u) \cup {r}) <= Cardinality(InFlight(u)) + 1
        /\ Cardinality(InFlight(u) \cup {r}) \in Nat
    BY <1>2, AddOne
  <2>3. /\ IsFiniteSet(InFlight(u)')
        /\ Cardinality(InFlight(u)') <= Cardinality(InFlight(u) \cup {r})
        /\ Cardinality(InFlight(u)') \in Nat
    BY <2>1, <2>2, FS_Subset, FS_CardinalityType
  <2>4. Len(granted'[u]) = Len(granted[u]) + 1
    BY <1>1, <1>3 DEF Sound, TypeInv
  <2> QED  BY <1>2, <2>2, <2>3, <2>4 DEF PaidInv
<1>4. CASE u # request[r].user
  <2>1. InFlight(u)' = InFlight(u)
    BY <1>1, <1>4 DEF InFlight, Sound, TypeInv
  <2>2. granted'[u] = granted[u]
    BY <1>1, <1>4 DEF Sound, TypeInv
  <2> QED  BY <1>2, <2>1, <2>2 DEF PaidInv
<1> QED  BY <1>3, <1>4

LEMMA RecordPaid ==
  ASSUME Sound, PaidInv, NEW r \in Requests, Record(r)
  PROVE  PaidInv'
<1>1. /\ request[r] \in Signed /\ request[r].step = "record"
      /\ request' = [request EXCEPT ![r] =
           [step |-> "answer", begun |-> request[r].begun,
            cert |-> request[r].cert, serial |-> Len(issued) + 1]]
      /\ issued' = Append(issued, [user |-> request[r].cert.user,
           kind |-> request[r].cert.kind, expires |-> request[r].cert.expires])
      /\ UNCHANGED granted
  BY RecordSound DEF Signed
<1> SUFFICES ASSUME NEW u \in Users
             PROVE  /\ IsFiniteSet(InFlight(u)')
                    /\ Cardinality(IssuedTo(u)') + Cardinality(InFlight(u)') <= Len(granted[u])
  BY <1>1 DEF PaidInv
<1>2. /\ IsFiniteSet(InFlight(u)) /\ Cardinality(InFlight(u)) \in Nat
      /\ IsFiniteSet(IssuedTo(u)) /\ Cardinality(IssuedTo(u)) \in Nat
      /\ Len(granted[u]) \in Nat
  BY IssuedIsFinite, FS_CardinalityType DEF PaidInv, Sound, TypeInv
<1>3. CASE u = request[r].cert.user
  <2>1. r \in InFlight(u) /\ InFlight(u)' = InFlight(u) \ {r}
    BY <1>1, <1>3 DEF InFlight, Sound, TypeInv
  <2>2. /\ IsFiniteSet(InFlight(u)')
        /\ Cardinality(InFlight(u)') = Cardinality(InFlight(u)) - 1
    BY <1>2, <2>1, FS_RemoveElement
  <2>3. IssuedTo(u)' \subseteq IssuedTo(u) \cup {Len(issued) + 1}
    BY <1>1 DEF IssuedTo, Sound, TypeInv
  <2>4. /\ IsFiniteSet(IssuedTo(u) \cup {Len(issued) + 1})
        /\ Cardinality(IssuedTo(u) \cup {Len(issued) + 1}) <= Cardinality(IssuedTo(u)) + 1
    BY <1>2, AddOne
  <2>5. /\ Cardinality(IssuedTo(u)') <= Cardinality(IssuedTo(u) \cup {Len(issued) + 1})
        /\ Cardinality(IssuedTo(u)') \in Nat
        /\ Cardinality(IssuedTo(u) \cup {Len(issued) + 1}) \in Nat
    BY <2>3, <2>4, FS_Subset, FS_CardinalityType
  <2> QED  BY <1>2, <2>2, <2>4, <2>5 DEF PaidInv
<1>4. CASE u # request[r].cert.user
  <2>1. InFlight(u)' = InFlight(u)
    BY <1>1, <1>4 DEF InFlight, Sound, TypeInv
  <2>2. IssuedTo(u)' = IssuedTo(u)
    BY <1>1, <1>4 DEF IssuedTo, Sound, TypeInv
  <2> QED  BY <1>2, <2>1, <2>2 DEF PaidInv
<1> QED  BY <1>3, <1>4

\* A process begins with nothing paid for and nothing made.
LEMMA PaidInit == Init => PaidInv
<1> SUFFICES ASSUME Init, NEW u \in Users
             PROVE  /\ IsFiniteSet(InFlight(u))
                    /\ Cardinality(IssuedTo(u)) + Cardinality(InFlight(u)) <= Len(granted[u])
  BY DEF PaidInv
<1>1. InFlight(u) = {} /\ IssuedTo(u) = {} /\ granted[u] = <<>>
  BY DEF Init, Limiter!Init, InFlight, IssuedTo, Free
<1> QED  BY <1>1, FS_EmptySet

LEMMA RestartPaid ==
  ASSUME Sound, Restart
  PROVE  PaidInv'
<1> SUFFICES ASSUME NEW u \in Users
             PROVE  /\ IsFiniteSet(InFlight(u)')
                    /\ Cardinality(IssuedTo(u)') + Cardinality(InFlight(u)') <= Len(granted'[u])
  BY DEF PaidInv
<1>1. InFlight(u)' = {} /\ IssuedTo(u)' = {} /\ granted'[u] = <<>>
  BY RestartSound DEF InFlight, IssuedTo, Free
<1> QED  BY <1>1, FS_EmptySet

LEMMA PaidStep == Sound /\ PaidInv /\ [Next]_vars => PaidInv'
<1> SUFFICES ASSUME Sound, PaidInv, [Next]_vars PROVE PaidInv'
  OBVIOUS
<1>1. ASSUME NEW r \in Requests, NEW u \in Users, NEW k \in Kinds, Ask(r, u, k) PROVE PaidInv'
  <2>1. /\ request' = [request EXCEPT ![r] =
             [step |-> "limit", user |-> u, kind |-> k, begun |-> clock]]
        /\ UNCHANGED <<issued, granted>>
    BY <1>1 DEF Ask, Limiter!Arrive, storeVars
  <2>2. \A v \in Users : InFlight(v)' \subseteq InFlight(v)
    BY <2>1 DEF InFlight, Sound, TypeInv
  <2> QED  BY <2>1, <2>2, PaidKept DEF Sound
<1>2. ASSUME NEW r \in Requests, Sign(r) PROVE PaidInv'
  <2>1. PICK c : c = Certificate(request[r].user, request[r].kind, clock)
    OBVIOUS
  <2>2. /\ request[r].step = "sign" /\ c.user = request[r].user
        /\ request' = [request EXCEPT ![r] =
             [step |-> "record", begun |-> request[r].begun, cert |-> c]]
        /\ UNCHANGED <<issued, granted>>
    BY <1>2, <2>1, SignSound DEF Certificate
  <2>3. \A v \in Users : InFlight(v)' \subseteq InFlight(v)
    BY <2>2 DEF InFlight, Sound, TypeInv
  <2> QED  BY <2>2, <2>3, PaidKept DEF Sound
<1>3. ASSUME NEW r \in Requests, request' = [request EXCEPT ![r] = Free],
             UNCHANGED <<issued, granted>>
      PROVE  PaidInv'
  <2>1. \A v \in Users : InFlight(v)' \subseteq InFlight(v)
    BY <1>3 DEF InFlight, Sound, TypeInv, Free
  <2> QED  BY <1>3, <2>1, PaidKept DEF Sound
<1>4. ASSUME UNCHANGED <<request, issued, granted>> PROVE PaidInv'
  <2>1. \A v \in Users : InFlight(v)' \subseteq InFlight(v)
    BY <1>4 DEF InFlight
  <2> QED  BY <1>4, <2>1, PaidKept DEF Sound
<1>5. CASE \E u \in Users, x \in Roles : Withdraw(u, x)
  BY <1>4, <1>5 DEF Withdraw, storeVars, limiterVars
<1>6. CASE PassTime \/ LogsIn \/ UNCHANGED vars
  <2>1. UNCHANGED <<request, issued, granted>>
    BY <1>6, RestSound
  <2> QED  BY <1>4, <2>1
<1>7. CASE \E r \in Requests : Answer(r)
  BY <1>3, <1>7, AnswerSound
<1>8. CASE \E r \in Requests : Refuse(r) \/ FailSign(r) \/ LoseAnswer(r)
  BY <1>3, <1>8, DropSound
<1> QED
  BY <1>1, <1>2, <1>5, <1>6, <1>7, <1>8, GrantPaid, RecordPaid, RestartPaid, Steps

\* For any number of requests that overtake each other and fail: no user has more
\* credentials, recorded or on the way, than tokens were taken for.
THEOREM CredentialsPaidFor == Spec => []CredentialsArePaidFor
<1>1. PaidInv => CredentialsArePaidFor
  BY DEF PaidInv, CredentialsArePaidFor, MadeFor, IssuedTo
<1> QED
  BY <1>1, PaidInit, TypeInit, SoundStep, PaidStep, PTL DEF Spec, Sound

-----------------------------------------------------------------------------
(* Roles, and what they were good for.                                     *)

LEMMA WindowIsInt == SessionWindow \in Int /\ SessionDuration(Conf.auth) <= SessionWindow
BY ServedDurations, TimesAreNat DEF SessionWindow

\* At t, which is past, the user's roles granted this kind; or else they were all
\* gone no longer before than a login and its session may take.
Claim(u, k, t) ==
  /\ t <= clock
  /\ \/ AllowedFor(ProfileOf(k), MergeRoles(roles[u], LocalRoles(Conf, u)))
     \/ \E x \in ProfileOf(k).roles \cap Roles : t <= lost[u][x] + SessionWindow

\* The roles of a login's claims are the user's, or were when they were fixed.
LoginInv ==
  \A l \in Logins :
    /\ login[l].at <= clock
    /\ \A x \in login[l].roles :
         x \in roles[login[l].user] \/ login[l].at <= lost[login[l].user][x]

\* A cookie's roles are the user's, or were when the login was made that it is of.
CookieInv ==
  \A u \in Users :
    /\ session[u].expires <= clock + SessionDuration(Conf.auth)
    /\ \A x \in session[u].roles :
         x \in roles[u] \/ session[u].expires <= lost[u][x] + SessionWindow

\* The latest request that an answered credential can be for.
Start(c) == c.expires - ProfileOf(c.kind).duration - WriteTimeout

Entitled(q) ==
  /\ q.step \in {"limit", "sign"} => Claim(q.user, q.kind, q.begun)
  /\ q.step \in {"record", "answer"} =>
       /\ Claim(q.cert.user, q.cert.kind, q.begun)
       /\ q.cert.expires <= clock + ProfileOf(q.cert.kind).duration

RolesInv ==
  /\ LoginInv /\ CookieInv
  /\ \A r \in Requests : Entitled(request[r])
  /\ \A d \in delivered : Claim(d.cert.user, d.cert.kind, Start(d.cert))

\* What a step does to the clock and to roles: a role that is lost is lost now.
LEMMA RolesSteps ==
  ASSUME Sound, [Next]_vars
  PROVE  /\ clock \in Nat /\ clock' \in Nat /\ clock <= clock'
         /\ \A u \in Users : \A x \in Roles :
              \/ lost'[u][x] = lost[u][x] /\ (x \in roles'[u] <=> x \in roles[u])
              \/ lost'[u][x] = clock
<1>1. clock \in Nat
  BY DEF Sound, TypeInv
<1>2. CASE UNCHANGED <<roles, lost, clock>>
  BY <1>1, <1>2
<1>3. ASSUME NEW v \in Users, NEW y \in Roles, Withdraw(v, y)
      PROVE  /\ clock' = clock
             /\ \A u \in Users : \A x \in Roles :
                  \/ lost'[u][x] = lost[u][x] /\ (x \in roles'[u] <=> x \in roles[u])
                  \/ lost'[u][x] = clock
  BY <1>3 DEF Withdraw, Sound, TypeInv
<1>4. CASE \E r \in Requests, u \in Users, k \in Kinds : Ask(r, u, k)
  BY <1>2, <1>4 DEF Ask, Limiter!Arrive, peopleVars
<1>5. CASE \E r \in Requests : Grant(r)
  BY <1>2, <1>5 DEF Grant, Limiter!Allow, peopleVars
<1>6. CASE PassTime \/ LogsIn \/ UNCHANGED vars
  BY <1>1, <1>6, RestSound
<1>7. CASE \/ \E r \in Requests : Sign(r) \/ Record(r) \/ Answer(r)
           \/ \E r \in Requests : Refuse(r) \/ FailSign(r) \/ LoseAnswer(r)
  BY <1>2, <1>7, SignSound, RecordSound, AnswerSound, DropSound
<1>8. CASE Restart
  BY <1>2, <1>8, RestartSound
<1> QED
  BY <1>1, <1>3, <1>4, <1>5, <1>6, <1>7, <1>8, Steps

\* A claim stands: the role it rests on is lost, if at all, after its time.
LEMMA ClaimKept ==
  ASSUME Sound, [Next]_vars, NEW u \in Users, NEW k, NEW t \in Int, Claim(u, k, t)
  PROVE  Claim(u, k, t)'
<1> DEFINE wanted == ProfileOf(k).roles
           own == LocalRoles(Conf, u)
<1>1. SessionWindow \in Int /\ 0 < SessionWindow
  BY WindowIsInt, ServedDurations
<1>2. /\ clock \in Nat /\ clock' \in Nat /\ clock <= clock'
      /\ \A x \in Roles :
           \/ lost'[u][x] = lost[u][x] /\ (x \in roles'[u] <=> x \in roles[u])
           \/ lost'[u][x] = clock
  BY RolesSteps
<1>3. roles[u] \subseteq Roles /\ \A x \in Roles : lost[u][x] \in Int
  BY DEF Sound, TypeInv
<1>4. /\ t <= clock
      /\ \/ \E x \in wanted : x \in roles[u] \/ x \in own
         \/ \E x \in wanted \cap Roles : t <= lost[u][x] + SessionWindow
  BY DEF Claim, AllowedFor, MergeRoles
<1> HIDE DEF wanted, own
<1>5. \/ \E x \in wanted : x \in roles'[u] \/ x \in own
      \/ \E x \in wanted \cap Roles : t <= lost'[u][x] + SessionWindow
  <2>1. CASE \E x \in wanted : x \in own
    BY <2>1
  <2>2. ASSUME NEW x \in wanted \cap Roles, x \in roles[u] \/ t <= lost[u][x] + SessionWindow
        PROVE  x \in roles'[u] \/ t <= lost'[u][x] + SessionWindow
    BY <1>1, <1>2, <1>3, <1>4, <2>2
  <2> QED  BY <1>3, <1>4, <2>1, <2>2
<1> QED
  BY <1>2, <1>4, <1>5 DEF Claim, AllowedFor, MergeRoles, wanted, own

\* What one is entitled to at t, one is at any time before.
LEMMA ClaimEarlier ==
  ASSUME Sound, NEW u \in Users, NEW k, NEW t \in Int, NEW s \in Int, s <= t, Claim(u, k, t)
  PROVE  Claim(u, k, s)
<1>1. SessionWindow \in Int
  BY WindowIsInt
<1>2. clock \in Nat /\ \A x \in Roles : lost[u][x] \in Int
  BY DEF Sound, TypeInv
<1> QED
  BY <1>1, <1>2 DEF Claim

LEMMA EntitledKept ==
  ASSUME Sound, RolesInv, [Next]_vars, NEW r \in Requests, NEW q, q = request[r]
  PROVE  Entitled(q)'
<1>1. Entitled(q) /\ clock \in Nat /\ clock' \in Nat /\ clock <= clock'
  BY RolesSteps DEF RolesInv
<1>2. ASSUME q.step \in {"limit", "sign"} PROVE Claim(q.user, q.kind, q.begun)'
  <2>1. q \in Asked
    BY <1>2, InHand DEF Sound
  <2>2. PICK u, k, t : u = q.user /\ k = q.kind /\ t = q.begun
    OBVIOUS
  <2>3. u \in Users /\ t \in Int /\ Claim(u, k, t)
    BY <1>1, <1>2, <2>1, <2>2 DEF Entitled, Asked
  <2>4. Claim(u, k, t)'
    BY <2>3, ClaimKept
  <2> QED  BY <2>2, <2>4 DEF Claim
<1>3. ASSUME q.step \in {"record", "answer"}
      PROVE  /\ Claim(q.cert.user, q.cert.kind, q.begun)'
             /\ q.cert.expires <= clock' + ProfileOf(q.cert.kind).duration
  <2>1. q \in Signed \cup Answered
    BY <1>3, InHand DEF Sound
  <2>2. PICK u, k, t, e : u = q.cert.user /\ k = q.cert.kind /\ t = q.begun /\ e = q.cert.expires
    OBVIOUS
  <2>3. u \in Users /\ k \in Kinds /\ t \in Int /\ e \in Int
    BY <2>1, <2>2 DEF Signed, Answered, Certificates
  <2>4. Claim(u, k, t) /\ e <= clock + ProfileOf(k).duration
    BY <1>1, <1>3, <2>2 DEF Entitled
  <2>5. ProfileOf(k) # NoProfile
    BY <1>3, <2>2 DEF Sound, LinkInv
  <2>6. ProfileOf(k).duration \in Int
    BY <2>3, <2>5, ServedDurations
  <2>7. e <= clock' + ProfileOf(k).duration
    BY <1>1, <2>3, <2>4, <2>6
  <2>8. Claim(u, k, t)'
    BY <2>3, <2>4, ClaimKept
  <2> QED  BY <2>2, <2>7, <2>8 DEF Claim
<1> QED  BY <1>2, <1>3 DEF Entitled

\* A request that is as it was, or is given up, is entitled as it was.
LEMMA OtherEntitled ==
  ASSUME Sound, RolesInv, [Next]_vars, NEW p \in Requests,
         request'[p] = request[p] \/ request'[p] = Free
  PROVE  Entitled(request[p])'
<1>1. CASE request'[p] = request[p]
  <2>1. PICK q : q = request[p]
    OBVIOUS
  <2>2. Entitled(q)'
    BY <2>1, EntitledKept
  <2> QED  BY <1>1, <2>1, <2>2 DEF Entitled, Claim
<1>2. CASE request'[p] = Free
  BY <1>2 DEF Entitled, Free
<1> QED  BY <1>1, <1>2

LEMMA DeliveriesClaimed ==
  ASSUME Sound, RolesInv, [Next]_vars, NEW d \in delivered
  PROVE  Claim(d.cert.user, d.cert.kind, Start(d.cert))'
<1>1. PICK u, k, t : u = d.cert.user /\ k = d.cert.kind /\ t = Start(d.cert)
  OBVIOUS
<1>2. u \in Users /\ k \in Kinds /\ d.cert.expires \in Int /\ ProfileOf(k) # NoProfile
  BY <1>1 DEF Sound, LinkInv, Delivery, Certificates
<1>3. t \in Int
  BY <1>1, <1>2, ServedDurations, TimesAreNat DEF Start
<1>4. Claim(u, k, t)
  BY <1>1 DEF RolesInv
<1>5. Claim(u, k, t)'
  BY <1>2, <1>3, <1>4, ClaimKept
<1> QED  BY <1>1, <1>5 DEF Claim, Start

\* What a step does to the logins and to the cookies.
LEMMA LoginSteps ==
  ASSUME Sound, [Next]_vars
  PROVE  \/ UNCHANGED <<login, session>>
         \/ \E l \in Logins, u \in Users : Authenticate(l, u)
         \/ \E l \in Logins : SignIn(l)
<1>1. CASE PassTime \/ UNCHANGED vars
  BY <1>1 DEF PassTime, vars, peopleVars
<1>2. CASE LogsIn
  BY <1>2 DEF LogsIn
<1>3. CASE \E r \in Requests, v \in Users, k \in Kinds : Ask(r, v, k)
  BY <1>3 DEF Ask, peopleVars
<1>4. CASE \E r \in Requests : Grant(r)
  BY <1>4 DEF Grant, peopleVars
<1>5. CASE \/ \E r \in Requests : Sign(r) \/ Record(r) \/ Answer(r)
           \/ \E r \in Requests : Refuse(r) \/ FailSign(r) \/ LoseAnswer(r)
  BY <1>5, SignSound, RecordSound, AnswerSound, DropSound
<1>6. CASE \E v \in Users, x \in Roles : Withdraw(v, x)
  BY <1>6 DEF Withdraw
<1>7. CASE Restart
  BY <1>7, RestartSound
<1> QED  BY <1>1, <1>2, <1>3, <1>4, <1>5, <1>6, <1>7, Steps

LEMMA LoginKept ==
  ASSUME Sound, RolesInv, [Next]_vars
  PROVE  LoginInv'
<1> SUFFICES ASSUME NEW l \in Logins
             PROVE  /\ login'[l].at <= clock'
                    /\ \A x \in login'[l].roles :
                         \/ x \in roles'[login'[l].user]
                         \/ login'[l].at <= lost'[login'[l].user][x]
  BY DEF LoginInv
<1>1. /\ clock \in Nat /\ clock' \in Nat /\ clock <= clock'
      /\ \A u \in Users : \A x \in Roles :
           \/ lost'[u][x] = lost[u][x] /\ (x \in roles'[u] <=> x \in roles[u])
           \/ lost'[u][x] = clock
  BY RolesSteps
<1>2. /\ login[l] \in Claims \/ login[l] = NoLogin
      /\ login[l].at <= clock
      /\ \A x \in login[l].roles :
           x \in roles[login[l].user] \/ login[l].at <= lost[login[l].user][x]
  BY DEF Sound, TypeInv, RolesInv, LoginInv
<1>3. CASE login'[l] = login[l]
  <2>1. CASE login[l] = NoLogin
    BY <1>1, <1>3, <2>1 DEF NoLogin
  <2>2. CASE login[l] \in Claims
    <3>1. PICK u, rs, t : u = login[l].user /\ rs = login[l].roles /\ t = login[l].at
      OBVIOUS
    <3>2. u \in Users /\ rs \subseteq Roles /\ t \in Nat
      BY <2>2, <3>1 DEF Claims
    <3>3. \A x \in rs : x \in roles[u] \/ t <= lost[u][x]
      BY <1>2, <3>1
    <3>4. t <= clock' /\ \A x \in rs : x \in roles'[u] \/ t <= lost'[u][x]
      BY <1>1, <1>2, <3>1, <3>2, <3>3
    <3> QED  BY <1>3, <3>1, <3>4
  <2> QED  BY <1>2, <2>1, <2>2
<1>4. CASE login'[l] = NoLogin
  BY <1>1, <1>4 DEF NoLogin
<1>5. ASSUME NEW u \in Users, Authenticate(l, u)
      PROVE  /\ login'[l].user = u /\ login'[l].roles = roles'[u] /\ login'[l].at = clock
             /\ clock' = clock
  BY <1>5 DEF Authenticate, Sound, TypeInv
<1>6. ASSUME NEW u \in Users, Authenticate(l, u)
      PROVE  /\ login'[l].at <= clock'
             /\ \A x \in login'[l].roles : x \in roles'[login'[l].user]
  BY ONLY <1>1, <1>5, <1>6
<1>7. (\E u \in Users : Authenticate(l, u)) \/ login'[l] = login[l] \/ login'[l] = NoLogin
  BY LoginSteps DEF Authenticate, SignIn, Sound, TypeInv
<1> QED  BY ONLY <1>3, <1>4, <1>6, <1>7

\* Complete: a login is finished in time, and its session lasts from there.
LEMMA SignedInLate ==
  ASSUME Sound, RolesInv, NEW l \in Logins, SignIn(l), NEW u \in Users
  PROVE  /\ UNCHANGED <<clock, roles, lost>>
         /\ \/ session'[u] = session[u]
            \/ /\ session'[u].expires = clock + SessionDuration(Conf.auth)
               /\ \A x \in session'[u].roles :
                    x \in roles[u] \/ session'[u].expires <= lost[u][x] + SessionWindow
<1> DEFINE SD == SessionDuration(Conf.auth)
<1>1. PICK v, rs, t : v = login[l].user /\ rs = login[l].roles /\ t = login[l].at
  OBVIOUS
<1>2. /\ login[l] \in Claims /\ clock <= t + FlowLifetime + WriteTimeout
      /\ session' = [session EXCEPT ![v] = [roles |-> rs, expires |-> clock + SD]]
      /\ UNCHANGED <<clock, roles, lost>>
  BY <1>1 DEF SignIn, Sound, TypeInv
<1>3. CASE u # v
  BY <1>2, <1>3 DEF Sound, TypeInv
<1>4. CASE u = v
  <2>1. session'[u] = [roles |-> rs, expires |-> clock + SD]
    BY <1>2, <1>4 DEF Sound, TypeInv
  <2>2. rs \subseteq Roles /\ t \in Nat /\ clock \in Nat /\ \A x \in Roles : lost[u][x] \in Int
    BY <1>1, <1>2 DEF Claims, Sound, TypeInv
  <2>3. \A x \in rs : x \in roles[u] \/ t <= lost[u][x]
    BY <1>1, <1>4 DEF RolesInv, LoginInv
  <2>4. SD \in Int /\ FlowLifetime \in Nat /\ WriteTimeout \in Nat
    BY ServedDurations, TimesAreNat
  <2> HIDE DEF SD
  <2>5. \A x \in rs : x \in roles[u] \/ clock + SD <= lost[u][x] + (FlowLifetime + WriteTimeout + SD)
    BY <1>2, <2>2, <2>3, <2>4
  <2> QED  BY <1>2, <2>1, <2>5 DEF SessionWindow, SD
<1> QED  BY <1>3, <1>4

LEMMA CookieKept ==
  ASSUME Sound, RolesInv, [Next]_vars
  PROVE  CookieInv'
<1> DEFINE SD == SessionDuration(Conf.auth)
<1> SUFFICES ASSUME NEW u \in Users
             PROVE  /\ session'[u].expires <= clock' + SD
                    /\ \A x \in session'[u].roles :
                         x \in roles'[u] \/ session'[u].expires <= lost'[u][x] + SessionWindow
  BY DEF CookieInv
<1>1. SD \in Int /\ SessionWindow \in Int /\ SD <= SessionWindow
  BY ServedDurations, WindowIsInt
<1>2. /\ clock \in Nat /\ clock' \in Nat /\ clock <= clock'
      /\ \A x \in Roles :
           \/ lost'[u][x] = lost[u][x] /\ (x \in roles'[u] <=> x \in roles[u])
           \/ lost'[u][x] = clock
  BY RolesSteps
<1>3. /\ session[u].expires \in Int /\ session[u].roles \subseteq Roles
      /\ roles[u] \subseteq Roles /\ \A x \in Roles : lost[u][x] \in Int
  BY DEF Sound, TypeInv
<1>4. /\ session[u].expires <= clock + SD
      /\ \A x \in session[u].roles : x \in roles[u] \/ session[u].expires <= lost[u][x] + SessionWindow
  BY DEF RolesInv, CookieInv
<1> HIDE DEF SD
<1>5. CASE session'[u] = session[u]
  BY <1>1, <1>2, <1>3, <1>4, <1>5
<1>6. CASE \E l \in Logins : SignIn(l)
  <2>1. /\ UNCHANGED <<clock, roles, lost>>
        /\ \/ session'[u] = session[u]
           \/ /\ session'[u].expires = clock + SD
              /\ \A x \in session'[u].roles :
                   x \in roles[u] \/ session'[u].expires <= lost[u][x] + SessionWindow
    BY <1>6, SignedInLate DEF SD
  <2> QED  BY <1>1, <1>2, <1>5, <2>1
<1>7. CASE \E l \in Logins, v \in Users : Authenticate(l, v)
  BY <1>5, <1>7 DEF Authenticate
<1> QED  BY <1>5, <1>6, <1>7, LoginSteps

\* identify and authorize: who asks is entitled, by a cookie that has not ended.
LEMMA AskEntitled ==
  ASSUME Sound, RolesInv, NEW r \in Requests, NEW u \in Users, NEW k \in Kinds, Ask(r, u, k)
  PROVE  Entitled(request[r])'
<1> DEFINE q == [step |-> "limit", user |-> u, kind |-> k, begun |-> clock]
<1>1. request'[r] = q /\ UNCHANGED <<clock, roles, lost>>
  BY DEF Ask, Limiter!Arrive, peopleVars, Sound, TypeInv
<1>2. /\ clock <= session[u].expires
      /\ \E x \in ProfileOf(k).roles : x \in session[u].roles \/ x \in LocalRoles(Conf, u)
  BY DEF Ask, SignedIn, AllowedFor, EffectiveRoles, MergeRoles
<1>3. SessionWindow \in Int
  BY WindowIsInt
<1>4. /\ clock \in Nat /\ session[u].expires \in Int /\ session[u].roles \subseteq Roles
      /\ \A x \in Roles : lost[u][x] \in Int
  BY DEF Sound, TypeInv
<1>5. \A x \in session[u].roles :
        x \in roles[u] \/ session[u].expires <= lost[u][x] + SessionWindow
  BY DEF RolesInv, CookieInv
<1>6. Claim(u, k, clock)
  BY <1>2, <1>3, <1>4, <1>5 DEF Claim, AllowedFor, MergeRoles
<1> QED  BY <1>1, <1>6 DEF Entitled, Claim

LEMMA SignEntitled ==
  ASSUME Sound, RolesInv, NEW r \in Requests, Sign(r)
  PROVE  Entitled(request[r])'
<1>1. PICK c, b : c = Certificate(request[r].user, request[r].kind, clock) /\ b = request[r].begun
  OBVIOUS
<1>2. /\ request[r] \in Asked /\ request[r].step = "sign"
      /\ ProfileOf(request[r].kind) # NoProfile
      /\ request' = [request EXCEPT ![r] = [step |-> "record", begun |-> b, cert |-> c]]
      /\ UNCHANGED <<clock, roles, lost>>
  BY <1>1, SignSound
<1>3. /\ c.user = request[r].user /\ c.kind = request[r].kind
      /\ c.expires <= clock + ProfileOf(c.kind).duration
  BY <1>1, <1>2, CertificateTimes DEF Asked, Sound, TypeInv
<1>4. Claim(c.user, c.kind, b)
  BY <1>1, <1>2, <1>3 DEF RolesInv, Entitled
<1>5. request'[r] = [step |-> "record", begun |-> b, cert |-> c]
  BY <1>2 DEF Sound, TypeInv
<1> QED  BY <1>2, <1>3, <1>4, <1>5 DEF Entitled, Claim

\* Limiter and store add nothing to a claim.
LEMMA PassedOnEntitled ==
  ASSUME Sound, RolesInv, NEW r \in Requests, Grant(r) \/ Record(r)
  PROVE  Entitled(request[r])'
<1>1. CASE Grant(r)
  <2>1. /\ request[r] \in Asked /\ request[r].step = "limit"
        /\ request' = [request EXCEPT ![r].step = "sign"]
        /\ UNCHANGED <<clock, roles, lost>>
    BY <1>1, GrantSound, InHand DEF Sound, Grant, Limiter!Allow, peopleVars
  <2>2. /\ request'[r].user = request[r].user /\ request'[r].kind = request[r].kind
        /\ request'[r].begun = request[r].begun /\ request'[r].step = "sign"
    BY <2>1 DEF Sound, TypeInv, Asked
  <2>3. Claim(request[r].user, request[r].kind, request[r].begun)
    BY <2>1 DEF RolesInv, Entitled
  <2> QED  BY <2>1, <2>2, <2>3 DEF Entitled, Claim
<1>2. CASE Record(r)
  <2>1. PICK c, b, n : c = request[r].cert /\ b = request[r].begun /\ n = Len(issued) + 1
    OBVIOUS
  <2>2. /\ request[r] \in Signed
        /\ request' = [request EXCEPT ![r] =
             [step |-> "answer", begun |-> b, cert |-> c, serial |-> n]]
        /\ UNCHANGED <<clock, roles, lost>>
    BY <1>2, <2>1, RecordSound
  <2>3. request'[r] = [step |-> "answer", begun |-> b, cert |-> c, serial |-> n]
    BY <2>2 DEF Sound, TypeInv
  <2>4. Claim(c.user, c.kind, b) /\ c.expires <= clock + ProfileOf(c.kind).duration
    BY <2>1, <2>2 DEF RolesInv, Entitled, Signed
  <2> QED  BY <2>2, <2>3, <2>4 DEF Entitled, Claim
<1> QED  BY <1>1, <1>2

\* An answer in time is an answer to a request not long before.
LEMMA AnswerClaimed ==
  ASSUME Sound, RolesInv, NEW r \in Requests, Answer(r), NEW c, c = request[r].cert
  PROVE  Claim(c.user, c.kind, Start(c))
<1>1. PICK b : b = request[r].begun
  OBVIOUS
<1>2. /\ request[r] \in Answered /\ request[r].step = "answer"
      /\ clock <= b + WriteTimeout
  BY <1>1, AnswerSound DEF Answer
<1>3. /\ b \in Nat /\ c.user \in Users /\ c.kind \in Kinds /\ c.expires \in Int
      /\ ProfileOf(c.kind) # NoProfile
  BY <1>1, <1>2 DEF Answered, Certificates, Sound, LinkInv
<1>4. Claim(c.user, c.kind, b) /\ c.expires <= clock + ProfileOf(c.kind).duration
  BY <1>1, <1>2 DEF RolesInv, Entitled
<1>5. ProfileOf(c.kind).duration \in Int /\ WriteTimeout \in Nat /\ clock \in Nat
  BY <1>3, ServedDurations, TimesAreNat DEF Sound, TypeInv
<1>6. Start(c) \in Int /\ Start(c) <= b
  BY <1>2, <1>3, <1>4, <1>5 DEF Start
<1> QED  BY <1>3, <1>4, <1>6, ClaimEarlier

LEMMA RolesStep == Sound /\ RolesInv /\ [Next]_vars => RolesInv'
<1> SUFFICES ASSUME Sound, RolesInv, [Next]_vars PROVE RolesInv'
  OBVIOUS
<1>1. LoginInv' /\ CookieInv'
  BY LoginKept, CookieKept
<1>2. ASSUME NEW p \in Requests PROVE Entitled(request[p])'
  <2>1. ASSUME NEW r \in Requests, NEW u \in Users, NEW k \in Kinds, Ask(r, u, k)
        PROVE  Entitled(request[p])'
    <3>1. CASE p = r
      BY <2>1, <3>1, AskEntitled
    <3>2. CASE p # r
      BY <2>1, <3>2, OtherEntitled DEF Ask, Sound, TypeInv
    <3> QED  BY <3>1, <3>2
  <2>2. ASSUME NEW r \in Requests, Grant(r) \/ Record(r) PROVE Entitled(request[p])'
    <3>1. CASE p = r
      BY <2>2, <3>1, PassedOnEntitled
    <3>2. CASE p # r
      BY <2>2, <3>2, OtherEntitled DEF Grant, Record, Sound, TypeInv
    <3> QED  BY <3>1, <3>2
  <2>3. ASSUME NEW r \in Requests, Sign(r) PROVE Entitled(request[p])'
    <3>1. CASE p = r
      BY <2>3, <3>1, SignEntitled
    <3>2. CASE p # r
      BY <2>3, <3>2, OtherEntitled DEF Sign, Sound, TypeInv
    <3> QED  BY <3>1, <3>2
  <2>4. ASSUME NEW r \in Requests, request' = [request EXCEPT ![r] = Free]
        PROVE  Entitled(request[p])'
    BY <2>4, OtherEntitled DEF Sound, TypeInv
  <2>5. ASSUME request' = request PROVE Entitled(request[p])'
    BY <2>5, OtherEntitled
  <2>6. CASE \E r \in Requests : Answer(r)
    BY <2>4, <2>6 DEF Answer
  <2>7. CASE \E r \in Requests : Refuse(r) \/ FailSign(r) \/ LoseAnswer(r)
    BY <2>4, <2>7, DropSound
  <2>8. CASE \E u \in Users, x \in Roles : Withdraw(u, x)
    BY <2>5, <2>8 DEF Withdraw
  <2>9. CASE Restart
    <3>1. request'[p] = Free
      BY <2>9, RestartSound
    <3> QED  BY <3>1, OtherEntitled
  <2>10. CASE PassTime \/ LogsIn \/ UNCHANGED vars
    <3>1. request' = request
      BY <2>10, RestSound
    <3> QED  BY <2>5, <3>1
  <2> QED  BY <2>1, <2>2, <2>3, <2>6, <2>7, <2>8, <2>9, <2>10, Steps
<1>3. ASSUME NEW d \in delivered' PROVE Claim(d.cert.user, d.cert.kind, Start(d.cert))'
  <2>1. CASE d \in delivered
    BY <2>1, DeliveriesClaimed
  <2>2. ASSUME NEW r \in Requests, Answer(r), d \notin delivered
        PROVE  Claim(d.cert.user, d.cert.kind, Start(d.cert))'
    <3>1. PICK c, n : c = request[r].cert /\ n = request[r].serial
      OBVIOUS
    <3>2. d = [cert |-> c, serial |-> n]
      BY <2>2, <3>1, AnswerSound
    <3>3. Claim(c.user, c.kind, Start(c)) /\ UNCHANGED <<clock, roles, lost>>
      BY <2>2, <3>1, AnswerClaimed, AnswerSound
    <3> QED  BY <3>2, <3>3 DEF Claim, Start
  <2>3. CASE Restart
    <3>1. PICK old \in delivered : d.cert = old.cert
      BY <2>3, RestartSound
    <3>2. Claim(old.cert.user, old.cert.kind, Start(old.cert))'
      BY DeliveriesClaimed
    <3> QED  BY <3>1, <3>2 DEF Claim, Start
  <2>4. CASE ~Restart /\ \A r \in Requests : ~Answer(r)
    <3>1. delivered' = delivered
      <4>1. CASE \E r \in Requests, u \in Users, k \in Kinds : Ask(r, u, k)
        BY <4>1 DEF Ask
      <4>2. CASE \/ \E r \in Requests : Grant(r) \/ Sign(r) \/ Record(r)
                 \/ \E u \in Users, x \in Roles : Withdraw(u, x)
        BY <4>2 DEF Grant, Sign, Record, Withdraw
      <4>3. CASE \E r \in Requests : Refuse(r) \/ FailSign(r) \/ LoseAnswer(r)
        BY <4>3, DropSound
      <4>4. CASE PassTime \/ LogsIn \/ UNCHANGED vars
        BY <4>4, RestSound
      <4> QED  BY <2>4, <4>1, <4>2, <4>3, <4>4, Steps
    <3> QED  BY <2>1, <3>1
  <2> QED  BY <2>1, <2>2, <2>3, <2>4
<1> QED
  BY <1>1, <1>2, <1>3 DEF RolesInv

\* For every profile, and every length of a login, a session and an answer: whoever
\* holds a credential has a role that grants it, or had one no longer ago than these
\* and the credential's own lifetime allow, however often Gruff was restarted.
THEOREM AccessEndsWithRoles == Spec => []CredentialsEndWithRoles
<1>1. Init => RolesInv
  <2> SUFFICES ASSUME Init PROVE RolesInv
    OBVIOUS
  <2>1. LoginInv
    BY DEF Init, Limiter!Init, LoginInv, NoLogin
  <2>2. CookieInv
    BY ServedDurations DEF Init, Limiter!Init, CookieInv, NoSession
  <2> QED  BY <2>1, <2>2 DEF Init, RolesInv, Entitled, Free
<1>2. Sound /\ RolesInv => CredentialsEndWithRoles
  <2> SUFFICES ASSUME Sound, RolesInv, NEW d \in delivered
               PROVE  \/ AllowedFor(ProfileOf(d.cert.kind),
                                    MergeRoles(roles[d.cert.user], LocalRoles(Conf, d.cert.user)))
                      \/ \E x \in ProfileOf(d.cert.kind).roles \cap Roles :
                           d.cert.expires <= lost[d.cert.user][x] + SessionWindow
                                      + WriteTimeout + ProfileOf(d.cert.kind).duration
    BY DEF CredentialsEndWithRoles
  <2>1. PICK u, k, e : u = d.cert.user /\ k = d.cert.kind /\ e = d.cert.expires
    OBVIOUS
  <2>2. u \in Users /\ k \in Kinds /\ e \in Int /\ ProfileOf(k) # NoProfile
    BY <2>1 DEF Sound, LinkInv, Delivery, Certificates
  <2>3. /\ ProfileOf(k).duration \in Int /\ SessionWindow \in Int
        /\ WriteTimeout \in Int /\ \A x \in Roles : lost[u][x] \in Int
    BY <2>2, ServedDurations, WindowIsInt, TimesAreNat DEF Sound, TypeInv
  <2>4. Claim(u, k, e - ProfileOf(k).duration - WriteTimeout)
    BY <2>1 DEF RolesInv, Start
  <2> QED  BY <2>1, <2>2, <2>3, <2>4 DEF Claim
<1> QED
  BY <1>1, <1>2, TypeInit, SoundStep, RolesStep, PTL DEF Spec, Sound

-----------------------------------------------------------------------------
(* Sessions and credentials.                                               *)

SP == INSTANCE SessionStore_proofs WITH
  now <- clock, revoked <- {}, ordered <- {},
  Lifetimes <- Int, MaxTrackedSessions <- Conf.maxTrackedSessions

\* The process died, and the store with it.
StoreLost == issued' = <<>> /\ held' = {} /\ UNCHANGED clock

\* To the store, the handlers are callers that add what they signed, whatever life
\* that has left, while the clock runs on; and it is lost with its process.
LEMMA StoreStep == Sound /\ [Next]_vars => [SP!StoreNext \/ StoreLost]_(SP!storeVars)
<1> SUFFICES ASSUME Sound, [Next]_vars
             PROVE  SP!StoreNext \/ StoreLost \/ UNCHANGED <<clock, issued, held>>
  BY DEF SP!storeVars
<1>1. CASE PassTime
  BY <1>1 DEF PassTime, Limiter!PassTime, storeVars, SP!StoreNext, SP!Tick
<1>2. ASSUME NEW r \in Requests, Record(r) PROVE SP!StoreNext
  <2>1. PICK c : c = request[r].cert
    OBVIOUS
  <2>2. request[r].step = "record" /\ Store!Add(c.user, c.kind, c.expires - clock)
    BY <1>2, <2>1 DEF Record
  <2>3. c.user \in Users /\ c.kind \in Kinds /\ c.expires - clock \in Int
    BY <2>1, <2>2, InHand DEF Sound, TypeInv, Signed, Certificates
  <2>4. \A u, k, l : Store!Add(u, k, l) => SP!Add(u, k, l)
    BY Zenon DEF Store!Add, SP!Add, Store!Prune, SP!Prune, Store!Longest, SP!Longest,
       Store!Unexpired, SP!Unexpired, Store!Expired, SP!Expired, Store!Outlives, SP!Outlives,
       Store!MaxSessions, SP!MaxSessions, Store!Cardinality, SP!Cardinality
  <2> QED  BY <2>2, <2>3, <2>4 DEF SP!StoreNext, SP!Kinds, Kinds
<1>3. CASE \E r \in Requests, u \in Users, k \in Kinds : Ask(r, u, k)
  BY <1>3 DEF Ask, Limiter!Arrive, storeVars
<1>4. CASE \E r \in Requests : Grant(r) \/ Refuse(r)
  BY <1>4 DEF Grant, Refuse, Limiter!Allow, Limiter!Refuse, storeVars
<1>5. CASE \E r \in Requests : Sign(r) \/ FailSign(r) \/ Answer(r) \/ LoseAnswer(r)
  BY <1>5 DEF Sign, FailSign, Answer, LoseAnswer, storeVars
<1>6. CASE LogsIn \/ \E u \in Users, x \in Roles : Withdraw(u, x)
  BY <1>6 DEF LogsIn, Authenticate, SignIn, Withdraw, storeVars
<1>7. CASE Restart
  BY <1>7, RestartSound DEF StoreLost, Restart
<1>8. CASE UNCHANGED vars
  BY <1>8 DEF vars, storeVars
<1> QED  BY <1>1, <1>2, <1>3, <1>4, <1>5, <1>6, <1>7, <1>8 DEF Next, Handle, LogsIn

\* Both handlers use the store of module SessionStore, with certificates of any life,
\* and every process begins with an empty one: what is proved there of the list holds
\* of what a process records.
THEOREM StoreIsUsed == Spec => SP!StoreInit /\ [][SP!StoreNext \/ StoreLost]_(SP!storeVars)
<1>1. Init => SP!StoreInit
  BY DEF Init, Limiter!Init, SP!StoreInit
<1> QED
  BY <1>1, TypeInit, SoundStep, StoreStep, PTL DEF Spec, Sound

\* The list is right from one process to the next.
StoreInv == SP!StoreTypeOK /\ SP!HeldAreTheLongestLived

LEMMA StoreInvHolds == Spec => []StoreInv
<1>1. Int \subseteq Int /\ MaxIssued \in Nat /\ MaxTime \in Nat
  BY TimesAreNat
<1>2. SP!StoreInit => StoreInv
  BY <1>1, BoundsAreInt, SP!StoreTypeInit, SP!RetentionInit DEF StoreInv
<1>3. StoreInv /\ [SP!StoreNext]_(SP!storeVars) => StoreInv'
  BY <1>1, BoundsAreInt, SP!StoreTypeStep, SP!RetentionStep DEF StoreInv
<1>4. ASSUME StoreInv, StoreLost PROVE StoreInv'
  <2>1. clock \in Nat
    BY <1>4 DEF StoreInv, SP!StoreTypeOK
  <2>2. SP!StoreTypeOK'
    BY <1>4, <2>1 DEF StoreLost, SP!StoreTypeOK, SP!Serials
  <2>3. SP!HeldAreTheLongestLived'
    BY <1>4 DEF StoreLost, SP!HeldAreTheLongestLived, SP!Unexpired, SP!Prune, SP!Longest, SP!Serials
  <2> QED  BY <2>2, <2>3 DEF StoreInv
<1>5. StoreInv /\ [SP!StoreNext \/ StoreLost]_(SP!storeVars) => StoreInv'
  BY <1>3, <1>4
<1> QED
  BY <1>2, <1>5, StoreIsUsed, PTL

\* For every bound of the list and every interleaving of requests: a credential that
\* reached its user can be revoked to its last instant, while the process that issued
\* it lives, or as many credentials that outlive it as the list may hold are held in
\* its place.
THEOREM DeliveredAreRevocable == Spec => []DeliveredCanBeRevoked
<1>1. StoreInv => SP!MissingAreOutlived
  <2>1. Int \subseteq Int
    OBVIOUS
  <2>2. MaxIssued \in Nat /\ MaxTime \in Nat
    BY TimesAreNat
  <2> QED  BY <2>1, <2>2, BoundsAreInt, SP!MissingFollows DEF StoreInv
<1>2. Sound /\ HonestInv /\ SP!MissingAreOutlived => DeliveredCanBeRevoked
  <2> SUFFICES ASSUME Sound, HonestInv, SP!MissingAreOutlived,
                      NEW d \in delivered, d.serial # Forgotten, clock <= d.cert.ends
               PROVE  \/ /\ d.serial \in Store!VisibleTo(d.cert.user, FALSE)
                         /\ issued[d.serial].kind = d.cert.kind
                      \/ Cardinality({s \in held : Store!Outlives(issued, s, d.serial)})
                           >= Store!MaxSessions
    BY DEF DeliveredCanBeRevoked
  <2>1. PICK c, n : c = d.cert /\ n = d.serial
    OBVIOUS
  <2>2. /\ c \in Certificates /\ c.ends <= c.expires
        /\ n \in DOMAIN issued
        /\ issued[n] = [user |-> c.user, kind |-> c.kind, expires |-> c.expires]
    BY <2>1 DEF Sound, LinkInv, Delivery, KnownTo, HonestInv, Honest
  <2>3. clock \in Int /\ c.ends \in Int /\ c.expires \in Int /\ clock <= c.ends
    BY <2>1, <2>2 DEF Sound, TypeInv, Certificates
  <2>4. n \in SP!Serials /\ ~SP!Expired(issued, n, clock)
    BY <2>2, <2>3 DEF Sound, TypeInv, SP!Serials, SP!Expired
  <2>5. \/ n \in SP!Prune(issued, held, clock)
        \/ SP!Cardinality({t \in held : SP!Outlives(issued, t, n)}) >= SP!MaxSessions
    BY <2>4 DEF SP!MissingAreOutlived
  <2>6. /\ SP!Prune(issued, held, clock) = Store!Prune(issued, held, clock)
        /\ SP!Cardinality({t \in held : SP!Outlives(issued, t, n)})
             = Cardinality({t \in held : Store!Outlives(issued, t, n)})
        /\ SP!MaxSessions = Store!MaxSessions
    BY Zenon DEF SP!Prune, Store!Prune, SP!Longest, Store!Longest, SP!Unexpired,
       Store!Unexpired, SP!Expired, Store!Expired, SP!Outlives, Store!Outlives,
       SP!MaxSessions, Store!MaxSessions, SP!Cardinality, Store!Cardinality, Cardinality
  <2>7. CASE n \in SP!Prune(issued, held, clock)
    BY <2>1, <2>2, <2>6, <2>7 DEF Store!VisibleTo
  <2> QED  BY <2>1, <2>5, <2>6, <2>7
<1>3. Init => HonestInv
  BY DEF Init, HonestInv, Free
<1> QED
  BY <1>1, <1>2, <1>3, StoreInvHolds, TypeInit, SoundStep, HonestStep, PTL DEF Spec, Sound

-----------------------------------------------------------------------------
(* What the limiter's budget is worth to the handlers. Nothing here keeps what *)
(* a refused user was told (RetryAfter).                                       *)

LP == INSTANCE RateLimit_proofs WITH
  PerHour <- IssueLimit(Conf), told <- [u \in Users |-> {}]

\* The limiter that the handlers use is the one of those proofs.
LEMMA SameLimiter == Limiter!Spec => LP!Spec
<1> DEFINE Written(w, swept) ==
      /\ buckets' = [v \in DOMAIN w \ swept |-> w[v]]
      /\ forgets' = [v \in Users |-> IF v \in swept THEN forgets[v] + 1 ELSE forgets[v]]
<1>1. \A u, t : Limiter!Refill(u, t) = LP!Refill(u, t)
  BY Zenon DEF Limiter!Refill, LP!Refill, Limiter!Lesser, LP!Lesser, Limiter!Hour, LP!Hour
<1>2. \A bs, t : Limiter!Swept(bs, t) = LP!Swept(bs, t)
  BY Zenon DEF Limiter!Swept, LP!Swept, Limiter!Fresh, LP!Fresh, Limiter!Hour, LP!Hour,
     Limiter!Cardinality, LP!Cardinality, Limiter!IsFiniteSet, LP!IsFiniteSet
<1>3. \A u, t, k : Limiter!Touch(u, t, k) <=> LP!Touch(u, t, k)
  <2> TAKE u, t, k
  <2>1. PICK w : w = [v \in DOMAIN buckets \cup {u} |->
                       IF v = u THEN [tokens |-> k, last |-> t] ELSE buckets[v]]
    OBVIOUS
  <2>2. Limiter!Swept(w, t) = LP!Swept(w, t)
    BY <1>2
  <2>3. /\ Limiter!Touch(u, t, k) <=> Written(w, Limiter!Swept(w, t))
        /\ LP!Touch(u, t, k) <=> Written(w, LP!Swept(w, t))
    BY <2>1, Zenon DEF Limiter!Touch, LP!Touch, Written
  <2> QED  BY <2>2, <2>3
<1>4. Limiter!None = LP!None
  BY DEF Limiter!None, LP!None
<1>5. Limiter!Init => LP!Init
  BY <1>4, Zenon DEF Limiter!Init, LP!Init
<1>6. Limiter!PassTime => LP!PassTime
  BY <1>4, Zenon DEF Limiter!PassTime, LP!PassTime
<1>7. \A r, u : Limiter!Arrive(r, u) => LP!Arrive(r, u)
  BY <1>4, Zenon DEF Limiter!Arrive, LP!Arrive
<1>8. \A r : Limiter!Allow(r) => LP!Allow(r)
  BY <1>1, <1>3, <1>4, Zenon DEF Limiter!Allow, LP!Allow, Limiter!Enough, LP!Enough
<1>9. \A r : Limiter!Refuse(r) => LP!Refuse(r)
  BY <1>1, <1>3, <1>4, Zenon DEF Limiter!Refuse, LP!Refuse, Limiter!Enough, LP!Enough
<1>10. Limiter!Restart => LP!Restart
  BY <1>4, Zenon DEF Limiter!Restart, LP!Restart
<1>11. [Limiter!Next]_(Limiter!vars) => [LP!Next]_(LP!vars)
  BY <1>6, <1>7, <1>8, <1>9, <1>10 DEF Limiter!Next, LP!Next, Limiter!vars, LP!vars
<1> QED
  BY <1>5, <1>11, PTL DEF Limiter!Spec, LP!Spec

\* What was granted bounds what was made, and the budget what was granted.
LEMMA WhatABudgetBuys ==
  ASSUME Sound, PaidInv, LP!TypeOK, LP!BudgetHolds, NEW u \in Users, granted[u] # <<>>
  PROVE  MadeFor(u) * TokenTicks
           <= Limiter!Hour + (clock - granted[u][1]) + (2 * forgets[u] + 1) * MaxLag
<1> DEFINE n == Len(granted[u])
<1>1. granted[u] \in Seq(Nat)
  BY DEF Sound, TypeInv
<1>2. n \in Nat /\ 1 \in DOMAIN granted[u] /\ n - 1 + 1 = n
  BY <1>1
<1>3. MadeFor(u) \in Nat /\ MadeFor(u) <= n
  <2>1. IsFiniteSet(IssuedTo(u)) /\ IsFiniteSet(InFlight(u))
    BY IssuedIsFinite DEF PaidInv, Sound, TypeInv
  <2>2. Cardinality(IssuedTo(u)) \in Nat /\ Cardinality(InFlight(u)) \in Nat
    BY <2>1, FS_CardinalityType
  <2>3. MadeFor(u) = Cardinality(IssuedTo(u)) + Cardinality(InFlight(u))
    BY DEF MadeFor, IssuedTo
  <2> QED  BY <2>2, <2>3 DEF PaidInv
<1>4. LP!SpentSince(u, 1) = n * TokenTicks
  BY <1>2 DEF LP!SpentSince
<1>5. n * TokenTicks <= LP!Hour + (clock - granted[u][1]) + (2 * forgets[u] + 1) * MaxLag
  BY <1>2, <1>4 DEF LP!BudgetHolds
<1>6. LP!Hour = Limiter!Hour /\ LP!Hour \in Nat
  BY LimiterIsOn DEF LP!Hour, Limiter!Hour
<1>7. TokenTicks \in Nat
  BY LimiterIsOn
<1>8. MadeFor(u) * TokenTicks <= n * TokenTicks
  <2> HIDE DEF n
  <2>1. \A a, b \in Nat : a <= b => a * TokenTicks <= b * TokenTicks
    BY <1>7
  <2> QED  BY <1>2, <1>3, <2>1
<1>9. /\ clock \in Nat /\ granted[u][1] \in Nat
      /\ (2 * forgets[u] + 1) * MaxLag \in Nat
  BY <1>1, <1>2, LimiterIsOn DEF LP!TypeOK
<1>10. PICK blur : blur = (2 * forgets[u] + 1) * MaxLag
  OBVIOUS
<1>11. PICK spent, made : spent = n * TokenTicks /\ made = MadeFor(u) * TokenTicks
  OBVIOUS
<1>12. spent \in Nat /\ made \in Nat
  BY <1>2, <1>3, <1>7, <1>11
<1> QED
  BY <1>5, <1>6, <1>8, <1>9, <1>10, <1>11, <1>12

\* Over both handlers, whatever fails between a grant and its answer: no user gets
\* more credentials of a process than the hourly limit and what refills (rateLimited, limiter).
THEOREM IssuanceIsWithinBudget == Spec => []IssuedWithinBudget
<1>1. LP!Spec => []LP!TypeOK
  BY LimiterIsOn, TimesAreNat, NoRequestIsNoUser, LP!TypeCorrect
<1>2. LP!Spec => []LP!BudgetHolds
  BY LimiterIsOn, TimesAreNat, NoRequestIsNoUser, LP!BudgetIsKept
<1>3. Sound /\ PaidInv /\ LP!TypeOK /\ LP!BudgetHolds => IssuedWithinBudget
  BY WhatABudgetBuys DEF IssuedWithinBudget
<1> QED
  BY <1>1, <1>2, <1>3, LimiterIsUsed, SameLimiter, PaidInit, TypeInit, SoundStep, PaidStep, PTL
     DEF Spec, Sound, UsesTheLimiter
=============================================================================
