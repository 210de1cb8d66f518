---------------------------- MODULE Login_proofs ----------------------------
(* Login's safety properties, for any number of browsers, tabs and users,   *)
(* any lifetimes, and any interleaving of requests and answers.             *)
(*                                                                          *)
(* The invariant follows a cookie from where it is sealed to where it is    *)
(* opened: in an answer on its way, in a jar, in a request. Wherever it is, *)
(* it is of a login that the same browser started. It is stated over a log  *)
(* of logins, of which only the end and the unset fields ever change.       *)
EXTENDS Login, TLAPS

Grows(log, log2) ==
    /\ DOMAIN log \subseteq DOMAIN log2
    /\ \A l \in DOMAIN log :
          /\ log2[l].browser = log[l].browser
          /\ log2[l].expires = log[l].expires
          /\ log[l].user # "nobody" => log2[l].user = log[l].user

OwnFlow(log, b, f) == f # 0 => f \in DOMAIN log /\ log[f].browser = b

OwnSession(log, b, s) ==
    s # NoSession =>
        /\ s.login \in DOMAIN log
        /\ log[s.login].browser = b
        /\ log[s.login].user = s.user
        /\ s.expires <= log[s.login].expires + WriteTimeout + SessionLifetime

OwnCookies(log, b, c) == OwnFlow(log, b, c.flow) /\ OwnSession(log, b, c.session)

\* What a tab x of browser b is doing.
OwnTab(log, b, x) ==
    /\ OwnCookies(log, b, x.sent)
    /\ \A f \in x.setFlow : OwnFlow(log, b, f)
    /\ \A s \in x.setSession : OwnSession(log, b, s)
    /\ x.at = "provider" \/ (x.at = "answered" /\ x.to = "provider") => x.login \in DOMAIN log
    /\ x.at \in {"callback", "exchanging"} =>
          x.login \in DOMAIN log /\ log[x.login].user # "nobody"
    /\ x.at = "exchanging" =>
          x.sent.flow = x.login /\ x.since <= log[x.login].expires

\* A login of an account that is disabled was started before it was.
SoundLogins(log, dis, time) ==
    \A l \in DOMAIN log :
        /\ log[l].spender \in {"nobody", log[l].browser}
        /\ log[l].expires <= time + FlowLifetime
        /\ log[l].user \in DOMAIN dis => log[l].expires <= dis[log[l].user] + FlowLifetime

IInv ==
    /\ TypeOK
    /\ \A b \in Browsers : OwnCookies(logins, b, jar[b])
    /\ \A t \in Tabs : OwnTab(logins, BrowserOf[t], tab[t])
    /\ SoundLogins(logins, disabled, now)

----------------------------------------------------------------------------
\* A log grows into itself.
LEMMA GrowsSelf ==
    ASSUME NEW log
    PROVE  Grows(log, log)
BY DEF Grows

\* Cookies stay a browser's own as the log grows.
LEMMA CookiesStayOwn ==
    ASSUME NEW log, NEW log2, Grows(log, log2), NEW b, NEW f, OwnFlow(log, b, f),
           NEW s \in Session, OwnSession(log, b, s)
    PROVE  OwnFlow(log2, b, f) /\ OwnSession(log2, b, s)
<1>1. OwnFlow(log2, b, f)
    BY DEF OwnFlow, Grows
<1>2. s # NoSession => s.user \in Users /\ s.user # "nobody"
    BY NobodyIsNoUser DEF Session
<1>3. OwnSession(log2, b, s)
    BY <1>2 DEF OwnSession, Grows
<1>4. QED
    BY <1>1, <1>3

LEMMA JarStaysOwn ==
    ASSUME NEW log, NEW log2, Grows(log, log2), NEW b, NEW c \in Jar, OwnCookies(log, b, c)
    PROVE  OwnCookies(log2, b, c)
<1>1. c.session \in Session
    BY DEF Jar
<1>2. QED
    BY <1>1, CookiesStayOwn DEF OwnCookies

\* And so does what a tab is doing.
LEMMA TabStaysOwn ==
    ASSUME NEW log, NEW log2, Grows(log, log2), NEW b, NEW x \in TabState, OwnTab(log, b, x)
    PROVE  OwnTab(log2, b, x)
<1>1. /\ x.sent \in Jar /\ x.setSession \subseteq Session
      /\ NoSession \in Session
    BY DEF TabState, Session
<1>2. OwnCookies(log2, b, x.sent)
    BY <1>1, JarStaysOwn DEF OwnTab
<1>3. OwnFlow(log, b, 0) /\ OwnSession(log, b, NoSession)
    BY DEF OwnFlow, OwnSession
<1>4. \A f \in x.setFlow : OwnFlow(log2, b, f)
    BY <1>1, <1>3, CookiesStayOwn DEF OwnTab
<1>5. \A s \in x.setSession : OwnSession(log2, b, s)
    BY <1>1, <1>3, CookiesStayOwn DEF OwnTab
<1>6. QED
    BY <1>2, <1>4, <1>5 DEF OwnTab, Grows

\* Home, a request with a browser's own cookies, and an answer with its own
\* Set-Cookie headers are things a tab may be doing.
LEMMA HomeIsOwn ==
    ASSUME NEW log, NEW b
    PROVE  Home \in TabState /\ OwnTab(log, b, Home)
BY DEF Home, TabState, Places, Jar, Session, NoCookies, NoSession, OwnTab, OwnCookies, OwnFlow, OwnSession

LEMMA RequestIsOwn ==
    ASSUME NEW log, NEW b, NEW c \in Jar, OwnCookies(log, b, c),
           NEW at \in {"home", "page", "login", "provider", "callback"}, NEW l \in Nat,
           at = "provider" => l \in DOMAIN log,
           at = "callback" => l \in DOMAIN log /\ log[l].user # "nobody"
    PROVE  Request(at, l, c) \in TabState /\ OwnTab(log, b, Request(at, l, c))
<1> DEFINE sent == [flow |-> IF at = "callback" THEN c.flow ELSE 0,
                    session |-> IF at \in {"page", "login"} THEN c.session ELSE NoSession]
<1>1. Request(at, l, c) =
          [at |-> at, login |-> l, sent |-> sent, since |-> 0,
           setFlow |-> {}, setSession |-> {}, to |-> "home"]
    BY DEF Request
<1>2. sent \in Jar /\ OwnCookies(log, b, sent)
    BY DEF Jar, Session, OwnCookies, OwnFlow, OwnSession
<1> HIDE DEF sent
<1>3. QED
    BY <1>1, <1>2 DEF TabState, Places, OwnTab

LEMMA ReplyIsOwn ==
    ASSUME NEW log, NEW b, NEW F \in SUBSET Nat, NEW S \in SUBSET Session,
           NEW to \in {"home", "page", "login", "provider"}, NEW l \in Nat,
           \A f \in F : OwnFlow(log, b, f), \A s \in S : OwnSession(log, b, s),
           to = "provider" => l \in DOMAIN log
    PROVE  Reply(F, S, to, l) \in TabState /\ OwnTab(log, b, Reply(F, S, to, l))
<1>1. Reply(F, S, to, l) =
          [at |-> "answered", login |-> l, sent |-> NoCookies, since |-> 0,
           setFlow |-> F, setSession |-> S, to |-> to]
    BY DEF Reply
<1>2. NoCookies \in Jar /\ OwnCookies(log, b, NoCookies)
    BY DEF NoCookies, Jar, Session, OwnCookies, OwnFlow, OwnSession
<1>3. QED
    BY <1>1, <1>2 DEF TabState, Places, OwnTab

\* One tab moves on while the log grows; the others go on with their own.
LEMMA TabMoves ==
    ASSUME NEW log, NEW log2, Grows(log, log2),
           NEW tb \in [Tabs -> TabState], \A u \in Tabs : OwnTab(log, BrowserOf[u], tb[u]),
           NEW t \in Tabs, NEW x \in TabState, OwnTab(log2, BrowserOf[t], x),
           NEW tb2, tb2 = [tb EXCEPT ![t] = x]
    PROVE  tb2 \in [Tabs -> TabState] /\ \A u \in Tabs : OwnTab(log2, BrowserOf[u], tb2[u])
BY TabStaysOwn

\* The same for the actions that leave the logins as they are.
LEMMA OnlyTabMoves ==
    ASSUME IInv, NEW t \in Tabs, NEW x \in TabState, OwnTab(logins, BrowserOf[t], x),
           tab' = [tab EXCEPT ![t] = x], UNCHANGED <<now, logins, jar, disabled>>
    PROVE  IInv'
<1>1. tab' \in [Tabs -> TabState] /\ \A u \in Tabs : OwnTab(logins, BrowserOf[u], tab'[u])
    BY GrowsSelf, TabMoves DEF IInv, TypeOK
<1>2. TypeOK'
    BY <1>1 DEF IInv, TypeOK
<1>3. QED
    BY <1>1, <1>2 DEF IInv

\* A tab of t's browser, its jar, and the login it is at.
LEMMA TabFacts ==
    ASSUME IInv, NEW t \in Tabs
    PROVE  /\ BrowserOf[t] \in Browsers
           /\ tab[t] \in TabState
           /\ OwnTab(logins, BrowserOf[t], tab[t])
           /\ jar[BrowserOf[t]] \in Jar
           /\ OwnCookies(logins, BrowserOf[t], jar[BrowserOf[t]])
BY TabsHaveBrowsers DEF IInv, TypeOK

LEMMA LoginFacts ==
    ASSUME IInv, NEW l \in DOMAIN logins
    PROVE  logins[l] \in Login /\ logins[l].expires \in Nat
<1>1. logins[l] \in Login
    BY DEF IInv, TypeOK
<1>2. QED
    BY <1>1 DEF Login

LEMMA InitOwn == Init => IInv
<1> SUFFICES ASSUME Init PROVE IInv
    OBVIOUS
<1>1. NoCookies \in Jar /\ \A b \in Browsers : OwnCookies(logins, b, NoCookies)
    BY DEF NoCookies, Jar, Session, OwnCookies, OwnFlow, OwnSession
<1>2. logins \in Seq(Login) /\ DOMAIN logins = {}
    BY DEF Init
<1>3. \A t \in Tabs : tab[t] = Home /\ OwnTab(logins, BrowserOf[t], Home) /\ Home \in TabState
    BY HomeIsOwn DEF Init
<1>4. TypeOK
    BY <1>1, <1>2, <1>3, HomeIsOwn DEF Init, TypeOK
<1>5. SoundLogins(logins, disabled, now)
    BY <1>2 DEF SoundLogins
<1>6. QED
    BY <1>1, <1>3, <1>4, <1>5 DEF Init, IInv

\* What an update of one login does to the log.
LEMMA UpdateGrows ==
    ASSUME NEW log \in Seq(Login), NEW l \in DOMAIN log, NEW r \in Login,
           r.browser = log[l].browser, r.expires = log[l].expires,
           log[l].user # "nobody" => r.user = log[l].user,
           NEW log2, log2 = [log EXCEPT ![l] = r]
    PROVE  /\ log2 \in Seq(Login) /\ DOMAIN log2 = DOMAIN log
           /\ log2[l] = r /\ \A k \in DOMAIN log : k # l => log2[k] = log[k]
           /\ Grows(log, log2)
<1>1. log2 \in Seq(Login) /\ DOMAIN log2 = DOMAIN log
    OBVIOUS
<1>2. log2[l] = r /\ \A k \in DOMAIN log : k # l => log2[k] = log[k]
    OBVIOUS
<1>3. QED
    BY <1>1, <1>2 DEF Grows

\* An action that grows the log and moves one tab, and leaves the rest alone.
LEMMA LogGrows ==
    ASSUME IInv, NEW t \in Tabs, NEW x \in TabState,
           logins' \in Seq(Login), Grows(logins, logins'), SoundLogins(logins', disabled, now),
           OwnTab(logins', BrowserOf[t], x),
           tab' = [tab EXCEPT ![t] = x], UNCHANGED <<now, jar, disabled>>
    PROVE  IInv'
<1>1. tab' \in [Tabs -> TabState] /\ \A u \in Tabs : OwnTab(logins', BrowserOf[u], tab'[u])
    BY TabMoves DEF IInv, TypeOK
<1>2. \A b \in Browsers : OwnCookies(logins', b, jar[b])
    BY JarStaysOwn DEF IInv, TypeOK
<1>3. TypeOK'
    BY <1>1 DEF IInv, TypeOK
<1>4. QED
    BY <1>1, <1>2, <1>3 DEF IInv

----------------------------------------------------------------------------
\* A request or an answer, or the end of one, that changes nothing else.
LEMMA Requests ==
    ASSUME IInv, NEW t \in Tabs, UNCHANGED <<now, logins, jar, disabled>>,
           NEW at \in {"page", "login", "callback"}, NEW l \in Nat,
           at = "callback" => l \in DOMAIN logins /\ logins[l].user # "nobody",
           Send(t, at, l)
    PROVE  IInv'
<1> DEFINE x == Request(at, l, jar[BrowserOf[t]])
<1>1. x \in TabState /\ OwnTab(logins, BrowserOf[t], x)
    BY TabFacts, RequestIsOwn
<1>2. tab' = [tab EXCEPT ![t] = x]
    BY DEF Send
<1> HIDE DEF x
<1>3. QED
    BY <1>1, <1>2, OnlyTabMoves

LEMMA Answers ==
    ASSUME IInv, NEW t \in Tabs, UNCHANGED <<now, logins, jar, disabled>>,
           NEW F \in SUBSET {0}, NEW S \in SUBSET {NoSession}, NEW to \in {"home", "page", "login"},
           Answer(t, F, S, to, 0)
    PROVE  IInv'
<1> DEFINE x == Reply(F, S, to, 0)
<1>1. /\ F \in SUBSET Nat /\ S \in SUBSET Session
      /\ \A f \in F : OwnFlow(logins, BrowserOf[t], f)
      /\ \A s \in S : OwnSession(logins, BrowserOf[t], s)
    BY DEF Session, OwnFlow, OwnSession
<1>2. x \in TabState /\ OwnTab(logins, BrowserOf[t], x)
    BY <1>1, ReplyIsOwn
<1>3. tab' = [tab EXCEPT ![t] = x]
    BY DEF Answer
<1> HIDE DEF x
<1>4. QED
    BY <1>2, <1>3, OnlyTabMoves

LEMMA GoesHome ==
    ASSUME IInv, NEW t \in Tabs, UNCHANGED <<now, logins, jar, disabled>>, GoHome(t)
    PROVE  IInv'
<1>1. Home \in TabState /\ OwnTab(logins, BrowserOf[t], Home)
    BY HomeIsOwn
<1>2. QED
    BY <1>1, OnlyTabMoves DEF GoHome

----------------------------------------------------------------------------
LEMMA TickOwn == IInv /\ Tick => IInv'
<1> SUFFICES ASSUME IInv, Tick PROVE IInv'
    OBVIOUS
<1>1. TypeOK'
    BY DEF Tick, IInv, TypeOK
<1>2. \A l \in DOMAIN logins : logins[l].expires \in Nat
    BY LoginFacts
<1>3. \A l \in DOMAIN logins : logins[l].expires <= now + 1 + FlowLifetime
    BY <1>2, LifetimesAreNat DEF IInv, TypeOK, SoundLogins
<1>4. SoundLogins(logins, disabled, now + 1)
    BY <1>3 DEF IInv, SoundLogins
<1>5. QED
    BY <1>1, <1>4 DEF Tick, IInv

LEMMA DisableOwn == ASSUME IInv, NEW u \in Users, Disable(u) PROVE IInv'
<1>1. DOMAIN disabled' = DOMAIN disabled \cup {u} /\ disabled'[u] = now
    BY DEF Disable
<1>2. \A v \in DOMAIN disabled : disabled'[v] = disabled[v]
    BY DEF Disable
<1>3. TypeOK'
    BY <1>1, <1>2 DEF Disable, IInv, TypeOK
<1>4. SoundLogins(logins', disabled', now')
    BY <1>1, <1>2 DEF Disable, IInv, SoundLogins
<1>5. QED
    BY <1>3, <1>4 DEF Disable, IInv

LEMMA ApproveOwn == ASSUME IInv, NEW t \in Tabs, NEW u \in Users, Approve(t, u) PROVE IInv'
<1> DEFINE l == tab[t].login
           r == [logins[l] EXCEPT !.user = u]
           x == Request("callback", l, jar[BrowserOf[t]])
<1>1. l \in DOMAIN logins /\ l \in Nat
    BY TabFacts DEF Approve, OwnTab, TabState
<1>2. logins[l] \in Login /\ logins[l].user = "nobody" /\ logins' = [logins EXCEPT ![l] = r]
    BY <1>1 DEF Approve, IInv, TypeOK
<1>3. r \in Login /\ r.browser = logins[l].browser /\ r.expires = logins[l].expires
          /\ r.user = u /\ r.spender = logins[l].spender
    BY <1>2 DEF Login
<1> HIDE DEF l, r
<1>4. /\ logins' \in Seq(Login) /\ DOMAIN logins' = DOMAIN logins
      /\ logins'[l] = r /\ \A k \in DOMAIN logins : k # l => logins'[k] = logins[k]
      /\ Grows(logins, logins')
    BY <1>1, <1>2, <1>3, UpdateGrows DEF IInv, TypeOK
<1>5. SoundLogins(logins', disabled, now)
    BY <1>1, <1>3, <1>4 DEF Approve, IInv, SoundLogins
<1>6. OwnCookies(logins', BrowserOf[t], jar[BrowserOf[t]])
    BY <1>4, TabFacts, JarStaysOwn
<1>7. x \in TabState /\ OwnTab(logins', BrowserOf[t], x)
    BY <1>1, <1>3, <1>4, <1>6, TabFacts, RequestIsOwn, NobodyIsNoUser
<1>8. tab' = [tab EXCEPT ![t] = x] /\ UNCHANGED <<now, jar, disabled>>
    BY DEF Approve, Send, l
<1> HIDE DEF x
<1>9. QED
    BY <1>4, <1>5, <1>7, <1>8, LogGrows

LEMMA ReceiveOwn == ASSUME IInv, NEW t \in Tabs, Receive(t) PROVE IInv'
<1> DEFINE b == BrowserOf[t]
<1>1. PICK f \in IF tab[t].setFlow = {} THEN {jar[b].flow} ELSE tab[t].setFlow,
           s \in IF tab[t].setSession = {} THEN {jar[b].session} ELSE tab[t].setSession :
          /\ jar' = [jar EXCEPT ![b] = [flow |-> f, session |-> s]]
          /\ tab' = [tab EXCEPT ![t] =
                        Request(tab[t].to, tab[t].login, [flow |-> f, session |-> s])]
    BY DEF Receive
<1> DEFINE c == [flow |-> f, session |-> s]
           x == Request(tab[t].to, tab[t].login, c)
<1>2. f \in Nat /\ OwnFlow(logins, b, f)
    <2>1. CASE tab[t].setFlow = {}
        BY <1>1, <2>1, TabFacts DEF Jar, OwnCookies
    <2>2. CASE tab[t].setFlow # {}
        BY <1>1, <2>2, TabFacts DEF TabState, OwnTab
    <2>3. QED
        BY <2>1, <2>2
<1>3. s \in Session /\ OwnSession(logins, b, s)
    <2>1. CASE tab[t].setSession = {}
        BY <1>1, <2>1, TabFacts DEF Jar, OwnCookies
    <2>2. CASE tab[t].setSession # {}
        BY <1>1, <2>2, TabFacts DEF TabState, OwnTab
    <2>3. QED
        BY <2>1, <2>2
<1>4. c \in Jar /\ OwnCookies(logins, b, c)
    BY <1>2, <1>3 DEF Jar, OwnCookies
<1> HIDE DEF c
<1>5. x \in TabState /\ OwnTab(logins, b, x)
    <2>1. /\ tab[t].to \in {"home", "page", "login", "provider"} /\ tab[t].login \in Nat
          /\ tab[t].to = "provider" => tab[t].login \in DOMAIN logins
        BY TabFacts DEF TabState, OwnTab, Receive
    <2>2. QED
        BY <1>4, <2>1, RequestIsOwn
<1>6. tab' = [tab EXCEPT ![t] = x] /\ jar' = [jar EXCEPT ![b] = c]
    BY <1>1 DEF c
<1> HIDE DEF x
<1>7. jar' \in [Browsers -> Jar] /\ \A a \in Browsers : OwnCookies(logins, a, jar'[a])
    BY <1>4, <1>6, TabFacts DEF IInv, TypeOK
<1>8. tab' \in [Tabs -> TabState] /\ \A u \in Tabs : OwnTab(logins, BrowserOf[u], tab'[u])
    BY <1>5, <1>6, GrowsSelf, TabMoves DEF IInv, TypeOK
<1>9. TypeOK'
    BY <1>7, <1>8 DEF Receive, IInv, TypeOK
<1>10. QED
    BY <1>7, <1>8, <1>9 DEF Receive, IInv

LEMMA StartOwn == ASSUME IInv, NEW t \in Tabs, Start(t) PROVE IInv'
<1> DEFINE l == Len(logins) + 1
           b == BrowserOf[t]
           r == [browser |-> b, expires |-> now + FlowLifetime,
                 user |-> "nobody", spender |-> "nobody"]
           x == Reply({l}, {}, "provider", l)
<1>1. logins \in Seq(Login) /\ Len(logins) \in Nat /\ DOMAIN logins = 1..Len(logins)
    BY DEF IInv, TypeOK
<1>2. logins' = Append(logins, r) /\ r \in Login
    BY LifetimesAreNat, TabFacts DEF Start, Login, IInv, TypeOK
<1>3. r.browser = b /\ r.expires = now + FlowLifetime /\ r.user = "nobody" /\ r.spender = "nobody"
    OBVIOUS
<1> HIDE DEF r
<1>4. /\ logins' \in Seq(Login) /\ DOMAIN logins' = DOMAIN logins \cup {l}
      /\ logins'[l] = r /\ \A k \in DOMAIN logins : k # l /\ logins'[k] = logins[k]
      /\ l \in Nat /\ l # 0
    BY <1>1, <1>2
<1> HIDE DEF l
<1>5. Grows(logins, logins')
    BY <1>4 DEF Grows
<1>6. now \in Nat /\ "nobody" \notin DOMAIN disabled
    BY NobodyIsNoUser DEF IInv, TypeOK
<1>7. SoundLogins(logins', disabled, now)
    BY <1>3, <1>4, <1>6, LifetimesAreNat DEF IInv, SoundLogins
<1>8. x \in TabState /\ OwnTab(logins', b, x)
    BY <1>3, <1>4, ReplyIsOwn DEF OwnFlow
<1>9. tab' = [tab EXCEPT ![t] = x] /\ UNCHANGED <<now, jar, disabled>>
    BY DEF Start, Answer, l
<1> HIDE DEF x
<1>10. QED
    BY <1>4, <1>5, <1>7, <1>8, <1>9, LogGrows

\* The provider takes the code of a login that is being exchanged.
LEMMA SpendGrows ==
    ASSUME IInv, NEW t \in Tabs, tab[t].at = "exchanging", Spend(t)
    PROVE  /\ logins' \in Seq(Login)
           /\ Grows(logins, logins')
           /\ SoundLogins(logins', disabled, now)
<1> DEFINE l == tab[t].login
           r == [logins[l] EXCEPT !.spender = BrowserOf[t]]
<1>1. /\ l \in DOMAIN logins
      /\ OwnFlow(logins, BrowserOf[t], l)
    BY TabFacts DEF OwnTab, OwnCookies
<1>2. l # 0
    BY <1>1 DEF IInv, TypeOK
<1>3. logins[l] \in Login /\ logins[l].browser = BrowserOf[t] /\ logins' = [logins EXCEPT ![l] = r]
    BY <1>1, <1>2, LoginFacts DEF Spend, OwnFlow
<1>4. r \in Login /\ r.browser = logins[l].browser /\ r.expires = logins[l].expires
          /\ r.user = logins[l].user /\ r.spender = BrowserOf[t]
    BY <1>3, TabFacts DEF Login
<1> HIDE DEF l, r
<1>5. /\ logins' \in Seq(Login) /\ DOMAIN logins' = DOMAIN logins
      /\ logins'[l] = r /\ \A k \in DOMAIN logins : k # l => logins'[k] = logins[k]
      /\ Grows(logins, logins')
    BY <1>1, <1>3, <1>4, UpdateGrows DEF IInv, TypeOK
<1>6. SoundLogins(logins', disabled, now)
    BY <1>1, <1>3, <1>4, <1>5 DEF IInv, SoundLogins
<1>7. QED
    BY <1>5, <1>6

LEMMA ExchangeOwn == ASSUME IInv, NEW t \in Tabs, Exchange(t) PROVE IInv'
<1> DEFINE l == tab[t].login
           b == BrowserOf[t]
           s == NewSession(l)
           x == Reply({0}, {s}, "page", 0)
<1>1. /\ l \in DOMAIN logins /\ logins[l].user # "nobody"
      /\ OwnFlow(logins, b, l)
      /\ tab[t].since <= logins[l].expires /\ tab[t].since \in Nat
    BY TabFacts DEF Exchange, OwnTab, OwnCookies, TabState
<1>2. l # 0 /\ l \in Nat /\ now \in Nat
    BY <1>1 DEF IInv, TypeOK
<1>3. logins' \in Seq(Login) /\ Grows(logins, logins') /\ SoundLogins(logins', disabled, now)
    BY SpendGrows DEF Exchange
<1>4. UNCHANGED <<now, jar, disabled>>
    BY DEF Exchange
<1>5. CASE GoHome(t)
    BY <1>3, <1>4, <1>5, HomeIsOwn, LogGrows DEF GoHome
<1>6. CASE now <= tab[t].since + WriteTimeout /\ Answer(t, {0}, {s}, "page", 0)
    <2>1. logins[l] \in Login
        BY <1>1, LoginFacts
    <2>2. logins[l].user \in Users /\ logins[l].expires \in Nat
        BY <1>1, <2>1 DEF Login
    <2>3. s.login = l /\ s.user = logins[l].user /\ s.expires = now + SessionLifetime
        BY DEF NewSession
    <2>4. s \in Session
        BY <1>2, <2>2, LifetimesAreNat DEF NewSession, Session
    <2>5. now + SessionLifetime <= logins[l].expires + WriteTimeout + SessionLifetime
        BY <1>1, <1>2, <1>6, <2>2, LifetimesAreNat
    <2>6. OwnSession(logins', b, s)
        BY <1>1, <1>2, <1>3, <2>3, <2>5 DEF OwnSession, OwnFlow, Grows
    <2> HIDE DEF s
    <2>7. x \in TabState /\ OwnTab(logins', b, x)
        <3>1. /\ {0} \in SUBSET Nat /\ {s} \in SUBSET Session
              /\ \A f \in {0} : OwnFlow(logins', b, f)
              /\ \A v \in {s} : OwnSession(logins', b, v)
            BY <2>4, <2>6 DEF OwnFlow
        <3>2. QED
            BY <3>1, ReplyIsOwn
    <2>8. tab' = [tab EXCEPT ![t] = x]
        BY <1>6 DEF Answer
    <2> HIDE DEF x
    <2>9. QED
        BY <1>3, <1>4, <2>7, <2>8, LogGrows
<1>7. QED
    BY <1>5, <1>6 DEF Exchange

LEMMA FailExchangeOwn == ASSUME IInv, NEW t \in Tabs, FailExchange(t) PROVE IInv'
<1>1. CASE UNCHANGED logins
    BY <1>1, Answers DEF FailExchange
<1>2. CASE Spend(t)
    <2> DEFINE x == Reply({0}, {}, "home", 0)
    <2>1. logins' \in Seq(Login) /\ Grows(logins, logins') /\ SoundLogins(logins', disabled, now)
        BY <1>2, SpendGrows DEF FailExchange
    <2>2. x \in TabState /\ OwnTab(logins', BrowserOf[t], x)
        BY ReplyIsOwn DEF OwnFlow
    <2>3. tab' = [tab EXCEPT ![t] = x] /\ UNCHANGED <<now, jar, disabled>>
        BY DEF FailExchange, Answer
    <2> HIDE DEF x
    <2>4. QED
        BY <2>1, <2>2, <2>3, LogGrows
<1>3. QED
    BY <1>1, <1>2 DEF FailExchange

LEMMA PassGateOwn == ASSUME IInv, NEW t \in Tabs, PassGate(t) PROVE IInv'
<1> DEFINE x == [tab[t] EXCEPT !.at = "gated"]
<1>1. tab[t] \in TabState /\ OwnTab(logins, BrowserOf[t], tab[t])
    BY TabFacts
<1>2. /\ x \in TabState /\ x.at = "gated" /\ x.sent = tab[t].sent
      /\ x.setFlow = tab[t].setFlow /\ x.setSession = tab[t].setSession
    BY <1>1 DEF TabState, Places
<1>3. tab' = [tab EXCEPT ![t] = x] /\ UNCHANGED <<now, logins, jar, disabled>>
    BY DEF PassGate
<1> HIDE DEF x
<1>4. OwnTab(logins, BrowserOf[t], x)
    BY <1>1, <1>2 DEF OwnTab
<1>5. QED
    BY <1>2, <1>3, <1>4, OnlyTabMoves

LEMMA CheckFlowOwn == ASSUME IInv, NEW t \in Tabs, CheckFlow(t) PROVE IInv'
<1> DEFINE x == [tab[t] EXCEPT !.at = "exchanging", !.since = now]
<1>1. tab[t] \in TabState /\ OwnTab(logins, BrowserOf[t], tab[t]) /\ now \in Nat
    BY TabFacts DEF IInv, TypeOK
<1>2. /\ x \in TabState /\ x.at = "exchanging" /\ x.since = now /\ x.sent = tab[t].sent
      /\ x.setFlow = tab[t].setFlow /\ x.setSession = tab[t].setSession
      /\ x.login = tab[t].login
    BY <1>1 DEF TabState, Places
<1>3. tab' = [tab EXCEPT ![t] = x] /\ UNCHANGED <<now, logins, jar, disabled>>
    BY DEF CheckFlow
<1> HIDE DEF x
<1>4. tab[t].sent.flow = tab[t].login /\ now <= logins[tab[t].login].expires
    BY DEF CheckFlow, FlowMatches, OpenFlow, StateMatches, FlowIsCurrent
<1>5. OwnTab(logins, BrowserOf[t], x)
    BY <1>1, <1>2, <1>4 DEF OwnTab, CheckFlow
<1>6. QED
    BY <1>2, <1>3, <1>5, OnlyTabMoves

LEMMA HandleOwn == ASSUME IInv, NEW t \in Tabs, Handle(t) PROVE IInv'
<1>1. CASE PassGate(t)
    BY <1>1, PassGateOwn
<1>2. CASE Bounce(t)
    BY <1>2, Answers, GoesHome DEF Bounce
<1>3. CASE Serve(t) \/ ServeNobody(t)
    BY <1>3, GoesHome DEF Serve, ServeNobody
<1>4. CASE SkipLogin(t)
    BY <1>4, Answers DEF SkipLogin
<1>5. CASE Start(t)
    BY <1>5, StartOwn
<1>6. CASE Logout(t)
    BY <1>6, Answers DEF Logout
<1>7. CASE RefuseFlow(t)
    BY <1>7, Answers DEF RefuseFlow
<1>8. CASE CheckFlow(t)
    BY <1>8, CheckFlowOwn
<1>9. CASE Exchange(t)
    BY <1>9, ExchangeOwn
<1>10. CASE FailExchange(t)
    BY <1>10, FailExchangeOwn
<1>11. QED
    BY <1>1, <1>2, <1>3, <1>4, <1>5, <1>6, <1>7, <1>8, <1>9, <1>10 DEF Handle

LEMMA NextOwn == IInv /\ [Next]_vars => IInv'
<1> SUFFICES ASSUME IInv, [Next]_vars PROVE IInv'
    OBVIOUS
<1>1. CASE Tick
    BY <1>1, TickOwn
<1>2. ASSUME NEW u \in Users, Disable(u) PROVE IInv'
    BY <1>2, DisableOwn
<1>3. ASSUME NEW t \in Tabs, NEW what \in {"page", "login"}, Visit(t, what) PROVE IInv'
    BY <1>3, Requests DEF Visit
<1>4. ASSUME NEW t \in Tabs, NEW u \in Users, Approve(t, u) PROVE IInv'
    BY <1>4, ApproveOwn
<1>5. ASSUME NEW t \in Tabs, NEW l \in DOMAIN logins, Reopen(t, l) PROVE IInv'
    <2>1. l \in Nat
        BY DEF IInv, TypeOK
    <2>2. QED
        BY <1>5, <2>1, Requests DEF Reopen
<1>6. ASSUME NEW t \in Tabs, Receive(t) PROVE IInv'
    BY <1>6, ReceiveOwn
<1>7. ASSUME NEW t \in Tabs, Lose(t) PROVE IInv'
    BY <1>7, GoesHome DEF Lose
<1>8. ASSUME NEW t \in Tabs, Handle(t) PROVE IInv'
    BY <1>8, HandleOwn
<1>9. CASE UNCHANGED vars
    BY <1>9 DEF vars, IInv, TypeOK
<1>10. QED
    BY <1>1, <1>2, <1>3, <1>4, <1>5, <1>6, <1>7, <1>8, <1>9 DEF Next

\* Wherever a cookie is, it is of a login that its browser started.
THEOREM InvCorrect == Spec => []IInv
<1>1. QED
    BY InitOwn, NextOwn, PTL DEF Spec

\* Every variable has its type, whatever the tabs do: a session has a user.
THEOREM TypeCorrect == Spec => []TypeOK
<1>1. IInv => TypeOK
    BY DEF IInv
<1>2. QED
    BY <1>1, InvCorrect, PTL

\* A browser holds only sessions of logins that it started.
THEOREM SessionsAreOwn == Spec => []SessionIsOwn
<1>1. IInv => SessionIsOwn
    BY DEF IInv, SessionIsOwn, OwnCookies, OwnSession
<1>2. QED
    BY <1>1, InvCorrect, PTL

\* No browser uses up the code of another's login.
THEOREM CodesAreSpentAtHome == Spec => []CodeIsSpentAtHome
<1>1. IInv => CodeIsSpentAtHome
    BY DEF IInv, CodeIsSpentAtHome, SoundLogins
<1>2. QED
    BY <1>1, InvCorrect, PTL

\* Nobody is served later than the lifetimes of a login and a session, and the
\* time an answer may take, after their account was disabled.
THEOREM AccessEnds == Spec => AccessEndsWithAccount
<1>1. ASSUME IInv, NEW t \in Tabs, Serve(t), tab[t].sent.session.user \in DOMAIN disabled
      PROVE  now <= disabled[tab[t].sent.session.user]
                        + FlowLifetime + WriteTimeout + SessionLifetime
    <2> DEFINE s == tab[t].sent.session
    <2>1. /\ s \in Session /\ OwnSession(logins, BrowserOf[t], s)
          /\ s # NoSession /\ now <= s.expires
        BY <1>1, TabFacts DEF Serve, SignedIn, TabState, Jar, OwnTab, OwnCookies
    <2>2. /\ s.login \in DOMAIN logins /\ logins[s.login].user = s.user
          /\ s.expires <= logins[s.login].expires + WriteTimeout + SessionLifetime
        BY <2>1 DEF OwnSession
    <2>3. logins[s.login].expires <= disabled[s.user] + FlowLifetime
        BY <1>1, <2>2 DEF IInv, SoundLogins
    <2>4. s.expires \in Nat /\ logins[s.login].expires \in Nat /\ disabled[s.user] \in Nat /\ now \in Nat
        BY <1>1, <2>1, <2>2, LoginFacts DEF Session, IInv, TypeOK
    <2>5. QED
        BY <2>1, <2>2, <2>3, <2>4, LifetimesAreNat
<1>2. IInv /\ [Next]_vars =>
          [\A t \in Tabs : Serve(t) =>
               LET u == tab[t].sent.session.user
               IN  u \in DOMAIN disabled =>
                       now <= disabled[u] + FlowLifetime + WriteTimeout + SessionLifetime]_vars
    BY <1>1
<1>3. QED
    BY <1>2, InvCorrect, PTL DEF Spec, AccessEndsWithAccount
=============================================================================
