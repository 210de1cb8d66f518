------------------------------- MODULE Login --------------------------------
(* How a browser signs in and out in OIDC mode (internal/portal/auth.go,    *)
(* internal/oidcauth, internal/authsession). Gruff keeps no state of it: a  *)
(* login in flight and a session are two cookies, which every tab of a      *)
(* browser shares and sends with a request as they are at that moment. An   *)
(* answer changes them when it arrives, in whatever order answers arrive.   *)
(*                                                                          *)
(* A login stands for its state, nonce and verifier, three fresh values,    *)
(* and for the code the provider gives for it. The cookies are sealed, so   *)
(* what a browser sends under a name is what Gruff once set under it.       *)
EXTENDS Integers, Sequences

CONSTANTS
    Users,            \* the accounts at the provider
    Browsers,
    Tabs,
    BrowserOf,        \* the browser each tab belongs to
    FlowLifetime,     \* oidcauth.go: 10 minutes
    SessionLifetime,  \* config auth.session-lifetime
    WriteTimeout,     \* main.go: how long after a request an answer may be written (15 s)
    MaxLogins,        \* bound of the model: how many logins are started
    MaxTime           \* bound of the model: when the clock stops

ASSUME TabsHaveBrowsers == BrowserOf \in [Tabs -> Browsers]
ASSUME LifetimesAreNat ==
    FlowLifetime \in Nat /\ SessionLifetime \in Nat /\ WriteTimeout \in Nat
ASSUME NobodyIsNoUser == "nobody" \notin Users \cup Browsers
ASSUME ModelBoundsAreNat == MaxLogins \in Nat /\ MaxTime \in Nat

VARIABLES
    now,       \* time.Now()
    logins,    \* every login started, in order: the flow, and what became of it
    jar,       \* the cookies each browser has
    tab,       \* what each tab is doing
    disabled   \* when accounts were disabled: a function on those that were

vars == <<now, logins, jar, tab, disabled>>

NoSession == [user |-> "nobody", login |-> 0, expires |-> 0]

NoCookies == [flow |-> 0, session |-> NoSession]

\* sent: the cookies that went with the request. setFlow and setSession: the
\* Set-Cookie headers of the answer, at most one value each. A tab is home when
\* it has nothing outstanding that could change a cookie or lead on.
Home == [at |-> "home", login |-> 0, sent |-> NoCookies, since |-> 0,
         setFlow |-> {}, setSession |-> {}, to |-> "home"]

\* The cookies of a request, as far as its handler reads them.
Request(at, login, cookies) ==
    [at |-> at, login |-> login,
     sent |-> [flow |-> IF at = "callback" THEN cookies.flow ELSE 0,
               session |-> IF at \in {"page", "login"} THEN cookies.session ELSE NoSession],
     since |-> 0, setFlow |-> {}, setSession |-> {}, to |-> "home"]

Send(t, at, login) ==
    tab' = [tab EXCEPT ![t] = Request(at, login, jar[BrowserOf[t]])]

Reply(setFlow, setSession, to, login) ==
    [at |-> "answered", login |-> login, sent |-> NoCookies, since |-> 0,
     setFlow |-> setFlow, setSession |-> setSession, to |-> to]

Answer(t, setFlow, setSession, to, login) ==
    tab' = [tab EXCEPT ![t] = Reply(setFlow, setSession, to, login)]

GoHome(t) == tab' = [tab EXCEPT ![t] = Home]

----------------------------------------------------------------------------
Init ==
    /\ now = 0
    /\ logins = <<>>
    /\ jar = [b \in Browsers |-> NoCookies]
    /\ tab = [t \in Tabs |-> Home]
    /\ disabled = [u \in {} |-> 0]

Tick ==
    /\ now < MaxTime
    /\ now' = now + 1
    /\ UNCHANGED <<logins, jar, tab, disabled>>

\* The provider disables an account; it approves no login of it from then on.
Disable(u) ==
    /\ u \notin DOMAIN disabled
    /\ disabled' = [v \in DOMAIN disabled \cup {u} |-> IF v = u THEN now ELSE disabled[v]]
    /\ UNCHANGED <<now, logins, jar, tab>>

----------------------------------------------------------------------------
(* The browser.                                                             *)

\* A page is asked for or a form sent, or the log-in link is followed.
Visit(t, what) ==
    /\ tab[t].at = "home"
    /\ Send(t, what, 0)
    /\ UNCHANGED <<now, logins, jar, disabled>>

\* The provider's page: u signs in, and is sent back with a code.
Approve(t, u) ==
    LET l == tab[t].login
    IN  /\ tab[t].at = "provider"
        /\ u \notin DOMAIN disabled
        /\ logins[l].user = "nobody"
        /\ logins' = [logins EXCEPT ![l].user = u]
        /\ Send(t, "callback", l)
        /\ UNCHANGED <<now, jar, disabled>>

\* A callback is opened again: from the history, or from a link that was copied.
Reopen(t, l) ==
    /\ tab[t].at = "home"
    /\ logins[l].user # "nobody"
    /\ Send(t, "callback", l)
    /\ UNCHANGED <<now, logins, jar, disabled>>

\* An answer arrives: its cookies are stored, and a redirect is followed.
Receive(t) ==
    LET answer == tab[t]
        b == BrowserOf[t]
    IN  /\ answer.at = "answered"
        /\ \E f \in IF answer.setFlow = {} THEN {jar[b].flow} ELSE answer.setFlow,
              s \in IF answer.setSession = {} THEN {jar[b].session} ELSE answer.setSession :
              LET cookies == [flow |-> f, session |-> s]
              IN  /\ jar' = [jar EXCEPT ![b] = cookies]
                  /\ tab' = [tab EXCEPT ![t] = Request(answer.to, answer.login, cookies)]
        /\ UNCHANGED <<now, logins, disabled>>

\* The tab is closed, a request or its answer is lost, or Gruff is restarted.
Lose(t) ==
    /\ tab[t].at # "home"
    /\ GoHome(t)
    /\ UNCHANGED <<now, logins, jar, disabled>>

----------------------------------------------------------------------------
(* The handlers.                                                            *)

\* Codec.Open: the sealed payload carries the deadline.
SignedIn(cookies) ==
    cookies.session # NoSession /\ now <= cookies.session.expires

\* requireSession.
PassGate(t) ==
    /\ tab[t].at = "page"
    /\ SignedIn(tab[t].sent)
    /\ tab' = [tab EXCEPT ![t].at = "gated"]
    /\ UNCHANGED <<now, logins, jar, disabled>>

\* requireSession: a navigation is sent to the login; a form is refused, as it
\* would lose its body.
Bounce(t) ==
    /\ tab[t].at = "page"
    /\ ~SignedIn(tab[t].sent)
    /\ Answer(t, {}, {}, "login", 0) \/ GoHome(t)
    /\ UNCHANGED <<now, logins, jar, disabled>>

\* The handler behind the gate: identify opens the session again.
Serve(t) ==
    /\ tab[t].at = "gated"
    /\ SignedIn(tab[t].sent)
    /\ GoHome(t)
    /\ UNCHANGED <<now, logins, jar, disabled>>

\* identify: meanwhile it expired, and the zero identity is granted nothing.
ServeNobody(t) ==
    /\ tab[t].at = "gated"
    /\ ~SignedIn(tab[t].sent)
    /\ GoHome(t)
    /\ UNCHANGED <<now, logins, jar, disabled>>

\* handleLogin, already signed in.
SkipLogin(t) ==
    /\ tab[t].at = "login"
    /\ SignedIn(tab[t].sent)
    /\ Answer(t, {}, {}, "page", 0)
    /\ UNCHANGED <<now, logins, jar, disabled>>

\* handleLogin: the flow goes out with the redirect to the provider.
Start(t) ==
    LET l == Len(logins) + 1
    IN  /\ tab[t].at = "login"
        /\ ~SignedIn(tab[t].sent)
        /\ l <= MaxLogins
        /\ logins' = Append(logins, [browser |-> BrowserOf[t], expires |-> now + FlowLifetime,
                                     user |-> "nobody", spender |-> "nobody"])
        /\ Answer(t, {l}, {}, "provider", l)
        /\ UNCHANGED <<now, jar, disabled>>

OpenFlow_ByState(t) == tab[t].login

\* openFlow: the login that the request's flow cookie is of, 0 for none.
OpenFlow(t) == tab[t].sent.flow

FlowIsCurrent_Ever(f) == TRUE

FlowIsCurrent(f) == now <= logins[f].expires

StateMatches_Ever(t) == TRUE

StateMatches(t) == OpenFlow(t) = tab[t].login

FlowMatches(t) ==
    /\ OpenFlow(t) # 0
    /\ FlowIsCurrent(OpenFlow(t))
    /\ StateMatches(t)

\* handleCallback, when Complete returns ErrFlow.
RefuseFlow(t) ==
    /\ tab[t].at = "callback"
    /\ ~FlowMatches(t)
    /\ Answer(t, {0}, {}, "home", 0)
    /\ UNCHANGED <<now, logins, jar, disabled>>

\* Complete, up to the exchange of the code.
CheckFlow(t) ==
    /\ tab[t].at = "callback"
    /\ FlowMatches(t)
    /\ tab' = [tab EXCEPT ![t].at = "exchanging", ![t].since = now]
    /\ UNCHANGED <<now, logins, jar, disabled>>

\* The provider takes the code.
Spend(t) == logins' = [logins EXCEPT ![tab[t].login].spender = BrowserOf[t]]

NewSession_Anonymous(l) ==
    [user |-> "nobody", login |-> l, expires |-> now + SessionLifetime]

NewSession(l) ==
    [user |-> logins[l].user, login |-> l, expires |-> now + SessionLifetime]

\* Complete, from there on. A code is good for one exchange, with the verifier
\* of its own login. An answer that comes too late is not written.
Exchange(t) ==
    LET l == tab[t].login
    IN  /\ tab[t].at = "exchanging"
        /\ logins[l].spender = "nobody"
        /\ OpenFlow(t) = l
        /\ Spend(t)
        /\ IF now <= tab[t].since + WriteTimeout
           THEN Answer(t, {0}, {NewSession(l)}, "page", 0)
           ELSE GoHome(t)
        /\ UNCHANGED <<now, jar, disabled>>

\* The exchange fails, before the code is taken or after.
FailExchange(t) ==
    /\ tab[t].at = "exchanging"
    /\ \/ logins[tab[t].login].spender = "nobody" /\ Spend(t)
       \/ UNCHANGED logins
    /\ Answer(t, {0}, {}, "home", 0)
    /\ UNCHANGED <<now, jar, disabled>>

\* handleLogout reads nothing of the request, so when it is sent is left out.
Logout(t) ==
    /\ tab[t].at = "home"
    /\ Answer(t, {}, {NoSession}, "home", 0)
    /\ UNCHANGED <<now, logins, jar, disabled>>

----------------------------------------------------------------------------
Handle(t) ==
    \/ PassGate(t) \/ Bounce(t) \/ Serve(t) \/ ServeNobody(t)
    \/ SkipLogin(t) \/ Start(t) \/ Logout(t)
    \/ RefuseFlow(t) \/ CheckFlow(t) \/ Exchange(t) \/ FailExchange(t)

Next ==
    \/ Tick
    \/ \E u \in Users : Disable(u)
    \/ \E t \in Tabs :
          \/ \E what \in {"page", "login"} : Visit(t, what)
          \/ \E u \in Users : Approve(t, u)
          \/ \E l \in DOMAIN logins : Reopen(t, l)
          \/ Receive(t) \/ Lose(t) \/ Handle(t)

Spec == Init /\ [][Next]_vars

----------------------------------------------------------------------------
(* Properties.                                                              *)

Login == [browser : Browsers, expires : Nat,
          user : Users \cup {"nobody"}, spender : Browsers \cup {"nobody"}]

Session == [user : Users, login : Nat, expires : Nat] \cup {NoSession}

Jar == [flow : Nat, session : Session]

Places == {"home", "page", "gated", "login", "provider", "callback", "exchanging", "answered"}

TabState ==
    [at : Places, login : Nat, sent : Jar, since : Nat, setFlow : SUBSET Nat,
     setSession : SUBSET Session, to : {"home", "page", "login", "provider"}]

\* Every variable has its type: a session is always somebody's.
TypeOK ==
    /\ now \in Nat
    /\ logins \in Seq(Login)
    /\ jar \in [Browsers -> Jar]
    /\ tab \in [Tabs -> TabState]
    /\ DOMAIN disabled \subseteq Users
    /\ \A u \in DOMAIN disabled : disabled[u] \in Nat

\* Complete: whichever tabs open whichever callbacks, a browser holds only the
\* session of a login that it started, of the user who signed in there.
SessionIsOwn ==
    \A b \in Browsers :
        LET s == jar[b].session
        IN  s # NoSession => logins[s.login].browser = b /\ logins[s.login].user = s.user

\* Complete: "Compare before doing any work": no browser uses up the code of a
\* login that another one started, so that one can still complete it.
CodeIsSpentAtHome ==
    \A l \in DOMAIN logins : logins[l].spender \in {"nobody", logins[l].browser}

\* "that lifetime is also the window in which a disabled account still has
\* access": a session's, and what a login in flight adds to it, however late
\* its callback, its answer, and the handler behind the gate.
AccessEndsWithAccount ==
    [][\A t \in Tabs : Serve(t) =>
           LET u == tab[t].sent.session.user
           IN  u \in DOMAIN disabled =>
                   now <= disabled[u] + FlowLifetime + WriteTimeout + SessionLifetime]_vars
=============================================================================
