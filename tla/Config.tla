------------------------------- MODULE Config -------------------------------
(***************************************************************************)
(* internal/config, the CA loading of cmd/gruff and internal/pki, and the  *)
(* file names of internal/openvpn: what of an operator's configuration     *)
(* Gruff serves.  Pure: a configuration is loaded once and never changes.  *)
(*                                                                         *)
(* Strings are what their checks tell apart: a name is well formed when it *)
(* is in Names; a URL is "none", "relative", "http" or "https"; a text is  *)
(* "none", "bad" or "good"; a secret is where it comes from.               *)
(***************************************************************************)
EXTENDS Integers, Sequences, FiniteSets

CONSTANTS Names,            \* what profileName matches
          MaxSessionDuration,
          MaxSessionLifetime

ToSet(s) == {s[i] : i \in DOMAIN s}
Distinct(s) == \A i, j \in DOMAIN s : s[i].name = s[j].name => i = j

Ports == 1..65535
PortProtocols == {"tcp", "udp"}

\* ValidRule: the firewall rules iptables takes.
ValidRule(r) ==
  /\ r.action \in {"ACCEPT", "DROP", "REJECT"}
  /\ r.protocol \in {"", "tcp", "udp", "icmp"}
  /\ r.port # 0 => r.protocol \in PortProtocols /\ r.port \in Ports

ValidDuration(d) == 0 < d /\ d <= MaxSessionDuration

ValidProfile(p) ==
  /\ p.name \in Names
  /\ p.roles # {}
  /\ p.description # "bad"
  /\ ValidDuration(p.duration)
  /\ \A r \in p.rules : ValidRule(r)

Extensions == {"permit-X11-forwarding", "permit-agent-forwarding",
               "permit-port-forwarding", "permit-pty", "permit-user-rc"}

ValidSSHProfile(p) ==
  /\ p.name \in Names
  /\ p.roles # {}
  /\ p.principals # {} /\ "bad" \notin p.principals
  /\ p.description # "bad"
  /\ "bad" \notin p.hosts
  /\ p.extensions \subseteq Extensions
  /\ ValidDuration(p.duration)

\* The effective lifetime: the field's zero value means the default.
SessionDuration(auth) == IF auth.lifetime = 0 THEN 8 ELSE auth.lifetime

\* Auth.validate; local-roles maps a username to a set of roles.
ValidAuth(auth) ==
  /\ "" \notin DOMAIN auth.localRoles
  /\ \A user \in DOMAIN auth.localRoles : "" \notin auth.localRoles[user]
  /\ \/ auth.mode \in {"", "proxy"}
     \/ /\ auth.mode = "oidc"
        /\ auth.issuer = "good"
        /\ auth.clientID = "good"
        /\ auth.secret \in {"file", "env"}
        /\ auth.redirect \in {"http", "https"}
        /\ auth.redirect = "http" => auth.insecureCookies
        /\ 0 < SessionDuration(auth) /\ SessionDuration(auth) <= MaxSessionLifetime
        /\ auth.sessionKey = "good"

\* cmp.Or(c.Listen, defaultListen), and loopbackListen.
LoopbackListen(listen) == listen \in {"", "loopback", "localhost"}

HeaderTrust(c) ==
  \/ c.auth.mode = "oidc"
  \/ c.auth.insecureTrustedHeaders
  \/ LoopbackListen(c.listen)

ValidLink(url) == url \in {"none", "http", "https"}

\* Config.validate.
Valid(c) ==
  /\ ValidAuth(c.auth)
  /\ HeaderTrust(c)
  /\ c.profiles # <<>> \/ c.sshProfiles # <<>>
  /\ (c.caCertificate = "none") = (c.caKey = "none")
  /\ \A n \in c.issuesPerHour : n >= 0
  /\ c.maxTrackedSessions >= 0
  /\ c.configdirEnabled => c.configdirPath # "none"
  /\ ValidLink(c.logoutURL) /\ ValidLink(c.helpURL)
  /\ c.profiles # <<>> => c.template = "good"
  /\ \A i \in DOMAIN c.profiles : ValidProfile(c.profiles[i])
  /\ Distinct(c.profiles)
  /\ \A i \in DOMAIN c.sshProfiles : ValidSSHProfile(c.sshProfiles[i])
  /\ Distinct(c.sshProfiles)

-----------------------------------------------------------------------------
\* pki.Load refuses what could not sign a client or a list that is believed.
Loadable(cert, key) ==
  /\ cert = "good"     \* not "expired", "early", "notCA", "noCertSign", "noCRLSign"
  /\ key = "good"      \* not "other", the key of another certificate

\* loadCA, loadSSHCA: "nil" when there is nothing to sign for, "refused" ends main.
Generated(c) == IF c.generateCA /\ c.caDir # "none" THEN "generated" ELSE "refused"

\* Mutant: without a configured CA and the flag there is just none.
LoadCA_Optional(c) ==
  IF c.profiles = <<>> \/ (c.caCertificate = "none" /\ ~c.generateCA) THEN "nil"
  ELSE IF c.caCertificate = "none" THEN Generated(c)
  ELSE IF ~c.generateCA /\ Loadable(c.caCertificate, c.caKey) THEN "loaded" ELSE "refused"

LoadCA(c) ==
  CASE c.profiles = <<>> -> "nil"
    [] c.profiles # <<>> /\ c.caCertificate # "none" ->
         IF ~c.generateCA /\ Loadable(c.caCertificate, c.caKey) THEN "loaded" ELSE "refused"
    [] OTHER -> Generated(c)

LoadSSHCA(c) ==
  CASE c.sshProfiles = <<>> -> "nil"
    [] c.sshProfiles # <<>> /\ c.sshCAKey # "none" ->
         IF ~c.generateCA /\ c.sshCAKey = "good" THEN "loaded" ELSE "refused"
    [] OTHER -> Generated(c)

\* run, up to the first file it writes.
Loads(c) == Valid(c) /\ LoadCA(c) # "refused" /\ LoadSSHCA(c) # "refused"

-----------------------------------------------------------------------------
\* Who may have what, once it is served.
NoProfile == [name |-> ""]
Lookup(profiles, name) ==
  LET found == {i \in DOMAIN profiles : profiles[i].name = name} IN
  IF found = {} THEN NoProfile
  ELSE profiles[CHOOSE i \in found : \A j \in found : i <= j]

AllowedFor(profile, roles) == profile.roles \cap roles # {}

\* mergeRoles: the provider's roles and, besides, the local ones.
LocalRoles(c, user) ==
  IF user \in DOMAIN c.auth.localRoles THEN c.auth.localRoles[user] ELSE {}
MergeRoles(provider, local) == provider \cup local
=============================================================================
