----------------------------- MODULE MCStartup -----------------------------
(***************************************************************************)
(* Startup on small instances: the configurations an operator goes         *)
(* through, and each way to get one of them wrong.                         *)
(***************************************************************************)
EXTENDS Startup, TLC

MCNames == {"dev", "ops", "rules"}
MCPaths == {RoutesOf(n) : n \in Names} \cup {RulesOf(n) : n \in Names}
             \cup {Script, CRL, KRL}
MCBlocked == {RoutesOf("rules")}
MCBodies ==
  [boot : 1..MaxBoots, of : 0..2,
   what : {{n} : n \in Names} \cup {{}, {"dev", "ops"}}]
MCSymmetry == Permutations(Publishers)

Rule(action, protocol, port) == [action |-> action, protocol |-> protocol, port |-> port]
Profile(name) ==
  [name |-> name, roles |-> {"staff"}, description |-> "good", duration |-> 8,
   rules |-> {Rule("ACCEPT", "tcp", 443), Rule("DROP", "", 0)}]
SSHProfile(name) ==
  [name |-> name, roles |-> {"staff"}, description |-> "none", duration |-> 24,
   principals |-> {"root"}, hosts |-> {"good"}, extensions |-> {"permit-pty"}]

Auth ==
  [mode |-> "oidc", localRoles |-> [ann |-> {"staff"}], issuer |-> "good",
   clientID |-> "good", secret |-> "env", redirect |-> "https",
   insecureCookies |-> FALSE, lifetime |-> 0, sessionKey |-> "good",
   insecureTrustedHeaders |-> FALSE]

\* Two VPN profiles and one for SSH, from configured CAs.
Both ==
  [auth |-> Auth, listen |-> "any", profiles |-> <<Profile("dev"), Profile("ops")>>,
   sshProfiles |-> <<SSHProfile("dev")>>, caCertificate |-> "good", caKey |-> "good",
   sshCAKey |-> "good", generateCA |-> FALSE, caDir |-> "none", issuesPerHour |-> {},
   maxTrackedSessions |-> 0, configdirEnabled |-> TRUE, configdirPath |-> "good",
   logoutURL |-> "none", helpURL |-> "https", template |-> "good"]

\* One of the profiles withdrawn, behind a proxy, with a CA made at every start.
Dev ==
  [Both EXCEPT !.profiles = <<Profile("dev")>>, !.auth.mode = "proxy", !.listen = "",
               !.generateCA = TRUE, !.caDir = "good", !.caCertificate = "none",
               !.caKey = "none", !.sshCAKey = "none"]
SSHOnly ==
  [Both EXCEPT !.profiles = <<>>, !.template = "none", !.caCertificate = "none",
               !.caKey = "none"]
NoDir == [Both EXCEPT !.configdirEnabled = FALSE, !.configdirPath = "none"]
NamedRules == [Both EXCEPT !.profiles = <<Profile("rules")>>]
NamedKRL == [Both EXCEPT !.profiles = <<Profile("krl")>>]

\* Profiles and rules that validation must stop.
WrongProfiles ==
  LET p == Profile("dev") IN
  {[p EXCEPT !.name = "a/b"], [p EXCEPT !.roles = {}], [p EXCEPT !.description = "bad"],
   [p EXCEPT !.duration = 0], [p EXCEPT !.duration = 25]}
  \cup {[p EXCEPT !.rules = {r}] : r \in
    {Rule("LOG", "", 0), Rule("DROP", "gre", 0), Rule("DROP", "", 53),
     Rule("DROP", "icmp", 1), Rule("DROP", "udp", 65536)}}
WrongSSHProfiles ==
  LET p == SSHProfile("dev") IN
  {[p EXCEPT !.name = ""], [p EXCEPT !.roles = {}], [p EXCEPT !.principals = {}],
   [p EXCEPT !.principals = {"bad"}], [p EXCEPT !.description = "bad"],
   [p EXCEPT !.hosts = {"good", "bad"}], [p EXCEPT !.extensions = {"all"}],
   [p EXCEPT !.duration = 25]}
WrongAuths ==
  {[Auth EXCEPT !.mode = "basic"], [Auth EXCEPT !.issuer = "none"],
   [Auth EXCEPT !.clientID = "none"], [Auth EXCEPT !.secret = "both"],
   [Auth EXCEPT !.secret = "emptyEnv"], [Auth EXCEPT !.redirect = "relative"],
   [Auth EXCEPT !.redirect = "http"], [Auth EXCEPT !.lifetime = 25],
   [Auth EXCEPT !.lifetime = -1], [Auth EXCEPT !.sessionKey = "short"],
   [Auth EXCEPT !.mode = ""], [Auth EXCEPT !.localRoles = [ann |-> {""}]]}

Wrong ==
  {[Both EXCEPT !.auth = a] : a \in WrongAuths}
  \cup {[Both EXCEPT !.profiles = <<p>>] : p \in WrongProfiles}
  \cup {[Both EXCEPT !.sshProfiles = <<p>>] : p \in WrongSSHProfiles}
  \cup {[Both EXCEPT !.profiles = <<Profile("dev"), Profile("dev")>>],
        [Both EXCEPT !.sshProfiles = <<SSHProfile("dev"), SSHProfile("dev")>>],
        [Both EXCEPT !.profiles = <<>>, !.sshProfiles = <<>>],
        [Both EXCEPT !.caKey = "none"], [Both EXCEPT !.caKey = "other"],
        [Both EXCEPT !.caCertificate = "expired"], [Both EXCEPT !.generateCA = TRUE],
        [Both EXCEPT !.caCertificate = "none", !.caKey = "none"],
        [Both EXCEPT !.sshCAKey = "none"], [Both EXCEPT !.sshCAKey = "bad"],
        [Dev EXCEPT !.caDir = "none"], [Dev EXCEPT !.listen = "any"],
        [Both EXCEPT !.issuesPerHour = {-1}], [Both EXCEPT !.maxTrackedSessions = -1],
        [Both EXCEPT !.configdirPath = "none"], [Both EXCEPT !.helpURL = "relative"],
        [Both EXCEPT !.template = "none"], [Both EXCEPT !.template = "bad"]}

MCCandidates == {Both, Dev, SSHOnly, NoDir, NamedRules} \cup Wrong
KRLCandidates == {NamedKRL}
=============================================================================
