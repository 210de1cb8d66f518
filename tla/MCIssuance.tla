----------------------------- MODULE MCIssuance -----------------------------
(***************************************************************************)
(* Issuance on small instances: a VPN profile for a local role and an SSH  *)
(* profile for a role that only the provider gives; a CA about to lapse,   *)
(* and lifetimes that are no whole number of seconds.                      *)
(***************************************************************************)
EXTENDS Issuance, TLC

MCProfile(name, role, duration) ==
  [name |-> name, roles |-> {role}, description |-> "good", duration |-> duration,
   rules |-> {}, principals |-> {"root"}, hosts |-> {}, extensions |-> {}]

MCConf ==
  [auth |-> [mode |-> "oidc", localRoles |-> [ann |-> {"ops"}], issuer |-> "good",
             clientID |-> "good", secret |-> "file", redirect |-> "https",
             insecureCookies |-> FALSE, lifetime |-> 1, sessionKey |-> "good",
             insecureTrustedHeaders |-> FALSE],
   listen |-> "any", profiles |-> <<MCProfile("vpn", "ops", 3)>>,
   sshProfiles |-> <<MCProfile("ssh", "staff", 1)>>,
   caCertificate |-> "good", caKey |-> "good", sshCAKey |-> "good",
   generateCA |-> FALSE, caDir |-> "none", issuesPerHour |-> {1},
   maxTrackedSessions |-> 1, configdirEnabled |-> TRUE, configdirPath |-> "good",
   logoutURL |-> "none", helpURL |-> "none", template |-> "good"]

MCSymmetry == Permutations(Requests)
=============================================================================
