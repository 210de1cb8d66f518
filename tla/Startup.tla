------------------------------ MODULE Startup ------------------------------
(***************************************************************************)
(* cmd/gruff main and internal/openvpn: Gruff loads its configuration,     *)
(* writes the config directory file by file, and serves; then the          *)
(* refresher and the handlers rewrite the lists.  It may die at any step   *)
(* and be started again with another configuration, and the power may      *)
(* fail.  Meanwhile OpenVPN runs rules/connect.sh for clients.             *)
(***************************************************************************)
EXTENDS AtomicFile, Config

CONSTANTS Candidates,   \* the configurations an operator may start Gruff with
          Publishers,   \* the writers that publish lists while Gruff serves
          Main,         \* main, as a writer of files
          Clients,      \* connections of OpenVPN clients
          MaxBoots,     \* bound: starts of the process
          MaxVersions   \* bound: versions of a list

ASSUME WritersAssumption == Main \notin Publishers /\ Writers = Publishers \cup {Main}
ASSUME BoundsAreNat == {MaxBoots, MaxVersions} \subseteq Nat
ASSUME ProfilesAreLists ==
  \A c \in Candidates : /\ c.profiles \in Seq(ToSet(c.profiles))
                        /\ c.sshProfiles \in Seq(ToSet(c.sshProfiles))

VARIABLES
  process,      \* "down", "writing" or "serving"
  boot,         \* which start this is
  conf,         \* the configuration loaded
  item,         \* main's place in its plan
  client        \* what connect.sh has read for each connection

startVars == <<process, boot, conf, item, client>>
vars == <<fileVars, startVars>>

Script == <<"rules", "connect.sh">>
RoutesOf(name) == <<"dir", name>>
RulesOf(name) == <<"rules", name>>
CRL == <<"dir", "crl.pem">>
KRL == <<"dir", "krl">>

\* One file that the n-th start writes: its path, and what it holds, which is for
\* some profiles, and in a profile's own files for the i-th.
Entry(n, p, what, i) == [path |-> p, body |-> [boot |-> n, what |-> what, of |-> i]]

RoutesEntry(n, c, i) == Entry(n, RoutesOf(c.profiles[i].name), {c.profiles[i].name}, i)
RulesEntry(n, c, i) == Entry(n, RulesOf(c.profiles[i].name), {c.profiles[i].name}, i)

\* connect.sh admits the profiles it was written for.
ScriptEntry(n, c) == Entry(n, Script, {p.name : p \in ToSet(c.profiles)}, 0)

\* Mutant: connect.sh is written before the files it hands out.
ConfigDir_ScriptFirst(n, c) ==
  [j \in 1..(2 * Len(c.profiles) + 1) |->
    IF j = 1 THEN ScriptEntry(n, c)
    ELSE IF j % 2 = 0 THEN RoutesEntry(n, c, j \div 2) ELSE RulesEntry(n, c, j \div 2)]

\* openvpn.Write: each profile's routes and rules, and the script at last.
ConfigDir(n, c) ==
  [j \in 1..(2 * Len(c.profiles) + 1) |->
    IF j > 2 * Len(c.profiles) THEN ScriptEntry(n, c)
    ELSE IF j % 2 = 1 THEN RoutesEntry(n, c, (j + 1) \div 2) ELSE RulesEntry(n, c, j \div 2)]

\* publishRevocations: the list of each CA there is.
ListEntry(n, p) == Entry(n, p, {}, 0)
Lists(n, c) ==
  (IF LoadCA(c) = "nil" THEN <<>> ELSE <<ListEntry(n, CRL)>>) \o
  (IF LoadSSHCA(c) = "nil" THEN <<>> ELSE <<ListEntry(n, KRL)>>)

\* All that run writes, in its order.
Plan(n, c) == IF c.configdirEnabled THEN ConfigDir(n, c) \o Lists(n, c) ELSE <<>>

\* The names are what profileName matches, so they hold no dot, and the files of
\* what is served are among those modelled.
ASSUME NamesAssumption == "connect.sh" \notin Names /\ "crl.pem" \notin Names
ASSUME PlanAssumption ==
  /\ Script \in Paths
  /\ \A n \in 1..MaxBoots, c \in Candidates : Loads(c) =>
       \A e \in ToSet(Plan(n, c)) : e.path \in Paths /\ e.body \in Bodies

Away == [step |-> "away"]
NoConfig == <<>>

Init ==
  /\ FileInit
  /\ process = "down" /\ boot = 0 /\ item = 0 /\ conf = NoConfig
  /\ client = [k \in Clients |-> Away]

-----------------------------------------------------------------------------
\* run, up to openvpn.Write: an error there ends the process and changes nothing.
Start(c) ==
  /\ process = "down" /\ boot < MaxBoots
  /\ Loads(c)
  /\ process' = "writing" /\ boot' = boot + 1 /\ conf' = c /\ item' = 1
  /\ UNCHANGED <<fileVars, client>>

BeginItem ==
  /\ process = "writing" /\ item <= Len(Plan(boot, conf))
  /\ LET e == Plan(boot, conf)[item] IN Create(Main, e.path, e.body)
  /\ UNCHANGED startVars

StepItem ==
  /\ Render(Main) \/ Sync(Main) \/ Rename(Main)
  /\ UNCHANGED startVars

EndItem ==
  /\ SyncDir(Main)
  /\ item' = item + 1
  /\ UNCHANGED <<process, boot, conf, client>>

Stop == process' = "down" /\ conf' = NoConfig /\ item' = 0

\* Mutant: an error of a write is logged, and the next file written.
FailItem_Logged ==
  /\ Fail(Main)
  /\ item' = item + 1
  /\ UNCHANGED <<process, boot, conf, client>>

\* Any error of a write ends main.
FailItem ==
  /\ Fail(Main)
  /\ Stop
  /\ UNCHANGED <<boot, client>>

\* Mutant: the files are written while Gruff serves.
Serve_Unwaited ==
  /\ process = "writing"
  /\ process' = "serving"
  /\ UNCHANGED <<fileVars, boot, conf, item, client>>

Serve ==
  /\ process = "writing" /\ item > Len(Plan(boot, conf))
  /\ process' = "serving"
  /\ UNCHANGED <<fileVars, boot, conf, item, client>>

\* The refresher or a handler writes a list again; an error is logged.
Publish(q) ==
  /\ process = "serving"
  /\ \/ /\ conf.configdirEnabled
        /\ \E e \in ToSet(Lists(boot, conf)) :
             /\ shown[e.path].at < MaxVersions
             /\ Create(q, e.path, e.body)
     \/ Write(q)
  /\ UNCHANGED startVars

\* A signal, a crash, an error of the listener or of setupAuth.
Kill ==
  /\ process # "down"
  /\ Die
  /\ Stop
  /\ UNCHANGED <<boot, client>>

\* The machine goes down, OpenVPN with it.
MachineFails ==
  /\ PowerLoss
  /\ Stop
  /\ client' = [k \in Clients |-> Away]
  /\ UNCHANGED boot

-----------------------------------------------------------------------------
\* OpenVPN runs the script that is there: an empty one admits anybody.
RunScript(k, name) ==
  LET script == shown[Script] IN
  /\ client[k] = Away
  /\ script.body # Absent
  /\ script.whole => name \in script.body.what
  /\ client' = [client EXCEPT ![k] =
                 [step |-> "listed", name |-> name, script |-> script]]
  /\ UNCHANGED <<fileVars, process, boot, conf, item>>

\* cat "$ROUTES" > "$CONFIG", or the refusal of a client whose routes are absent.
CopyRoutes(k) ==
  /\ client[k].step = "listed"
  /\ client' = [client EXCEPT ![k] =
                 [step |-> "admitted", name |-> client[k].name,
                  script |-> client[k].script, routes |-> shown[RoutesOf(client[k].name)]]]
  /\ UNCHANGED <<fileVars, process, boot, conf, item>>

Leave(k) ==
  /\ client[k].step = "admitted"
  /\ client' = [client EXCEPT ![k] = Away]
  /\ UNCHANGED <<fileVars, process, boot, conf, item>>

Next ==
  \/ \E c \in Candidates : Start(c)
  \/ BeginItem \/ StepItem \/ EndItem \/ FailItem \/ Serve
  \/ \E q \in Publishers : Publish(q)
  \/ Kill \/ MachineFails
  \/ \E k \in Clients :
       (\E name \in Names : RunScript(k, name)) \/ CopyRoutes(k) \/ Leave(k)

Spec == Init /\ [][Next]_vars

-----------------------------------------------------------------------------
\* The files' types, and main's place within its plan.
TypeOK ==
  /\ FileTypeOK
  /\ process \in {"down", "writing", "serving"} /\ boot \in 0..MaxBoots
  /\ process # "down" => conf \in Candidates /\ item \in 1..Len(Plan(boot, conf)) + 1
  /\ work[Main] # Idle => process = "writing" /\ work[Main].path = Plan(boot, conf)[item].path

\* A client that connect.sh lists finds the routes of its profile, whole, of the
\* script's start or a later one: "a truncated connect.sh that happens to be
\* empty exits zero, so the client is admitted with none of its routes".  The
\* order of main's writes carries it over crashes and power failures.
RoutesMatchTheScript ==
  \A k \in Clients : client[k].step = "admitted" =>
    LET r == client[k].routes IN
    /\ client[k].script.whole /\ r.whole
    /\ r.body # Absent
    /\ r.body.what = {client[k].name}
    /\ r.body.boot >= client[k].script.body.boot

\* While Gruff serves, every file it was to write holds what this configuration
\* says, to a reader now and after a power failure.
ServesItsConfig ==
  process = "serving" =>
    \A e \in ToSet(Plan(boot, conf)) : \A f \in survivors[e.path] : f.body = e.body

\* What is offered can be had: the CA that signs it is loaded, the template is
\* there, its name leads to it and to nothing else, its lifetime is within the
\* cap, and iptables takes its rules.  handleIssue uses p.ca and the template
\* with no check of its own.
ServesWhatItOffers ==
  process = "serving" =>
    /\ conf.profiles # <<>> => LoadCA(conf) \in {"loaded", "generated"} /\ conf.template = "good"
    /\ conf.sshProfiles # <<>> => LoadSSHCA(conf) \in {"loaded", "generated"}
    /\ \A ps \in {conf.profiles, conf.sshProfiles} : \A p \in ToSet(ps) :
         /\ Lookup(ps, p.name) = p
         /\ 0 < p.duration /\ p.duration <= MaxSessionDuration
    /\ \A p \in ToSet(conf.profiles) : \A r \in p.rules :
         r.port # 0 => r.protocol \in {"tcp", "udp"}

\* connect.go: "the profile is read from X509_0_OU and the matching route file is
\* handed back", whatever the profile is called.
MatchingRoutesAreHandedBack ==
  \A k \in Clients : client[k].step = "admitted" =>
    client[k].routes.body.what = {client[k].name}
=============================================================================
