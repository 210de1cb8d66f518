----------------------------- MODULE Revocation -----------------------------
(* How a revocation reaches the servers (internal/portal/revoke.go,         *)
(* publish.go, and the start-up of cmd/gruff/main.go over SessionStore).    *)
(*                                                                          *)
(* Three kinds of goroutine publish: a request handler after it recorded a  *)
(* revocation, the hourly refresher, and main before it serves. Each reads  *)
(* the store under its mutex, builds the list, and replaces the file later, *)
(* with no lock held from the read to the rename. The store is in memory    *)
(* and the files are on a volume, so a crash loses the one and not the      *)
(* other. OpenVPN re-reads crl.pem on every connection and sshd its krl on  *)
(* every authentication: a credential is refused while its list names it.   *)
EXTENDS SessionStore

CONSTANTS
    Requests,    \* the request handlers that may be running at once
    Refresher,   \* the goroutine of RefreshRevocations
    Startup,     \* main, while it publishes before serving
    Lists,       \* the kinds there is a CA for (p.ca # nil, p.sshCA # nil)
    MaxCrashes   \* bound of the model: how often the process dies

ASSUME PublishersDiffer == Refresher # Startup /\ Requests \cap {Refresher, Startup} = {}
ASSUME SomeCA == Lists \subseteq Kinds /\ Lists # {}
ASSUME CrashBoundIsNat == MaxCrashes \in Nat

VARIABLES
    process,    \* "down", "starting" (main publishes) or "serving"
    pc,         \* where each publisher is
    target,     \* the serial each handler found and is revoking, 0 for none
    snapshot,   \* the serials in the list each publisher has built
    published,  \* the serials in crl.pem ("vpn") and krl ("ssh") on disk
    present,    \* which of the two files exist
    lost,       \* history: the serials ordered before the last crash
    crashes     \* how often the process died

listVars == <<snapshot, published, present>>
vars == <<storeVars, process, pc, target, listVars, lost, crashes>>

Publishers == Requests \cup {Refresher, Startup}

Steps == {"idle", "record", "readCRL", "writeCRL", "readKRL", "writeKRL"}

\* Where publishRevocations begins: the CRL comes first, if there is one.
FirstStep == IF "vpn" \in Lists THEN "readCRL" ELSE "readKRL"

Goto(p, step) == pc' = [pc EXCEPT ![p] = step]

----------------------------------------------------------------------------
Init ==
    /\ StoreInit
    /\ process = "down"
    /\ pc = [p \in Publishers |-> "idle"]
    /\ target = [r \in Requests |-> 0]
    /\ snapshot = [p \in Publishers |-> {}]
    /\ published = [k \in Kinds |-> {}]
    /\ present = {}
    /\ lost = {}
    /\ crashes = 0

\* run: everything up to PublishRevocations.
Boot ==
    /\ process = "down"
    /\ process' = "starting"
    /\ Goto(Startup, FirstStep)
    /\ UNCHANGED <<storeVars, target, listVars, lost, crashes>>

\* The process dies. What it held in memory is gone, and with it every
\* goroutine; the files stay.
Crash ==
    /\ process # "down"
    /\ crashes < MaxCrashes
    /\ crashes' = crashes + 1
    /\ process' = "down"
    /\ pc' = [p \in Publishers |-> "idle"]
    /\ target' = [r \in Requests |-> 0]
    /\ snapshot' = [p \in Publishers |-> {}]
    /\ held' = {}
    /\ revoked' = {}
    /\ ordered' = {}
    /\ lost' = lost \cup ordered
    /\ UNCHANGED <<now, issued, published, present>>

PassTime ==
    /\ Tick
    /\ UNCHANGED <<process, pc, target, listVars, lost, crashes>>

----------------------------------------------------------------------------
(* Requests.                                                                *)

\* handleIssue and handleSSHIssue, at the Add: the certificate was minted just
\* before, and reaches the client just after.
Issue(user, kind, lifetime) ==
    /\ process = "serving"
    /\ kind \in Lists
    /\ Add(user, kind, lifetime)
    /\ UNCHANGED <<process, pc, target, listVars, lost, crashes>>

\* handleIssued, the gauges, and a revocation that finds nothing to revoke.
View ==
    /\ process = "serving"
    /\ Look
    /\ UNCHANGED <<process, pc, target, listVars, lost, crashes>>

\* handleRevoke finds the serial among the sessions its caller can see.
LookUp(r, user, admin, s) ==
    /\ process = "serving"
    /\ pc[r] = "idle"
    /\ s \in VisibleTo(user, admin)
    /\ Look
    /\ target' = [target EXCEPT ![r] = s]
    /\ Goto(r, "record")
    /\ UNCHANGED <<process, listVars, lost, crashes>>

\* handleRevoke records it, the lock having been released in between.
Record(r) ==
    /\ pc[r] = "record"
    /\ Revoke(target[r])
    /\ Goto(r, FirstStep)
    /\ UNCHANGED <<process, target, listVars, lost, crashes>>

----------------------------------------------------------------------------
(* publishRevocations, for every publisher p.                               *)

RefreshTick_Never == FALSE

\* RefreshRevocations: its ticker fires.
RefreshTick ==
    /\ process = "serving"
    /\ pc[Refresher] = "idle"
    /\ Goto(Refresher, FirstStep)
    /\ UNCHANGED <<storeVars, process, target, listVars, lost, crashes>>

ReadList_Once(p, kind, from, to) ==
    /\ pc[p] = from
    /\ ReadRevocations
    /\ snapshot' = IF snapshot[p] # {} THEN snapshot
                   ELSE [snapshot EXCEPT ![p] = RevocationsOf(kind)]
    /\ Goto(p, to)
    /\ UNCHANGED <<process, target, published, present, lost, crashes>>

\* currentCRL and currentKRL: the store is read, and pruned, under its mutex.
ReadList(p, kind, from, to) ==
    /\ pc[p] = from
    /\ ReadRevocations
    /\ snapshot' = [snapshot EXCEPT ![p] = RevocationsOf(kind)]
    /\ Goto(p, to)
    /\ UNCHANGED <<process, target, published, present, lost, crashes>>

ReadCRL(p) == ReadList(p, "vpn", "readCRL", "writeCRL")

ReadKRL(p) == ReadList(p, "ssh", "readKRL", "writeKRL")

\* The rename in atomicfile.Write: readers see the new list from here on.
Replace(p, kind) ==
    /\ published' = [published EXCEPT ![kind] = snapshot[p]]
    /\ present' = present \cup {kind}

Succeed(p) ==
    /\ Goto(p, "idle")
    /\ process' = IF p = Startup THEN "serving" ELSE process

Fail_Logged(p) == Succeed(p)

\* An error is logged by a handler and by the refresher; it ends main.
Fail(p) ==
    /\ Goto(p, "idle")
    /\ process' = IF p = Startup THEN "down" ELSE process

WriteCRL(p) ==
    /\ pc[p] = "writeCRL"
    /\ Replace(p, "vpn")
    /\ IF "ssh" \in Lists
       THEN Goto(p, "readKRL") /\ UNCHANGED process
       ELSE Succeed(p)
    /\ UNCHANGED <<storeVars, target, snapshot, lost, crashes>>

WriteKRL(p) ==
    /\ pc[p] = "writeKRL"
    /\ Replace(p, "ssh")
    /\ Succeed(p)
    /\ UNCHANGED <<storeVars, target, snapshot, lost, crashes>>

\* writeList fails, before the rename or after it (syncDir), and what is left
\* of publishRevocations is skipped: a bad CRL keeps the KRL from being written.
FailedWrite(p, kind, from) ==
    /\ pc[p] = from
    /\ Replace(p, kind) \/ UNCHANGED <<published, present>>
    /\ Fail(p)
    /\ UNCHANGED <<storeVars, target, snapshot, lost, crashes>>

Publish(p) ==
    \/ ReadCRL(p)
    \/ WriteCRL(p)
    \/ ReadKRL(p)
    \/ WriteKRL(p)
    \/ FailedWrite(p, "vpn", "writeCRL")
    \/ FailedWrite(p, "ssh", "writeKRL")

----------------------------------------------------------------------------
Next ==
    \/ Boot
    \/ Crash
    \/ PassTime
    \/ View
    \/ RefreshTick
    \/ \E u \in Users, k \in Kinds, l \in Lifetimes : Issue(u, k, l)
    \/ \E r \in Requests, u \in Users, a \in BOOLEAN, s \in Serials : LookUp(r, u, a, s)
    \/ \E r \in Requests : Record(r)
    \/ \E p \in Publishers : Publish(p)

Spec == Init /\ [][Next]_vars

\* A goroutine that can run runs in the end, and the ticker keeps firing. The
\* refresher's writes do not fail for ever.
Fairness ==
    /\ WF_vars(Boot)
    /\ WF_vars(RefreshTick)
    /\ \A r \in Requests : WF_vars(Record(r))
    /\ \A p \in Publishers : WF_vars(Publish(p))
    /\ \A p \in {Refresher, Startup} : SF_vars(WriteCRL(p)) /\ SF_vars(WriteKRL(p))

FairSpec == Spec /\ Fairness

----------------------------------------------------------------------------
(* Properties.                                                              *)

\* The list that would refuse s names it, or s is past its expiry.
Refused(s) == s \in published[issued[s].kind] \/ Expired(issued, s, now)

\* Every variable has its type.
TypeOK ==
    /\ StoreTypeOK
    /\ process \in {"down", "starting", "serving"}
    /\ pc \in [Publishers -> Steps]
    /\ target \in [Requests -> Nat]
    /\ snapshot \in [Publishers -> SUBSET Serials]
    /\ published \in [Kinds -> SUBSET Serials]
    /\ present \subseteq Kinds
    /\ lost \subseteq Serials
    /\ crashes \in Nat

\* publishRevocations: whoever writes a list, however late and across a crash,
\* it refuses nobody whose credential was not revoked, and crl.pem names only
\* VPN serials and krl only SSH ones.
OnlyRevokedAreListed ==
    \A k \in Kinds : published[k] \subseteq {s \in ordered \cup lost : issued[s].kind = k}

\* handleRevoke records before it publishes: the list it is about to write names
\* the credential it was asked to revoke, though another publisher may have
\* pruned the store and the cap may have dropped the session meanwhile.
SnapshotNamesItsTarget ==
    \A r \in Requests :
        /\ pc[r] = "writeCRL" /\ issued[target[r]].kind = "vpn"
               => target[r] \in snapshot[r] \/ Expired(issued, target[r], now)
        /\ pc[r] = "writeKRL" /\ issued[target[r]].kind = "ssh"
               => target[r] \in snapshot[r] \/ Expired(issued, target[r], now)

\* PublishRevocations at start-up: "a server is never left with a missing" list
\* once Gruff serves, whatever failed on the way there and before a crash.
ServesWithItsLists == process = "serving" => Lists \subseteq present

\* RefreshRevocations: a revocation whose publication failed, or was undone by
\* a list read before it, holds for good in the end while the process lives.
RevocationTakesHold ==
    \A s \in 1..MaxIssued : (s \in ordered) ~> [](s \in ordered => Refused(s))

\* The publishers that have built, and are about to write, a list of s's kind that
\* does not name it.
Without(s) ==
    LET step == IF issued[s].kind = "vpn" THEN "writeCRL" ELSE "writeKRL"
    IN  {p \in Publishers : pc[p] = step /\ s \notin snapshot[p]}

\* publishRevocations holds no lock from its read to its rename, but this much is
\* true while the process lives and the certificate is valid: once a revocation is
\* recorded, nobody comes to hold a list without it, and to take it off the list
\* on disk uses up one of the lists that were built before. So it is undone at most
\* once by each goroutine that was publishing at that moment, and then never again.
OnlyOlderListsUndo ==
    [][\A s \in ordered \cap ordered' :
           LET k == issued[s].kind IN
           ~Expired(issued, s, now) =>
               /\ Without(s)' \subseteq Without(s)
               /\ s \in published[k] /\ s \notin published'[k] => Without(s)' # Without(s)]_vars

\* s was revoked, its list says so, and nobody is about to write one that does not.
Settled(s) == s \in ordered /\ Refused(s) /\ (Expired(issued, s, now) \/ Without(s) = {})

\* publishRevocations: from the moment a list names a revoked credential and no older
\* one is still to be written, it is refused until the process dies: whoever publishes
\* next and in whatever order, whatever else is revoked, evicted or pruned meanwhile,
\* and whichever writes fail.
SettledRevocationsHold ==
    \A s \in 1..MaxIssued : [](Settled(s) => [](s \in ordered => Refused(s)))

\* issued.html: "Revoking one stops the server honouring it before it expires on
\* its own": a list that names an unexpired credential goes on naming it.
ListedStaysListed ==
    [][\A k \in Kinds : \A s \in published[k] :
           ~Expired(issued, s, now) => s \in published'[k]]_vars

\* The same, of the lists main writes at start-up only: crl.go says a revoked
\* certificate is not honoured "until the moment it would have expired anyway".
StartupKeepsRevocations ==
    [][process = "starting" =>
           \A k \in Kinds : \A s \in published[k] :
               ~Expired(issued, s, now) => s \in published'[k]]_vars
=============================================================================
