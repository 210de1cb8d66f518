---------------------------- MODULE SessionStore ----------------------------
(* What portal.MemoryStore promises its callers (internal/portal/session.go *)
(* and revoke.go): which issued credentials it still tracks, and which      *)
(* revocations it still holds. Every method runs under the store's mutex    *)
(* and reads time.Now() inside it, so each is one atomic action.            *)
(*                                                                          *)
(* The list is kept as the set of the serials it holds: a serial is the     *)
(* position of its credential in the order of the Add calls, which is what  *)
(* the position in the newest-first list tells the eviction rule. Module    *)
(* MemoryStore has the list itself and is shown to implement this one.      *)
EXTENDS Integers, Sequences, FiniteSets

CONSTANTS
    Users,               \* who a credential is issued to
    Lifetimes,           \* what a credential has left to live when it is added
    MaxTrackedSessions,  \* MemoryStore.Max: config max-tracked-sessions
    DefaultMaxSessions,  \* the bound used when Max is not positive (1000)
    MaxIssued,           \* bound of the model: how many credentials are added
    MaxTime              \* bound of the model: when the clock stops

ASSUME LifetimesAreInt == Lifetimes \subseteq Int
ASSUME BoundIsInt == MaxTrackedSessions \in Int
ASSUME DefaultIsPositive == DefaultMaxSessions \in Nat \ {0}
ASSUME ModelBoundsAreNat == MaxIssued \in Nat /\ MaxTime \in Nat

VARIABLES
    now,      \* time.Now()
    issued,   \* history: every credential added, in order
    held,     \* the serials in MemoryStore.sessions
    revoked,  \* the serials in MemoryStore.revoked
    ordered   \* history: every serial Revoke was called with

storeVars == <<now, issued, held, revoked, ordered>>

Kinds == {"vpn", "ssh"}

Credential == [user : Users, kind : Kinds, expires : Int]

Serials == 1..Len(issued)

----------------------------------------------------------------------------
(* The pruning rules, over a log of credentials and a set of its serials.   *)

MaxSessions == IF MaxTrackedSessions <= 0 THEN DefaultMaxSessions ELSE MaxTrackedSessions

\* Session.Expired: at its last instant a certificate is still valid.
Expired(log, s, t) == t > log[s].expires

Unexpired(log, S, t) == {s \in S : ~Expired(log, s, t)}

\* a is kept in preference to b: more life left, the newer one on a tie.
Outlives(log, a, b) ==
    \/ log[a].expires > log[b].expires
    \/ log[a].expires = log[b].expires /\ a > b

\* What a cap of MaxSessions keeps of S: whatever fewer than that many outlive.
Longest(log, S) ==
    {s \in S : Cardinality({t \in S : Outlives(log, t, s)}) < MaxSessions}

Prune(log, S, t) == Longest(log, Unexpired(log, S, t))

\* Store.For for a user, Store.All for an administrator, after the pruning.
VisibleTo(user, admin) ==
    {s \in Prune(issued, held, now) : admin \/ issued[s].user = user}

PruneRevoked_WithSession(log, S, t) == Unexpired(log, S, t) \cap held

PruneRevoked_AtTheLimit(log, S, t) == {s \in S : t < log[s].expires}

PruneRevoked(log, S, t) == Unexpired(log, S, t)

\* Revoker.Revocations: what is read, and with `revoked' = LiveRevocations`
\* what is left behind.
LiveRevocations == PruneRevoked(issued, revoked, now)

RevocationsOf_AnyKind(kind) == LiveRevocations

RevocationsOf(kind) == {s \in LiveRevocations : issued[s].kind = kind}

----------------------------------------------------------------------------
StoreInit ==
    /\ now = 0
    /\ issued = <<>>
    /\ held = {}
    /\ revoked = {}
    /\ ordered = {}

Tick ==
    /\ now < MaxTime
    /\ now' = now + 1
    /\ UNCHANGED <<issued, held, revoked, ordered>>

\* The certificate was minted a moment ago: it may have any life left, or none.
Add(user, kind, lifetime) ==
    /\ Len(issued) < MaxIssued
    /\ issued' = Append(issued, [user |-> user, kind |-> kind, expires |-> now + lifetime])
    /\ held' = Prune(issued', held \cup {Len(issued')}, now)
    /\ UNCHANGED <<now, revoked, ordered>>

\* For, All and Tracked prune before they read.
Look ==
    /\ held' = Prune(issued, held, now)
    /\ UNCHANGED <<now, issued, revoked, ordered>>

Revoke_OffByOne(s) ==
    /\ revoked' = PruneRevoked(issued, revoked, now) \cup {s + 1}
    /\ ordered' = ordered \cup {s}
    /\ UNCHANGED <<now, issued, held>>

\* The caller looked the serial up earlier, so it may have left the list since.
Revoke(s) ==
    /\ revoked' = PruneRevoked(issued, revoked \cup {s}, now)
    /\ ordered' = ordered \cup {s}
    /\ UNCHANGED <<now, issued, held>>

ReadRevocations ==
    /\ revoked' = LiveRevocations
    /\ UNCHANGED <<now, issued, held, ordered>>

StoreNext ==
    \/ Tick
    \/ \E u \in Users, k \in Kinds, l \in Lifetimes : Add(u, k, l)
    \/ Look
    \/ \E s \in Serials : Revoke(s)
    \/ ReadRevocations

StoreSpec == StoreInit /\ [][StoreNext]_storeVars

----------------------------------------------------------------------------
(* Properties.                                                              *)

\* Every variable has its type, and every serial named was issued.
StoreTypeOK ==
    /\ now \in Nat
    /\ issued \in Seq(Credential)
    /\ held \subseteq Serials
    /\ revoked \subseteq Serials
    /\ ordered \subseteq Serials

\* prune: whatever the order of issuing, expiring and looking, the credentials
\* that can still be revoked are exactly the longest-lived of all the unexpired
\* ones ever issued: an eviction is never regretted when room opens up later.
HeldAreTheLongestLived ==
    Unexpired(issued, held, now) = Prune(issued, Serials, now)

\* prune caps the list after every call, so what it costs in memory is bounded
\* (DefaultMaxSessions: "cannot be driven to exhaust memory").
HeldAreBounded == Cardinality(held) <= MaxSessions

\* pruneRevoked: a revocation is held for as long as its certificate is valid,
\* though the session it was found through may have been evicted meanwhile, and
\* nothing is held that nobody ordered.
RevocationsAreHeld ==
    /\ revoked \subseteq ordered
    /\ Unexpired(issued, ordered, now) \subseteq revoked
=============================================================================
