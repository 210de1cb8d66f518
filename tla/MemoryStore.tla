---------------------------- MODULE MemoryStore -----------------------------
(* portal.MemoryStore as the code has it (internal/portal/session.go and    *)
(* revoke.go): a newest-first slice of sessions, cut to its bound by sorting *)
(* positions, and a slice of revocations. It implements SessionStore, which *)
(* keeps both as sets. Each method holds the mutex from end to end.         *)
EXTENDS Integers, Sequences, FiniteSets

CONSTANTS Users, Lifetimes, MaxTrackedSessions, DefaultMaxSessions, MaxIssued, MaxTime

ASSUME LifetimesAreInt == Lifetimes \subseteq Int
ASSUME BoundIsInt == MaxTrackedSessions \in Int
ASSUME DefaultIsPositive == DefaultMaxSessions \in Nat \ {0}
ASSUME ModelBoundsAreNat == MaxIssued \in Nat /\ MaxTime \in Nat

VARIABLES
    now,       \* time.Now()
    issued,    \* history: every credential added, in order
    sessions,  \* MemoryStore.sessions, newest first
    revoked,   \* MemoryStore.revoked
    ordered    \* history: every serial Revoke was called with

vars == <<now, issued, sessions, revoked, ordered>>

Kinds == {"vpn", "ssh"}

Session == [serial : 1..MaxIssued, user : Users, kind : Kinds, expires : Int]

Revocation == [serial : 1..MaxIssued, kind : Kinds, until : Int]

SerialsOf(list) == {list[i].serial : i \in DOMAIN list}

max == IF MaxTrackedSessions <= 0 THEN DefaultMaxSessions ELSE MaxTrackedSessions

Expired(session, t) == t > session.expires

----------------------------------------------------------------------------
\* A set of positions from the first to the last, as a loop over a slice meets them.
InOrder(P) ==
    CHOOSE f \in [1..Cardinality(P) -> P] :
        \A i, j \in 1..Cardinality(P) : i < j => f[i] < f[j]

\* slices.DeleteFunc, and the loop at the end of prune: what stays keeps its order.
Keep(list, P) ==
    LET at == InOrder(P) IN [j \in 1..Cardinality(P) |-> list[at[j]]]

\* The comparison of prune: the soonest expiry first, and of two that are equal the
\* higher position, which is the older entry.
Sooner(live, a, b) ==
    \/ live[a].expires < live[b].expires
    \/ live[a].expires = live[b].expires /\ a > b

\* slices.SortStableFunc over the positions.
Sorted(live) ==
    CHOOSE order \in [DOMAIN live -> DOMAIN live] :
        \A m, n \in DOMAIN live : m < n => Sooner(live, order[m], order[n])

DropSurplus_FromTheEnd(live) ==
    IF Len(live) <= max THEN live ELSE SubSeq(live, 1, max)

DropSurplus_Lazily(live) ==
    IF Len(live) <= max + 1 THEN live ELSE SubSeq(live, 1, max)

DropSurplus_InSortedOrder(live) ==
    LET surplus == Len(live) - max IN
    IF surplus <= 0 THEN live ELSE [j \in 1..max |-> live[Sorted(live)[surplus + j]]]

DropSurplus_NotCut(live) ==
    [j \in DOMAIN live |-> IF j <= max THEN live[j] ELSE [live[j] EXCEPT !.serial = 0]]

\* The second half of prune: the first `surplus` in the sorted order are dropped.
DropSurplus(live) ==
    LET surplus == Len(live) - max
        order == Sorted(live)
        doomed == {order[n] : n \in 1..surplus}
    IN  IF surplus <= 0 THEN live ELSE Keep(live, DOMAIN live \ doomed)

prune(list, t) == DropSurplus(Keep(list, {i \in DOMAIN list : ~Expired(list[i], t)}))

pruneRevoked_AtTheLimit(list, t) == Keep(list, {i \in DOMAIN list : t < list[i].until})

pruneRevoked(list, t) == Keep(list, {i \in DOMAIN list : t <= list[i].until})

RecordRevocation_NoLookup(list, r) == Append(list, r)

\* Revoke appends unless the serial is there already.
RecordRevocation(list, r) ==
    IF r.serial \in SerialsOf(list) THEN list ELSE Append(list, r)

----------------------------------------------------------------------------
Init ==
    /\ now = 0
    /\ issued = <<>>
    /\ sessions = <<>>
    /\ revoked = <<>>
    /\ ordered = {}

Tick ==
    /\ now < MaxTime
    /\ now' = now + 1
    /\ UNCHANGED <<issued, sessions, revoked, ordered>>

Add(user, kind, lifetime) ==
    LET serial == Len(issued) + 1
        expires == now + lifetime
        session == [serial |-> serial, user |-> user, kind |-> kind, expires |-> expires]
    IN  /\ serial <= MaxIssued
        /\ issued' = Append(issued, [user |-> user, kind |-> kind, expires |-> expires])
        /\ sessions' = prune(<<session>> \o sessions, now)
        /\ UNCHANGED <<now, revoked, ordered>>

\* For, All and Tracked: they differ only in what they return.
Look ==
    /\ sessions' = prune(sessions, now)
    /\ UNCHANGED <<now, issued, revoked, ordered>>

\* r was built from a session the caller saw earlier.
Revoke(s) ==
    LET r == [serial |-> s, kind |-> issued[s].kind, until |-> issued[s].expires]
    IN  /\ revoked' = pruneRevoked(RecordRevocation(revoked, r), now)
        /\ ordered' = ordered \cup {s}
        /\ UNCHANGED <<now, issued, sessions>>

Revocations ==
    /\ revoked' = pruneRevoked(revoked, now)
    /\ UNCHANGED <<now, issued, sessions, ordered>>

Next ==
    \/ Tick
    \/ \E u \in Users, k \in Kinds, l \in Lifetimes : Add(u, k, l)
    \/ Look
    \/ \E s \in DOMAIN issued : Revoke(s)
    \/ Revocations

Spec == Init /\ [][Next]_vars

----------------------------------------------------------------------------
\* The two slices hold sessions and revocations.
TypeOK ==
    /\ now \in 0..MaxTime
    /\ sessions \in Seq(Session)
    /\ revoked \in Seq(Revocation)
    /\ ordered \subseteq DOMAIN issued

\* "Rebuilt in place, so the list stays newest first for display", and the
\* position is the age that the tie-break of the next prune relies on.
NewestFirst ==
    \A i, j \in DOMAIN sessions : i < j => sessions[i].serial > sessions[j].serial

\* Revoking twice lists a serial once, whatever pruning came between.
RevokedOnce ==
    \A i, j \in DOMAIN revoked : revoked[i].serial = revoked[j].serial => i = j

Store == INSTANCE SessionStore WITH
    held <- SerialsOf(sessions), revoked <- SerialsOf(revoked)

\* prune: what can still be revoked are exactly the longest-lived of all the
\* unexpired credentials ever issued, by whatever path the slice was cut, sorted
\* and rebuilt: an eviction is never regretted when room opens up later.
HeldAreTheLongestLived == Store!HeldAreTheLongestLived

\* DefaultMaxSessions: the slice "cannot be driven to exhaust memory".
HeldAreBounded == Len(sessions) <= max

\* The slices do what the sets of SessionStore do, step by step.
ImplementsSessionStore == Store!StoreSpec
=============================================================================
