----------------------------- MODULE CrlRefresh -----------------------------
(* How long crl.pem stays current (internal/portal/publish.go,              *)
(* internal/pki/crl.go). OpenSSL refuses every client once a CRL is past    *)
(* its nextUpdate, so the hourly refresher has to stay ahead of it, though  *)
(* a cycle may fail and though a revocation's handler may land a list read  *)
(* earlier on top of a newer one. Time is explicit here; what the lists     *)
(* name is Revocation's subject.                                            *)
EXTENDS Integers

CONSTANTS
    RefreshInterval,  \* publish.go: the period of the ticker (1 h)
    CrlValidity,      \* crl.go: nextUpdate is this much after the build (24 h)
    MaxLag,           \* assumed: how long a publisher takes to read, sign and rename
    MaxFailures,      \* assumed: how many cycles in a row may fail
    MaxTime           \* bound of the model: when the clock stops

ASSUME TimesAreNat ==
    /\ RefreshInterval \in Nat /\ CrlValidity \in Nat
    /\ MaxLag \in Nat /\ MaxFailures \in Nat /\ MaxTime \in Nat

\* A cycle is over before the next tick.
ASSUME CyclesDoNotOverlap == MaxLag < RefreshInterval

\* "The window is comfortably wider than the refresh interval" (crl.go).
ASSUME WindowIsWide == (MaxFailures + 1) * RefreshInterval + 2 * MaxLag <= CrlValidity

VARIABLES
    now,        \* time.Now()
    nextTick,   \* when the ticker fires next
    due,        \* whether ticker.C holds a tick
    refresher,  \* "waiting" for a tick, "writing" the list it built, or "stopped"
    built,      \* nextUpdate of the list the refresher built last
    pending,    \* nextUpdate of the lists that handlers have built and not written
    onDisk,     \* nextUpdate of crl.pem
    failures    \* how many cycles failed since the last that did not

vars == <<now, nextTick, due, refresher, built, pending, onDisk, failures>>

NextUpdate_AtTheNextRefresh == now + RefreshInterval

\* CA.CRL.
NextUpdate == now + CrlValidity

----------------------------------------------------------------------------
\* main has published the list it built at 0, and starts the ticker.
Init ==
    /\ now \in 0..MaxLag
    /\ nextTick = now + RefreshInterval
    /\ due = FALSE
    /\ refresher = "waiting"
    /\ built = CrlValidity
    /\ pending = {}
    /\ onDisk = CrlValidity
    /\ failures = 0

\* No publisher lags more than MaxLag: the refresher behind the tick it answers,
\* a handler behind the moment it built its list.
LagIsBounded(t) ==
    /\ due \/ refresher = "writing" => t <= nextTick - RefreshInterval + MaxLag
    /\ \A n \in pending : t <= n - CrlValidity + MaxLag

PassTime ==
    /\ now < MaxTime
    /\ LagIsBounded(now + 1)
    /\ now' = now + 1
    /\ IF now' = nextTick
       THEN due' = TRUE /\ nextTick' = nextTick + RefreshInterval
       ELSE UNCHANGED <<due, nextTick>>
    /\ UNCHANGED <<refresher, built, pending, onDisk, failures>>

\* Mutant: the list on disk is left alone while it outlives the next tick.
Build_WhenExpiring ==
    /\ refresher = "waiting"
    /\ due
    /\ due' = FALSE
    /\ IF onDisk < nextTick
       THEN built' = NextUpdate /\ refresher' = "writing"
       ELSE UNCHANGED <<built, refresher>>
    /\ UNCHANGED <<now, nextTick, pending, onDisk, failures>>

\* RefreshRevocations takes the tick and builds a list.
Build ==
    /\ refresher = "waiting"
    /\ due
    /\ due' = FALSE
    /\ built' = NextUpdate
    /\ refresher' = "writing"
    /\ UNCHANGED <<now, nextTick, pending, onDisk, failures>>

Write ==
    /\ refresher = "writing"
    /\ onDisk' = built
    /\ failures' = 0
    /\ refresher' = "waiting"
    /\ UNCHANGED <<now, nextTick, due, built, pending>>

FailedWrite_Returns ==
    /\ refresher = "writing"
    /\ failures < MaxFailures
    /\ failures' = failures + 1
    /\ refresher' = "stopped"
    /\ UNCHANGED <<now, nextTick, due, built, pending, onDisk>>

\* The error is logged and the loop goes on; the rename may have happened.
FailedWrite ==
    /\ refresher = "writing"
    /\ failures < MaxFailures
    /\ failures' = failures + 1
    /\ refresher' = "waiting"
    /\ onDisk' \in {onDisk, built}
    /\ UNCHANGED <<now, nextTick, due, built, pending>>

\* handleRevoke builds a list; any number of handlers may.
HandlerBuild ==
    /\ pending' = pending \cup {NextUpdate}
    /\ UNCHANGED <<now, nextTick, due, refresher, built, onDisk, failures>>

\* One of the handlers that built a list at the same moment writes it.
HandlerWrite(n) ==
    /\ onDisk' = n
    /\ pending' \in {pending, pending \ {n}}
    /\ UNCHANGED <<now, nextTick, due, refresher, built, failures>>

HandlerFails(n) ==
    /\ pending' = pending \ {n}
    /\ UNCHANGED <<now, nextTick, due, refresher, built, onDisk, failures>>

Next ==
    \/ PassTime
    \/ Build
    \/ Write
    \/ FailedWrite
    \/ HandlerBuild
    \/ \E n \in pending : HandlerWrite(n) \/ HandlerFails(n)

Spec == Init /\ [][Next]_vars

----------------------------------------------------------------------------
(* Properties.                                                              *)

\* The refresher never stops, and every variable has its type.
TypeOK ==
    /\ now \in Nat /\ nextTick \in Nat
    /\ due \in BOOLEAN
    /\ refresher \in {"waiting", "writing"}
    /\ built \in Nat /\ onDisk \in Nat
    /\ pending \subseteq Nat
    /\ failures \in 0..MaxFailures

\* RefreshInterval: "a missed cycle is survivable rather than an outage": crl.pem
\* is never past its nextUpdate, though MaxFailures cycles fail in a row and the
\* lists handlers land are up to MaxLag old.
CrlIsCurrent == now <= onDisk

\* RefreshInterval "is how often the lists are rewritten", which is what bounds
\* how long a revocation goes unheeded whose handler could not write its list, or
\* saw an older one land on top (Revocation): the list on disk was built, from a
\* store that had all that was recorded, no longer ago than the cycles that may
\* fail, and one more, take, and a publisher's lag at either end.
RevocationsListedInTime ==
    LET builtAt == onDisk - CrlValidity
    IN  now <= builtAt + (MaxFailures + 1) * RefreshInterval + 2 * MaxLag
=============================================================================
