-------------------------- MODULE CrlRefresh_proofs --------------------------
(* crl.pem is never out of date, for every interval, validity, lag and      *)
(* number of failing cycles that leave the margin WindowIsWide asks for.    *)
EXTENDS CrlRefresh, TLAPS

Busy == due \/ refresher = "writing"

\* Where the clock stands between two ticks of the ticker.
ClockIsInCycle ==
    /\ nextTick - RefreshInterval <= now
    /\ now < nextTick
    /\ Busy => now <= nextTick - RefreshInterval + MaxLag
    /\ ~(due /\ refresher = "writing")

\* How old the lists that are not written yet can be.
ListsAreRecent ==
    /\ refresher = "writing" => nextTick - RefreshInterval + CrlValidity <= built
    /\ \A n \in pending : n \in Nat /\ now - MaxLag + CrlValidity <= n

\* The tick that the list on disk answers, or is at most MaxLag older than: each
\* cycle that failed since puts it one more interval back, and so does the one
\* that is under way.
LastGoodTick ==
    nextTick - RefreshInterval - failures * RefreshInterval
        - (IF Busy THEN RefreshInterval ELSE 0)

DiskIsRecent == LastGoodTick - MaxLag + CrlValidity <= onDisk

IInv == TypeOK /\ ClockIsInCycle /\ ListsAreRecent /\ DiskIsRecent

----------------------------------------------------------------------------
\* What one more failing cycle, and a bound on them, mean in time.
LEMMA FailuresInTime ==
  ASSUME NEW f \in Nat, NEW g \in Nat, f <= g
  PROVE  /\ f * RefreshInterval \in Nat
         /\ (f + 1) * RefreshInterval = f * RefreshInterval + RefreshInterval
         /\ f * RefreshInterval <= g * RefreshInterval
<1>1. RefreshInterval \in Nat
    BY TimesAreNat
<1>2. f * RefreshInterval \in Nat
    BY <1>1
<1>3. (f + 1) * RefreshInterval = f * RefreshInterval + RefreshInterval
    BY <1>1
<1>4. f * RefreshInterval <= g * RefreshInterval
    BY <1>1
<1>5. QED
    BY <1>2, <1>3, <1>4

\* The invariant holds when the ticker starts.
LEMMA InvInit == Init => IInv
<1> SUFFICES ASSUME Init PROVE IInv
    OBVIOUS
<1> USE TimesAreNat, CyclesDoNotOverlap DEF Init
<1>1. failures * RefreshInterval = 0
    <2>1. 0 * RefreshInterval = 0
        OBVIOUS
    <2>2. QED
        BY <2>1
<1>2. ~Busy /\ now \in Nat /\ now <= MaxLag
    BY DEF Busy
<1>3. TypeOK
    <2>1. now \in Nat /\ nextTick \in Nat
        BY <1>2
    <2>2. failures \in 0..MaxFailures
        OBVIOUS
    <2>3. pending \subseteq Nat
        OBVIOUS
    <2>4. built \in Nat /\ onDisk \in Nat
        OBVIOUS
    <2>5. due \in BOOLEAN /\ refresher \in {"waiting", "writing"}
        OBVIOUS
    <2>6. QED
        BY ONLY <2>1, <2>2, <2>3, <2>4, <2>5 DEF TypeOK
<1>4. ClockIsInCycle
    BY <1>2 DEF ClockIsInCycle
<1>5. ListsAreRecent
    BY DEF ListsAreRecent
<1>6. LastGoodTick = now
    BY <1>1, <1>2 DEF LastGoodTick
<1>7. DiskIsRecent
    BY <1>2, <1>6 DEF DiskIsRecent
<1>8. QED
    BY <1>3, <1>4, <1>5, <1>7 DEF IInv

\* Every step keeps it.
LEMMA InvStep == IInv /\ [Next]_vars => IInv'
<1> SUFFICES ASSUME IInv, [Next]_vars
             PROVE  IInv'
    OBVIOUS
<1> USE TimesAreNat
    DEF IInv, TypeOK, ClockIsInCycle, Busy, ListsAreRecent, DiskIsRecent, LastGoodTick
<1>1. /\ failures \in Nat
      /\ failures * RefreshInterval \in Nat
      /\ (failures + 1) * RefreshInterval = failures * RefreshInterval + RefreshInterval
    BY FailuresInTime
<1> DEFINE fi == failures * RefreshInterval
<1>2. CASE PassTime
    <2>1. UNCHANGED <<refresher, built, pending, onDisk, failures>> /\ now' = now + 1
        BY <1>2 DEF PassTime
    <2>2. LagIsBounded(now + 1)
        BY <1>2 DEF PassTime
    <2>3. CASE now + 1 = nextTick
        <3>1. due' = TRUE /\ nextTick' = nextTick + RefreshInterval
            BY <1>2, <2>3 DEF PassTime
        <3>2. ~Busy
            BY <2>2, <2>3, CyclesDoNotOverlap DEF LagIsBounded
        <3>3. fi' = fi
            BY <2>1
        <3>4. QED
            BY <1>1, <2>1, <2>2, <2>3, <3>1, <3>2, CyclesDoNotOverlap DEF LagIsBounded
    <2>4. CASE now + 1 # nextTick
        <3>1. UNCHANGED <<due, nextTick>>
            BY <1>2, <2>4 DEF PassTime
        <3>2. QED
            BY <1>1, <2>1, <2>2, <2>4, <3>1 DEF LagIsBounded
    <2>5. QED
        BY <2>3, <2>4
<1>3. CASE Build
    <2>1. /\ UNCHANGED <<now, nextTick, pending, onDisk, failures>>
          /\ due /\ ~due' /\ due' \in BOOLEAN
          /\ refresher' = "writing"
          /\ built' = now + CrlValidity
        BY <1>3 DEF Build, NextUpdate
    <2>2. Busy /\ Busy' /\ fi' = fi
        BY <2>1
    <2>3. TypeOK'
        BY <2>1
    <2>4. ClockIsInCycle'
        BY <2>1, <2>2
    <2>5. ListsAreRecent'
        BY <2>1
    <2>6. DiskIsRecent'
        <3>1. LastGoodTick' = LastGoodTick
            BY <2>1, <2>2
        <3>2. QED
            BY <2>1, <3>1
    <2>7. QED
        BY <2>3, <2>4, <2>5, <2>6
<1>4. CASE Write
    <2>1. 0 * RefreshInterval = 0
        OBVIOUS
    <2>2. QED
        BY <1>4, <2>1 DEF Write
<1>5. CASE FailedWrite
    BY <1>1, <1>5 DEF FailedWrite
<1>6. CASE HandlerBuild
    BY <1>6 DEF HandlerBuild, NextUpdate
<1>7. ASSUME NEW n \in pending, HandlerWrite(n)
      PROVE  IInv'
    BY <1>1, <1>7 DEF HandlerWrite
<1>8. ASSUME NEW n \in pending, HandlerFails(n)
      PROVE  IInv'
    BY <1>8 DEF HandlerFails
<1>9. CASE UNCHANGED vars
    BY <1>9 DEF vars
<1>10. QED
    BY <1>2, <1>3, <1>4, <1>5, <1>6, <1>7, <1>8, <1>9 DEF Next

\* The age of the list: the cycles since the last good one, with a lag before
\* its write and one behind the tick that is being answered.
LEMMA InvMeansInTime == IInv => RevocationsListedInTime
<1> SUFFICES ASSUME IInv PROVE RevocationsListedInTime
    OBVIOUS
<1>1. /\ failures * RefreshInterval \in Nat
      /\ failures * RefreshInterval <= MaxFailures * RefreshInterval
      /\ (MaxFailures + 1) * RefreshInterval = MaxFailures * RefreshInterval + RefreshInterval
      /\ MaxFailures * RefreshInterval \in Nat
    BY TimesAreNat, FailuresInTime DEF IInv, TypeOK
<1>2. QED
    BY <1>1, TimesAreNat, CyclesDoNotOverlap
       DEF IInv, TypeOK, ClockIsInCycle, Busy, DiskIsRecent, LastGoodTick,
           RevocationsListedInTime

\* A list of that age is current, because of the margin.
LEMMA InvMeansCurrent == IInv => CrlIsCurrent
<1> SUFFICES ASSUME IInv PROVE CrlIsCurrent
    OBVIOUS
<1>1. (MaxFailures + 1) * RefreshInterval \in Nat
    BY TimesAreNat, FailuresInTime
<1>2. now <= onDisk - CrlValidity + (MaxFailures + 1) * RefreshInterval + 2 * MaxLag
    BY InvMeansInTime DEF RevocationsListedInTime
<1>3. QED
    BY <1>1, <1>2, TimesAreNat, WindowIsWide DEF IInv, TypeOK, CrlIsCurrent

\* The refresher is never stopped by an error (RefreshRevocations).
THEOREM TypeCorrect == Spec => []TypeOK
<1>1. IInv => TypeOK
    BY DEF IInv
<1>2. QED
    BY <1>1, InvInit, InvStep, PTL DEF Spec

\* With the margin WindowIsWide, no client ever meets an expired CRL while the
\* process lives (RefreshInterval, crlValidity).
THEOREM CrlStaysCurrent == Spec => []CrlIsCurrent
BY InvInit, InvStep, InvMeansCurrent, PTL DEF Spec

\* With any validity: no revocation that was recorded is off crl.pem for longer
\* than the failing cycles, one more and two lags (RefreshRevocations).
THEOREM RevocationsAreListedInTime == Spec => []RevocationsListedInTime
BY InvInit, InvStep, InvMeansInTime, PTL DEF Spec
=============================================================================
