-------------------------- MODULE Revocation_proofs --------------------------
(* Proofs about Revocation: whatever the handlers, the refresher and main   *)
(* do, in any order, with writes failing and the process dying at any step, *)
(* for any number of handlers and any bound of the store.                   *)
EXTENDS Revocation, SessionStore_proofs

\* A list that has been built names only VPN, or only SSH, serials that were
\* revoked since the process started.
SnapshotsAreRevoked ==
    \A p \in Publishers :
        /\ pc[p] = "writeCRL" => snapshot[p] \subseteq {s \in ordered : issued[s].kind = "vpn"}
        /\ pc[p] = "writeKRL" => snapshot[p] \subseteq {s \in ordered : issued[s].kind = "ssh"}

\* A handler that found a serial has one, and one that is publishing has
\* recorded it.
TargetsAreRecorded ==
    \A r \in Requests :
        /\ pc[r] = "record" => target[r] \in Serials
        /\ pc[r] \notin {"idle", "record"} => target[r] \in ordered

\* main writes the CRL, if there is one, before it goes on to the KRL.
StartupWroteCRL ==
    pc[Startup] \in {"readKRL", "writeKRL"} => "vpn" \in present \/ "vpn" \notin Lists

\* The inductive invariant.
IInv ==
    /\ TypeOK
    /\ RevocationsAreHeld
    /\ SnapshotsAreRevoked
    /\ OnlyRevokedAreListed
    /\ TargetsAreRecorded
    /\ SnapshotNamesItsTarget
    /\ StartupWroteCRL
    /\ ServesWithItsLists

----------------------------------------------------------------------------
\* A publication begins by reading a list, and passes over a missing CRL only.
LEMMA FirstStepReads ==
  FirstStep = "readCRL" \/ (FirstStep = "readKRL" /\ "vpn" \notin Lists)
BY DEF FirstStep

----------------------------------------------------------------------------
\* Every step but a crash is a step of the store, or leaves it alone.
LEMMA StepOfStore ==
  ASSUME TypeOK, TargetsAreRecorded, [Next]_vars, ~Crash
  PROVE  [StoreNext]_storeVars
<1>1. ASSUME NEW u \in Users, NEW k \in Kinds, NEW l \in Lifetimes, Issue(u, k, l)
      PROVE  StoreNext
    BY <1>1 DEF Issue, StoreNext
<1>2. ASSUME NEW r \in Requests, Record(r)
      PROVE  StoreNext
    BY <1>2 DEF Record, StoreNext, TargetsAreRecorded
<1>3. ASSUME NEW p \in Publishers, Publish(p)
      PROVE  [StoreNext]_storeVars
    BY <1>3 DEF Publish, ReadCRL, ReadKRL, ReadList, WriteCRL, WriteKRL, FailedWrite, StoreNext
<1>4. CASE Boot \/ PassTime \/ View \/ RefreshTick
    BY <1>4 DEF Boot, PassTime, View, RefreshTick, StoreNext
<1>5. ASSUME NEW r \in Requests, NEW u \in Users, NEW a \in BOOLEAN, NEW s \in Serials,
             LookUp(r, u, a, s)
      PROVE  StoreNext
    BY <1>5 DEF LookUp, StoreNext
<1>6. CASE UNCHANGED vars
    BY <1>6 DEF vars
<1>7. QED
    BY <1>1, <1>2, <1>3, <1>4, <1>5, <1>6 DEF Next

\* A step of the store leaves what was issued as it was, and forgets no order.
LEMMA StoreGrows ==
  ASSUME StoreTypeOK, [StoreNext]_storeVars
  PROVE  /\ Serials \subseteq Serials'
         /\ \A s \in Serials : issued'[s] = issued[s]
         /\ ordered \subseteq ordered'
         /\ now' \in Nat /\ now <= now'
<1>1. ASSUME NEW u \in Users, NEW k \in Kinds, NEW l \in Lifetimes, Add(u, k, l)
      PROVE  /\ Serials \subseteq Serials'
             /\ \A s \in Serials : issued'[s] = issued[s]
             /\ ordered \subseteq ordered'
             /\ now' = now
    <2> DEFINE c == [user |-> u, kind |-> k, expires |-> now + l]
    <2>1. c \in Credential
        BY LifetimesAreInt DEF Credential, StoreTypeOK
    <2>2. issued' = Append(issued, c) /\ issued \in Seq(Credential)
        BY <1>1 DEF Add, StoreTypeOK
    <2>3. \A s \in 1..Len(issued) : issued'[s] = issued[s]
        BY <2>1, <2>2, AppendKeeps
    <2>4. Len(issued') = Len(issued) + 1 /\ Len(issued) \in Nat
        BY <2>1, <2>2, AppendKeeps
    <2>5. 1..Len(issued) \subseteq 1..Len(issued')
        BY <2>4
    <2>6. QED
        BY <1>1, <2>3, <2>5 DEF Add, Serials
<1>2. CASE Tick
    BY <1>2 DEF Tick, Serials, StoreTypeOK
<1>3. CASE UNCHANGED <<now, issued>> /\ ordered \subseteq ordered'
    BY <1>3 DEF Serials, StoreTypeOK
<1>4. ASSUME NEW s \in Serials, Revoke(s)
      PROVE  UNCHANGED <<now, issued>> /\ ordered \subseteq ordered'
    BY <1>4 DEF Revoke
<1>5. CASE Look \/ ReadRevocations \/ UNCHANGED storeVars
    BY <1>3, <1>5 DEF Look, ReadRevocations, storeVars
<1>6. now \in Nat
    BY DEF StoreTypeOK
<1>7. QED
    BY <1>1, <1>2, <1>3, <1>4, <1>5, <1>6 DEF StoreNext

\* TypeOK is inductive.
LEMMA TypeStep ==
  ASSUME TypeOK, TargetsAreRecorded, [Next]_vars
  PROVE  TypeOK'
<1> USE DEF TypeOK
<1>1. CASE Crash
    <2>1. StoreTypeOK'
        BY <1>1 DEF Crash, StoreTypeOK, Serials
    <2>2. Serials' = Serials /\ ordered \subseteq Serials
        BY <1>1 DEF Crash, Serials, StoreTypeOK
    <2>3. QED
        BY <1>1, <2>1, <2>2 DEF Crash, Steps
<1>2. CASE ~Crash
    <2>1. StoreTypeOK'
        BY <1>2, StepOfStore, StoreTypeStep
    <2>2. Serials \subseteq Serials'
        BY <1>2, StepOfStore, StoreGrows
    <2>3. revoked \subseteq Serials
        BY DEF StoreTypeOK
    <2>4. ASSUME NEW p \in Publishers, Publish(p)
          PROVE  TypeOK'
        <3>1. ASSUME NEW k \in Kinds, NEW from \in Steps, NEW to \in Steps,
                     ReadList(p, k, from, to)
              PROVE  TypeOK'
            <4>1. RevocationsOf(k) \subseteq Serials
                BY <2>3, PruneRevokedIsSubset DEF RevocationsOf, LiveRevocations
            <4>2. QED
                BY <2>1, <2>2, <3>1, <4>1 DEF ReadList, Goto
        <3>2. CASE WriteCRL(p)
            BY <2>1, <2>2, <3>2 DEF WriteCRL, Replace, Succeed, Goto, Steps, Kinds
        <3>3. CASE WriteKRL(p)
            BY <2>1, <2>2, <3>3 DEF WriteKRL, Replace, Succeed, Goto, Steps, Kinds
        <3>4. ASSUME NEW k \in Kinds, NEW from, FailedWrite(p, k, from)
              PROVE  TypeOK'
            BY <2>1, <2>2, <3>4 DEF FailedWrite, Replace, Fail, Goto, Steps, Kinds
        <3>5. QED
            BY <2>4, <3>1, <3>2, <3>3, <3>4 DEF Publish, ReadCRL, ReadKRL, Steps, Kinds
    <2>5. CASE Boot \/ PassTime \/ View \/ RefreshTick
        BY <2>1, <2>2, <2>5, FirstStepReads DEF Boot, PassTime, View, RefreshTick, Goto, Steps, listVars, Publishers
    <2>6. ASSUME NEW u \in Users, NEW k \in Kinds, NEW l \in Lifetimes, Issue(u, k, l)
          PROVE  TypeOK'
        BY <2>1, <2>2, <2>6 DEF Issue, listVars
    <2>7. ASSUME NEW r \in Requests, NEW u \in Users, NEW a \in BOOLEAN, NEW s \in Serials,
                 LookUp(r, u, a, s)
          PROVE  TypeOK'
        <3>1. s \in Nat
            BY DEF Serials
        <3>2. QED
            BY <2>1, <2>2, <2>7, <3>1 DEF LookUp, Goto, Steps, listVars
    <2>8. ASSUME NEW r \in Requests, Record(r)
          PROVE  TypeOK'
        BY <2>1, <2>2, <2>8, FirstStepReads DEF Record, Goto, Steps, listVars
    <2>9. CASE UNCHANGED vars
        BY <2>1, <2>2, <2>9 DEF vars, listVars
    <2>10. QED
        BY <1>2, <2>4, <2>5, <2>6, <2>7, <2>8, <2>9 DEF Next
<1>3. QED
    BY <1>1, <1>2

----------------------------------------------------------------------------
\* A publisher about to write a list has just read it, or had it already.
LEMMA WhoWrites ==
  ASSUME TypeOK, [Next]_vars, ~Crash, NEW p \in Publishers
  PROVE  /\ pc'[p] = "writeCRL" =>
               ReadCRL(p) \/ (pc[p] = "writeCRL" /\ snapshot'[p] = snapshot[p])
         /\ pc'[p] = "writeKRL" =>
               ReadKRL(p) \/ (pc[p] = "writeKRL" /\ snapshot'[p] = snapshot[p])
<1> USE DEF TypeOK, Goto
<1>1. ASSUME NEW q \in Publishers, Publish(q)
      PROVE  /\ pc'[p] = "writeCRL" =>
                   ReadCRL(p) \/ (pc[p] = "writeCRL" /\ snapshot'[p] = snapshot[p])
             /\ pc'[p] = "writeKRL" =>
                   ReadKRL(p) \/ (pc[p] = "writeKRL" /\ snapshot'[p] = snapshot[p])
    <2>1. CASE ReadCRL(q)
        BY <2>1 DEF ReadCRL, ReadList
    <2>2. CASE ReadKRL(q)
        BY <2>2 DEF ReadKRL, ReadList
    <2>3. CASE WriteCRL(q) \/ WriteKRL(q)
        BY <2>3 DEF WriteCRL, WriteKRL, Succeed
    <2>4. CASE FailedWrite(q, "vpn", "writeCRL") \/ FailedWrite(q, "ssh", "writeKRL")
        BY <2>4 DEF FailedWrite, Fail
    <2>5. QED
        BY <1>1, <2>1, <2>2, <2>3, <2>4 DEF Publish
<1>2. CASE Boot \/ PassTime \/ View \/ RefreshTick
    BY <1>2, FirstStepReads DEF Boot, PassTime, View, RefreshTick, listVars, Publishers
<1>3. ASSUME NEW u \in Users, NEW k \in Kinds, NEW l \in Lifetimes, Issue(u, k, l)
      PROVE  pc' = pc /\ snapshot' = snapshot
    BY <1>3 DEF Issue, listVars
<1>4. ASSUME NEW r \in Requests, NEW u \in Users, NEW a \in BOOLEAN, NEW s \in Serials,
             LookUp(r, u, a, s)
      PROVE  pc' = [pc EXCEPT ![r] = "record"] /\ snapshot' = snapshot
    BY <1>4 DEF LookUp, listVars
<1>5. ASSUME NEW r \in Requests, Record(r)
      PROVE  pc' = [pc EXCEPT ![r] = FirstStep] /\ snapshot' = snapshot
    BY <1>5 DEF Record, listVars
<1>6. CASE UNCHANGED vars
    BY <1>6 DEF vars, listVars
<1>7. QED
    BY <1>1, <1>2, <1>3, <1>4, <1>5, <1>6, FirstStepReads DEF Next

\* A handler gets its serial from a lookup, and publishes after recording it.
LEMMA WhoTargets ==
  ASSUME TypeOK, [Next]_vars, ~Crash, NEW r \in Requests
  PROVE  /\ pc'[r] = "record" =>
               target'[r] \in Serials \/ (pc[r] = "record" /\ target'[r] = target[r])
         /\ pc'[r] \notin {"idle", "record"} =>
               /\ target'[r] = target[r]
               /\ target[r] \in ordered' \/ pc[r] \notin {"idle", "record"}
<1> USE DEF TypeOK, Goto
<1>1. r \in Publishers /\ r # Startup /\ r # Refresher
    BY PublishersDiffer DEF Publishers
<1>2. ASSUME NEW q \in Publishers, Publish(q)
      PROVE  /\ target' = target
             /\ pc[q] \notin {"idle", "record"}
             /\ \E step \in Steps \ {"record"} : pc' = [pc EXCEPT ![q] = step]
    BY <1>2 DEF Publish, ReadCRL, ReadKRL, ReadList, WriteCRL, WriteKRL, FailedWrite,
                Succeed, Fail, Steps
<1>3. CASE Boot \/ PassTime \/ View \/ RefreshTick
    BY <1>1, <1>3 DEF Boot, PassTime, View, RefreshTick, Publishers
<1>4. ASSUME NEW u \in Users, NEW k \in Kinds, NEW l \in Lifetimes, Issue(u, k, l)
      PROVE  pc' = pc /\ target' = target
    BY <1>4 DEF Issue
<1>5. ASSUME NEW q \in Requests, NEW u \in Users, NEW a \in BOOLEAN, NEW s \in Serials,
             LookUp(q, u, a, s)
      PROVE  /\ pc' = [pc EXCEPT ![q] = "record"]
             /\ target' = [target EXCEPT ![q] = s]
    BY <1>5 DEF LookUp
<1>6. ASSUME NEW q \in Requests, Record(q)
      PROVE  /\ pc' = [pc EXCEPT ![q] = FirstStep]
             /\ target' = target
             /\ target[q] \in ordered'
    BY <1>6 DEF Record, Revoke
<1>7. CASE UNCHANGED vars
    BY <1>7 DEF vars
<1>8. QED
    BY <1>1, <1>2, <1>3, <1>4, <1>5, <1>6, <1>7, FirstStepReads DEF Next

\* What is on disk changes only to a list some publisher had built, and is done with.
LEMMA WhoPublishes ==
  ASSUME TypeOK, [Next]_vars
  PROVE  /\ \/ published'["vpn"] = published["vpn"]
            \/ \E p \in Publishers : /\ pc[p] = "writeCRL" /\ pc'[p] # "writeCRL"
                                   /\ published'["vpn"] = snapshot[p]
         /\ \/ published'["ssh"] = published["ssh"]
            \/ \E p \in Publishers : /\ pc[p] = "writeKRL" /\ pc'[p] # "writeKRL"
                                   /\ published'["ssh"] = snapshot[p]
<1> USE DEF TypeOK, Kinds
<1>1. ASSUME NEW p \in Publishers, WriteCRL(p) \/ FailedWrite(p, "vpn", "writeCRL")
      PROVE  /\ pc[p] = "writeCRL" /\ pc'[p] # "writeCRL"
             /\ published' \in {published, [published EXCEPT !["vpn"] = snapshot[p]]}
    BY <1>1 DEF WriteCRL, FailedWrite, Replace, Succeed, Fail, Goto
<1>2. ASSUME NEW p \in Publishers, WriteKRL(p) \/ FailedWrite(p, "ssh", "writeKRL")
      PROVE  /\ pc[p] = "writeKRL" /\ pc'[p] # "writeKRL"
             /\ published' \in {published, [published EXCEPT !["ssh"] = snapshot[p]]}
    BY <1>2 DEF WriteKRL, FailedWrite, Replace, Succeed, Fail, Goto
<1>3. ASSUME NEW p \in Publishers, ReadCRL(p) \/ ReadKRL(p)
      PROVE  published' = published
    BY <1>3 DEF ReadCRL, ReadKRL, ReadList
<1>4. CASE Boot \/ Crash \/ PassTime \/ View \/ RefreshTick \/ UNCHANGED vars
    BY <1>4 DEF Boot, Crash, PassTime, View, RefreshTick, listVars, vars
<1>5. ASSUME NEW u \in Users, NEW k \in Kinds, NEW l \in Lifetimes, Issue(u, k, l)
      PROVE  published' = published
    BY <1>5 DEF Issue, listVars
<1>6. ASSUME NEW r \in Requests, NEW u \in Users, NEW a \in BOOLEAN, NEW s \in Serials,
             LookUp(r, u, a, s)
      PROVE  published' = published
    BY <1>6 DEF LookUp, listVars
<1>7. ASSUME NEW r \in Requests, Record(r)
      PROVE  published' = published
    BY <1>7 DEF Record, listVars
<1>8. QED
    BY <1>1, <1>2, <1>3, <1>4, <1>5, <1>6, <1>7 DEF Next, Publish

\* A list that is read names every recorded revocation of its kind that still matters.
LEMMA WhatIsRead ==
  ASSUME TypeOK, RevocationsAreHeld,
         NEW p \in Publishers, NEW k \in Kinds, NEW from, NEW to, ReadList(p, k, from, to),
         NEW s \in ordered, issued[s].kind = k, ~Expired(issued, s, now)
  PROVE  s \in snapshot'[p]
<1>1. snapshot'[p] = RevocationsOf(k)
    BY DEF ReadList, TypeOK
<1>2. s \in LiveRevocations
    BY DEF RevocationsAreHeld, LiveRevocations, PruneRevoked, Unexpired
<1>3. QED
    BY <1>1, <1>2 DEF RevocationsOf

----------------------------------------------------------------------------
\* RevocationsAreHeld is inductive: a crash empties both sides of it.
LEMMA HeldStep ==
  ASSUME TypeOK, TargetsAreRecorded, RevocationsAreHeld, [Next]_vars
  PROVE  RevocationsAreHeld'
<1>1. CASE Crash
    BY <1>1 DEF Crash, RevocationsAreHeld, Unexpired
<1>2. CASE ~Crash
    BY <1>2, StepOfStore, RevocationsHeldStep DEF TypeOK
<1>3. QED
    BY <1>1, <1>2

\* TargetsAreRecorded is inductive.
LEMMA TargetsStep ==
  ASSUME TypeOK, TargetsAreRecorded, [Next]_vars
  PROVE  TargetsAreRecorded'
<1>1. CASE Crash
    BY <1>1 DEF Crash, TargetsAreRecorded, TypeOK, Publishers
<1>2. CASE ~Crash
    <2>1. Serials \subseteq Serials' /\ ordered \subseteq ordered'
        BY <1>2, StepOfStore, StoreGrows DEF TypeOK
    <2>2. QED
        BY <1>2, <2>1, WhoTargets DEF TargetsAreRecorded
<1>3. QED
    BY <1>1, <1>2

\* SnapshotsAreRevoked is inductive.
LEMMA SnapshotsStep ==
  ASSUME TypeOK, TargetsAreRecorded, RevocationsAreHeld, SnapshotsAreRevoked, [Next]_vars
  PROVE  SnapshotsAreRevoked'
<1>1. CASE Crash
    BY <1>1 DEF Crash, SnapshotsAreRevoked
<1>2. CASE ~Crash
    <2>1. \A s \in Serials : issued'[s] = issued[s]
        BY <1>2, StepOfStore, StoreGrows DEF TypeOK
    <2>2. ordered \subseteq ordered' /\ ordered \subseteq Serials
        BY <1>2, StepOfStore, StoreGrows DEF TypeOK, StoreTypeOK
    <2>3. ASSUME NEW p \in Publishers, NEW k \in Kinds, NEW from, NEW to,
                 ReadList(p, k, from, to)
          PROVE  snapshot'[p] \subseteq {s \in ordered' : issued'[s].kind = k}
        <3>1. snapshot'[p] = RevocationsOf(k) /\ UNCHANGED <<issued, ordered>>
            BY <2>3 DEF ReadList, ReadRevocations, TypeOK
        <3>2. LiveRevocations \subseteq ordered
            BY PruneRevokedIsSubset DEF LiveRevocations, RevocationsAreHeld
        <3>3. QED
            BY <3>1, <3>2 DEF RevocationsOf
    <2>4. ASSUME NEW p \in Publishers, pc'[p] = "writeCRL"
          PROVE  snapshot'[p] \subseteq {s \in ordered' : issued'[s].kind = "vpn"}
        <3>1. CASE ReadCRL(p)
            BY <2>3, <3>1 DEF ReadCRL, Kinds
        <3>2. CASE pc[p] = "writeCRL" /\ snapshot'[p] = snapshot[p]
            BY <2>1, <2>2, <3>2 DEF SnapshotsAreRevoked
        <3>3. QED
            BY <1>2, <2>4, <3>1, <3>2, WhoWrites
    <2>5. ASSUME NEW p \in Publishers, pc'[p] = "writeKRL"
          PROVE  snapshot'[p] \subseteq {s \in ordered' : issued'[s].kind = "ssh"}
        <3>1. CASE ReadKRL(p)
            BY <2>3, <3>1 DEF ReadKRL, Kinds
        <3>2. CASE pc[p] = "writeKRL" /\ snapshot'[p] = snapshot[p]
            BY <2>1, <2>2, <3>2 DEF SnapshotsAreRevoked
        <3>3. QED
            BY <1>2, <2>5, <3>1, <3>2, WhoWrites
    <2>6. QED
        BY <2>4, <2>5 DEF SnapshotsAreRevoked
<1>3. QED
    BY <1>1, <1>2

\* OnlyRevokedAreListed is preserved: what lands is what somebody had built, and
\* a crash moves the orders it forgets to `lost`.
LEMMA ListedStep ==
  ASSUME TypeOK, TargetsAreRecorded, SnapshotsAreRevoked, OnlyRevokedAreListed, [Next]_vars
  PROVE  OnlyRevokedAreListed'
<1>1. /\ \A s \in Serials : issued'[s] = issued[s]
      /\ ordered \cup lost \subseteq ordered' \cup lost'
      /\ ordered \cup lost \subseteq Serials
    <2>1. ordered \cup lost \subseteq Serials
        BY DEF TypeOK, StoreTypeOK
    <2>2. CASE Crash
        BY <2>1, <2>2 DEF Crash
    <2>3. CASE ~Crash
        <3>1. \A s \in Serials : issued'[s] = issued[s]
            BY <2>3, StepOfStore, StoreGrows DEF TypeOK
        <3>2. ordered \subseteq ordered'
            BY <2>3, StepOfStore, StoreGrows DEF TypeOK
        <3>3. lost' = lost
            BY <2>3 DEF Next, Boot, PassTime, View, RefreshTick, Issue, LookUp, Record, Publish,
                        ReadCRL, ReadKRL, ReadList, WriteCRL, WriteKRL, FailedWrite, vars
        <3>4. QED
            BY <2>1, <3>1, <3>2, <3>3
    <2>4. QED
        BY <2>2, <2>3
<1>2. ASSUME NEW k \in Kinds, NEW S, S \subseteq {s \in ordered \cup lost : issued[s].kind = k}
      PROVE  S \subseteq {s \in ordered' \cup lost' : issued'[s].kind = k}
    BY <1>1, <1>2
<1>3. published'["vpn"] \subseteq {s \in ordered' \cup lost' : issued'[s].kind = "vpn"}
    <2>1. published["vpn"] \subseteq {s \in ordered \cup lost : issued[s].kind = "vpn"}
        BY DEF OnlyRevokedAreListed, Kinds
    <2>2. \A p \in Publishers : pc[p] = "writeCRL" =>
              snapshot[p] \subseteq {s \in ordered \cup lost : issued[s].kind = "vpn"}
        BY DEF SnapshotsAreRevoked
    <2>3. published'["vpn"] \subseteq {s \in ordered \cup lost : issued[s].kind = "vpn"}
        BY <2>1, <2>2, WhoPublishes
    <2>4. QED
        BY <1>2, <2>3 DEF Kinds
<1>4. published'["ssh"] \subseteq {s \in ordered' \cup lost' : issued'[s].kind = "ssh"}
    <2>1. published["ssh"] \subseteq {s \in ordered \cup lost : issued[s].kind = "ssh"}
        BY DEF OnlyRevokedAreListed, Kinds
    <2>2. \A p \in Publishers : pc[p] = "writeKRL" =>
              snapshot[p] \subseteq {s \in ordered \cup lost : issued[s].kind = "ssh"}
        BY DEF SnapshotsAreRevoked
    <2>3. published'["ssh"] \subseteq {s \in ordered \cup lost : issued[s].kind = "ssh"}
        BY <2>1, <2>2, WhoPublishes
    <2>4. QED
        BY <1>2, <2>3 DEF Kinds
<1>5. QED
    BY <1>3, <1>4 DEF OnlyRevokedAreListed, Kinds

\* SnapshotNamesItsTarget is preserved: the store read after the record has it.
LEMMA NamesTargetStep ==
  ASSUME TypeOK, TargetsAreRecorded, RevocationsAreHeld, SnapshotNamesItsTarget, [Next]_vars
  PROVE  SnapshotNamesItsTarget'
<1>1. CASE Crash
    BY <1>1 DEF Crash, SnapshotNamesItsTarget, TypeOK, Publishers
<1>2. CASE ~Crash
    <2>1. /\ \A s \in Serials : issued'[s] = issued[s]
          /\ now' \in Nat /\ now <= now'
        BY <1>2, StepOfStore, StoreGrows DEF TypeOK
    <2>2. now \in Nat /\ issued \in Seq(Credential) /\ ordered \subseteq Serials
        BY DEF TypeOK, StoreTypeOK
    <2>3. ASSUME NEW s \in Serials, Expired(issued, s, now)
          PROVE  Expired(issued', s, now')
        <3>1. issued[s].expires \in Int
            BY <2>2, ExpiresIsInt DEF Serials
        <3>2. QED
            BY <2>1, <2>2, <2>3, <3>1 DEF Expired
    <2>4. ASSUME NEW r \in Requests, NEW k \in Kinds, NEW from, NEW to,
                 ReadList(r, k, from, to), target[r] \in ordered, issued[target[r]].kind = k
          PROVE  target[r] \in snapshot'[r] \/ Expired(issued, target[r], now)
        BY <2>4, WhatIsRead DEF Publishers
    <2>5. ASSUME NEW r \in Requests, pc'[r] = "writeCRL", issued'[target'[r]].kind = "vpn"
          PROVE  target'[r] \in snapshot'[r] \/ Expired(issued', target'[r], now')
        <3>1. r \in Publishers /\ target'[r] = target[r]
            BY <1>2, <2>5, WhoTargets DEF Publishers
        <3>2. CASE ReadCRL(r)
            <4>1. target[r] \in ordered
                BY <3>2 DEF ReadCRL, ReadList, TargetsAreRecorded
            <4>2. issued[target[r]].kind = "vpn"
                BY <2>1, <2>2, <2>5, <3>1, <4>1
            <4>3. target[r] \in snapshot'[r] \/ Expired(issued, target[r], now)
                BY <2>4, <3>2, <4>1, <4>2 DEF ReadCRL, Kinds
            <4>4. QED
                BY <2>2, <2>3, <3>1, <4>1, <4>3
        <3>3. CASE pc[r] = "writeCRL" /\ snapshot'[r] = snapshot[r]
            <4>1. target[r] \in ordered
                BY <3>3 DEF TargetsAreRecorded
            <4>2. issued[target[r]].kind = "vpn"
                BY <2>1, <2>2, <2>5, <3>1, <4>1
            <4>3. target[r] \in snapshot[r] \/ Expired(issued, target[r], now)
                BY <3>3, <4>2 DEF SnapshotNamesItsTarget
            <4>4. QED
                BY <2>2, <2>3, <3>1, <3>3, <4>1, <4>3
        <3>4. QED
            BY <1>2, <2>5, <3>1, <3>2, <3>3, WhoWrites
    <2>6. ASSUME NEW r \in Requests, pc'[r] = "writeKRL", issued'[target'[r]].kind = "ssh"
          PROVE  target'[r] \in snapshot'[r] \/ Expired(issued', target'[r], now')
        <3>1. r \in Publishers /\ target'[r] = target[r]
            BY <1>2, <2>6, WhoTargets DEF Publishers
        <3>2. CASE ReadKRL(r)
            <4>1. target[r] \in ordered
                BY <3>2 DEF ReadKRL, ReadList, TargetsAreRecorded
            <4>2. issued[target[r]].kind = "ssh"
                BY <2>1, <2>2, <2>6, <3>1, <4>1
            <4>3. target[r] \in snapshot'[r] \/ Expired(issued, target[r], now)
                BY <2>4, <3>2, <4>1, <4>2 DEF ReadKRL, Kinds
            <4>4. QED
                BY <2>2, <2>3, <3>1, <4>1, <4>3
        <3>3. CASE pc[r] = "writeKRL" /\ snapshot'[r] = snapshot[r]
            <4>1. target[r] \in ordered
                BY <3>3 DEF TargetsAreRecorded
            <4>2. issued[target[r]].kind = "ssh"
                BY <2>1, <2>2, <2>6, <3>1, <4>1
            <4>3. target[r] \in snapshot[r] \/ Expired(issued, target[r], now)
                BY <3>3, <4>2 DEF SnapshotNamesItsTarget
            <4>4. QED
                BY <2>2, <2>3, <3>1, <3>3, <4>1, <4>3
        <3>4. QED
            BY <1>2, <2>6, <3>1, <3>2, <3>3, WhoWrites
    <2>7. QED
        BY <2>5, <2>6 DEF SnapshotNamesItsTarget
<1>3. QED
    BY <1>1, <1>2

\* Files are only added, and main serves once it has written them all.
LEMMA ServesStep ==
  ASSUME TypeOK, StartupWroteCRL, ServesWithItsLists, [Next]_vars
  PROVE  StartupWroteCRL' /\ ServesWithItsLists'
<1> USE DEF TypeOK, StartupWroteCRL, ServesWithItsLists, Goto, Steps
<1>1. Startup \in Publishers /\ Startup \notin Requests /\ Startup # Refresher
    BY PublishersDiffer DEF Publishers
<1>2. ASSUME NEW p \in Publishers, Publish(p)
      PROVE  StartupWroteCRL' /\ ServesWithItsLists'
    <2>1. CASE ReadCRL(p) \/ ReadKRL(p)
        BY <1>1, <2>1 DEF ReadCRL, ReadKRL, ReadList
    <2>2. CASE WriteCRL(p)
        BY <1>1, <2>2, SomeCA DEF WriteCRL, Replace, Succeed, Kinds
    <2>3. CASE WriteKRL(p)
        BY <1>1, <2>3, SomeCA DEF WriteKRL, Replace, Succeed, Kinds
    <2>4. CASE FailedWrite(p, "vpn", "writeCRL") \/ FailedWrite(p, "ssh", "writeKRL")
        BY <1>1, <2>4 DEF FailedWrite, Replace, Fail, Kinds
    <2>5. QED
        BY <1>2, <2>1, <2>2, <2>3, <2>4 DEF Publish
<1>3. CASE Boot \/ Crash \/ PassTime \/ View \/ RefreshTick
    BY <1>1, <1>3, FirstStepReads DEF Boot, Crash, PassTime, View, RefreshTick, listVars
<1>4. ASSUME NEW u \in Users, NEW k \in Kinds, NEW l \in Lifetimes, Issue(u, k, l)
      PROVE  UNCHANGED <<pc, present, process>>
    BY <1>4 DEF Issue, listVars
<1>5. ASSUME NEW r \in Requests, NEW u \in Users, NEW a \in BOOLEAN, NEW s \in Serials,
             LookUp(r, u, a, s)
      PROVE  pc'[Startup] = pc[Startup] /\ UNCHANGED <<present, process>>
    BY <1>1, <1>5 DEF LookUp, listVars
<1>6. ASSUME NEW r \in Requests, Record(r)
      PROVE  pc'[Startup] = pc[Startup] /\ UNCHANGED <<present, process>>
    BY <1>1, <1>6 DEF Record, listVars
<1>7. CASE UNCHANGED vars
    BY <1>7 DEF vars, listVars
<1>8. QED
    BY <1>2, <1>3, <1>4, <1>5, <1>6, <1>7 DEF Next

----------------------------------------------------------------------------
\* The inductive invariant holds when the process is first started.
LEMMA InvInit == Init => IInv
<1> SUFFICES ASSUME Init PROVE IInv
    OBVIOUS
<1>1. TypeOK
    BY StoreTypeInit DEF Init, TypeOK, StoreInit, Serials, Steps
<1>2. RevocationsAreHeld
    BY RevocationsHeldInit DEF Init
<1>3. QED
    BY <1>1, <1>2 DEF Init, IInv, SnapshotsAreRevoked, OnlyRevokedAreListed, TargetsAreRecorded,
       SnapshotNamesItsTarget, StartupWroteCRL, ServesWithItsLists, Publishers

\* Every step keeps it.
LEMMA InvStep == IInv /\ [Next]_vars => IInv'
BY TypeStep, HeldStep, SnapshotsStep, ListedStep, TargetsStep, NamesTargetStep, ServesStep
   DEF IInv

\* IInv is an invariant.
THEOREM InvCorrect == Spec => []IInv
BY InvInit, InvStep, PTL DEF Spec

\* Every variable keeps its type.
THEOREM TypeCorrect == Spec => []TypeOK
<1>1. IInv => TypeOK
    BY DEF IInv
<1>2. QED
    BY <1>1, InvCorrect, PTL

\* No credential that was not revoked is ever on a list, however late or often
\* the lists are written and wherever the process dies (publishRevocations).
THEOREM OnlyRevokedListed == Spec => []OnlyRevokedAreListed
<1>1. IInv => OnlyRevokedAreListed
    BY DEF IInv
<1>2. QED
    BY <1>1, InvCorrect, PTL

\* The list a handler writes names the credential it revoked (handleRevoke).
THEOREM SnapshotNamesTarget == Spec => []SnapshotNamesItsTarget
<1>1. IInv => SnapshotNamesItsTarget
    BY DEF IInv
<1>2. QED
    BY <1>1, InvCorrect, PTL

\* While a process lives, and however often it died before, it holds every revocation
\* it was asked for whose certificate is still valid (pruneRevoked).
THEOREM HeldWhileAlive == Spec => []RevocationsAreHeld
<1>1. IInv => RevocationsAreHeld
    BY DEF IInv
<1>2. QED
    BY <1>1, InvCorrect, PTL

\* Requests are served only with both lists in place (PublishRevocations).
THEOREM ServesWithLists == Spec => []ServesWithItsLists
<1>1. IInv => ServesWithItsLists
    BY DEF IInv
<1>2. QED
    BY <1>1, InvCorrect, PTL

----------------------------------------------------------------------------
\* Who holds a list without s after a step held one before: it is not read so.
LEMMA WithoutShrinks ==
  ASSUME IInv, Next, NEW s \in ordered \cap ordered', ~Expired(issued, s, now)
  PROVE  /\ issued[s].kind \in Kinds /\ issued'[s].kind = issued[s].kind
         /\ Without(s)' \subseteq Without(s)
<1>1. ~Crash /\ TypeOK /\ StoreTypeOK /\ RevocationsAreHeld
    BY DEF Crash, IInv, TypeOK
<1>2. s \in Serials /\ issued[s] \in Credential
    BY <1>1 DEF StoreTypeOK, Serials
<1>3. issued'[s] = issued[s]
    BY <1>1, <1>2, StepOfStore, StoreGrows DEF IInv
<1>4. issued[s].kind \in Kinds
    BY <1>2 DEF Credential
<1>5. CASE issued[s].kind = "vpn"
    <2>1. ASSUME NEW p \in Publishers, pc'[p] = "writeCRL", s \notin snapshot'[p]
          PROVE  pc[p] = "writeCRL" /\ s \notin snapshot[p]
        <3>1. ~ReadCRL(p)
            BY <1>1, <1>5, <2>1, WhatIsRead DEF ReadCRL, Kinds
        <3>2. QED
            BY <1>1, <2>1, <3>1, WhoWrites
    <2>2. /\ Without(s) = {p \in Publishers : pc[p] = "writeCRL" /\ s \notin snapshot[p]}
          /\ Without(s)' = {p \in Publishers : pc'[p] = "writeCRL" /\ s \notin snapshot'[p]}
        BY <1>3, <1>5 DEF Without, Publishers
    <2>3. QED
        BY <1>3, <1>4, <2>1, <2>2
<1>6. CASE issued[s].kind = "ssh"
    <2>1. ASSUME NEW p \in Publishers, pc'[p] = "writeKRL", s \notin snapshot'[p]
          PROVE  pc[p] = "writeKRL" /\ s \notin snapshot[p]
        <3>1. ~ReadKRL(p)
            BY <1>1, <1>6, <2>1, WhatIsRead DEF ReadKRL, Kinds
        <3>2. QED
            BY <1>1, <2>1, <3>1, WhoWrites
    <2>2. /\ Without(s) = {p \in Publishers : pc[p] = "writeKRL" /\ s \notin snapshot[p]}
          /\ Without(s)' = {p \in Publishers : pc'[p] = "writeKRL" /\ s \notin snapshot'[p]}
        BY <1>3, <1>6 DEF Without, Publishers
    <2>3. QED
        BY <1>3, <1>4, <2>1, <2>2
<1>7. QED
    BY <1>3, <1>4, <1>5, <1>6 DEF Kinds

\* Who takes s off its list held a list without it, and holds it no more.
LEMMA WhoUndoes ==
  ASSUME TypeOK, Next, NEW s \in Serials, NEW k \in Kinds,
         issued[s].kind = k, issued'[s].kind = k,
         s \in published[k], s \notin published'[k]
  PROVE  \E p \in Publishers : p \in Without(s) /\ p \notin Without(s)'
<1>1. CASE k = "vpn"
    <2>1. PICK p \in Publishers : /\ pc[p] = "writeCRL" /\ pc'[p] # "writeCRL"
                                  /\ published'["vpn"] = snapshot[p]
        BY <1>1, WhoPublishes
    <2>2. QED
        BY <1>1, <2>1 DEF Without
<1>2. CASE k = "ssh"
    <2>1. PICK p \in Publishers : /\ pc[p] = "writeKRL" /\ pc'[p] # "writeKRL"
                                  /\ published'["ssh"] = snapshot[p]
        BY <1>2, WhoPublishes
    <2>2. QED
        BY <1>2, <2>1 DEF Without
<1>3. QED
    BY <1>1, <1>2 DEF Kinds

\* A recorded revocation is undone only by lists that were built before it, each
\* of them once: no publisher comes to hold another one (publishRevocations).
THEOREM OnlyOlderListsUndoIt == Spec => OnlyOlderListsUndo
<1> DEFINE Undo(s) ==
        LET k == issued[s].kind IN
        ~Expired(issued, s, now) =>
            /\ Without(s)' \subseteq Without(s)
            /\ s \in published[k] /\ s \notin published'[k] => Without(s)' # Without(s)
<1>1. ASSUME IInv, Next, NEW s \in ordered \cap ordered'
      PROVE  Undo(s)
    <2>1. SUFFICES ASSUME ~Expired(issued, s, now)
                   PROVE  Undo(s)
        OBVIOUS
    <2>2. /\ issued[s].kind \in Kinds /\ issued'[s].kind = issued[s].kind
          /\ Without(s)' \subseteq Without(s)
        BY <1>1, <2>1, WithoutShrinks
    <2>3. TypeOK /\ s \in Serials
        BY <1>1 DEF IInv, TypeOK, StoreTypeOK
    <2>4. QED
        BY <1>1, <2>2, <2>3, WhoUndoes
<1>2. IInv /\ [Next]_vars => [\A s \in ordered \cap ordered' : Undo(s)]_vars
    BY <1>1
<1>3. QED
    BY <1>2, InvCorrect, PTL DEF Spec, OnlyOlderListsUndo

----------------------------------------------------------------------------
(* What a crash took is not ordered again: nobody can find its session.     *)

LostIsGone ==
    /\ ordered \cap lost = {}
    /\ held \cap lost = {}
    /\ \A r \in Requests : pc[r] = "record" => target[r] \notin lost

\* LostIsGone is inductive: what is found, and then revoked, is of this process.
LEMMA LostStep ==
  ASSUME TypeOK, LostIsGone, [Next]_vars
  PROVE  LostIsGone'
<1> USE DEF LostIsGone
<1>1. CASE Crash
    BY <1>1 DEF Crash, Publishers
<1>2. CASE Boot \/ PassTime \/ RefreshTick \/ UNCHANGED vars
    <2>1. UNCHANGED <<ordered, held, lost, target>>
        BY <1>2 DEF Boot, PassTime, Tick, RefreshTick, vars, storeVars
    <2>2. \A r \in Requests : pc'[r] = "record" => pc[r] = "record"
        BY <1>2, PublishersDiffer
           DEF Boot, PassTime, RefreshTick, vars, Goto, TypeOK, Publishers
    <2>3. QED
        BY <2>1, <2>2
<1>3. ASSUME NEW u \in Users, NEW k \in Kinds, NEW l \in Lifetimes, Issue(u, k, l)
      PROVE  LostIsGone'
    <2>1. /\ issued \in Seq(Credential) /\ lost \subseteq 1..Len(issued)
          /\ [user |-> u, kind |-> k, expires |-> now + l] \in Credential
        BY LifetimesAreInt DEF TypeOK, StoreTypeOK, Serials, Credential
    <2>2. /\ issued' = Append(issued, [user |-> u, kind |-> k, expires |-> now + l])
          /\ held' \subseteq held \cup {Len(issued')}
          /\ UNCHANGED <<ordered, lost, pc, target>>
        BY <1>3, PruneIsSubset DEF Issue, Add, listVars
    <2>3. Len(issued') \notin lost
        BY <2>1, <2>2
    <2>4. QED
        BY <2>2, <2>3
<1>4. CASE View
    BY <1>4, PruneIsSubset DEF View, Look
<1>5. ASSUME NEW r \in Requests, NEW u \in Users, NEW a \in BOOLEAN, NEW s \in Serials,
             LookUp(r, u, a, s)
      PROVE  LostIsGone'
    <2>1. s \in held /\ held' \subseteq held /\ UNCHANGED <<ordered, lost>>
        BY <1>5, PruneIsSubset DEF LookUp, VisibleTo, Look
    <2>2. target' = [target EXCEPT ![r] = s] /\ pc' = [pc EXCEPT ![r] = "record"]
        BY <1>5 DEF LookUp, Goto
    <2>3. \A q \in Requests : pc'[q] = "record" => target'[q] \notin lost
        BY <2>1, <2>2 DEF TypeOK, Publishers
    <2>4. QED
        BY <2>1, <2>3
<1>6. ASSUME NEW r \in Requests, Record(r)
      PROVE  LostIsGone'
    <2>1. /\ ordered' = ordered \cup {target[r]} /\ target[r] \notin lost
          /\ UNCHANGED <<held, lost, target>>
        BY <1>6 DEF Record, Revoke
    <2>2. \A q \in Requests : pc'[q] = "record" => pc[q] = "record"
        BY <1>6, FirstStepReads DEF Record, Goto, TypeOK, Publishers
    <2>3. QED
        BY <2>1, <2>2
<1>7. ASSUME NEW p \in Publishers, Publish(p)
      PROVE  LostIsGone'
    <2>1. UNCHANGED <<ordered, held, lost, target>>
        BY <1>7 DEF Publish, ReadCRL, ReadKRL, ReadList, ReadRevocations, WriteCRL, WriteKRL,
           FailedWrite, storeVars
    <2>2. \A r \in Requests : pc'[r] = "record" => pc[r] = "record"
        BY <1>7 DEF Publish, ReadCRL, ReadKRL, ReadList, WriteCRL, WriteKRL, FailedWrite,
           Succeed, Fail, Goto, TypeOK, Publishers
    <2>3. QED
        BY <2>1, <2>2
<1>8. QED
    BY <1>1, <1>2, <1>3, <1>4, <1>5, <1>6, <1>7 DEF Next

\* What is settled stays so, whoever acts, until the process dies and forgets it.
LEMMA SettledStep ==
  ASSUME IInv, [Next]_vars, NEW s, Settled(s) \/ s \in lost
  PROVE  (Settled(s) \/ s \in lost)'
<1>1. TypeOK /\ StoreTypeOK /\ TargetsAreRecorded
    BY DEF IInv, TypeOK
<1>2. CASE Crash
    BY <1>2 DEF Crash, Settled
<1>3. CASE UNCHANGED vars
    BY <1>3 DEF vars, storeVars, listVars, Settled, Refused, Expired, Without
<1>4. CASE Next /\ ~Crash /\ s \in lost
    <2>1. CASE Boot \/ PassTime \/ View \/ RefreshTick
        BY <1>4, <2>1 DEF Boot, PassTime, View, RefreshTick
    <2>2. CASE \/ \E u \in Users, k \in Kinds, l \in Lifetimes : Issue(u, k, l)
               \/ \E r \in Requests, u \in Users, a \in BOOLEAN, t \in Serials : LookUp(r, u, a, t)
               \/ \E r \in Requests : Record(r)
        BY <1>4, <2>2 DEF Issue, LookUp, Record
    <2>3. CASE \E p \in Publishers : Publish(p)
        BY <1>4, <2>3 DEF Publish, ReadCRL, ReadKRL, ReadList, WriteCRL, WriteKRL, FailedWrite
    <2>4. QED
        BY <1>4, <2>1, <2>2, <2>3 DEF Next
<1>5. CASE Next /\ ~Crash /\ Settled(s)
    <2>1. /\ s \in Serials /\ issued[s] \in Credential
          /\ s \in ordered /\ s \in ordered' /\ issued'[s] = issued[s]
          /\ now \in Nat /\ now' \in Nat /\ now <= now'
        BY <1>1, <1>5, StepOfStore, StoreGrows DEF Settled, StoreTypeOK, Serials
    <2>2. CASE Expired(issued, s, now)
        <3>1. Expired(issued, s, now)'
            BY <2>1, <2>2 DEF Expired, Credential
        <3>2. QED
            BY <2>1, <3>1 DEF Settled, Refused
    <2>3. CASE ~Expired(issued, s, now)
        <3>1. /\ issued[s].kind \in Kinds /\ issued'[s].kind = issued[s].kind
              /\ Without(s) = {} /\ Without(s)' = {}
            BY <1>5, <2>1, <2>3, WithoutShrinks DEF Settled
        <3>2. s \in published[issued[s].kind]
            BY <1>5, <2>3 DEF Settled, Refused
        <3>3. s \in published'[issued[s].kind]
            BY <1>1, <1>5, <2>1, <3>1, <3>2, WhoUndoes
        <3>4. QED
            BY <2>1, <3>1, <3>3 DEF Settled, Refused
    <2>4. QED
        BY <2>2, <2>3
<1>6. QED
    BY <1>2, <1>3, <1>4, <1>5

\* Once a list names a revoked credential and nobody holds an older one, it is
\* refused until the process dies (publishRevocations): for any number of handlers.
THEOREM SettledHolds == Spec => SettledRevocationsHold
<1>1. Init => LostIsGone
    BY DEF Init, StoreInit, LostIsGone, Publishers
<1>2. IInv /\ LostIsGone /\ [Next]_vars => LostIsGone'
    BY LostStep DEF IInv
<1>3. Spec => [](IInv /\ LostIsGone)
    BY <1>1, <1>2, InvCorrect, PTL DEF Spec
<1>4. ASSUME NEW s \in 1..MaxIssued
      PROVE  Spec => [](Settled(s) => [](s \in ordered => Refused(s)))
    <2>1. IInv /\ [Next]_vars /\ (Settled(s) \/ s \in lost) => (Settled(s) \/ s \in lost)'
        BY SettledStep
    <2>2. LostIsGone /\ (Settled(s) \/ s \in lost) => (s \in ordered => Refused(s))
        BY DEF LostIsGone, Settled
    <2>3. QED
        BY <1>3, <2>1, <2>2, PTL DEF Spec
<1>5. QED
    BY <1>4 DEF SettledRevocationsHold
=============================================================================
