--------------------------- MODULE Startup_proofs ---------------------------
(***************************************************************************)
(* AtomicFile's properties, for any number of names, writers and bodies,   *)
(* and then Startup's, for any configurations, any number of publishers    *)
(* and clients: with failures, deaths and power failures at any step.      *)
(***************************************************************************)
EXTENDS Startup, TLAPS

-----------------------------------------------------------------------------
(* AtomicFile: replacing a file.                                           *)

\* What a writer has in hand is as far as its step says.
CallsAreSound ==
  \A w \in Writers :
    /\ work[w] # Idle => work[w].file.body \in Bodies
    /\ work[w] # Idle /\ work[w].step # "render" => work[w].file.whole
    /\ At(w, "rename") \/ At(w, "syncDir") => work[w].file.synced
    /\ At(w, "syncDir") => work[w].file.at <= shown[work[w].path].at

\* Nothing gets a name that is not whole and on disk, and no version but the
\* newest may be later than the one that is shown.
NamesAreSound ==
  \A p \in Paths : \A f \in survivors[p] :
    f.whole /\ f.synced /\ acked[p] <= f.at /\ f.at <= shown[p].at

FileInv == FileTypeOK /\ CallsAreSound /\ NamesAreSound

-----------------------------------------------------------------------------
LEMMA FileInitSound == FileInit => FileInv
BY DEF FileInit, FileInv, FileTypeOK, CallsAreSound, NamesAreSound, File, NoFile, Idle, At

\* Nothing that NamesAreSound lets have a name can be torn.
LEMMA RemainsSurvive ==
  ASSUME FileInv, NEW p \in Paths
  PROVE  Remains(p) = survivors[p]
BY DEF FileInv, NamesAreSound, Remains

LEMMA CreateSound ==
  ASSUME FileInv, NEW w \in Writers, NEW p \in Paths, NEW b \in Bodies, Create(w, p, b)
  PROVE  FileInv'
<1> USE DEF FileInv, Create, Idle, At
<1>1. FileTypeOK'
  BY DEF FileTypeOK, Call, Steps, File
<1>2. CallsAreSound'
  BY DEF CallsAreSound, FileTypeOK
<1>3. NamesAreSound'
  BY DEF NamesAreSound
<1> QED  BY <1>1, <1>2, <1>3

LEMMA RenderSound ==
  ASSUME FileInv, NEW w \in Writers, Render(w)
  PROVE  FileInv'
<1> USE DEF FileInv, Render, GoOn, Idle, At
<1>0. work[w] \in Call
  BY DEF FileTypeOK
<1>1. FileTypeOK'
  BY <1>0 DEF FileTypeOK, Call, Steps, File
<1>2. CallsAreSound'
  BY <1>0 DEF CallsAreSound, FileTypeOK, Call, File
<1>3. NamesAreSound'
  BY DEF NamesAreSound
<1> QED  BY <1>1, <1>2, <1>3

LEMMA SyncSound ==
  ASSUME FileInv, NEW w \in Writers, Sync(w)
  PROVE  FileInv'
<1> USE DEF FileInv, Sync, GoOn, Idle, At
<1>0. work[w] \in Call
  BY DEF FileTypeOK
<1>1. FileTypeOK'
  BY <1>0 DEF FileTypeOK, Call, Steps, File
<1>2. CallsAreSound'
  BY <1>0 DEF CallsAreSound, FileTypeOK, Call, File
<1>3. NamesAreSound'
  BY DEF NamesAreSound
<1> QED  BY <1>1, <1>2, <1>3

LEMMA RenameSound ==
  ASSUME FileInv, NEW w \in Writers, Rename(w)
  PROVE  FileInv'
<1> USE DEF FileInv, Idle, At
<1> DEFINE p == work[w].path
           f == [work[w].file EXCEPT !.at = shown[p].at + 1]
<1>0. /\ work[w] \in Call /\ work[w].file \in File /\ p \in Paths
      /\ shown[p] \in File /\ work[w].step = "rename"
  BY DEF FileTypeOK, Call, Rename
<1>1. f \in File /\ f.whole /\ f.synced /\ f.body \in Bodies /\ f.at = shown[p].at + 1
  BY <1>0 DEF CallsAreSound, File
<1>2. /\ shown' = [shown EXCEPT ![p] = f]
      /\ survivors' = [survivors EXCEPT ![p] = @ \cup {f}]
      /\ work' = [work EXCEPT ![w] = [step |-> "syncDir", path |-> p, file |-> f]]
      /\ acked' = acked
  BY <1>0 DEF Rename, GoOn, Call
<1> HIDE DEF f
<1>3. FileTypeOK'
  <2>1. shown' \in [Paths -> File] /\ survivors' \in [Paths -> SUBSET File]
    BY <1>0, <1>1, <1>2 DEF FileTypeOK
  <2>2. \A q \in Paths : shown'[q] \in survivors'[q]
    BY <1>0, <1>1, <1>2 DEF FileTypeOK
  <2>3. work' \in [Writers -> Call \cup {Idle}] /\ acked' \in [Paths -> Nat]
    BY <1>0, <1>1, <1>2 DEF FileTypeOK, Call, Steps
  <2> QED  BY <2>1, <2>2, <2>3 DEF FileTypeOK
<1>4. CallsAreSound'
  <2> SUFFICES ASSUME NEW v \in Writers
               PROVE  CallsAreSound!(v)'
    BY DEF CallsAreSound
  <2>1. CASE v = w
    BY <2>1, <1>0, <1>1, <1>2 DEF FileTypeOK, File
  <2>2. CASE v # w
    <3>1. work'[v] = work[v] /\ CallsAreSound!(v)
      BY <2>2, <1>2 DEF FileTypeOK, CallsAreSound
    <3>2. CASE At(v, "syncDir")
      <4>1. work[v] \in Call /\ work[v].path \in Paths /\ work[v].file.at \in Nat
        BY <3>2 DEF FileTypeOK, Call, File
      <4>2. shown[work[v].path].at \in Nat /\ shown'[work[v].path].at >= shown[work[v].path].at
        BY <4>1, <1>0, <1>1, <1>2 DEF FileTypeOK, File
      <4>3. shown'[work[v].path].at \in Nat
        BY <4>1, <1>3 DEF FileTypeOK, File
      <4> QED  BY <3>1, <4>1, <4>2, <4>3
    <3>3. CASE ~At(v, "syncDir")
      BY <3>1, <3>3
    <3> QED  BY <3>2, <3>3
  <2> QED  BY <2>1, <2>2
<1>5. NamesAreSound'
  <2> SUFFICES ASSUME NEW q \in Paths, NEW g \in survivors'[q]
               PROVE  g.whole /\ g.synced /\ acked'[q] <= g.at /\ g.at <= shown'[q].at
    BY DEF NamesAreSound
  <2>0. shown[q] \in survivors[q] /\ shown[q] \in File /\ survivors[q] \subseteq File /\ acked[q] \in Nat
    BY DEF FileTypeOK
  <2>a. acked[q] <= shown[q].at /\ shown[q].at \in Nat
    BY <2>0 DEF NamesAreSound, File
  <2>1. CASE q = p /\ g = f
    BY <2>1, <2>a, <1>0, <1>1, <1>2, <2>0 DEF FileTypeOK, File
  <2>2. CASE ~(q = p /\ g = f)
    <3>1. g \in survivors[q] /\ g.at \in Nat
      BY <2>2, <1>0, <1>2, <2>0 DEF FileTypeOK, File
    <3>2. g.whole /\ g.synced /\ acked[q] <= g.at /\ g.at <= shown[q].at
      BY <3>1 DEF NamesAreSound
    <3>3. shown'[q].at \in Nat /\ shown[q].at <= shown'[q].at
      BY <2>a, <1>0, <1>1, <1>2 DEF FileTypeOK
    <3> QED  BY <3>1, <3>2, <3>3, <2>a, <1>2
  <2> QED  BY <2>1, <2>2
<1> QED  BY <1>3, <1>4, <1>5

LEMMA SyncDirSound ==
  ASSUME FileInv, NEW w \in Writers, SyncDir(w)
  PROVE  FileInv'
<1> USE DEF FileInv, SyncDir, Idle, At
<1>0. work[w] \in Call /\ work[w].path \in Paths /\ work[w].file.at \in Nat
  BY DEF FileTypeOK, Call, File
<1>1. FileTypeOK'
  BY <1>0 DEF FileTypeOK, Later, File
<1>2. CallsAreSound'
  BY DEF CallsAreSound, FileTypeOK
<1>3. NamesAreSound'
  <2> SUFFICES ASSUME NEW q \in Paths, NEW g \in survivors'[q]
               PROVE  g.whole /\ g.synced /\ acked'[q] <= g.at /\ g.at <= shown'[q].at
    BY DEF NamesAreSound
  <2>0. /\ shown[q] \in survivors[q] /\ shown[q] \in File /\ survivors[q] \subseteq File
        /\ acked[q] \in Nat /\ shown'[q] = shown[q]
    BY DEF FileTypeOK
  <2>1. g \in survivors[q] /\ g.at \in Nat
    BY <2>0 DEF FileTypeOK, File
  <2>2. g.whole /\ g.synced /\ acked[q] <= g.at /\ g.at <= shown[q].at
    BY <2>1 DEF NamesAreSound
  <2>3. acked'[q] <= g.at
    <3>1. CASE q = work[w].path
      <4>1. g = shown[q]
        BY <3>1, <1>0 DEF FileTypeOK
      <4>2. work[w].file.at <= shown[q].at
        BY <3>1 DEF CallsAreSound
      <4> QED  BY <4>1, <4>2, <3>1, <2>2, <2>0 DEF Later, FileTypeOK
    <3>2. CASE q # work[w].path
      BY <3>2, <2>2 DEF FileTypeOK
    <3> QED  BY <3>1, <3>2
  <2> QED  BY <2>0, <2>2, <2>3
<1> QED  BY <1>1, <1>2, <1>3

\* A call that ends, or a death of the process, leaves the names alone.
LEMMA AbandonSound ==
  ASSUME FileInv, \/ \E w \in Writers : Fail(w)
                  \/ Die
  PROVE  FileInv'
<1>1. /\ work' \in [Writers -> Call \cup {Idle}]
      /\ \A w \in Writers : work'[w] \in {work[w], Idle}
      /\ UNCHANGED <<shown, survivors, acked>>
  BY DEF FileInv, FileTypeOK, Fail, Die
<1> QED
  BY <1>1 DEF FileInv, FileTypeOK, CallsAreSound, NamesAreSound, Idle, At

LEMMA PowerLossSound ==
  ASSUME FileInv, PowerLoss
  PROVE  /\ FileInv'
         /\ \A p \in Paths : shown'[p] \in survivors[p] /\ survivors'[p] = {shown'[p]}
<1>1. /\ shown' \in [Paths -> File]
      /\ \A p \in Paths : shown'[p] \in survivors[p] /\ survivors'[p] = {shown'[p]}
  <2>1. \A p \in Paths : Remains(p) = survivors[p] /\ shown[p] \in survivors[p] /\ survivors[p] \subseteq File
    BY RemainsSurvive DEF FileInv, FileTypeOK
  <2>2. PICK left \in [Unsettled -> UNION {Remains(p) : p \in Unsettled}] :
          /\ \A p \in Unsettled : left[p] \in Remains(p)
          /\ shown' = [p \in Paths |-> IF p \in Unsettled THEN left[p] ELSE shown[p]]
    BY DEF PowerLoss
  <2>3. \A p \in Paths : shown'[p] \in survivors[p]
    BY <2>1, <2>2
  <2> QED  BY <2>1, <2>2, <2>3 DEF PowerLoss
<1>2. FileTypeOK'
  BY <1>1 DEF PowerLoss, FileInv, FileTypeOK
<1>3. CallsAreSound'
  BY DEF PowerLoss, CallsAreSound, Idle, At
<1>4. NamesAreSound'
  BY <1>1 DEF PowerLoss, FileInv, FileTypeOK, NamesAreSound, File
<1> QED  BY <1>1, <1>2, <1>3, <1>4 DEF FileInv

LEMMA FileStepSound == FileInv /\ [FileNext]_fileVars => FileInv'
<1> SUFFICES ASSUME FileInv, [FileNext]_fileVars
             PROVE  FileInv'
  OBVIOUS
<1>1. CASE \E w \in Writers, p \in Paths, b \in Bodies : Create(w, p, b)
  BY <1>1, CreateSound
<1>2. CASE \E w \in Writers : Write(w)
  BY <1>2, RenderSound, SyncSound, RenameSound, SyncDirSound, AbandonSound DEF Write
<1>3. CASE Die
  BY <1>3, AbandonSound
<1>4. CASE PowerLoss
  BY <1>4, PowerLossSound
<1>5. CASE UNCHANGED fileVars
  BY <1>5 DEF fileVars, FileInv, FileTypeOK, CallsAreSound, NamesAreSound, At
<1> QED  BY <1>1, <1>2, <1>3, <1>4, <1>5 DEF FileNext

-----------------------------------------------------------------------------
\* Types, and that what is shown may survive, in every state.
THEOREM FileInvariant == FileSpec => []FileInv
BY FileInitSound, FileStepSound, PTL DEF FileSpec

\* No reader, and no reader after a power failure, meets a file that is not whole.
THEOREM FilesAreNeverTorn == FileSpec => []NeverTorn
<1>1. FileInv => NeverTorn
  BY DEF FileInv, NamesAreSound, NeverTorn
<1> QED  BY <1>1, FileInvariant, PTL

\* A Write that returned is not undone by a power failure.
THEOREM WritesAreDurable == FileSpec => []ReturnedIsDurable
<1>1. FileInv => ReturnedIsDurable
  BY DEF FileInv, FileTypeOK, NamesAreSound, ReturnedIsDurable, File
<1> QED  BY <1>1, FileInvariant, PTL

-----------------------------------------------------------------------------
(* The implementation of AtomicReplace: only Rename, SyncDir and PowerLoss  *)
(* change what a name leads to.                                             *)

LEMMA WholeVersion ==
  ASSUME NEW f \in File, f.whole
  PROVE  Version(f) = [body |-> f.body, at |-> f.at] /\ Version(f) \in Atomic!Version
BY DEF Version, Atomic!Version, File

LEMMA InitImplements == FileInit => Atomic!AInit
BY DEF FileInit, Atomic!AInit, Atomic!NoVersion, Version, NoFile

LEMMA RenameImplements ==
  ASSUME FileInv, FileInv', NEW w \in Writers, Rename(w),
         NEW p \in Paths, p = work[w].path
  PROVE  Atomic!Replace(p)
<1> DEFINE f == [work[w].file EXCEPT !.at = shown[p].at + 1]
           v == [body |-> f.body, at |-> shown[p].at + 1]
           now == [q \in Paths |-> Version(shown[q])]
           after == [q \in Paths |-> {Version(g) : g \in survivors[q]}]
<1>0. /\ work[w] \in Call /\ work[w] # Idle /\ work[w].file \in File /\ p \in Paths
      /\ work[w].file.whole /\ work[w].file.body \in Bodies /\ shown[p] \in File
  BY DEF FileInv, FileTypeOK, CallsAreSound, Call, Idle, Rename, At
<1>1. f \in File /\ f.whole /\ f.at = shown[p].at + 1 /\ f.body \in Bodies
  BY <1>0 DEF File
<1>2. /\ shown' = [shown EXCEPT ![p] = f]
      /\ survivors' = [survivors EXCEPT ![p] = @ \cup {f}]
  BY DEF Rename
<1>3. Version(f) = v
  BY <1>1, WholeVersion
<1>4. now[p].at = shown[p].at
  BY <1>0 DEF Version
<1> HIDE DEF f, v
<1>5. now' = [now EXCEPT ![p] = v]
  BY <1>0, <1>2, <1>3 DEF FileInv, FileTypeOK
<1>6. after' = [after EXCEPT ![p] = @ \cup {v}]
  <2>1. after'[p] = after[p] \cup {v}
    BY <1>0, <1>2, <1>3 DEF FileInv, FileTypeOK
  <2>2. \A q \in Paths : q # p => after'[q] = after[q]
    BY <1>0, <1>2 DEF FileInv, FileTypeOK
  <2> QED  BY <2>1, <2>2, <1>0
<1>7. now'[p].body = f.body /\ v = [body |-> f.body, at |-> now[p].at + 1]
  BY <1>0, <1>4, <1>5 DEF v
<1> HIDE DEF now, after
<1> QED
  BY <1>0, <1>1, <1>5, <1>6, <1>7 DEF Atomic!Replace, Atomic!ReplaceBy, now, after

LEMMA SyncDirImplements ==
  ASSUME FileInv, NEW w \in Writers, SyncDir(w), NEW p \in Paths, p = work[w].path
  PROVE  Atomic!Settle(p[1])
<1>1. shown' = shown
      /\ survivors' = [q \in Paths |->
           IF q[1] = p[1] THEN {shown[q]} ELSE survivors[q]]
  BY DEF SyncDir
<1>2. \A q \in Paths : {Version(g) : g \in survivors'[q]}
        = IF q[1] = p[1] THEN {Version(shown[q])}
                                    ELSE {Version(g) : g \in survivors[q]}
  BY <1>1
<1> QED  BY <1>1, <1>2 DEF Atomic!Settle

LEMMA PowerLossImplements ==
  ASSUME FileInv, FileInv', PowerLoss
  PROVE  Atomic!Lose
<1>1. \A p \in Paths : shown'[p] \in survivors[p] /\ survivors'[p] = {shown'[p]}
  BY PowerLossSound
<1>2. \A p \in Paths : Version(shown'[p]) \in Atomic!Version
  BY <1>1, WholeVersion DEF FileInv, FileTypeOK, NamesAreSound
<1>3. \A p \in Paths : Version(shown'[p]) \in {Version(f) : f \in survivors[p]}
  BY <1>1
<1>4. \A p \in Paths : {Version(f) : f \in survivors'[p]} = {Version(shown'[p])}
  BY <1>1
<1> QED  BY <1>2, <1>3, <1>4 DEF Atomic!Lose

LEMMA StepImplements ==
  FileInv /\ FileInv' /\ [FileNext]_fileVars => [Atomic!ANext]_(Atomic!avars)
<1> SUFFICES ASSUME FileInv, FileInv', [FileNext]_fileVars
             PROVE  [Atomic!ANext]_(Atomic!avars)
  OBVIOUS
<1>1. ASSUME UNCHANGED <<shown, survivors>>
      PROVE  UNCHANGED Atomic!avars
  BY <1>1 DEF Atomic!avars
<1>2. CASE \E w \in Writers : Rename(w)
  <2> PICK w \in Writers : Rename(w)
    BY <1>2
  <2> PICK p \in Paths : p = work[w].path
    BY DEF FileInv, FileTypeOK, Call, Idle, Rename, At
  <2>1. Atomic!Replace(p)
    BY RenameImplements
  <2> QED  BY <2>1 DEF Atomic!ANext
<1>3. CASE \E w \in Writers : SyncDir(w)
  <2> PICK w \in Writers : SyncDir(w)
    BY <1>3
  <2> PICK p \in Paths : p = work[w].path
    BY DEF FileInv, FileTypeOK, Call, Idle, SyncDir, At
  <2>1. Atomic!Settle(p[1])
    BY SyncDirImplements
  <2> QED  BY <2>1 DEF Atomic!ANext
<1>4. CASE PowerLoss
  BY <1>4, PowerLossImplements DEF Atomic!ANext
<1>5. CASE UNCHANGED <<shown, survivors>>
  BY <1>1, <1>5
<1> QED
  BY <1>2, <1>3, <1>4, <1>5
  DEF FileNext, Write, Create, Render, Sync, Fail, Die, fileVars

\* atomicfile.Write, called by any number of writers, replaces each file in one step.
THEOREM FilesAreReplacedAtomically == FileSpec => ImplementsAtomicReplace
<1> QED
  BY InitImplements, StepImplements, FileInvariant, PTL
  DEF FileSpec, ImplementsAtomicReplace, Atomic!AtomicSpec

-----------------------------------------------------------------------------
(* Startup: the configuration directory, from loading to a client.         *)

\* The condition that the configuration does not check: see the run krl_profile.
NoKRLProfile ==
  \A c \in Candidates : Loads(c) => \A p \in ToSet(c.profiles) : p.name # "krl"

Servable == Names \ {"krl"}

-----------------------------------------------------------------------------
(* What openvpn.Write and publishRevocations write.                         *)

LEMMA ConfigDirShape ==
  ASSUME NEW n, NEW c \in Candidates
  PROVE  /\ Len(c.profiles) \in Nat
         /\ \A i \in 1..Len(c.profiles) : c.profiles[i] \in ToSet(c.profiles)
         /\ DOMAIN c.profiles = 1..Len(c.profiles)
         /\ \A j \in 1..(2 * Len(c.profiles) + 1) :
              \/ /\ j = 2 * Len(c.profiles) + 1
                 /\ ConfigDir(n, c)[j] = ScriptEntry(n, c)
              \/ \E i \in 1..Len(c.profiles) :
                   \/ j = 2 * i - 1 /\ ConfigDir(n, c)[j] = RoutesEntry(n, c, i)
                   \/ j = 2 * i     /\ ConfigDir(n, c)[j] = RulesEntry(n, c, i)
<1>1. Len(c.profiles) \in Nat /\ DOMAIN c.profiles = 1..Len(c.profiles)
  BY ProfilesAreLists
<1>2. \A i \in 1..Len(c.profiles) : c.profiles[i] \in ToSet(c.profiles)
  BY <1>1 DEF ToSet
<1>3. ASSUME NEW j \in 1..(2 * Len(c.profiles) + 1), j <= 2 * Len(c.profiles)
      PROVE  \E i \in 1..Len(c.profiles) :
               \/ j = 2 * i - 1 /\ ConfigDir(n, c)[j] = RoutesEntry(n, c, i)
               \/ j = 2 * i     /\ ConfigDir(n, c)[j] = RulesEntry(n, c, i)
  <2>1. CASE j % 2 = 1
    <3>1. /\ (j + 1) \div 2 \in 1..Len(c.profiles) /\ j = 2 * ((j + 1) \div 2) - 1
      BY <1>1, <1>3, <2>1
    <3>2. ConfigDir(n, c)[j] = RoutesEntry(n, c, (j + 1) \div 2)
      BY <1>1, <1>3, <2>1 DEF ConfigDir
    <3> QED  BY <3>1, <3>2
  <2>2. CASE j % 2 # 1
    <3>1. /\ j \div 2 \in 1..Len(c.profiles) /\ j = 2 * (j \div 2)
      BY <1>1, <1>3, <2>2
    <3>2. ConfigDir(n, c)[j] = RulesEntry(n, c, j \div 2)
      BY <1>1, <1>3, <2>2 DEF ConfigDir
    <3> QED  BY <3>1, <3>2
  <2> QED  BY <2>1, <2>2
<1>4. ConfigDir(n, c)[2 * Len(c.profiles) + 1] = ScriptEntry(n, c)
  <2> DEFINE l == 2 * Len(c.profiles)
  <2>1. l + 1 \in 1..(l + 1) /\ l + 1 > l
    BY <1>1
  <2> HIDE DEF l
  <2>2. ConfigDir(n, c)[l + 1] = ScriptEntry(n, c)
    BY <2>1 DEF ConfigDir, l
  <2> QED  BY <2>2 DEF l
<1>5. \A j \in 1..(2 * Len(c.profiles) + 1) :
        j = 2 * Len(c.profiles) + 1 \/ j <= 2 * Len(c.profiles)
  BY <1>1
<1> HIDE DEF ConfigDir
<1> QED  BY <1>1, <1>2, <1>3, <1>4, <1>5

\* The plan is the config directory's files and, behind them, one list of each CA.
LEMMA PlanShape ==
  ASSUME NEW n, NEW c \in Candidates
  PROVE  LET P == Plan(n, c)
             w == 2 * Len(c.profiles) + 1
         IN
         /\ Len(P) \in Nat /\ DOMAIN P = 1..Len(P)
         /\ \A j \in 1..Len(P) :
              \/ j \in 1..w /\ P[j] = ConfigDir(n, c)[j]
              \/ j = w + 1 /\ P[j] = ListEntry(n, CRL)
              \/ j \in {w + 1, w + 2} /\ P[j] = ListEntry(n, KRL)
                   /\ (j = w + 2 => P[w + 1] = ListEntry(n, CRL))
         /\ \A j, k \in 1..Len(P) : j > w /\ k > w /\ P[j].path = P[k].path => j = k
         /\ \A j \in 1..Len(P) : j > w => \A k \in 1..w : k \in 1..Len(P)
         /\ c.configdirEnabled => \A e \in ToSet(Lists(n, c)) : \E j \in 1..Len(P) : P[j] = e
<1> DEFINE d == ConfigDir(n, c)
           m == Lists(n, c)
           w == 2 * Len(c.profiles) + 1
           S == {d[j] : j \in 1..w} \cup {ListEntry(n, CRL), ListEntry(n, KRL)}
<1>1. Len(c.profiles) \in Nat
  BY ConfigDirShape
<1>2. d \in Seq(S) /\ Len(d) = w
  <2>1. d \in [1..w -> S]
    BY <1>1 DEF ConfigDir
  <2> QED  BY <2>1, <1>1
<1>3. m \in Seq(S) /\ \/ Len(m) = 0
                      \/ Len(m) = 1 /\ m[1] = ListEntry(n, CRL)
                      \/ Len(m) = 1 /\ m[1] = ListEntry(n, KRL)
                      \/ /\ Len(m) = 2 /\ m[1] = ListEntry(n, CRL)
                         /\ m[2] = ListEntry(n, KRL)
  <2> DEFINE x == ListEntry(n, CRL)
             y == ListEntry(n, KRL)
  <2>1. x \in S /\ y \in S
    OBVIOUS
  <2> HIDE DEF S, x, y
  <2> DEFINE a == IF LoadCA(c) = "nil" THEN <<>> ELSE <<x>>
             b == IF LoadSSHCA(c) = "nil" THEN <<>> ELSE <<y>>
  <2>2. /\ a \in Seq(S) /\ (Len(a) = 0 \/ (Len(a) = 1 /\ a[1] = x))
        /\ b \in Seq(S) /\ (Len(b) = 0 \/ (Len(b) = 1 /\ b[1] = y))
    BY <2>1
  <2>3. m = a \o b
    BY DEF Lists, m, x, y
  <2> HIDE DEF a, b
  <2>4. /\ a \o b \in Seq(S) /\ Len(a \o b) = Len(a) + Len(b)
        /\ \A i \in 1..(Len(a) + Len(b)) :
             (a \o b)[i] = IF i <= Len(a) THEN a[i] ELSE b[i - Len(a)]
    BY <2>2
  <2> QED  BY <2>2, <2>3, <2>4 DEF x, y
<1>4. CRL # KRL /\ ListEntry(n, CRL).path = CRL /\ ListEntry(n, KRL).path = KRL
  BY DEF CRL, KRL, ListEntry, Entry
<1> HIDE DEF d, m, S
<1>5. CASE c.configdirEnabled
  <2>1. Plan(n, c) = d \o m
    BY <1>5 DEF Plan, d, m
  <2>2. /\ Len(d \o m) = w + Len(m) /\ DOMAIN (d \o m) = 1..Len(d \o m)
        /\ Len(m) \in 0..2
        /\ \A j \in 1..w : (d \o m)[j] = d[j]
        /\ \A j \in (w + 1)..(w + Len(m)) : (d \o m)[j] = m[j - w]
    <3> HIDE DEF w
    <3>1. w \in Nat /\ Len(m) \in 0..2 /\ d \in Seq(S) /\ m \in Seq(S) /\ Len(d) = w
      BY ONLY <1>1, <1>2, <1>3 DEF w
    <3>2. Len(d \o m) = w + Len(m) /\ DOMAIN (d \o m) = 1..Len(d \o m)
      BY ONLY <3>1
    <3>3. \A j \in 1..(w + Len(m)) : (d \o m)[j] = IF j <= w THEN d[j] ELSE m[j - w]
      BY ONLY <3>1
    <3> QED  BY ONLY <3>1, <3>2, <3>3
  <2>3. \A e \in ToSet(m) : \E j \in 1..Len(d \o m) : (d \o m)[j] = e
    <3> TAKE e \in ToSet(m)
    <3>1. PICK i \in 1..Len(m) : m[i] = e
      BY <1>3 DEF ToSet
    <3>2. (d \o m)[w + i] = e /\ w + i \in 1..Len(d \o m)
      BY <3>1, <2>2, <1>1
    <3> QED  BY <3>2
  <2>4. \A j \in (w + 1)..(w + Len(m)) :
          \/ j = w + 1 /\ (d \o m)[j] = ListEntry(n, CRL)
          \/ j = w + 1 /\ (d \o m)[j] = ListEntry(n, KRL)
          \/ /\ j = w + 2 /\ (d \o m)[j] = ListEntry(n, KRL)
             /\ (d \o m)[w + 1] = ListEntry(n, CRL)
    <3> TAKE j \in (w + 1)..(w + Len(m))
    <3>1. j = w + 1 \/ j = w + 2
      <4>1. Len(m) = 0 \/ Len(m) = 1 \/ Len(m) = 2
        BY <2>2
      <4>2. j \in Int /\ w \in Int /\ w + 1 <= j /\ j <= w + 2
        BY <1>1, <2>2, <4>1
      <4> HIDE DEF w
      <4>3. j - w \in 1..2
        BY <4>2
      <4> QED  BY <4>2, <4>3
    <3>2. CASE j = w + 1
      <4>1. (d \o m)[j] = m[1] /\ Len(m) >= 1
        BY <2>2, <1>1, <3>2
      <4> QED  BY <4>1, <3>2, <1>3
    <3>3. CASE j = w + 2
      <4>1. (d \o m)[j] = m[2] /\ (d \o m)[w + 1] = m[1] /\ Len(m) >= 2
        BY <2>2, <1>1, <3>3
      <4> QED  BY <4>1, <3>3, <1>3
    <3> QED  BY <3>1, <3>2, <3>3
  <2>5. \A j \in 1..Len(d \o m) :
          j \in 1..w \/ (j > w /\ j \in (w + 1)..(w + Len(m)))
    BY <2>2, <1>1
  <2>6. \A j \in 1..Len(d \o m) : \A k \in 1..w : k \in 1..Len(d \o m)
    BY <2>2, <1>1
  <2>7. \A j, k \in 1..Len(d \o m) :
          j > w /\ k > w /\ (d \o m)[j].path = (d \o m)[k].path => j = k
    <3> SUFFICES ASSUME NEW j \in 1..Len(d \o m), NEW k \in 1..Len(d \o m), j > w, k > w,
                        (d \o m)[j].path = (d \o m)[k].path
                 PROVE  j = k
      OBVIOUS
    <3>1. j \in (w + 1)..(w + Len(m)) /\ k \in (w + 1)..(w + Len(m))
      BY <2>5, <1>1
    <3> HIDE DEF w
    <3> QED  BY <3>1, <2>4, <1>4
  <2>8. Len(d \o m) \in Nat
    BY <2>2, <1>1
  <2> HIDE DEF w
  <2> QED  BY <2>1, <2>2, <2>3, <2>4, <2>5, <2>6, <2>7, <2>8 DEF d, m, w
<1>6. CASE ~c.configdirEnabled
  BY <1>6 DEF Plan
<1> QED  BY <1>5, <1>6

\* Of what a profile is called, in a configuration that is served.
LEMMA ProfileNames ==
  ASSUME NEW c \in Candidates, Loads(c)
  PROVE  /\ \A i \in 1..Len(c.profiles) : c.profiles[i].name \in Names
         /\ NoKRLProfile => \A i \in 1..Len(c.profiles) : c.profiles[i].name \in Servable
         /\ \A i, j \in 1..Len(c.profiles) :
              c.profiles[i].name = c.profiles[j].name => i = j
<1>1. /\ DOMAIN c.profiles = 1..Len(c.profiles)
      /\ \A i \in 1..Len(c.profiles) : c.profiles[i] \in ToSet(c.profiles)
  BY ConfigDirShape
<1>2. Valid(c)
  BY DEF Loads
<1>3. \A i \in 1..Len(c.profiles) : c.profiles[i].name \in Names
  BY <1>1, <1>2 DEF Valid, ValidProfile
<1>4. \A i, j \in 1..Len(c.profiles) : c.profiles[i].name = c.profiles[j].name => i = j
  BY <1>1, <1>2 DEF Valid, Distinct
<1>5. NoKRLProfile => \A i \in 1..Len(c.profiles) : c.profiles[i].name # "krl"
  BY <1>1 DEF NoKRLProfile
<1> QED  BY <1>3, <1>4, <1>5 DEF Servable

\* One entry of the plan, by what it is.
LEMMA PlanEntry ==
  ASSUME NEW n, NEW c \in Candidates, NEW j \in 1..Len(Plan(n, c))
  PROVE  LET e == Plan(n, c)[j]
             w == 2 * Len(c.profiles) + 1
         IN \/ j = w /\ e = ScriptEntry(n, c)
            \/ \E i \in 1..Len(c.profiles) :
                 \/ j = 2 * i - 1 /\ e = RoutesEntry(n, c, i)
                 \/ j = 2 * i /\ e = RulesEntry(n, c, i)
            \/ j > w /\ e = ListEntry(n, CRL)
            \/ j > w /\ e = ListEntry(n, KRL)
<1> DEFINE w == 2 * Len(c.profiles) + 1
<1>1. Len(c.profiles) \in Nat
  BY ConfigDirShape
<1>2. \/ j \in 1..w /\ Plan(n, c)[j] = ConfigDir(n, c)[j]
      \/ j = w + 1 /\ Plan(n, c)[j] = ListEntry(n, CRL)
      \/ j \in {w + 1, w + 2} /\ Plan(n, c)[j] = ListEntry(n, KRL)
  BY PlanShape
<1>3. w \in Nat
  BY <1>1
<1>4. j \in 1..w =>
        \/ j = w /\ ConfigDir(n, c)[j] = ScriptEntry(n, c)
        \/ \E i \in 1..Len(c.profiles) :
             \/ j = 2 * i - 1 /\ ConfigDir(n, c)[j] = RoutesEntry(n, c, i)
             \/ j = 2 * i /\ ConfigDir(n, c)[j] = RulesEntry(n, c, i)
  BY ConfigDirShape
<1>5. (j = w + 1 \/ j \in {w + 1, w + 2}) => j > w
  BY <1>3
<1> HIDE DEF w
<1> QED  BY <1>2, <1>4, <1>5 DEF w

LEMMA PlanFields ==
  ASSUME NEW n, NEW c \in Candidates, NEW j \in 1..Len(Plan(n, c))
  PROVE  /\ Plan(n, c)[j].body.boot = n
         /\ \/ /\ j = 2 * Len(c.profiles) + 1 /\ Plan(n, c)[j].path = Script
               /\ Plan(n, c)[j].body.what = {p.name : p \in ToSet(c.profiles)}
            \/ \E i \in 1..Len(c.profiles) :
                 /\ j = 2 * i - 1 /\ Plan(n, c)[j].path = RoutesOf(c.profiles[i].name)
                 /\ Plan(n, c)[j].body.what = {c.profiles[i].name}
            \/ \E i \in 1..Len(c.profiles) :
                 j = 2 * i /\ Plan(n, c)[j].path = RulesOf(c.profiles[i].name)
            \/ j > 2 * Len(c.profiles) + 1 /\ Plan(n, c)[j].path \in {CRL, KRL}
<1> DEFINE e == Plan(n, c)[j]
           w == 2 * Len(c.profiles) + 1
<1>1. \/ j = w /\ e = ScriptEntry(n, c)
      \/ \E i \in 1..Len(c.profiles) :
           \/ j = 2 * i - 1 /\ e = RoutesEntry(n, c, i)
           \/ j = 2 * i /\ e = RulesEntry(n, c, i)
      \/ j > w /\ e = ListEntry(n, CRL)
      \/ j > w /\ e = ListEntry(n, KRL)
  BY PlanEntry
<1>2. \A p, what, i : /\ Entry(n, p, what, i).path = p
                      /\ Entry(n, p, what, i).body.boot = n
                      /\ Entry(n, p, what, i).body.what = what
  BY DEF Entry
<1> HIDE DEF e, w
<1>3. CASE j = w /\ e = ScriptEntry(n, c)
  BY <1>2, <1>3 DEF ScriptEntry, e, w
<1>4. CASE \E i \in 1..Len(c.profiles) : j = 2 * i - 1 /\ e = RoutesEntry(n, c, i)
  BY <1>2, <1>4 DEF RoutesEntry, e
<1>5. CASE \E i \in 1..Len(c.profiles) : j = 2 * i /\ e = RulesEntry(n, c, i)
  BY <1>2, <1>5 DEF RulesEntry, e
<1>6. CASE j > w /\ (e = ListEntry(n, CRL) \/ e = ListEntry(n, KRL))
  BY <1>2, <1>6 DEF ListEntry, e, w
<1> QED  BY <1>1, <1>3, <1>4, <1>5, <1>6

\* No two entries of a plan are of the same path, as far as no profile is named krl.
LEMMA PathsDiffer ==
  ASSUME NoKRLProfile, NEW n, NEW c \in Candidates, Loads(c),
         NEW j \in 1..Len(Plan(n, c)), NEW k \in 1..Len(Plan(n, c)),
         Plan(n, c)[j].path = Plan(n, c)[k].path
  PROVE  j = k
<1> DEFINE w == 2 * Len(c.profiles) + 1
           P == Plan(n, c)
           Is(x) == \/ x = w /\ P[x].path = Script
                    \/ \E i \in 1..Len(c.profiles) :
                         x = 2 * i - 1 /\ P[x].path = RoutesOf(c.profiles[i].name)
                    \/ \E i \in 1..Len(c.profiles) :
                         x = 2 * i /\ P[x].path = RulesOf(c.profiles[i].name)
                    \/ x > w /\ P[x].path \in {CRL, KRL}
<1>1. Is(j) /\ Is(k)
  BY PlanFields
<1>2. \A i \in 1..Len(c.profiles) :
        /\ c.profiles[i].name # "krl" /\ c.profiles[i].name # "crl.pem"
        /\ c.profiles[i].name # "connect.sh"
  BY ProfileNames, NamesAssumption DEF Servable
<1>3. \A i, m \in 1..Len(c.profiles) : c.profiles[i].name = c.profiles[m].name => i = m
  BY ProfileNames
<1>4. j > w /\ k > w => j = k
  BY PlanShape
<1>5. Len(c.profiles) \in Nat
  BY ConfigDirShape
<1>6. P[j].path = P[k].path
  OBVIOUS
<1> HIDE DEF P, w
<1> QED
  BY <1>1, <1>2, <1>3, <1>4, <1>5, <1>6 DEF Script, CRL, KRL, RoutesOf, RulesOf

\* What has the path of a profile's routes is that profile's routes.
LEMMA RoutesHold ==
  ASSUME NEW n, NEW c \in Candidates, Loads(c), NEW name \in Servable,
         NEW j \in 1..Len(Plan(n, c)), Plan(n, c)[j].path = RoutesOf(name)
  PROVE  Plan(n, c)[j].body.what = {name}
<1>1. name # "krl" /\ name # "crl.pem" /\ name # "connect.sh"
  BY NamesAssumption DEF Servable
<1>2. RoutesOf(name) # Script /\ RoutesOf(name) \notin {CRL, KRL}
  BY <1>1 DEF RoutesOf, Script, CRL, KRL
<1>3. \A other : /\ RoutesOf(name) # RulesOf(other)
                 /\ RoutesOf(name) = RoutesOf(other) => name = other
  BY DEF RoutesOf, RulesOf
<1> QED  BY PlanFields, <1>2, <1>3

\* Only connect.sh is of its path, and the routes of whom it lists are before it.
LEMMA RoutesFirst ==
  ASSUME NoKRLProfile, NEW n, NEW c \in Candidates, Loads(c),
         NEW j \in 1..Len(Plan(n, c)), Plan(n, c)[j].path = Script,
         NEW name \in Plan(n, c)[j].body.what
  PROVE  /\ name \in Servable
         /\ \E i \in 1..Len(Plan(n, c)) : i < j /\ Plan(n, c)[i].path = RoutesOf(name)
<1> DEFINE w == 2 * Len(c.profiles) + 1
<1>1. j = w /\ Plan(n, c)[j].body.what = {p.name : p \in ToSet(c.profiles)}
  <2>1. \A i \in 1..Len(c.profiles) : c.profiles[i].name # "connect.sh"
    BY ProfileNames, NamesAssumption
  <2> QED
    BY PlanFields, <2>1 DEF RoutesOf, RulesOf, Script, CRL, KRL
<1>2. PICK i \in 1..Len(c.profiles) : c.profiles[i].name = name
  <2>1. name \in {p.name : p \in ToSet(c.profiles)}
    BY <1>1
  <2> QED  BY <2>1, ConfigDirShape DEF ToSet
<1>3. Len(c.profiles) \in Nat /\ Len(Plan(n, c)) \in Nat
  BY ConfigDirShape, PlanShape
<1>4. 2 * i - 1 \in 1..Len(Plan(n, c)) /\ 2 * i - 1 < j
  BY <1>1, <1>3
<1>5. Plan(n, c)[2 * i - 1].path = RoutesOf(name)
  <2>1. \A m \in 1..Len(c.profiles) : /\ 2 * i - 1 # 2 * m
                                      /\ 2 * i - 1 = 2 * m - 1 => i = m
    BY <1>3
  <2>2. 2 * i - 1 < w
    BY <1>3
  <2> HIDE DEF w
  <2> DEFINE m == 2 * i - 1
  <2>3. \A x \in 1..Len(c.profiles) : m # 2 * x /\ (m = 2 * x - 1 => x = i)
    BY <2>1
  <2>4. m \in 1..Len(Plan(n, c)) /\ ~(m = w) /\ ~(m > w)
    BY <1>3, <1>4, <2>2 DEF w
  <2> HIDE DEF m
  <2> QED  BY PlanFields, <2>3, <2>4, <1>2 DEF w
<1> QED  BY <1>2, <1>4, <1>5, ProfileNames

-----------------------------------------------------------------------------
(* What each step of a call does to the calls and to the names.             *)

LEMMA CreateFrame ==
  ASSUME FileInv, NEW w \in Writers, NEW p, NEW b, Create(w, p, b)
  PROVE  /\ work'[w].path = p /\ work'[w].file.body = b /\ work'[w].step = "render"
         /\ \A v \in Writers : v # w => work'[v] = work[v]
         /\ UNCHANGED <<shown, survivors>>
BY DEF Create, FileInv, FileTypeOK

LEMMA MoveFrame ==
  ASSUME FileInv, NEW w \in Writers, Render(w) \/ Sync(w)
  PROVE  /\ work[w] # Idle /\ work'[w].step \in {"sync", "rename"}
         /\ work'[w].path = work[w].path /\ work'[w].file.body = work[w].file.body
         /\ \A v \in Writers : v # w => work'[v] = work[v]
         /\ UNCHANGED <<shown, survivors>>
<1>1. work[w] # Idle /\ work[w].file \in File
  BY DEF FileInv, FileTypeOK, Render, Sync, At, Idle, Call
<1>2. /\ work \in [Writers -> Call \cup {Idle}]
      /\ UNCHANGED <<shown, survivors>>
  BY DEF FileInv, FileTypeOK, Render, Sync
<1>3. CASE Render(w)
  <2> DEFINE f == [work[w].file EXCEPT !.whole = TRUE]
  <2>1. f.body = work[w].file.body
    BY <1>1 DEF File
  <2>2. work' = [work EXCEPT ![w] = [step |-> "sync", path |-> work[w].path, file |-> f]]
    BY <1>3 DEF Render, GoOn
  <2> HIDE DEF f
  <2> QED  BY <1>1, <1>2, <2>1, <2>2
<1>4. CASE Sync(w)
  <2> DEFINE f == [work[w].file EXCEPT !.synced = TRUE]
  <2>1. f.body = work[w].file.body
    BY <1>1 DEF File
  <2>2. work' = [work EXCEPT ![w] = [step |-> "rename", path |-> work[w].path, file |-> f]]
    BY <1>4 DEF Sync, GoOn
  <2> HIDE DEF f
  <2> QED  BY <1>1, <1>2, <2>1, <2>2
<1> QED  BY <1>3, <1>4

LEMMA RenameFrame ==
  ASSUME FileInv, NEW w \in Writers, Rename(w)
  PROVE  /\ work[w] # Idle /\ work'[w].step = "syncDir"
         /\ work'[w].path = work[w].path /\ work'[w].file.body = work[w].file.body
         /\ \A v \in Writers : v # w => work'[v] = work[v]
         /\ \E f : /\ f.body = work[w].file.body
                   /\ shown' = [shown EXCEPT ![work[w].path] = f]
                   /\ survivors' = [survivors EXCEPT ![work[w].path] = @ \cup {f}]
<1> DEFINE p == work[w].path
           f == [work[w].file EXCEPT !.at = shown[p].at + 1]
<1>1. work[w] # Idle /\ work[w].file \in File /\ work \in [Writers -> Call \cup {Idle}]
  BY DEF FileInv, FileTypeOK, Rename, At, Idle, Call
<1>2. f.body = work[w].file.body
  BY <1>1 DEF File
<1>3. /\ shown' = [shown EXCEPT ![p] = f]
      /\ survivors' = [survivors EXCEPT ![p] = @ \cup {f}]
      /\ work' = [work EXCEPT ![w] = [step |-> "syncDir", path |-> p, file |-> f]]
  BY DEF Rename, GoOn
<1> HIDE DEF f
<1> QED  BY <1>1, <1>2, <1>3

LEMMA SyncDirFrame ==
  ASSUME FileInv, NEW w \in Writers, SyncDir(w)
  PROVE  /\ work[w] # Idle /\ At(w, "syncDir") /\ work'[w] = Idle
         /\ \A v \in Writers : v # w => work'[v] = work[v]
         /\ shown' = shown
         /\ \A p \in Paths : survivors'[p] \subseteq survivors[p]
         /\ survivors'[work[w].path] = {shown[work[w].path]}
<1>1. work[w] # Idle /\ work[w].path \in Paths /\ work \in [Writers -> Call \cup {Idle}]
  BY DEF FileInv, FileTypeOK, SyncDir, At, Idle, Call
<1> QED  BY <1>1 DEF SyncDir, FileInv, FileTypeOK

LEMMA FailFrame ==
  ASSUME FileInv, NEW w \in Writers, Fail(w)
  PROVE  /\ work'[w] = Idle
         /\ \A v \in Writers : v # w => work'[v] = work[v]
         /\ UNCHANGED <<shown, survivors>>
BY DEF Fail, FileInv, FileTypeOK

-----------------------------------------------------------------------------
(* The process, its plan, and the calls that carry it out.                  *)

ProcessInv ==
  /\ process \in {"down", "writing", "serving"} /\ boot \in 0..MaxBoots
  /\ process # "down" =>
       /\ boot \in 1..MaxBoots /\ conf \in Candidates /\ Loads(conf)
       /\ item \in 1..Len(Plan(boot, conf)) + 1
  /\ process = "serving" => item = Len(Plan(boot, conf)) + 1

\* Main is at its item, and what it renamed is shown until it goes on.
MainInv ==
  work[Main] # Idle =>
    LET e == Plan(boot, conf)[item] IN
    /\ process = "writing" /\ item \in 1..Len(Plan(boot, conf))
    /\ work[Main].path = e.path /\ work[Main].file.body = e.body
    /\ At(Main, "syncDir") => shown[e.path].body = e.body

\* What is published is published while Gruff serves, and as the plan has it.
PublisherInv ==
  \A q \in Publishers : work[q] # Idle =>
    /\ process = "serving"
    /\ \E j \in 1..Len(Plan(boot, conf)) :
         /\ work[q].path = Plan(boot, conf)[j].path
         /\ work[q].file.body = Plan(boot, conf)[j].body

StartInv == FileInv /\ ProcessInv /\ MainInv /\ PublisherInv

LEMMA StartInitSound == Init => StartInv
<1> SUFFICES ASSUME Init PROVE StartInv
  OBVIOUS
<1>1. FileInv
  BY FileInitSound DEF Init
<1>2. ProcessInv
  BY BoundsAreNat DEF Init, ProcessInv
<1>3. MainInv /\ PublisherInv
  BY WritersAssumption DEF Init, FileInit, MainInv, PublisherInv
<1> QED  BY <1>1, <1>2, <1>3 DEF StartInv

\* Every step is one of a file writer's, or leaves the files alone.
LEMMA StepWritesFiles ==
  ASSUME StartInv, [Next]_vars
  PROVE  [FileNext]_fileVars
<1>1. Main \in Writers /\ \A q \in Publishers : q \in Writers
  BY WritersAssumption
<1>2. CASE BeginItem
  <2> DEFINE e == Plan(boot, conf)[item]
  <2>1. Create(Main, e.path, e.body)
    BY <1>2 DEF BeginItem
  <2>2. conf \in Candidates /\ Loads(conf) /\ boot \in 1..MaxBoots /\ item \in 1..Len(Plan(boot, conf))
    BY <1>2, PlanShape DEF BeginItem, StartInv, ProcessInv
  <2>3. e \in ToSet(Plan(boot, conf))
    BY <2>2, PlanShape DEF ToSet
  <2>4. e.path \in Paths /\ e.body \in Bodies
    BY <2>2, <2>3, PlanAssumption
  <2> QED  BY <1>1, <2>1, <2>4 DEF FileNext
<1>3. CASE StepItem \/ EndItem \/ FailItem
  BY <1>1, <1>3 DEF StepItem, EndItem, FailItem, FileNext, Write
<1>4. CASE \E q \in Publishers : Publish(q)
  <2> PICK q \in Publishers : Publish(q)
    BY <1>4
  <2>1. CASE Write(q)
    BY <1>1, <2>1 DEF FileNext
  <2>2. CASE conf.configdirEnabled /\ \E e \in ToSet(Lists(boot, conf)) : Create(q, e.path, e.body)
    <3> PICK e \in ToSet(Lists(boot, conf)) : Create(q, e.path, e.body)
      BY <2>2
    <3>1. conf \in Candidates /\ Loads(conf) /\ boot \in 1..MaxBoots
      BY DEF Publish, StartInv, ProcessInv
    <3>2. PICK j \in 1..Len(Plan(boot, conf)) : Plan(boot, conf)[j] = e
      BY <2>2, <3>1, PlanShape
    <3>3. e \in ToSet(Plan(boot, conf))
      BY <3>1, <3>2, PlanShape DEF ToSet
    <3>4. e.path \in Paths /\ e.body \in Bodies
      BY <3>1, <3>3, PlanAssumption
    <3> QED  BY <1>1, <3>4 DEF FileNext
  <2> QED  BY <2>1, <2>2 DEF Publish
<1>5. CASE Kill \/ MachineFails
  BY <1>5 DEF Kill, MachineFails, FileNext
<1>6. CASE UNCHANGED fileVars
  BY <1>6
<1> QED
  BY <1>2, <1>3, <1>4, <1>5, <1>6
  DEF Next, vars, Start, Serve, RunScript, CopyRoutes, Leave

\* The step of a process that goes on as it was.
Steady == UNCHANGED <<process, boot, conf, item>>

LEMMA MainStepSound ==
  ASSUME StartInv, BeginItem \/ StepItem \/ EndItem \/ FailItem
  PROVE  ProcessInv' /\ MainInv' /\ PublisherInv'
<1> DEFINE P == Plan(boot, conf)
<1>1. Main \in Writers /\ \A q \in Publishers : q \in Writers /\ q # Main
  BY WritersAssumption
<1>2. process = "writing" /\ \A q \in Publishers : work[q] = Idle
  <2>1. process = "writing"
    BY DEF StartInv, MainInv, BeginItem, StepItem, EndItem, FailItem, Render, Sync, Rename,
           SyncDir, Fail, At, Idle
  <2> QED  BY <2>1 DEF StartInv, PublisherInv
<1>3. /\ boot \in 1..MaxBoots /\ conf \in Candidates /\ Loads(conf) /\ item \in 1..Len(P) + 1
      /\ Len(P) \in Nat
  BY <1>2, PlanShape DEF StartInv, ProcessInv
<1>4. PublisherInv'
  <2>1. \A v \in Writers : v # Main => work'[v] = work[v]
    BY <1>1, CreateFrame, MoveFrame, RenameFrame, SyncDirFrame, FailFrame
    DEF StartInv, BeginItem, StepItem, EndItem, FailItem
  <2> QED  BY <1>1, <1>2, <2>1 DEF PublisherInv
<1>5. CASE BeginItem
  <2>1. /\ work'[Main].path = P[item].path /\ work'[Main].file.body = P[item].body
        /\ work'[Main].step = "render"
    BY <1>1, <1>5, CreateFrame DEF StartInv, BeginItem
  <2>2. Steady /\ item \in 1..Len(P)
    BY <1>3, <1>5 DEF BeginItem, startVars, Steady
  <2>3. ProcessInv'
    BY <2>2 DEF StartInv, ProcessInv, Steady
  <2>4. MainInv'
    BY <1>2, <2>1, <2>2 DEF MainInv, Steady, At
  <2> QED  BY <1>4, <2>3, <2>4
<1>6. CASE StepItem
  <2>1. Steady
    BY <1>6 DEF StepItem, startVars, Steady
  <2>2. ProcessInv'
    BY <2>1 DEF StartInv, ProcessInv, Steady
  <2>3. CASE Render(Main) \/ Sync(Main)
    <3>1. /\ work[Main] # Idle /\ work'[Main].step \in {"sync", "rename"}
          /\ work'[Main].path = work[Main].path /\ work'[Main].file.body = work[Main].file.body
      BY <1>1, <2>3, MoveFrame DEF StartInv
    <3>2. MainInv'
      BY <2>1, <3>1 DEF StartInv, MainInv, Steady, At
    <3> QED  BY <1>4, <2>2, <3>2
  <2>4. CASE Rename(Main)
    <3>1. /\ work[Main] # Idle
          /\ work'[Main].path = work[Main].path /\ work'[Main].file.body = work[Main].file.body
      BY <1>1, <2>4, RenameFrame DEF StartInv
    <3>2. work[Main].path \in Paths /\ shown \in [Paths -> File]
      BY <1>1, <3>1 DEF StartInv, FileInv, FileTypeOK, Call
    <3>3. shown'[work[Main].path].body = work[Main].file.body
      BY <1>1, <2>4, <3>2, RenameFrame DEF StartInv
    <3>4. MainInv'
      BY <2>1, <3>1, <3>3 DEF StartInv, MainInv, Steady, At
    <3> QED  BY <1>4, <2>2, <3>4
  <2> QED  BY <1>6, <2>3, <2>4 DEF StepItem
<1>7. CASE EndItem
  <2>1. work[Main] # Idle /\ work'[Main] = Idle
    BY <1>1, <1>7, SyncDirFrame DEF StartInv, EndItem
  <2>2. MainInv'
    BY <2>1 DEF MainInv
  <2>3. item \in 1..Len(P) /\ item' = item + 1 /\ UNCHANGED <<process, boot, conf>>
    BY <1>7, <2>1 DEF StartInv, MainInv, EndItem
  <2>4. ProcessInv'
    BY <1>2, <1>3, <2>3 DEF StartInv, ProcessInv
  <2> QED  BY <1>4, <2>2, <2>4
<1>8. CASE FailItem
  <2>1. work'[Main] = Idle
    BY <1>1, <1>8, FailFrame DEF StartInv, FailItem
  <2>2. MainInv' /\ ProcessInv'
    BY <1>8, <2>1 DEF StartInv, MainInv, ProcessInv, FailItem, Stop
  <2> QED  BY <1>4, <2>2
<1> QED  BY <1>5, <1>6, <1>7, <1>8

LEMMA PublishSound ==
  ASSUME StartInv, NEW q \in Publishers, Publish(q)
  PROVE  ProcessInv' /\ MainInv' /\ PublisherInv'
<1> DEFINE P == Plan(boot, conf)
<1>1. Main \in Writers /\ Main # q /\ \A x \in Publishers : x \in Writers
  BY WritersAssumption
<1>2. process = "serving" /\ Steady /\ conf \in Candidates
  BY DEF Publish, startVars, Steady, StartInv, ProcessInv
<1>3. ProcessInv'
  BY <1>2 DEF StartInv, ProcessInv, Steady
<1>4. \A v \in Writers : v # q => work'[v] = work[v]
  BY <1>1, CreateFrame, MoveFrame, RenameFrame, SyncDirFrame, FailFrame
  DEF StartInv, Publish, Write
<1>5. work[Main] = Idle /\ work'[Main] = Idle
  BY <1>1, <1>2, <1>4 DEF StartInv, MainInv
<1>6. MainInv'
  BY <1>5 DEF MainInv
<1>7. work'[q] # Idle => \E j \in 1..Len(P) : /\ work'[q].path = P[j].path
                                              /\ work'[q].file.body = P[j].body
  <2>1. CASE conf.configdirEnabled /\ \E e \in ToSet(Lists(boot, conf)) : Create(q, e.path, e.body)
    <3> PICK e \in ToSet(Lists(boot, conf)) : Create(q, e.path, e.body)
      BY <2>1
    <3>1. PICK j \in 1..Len(P) : P[j] = e
      BY <1>2, <2>1, PlanShape
    <3>2. work'[q].path = e.path /\ work'[q].file.body = e.body
      BY <1>1, CreateFrame DEF StartInv
    <3> QED  BY <3>1, <3>2
  <2>2. CASE Render(q) \/ Sync(q) \/ Rename(q)
    <3>1. /\ work[q] # Idle
          /\ work'[q].path = work[q].path /\ work'[q].file.body = work[q].file.body
      BY <1>1, <2>2, MoveFrame, RenameFrame DEF StartInv
    <3> QED  BY <3>1 DEF StartInv, PublisherInv
  <2>3. CASE SyncDir(q) \/ Fail(q)
    BY <1>1, <2>3, SyncDirFrame, FailFrame DEF StartInv
  <2> QED  BY <2>1, <2>2, <2>3 DEF Publish, Write
<1>8. PublisherInv'
  BY <1>1, <1>2, <1>4, <1>7 DEF StartInv, PublisherInv, Steady
<1> QED  BY <1>3, <1>6, <1>8

LEMMA OtherStepSound ==
  ASSUME StartInv,
         \/ \E c \in Candidates : Start(c)
         \/ Serve \/ Kill \/ MachineFails
         \/ UNCHANGED <<fileVars, process, boot, conf, item>>
  PROVE  ProcessInv' /\ MainInv' /\ PublisherInv'
<1>1. Main \in Writers /\ \A q \in Publishers : q \in Writers
  BY WritersAssumption
<1>2. CASE \E c \in Candidates : Start(c)
  <2> PICK c \in Candidates : Start(c)
    BY <1>2
  <2>1. \A w \in Writers : work'[w] = Idle
    BY WritersAssumption DEF Start, StartInv, MainInv, PublisherInv, fileVars
  <2>2. boot' \in 1..MaxBoots /\ boot' \in 0..MaxBoots
    BY BoundsAreNat DEF Start, StartInv, ProcessInv
  <2>3. Len(Plan(boot', c)) \in Nat
    BY PlanShape
  <2>4. ProcessInv'
    BY <2>2, <2>3 DEF Start, ProcessInv
  <2> QED  BY <1>1, <2>1, <2>4 DEF MainInv, PublisherInv
<1>3. CASE Serve
  <2>1. work[Main] = Idle /\ \A q \in Publishers : work[q] = Idle
    BY <1>3 DEF Serve, StartInv, ProcessInv, MainInv, PublisherInv
  <2>2. item = Len(Plan(boot, conf)) + 1
    BY <1>3, PlanShape DEF Serve, StartInv, ProcessInv
  <2> QED
    BY <1>3, <2>1, <2>2 DEF Serve, StartInv, ProcessInv, MainInv, PublisherInv, fileVars
<1>4. CASE Kill \/ MachineFails
  <2>1. \A w \in Writers : work'[w] = Idle
    BY <1>4 DEF Kill, MachineFails, Die, PowerLoss
  <2>2. ProcessInv'
    BY <1>4 DEF Kill, MachineFails, Stop, StartInv, ProcessInv
  <2> QED  BY <1>1, <2>1, <2>2 DEF MainInv, PublisherInv
<1>5. CASE UNCHANGED <<fileVars, process, boot, conf, item>>
  BY <1>5 DEF fileVars, StartInv, ProcessInv, MainInv, PublisherInv, At
<1> QED  BY <1>2, <1>3, <1>4, <1>5

LEMMA StartStepSound == StartInv /\ [Next]_vars => StartInv'
<1> SUFFICES ASSUME StartInv, [Next]_vars
             PROVE  StartInv'
  OBVIOUS
<1>1. FileInv'
  BY StepWritesFiles, FileStepSound DEF StartInv
<1>2. CASE BeginItem \/ StepItem \/ EndItem \/ FailItem
  BY <1>1, <1>2, MainStepSound DEF StartInv
<1>3. CASE \E q \in Publishers : Publish(q)
  BY <1>1, <1>3, PublishSound DEF StartInv
<1>4. CASE \/ \E c \in Candidates : Start(c)
           \/ Serve \/ Kill \/ MachineFails
           \/ UNCHANGED <<fileVars, process, boot, conf, item>>
  BY <1>1, <1>4, OtherStepSound DEF StartInv
<1> QED
  BY <1>2, <1>3, <1>4 DEF Next, vars, startVars, RunScript, CopyRoutes, Leave

\* A name comes to lead to a new file only when an entry of the plan is renamed
\* over it; any other step leaves each name a part of what it may lead to.
Shrinks == \A p \in Paths : survivors'[p] \subseteq survivors[p]
Replaces(j) ==
  LET e == Plan(boot, conf)[j] IN
  /\ process # "down" /\ Steady
  /\ process = "writing" => j = item
  /\ e.path \in Paths
  /\ \E f : /\ f.body = e.body
            /\ survivors' = [survivors EXCEPT ![e.path] = @ \cup {f}]

LEMMA NamesStep ==
  ASSUME StartInv, [Next]_vars
  PROVE  Shrinks \/ \E j \in 1..Len(Plan(boot, conf)) : Replaces(j)
<1> DEFINE P == Plan(boot, conf)
<1>1. Main \in Writers /\ \A q \in Publishers : q \in Writers
  BY WritersAssumption
<1>2. ASSUME UNCHANGED survivors
      PROVE  Shrinks
  BY <1>2 DEF Shrinks
<1>3. ASSUME NEW w \in Writers, Rename(w), Steady,
             NEW j \in 1..Len(P), work[w].path = P[j].path, work[w].file.body = P[j].body,
             process # "down", process = "writing" => j = item
      PROVE  Replaces(j)
  <2>1. work[w].path \in Paths
    BY <1>3 DEF StartInv, FileInv, FileTypeOK, Rename, At, Idle, Call
  <2>2. PICK f : /\ f.body = work[w].file.body
                 /\ survivors' = [survivors EXCEPT ![work[w].path] = @ \cup {f}]
    BY <1>3, RenameFrame DEF StartInv
  <2> QED  BY <1>3, <2>1, <2>2 DEF Replaces
<1>4. CASE BeginItem \/ FailItem
  BY <1>1, <1>2, <1>4, CreateFrame, FailFrame DEF StartInv, BeginItem, FailItem
<1>5. CASE StepItem
  <2>1. CASE Render(Main) \/ Sync(Main)
    BY <1>1, <1>2, <2>1, MoveFrame DEF StartInv
  <2>2. CASE Rename(Main)
    <3>1. work[Main] # Idle /\ Steady
      BY <1>1, <1>5, <2>2, RenameFrame DEF StartInv, StepItem, startVars, Steady
    <3>2. /\ item \in 1..Len(P) /\ process = "writing"
          /\ work[Main].path = P[item].path /\ work[Main].file.body = P[item].body
      BY <3>1 DEF StartInv, MainInv
    <3>3. PICK j \in 1..Len(P) : j = item
      BY <3>2
    <3> QED  BY <1>1, <1>3, <2>2, <3>1, <3>2, <3>3
  <2> QED  BY <1>5, <2>1, <2>2 DEF StepItem
<1>6. CASE EndItem
  BY <1>1, <1>6, SyncDirFrame DEF StartInv, EndItem, Shrinks
<1>7. CASE \E q \in Publishers : Publish(q)
  <2> PICK q \in Publishers : Publish(q)
    BY <1>7
  <2>1. Steady /\ process = "serving"
    BY DEF Publish, startVars, Steady
  <2>2. CASE \E e \in ToSet(Lists(boot, conf)) : Create(q, e.path, e.body)
    BY <1>2, <2>2 DEF Create
  <2>3. CASE Render(q) \/ Sync(q) \/ Fail(q)
    BY <1>1, <1>2, <2>3, MoveFrame, FailFrame DEF StartInv
  <2>4. CASE SyncDir(q)
    BY <1>1, <2>4, SyncDirFrame DEF StartInv, Shrinks
  <2>5. CASE Rename(q)
    <3>1. work[q] # Idle
      BY <1>1, <2>5, RenameFrame DEF StartInv
    <3>2. PICK j \in 1..Len(P) : /\ work[q].path = P[j].path
                                 /\ work[q].file.body = P[j].body
      BY <3>1 DEF StartInv, PublisherInv
    <3> QED  BY <1>1, <1>3, <2>1, <2>5, <3>2
  <2> QED  BY <2>2, <2>3, <2>4, <2>5 DEF Publish, Write
<1>8. CASE MachineFails
  BY <1>8, PowerLossSound DEF StartInv, MachineFails, Shrinks
<1>9. CASE UNCHANGED survivors
  BY <1>2, <1>9
<1> QED
  BY <1>4, <1>5, <1>6, <1>7, <1>8, <1>9
  DEF Next, vars, fileVars, Start, Serve, Kill, Die, RunScript, CopyRoutes, Leave

-----------------------------------------------------------------------------
(* What is behind main in its plan is written, and stays so.                *)

WrittenInv ==
  process # "down" =>
    \A j \in 1..Len(Plan(boot, conf)) : j < item =>
      \A f \in survivors[Plan(boot, conf)[j].path] : f.body = Plan(boot, conf)[j].body

LEMMA WrittenStepSound ==
  ASSUME NoKRLProfile, StartInv, WrittenInv, [Next]_vars
  PROVE  WrittenInv'
<1> DEFINE P == Plan(boot, conf)
<1>1. process # "down" => /\ conf \in Candidates /\ Loads(conf) /\ boot \in 1..MaxBoots
                          /\ Len(P) \in Nat
                          /\ \A j \in 1..Len(P) : P[j] \in ToSet(P) /\ P[j].path \in Paths
  BY PlanShape, PlanAssumption DEF StartInv, ProcessInv, ToSet
<1>2. CASE \E c \in Candidates : Start(c)
  BY <1>2 DEF Start, WrittenInv
<1>3. CASE Kill \/ MachineFails \/ FailItem
  BY <1>3 DEF Kill, MachineFails, FailItem, Stop, WrittenInv
<1>4. CASE EndItem
  <2>1. Main \in Writers
    BY WritersAssumption
  <2>2. /\ work[Main] # Idle /\ At(Main, "syncDir")
        /\ \A p \in Paths : survivors'[p] \subseteq survivors[p]
        /\ survivors'[work[Main].path] = {shown[work[Main].path]}
    BY <1>4, <2>1, SyncDirFrame DEF StartInv, EndItem
  <2>3. /\ process = "writing" /\ item \in 1..Len(P)
        /\ work[Main].path = P[item].path /\ shown[P[item].path].body = P[item].body
    BY <2>2 DEF StartInv, MainInv
  <2>4. item' = item + 1 /\ UNCHANGED <<process, boot, conf>>
    BY <1>4 DEF EndItem
  <2>5. \A f \in survivors'[P[item].path] : f.body = P[item].body
    BY <2>2, <2>3
  <2>6. ASSUME NEW j \in 1..Len(P), j < item + 1, NEW f \in survivors'[P[j].path]
        PROVE  f.body = P[j].body
    <3>1. CASE j = item
      BY <2>5, <2>6, <3>1
    <3>2. CASE j # item
      <4>1. j < item /\ P[j].path \in Paths
        BY <1>1, <2>3, <2>6, <3>2
      <4>2. f \in survivors[P[j].path]
        BY <2>2, <2>6, <4>1
      <4> QED  BY <2>3, <4>1, <4>2 DEF WrittenInv
    <3> QED  BY <3>1, <3>2
  <2> QED  BY <2>4, <2>6 DEF WrittenInv
<1>5. CASE /\ UNCHANGED <<boot, conf, item>> /\ process # "down"
           /\ Shrinks
  BY <1>1, <1>5 DEF Shrinks, WrittenInv
<1>6. ASSUME NEW i \in 1..Len(P), Replaces(i)
      PROVE  WrittenInv'
  <2>1. /\ process # "down" /\ UNCHANGED <<process, boot, conf, item>>
        /\ P[i].path \in Paths
    BY <1>6 DEF Replaces, Steady
  <2>2. PICK g : /\ g.body = P[i].body
                 /\ survivors' = [survivors EXCEPT ![P[i].path] = @ \cup {g}]
    BY <1>6 DEF Replaces
  <2>3. ASSUME NEW j \in 1..Len(P), j < item, NEW f \in survivors'[P[j].path]
        PROVE  f.body = P[j].body
    <3>1. CASE P[j].path = P[i].path
      <4>1. j = i
        BY <1>1, <2>1, <3>1, PathsDiffer
      <4>2. f = g \/ f \in survivors[P[j].path]
        BY <2>1, <2>2, <2>3, <3>1 DEF StartInv, FileInv, FileTypeOK
      <4> QED  BY <2>1, <2>2, <2>3, <4>1, <4>2 DEF WrittenInv
    <3>2. CASE P[j].path # P[i].path
      <4>1. f \in survivors[P[j].path]
        BY <1>1, <2>1, <2>2, <2>3, <3>2 DEF StartInv, FileInv, FileTypeOK
      <4> QED  BY <2>1, <2>3, <4>1 DEF WrittenInv
    <3> QED  BY <3>1, <3>2
  <2> QED  BY <2>1, <2>3 DEF WrittenInv
<1>7. CASE Shrinks /\ process = "down" /\ process' = "down"
  BY <1>7 DEF WrittenInv
<1>8. \/ \E c \in Candidates : Start(c)
      \/ Kill \/ MachineFails \/ FailItem \/ EndItem
      \/ UNCHANGED <<boot, conf, item>> /\ process # "down" /\ process' # "down"
      \/ UNCHANGED <<process, boot, conf, item>>
  BY DEF Next, vars, startVars, BeginItem, StepItem, Serve, Publish, RunScript, CopyRoutes, Leave
<1> QED
  BY <1>2, <1>3, <1>4, <1>5, <1>6, <1>7, <1>8, NamesStep

-----------------------------------------------------------------------------
(* A script that may survive has the routes of those it lists behind it, and *)
(* so has a client that one has listed.                                      *)

GoodFor(r, name, n) ==
  r.body # Absent /\ r.body.what = {name} /\ r.body.boot >= n

Promised(name, n) ==
  /\ name \in Servable /\ RoutesOf(name) \in Paths
  /\ n \in Nat /\ n <= boot
  /\ \A r \in survivors[RoutesOf(name)] : GoodFor(r, name, n)

ScriptInv ==
  \A s \in survivors[Script] : s.body # Absent =>
    \A name \in s.body.what : Promised(name, s.body.boot)

ClientInv ==
  /\ client = [k \in Clients |-> client[k]]
  /\ \A k \in Clients :
       /\ client[k].step = "listed" =>
            client[k].script.whole /\ Promised(client[k].name, client[k].script.body.boot)
       /\ client[k].step = "admitted" =>
            /\ client[k].script.whole /\ client[k].routes.whole
            /\ GoodFor(client[k].routes, client[k].name, client[k].script.body.boot)

LEMMA PromiseKept ==
  ASSUME StartInv, [Next]_vars, NEW name, NEW n, Promised(name, n)
  PROVE  Promised(name, n)'
<1> DEFINE P == Plan(boot, conf)
           p == RoutesOf(name)
<1>1. n <= boot'
  <2>1. boot' = boot \/ boot' = boot + 1
    BY DEF Next, vars, startVars, Start, BeginItem, StepItem, EndItem, FailItem, Serve, Publish,
           Kill, MachineFails, RunScript, CopyRoutes, Leave
  <2> QED  BY <2>1, BoundsAreNat DEF StartInv, ProcessInv, Promised
<1>2. CASE Shrinks
  BY <1>1, <1>2 DEF Shrinks, Promised
<1>3. ASSUME NEW i \in 1..Len(P), Replaces(i)
      PROVE  \A r \in survivors'[p] : GoodFor(r, name, n)
  <2>1. PICK g : /\ g.body = P[i].body
                 /\ survivors' = [survivors EXCEPT ![P[i].path] = @ \cup {g}]
    BY <1>3 DEF Replaces
  <2>2. conf \in Candidates /\ Loads(conf) /\ boot \in 1..MaxBoots /\ P[i] \in ToSet(P)
    BY <1>3, PlanShape DEF Replaces, StartInv, ProcessInv, ToSet
  <2>3. \A r \in survivors'[p] : r \in survivors[p] \/ (r = g /\ P[i].path = p)
    BY <2>1 DEF StartInv, FileInv, FileTypeOK, Promised
  <2>4. P[i].path = p => GoodFor(g, name, n)
    <3> SUFFICES ASSUME P[i].path = p PROVE GoodFor(g, name, n)
      OBVIOUS
    <3>1. P[i].body.what = {name}
      BY <2>2, RoutesHold DEF Promised
    <3>2. P[i].body.boot = boot
      BY <2>2, PlanFields
    <3>3. P[i].body # Absent
      BY <2>2, PlanAssumption, AbsentAssumption
    <3> QED  BY <2>1, <2>2, <3>1, <3>2, <3>3 DEF GoodFor, Promised
  <2> QED  BY <2>3, <2>4 DEF Promised
<1> QED  BY <1>1, <1>2, <1>3, NamesStep DEF Promised

LEMMA ScriptStepSound ==
  ASSUME NoKRLProfile, StartInv, WrittenInv, ScriptInv, [Next]_vars
  PROVE  ScriptInv'
<1> DEFINE P == Plan(boot, conf)
<1> SUFFICES ASSUME NEW s \in survivors'[Script], s.body # Absent, NEW name \in s.body.what
             PROVE  Promised(name, s.body.boot)'
  BY DEF ScriptInv
<1>1. CASE s \in survivors[Script]
  BY <1>1, PromiseKept DEF ScriptInv
<1>2. CASE s \notin survivors[Script]
  <2>1. PICK j \in 1..Len(P) : Replaces(j)
    BY <1>2, PlanAssumption, NamesStep DEF Shrinks
  <2>2. PICK g : /\ g.body = P[j].body
                 /\ survivors' = [survivors EXCEPT ![P[j].path] = @ \cup {g}]
    BY <2>1 DEF Replaces
  <2>3. s.body = P[j].body /\ P[j].path = Script
    BY <1>2, <2>2, PlanAssumption DEF StartInv, FileInv, FileTypeOK
  <2>4. /\ conf \in Candidates /\ Loads(conf) /\ boot \in 1..MaxBoots
        /\ process # "down" /\ boot' = boot
        /\ Len(P) \in Nat /\ j <= item
    BY <2>1, PlanShape DEF Replaces, Steady, StartInv, ProcessInv
  <2>5. /\ name \in Servable
        /\ \E i \in 1..Len(P) : i < j /\ P[i].path = RoutesOf(name)
    BY <2>3, <2>4, RoutesFirst
  <2>6. PICK i \in 1..Len(P) : i < j /\ P[i].path = RoutesOf(name)
    BY <2>5
  <2>7. P[i] \in ToSet(P) /\ P[i].path \in Paths /\ P[i].body # Absent
    BY <2>4, PlanShape, PlanAssumption, AbsentAssumption DEF ToSet
  <2>8. P[i].body.what = {name} /\ P[i].body.boot = boot /\ s.body.boot = boot
    BY <2>3, <2>4, <2>5, <2>6, RoutesHold, PlanFields
  <2>9. \A r \in survivors[RoutesOf(name)] : r.body = P[i].body
    BY <2>4, <2>6 DEF StartInv, ProcessInv, WrittenInv
  <2>10. survivors'[RoutesOf(name)] = survivors[RoutesOf(name)]
    BY <2>2, <2>3, <2>6, <2>7 DEF RoutesOf, Script, StartInv, FileInv, FileTypeOK
  <2> QED
    BY <2>4, <2>5, <2>6, <2>7, <2>8, <2>9, <2>10, BoundsAreNat DEF Promised, GoodFor
<1> QED  BY <1>1, <1>2

LEMMA ClientStepSound ==
  ASSUME StartInv, ScriptInv, ClientInv, [Next]_vars
  PROVE  ClientInv'
<1>1. CASE UNCHANGED client
  <2>1. \A k \in Clients : client'[k] = client[k]
    BY <1>1
  <2> QED  BY <1>1, <2>1, PromiseKept DEF ClientInv, GoodFor
<1>2. CASE MachineFails
  BY <1>2 DEF MachineFails, ClientInv, Away
<1>3. ASSUME NEW k \in Clients, NEW x, client' = [client EXCEPT ![k] = x],
             x.step = "listed" => x.script.whole /\ Promised(x.name, x.script.body.boot)',
             x.step = "admitted" => /\ x.script.whole /\ x.routes.whole
                                    /\ GoodFor(x.routes, x.name, x.script.body.boot)
      PROVE  ClientInv'
  <2>1. client'[k] = x /\ \A m \in Clients : m # k => client'[m] = client[m]
    BY <1>3 DEF ClientInv
  <2>2. client' = [m \in Clients |-> client'[m]]
    BY <1>3 DEF ClientInv
  <2> QED  BY <1>3, <2>1, <2>2, PromiseKept DEF ClientInv, GoodFor
<1>4. ASSUME NEW k \in Clients, NEW name \in Names, RunScript(k, name)
      PROVE  ClientInv'
  <2> DEFINE s == shown[Script]
  <2>1. s \in survivors[Script] /\ s.whole
    BY PlanAssumption DEF StartInv, FileInv, FileTypeOK, NamesAreSound
  <2>2. s.body # Absent /\ name \in s.body.what
    BY <1>4, <2>1 DEF RunScript
  <2>3. Promised(name, s.body.boot)
    BY <2>1, <2>2 DEF ScriptInv
  <2>4. Promised(name, s.body.boot)'
    BY <1>4, <2>3 DEF RunScript, fileVars, Promised
  <2>5. client' = [client EXCEPT ![k] = [step |-> "listed", name |-> name, script |-> s]]
    BY <1>4 DEF RunScript
  <2>6. UNCHANGED <<boot, survivors, shown>>
    BY <1>4 DEF RunScript, fileVars
  <2> QED  BY <1>3, <2>1, <2>4, <2>5, <2>6
<1>5. ASSUME NEW k \in Clients, CopyRoutes(k)
      PROVE  ClientInv'
  <2> DEFINE r == shown[RoutesOf(client[k].name)]
  <2>1. client[k].script.whole /\ Promised(client[k].name, client[k].script.body.boot)
    BY <1>5 DEF CopyRoutes, ClientInv
  <2>2. r \in survivors[RoutesOf(client[k].name)] /\ r.whole
    BY <2>1 DEF Promised, StartInv, FileInv, FileTypeOK, NamesAreSound
  <2>3. GoodFor(r, client[k].name, client[k].script.body.boot)
    BY <2>1, <2>2 DEF Promised
  <2>4. client' = [client EXCEPT ![k] =
          [step |-> "admitted", name |-> client[k].name, script |-> client[k].script, routes |-> r]]
    BY <1>5 DEF CopyRoutes
  <2> HIDE DEF r
  <2> QED  BY <1>3, <2>1, <2>2, <2>3, <2>4
<1>6. ASSUME NEW k \in Clients, Leave(k)
      PROVE  ClientInv'
  BY <1>3, <1>6 DEF Leave, Away
<1> QED
  BY <1>1, <1>2, <1>4, <1>5, <1>6
  DEF Next, vars, startVars, Start, BeginItem, StepItem, EndItem, FailItem, Serve, Publish, Kill

-----------------------------------------------------------------------------
\* Where the process, main and the publishers are, in every state.
THEOREM StartInvariant == Spec => []StartInv
BY StartInitSound, StartStepSound, PTL DEF Spec

\* Main, the refresher and the handlers write files as module AtomicFile has it,
\* so what is proved of it there is true of the process that is started again
\* and again here.
THEOREM StartupWritesFiles == Spec => FileSpec
<1>1. Init => FileInit
  BY DEF Init
<1>2. StartInv /\ [Next]_vars => [FileNext]_fileVars
  BY StepWritesFiles
<1> QED  BY <1>1, <1>2, StartInvariant, PTL DEF Spec, FileSpec

\* Main is at its place in its plan, with the configuration it loaded.
THEOREM StartupTypeCorrect == Spec => []TypeOK
<1>1. StartInv => TypeOK
  <2> SUFFICES ASSUME StartInv PROVE TypeOK
    OBVIOUS
  <2>1. FileTypeOK
    BY DEF StartInv, FileInv
  <2> QED  BY <2>1 DEF StartInv, ProcessInv, MainInv, TypeOK
<1> QED  BY <1>1, StartInvariant, PTL

\* The names of distinct profiles lead to them.
LEMMA LookupFinds ==
  ASSUME NEW ps, ps \in Seq(ToSet(ps)), Distinct(ps), NEW p \in ToSet(ps)
  PROVE  Lookup(ps, p.name) = p
<1>1. PICK i \in DOMAIN ps : ps[i] = p
  BY DEF ToSet
<1>2. {j \in DOMAIN ps : ps[j].name = p.name} = {i}
  BY <1>1 DEF Distinct
<1>3. (CHOOSE j \in {i} : \A m \in {i} : j <= m) = i
  <2>1. i \in Int
    OBVIOUS
  <2> QED  BY <2>1
<1> QED  BY <1>1, <1>2, <1>3 DEF Lookup

\* Whatever the configuration, what is offered while Gruff serves can be had.
THEOREM OffersCanBeHad == Spec => []ServesWhatItOffers
<1>1. StartInv => ServesWhatItOffers
  <2> SUFFICES ASSUME StartInv, process = "serving" PROVE ServesWhatItOffers
    BY DEF ServesWhatItOffers
  <2>1. Loads(conf) /\ Valid(conf)
    BY DEF StartInv, ProcessInv, Loads
  <2>2. conf.profiles # <<>> => LoadCA(conf) \in {"loaded", "generated"} /\ conf.template = "good"
    BY <2>1 DEF Loads, Valid, LoadCA, Generated
  <2>3. conf.sshProfiles # <<>> => LoadSSHCA(conf) \in {"loaded", "generated"}
    BY <2>1 DEF Loads, LoadSSHCA, Generated
  <2>4. \A ps \in {conf.profiles, conf.sshProfiles} : \A p \in ToSet(ps) :
          /\ Lookup(ps, p.name) = p
          /\ 0 < p.duration /\ p.duration <= MaxSessionDuration
    <3>1. \A ps \in {conf.profiles, conf.sshProfiles} : Distinct(ps)
      BY <2>1 DEF Valid
    <3>2. \A p \in ToSet(conf.profiles) \cup ToSet(conf.sshProfiles) : ValidDuration(p.duration)
      BY <2>1 DEF Valid, ValidProfile, ValidSSHProfile, ToSet
    <3>3. \A ps \in {conf.profiles, conf.sshProfiles} : ps \in Seq(ToSet(ps))
      BY ProfilesAreLists DEF StartInv, ProcessInv
    <3> QED  BY <3>1, <3>2, <3>3, LookupFinds DEF ValidDuration
  <2>5. \A p \in ToSet(conf.profiles) : \A r \in p.rules :
          r.port # 0 => r.protocol \in {"tcp", "udp"}
    <3>1. \A p \in ToSet(conf.profiles) : ValidProfile(p)
      BY <2>1 DEF Valid, ToSet
    <3>2. \A r : ValidRule(r) => (r.port # 0 => r.protocol \in {"tcp", "udp"})
      BY DEF ValidRule, PortProtocols
    <3> QED  BY <3>1, <3>2 DEF ValidProfile
  <2> QED  BY <2>2, <2>3, <2>4, <2>5 DEF ServesWhatItOffers
<1> QED  BY <1>1, StartInvariant, PTL

\* While Gruff serves, its config directory holds what its configuration says,
\* when none of its VPN profiles has the name of a list.
THEOREM DirectoryIsServed ==
  ASSUME NoKRLProfile
  PROVE  Spec => []ServesItsConfig
<1>1. Init => WrittenInv
  BY DEF Init, WrittenInv
<1>2. StartInv /\ WrittenInv /\ [Next]_vars => WrittenInv'
  BY WrittenStepSound
<1>3. StartInv /\ WrittenInv => ServesItsConfig
  <2> SUFFICES ASSUME StartInv, WrittenInv, process = "serving" PROVE ServesItsConfig
    BY DEF ServesItsConfig
  <2> DEFINE P == Plan(boot, conf)
  <2>1. item = Len(P) + 1 /\ conf \in Candidates
    BY DEF StartInv, ProcessInv
  <2>2. Len(P) \in Nat /\ DOMAIN P = 1..Len(P)
    BY <2>1, PlanShape
  <2>3. \A j \in 1..Len(P) : j < item
    BY <2>1, <2>2
  <2>4. \A e \in ToSet(P) : \E j \in 1..Len(P) : P[j] = e
    BY <2>2 DEF ToSet
  <2> QED  BY <2>3, <2>4 DEF WrittenInv, ServesItsConfig
<1> QED  BY <1>1, <1>2, <1>3, StartInvariant, PTL DEF Spec

\* Whatever dies, and whenever, a client whom connect.sh lists gets the routes of
\* its profile, of the script's start or a later one.
THEOREM RoutesFollowTheScript ==
  ASSUME NoKRLProfile
  PROVE  Spec => []RoutesMatchTheScript
<1>1. Init => WrittenInv /\ ScriptInv /\ ClientInv
  BY PlanAssumption DEF Init, FileInit, NoFile, Away, WrittenInv, ScriptInv, ClientInv
<1>2. StartInv /\ WrittenInv /\ ScriptInv /\ ClientInv /\ [Next]_vars
        => WrittenInv' /\ ScriptInv' /\ ClientInv'
  BY WrittenStepSound, ScriptStepSound, ClientStepSound
<1>3. ClientInv => RoutesMatchTheScript
  BY DEF ClientInv, GoodFor, RoutesMatchTheScript
<1> QED  BY <1>1, <1>2, <1>3, StartInvariant, PTL DEF Spec
=============================================================================
