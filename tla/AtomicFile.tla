----------------------------- MODULE AtomicFile -----------------------------
(***************************************************************************)
(* internal/atomicfile: a new body is written to a temporary file, synced, *)
(* renamed over the name, and the directory synced, by several writers at  *)
(* once, any of which may fail or die between two steps.  Behind the names *)
(* is a file system of which a power failure keeps what was synced.        *)
(*                                                                         *)
(* A temporary file's random name is taken never to repeat; one left by a  *)
(* process that died is never read, so it is not kept here.                *)
(***************************************************************************)
EXTENDS Integers

CONSTANTS Paths,        \* names of files: pairs of a directory and a name
          Blocked,      \* the names that are directories: no file replaces them
          Writers,
          Bodies,       \* what a file can hold
          Absent        \* the body of a name that leads to no file

ASSUME BlockedAssumption == Blocked \subseteq Paths
ASSUME AbsentAssumption == Absent \notin Bodies

VARIABLES
  shown,        \* shown[p]: the file a reader of p opens
  survivors,    \* survivors[p]: the files of which a power failure leaves one
  work,         \* work[w]: the call of Write that writer w is in
  acked         \* acked[p]: the last version whose Write returned without error

fileVars == <<shown, survivors, work, acked>>

File == [body : Bodies \cup {Absent}, whole : BOOLEAN, synced : BOOLEAN, at : Nat]
NoFile == [body |-> Absent, whole |-> TRUE, synced |-> TRUE, at |-> 0]

Idle == [step |-> "idle"]
Steps == {"render", "sync", "rename", "syncDir"}
Call == [step : Steps, path : Paths, file : File]

FileInit ==
  /\ shown = [p \in Paths |-> NoFile]
  /\ survivors = [p \in Paths |-> {NoFile}]
  /\ work = [w \in Writers |-> Idle]
  /\ acked = [p \in Paths |-> 0]

At(w, step) == work[w].step = step
GoOn(w, step, f) ==
  work' = [work EXCEPT ![w] = [step |-> step, path |-> work[w].path, file |-> f]]

\* Mutant: the file is truncated and written in place.
Create_InPlace(w, p, b) ==
  LET f == [body |-> b, whole |-> FALSE, synced |-> FALSE, at |-> shown[p].at + 1] IN
  /\ work[w] = Idle
  /\ shown' = [shown EXCEPT ![p] = f]
  /\ survivors' = [survivors EXCEPT ![p] = @ \cup {f}]
  /\ work' = [work EXCEPT ![w] = [step |-> "render", path |-> p, file |-> f]]
  /\ UNCHANGED acked

\* os.CreateTemp beside the name, and Chmod.
Create(w, p, b) ==
  /\ work[w] = Idle
  /\ work' = [work EXCEPT ![w] =
       [step |-> "render", path |-> p,
        file |-> [body |-> b, whole |-> FALSE, synced |-> FALSE, at |-> 0]]]
  /\ UNCHANGED <<shown, survivors, acked>>

Render(w) ==
  /\ At(w, "render")
  /\ GoOn(w, "sync", [work[w].file EXCEPT !.whole = TRUE])
  /\ UNCHANGED <<shown, survivors, acked>>

\* Mutant: the file is closed and not synced.
Sync_Skipped(w) ==
  /\ At(w, "sync")
  /\ GoOn(w, "rename", work[w].file)
  /\ UNCHANGED <<shown, survivors, acked>>

\* tmp.Sync and tmp.Close.
Sync(w) ==
  /\ At(w, "sync")
  /\ GoOn(w, "rename", [work[w].file EXCEPT !.synced = TRUE])
  /\ UNCHANGED <<shown, survivors, acked>>

\* The name leads to the new file at once, on disk at some later time.
Rename(w) ==
  LET p == work[w].path
      f == [work[w].file EXCEPT !.at = shown[p].at + 1]
  IN /\ At(w, "rename")
     /\ p \notin Blocked
     /\ shown' = [shown EXCEPT ![p] = f]
     /\ survivors' = [survivors EXCEPT ![p] = @ \cup {f}]
     /\ GoOn(w, "syncDir", f)
     /\ UNCHANGED acked

Later(m, n) == IF m > n THEN m ELSE n

\* Mutant: Write returns once the name is replaced.
SyncDir_Skipped(w) ==
  /\ At(w, "syncDir")
  /\ acked' = [acked EXCEPT ![work[w].path] = Later(@, work[w].file.at)]
  /\ work' = [work EXCEPT ![w] = Idle]
  /\ UNCHANGED <<shown, survivors>>

\* syncDir puts every name of the directory on disk, and Write returns nil.
SyncDir(w) ==
  LET p == work[w].path IN
  /\ At(w, "syncDir")
  /\ survivors' = [q \in Paths |-> IF q[1] = p[1] THEN {shown[q]} ELSE survivors[q]]
  /\ acked' = [acked EXCEPT ![p] = Later(@, work[w].file.at)]
  /\ work' = [work EXCEPT ![w] = Idle]
  /\ UNCHANGED shown

\* Any step may fail, the sync of the directory too, after the rename: the
\* temporary file is removed and Write returns the error.
Fail(w) ==
  /\ work[w] # Idle
  /\ work' = [work EXCEPT ![w] = Idle]
  /\ UNCHANGED <<shown, survivors, acked>>

\* The process dies with all its writers.
Die ==
  /\ work' = [w \in Writers |-> Idle]
  /\ UNCHANGED <<shown, survivors, acked>>

\* What a power failure may leave under a name: a file whose contents were
\* not synced may have lost some of them.
Torn(f) == [f EXCEPT !.whole = FALSE]
Remains(p) == survivors[p] \cup {Torn(f) : f \in {g \in survivors[p] : ~g.synced}}
Unsettled == {p \in Paths : Remains(p) # {shown[p]}}

PowerLoss ==
  /\ \E left \in [Unsettled -> UNION {Remains(p) : p \in Unsettled}] :
       /\ \A p \in Unsettled : left[p] \in Remains(p)
       /\ shown' = [p \in Paths |-> IF p \in Unsettled THEN left[p] ELSE shown[p]]
  /\ survivors' = [p \in Paths |-> {shown'[p]}]
  /\ work' = [w \in Writers |-> Idle]
  /\ UNCHANGED acked

Write(w) == Render(w) \/ Sync(w) \/ Rename(w) \/ SyncDir(w) \/ Fail(w)

FileNext ==
  \/ \E w \in Writers, p \in Paths, b \in Bodies : Create(w, p, b)
  \/ \E w \in Writers : Write(w)
  \/ Die
  \/ PowerLoss

FileSpec == FileInit /\ [][FileNext]_fileVars

-----------------------------------------------------------------------------
\* Types, and what is shown is one of the files that may be left.
FileTypeOK ==
  /\ shown \in [Paths -> File]
  /\ survivors \in [Paths -> SUBSET File]
  /\ \A p \in Paths : shown[p] \in survivors[p]
  /\ work \in [Writers -> Call \cup {Idle}]
  /\ acked \in [Paths -> Nat]

\* "A reader sees either the previous file or the new one, never a mixture",
\* and neither does a reader after a power failure: an unsynced file that got a
\* name would be torn by it.
NeverTorn ==
  \A p \in Paths : \A f \in survivors[p] : f.whole

\* A Write that returned without error is not undone: whatever the power
\* failure leaves under the name is that version or a later one.
ReturnedIsDurable ==
  \A p \in Paths : \A f \in survivors[p] : f.at >= acked[p]

\* Each name behaves as a register replaced in one step, even though the code
\* takes five, and a power failure loses whole versions only.
Version(f) == [body |-> IF f.whole THEN f.body ELSE [torn |-> f.body], at |-> f.at]
Atomic == INSTANCE AtomicReplace WITH
  now <- [p \in Paths |-> Version(shown[p])],
  after <- [p \in Paths |-> {Version(f) : f \in survivors[p]}]
ImplementsAtomicReplace == Atomic!AtomicSpec
=============================================================================
