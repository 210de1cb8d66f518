--------------------------- MODULE AtomicReplace ---------------------------
(***************************************************************************)
(* What package atomicfile promises: a file is replaced in one step.       *)
(* now[p] is the version every reader of the name p sees; after[p] is the  *)
(* set of versions of which a power failure leaves one.                    *)
(***************************************************************************)
EXTENDS Integers

CONSTANTS Paths,        \* names of files: pairs of a directory and a name
          Bodies,       \* what a file can hold
          Absent        \* the body of a name that leads to no file

VARIABLES now, after

avars == <<now, after>>

Version == [body : Bodies \cup {Absent}, at : Nat]
NoVersion == [body |-> Absent, at |-> 0]

AInit ==
  /\ now = [p \in Paths |-> NoVersion]
  /\ after = [p \in Paths |-> {NoVersion}]

\* One writer's whole new body takes the place of what was there.
ReplaceBy(p, b) ==
  LET v == [body |-> b, at |-> now[p].at + 1] IN
  /\ now' = [now EXCEPT ![p] = v]
  /\ after' = [after EXCEPT ![p] = @ \cup {v}]

\* The names of a directory reach the disk.
Settle(dir) ==
  /\ after' = [p \in Paths |-> IF p[1] = dir THEN {now[p]} ELSE after[p]]
  /\ UNCHANGED now

\* The power fails: each name leads to one of the versions that may be on disk.
Lose ==
  /\ now' \in [Paths -> Version]
  /\ \A p \in Paths : now'[p] \in after[p]
  /\ after' = [p \in Paths |-> {now'[p]}]

Replace(p) == now'[p].body \in Bodies /\ ReplaceBy(p, now'[p].body)

ANext ==
  \/ \E p \in Paths : Replace(p)
  \/ \E p \in Paths : Settle(p[1])
  \/ Lose

AtomicSpec == AInit /\ [][ANext]_avars
=============================================================================
