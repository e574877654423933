--------------------------- MODULE Transfer_proofs --------------------------
(***************************************************************************)
(* Proofs about the ways in which content moves: the downloader ascli, the *)
(* upload queue of the browser, and the pieces files are cut into.  The    *)
(* three share no state; what is proved of each holds for any number of    *)
(* processes, entries, runs, workers and parts, and for files of any size. *)
(***************************************************************************)
EXTENDS Ascli, UploadManager, Ranges, FiniteSetTheorems, SequenceTheorems, TLAPS

-----------------------------------------------------------------------------
(* ASCLI                                                                   *)

Phases == {"list", "preflight", "get", "copy", "check", "publish", "done", "failed", "killed"}
Plans == [Entry -> Shared \cup {Absent}]
RunRows == [phase : Phases, plan : Plans, left : SUBSET Entry, at : Entry \cup {"none"}]
DiskRows == [kind : {"none", "file", "directory", "symlink"},
             by : Process \cup {"none", "others"}, size : Size \cup {0}]
TempRows == [held : BOOLEAN, size : Size \cup {0}]

AscliTypeOK ==
    /\ shared \in [Entry -> Shared \cup {Absent}]
    /\ disk \in [Path -> DiskRows]
    /\ temp \in [Process -> TempRows]
    /\ run \in [Process -> RunRows]
    /\ changes \in Nat

(* What is under a name was put there by somebody.                         *)
DiskHasMakers ==
    \A p \in Path : /\ disk[p].kind = "none" => disk[p] = Free
                    /\ disk[p].kind # "none" => disk[p].by # "none"

(* A plan is made of entries that were not met before, under names of      *)
(* their own; what is transferred is one of its files.                     *)
PlanHolds(r, t) ==
    /\ r.phase = "list" => \A n \in r.left : r.plan[n] = Absent
    /\ \A m, n \in Entry :
          r.plan[m].type # "none" /\ r.plan[n].type # "none" /\ r.plan[m].path = r.plan[n].path
          => m = n
    /\ r.phase \in {"copy", "check", "publish"} =>
        r.at \in Entry /\ r.plan[r.at].type = "file" /\ r.at \notin r.left
    /\ r.phase \in {"check", "publish"} => t.size = r.plan[r.at].size

PlansHold == \A q \in Process : PlanHolds(run[q], temp[q])

(* A file that was published is an entry its process is through with.      *)
Through(r, p, size) ==
    /\ r.phase \notin {"list", "preflight"}
    /\ \E n \in Entry : /\ r.plan[n].type = "file" /\ r.plan[n].path = p
                        /\ r.plan[n].size = size
                        /\ n \notin r.left /\ n # r.at

FilesAreThrough ==
    \A p \in Path, q \in Process : disk[p].kind = "file" /\ disk[p].by = q =>
        Through(run[q], p, disk[p].size)

AscliInv == AscliTypeOK /\ DiskHasMakers /\ PlansHold /\ FilesAreThrough
-----------------------------------------------------------------------------
(* Whether an entry is absent is seen from its type.                       *)
LEMMA AbsentType ==
    ASSUME NEW e \in Shared \cup {Absent}
    PROVE  e = Absent <=> e.type = "none"
BY DEF Shared, Absent

LEMMA InitAscli == AscliInit => AscliInv
<1> SUFFICES ASSUME AscliInit PROVE AscliInv
  OBVIOUS
<1> DEFINE first == [phase |-> "list", plan |-> [n \in Entry |-> Absent],
                     left |-> Entry, at |-> "none"]
<1>0. \A q \in Process : run[q] = first
  BY DEF AscliInit
<1>1. AscliTypeOK
  <2>1. Free \in DiskRows /\ NoTemp \in TempRows
    BY DEF Free, DiskRows, NoTemp, TempRows
  <2>2. first.plan \in Plans
    BY DEF Plans
  <2>3. first \in RunRows
    BY <2>2 DEF RunRows, Phases
  <2>4. run = [q \in Process |-> first]
    BY Zenon DEF AscliInit
  <2> HIDE DEF first
  <2> QED
    BY <2>1, <2>3, <2>4 DEF AscliInit, AscliTypeOK
<1>2. DiskHasMakers /\ FilesAreThrough
  BY DEF AscliInit, DiskHasMakers, FilesAreThrough, Free
<1>3. PlansHold
  <2>1. \A n \in Entry : first.plan[n] = Absent
    OBVIOUS
  <2>2. first.phase = "list" /\ first.left = Entry
    OBVIOUS
  <2> HIDE DEF first
  <2>3. \A n \in Entry : first.plan[n].type = "none"
    BY <2>1 DEF Absent
  <2>4. \A t : PlanHolds(first, t)
    BY <2>1, <2>2, <2>3 DEF PlanHolds
  <2> QED
    BY <1>0, <2>4 DEF PlansHold
<1> QED
  BY <1>1, <1>2, <1>3 DEF AscliInv

(* The process q goes on as y says.                                        *)
RunIs(q, y) == run' = [run EXCEPT ![q] = y]

LEMMA GoesOn ==
    ASSUME AscliTypeOK, NEW q \in Process, NEW y \in RunRows, RunIs(q, y)
    PROVE  /\ run' \in [Process -> RunRows] /\ run'[q] = y
           /\ \A o \in Process \ {q} : run'[o] = run[o]
BY DEF AscliTypeOK, RunIs

(* A run that ends, or goes on with the next entry, holds no temporary     *)
(* file.                                                                   *)
LEMMA ExitStep ==
    ASSUME AscliTypeOK, NEW q \in Process, NEW next \in {"get", "done", "failed"},
           Exit(q, next)
    PROVE  /\ run' \in [Process -> RunRows] /\ temp' \in [Process -> TempRows]
           /\ \A o \in Process \ {q} : run'[o] = run[o] /\ temp'[o] = temp[o]
           /\ run'[q].phase = next /\ run'[q].at = "none"
           /\ run'[q].plan = run[q].plan /\ run'[q].left = run[q].left
<1> DEFINE y == [run[q] EXCEPT !.phase = next, !.at = "none"]
<1>1. run \in [Process -> RunRows] /\ temp \in [Process -> TempRows]
  BY DEF AscliTypeOK
<1>2. RunIs(q, y)
  BY <1>1, Zenon DEF Exit, RunIs
<1>3. y \in RunRows /\ y.phase = next /\ y.at = "none" /\ y.plan = run[q].plan /\ y.left = run[q].left
  BY <1>1 DEF RunRows, Phases
<1>4. temp' = [temp EXCEPT ![q] = NoTemp] /\ NoTemp \in TempRows
  BY DEF Exit, NoTemp, TempRows
<1> HIDE DEF y
<1> QED
  BY <1>1, <1>2, <1>3, <1>4, GoesOn

(* A process that goes on, with the directory as it is, keeps the          *)
(* invariant if its own row does.                                          *)
LEMMA RowKeeps ==
    ASSUME AscliInv, NEW q \in Process,
           run' \in [Process -> RunRows], temp' \in [Process -> TempRows],
           \A o \in Process \ {q} : run'[o] = run[o] /\ temp'[o] = temp[o],
           UNCHANGED <<shared, disk, changes>>,
           PlanHolds(run'[q], temp'[q]),
           \A p \in Path : Through(run[q], p, disk[p].size) => Through(run'[q], p, disk[p].size)
    PROVE  AscliInv'
<1>1. AscliTypeOK' /\ DiskHasMakers'
  BY DEF AscliInv, AscliTypeOK, DiskHasMakers
<1>2. PlansHold'
  BY DEF AscliInv, PlansHold
<1>3. FilesAreThrough'
  BY DEF AscliInv, FilesAreThrough
<1> QED
  BY <1>1, <1>2, <1>3 DEF AscliInv

(* Ending a run, with the directory as it is, keeps the invariant.         *)
LEMMA ExitKeeps ==
    ASSUME AscliInv, NEW q \in Process, NEW next \in {"done", "failed"}, Exit(q, next),
           UNCHANGED <<shared, disk, changes>>
    PROVE  AscliInv'
<1>1. /\ run' \in [Process -> RunRows] /\ temp' \in [Process -> TempRows]
      /\ \A o \in Process \ {q} : run'[o] = run[o] /\ temp'[o] = temp[o]
      /\ run'[q].phase = next /\ run'[q].at = "none"
      /\ run'[q].plan = run[q].plan /\ run'[q].left = run[q].left
  BY ExitStep DEF AscliInv
<1>2. PlanHolds(run[q], temp[q])
  BY DEF AscliInv, PlansHold
<1>3. PlanHolds(run'[q], temp'[q])
  BY <1>1, <1>2 DEF PlanHolds
<1>4. ASSUME NEW p \in Path, Through(run[q], p, disk[p].size)
      PROVE  Through(run'[q], p, disk[p].size)
  BY <1>1, <1>4, AscliAssumption DEF Through
<1> QED
  BY <1>1, <1>3, <1>4, RowKeeps

(* The same for a process that goes on as y says, with its temporary file  *)
(* as it was or of size k.                                                 *)
LEMMA GoesKeeps ==
    ASSUME AscliInv, NEW q \in Process, NEW y \in RunRows, RunIs(q, y),
           NEW t \in TempRows, temp' = [temp EXCEPT ![q] = t],
           UNCHANGED <<shared, disk, changes>>,
           PlanHolds(y, t),
           \A p \in Path : Through(run[q], p, disk[p].size) => Through(y, p, disk[p].size)
    PROVE  AscliInv'
<1>1. AscliTypeOK
  BY DEF AscliInv
<1>2. /\ run' \in [Process -> RunRows] /\ run'[q] = y
      /\ \A o \in Process \ {q} : run'[o] = run[o]
  BY <1>1, GoesOn
<1>3. /\ temp' \in [Process -> TempRows] /\ temp'[q] = t
      /\ \A o \in Process \ {q} : temp'[o] = temp[o]
  BY <1>1 DEF AscliTypeOK
<1> QED
  BY <1>2, <1>3, RowKeeps

LEMMA SameTemp ==
    ASSUME AscliTypeOK, NEW q \in Process, UNCHANGED temp
    PROVE  temp[q] \in TempRows /\ temp' = [temp EXCEPT ![q] = temp[q]]
BY DEF AscliTypeOK
-----------------------------------------------------------------------------
LEMMA WalkKeeps ==
    ASSUME AscliInv, NEW q \in Process, NEW n \in Entry, Walk(q, n)
    PROVE  AscliInv'
<1> DEFINE y == [run[q] EXCEPT !.left = @ \ {n}, !.plan = [@ EXCEPT ![n] = shared[n]]]
<1>1. AscliTypeOK /\ PlanHolds(run[q], temp[q])
  BY DEF AscliInv, PlansHold
<1>2. UNCHANGED <<shared, disk, changes>> /\ run[q].phase = "list" /\ n \in run[q].left
  BY DEF Walk
<1>3. CASE Exit(q, "failed")
  BY <1>2, <1>3, ExitKeeps
<1>4. CASE /\ run' = [run EXCEPT ![q].left = @ \ {n}, ![q].plan[n] = shared[n]]
           /\ UNCHANGED temp
           /\ ~(/\ shared[n] # Absent
                /\ \E m \in Planned(q) : run[q].plan[m].path = shared[n].path)
  <2>1. run \in [Process -> RunRows] /\ shared[n] \in Shared \cup {Absent}
    BY <1>1 DEF AscliTypeOK
  <2>2. run[q] \in RunRows /\ run[q].plan \in Plans
    BY <2>1 DEF RunRows
  <2>3. RunIs(q, y)
    BY <1>4, <2>1, Zenon DEF RunIs
  <2>4. [run[q].plan EXCEPT ![n] = shared[n]] \in Plans
    BY <2>1, <2>2 DEF Plans
  <2>5. /\ y \in RunRows /\ y.phase = "list" /\ y.left = run[q].left \ {n}
        /\ y.plan = [run[q].plan EXCEPT ![n] = shared[n]]
    BY <1>2, <2>2, <2>4 DEF RunRows
  <2>6. y.plan[n] = shared[n] /\ \A m \in Entry \ {n} : y.plan[m] = run[q].plan[m]
    BY <2>2, <2>5 DEF Plans
  <2> HIDE DEF y
  <2>7. ASSUME NEW m \in Entry, run[q].plan[m].type # "none", shared[n].type # "none"
        PROVE  run[q].plan[m].path # shared[n].path
    <3>1. run[q].plan[m] \in Shared \cup {Absent}
      BY <2>2 DEF Plans
    <3>2. run[q].plan[m] # Absent /\ shared[n] # Absent
      BY <2>7 DEF Absent
    <3> QED
      BY <1>4, <3>2 DEF Planned
  <2>8. run[q].plan[n].type = "none"
    BY <1>1, <1>2 DEF PlanHolds, Absent
  <2>9. \A a, b \in Entry :
          y.plan[a].type # "none" /\ y.plan[b].type # "none" /\ y.plan[a].path = y.plan[b].path
          => a = b
    BY <1>1, <2>6, <2>7 DEF PlanHolds
  <2>10. PlanHolds(y, temp[q])
    <3>1. run[q].left \subseteq Entry /\ \A m \in run[q].left : run[q].plan[m] = Absent
      BY <1>1, <1>2, <2>2 DEF PlanHolds, RunRows
    <3>2. \A m \in y.left : m \in Entry \ {n} /\ run[q].plan[m] = Absent
      BY <2>5, <3>1
    <3>3. \A m \in y.left : y.plan[m] = Absent
      BY <2>6, <3>2
    <3> QED
      BY <2>5, <2>9, <3>3 DEF PlanHolds
  <2>11. \A p \in Path : ~Through(run[q], p, disk[p].size)
    BY <1>2 DEF Through
  <2> QED
    BY <1>1, <1>2, <1>4, <2>3, <2>5, <2>10, <2>11, SameTemp, GoesKeeps
<1> QED
  BY <1>3, <1>4 DEF Walk

(* The list of the entries a loop has left is drawn up again.              *)
LEMMA ProceedKeeps ==
    ASSUME AscliInv, NEW q \in Process, run[q].phase \in {"list", "preflight"},
           NEW next \in {"preflight", "get"}, Proceed(q, next),
           UNCHANGED <<shared, disk, temp, changes>>
    PROVE  AscliInv'
<1> DEFINE y == [run[q] EXCEPT !.phase = next, !.left = Planned(q)]
<1>1. AscliTypeOK /\ PlanHolds(run[q], temp[q])
  BY DEF AscliInv, PlansHold
<1>2. run \in [Process -> RunRows] /\ run[q] \in RunRows
  BY <1>1 DEF AscliTypeOK
<1>3. RunIs(q, y)
  BY <1>2, Zenon DEF Proceed, RunIs
<1>4. Planned(q) \in SUBSET Entry
  BY DEF Planned
<1>5. y \in RunRows /\ y.phase = next /\ y.plan = run[q].plan
  BY <1>2, <1>4 DEF RunRows, Phases
<1> HIDE DEF y
<1>6. PlanHolds(y, temp[q])
  BY <1>1, <1>5 DEF PlanHolds
<1>7. \A p \in Path : ~Through(run[q], p, disk[p].size)
  BY DEF Through
<1> QED
  BY <1>1, <1>3, <1>5, <1>6, <1>7, SameTemp, GoesKeeps

LEMMA PreflightKeeps ==
    ASSUME AscliInv, NEW q \in Process, NEW n \in Entry, Preflight(q, n)
    PROVE  AscliInv'
<1> DEFINE y == [run[q] EXCEPT !.left = @ \ {n}]
<1>1. AscliTypeOK /\ PlanHolds(run[q], temp[q])
  BY DEF AscliInv, PlansHold
<1>2. UNCHANGED <<shared, disk, changes>> /\ run[q].phase = "preflight"
  BY DEF Preflight
<1>3. CASE Exit(q, "failed")
  BY <1>2, <1>3, ExitKeeps
<1>4. CASE run' = [run EXCEPT ![q].left = @ \ {n}] /\ UNCHANGED temp
  <2>1. run \in [Process -> RunRows] /\ run[q] \in RunRows
    BY <1>1 DEF AscliTypeOK
  <2>2. RunIs(q, y)
    BY <1>4, <2>1, Zenon DEF RunIs
  <2>3. y \in RunRows /\ y.phase = run[q].phase /\ y.plan = run[q].plan
    BY <2>1 DEF RunRows
  <2> HIDE DEF y
  <2>4. PlanHolds(y, temp[q])
    BY <1>1, <1>2, <2>3 DEF PlanHolds
  <2>5. \A p \in Path : ~Through(run[q], p, disk[p].size)
    BY <1>2 DEF Through
  <2> QED
    BY <1>1, <1>2, <1>4, <2>2, <2>3, <2>4, <2>5, SameTemp, GoesKeeps
<1> QED
  BY <1>3, <1>4 DEF Preflight

LEMMA MakeDirectoryKeeps ==
    ASSUME AscliInv, NEW q \in Process, NEW n \in Entry, MakeDirectory(q, n)
    PROVE  AscliInv'
<1> DEFINE y == [run[q] EXCEPT !.left = @ \ {n}]
           p == run[q].plan[n].path
           d == [disk[p] EXCEPT !.kind = "directory", !.by = IF @ = "none" THEN q ELSE @]
<1>1. AscliTypeOK /\ PlanHolds(run[q], temp[q])
  BY DEF AscliInv, PlansHold
<1>2. /\ UNCHANGED <<shared, changes>> /\ run[q].phase = "get"
      /\ run[q].plan[n].type = "directory"
  BY DEF MakeDirectory
<1>3. CASE Exit(q, "failed") /\ UNCHANGED disk
  BY <1>2, <1>3, ExitKeeps
<1>4. CASE /\ disk[p].kind \in {"none", "directory"}
           /\ disk' = [disk EXCEPT ![p].kind = "directory",
                                   ![p].by = IF @ = "none" THEN q ELSE @]
           /\ run' = [run EXCEPT ![q].left = @ \ {n}]
           /\ UNCHANGED temp
  <2>1. run \in [Process -> RunRows] /\ run[q] \in RunRows /\ disk \in [Path -> DiskRows]
    BY <1>1 DEF AscliTypeOK
  <2>2. RunIs(q, y)
    BY <1>4, <2>1, Zenon DEF RunIs
  <2>3. /\ y \in RunRows /\ y.phase = run[q].phase /\ y.plan = run[q].plan
        /\ y.left = run[q].left \ {n} /\ y.at = run[q].at
    BY <2>1 DEF RunRows
  <2>4. p \in Path
    <3>1. run[q].plan[n] \in Shared \cup {Absent}
      BY <2>1 DEF RunRows, Plans
    <3> QED
      BY <1>2, <3>1 DEF Shared, Absent
  <2>5. disk' = [disk EXCEPT ![p] = d]
    BY <1>4, <2>1, Zenon
  <2>6. d \in DiskRows /\ d.kind = "directory" /\ d.by # "none"
    BY <2>1, <2>4, AscliAssumption DEF DiskRows
  <2> HIDE DEF y, p, d
  <2>7. run'[q] = y /\ run' \in [Process -> RunRows] /\ \A o \in Process \ {q} : run'[o] = run[o]
    BY <1>1, <2>2, <2>3, GoesOn
  <2>8. /\ disk' \in [Path -> DiskRows] /\ disk'[p] = d
        /\ \A o \in Path \ {p} : disk'[o] = disk[o]
    BY <2>1, <2>4, <2>5, <2>6
  <2>9. AscliTypeOK' /\ DiskHasMakers'
    BY <1>2, <1>4, <2>6, <2>7, <2>8 DEF AscliInv, AscliTypeOK, DiskHasMakers
  <2>10. PlanHolds(y, temp[q])
    BY <1>1, <1>2, <2>3 DEF PlanHolds
  <2>11. PlansHold'
    BY <1>4, <2>7, <2>10 DEF AscliInv, PlansHold
  <2>12. \A o \in Path : Through(run[q], o, disk[o].size) => Through(y, o, disk[o].size)
    BY <2>3 DEF Through
  <2>13. FilesAreThrough'
    BY <2>6, <2>7, <2>8, <2>12 DEF AscliInv, FilesAreThrough
  <2> QED
    BY <2>9, <2>11, <2>13 DEF AscliInv
<1> QED
  BY <1>3, <1>4 DEF MakeDirectory

LEMMA OpenKeeps ==
    ASSUME AscliInv, NEW q \in Process, NEW n \in Entry, Open(q, n)
    PROVE  AscliInv'
<1> DEFINE y == [run[q] EXCEPT !.phase = "copy", !.at = n, !.left = @ \ {n}]
           t == [held |-> TRUE, size |-> 0]
<1>1. AscliTypeOK /\ PlanHolds(run[q], temp[q])
  BY DEF AscliInv, PlansHold
<1>2. /\ UNCHANGED <<shared, disk, changes>> /\ run[q].phase = "get"
      /\ run[q].plan[n].type = "file" /\ n \in run[q].left
  BY DEF Open
<1>3. CASE Exit(q, "failed")
  BY <1>2, <1>3, ExitKeeps
<1>4. CASE /\ run' = [run EXCEPT ![q].phase = "copy", ![q].at = n, ![q].left = @ \ {n}]
           /\ temp' = [temp EXCEPT ![q] = t]
  <2>1. run \in [Process -> RunRows] /\ run[q] \in RunRows
    BY <1>1 DEF AscliTypeOK
  <2>2. RunIs(q, y)
    BY <1>4, <2>1, Zenon DEF RunIs
  <2>3. /\ y \in RunRows /\ y.phase = "copy" /\ y.plan = run[q].plan
        /\ y.left = run[q].left \ {n} /\ y.at = n
    BY <2>1 DEF RunRows, Phases
  <2>4. t \in TempRows
    BY DEF TempRows
  <2> HIDE DEF y, t
  <2>5. PlanHolds(y, t)
    BY <1>1, <1>2, <2>3 DEF PlanHolds
  <2>6. \A p \in Path : Through(run[q], p, disk[p].size) => Through(y, p, disk[p].size)
    BY <1>2, <2>3 DEF Through
  <2> QED
    BY <1>2, <1>4, <2>2, <2>3, <2>4, <2>5, <2>6, GoesKeeps
<1> QED
  BY <1>3, <1>4 DEF Open

LEMMA CopyKeeps ==
    ASSUME AscliInv, NEW q \in Process, NEW n \in Size, Copy(q, n)
    PROVE  AscliInv'
<1> DEFINE y == [run[q] EXCEPT !.phase = "check"]
           t == [temp[q] EXCEPT !.size = n]
<1>1. AscliTypeOK /\ PlanHolds(run[q], temp[q])
  BY DEF AscliInv, PlansHold
<1>2. UNCHANGED <<shared, disk, changes>> /\ run[q].phase = "copy"
  BY DEF Copy
<1>3. CASE Exit(q, "failed")
  BY <1>2, <1>3, ExitKeeps
<1>4. CASE /\ n = At(q).size
           /\ temp' = [temp EXCEPT ![q].size = n]
           /\ run' = [run EXCEPT ![q].phase = "check"]
  <2>1. /\ run \in [Process -> RunRows] /\ run[q] \in RunRows
        /\ temp \in [Process -> TempRows] /\ temp[q] \in TempRows
    BY <1>1 DEF AscliTypeOK
  <2>2. RunIs(q, y) /\ temp' = [temp EXCEPT ![q] = t]
    BY <1>4, <2>1, Zenon DEF RunIs
  <2>3. /\ y \in RunRows /\ y.phase = "check" /\ y.plan = run[q].plan
        /\ y.left = run[q].left /\ y.at = run[q].at
    BY <2>1 DEF RunRows, Phases
  <2>4. t \in TempRows /\ t.size = n
    BY <2>1 DEF TempRows
  <2> HIDE DEF y, t
  <2>5. PlanHolds(y, t)
    BY <1>1, <1>2, <1>4, <2>3, <2>4 DEF PlanHolds, At
  <2>6. \A p \in Path : Through(run[q], p, disk[p].size) => Through(y, p, disk[p].size)
    BY <1>2, <2>3 DEF Through
  <2> QED
    BY <1>2, <2>2, <2>3, <2>4, <2>5, <2>6, GoesKeeps
<1> QED
  BY <1>3, <1>4 DEF Copy

(* A process that only changes its phase: it checks its destination, or it *)
(* is killed.                                                              *)
LEMMA PhaseKeeps ==
    ASSUME AscliInv, NEW q \in Process,
           NEW next \in {"publish", "killed"}, next = "publish" => run[q].phase = "check",
           run' = [run EXCEPT ![q].phase = next],
           UNCHANGED <<shared, disk, temp, changes>>
    PROVE  AscliInv'
<1> DEFINE y == [run[q] EXCEPT !.phase = next]
<1>1. AscliTypeOK /\ PlanHolds(run[q], temp[q])
  BY DEF AscliInv, PlansHold
<1>2. run \in [Process -> RunRows] /\ run[q] \in RunRows
  BY <1>1 DEF AscliTypeOK
<1>3. RunIs(q, y)
  BY <1>2, Zenon DEF RunIs
<1>4. /\ y \in RunRows /\ y.phase = next /\ y.plan = run[q].plan
      /\ y.left = run[q].left /\ y.at = run[q].at
  BY <1>2 DEF RunRows, Phases
<1> HIDE DEF y
<1>5. PlanHolds(y, temp[q])
  BY <1>1, <1>4 DEF PlanHolds
<1>6. \A p \in Path : Through(run[q], p, disk[p].size) => Through(y, p, disk[p].size)
  BY <1>4 DEF Through
<1> QED
  BY <1>1, <1>3, <1>4, <1>5, <1>6, SameTemp, GoesKeeps

LEMMA PublishedKeeps ==
    ASSUME AscliInv, NEW q \in Process, run[q].phase = "publish", Published(q),
           UNCHANGED <<shared, changes>>
    PROVE  AscliInv'
<1> DEFINE p == At(q).path
           f == File(q, temp[q].size)
<1>1. AscliTypeOK /\ PlanHolds(run[q], temp[q])
  BY DEF AscliInv, PlansHold
<1>2. /\ run' \in [Process -> RunRows] /\ temp' \in [Process -> TempRows]
      /\ \A o \in Process \ {q} : run'[o] = run[o] /\ temp'[o] = temp[o]
      /\ run'[q].phase = "get" /\ run'[q].at = "none"
      /\ run'[q].plan = run[q].plan /\ run'[q].left = run[q].left
  BY <1>1, ExitStep DEF Published
<1>3. /\ run[q].at \in Entry /\ At(q).type = "file" /\ run[q].at \notin run[q].left
      /\ temp[q].size = At(q).size
  BY <1>1 DEF PlanHolds, At
<1>4. p \in Path
  <2>1. run[q] \in RunRows
    BY <1>1 DEF AscliTypeOK
  <2>2. At(q) \in Shared \cup {Absent}
    BY <1>3, <2>1 DEF At, RunRows, Plans
  <2> QED
    BY <1>3, <2>2 DEF Shared, Absent
<1>5. /\ f \in DiskRows /\ f.kind = "file" /\ f.by = q /\ f.size = At(q).size /\ q # "none"
  BY <1>1, <1>3, AscliAssumption DEF File, DiskRows, AscliTypeOK, TempRows
<1>6. disk' = [disk EXCEPT ![p] = f]
  BY DEF Published
<1> HIDE DEF p, f
<1>7. /\ disk' \in [Path -> DiskRows] /\ disk'[p] = f
      /\ \A o \in Path \ {p} : disk'[o] = disk[o]
  BY <1>1, <1>4, <1>5, <1>6 DEF AscliTypeOK
<1>8. AscliTypeOK' /\ DiskHasMakers'
  BY <1>2, <1>5, <1>7 DEF AscliInv, AscliTypeOK, DiskHasMakers
<1>9. PlansHold'
  <2>1. PlanHolds(run'[q], temp'[q])
    BY <1>1, <1>2 DEF PlanHolds
  <2> QED
    BY <1>2, <2>1 DEF AscliInv, PlansHold
<1>10. FilesAreThrough'
  <2>1. Through(run'[q], p, f.size)
    BY <1>2, <1>3, <1>5, AscliAssumption DEF Through, At, p
  <2>2. \A o \in Path : Through(run[q], o, disk[o].size) => Through(run'[q], o, disk[o].size)
    BY <1>2, AscliAssumption DEF Through
  <2> QED
    BY <1>2, <1>5, <1>7, <2>1, <2>2 DEF AscliInv, FilesAreThrough
<1> QED
  BY <1>8, <1>9, <1>10 DEF AscliInv

LEMMA OthersKeep == AscliInv /\ Others => AscliInv'
<1> SUFFICES ASSUME AscliInv, Others PROVE AscliInv'
  OBVIOUS
<1>1. AscliTypeOK /\ changes' \in Nat
  BY DEF AscliInv, AscliTypeOK, Others, EditShare, UseDirectory, ShareChanges
<1>2. ASSUME NEW n \in Entry, NEW e \in Shared \cup {Absent}, EditShare(n, e)
      PROVE  AscliInv'
  <2>1. shared' \in [Entry -> Shared \cup {Absent}]
    BY <1>1, <1>2 DEF AscliTypeOK, EditShare
  <2>2. UNCHANGED <<disk, temp, run>>
    BY <1>2 DEF EditShare
  <2> QED
    BY <1>1, <2>1, <2>2
       DEF AscliInv, AscliTypeOK, DiskHasMakers, PlansHold, FilesAreThrough
<1>3. ASSUME NEW p \in Path, NEW f \in Foreign \cup {Free}, UseDirectory(p, f)
      PROVE  AscliInv'
  <2>1. UNCHANGED <<shared, temp, run>> /\ disk' = [disk EXCEPT ![p] = f]
    BY <1>3 DEF UseDirectory
  <2>2. /\ f \in DiskRows /\ f.by \notin Process
        /\ f.kind = "none" => f = Free
        /\ f.kind # "none" => f.by # "none"
    BY AscliAssumption DEF Foreign, Free, DiskRows
  <2>3. /\ disk' \in [Path -> DiskRows] /\ disk'[p] = f
        /\ \A o \in Path \ {p} : disk'[o] = disk[o]
    BY <1>1, <2>1, <2>2 DEF AscliTypeOK
  <2>4. AscliTypeOK' /\ PlansHold'
    BY <1>1, <2>1, <2>3 DEF AscliInv, AscliTypeOK, PlansHold
  <2>5. DiskHasMakers'
    BY <2>2, <2>3 DEF AscliInv, DiskHasMakers
  <2>6. FilesAreThrough'
    BY <2>1, <2>2, <2>3 DEF AscliInv, FilesAreThrough
  <2> QED
    BY <2>4, <2>5, <2>6 DEF AscliInv
<1> QED
  BY <1>2, <1>3 DEF Others

LEMMA StepAscli == AscliInv /\ [AscliNext]_asclVars => AscliInv'
<1> SUFFICES ASSUME AscliInv, [AscliNext]_asclVars PROVE AscliInv'
  OBVIOUS
<1>1. ASSUME NEW q \in Process, AscliStep(q) PROVE AscliInv'
  <2>1. CASE \E n \in Entry : Walk(q, n) \/ Preflight(q, n) \/ MakeDirectory(q, n) \/ Open(q, n)
    BY <2>1, WalkKeeps, PreflightKeeps, MakeDirectoryKeeps, OpenKeeps
  <2>2. CASE Listed(q) \/ Verified(q)
    BY <2>2, ProceedKeeps DEF Listed, Verified
  <2>3. CASE \E n \in Size : Copy(q, n)
    BY <2>3, CopyKeeps
  <2>4. CASE CheckFile(q)
    <3>1. CASE Exit(q, "failed")
      BY <2>4, <3>1, ExitKeeps DEF CheckFile
    <3>2. CASE run' = [run EXCEPT ![q].phase = "publish"] /\ UNCHANGED temp
      BY <2>4, <3>2, PhaseKeeps DEF CheckFile
    <3> QED
      BY <2>4, <3>1, <3>2 DEF CheckFile
  <2>5. CASE Link(q) \/ Rename(q)
    <3>1. run[q].phase = "publish" /\ UNCHANGED <<shared, changes>>
      BY <2>5 DEF Link, Rename
    <3>2. CASE Exit(q, "failed") /\ UNCHANGED disk
      BY <3>1, <3>2, ExitKeeps
    <3>3. CASE Published(q)
      BY <3>1, <3>3, PublishedKeeps
    <3> QED
      BY <2>5, <3>2, <3>3 DEF Link, Rename
  <2>6. CASE Finish(q) \/ Interrupt(q)
    BY <2>6, ExitKeeps DEF Finish, Interrupt
  <2>7. CASE Kill(q)
    BY <2>7, PhaseKeeps DEF Kill
  <2> QED
    BY <1>1, <2>1, <2>2, <2>3, <2>4, <2>5, <2>6, <2>7 DEF AscliStep
<1>2. CASE UNCHANGED asclVars
  BY <1>2 DEF asclVars, AscliInv, AscliTypeOK, DiskHasMakers, PlansHold, FilesAreThrough
<1> QED
  BY <1>1, <1>2, OthersKeep DEF AscliNext
-----------------------------------------------------------------------------
LEMMA AscliInvHolds == AscliSpec => []AscliInv
<1>1. AscliInit => AscliInv
  BY InitAscli
<1>2. AscliInv /\ [AscliNext]_asclVars => AscliInv'
  BY StepAscli
<1> QED
  BY <1>1, <1>2, PTL DEF AscliSpec

(* A file under its final name agrees with an entry its maker had listed,  *)
(* whatever happens to the share, the streams and the processes.           *)
THEOREM DownloadsAreWhole == AscliSpec => []FilesAreWhole
<1>1. AscliInv => FilesAreWhole
  <2> SUFFICES ASSUME AscliInv, NEW p \in Path, disk[p].kind = "file", disk[p].by # "others"
               PROVE  \E n \in Entry :
                          LET e == run[disk[p].by].plan[n]
                          IN  e.type = "file" /\ e.path = p /\ e.size = disk[p].size
    BY DEF FilesAreWhole
  <2>1. disk[p].by \in Process
    BY DEF AscliInv, AscliTypeOK, DiskRows, DiskHasMakers
  <2>2. Through(run[disk[p].by], p, disk[p].size)
    BY <2>1 DEF AscliInv, FilesAreThrough
  <2> QED
    BY <2>2 DEF Through
<1> QED
  BY <1>1, AscliInvHolds, PTL

(* A process never publishes two entries under one name.                   *)
THEOREM EntriesHaveTheirFile == AscliSpec => []OneFileEach
<1>1. AscliInv => OneFileEach
  <2> SUFFICES ASSUME AscliInv, NEW q \in Process, run[q].phase = "publish",
                      disk[At(q).path].kind = "file", disk[At(q).path].by = q
               PROVE  FALSE
    BY DEF OneFileEach
  <2>1. PlanHolds(run[q], temp[q])
    BY DEF AscliInv, PlansHold
  <2>2. run[q].at \in Entry /\ At(q).type = "file"
    BY <2>1 DEF PlanHolds, At
  <2>3. At(q).path \in Path
    <3>1. At(q) \in Shared \cup {Absent}
      BY <2>2 DEF At, AscliInv, AscliTypeOK, RunRows, Plans
    <3> QED
      BY <2>2, <3>1 DEF Shared, Absent
  <2>4. Through(run[q], At(q).path, disk[At(q).path].size)
    BY <2>3 DEF AscliInv, FilesAreThrough
  <2>5. PICK n \in Entry : run[q].plan[n].type = "file" /\ run[q].plan[n].path = At(q).path
                          /\ n # run[q].at
    BY <2>4 DEF Through
  <2> QED
    BY <2>1, <2>2, <2>5 DEF PlanHolds, At
<1> QED
  BY <1>1, AscliInvHolds, PTL

(* Nothing that exists is replaced without --overwrite, and no directory   *)
(* with it.                                                                *)
THEOREM ExistingFilesAreKept == AscliSpec => ExistingKept
<1>1. AscliInv /\ [AscliNext]_asclVars => [NothingReplaced]_asclVars
  <2> SUFFICES ASSUME AscliInv, AscliNext, NEW p \in Path,
                      disk[p] # Free, disk'[p] # disk[p]
               PROVE  \/ changes' # changes
                      \/ disk[p].kind # "directory" /\ disk'[p].by \in overwrite
    BY DEF NothingReplaced
  <2>1. CASE Others
    BY <2>1 DEF Others, EditShare, UseDirectory, ShareChanges, AscliInv, AscliTypeOK
  <2>2. ASSUME NEW q \in Process, AscliStep(q), disk' # disk
        PROVE  (\E n \in Entry : MakeDirectory(q, n)) \/ Link(q) \/ Rename(q)
    BY <2>2 DEF AscliStep, Walk, Preflight, Open, Listed, Verified, Copy, CheckFile, Finish,
                Interrupt, Kill
  <2>3. ASSUME NEW q \in Process, NEW n \in Entry, MakeDirectory(q, n) PROVE FALSE
    <3> DEFINE o == run[q].plan[n].path
               d == [disk[o] EXCEPT !.kind = "directory", !.by = IF @ = "none" THEN q ELSE @]
    <3>1. disk \in [Path -> DiskRows] /\ DiskHasMakers
      BY DEF AscliInv, AscliTypeOK
    <3>2. /\ disk[o].kind \in {"none", "directory"}
          /\ disk' = [disk EXCEPT ![o].kind = "directory",
                                  ![o].by = IF @ = "none" THEN q ELSE @]
      BY <2>3, Zenon DEF MakeDirectory
    <3>3. disk' = [disk EXCEPT ![o] = d]
      BY <3>1, <3>2, Zenon
    <3>4. o = p /\ disk'[p] = d
      BY <3>1, <3>3
    <3>5. disk[p].kind = "directory" /\ disk[p].by # "none"
      BY <3>1, <3>2, <3>4 DEF DiskHasMakers
    <3>6. d = disk[p]
      BY <3>1, <3>4, <3>5 DEF DiskRows
    <3> QED
      BY <3>4, <3>6
  <2>4. ASSUME NEW q \in Process, Link(q) \/ Rename(q)
        PROVE  disk[p].kind # "directory" /\ disk'[p].by \in overwrite
    <3>1. disk \in [Path -> DiskRows]
      BY DEF AscliInv, AscliTypeOK
    <3>2. Published(q)
      BY <2>4 DEF Link, Rename
    <3>3. p = At(q).path /\ disk'[p].by = q
      BY <3>1, <3>2 DEF Published, File
    <3> QED
      BY <2>4, <3>3 DEF Link, Rename
  <2> QED
    BY <2>1, <2>2, <2>3, <2>4 DEF AscliNext
<1> QED
  BY <1>1, AscliInvHolds, PTL DEF AscliSpec, ExistingKept

-----------------------------------------------------------------------------
(* THE UPLOAD QUEUE OF THE BROWSER                                         *)

ManagerPhases ==
    {"none", "creating", "confirm", "again", "blob", "presign", "parts",
     "completing", "ended", "broken"}
Shown == {"none", "uploading", "retrying", "completing", "completed", "failed",
          "cancelled", "dismissed"}

ManagerTypeOK ==
    /\ shown \in Shown
    /\ phase \in [Runs -> ManagerPhases]
    /\ lane \in [Runs -> [Lanes -> {NoPart} \cup [part : 1..Parts, try : Nat]]]
    /\ cursor \in [Runs -> 1..(Parts + 1)]
    /\ sent \in [Runs -> SUBSET (1..Parts)]

(* Workers send parts only for a run that waits for them or has failed     *)
(* without them; before its first batch a run has taken no part.           *)
LanesRun ==
    \A r \in Runs :
        /\ phase[r] \notin {"parts", "broken"} => \A w \in Lanes : lane[r][w] = NoPart
        /\ phase[r] \in {"none", "creating", "confirm", "again", "blob"} => cursor[r] = 1
        /\ phase[r] = "presign" => cursor[r] <= Parts

(* A part that was taken is sent, or some worker is at it.                 *)
PartsAccountedFor ==
    \A r \in Runs :
        phase[r] \in {"presign", "parts", "completing"} =>
            \A i \in 1..(cursor[r] - 1) :
                i \in sent[r] \/ \E w \in Lanes : lane[r][w].part = i

(* A multipart upload that is being completed has taken all its parts.     *)
AllTaken ==
    \A r \in Runs : phase[r] = "completing" => cursor[r] \in {1, Parts + 1}

TransferInv == ManagerTypeOK /\ LanesRun /\ PartsAccountedFor /\ AllTaken

-----------------------------------------------------------------------------
LEMMA ManagerConstants ==
    /\ Workers \in Nat \ {0} /\ Tries \in Nat \ {0} /\ Parts \in Nat \ {0}
    /\ Batch \in Nat \ {0} /\ MaxRuns \in Nat \ {0}
  BY ManagerAssumption

(* A batch ends no earlier than it begins, and with the last part.         *)
LEMMA BatchEndFacts ==
    ASSUME NEW c \in 1..Parts
    PROVE  BatchEnd(c) \in c..Parts
<1> DEFINE q == (c - 1) \div Batch
           e == (q + 1) * Batch
<1>1. Batch \in Nat \ {0} /\ Parts \in Nat /\ c - 1 \in Nat
  BY ManagerConstants
<1>2. q \in Nat
  BY <1>1
<1>3. c - 1 < q * Batch + Batch
  BY <1>1
<1>4. e = q * Batch + Batch /\ e \in Nat
  BY <1>1, <1>2
<1>5. BatchEnd(c) = AtMost(Parts, e)
  BY DEF BatchEnd
<1> HIDE DEF q, e
<1>6. c <= e
  BY <1>1, <1>2, <1>3, <1>4
<1>7. QED
  BY <1>1, <1>4, <1>5, <1>6 DEF AtMost

-----------------------------------------------------------------------------
(* Before its first batch a run awaits the server or the user.             *)
Early == {"none", "creating", "confirm", "again", "blob"}

(* Steps that send no parts: a run comes to its first batch or its         *)
(* complete call, or it ends.                                              *)
LEMMA NoPartMoves ==
    ASSUME TransferInv, UNCHANGED <<lane, cursor, sent>>, shown' \in Shown,
           phase' \in [Runs -> ManagerPhases],
           \A r \in Runs :
              \/ phase'[r] = phase[r]
              \/ phase[r] \notin {"parts", "broken"} /\ phase'[r] = "ended"
              \/ phase[r] \in Early /\ phase'[r] \in Early \cup {"presign", "completing"}
    PROVE  TransferInv'
<1>1. ManagerTypeOK'
  BY DEF TransferInv, ManagerTypeOK
<1>2. LanesRun'
  BY ManagerConstants DEF TransferInv, LanesRun, Early
<1>3. PartsAccountedFor'
  <2> SUFFICES ASSUME NEW r \in Runs, phase'[r] \in {"presign", "parts", "completing"},
                      NEW i \in 1..(cursor[r] - 1)
               PROVE  i \in sent[r] \/ \E w \in Lanes : lane[r][w].part = i
    BY DEF PartsAccountedFor
  <2>1. CASE phase'[r] = phase[r]
    BY <2>1 DEF TransferInv, PartsAccountedFor
  <2>2. CASE phase[r] \in Early
    <3>1. cursor[r] = 1
      BY <2>2 DEF TransferInv, LanesRun, Early
    <3>2. QED
      BY <3>1
  <2>3. QED
    BY <2>1, <2>2
<1>4. AllTaken'
  BY DEF TransferInv, AllTaken, LanesRun, Early
<1>5. QED
  BY <1>1, <1>2, <1>3, <1>4 DEF TransferInv

LEMMA GoesFacts ==
    ASSUME TransferInv, NEW r \in Runs, NEW next \in ManagerPhases, Goes(r, next)
    PROVE  /\ phase' \in [Runs -> ManagerPhases]
           /\ phase'[r] = next
           /\ \A q \in Runs \ {r} : phase'[q] = phase[q]
  BY DEF Goes, TransferInv, ManagerTypeOK

LEMMA ShowsFacts ==
    ASSUME TransferInv, NEW status \in Shown, Shows(status)
    PROVE  shown' \in Shown /\ shown' \in {shown, status} /\ shown' \in {"dismissed", status}
  BY DEF Shows, TransferInv, ManagerTypeOK

LEMMA BeginTransfer ==
    ASSUME TransferInv, NEW r \in Runs, Begin(r)
    PROVE  TransferInv'
<1>1. phase[r] = "none" /\ Goes(r, "creating") /\ Shows("uploading")
      /\ UNCHANGED <<lane, cursor, sent>>
  BY DEF Begin
<1>2. /\ phase' \in [Runs -> ManagerPhases] /\ phase'[r] = "creating"
      /\ \A q \in Runs \ {r} : phase'[q] = phase[q]
      /\ shown' \in Shown
  BY <1>1, GoesFacts, ShowsFacts DEF ManagerPhases, Shown
<1>3. QED
  BY <1>1, <1>2, NoPartMoves DEF Early

(* A run that does not send parts ends, whatever has happened.             *)
LEMMA EndsFacts ==
    ASSUME TransferInv, NEW r \in Runs, Ends(r)
    PROVE  /\ phase' \in [Runs -> ManagerPhases]
           /\ phase'[r] = IF phase[r] = "parts" THEN "broken" ELSE "ended"
           /\ \A q \in Runs \ {r} : phase'[q] = phase[q]
           /\ shown' \in {"cancelled", "failed", "dismissed"}
  BY DEF Ends, Goes, Shows, TransferInv, ManagerTypeOK, ManagerPhases

LEMMA FailsTransfer ==
    ASSUME TransferInv, NEW r \in Runs, Fails(r)
    PROVE  TransferInv'
<1>1. phase[r] \notin {"parts", "broken"} /\ Ends(r) /\ UNCHANGED <<lane, cursor, sent>>
  BY DEF Fails
<1>2. QED
  BY <1>1, EndsFacts, NoPartMoves DEF Shown

LEMMA EarlyTransfer ==
    ASSUME TransferInv, NEW r \in Runs,
           Conflict(r) \/ Confirm(r) \/ Created(r) \/ BlobSent(r)
    PROVE  TransferInv'
<1>1. /\ phase[r] \in Early
      /\ \E next \in {"confirm", "again", "blob", "presign", "completing"} : Goes(r, next)
      /\ UNCHANGED <<lane, cursor, sent>>
      /\ UNCHANGED shown \/ Shows("completing")
  BY DEF Conflict, Confirm, Created, BlobSent, Early, itemVars
<1>2. PICK next \in {"confirm", "again", "blob", "presign", "completing"} : Goes(r, next)
  BY <1>1
<1>3. /\ phase' \in [Runs -> ManagerPhases] /\ phase'[r] = next
      /\ \A q \in Runs \ {r} : phase'[q] = phase[q]
  BY <1>2, GoesFacts DEF ManagerPhases
<1>4. shown' \in Shown
  BY <1>1, ShowsFacts DEF Shown, TransferInv, ManagerTypeOK
<1>5. QED
  BY <1>1, <1>2, <1>3, <1>4, NoPartMoves DEF Early

LEMMA CompletedTransfer ==
    ASSUME TransferInv, NEW r \in Runs, Completed(r)
    PROVE  TransferInv'
<1>1. /\ phase[r] = "completing" /\ Goes(r, "ended") /\ Shows("completed")
      /\ UNCHANGED <<lane, cursor, sent>>
  BY DEF Completed
<1>2. /\ phase' \in [Runs -> ManagerPhases] /\ phase'[r] = "ended"
      /\ \A q \in Runs \ {r} : phase'[q] = phase[q]
      /\ shown' \in Shown
  BY <1>1, GoesFacts, ShowsFacts DEF ManagerPhases, Shown
<1>3. QED
  BY <1>1, <1>2, NoPartMoves

(* The user and the server do not touch what a run has sent.               *)
LEMMA OutsideTransfer ==
    ASSUME TransferInv, UNCHANGED <<phase, lane, cursor, sent>>, shown' \in Shown
    PROVE  TransferInv'
  BY NoPartMoves DEF TransferInv, ManagerTypeOK

(* The workers take the first parts of a batch.                            *)
LEMMA PresignedTransfer ==
    ASSUME TransferInv, NEW r \in Runs, Presigned(r)
    PROVE  TransferInv'
<1> DEFINE c == cursor[r]
           n == AtMost(Workers, BatchEnd(c) - c + 1)
<1>1. /\ phase[r] = "presign"
      /\ lane' = [lane EXCEPT ![r] = [w \in Lanes |->
                    IF w <= n THEN [part |-> c + w - 1, try |-> 1] ELSE NoPart]]
      /\ cursor' = [cursor EXCEPT ![r] = c + n]
      /\ Goes(r, "parts")
      /\ shown' = shown /\ sent' = sent
  BY DEF Presigned, itemVars
<1>2. c \in 1..Parts
  BY <1>1 DEF TransferInv, LanesRun, ManagerTypeOK
<1>3. /\ n \in 1..Workers /\ c + n \in 2..(Parts + 1)
      /\ \A w \in Lanes : w <= n => c + w - 1 \in 1..Parts
  <2>1. BatchEnd(c) \in c..Parts
    BY <1>2, BatchEndFacts
  <2>2. QED
    BY <1>2, <2>1, ManagerConstants DEF AtMost, Lanes
<1> HIDE DEF c, n
<1>4. /\ phase' \in [Runs -> ManagerPhases] /\ phase'[r] = "parts"
      /\ \A q \in Runs \ {r} : phase'[q] = phase[q]
  BY <1>1, GoesFacts DEF ManagerPhases
<1>5. /\ \A q \in Runs \ {r} : lane'[q] = lane[q] /\ cursor'[q] = cursor[q]
      /\ \A w \in Lanes :
            lane'[r][w] = IF w <= n THEN [part |-> c + w - 1, try |-> 1] ELSE NoPart
      /\ cursor'[r] = c + n
  BY <1>1 DEF TransferInv, ManagerTypeOK
<1>6. ManagerTypeOK'
  <2>1. [w \in Lanes |-> IF w <= n THEN [part |-> c + w - 1, try |-> 1] ELSE NoPart]
          \in [Lanes -> {NoPart} \cup [part : 1..Parts, try : Nat]]
    BY <1>3
  <2>2. lane' \in [Runs -> [Lanes -> {NoPart} \cup [part : 1..Parts, try : Nat]]]
    BY <1>1, <2>1 DEF TransferInv, ManagerTypeOK
  <2>3. cursor' \in [Runs -> 1..(Parts + 1)]
    BY <1>1, <1>3 DEF TransferInv, ManagerTypeOK
  <2>4. QED
    BY <1>1, <1>4, <2>2, <2>3 DEF TransferInv, ManagerTypeOK
<1>7. LanesRun' /\ AllTaken'
  BY <1>4, <1>5 DEF TransferInv, LanesRun, AllTaken
<1>8. ASSUME NEW i \in 1..(cursor'[r] - 1)
      PROVE  i \in sent'[r] \/ \E w \in Lanes : lane'[r][w].part = i
  <2>1. CASE i < c
    <3>1. i \in sent[r] \/ \E w \in Lanes : lane[r][w].part = i
      BY <1>1, <1>2, <2>1 DEF TransferInv, PartsAccountedFor, c
    <3>2. \A w \in Lanes : lane[r][w].part # i
      BY <1>1 DEF TransferInv, LanesRun, NoPart
    <3>3. QED
      BY <1>1, <3>1, <3>2
  <2>2. CASE i >= c
    <3>1. i - c + 1 \in Lanes /\ i - c + 1 <= n
      BY <1>2, <1>3, <1>5, <2>2, ManagerConstants DEF Lanes
    <3>2. PICK w \in Lanes : w = i - c + 1
      BY <3>1
    <3>3. lane'[r][w] = [part |-> c + w - 1, try |-> 1] /\ c + w - 1 = i
      BY <1>2, <1>5, <3>1, <3>2
    <3>4. QED
      BY <3>3
  <2>3. QED
    BY <1>2, <2>1, <2>2
<1>9. PartsAccountedFor'
  BY <1>1, <1>4, <1>5, <1>8 DEF TransferInv, PartsAccountedFor
<1>10. QED
  BY <1>6, <1>7, <1>9 DEF TransferInv

(* Whoever sends a part is a worker of a run that waits or has failed.     *)
LEMMA SendingRun ==
    ASSUME TransferInv, NEW r \in Runs, NEW w \in Lanes, lane[r][w] # NoPart
    PROVE  /\ phase[r] \in {"parts", "broken"}
           /\ lane[r][w] \in [part : 1..Parts, try : Nat]
  BY DEF TransferInv, ManagerTypeOK, LanesRun

(* A part that arrives is sent, and the next of its batch is taken.        *)
LEMMA PartSentTransfer ==
    ASSUME TransferInv, NEW r \in Runs, NEW w \in Lanes, PartSent(r, w)
    PROVE  TransferInv' /\ phase'[r] \in {"parts", "broken", "presign", "completing"}
<1> DEFINE part == lane[r][w].part
           more == cursor[r] <= BatchEnd(part)
<1>1. /\ sent' = [sent EXCEPT ![r] = @ \cup {part}]
      /\ lane' = [lane EXCEPT ![r][w] = NextPart(r, part)]
      /\ Advance(r, part)
      /\ Shows("uploading")
      /\ Awaited(r)
      /\ lane[r][w] # NoPart
  BY DEF PartSent
<1>2. part \in 1..Parts /\ phase[r] \in {"parts", "broken"} /\ cursor[r] \in 1..(Parts + 1)
  BY <1>1, SendingRun DEF TransferInv, ManagerTypeOK
<1>3. BatchEnd(part) \in 1..Parts
  BY <1>2, BatchEndFacts
<1>4. /\ \A q \in Runs \ {r} : /\ lane'[q] = lane[q] /\ cursor'[q] = cursor[q]
                               /\ sent'[q] = sent[q]
      /\ \A v \in Lanes \ {w} : lane'[r][v] = lane[r][v]
      /\ lane'[r][w] = IF more THEN [part |-> cursor[r], try |-> 1] ELSE NoPart
      /\ cursor'[r] = IF more THEN cursor[r] + 1 ELSE cursor[r]
      /\ sent'[r] = sent[r] \cup {part}
  BY <1>1 DEF TransferInv, ManagerTypeOK, NextPart, Advance
<1>5. more => cursor[r] \in 1..Parts
  BY <1>2, <1>3, ManagerConstants
<1>6. lane'[r][w] \in {NoPart} \cup [part : 1..Parts, try : Nat]
  BY <1>4, <1>5
<1>7. cursor'[r] \in 1..(Parts + 1)
  BY <1>2, <1>4, <1>5, ManagerConstants
<1> HIDE DEF part, more
<1>8. /\ lane' \in [Runs -> [Lanes -> {NoPart} \cup [part : 1..Parts, try : Nat]]]
      /\ cursor' \in [Runs -> 1..(Parts + 1)]
      /\ sent' \in [Runs -> SUBSET (1..Parts)]
      /\ shown' \in Shown
  <2>1. cursor' \in [Runs -> 1..(Parts + 1)]
    BY <1>1, <1>4, <1>7 DEF Advance, TransferInv, ManagerTypeOK
  <2>2. sent' \in [Runs -> SUBSET (1..Parts)]
    BY <1>1, <1>2 DEF TransferInv, ManagerTypeOK
  <2>3. NextPart(r, part) \in {NoPart} \cup [part : 1..Parts, try : Nat]
    BY <1>1, <1>6 DEF TransferInv, ManagerTypeOK
  <2>4. lane' \in [Runs -> [Lanes -> {NoPart} \cup [part : 1..Parts, try : Nat]]]
    BY <1>1, <2>3 DEF TransferInv, ManagerTypeOK
  <2>5. shown' \in Shown
    BY <1>1, ShowsFacts DEF Shown
  <2>6. QED
    BY <2>1, <2>2, <2>4, <2>5
<1>9. ASSUME phase[r] = "parts", NEW i \in 1..(cursor'[r] - 1)
      PROVE  i \in sent'[r] \/ \E v \in Lanes : lane'[r][v].part = i
  <2>1. CASE i = cursor[r]
    <3>1. lane'[r][w].part = i
      BY <1>2, <1>4, <1>9, <2>1
    <3>2. QED
      BY <3>1
  <2>2. CASE i # cursor[r]
    <3>1. i \in 1..(cursor[r] - 1)
      BY <1>2, <1>4, <1>9, <2>2
    <3>2. i \in sent[r] \/ \E v \in Lanes : lane[r][v].part = i
      BY <1>9, <3>1 DEF TransferInv, PartsAccountedFor
    <3>3. QED
      BY <1>4, <3>2 DEF part
  <2>3. QED
    BY <2>1, <2>2
<1>10. CASE phase[r] = "broken"
  <2>1. phase' = phase
    BY <1>1, <1>10 DEF Awaited
  <2>2. ManagerTypeOK'
    BY <1>8, <2>1 DEF TransferInv, ManagerTypeOK
  <2>3. LanesRun' /\ AllTaken'
    BY <1>4, <1>10, <2>1 DEF TransferInv, LanesRun, AllTaken
  <2>4. PartsAccountedFor'
    BY <1>4, <1>10, <2>1 DEF TransferInv, PartsAccountedFor
  <2>5. QED
    BY <1>10, <2>1, <2>2, <2>3, <2>4 DEF TransferInv
<1>11. CASE phase[r] = "parts"
  <2>1. PICK next \in {"parts", "presign", "completing"} :
           /\ phase' = [phase EXCEPT ![r] = next]
           /\ next # "parts" => \A v \in Lanes : lane'[r][v] = NoPart
           /\ next = "presign" => cursor'[r] <= Parts
           /\ next = "completing" => ~ cursor'[r] <= Parts
    <3>1. CASE \E v \in Lanes : lane'[r][v] # NoPart
      <4>1. phase' = [phase EXCEPT ![r] = "parts"]
        BY <1>1, <1>11, <3>1 DEF Awaited, TransferInv, ManagerTypeOK
      <4>2. QED
        BY <4>1
    <3>2. CASE /\ \A v \in Lanes : lane'[r][v] = NoPart
               /\ cursor'[r] <= Parts
      <4>1. phase' = [phase EXCEPT ![r] = "presign"]
        BY <1>1, <1>11, <3>2 DEF Awaited, Goes
      <4>2. QED
        BY <3>2, <4>1
    <3>3. CASE /\ \A v \in Lanes : lane'[r][v] = NoPart
               /\ ~ cursor'[r] <= Parts
      <4>1. phase' = [phase EXCEPT ![r] = "completing"]
        BY <1>1, <1>11, <3>3 DEF Awaited, Goes
      <4>2. QED
        BY <3>3, <4>1
    <3>4. QED
      BY <3>1, <3>2, <3>3
  <2>2. /\ phase' \in [Runs -> ManagerPhases] /\ phase'[r] = next
        /\ \A q \in Runs \ {r} : phase'[q] = phase[q]
    BY <2>1 DEF TransferInv, ManagerTypeOK, ManagerPhases
  <2>3. ManagerTypeOK'
    BY <1>8, <2>2 DEF ManagerTypeOK
  <2>4. LanesRun'
    BY <1>4, <2>1, <2>2 DEF TransferInv, LanesRun
  <2>5. AllTaken'
    BY <1>4, <1>7, <2>1, <2>2, ManagerConstants DEF TransferInv, AllTaken
  <2>6. PartsAccountedFor'
    BY <1>4, <1>9, <1>11, <2>2 DEF TransferInv, PartsAccountedFor
  <2>7. QED
    BY <2>1, <2>2, <2>3, <2>4, <2>5, <2>6 DEF TransferInv
<1>12. QED
  BY <1>2, <1>10, <1>11

(* Another attempt at the same part.                                       *)
LEMMA PartRetriedTransfer ==
    ASSUME TransferInv, NEW r \in Runs, NEW w \in Lanes, PartRetried(r, w)
    PROVE  TransferInv'
<1>1. /\ lane[r][w] # NoPart
      /\ lane' = [lane EXCEPT ![r][w].try = @ + 1]
      /\ Shows("retrying")
      /\ UNCHANGED <<phase, cursor, sent>>
  BY DEF PartRetried
<1>2. phase[r] \in {"parts", "broken"} /\ lane[r][w] \in [part : 1..Parts, try : Nat]
  BY <1>1, SendingRun
<1>3. [lane[r][w] EXCEPT !.try = @ + 1] \in [part : 1..Parts, try : Nat]
  BY <1>2
<1>4. /\ \A q \in Runs \ {r} : lane'[q] = lane[q]
      /\ \A v \in Lanes : lane'[r][v].part = lane[r][v].part
  BY <1>1, <1>2 DEF TransferInv, ManagerTypeOK
<1>5. lane' \in [Runs -> [Lanes -> {NoPart} \cup [part : 1..Parts, try : Nat]]]
  <2>1. lane' = [lane EXCEPT ![r][w] = [lane[r][w] EXCEPT !.try = @ + 1]]
    BY <1>1 DEF TransferInv, ManagerTypeOK
  <2>2. QED
    BY <1>3, <2>1 DEF TransferInv, ManagerTypeOK
<1>6. ManagerTypeOK'
  BY <1>1, <1>5, ShowsFacts DEF TransferInv, ManagerTypeOK, Shown
<1>7. LanesRun' /\ AllTaken'
  BY <1>1, <1>2, <1>4 DEF TransferInv, LanesRun, AllTaken
<1>8. PartsAccountedFor'
  BY <1>1, <1>4 DEF TransferInv, PartsAccountedFor
<1>9. QED
  BY <1>6, <1>7, <1>8 DEF TransferInv

(* A run whose worker throws is broken, or was before.                     *)
LEMMA PartFailsTransfer ==
    ASSUME TransferInv, NEW r \in Runs, NEW w \in Lanes, PartFails(r, w)
    PROVE  TransferInv'
<1>1. /\ lane[r][w] # NoPart
      /\ lane' = [lane EXCEPT ![r][w] = NoPart]
      /\ UNCHANGED <<cursor, sent>>
      /\ IF phase[r] = "parts" THEN Ends(r) ELSE UNCHANGED <<shown, control, phase>>
  BY DEF PartFails
<1>2. phase[r] \in {"parts", "broken"}
  BY <1>1, SendingRun
<1>3. /\ phase' \in [Runs -> ManagerPhases] /\ phase'[r] = "broken"
      /\ \A q \in Runs \ {r} : phase'[q] = phase[q]
      /\ shown' \in Shown
  BY <1>1, <1>2, EndsFacts DEF TransferInv, ManagerTypeOK, Shown
<1>4. /\ lane' \in [Runs -> [Lanes -> {NoPart} \cup [part : 1..Parts, try : Nat]]]
      /\ \A q \in Runs \ {r} : lane'[q] = lane[q]
  BY <1>1 DEF TransferInv, ManagerTypeOK
<1>5. ManagerTypeOK'
  BY <1>1, <1>3, <1>4 DEF TransferInv, ManagerTypeOK
<1>6. LanesRun' /\ AllTaken'
  BY <1>1, <1>3, <1>4 DEF TransferInv, LanesRun, AllTaken
<1>7. PartsAccountedFor'
  BY <1>1, <1>3, <1>4 DEF TransferInv, PartsAccountedFor
<1>8. QED
  BY <1>5, <1>6, <1>7 DEF TransferInv

-----------------------------------------------------------------------------
LEMMA TransferInit == ManagerInit => TransferInv
<1> SUFFICES ASSUME ManagerInit
             PROVE  TransferInv
  OBVIOUS
<1>1. ManagerTypeOK
  <2>1. [w \in Lanes |-> NoPart] \in [Lanes -> {NoPart} \cup [part : 1..Parts, try : Nat]]
    OBVIOUS
  <2>2. lane \in [Runs -> [Lanes -> {NoPart} \cup [part : 1..Parts, try : Nat]]]
    BY <2>1 DEF ManagerInit
  <2>3. cursor \in [Runs -> 1..(Parts + 1)]
    BY ManagerConstants DEF ManagerInit
  <2>4. QED
    BY <2>2, <2>3 DEF ManagerInit, ManagerTypeOK, Shown, ManagerPhases
<1>2. LanesRun /\ PartsAccountedFor /\ AllTaken
  BY DEF ManagerInit, LanesRun, PartsAccountedFor, AllTaken
<1>3. QED
  BY <1>1, <1>2 DEF TransferInv

(* What the user and the server do is not sending.                         *)
LEMMA OutsideFacts ==
    ASSUME TransferInv,
           Cancel \/ Dismiss \/ \E r \in Runs : Opens(r) \/ Accepts(r) \/ Closes(r)
    PROVE  /\ UNCHANGED <<phase, lane, cursor, sent>>
           /\ shown' \in Shown
           /\ shown' \in {"cancelled", "dismissed"} \/ UNCHANGED <<shown, aborted>>
  BY DEF Cancel, Dismiss, Opens, Accepts, Closes, Becomes, Shows, itemVars, runVars,
     TransferInv, ManagerTypeOK, Shown

LEMMA TransferStep == TransferInv /\ [ManagerNext]_managerVars => TransferInv'
<1> SUFFICES ASSUME TransferInv, [ManagerNext]_managerVars
             PROVE  TransferInv'
  OBVIOUS
<1>1. CASE UNCHANGED managerVars
  BY <1>1, OutsideTransfer DEF managerVars, itemVars, runVars, TransferInv, ManagerTypeOK
<1>2. ASSUME NEW r \in Runs, RunStep(r)
      PROVE  TransferInv'
  BY <1>2, FailsTransfer, EarlyTransfer, PresignedTransfer, CompletedTransfer,
     PartSentTransfer, PartRetriedTransfer, PartFailsTransfer DEF RunStep
<1>3. CASE Enqueue \/ Retry
  <2>1. 1 \in Runs
    BY ManagerConstants DEF Runs
  <2>2. QED
    BY <1>3, <2>1, BeginTransfer DEF Enqueue, Retry
<1>4. CASE Cancel \/ Dismiss \/ \E r \in Runs : Opens(r) \/ Accepts(r) \/ Closes(r)
  BY <1>4, OutsideFacts, OutsideTransfer
<1>5. QED
  BY <1>1, <1>2, <1>3, <1>4 DEF ManagerNext

LEMMA TransferInvariance == ManagerSpec => []TransferInv
  BY TransferInit, TransferStep, PTL DEF ManagerSpec

-----------------------------------------------------------------------------
(* Whatever is retried and whichever batches it takes, a complete call of  *)
(* a multipart upload comes after all of its parts.                        *)
THEOREM UploadsNameAllParts == ManagerSpec => []CompleteNamesAllParts
<1>1. ASSUME TransferInv, NEW r \in Runs, phase[r] = "completing", cursor[r] > 1
      PROVE  sent[r] = 1..Parts
  <2>1. cursor[r] = Parts + 1 /\ sent[r] \subseteq 1..Parts
    BY <1>1, ManagerConstants DEF TransferInv, AllTaken, ManagerTypeOK
  <2>2. ASSUME NEW i \in 1..Parts
        PROVE  i \in sent[r]
    <3>1. \A w \in Lanes : lane[r][w].part # i
      BY <1>1 DEF TransferInv, LanesRun, NoPart
    <3>2. i \in 1..(cursor[r] - 1)
      BY <2>1, ManagerConstants
    <3>3. QED
      BY <1>1, <3>1, <3>2 DEF TransferInv, PartsAccountedFor
  <2>3. QED
    BY <2>1, <2>2
<1>2. TransferInv => CompleteNamesAllParts
  BY <1>1 DEF CompleteNamesAllParts
<1>3. QED
  BY <1>2, TransferInvariance, PTL

(* A run that goes on is what an item at work needs.                       *)
Working(r) == Alive(r) \/ (phase[r] = "broken" /\ Live(r))

(* No item of the drawer is shown at work when nothing works at it.        *)
THEOREM UnfinishedItemsRun == ManagerSpec => []UnfinishedIsRunning
<1>1. ManagerInit => UnfinishedIsRunning
  BY DEF ManagerInit, UnfinishedIsRunning, AtWork
<1>2. TransferInv /\ UnfinishedIsRunning /\ [ManagerNext]_managerVars
        => UnfinishedIsRunning'
  <2> SUFFICES ASSUME TransferInv, UnfinishedIsRunning, [ManagerNext]_managerVars
               PROVE  shown' \notin AtWork \/ \E r \in Runs : Working(r)'
    BY DEF UnfinishedIsRunning, Working
  <2>1. ASSUME UNCHANGED <<shown, phase, aborted>>
        PROVE  shown' \notin AtWork \/ \E r \in Runs : Working(r)'
    BY <2>1 DEF UnfinishedIsRunning, Working, Alive, Live
  <2>2. ASSUME NEW r \in Runs, Begin(r)
        PROVE  Working(r)'
    <3>1. phase'[r] = "creating"
      BY <2>2, GoesFacts DEF Begin, ManagerPhases
    <3>2. QED
      BY <3>1 DEF Working, Alive
  <2>3. ASSUME NEW r \in Runs, Ends(r)
        PROVE  shown' \notin AtWork
    BY <2>3, EndsFacts DEF AtWork
  <2>4. ASSUME NEW r \in Runs,
               Conflict(r) \/ Confirm(r) \/ Created(r) \/ BlobSent(r) \/ Presigned(r)
        PROVE  Working(r)'
    <3>1. PICK next \in {"confirm", "again", "blob", "presign", "completing", "parts"} :
             Goes(r, next)
      BY <2>4 DEF Conflict, Confirm, Created, BlobSent, Presigned
    <3>2. phase'[r] = next
      BY <3>1, GoesFacts DEF ManagerPhases
    <3>3. QED
      BY <3>2 DEF Working, Alive
  <2>5. ASSUME NEW r \in Runs, Completed(r)
        PROVE  shown' \notin AtWork
    BY <2>5, ShowsFacts DEF Completed, AtWork, Shown
  <2>6. ASSUME NEW r \in Runs, NEW w \in Lanes, PartSent(r, w)
        PROVE  Working(r)'
    <3>1. phase'[r] \in {"parts", "broken", "presign", "completing"}
      BY <2>6, PartSentTransfer
    <3>2. Live(r)'
      BY <2>6 DEF PartSent, Live
    <3>3. QED
      BY <3>1, <3>2 DEF Working, Alive
  <2>7. ASSUME NEW r \in Runs, NEW w \in Lanes, PartRetried(r, w)
        PROVE  Working(r)'
    BY <2>7, SendingRun DEF PartRetried, Live, Working, Alive
  <2>8. ASSUME NEW r \in Runs, NEW w \in Lanes, PartFails(r, w)
        PROVE  shown' \notin AtWork \/ \E q \in Runs : Working(q)'
    <3>1. Ends(r) \/ UNCHANGED <<shown, phase, aborted>>
      BY <2>8 DEF PartFails
    <3>2. QED
      BY <3>1, <2>1, <2>3
  <2>9. CASE Cancel \/ Dismiss \/ \E r \in Runs : Opens(r) \/ Accepts(r) \/ Closes(r)
    <3>1. shown' \in {"cancelled", "dismissed"} \/ UNCHANGED <<shown, phase, aborted>>
      BY <2>9, OutsideFacts
    <3>2. QED
      BY <3>1, <2>1 DEF AtWork
  <2>10. ASSUME NEW r \in Runs, RunStep(r)
         PROVE  shown' \notin AtWork \/ \E q \in Runs : Working(q)'
    BY <2>10, <2>3, <2>4, <2>5, <2>6, <2>7, <2>8 DEF RunStep, Fails
  <2>11. CASE UNCHANGED managerVars
    BY <2>11, <2>1 DEF managerVars, itemVars, runVars
  <2>12. CASE Enqueue \/ Retry
    <3>1. 1 \in Runs
      BY ManagerConstants DEF Runs
    <3>2. QED
      BY <2>12, <3>1, <2>2 DEF Enqueue, Retry
  <2>13. QED
    BY <2>9, <2>10, <2>11, <2>12 DEF ManagerNext
<1>3. QED
  BY <1>1, <1>2, TransferInvariance, PTL DEF ManagerSpec

-----------------------------------------------------------------------------
(* How far the parts in flight exceed what the documents promise: a run    *)
(* that has failed keeps all of its workers but those that threw.          *)
FailedRuns == {r \in Runs : phase[r] = "broken"}

OneAlive == \A q \in Runs, r \in Runs : Alive(q) /\ Alive(r) => q = r

(* A retry finds no run that goes on.                                      *)
FailedRests == shown \in {"none", "failed"} => \A r \in Runs : ~ Alive(r)

OneThrew ==
    \A r \in FailedRuns : \E w \in Lanes : lane[r][w] = NoPart

FloodInv == OneAlive /\ FailedRests /\ OneThrew

(* No step but Begin makes a run go on, and the item fails with the run.   *)
LEMMA OneRunSteps ==
    ASSUME TransferInv, NEW r \in Runs, RunStep(r)
    PROVE  /\ phase' \in [Runs -> ManagerPhases]
           /\ \A q \in Runs \ {r} : phase'[q] = phase[q]
           /\ Alive(r)' => Alive(r)
           /\ \/ Alive(r)' /\ shown' = shown
              \/ ~ Alive(r)'
              \/ shown' \notin {"none", "failed"}
           /\ \/ Alive(r)
              \/ shown' = shown
              \/ shown' \notin {"none", "failed"}
<1>1. CASE Fails(r)
  BY <1>1, EndsFacts DEF Fails, Alive
<1>2. CASE Conflict(r) \/ Confirm(r) \/ Created(r) \/ BlobSent(r) \/ Presigned(r)
  <2>1. PICK next \in {"confirm", "again", "blob", "presign", "completing", "parts"} :
           Goes(r, next)
    BY <1>2 DEF Conflict, Confirm, Created, BlobSent, Presigned
  <2>2. /\ phase' \in [Runs -> ManagerPhases] /\ phase'[r] = next
        /\ \A q \in Runs \ {r} : phase'[q] = phase[q]
    BY <2>1, GoesFacts DEF ManagerPhases
  <2>3. Alive(r)
    BY <1>2 DEF Conflict, Confirm, Created, BlobSent, Presigned, Alive
  <2>4. shown' = shown \/ Shows("completing")
    BY <1>2 DEF Conflict, Confirm, Created, BlobSent, Presigned, itemVars
  <2>5. shown' = shown \/ shown' \notin {"none", "failed"}
    BY <2>4, ShowsFacts DEF Shown
  <2>6. Alive(r)'
    BY <2>2 DEF Alive
  <2>7. QED
    BY <2>2, <2>3, <2>5, <2>6
<1>3. CASE Completed(r)
  <2>1. Goes(r, "ended") /\ phase[r] = "completing"
    BY <1>3 DEF Completed
  <2>2. /\ phase' \in [Runs -> ManagerPhases] /\ phase'[r] = "ended"
        /\ \A q \in Runs \ {r} : phase'[q] = phase[q]
    BY <2>1, GoesFacts DEF ManagerPhases
  <2>3. QED
    BY <2>1, <2>2 DEF Alive
<1>4. ASSUME NEW w \in Lanes, PartSent(r, w)
      PROVE  /\ phase' \in [Runs -> ManagerPhases]
             /\ \A q \in Runs \ {r} : phase'[q] = phase[q]
             /\ Alive(r)' => Alive(r)
             /\ shown' \notin {"none", "failed"}
  <2>1. TransferInv' /\ phase[r] \in {"parts", "broken"}
    BY <1>4, PartSentTransfer, SendingRun DEF PartSent
  <2>2. Awaited(r) /\ Shows("uploading")
    BY <1>4 DEF PartSent
  <2>3. /\ phase[r] = "broken" => phase' = phase
        /\ \A q \in Runs \ {r} : phase'[q] = phase[q]
    BY <2>1, <2>2 DEF Awaited, Goes, TransferInv, ManagerTypeOK
  <2>4. shown' \notin {"none", "failed"}
    BY <2>2, ShowsFacts DEF Shown
  <2>5. QED
    BY <2>1, <2>3, <2>4 DEF Alive, TransferInv, ManagerTypeOK
<1>5. ASSUME NEW w \in Lanes, PartRetried(r, w)
      PROVE  phase' = phase /\ shown' \notin {"none", "failed"}
  BY <1>5, ShowsFacts DEF PartRetried, Shown
<1>6. ASSUME NEW w \in Lanes, PartFails(r, w)
      PROVE  /\ phase' \in [Runs -> ManagerPhases]
             /\ \A q \in Runs \ {r} : phase'[q] = phase[q]
             /\ ~ Alive(r)'
             /\ Alive(r) \/ shown' = shown
  <2>1. phase[r] \in {"parts", "broken"}
    BY <1>6, SendingRun DEF PartFails
  <2>2. CASE phase[r] = "parts"
    BY <1>6, <2>2, EndsFacts DEF PartFails, Alive
  <2>3. CASE phase[r] = "broken"
    BY <1>6, <2>3 DEF PartFails, Alive, TransferInv, ManagerTypeOK
  <2>4. QED
    BY <2>1, <2>2, <2>3
<1>7. phase \in [Runs -> ManagerPhases]
  BY DEF TransferInv, ManagerTypeOK
<1>8. CASE \E w \in Lanes : PartSent(r, w)
  BY <1>4, <1>8
<1>9. CASE \E w \in Lanes : PartRetried(r, w)
  BY <1>5, <1>7, <1>9 DEF Alive
<1>10. CASE \E w \in Lanes : PartFails(r, w)
  BY <1>6, <1>10
<1>11. QED
  BY <1>1, <1>2, <1>3, <1>8, <1>9, <1>10 DEF RunStep

(* The worker that threw leaves its place empty for good.                  *)
LEMMA ThrownStays ==
    ASSUME TransferInv, OneThrew, NEW r \in Runs, RunStep(r)
    PROVE  OneThrew'
<1> SUFFICES ASSUME NEW q \in Runs, phase'[q] = "broken"
             PROVE  \E w \in Lanes : lane'[q][w] = NoPart
  BY DEF OneThrew, FailedRuns
<1>1. phase' \in [Runs -> ManagerPhases] /\ \A p \in Runs \ {r} : phase'[p] = phase[p]
  BY OneRunSteps
<1>2. CASE phase[q] # "broken"
  <2>1. q = r
    BY <1>1, <1>2
  <2>2. PICK w \in Lanes : PartFails(r, w)
    <3>1. ~ Fails(r)
      BY <1>2, <2>1, EndsFacts DEF Fails
    <3>2. ~ (Conflict(r) \/ Confirm(r) \/ Created(r) \/ BlobSent(r) \/ Presigned(r)
               \/ Completed(r))
      BY <2>1 DEF Conflict, Confirm, Created, BlobSent, Presigned, Completed, Goes,
         TransferInv, ManagerTypeOK
    <3>3. ASSUME NEW w \in Lanes, PartSent(r, w) \/ PartRetried(r, w)
          PROVE  FALSE
      BY <1>2, <2>1, <3>3 DEF PartSent, PartRetried, Awaited, Goes, TransferInv,
         ManagerTypeOK
    <3>4. QED
      BY <3>1, <3>2, <3>3 DEF RunStep
  <2>3. lane'[r][w] = NoPart
    BY <2>2 DEF PartFails, TransferInv, ManagerTypeOK
  <2>4. QED
    BY <2>1, <2>3
<1>3. CASE phase[q] = "broken"
  <2>1. PICK v \in Lanes : lane[q][v] = NoPart
    BY <1>3 DEF OneThrew, FailedRuns
  <2>2. lane'[q][v] = NoPart
    <3>1. CASE UNCHANGED lane
      BY <2>1, <3>1
    <3>2. CASE Presigned(r)
      BY <1>3, <2>1, <3>2 DEF Presigned, TransferInv, ManagerTypeOK
    <3>3. ASSUME NEW w \in Lanes, PartSent(r, w) \/ PartRetried(r, w) \/ PartFails(r, w)
          PROVE  lane'[q][v] = NoPart
      <4>1. lane[r][w] # NoPart
        BY <3>3 DEF PartSent, PartRetried, PartFails
      <4>2. q # r \/ v # w
        BY <2>1, <4>1
      <4>3. \E x : lane' = [lane EXCEPT ![r][w] = x]
        BY <3>3 DEF PartSent, PartRetried, PartFails
      <4>4. QED
        BY <2>1, <4>2, <4>3 DEF TransferInv, ManagerTypeOK
    <3>4. QED
      BY <3>1, <3>2, <3>3 DEF RunStep, Fails, Conflict, Confirm, Created, BlobSent,
         Completed
  <2>3. QED
    BY <2>2
<1>4. QED
  BY <1>2, <1>3

LEMMA FloodStep ==
    TransferInv /\ FloodInv /\ [ManagerNext]_managerVars => FloodInv'
<1> SUFFICES ASSUME TransferInv, FloodInv, [ManagerNext]_managerVars
             PROVE  FloodInv'
  OBVIOUS
<1>1. ASSUME NEW r \in Runs, RunStep(r)
      PROVE  FloodInv'
  <2>1. /\ \A q \in Runs \ {r} : Alive(q)' => Alive(q)
        /\ Alive(r)' => Alive(r)
    BY <1>1, OneRunSteps DEF Alive
  <2>2. OneAlive'
    BY <2>1 DEF FloodInv, OneAlive
  <2>3. FailedRests'
    <3> SUFFICES ASSUME shown' \in {"none", "failed"}, NEW q \in Runs, Alive(q)'
                 PROVE  FALSE
      BY DEF FailedRests
    <3>1. CASE Alive(r)
      <4>1. q = r
        BY <2>1, <3>1 DEF FloodInv, OneAlive
      <4>2. shown' = shown
        BY <1>1, <4>1, OneRunSteps
      <4>3. QED
        BY <3>1, <4>2 DEF FloodInv, FailedRests
    <3>2. CASE ~ Alive(r)
      <4>1. shown' = shown
        BY <1>1, <3>2, OneRunSteps
      <4>2. QED
        BY <2>1, <4>1 DEF FloodInv, FailedRests
    <3>3. QED
      BY <3>1, <3>2
  <2>4. OneThrew'
    BY <1>1, ThrownStays DEF FloodInv
  <2>5. QED
    BY <2>2, <2>3, <2>4 DEF FloodInv
<1>2. ASSUME NEW r \in Runs, Begin(r), shown \in {"none", "failed"}
      PROVE  FloodInv'
  <2>1. /\ Goes(r, "creating") /\ Shows("uploading") /\ lane' = lane
    BY <1>2 DEF Begin
  <2>2. /\ phase'[r] = "creating"
        /\ \A q \in Runs \ {r} : phase'[q] = phase[q]
    BY <2>1, GoesFacts DEF ManagerPhases
  <2>3. shown' \notin {"none", "failed"}
    BY <2>1, ShowsFacts DEF Shown
  <2>4. \A q \in Runs \ {r} : ~ Alive(q)'
    BY <1>2, <2>2 DEF FloodInv, FailedRests, Alive
  <2>5. OneThrew'
    BY <2>1, <2>2 DEF FloodInv, OneThrew, FailedRuns
  <2>6. QED
    BY <2>3, <2>4, <2>5 DEF FloodInv, OneAlive, FailedRests
<1>3. CASE Enqueue \/ Retry
  <2>1. 1 \in Runs
    BY ManagerConstants DEF Runs
  <2>2. QED
    BY <1>2, <1>3, <2>1 DEF Enqueue, Retry
<1>4. ASSUME UNCHANGED <<phase, lane>>,
             shown' \in {"cancelled", "dismissed"} \/ shown' = shown
      PROVE  FloodInv'
  BY <1>4 DEF FloodInv, OneAlive, FailedRests, OneThrew, FailedRuns, Alive
<1>5. CASE Cancel \/ Dismiss \/ \E r \in Runs : Opens(r) \/ Accepts(r) \/ Closes(r)
  BY <1>4, <1>5, OutsideFacts
<1>6. CASE UNCHANGED managerVars
  BY <1>4, <1>6 DEF managerVars, itemVars, runVars
<1>7. QED
  BY <1>1, <1>3, <1>5, <1>6 DEF ManagerNext

LEMMA FloodInvariance == ManagerSpec => [](TransferInv /\ FloodInv)
<1>1. ManagerInit => FloodInv
  BY DEF ManagerInit, FloodInv, OneAlive, FailedRests, OneThrew, FailedRuns, Alive
<1>2. QED
  BY <1>1, FloodStep, TransferInvariance, PTL DEF ManagerSpec

(* An item has one run at a time that goes on: what works beside it is     *)
(* left of runs that have failed.                                          *)
THEOREM OneRunGoesOn == ManagerSpec => []OneAlive
<1>1. TransferInv /\ FloodInv => OneAlive
  BY DEF FloodInv
<1>2. QED
  BY <1>1, FloodInvariance, PTL

(* The parts of the run that goes on are at most Workers, and those of     *)
(* every failed run fewer, so with no failed run the limit of              *)
(* docs/architecture.md:79 holds.                                          *)
THEOREM FloodIsBounded ==
    ManagerSpec =>
        [](Cardinality(InFlight) <= Workers + (Workers - 1) * Cardinality(FailedRuns))
<1> DEFINE Sending == {r \in Runs : phase[r] = "parts"}
           Busy == FailedRuns \cup Sending
           Place == [r \in FailedRuns |->
                        <<r, CHOOSE w \in Lanes : lane[r][w] = NoPart>>]
           Left == {Place[r] : r \in FailedRuns}
<1>1. ASSUME TransferInv, FloodInv
      PROVE  Cardinality(InFlight) <= Workers + (Workers - 1) * Cardinality(FailedRuns)
  <2>1. IsFiniteSet(Runs) /\ IsFiniteSet(Lanes) /\ Cardinality(Lanes) = Workers
    BY ManagerConstants, FS_Interval DEF Runs, Lanes
  <2>2. IsFiniteSet(FailedRuns) /\ Cardinality(FailedRuns) \in Nat
    BY <2>1, FS_Subset, FS_CardinalityType DEF FailedRuns
  <2>3. /\ IsFiniteSet(Busy)
        /\ Cardinality(Busy) \in {Cardinality(FailedRuns), Cardinality(FailedRuns) + 1}
    <3>1. CASE Sending = {}
      BY <2>2, <3>1
    <3>2. ASSUME NEW s \in Sending
          PROVE  Sending = {s}
      BY <1>1, <3>2 DEF FloodInv, OneAlive, Alive
    <3>3. CASE Sending # {}
      <4>1. PICK s : Sending = {s}
        BY <3>2, <3>3
      <4>2. QED
        BY <2>2, <4>1, FS_AddElement
    <3>4. QED
      BY <3>1, <3>3
  <2>4. /\ IsFiniteSet(Busy \X Lanes)
        /\ Cardinality(Busy \X Lanes) = Cardinality(Busy) * Workers
    BY <2>1, <2>3, FS_Product
  <2>5. \A r \in FailedRuns :
           /\ Place[r][1] = r /\ Place[r][2] \in Lanes /\ Place[r] \in Busy \X Lanes
           /\ lane[r][Place[r][2]] = NoPart
    BY <1>1 DEF FloodInv, OneThrew
  <2>6. IsFiniteSet(Left) /\ Cardinality(Left) = Cardinality(FailedRuns)
    <3>1. Place \in Bijection(FailedRuns, Left)
      <4>1. Place \in [FailedRuns -> Left]
        OBVIOUS
      <4>2. ASSUME NEW q \in FailedRuns, NEW r \in FailedRuns, Place[q] = Place[r]
            PROVE  q = r
        BY <2>5, <4>2
      <4>3. \A x \in Left : \E r \in FailedRuns : Place[r] = x
        OBVIOUS
      <4> HIDE DEF Place, Left
      <4>4. QED
        BY <4>1, <4>2, <4>3 DEF Bijection, Injection, Surjection, IsInjective
    <3>2. ExistsBijection(FailedRuns, Left)
      BY <3>1 DEF ExistsBijection
    <3> HIDE DEF Left
    <3>3. QED
      BY <2>2, <3>2, FS_Bijection
  <2>7. InFlight \subseteq Busy \X Lanes
    BY <1>1 DEF InFlight, TransferInv, LanesRun, FailedRuns
  <2>8. Left \subseteq Busy \X Lanes /\ InFlight \cap Left = {}
    BY <2>5 DEF InFlight
  <2> HIDE DEF Left, Busy
  <2>9. IsFiniteSet(InFlight) /\ Cardinality(InFlight) \in Nat
    BY <2>4, <2>7, FS_Subset, FS_CardinalityType
  <2>10. /\ IsFiniteSet(InFlight \cup Left)
         /\ Cardinality(InFlight \cup Left) = Cardinality(InFlight) + Cardinality(FailedRuns)
    <3>1. Cardinality(InFlight \cap Left) = 0
      BY <2>8, FS_EmptySet
    <3>2. /\ IsFiniteSet(InFlight \cup Left)
          /\ Cardinality(InFlight \cup Left)
               = Cardinality(InFlight) + Cardinality(Left) - Cardinality(InFlight \cap Left)
      BY <2>6, <2>9, FS_Union
    <3>3. QED
      BY <2>2, <2>6, <2>9, <3>1, <3>2
  <2>11. Cardinality(InFlight) + Cardinality(FailedRuns) <= Cardinality(Busy) * Workers
    BY <2>4, <2>7, <2>8, <2>10, FS_Subset
  <2> DEFINE b == Cardinality(FailedRuns)
             n == Cardinality(InFlight)
  <2>12. n \in Nat /\ b \in Nat /\ Workers \in Nat \ {0}
    BY <2>2, <2>9, ManagerConstants
  <2>13. n + b <= b * Workers \/ n + b <= (b + 1) * Workers
    BY <2>3, <2>11
  <2> HIDE DEF b, n
  <2>14. (b + 1) * Workers = b * Workers + Workers /\ (Workers - 1) * b = b * Workers - b
    BY <2>12
  <2>15. b * Workers \in Nat
    BY <2>12
  <2>16. n <= Workers + (Workers - 1) * b
    BY <2>12, <2>13, <2>14, <2>15
  <2>17. QED
    BY <2>16 DEF b, n
<1>2. QED
  BY <1>1, FloodInvariance, PTL

(* docs/architecture.md:79 holds of an item as long as none of its runs    *)
(* has failed while it sent parts.                                         *)
THEOREM LimitHoldsUntilFailure ==
    ManagerSpec => [](FailedRuns = {} => PartsInFlightBounded)
<1>1. ASSUME Cardinality(InFlight) <= Workers + (Workers - 1) * Cardinality(FailedRuns),
             FailedRuns = {}
      PROVE  PartsInFlightBounded
  <2>1. Cardinality(FailedRuns) = 0
    BY <1>1, FS_EmptySet
  <2>2. (Workers - 1) * 0 = 0
    BY ManagerConstants
  <2>3. QED
    BY <1>1, <2>1, <2>2, ManagerConstants DEF PartsInFlightBounded
<1>2. QED
  BY <1>1, FloodIsBounded, PTL

-----------------------------------------------------------------------------
(* RANGES, PAGES AND PARTS                                                 *)

LEMMA RangesConstants ==
    /\ MaxSize \in Nat /\ MaxUpload \in Nat /\ MaxVersions \in Nat
    /\ BasePart \in Nat \ {0} /\ PartUnit \in Nat \ {0} /\ PartCount \in Nat \ {0}
  BY RangesAssumption

-----------------------------------------------------------------------------
(* PARTS                                                                   *)

(* The ceiling of n / d, by what it is for: so many pieces of d suffice    *)
(* for n, and one less does not.                                           *)
LEMMA CeilingFacts ==
    ASSUME NEW n \in Nat, NEW d \in Nat \ {0}
    PROVE  /\ CeilingOf(n, d) \in Nat
           /\ n <= CeilingOf(n, d) * d
           /\ (CeilingOf(n, d) - 1) * d < n
<1> DEFINE m == n + d - 1
           q == m \div d
<1>1. m \in Nat /\ q \in Nat
  OBVIOUS
<1>2. q * d <= m /\ m < q * d + d
  BY <1>1
<1> HIDE DEF q
<1>3. (q - 1) * d = q * d - d /\ q * d \in Nat
  BY <1>1
<1>4. n <= q * d /\ (q - 1) * d < n
  BY <1>1, <1>2, <1>3
<1>5. CeilingOf(n, d) = q
  BY DEF CeilingOf, q
<1>6. QED
  BY <1>1, <1>4, <1>5

(* A part is never smaller than the provider's limit on parts requires.    *)
LEMMA PartSizeFacts ==
    ASSUME NEW size \in Nat
    PROVE  /\ multipartPartSize(size) \in Nat \ {0}
           /\ multipartPartSize(size) >= BasePart
           /\ multipartPartSize(size) >= CeilingOf(size, PartCount)
<1> DEFINE needed == CeilingOf(size, PartCount)
           rounded == CeilingOf(needed, PartUnit) * PartUnit
<1>1. needed \in Nat
  BY CeilingFacts, RangesConstants
<1>2. CeilingOf(needed, PartUnit) \in Nat /\ needed <= rounded
  BY <1>1, CeilingFacts, RangesConstants
<1>3. rounded \in Nat
  BY <1>2, RangesConstants
<1>4. multipartPartSize(size) = IF needed > BasePart THEN rounded ELSE BasePart
  BY DEF multipartPartSize
<1> HIDE DEF needed, rounded
<1>5. QED
  BY <1>1, <1>2, <1>3, <1>4, RangesConstants DEF needed

(* The parts of any upload: no more than the provider takes, none empty,   *)
(* together the upload.                                                    *)
THEOREM PartsCover ==
    ASSUME NEW size \in Nat \ {0}
    PROVE  LET part == multipartPartSize(size)
               parts == CeilingOf(size, part)
           IN  /\ part >= BasePart
               /\ parts <= PartCount
               /\ (parts - 1) * part < size
               /\ size <= parts * part
<1> DEFINE part == multipartPartSize(size)
           parts == CeilingOf(size, part)
           needed == CeilingOf(size, PartCount)
<1>1. part \in Nat \ {0} /\ part >= BasePart /\ part >= needed
  BY PartSizeFacts
<1>2. needed \in Nat /\ size <= needed * PartCount
  BY CeilingFacts, RangesConstants
<1> HIDE DEF part
<1>3. parts \in Nat /\ size <= parts * part /\ (parts - 1) * part < size
  BY <1>1, CeilingFacts
<1> HIDE DEF parts, needed
<1>4. parts <= PartCount
  <2>1. needed * PartCount <= part * PartCount
    BY <1>1, <1>2, RangesConstants
  <2>2. (parts - 1) * part < PartCount * part
    <3>1. part * PartCount = PartCount * part /\ part * PartCount \in Nat
          /\ needed * PartCount \in Nat /\ (parts - 1) * part \in Int
      BY <1>1, <1>2, <1>3, RangesConstants
    <3>2. QED
      BY <1>2, <1>3, <2>1, <3>1
  <2>3. CASE parts > PartCount
    <3>1. PartCount <= parts - 1 /\ parts - 1 \in Nat
      BY <1>3, <2>3, RangesConstants
    <3>2. PartCount * part <= (parts - 1) * part
      BY <1>1, <3>1, RangesConstants
    <3>3. QED
      BY <1>1, <1>3, <2>2, <3>1, <3>2, RangesConstants
  <2>4. QED
    BY <1>3, <2>3, RangesConstants
<1>5. QED
  BY <1>1, <1>3, <1>4 DEF part, parts

-----------------------------------------------------------------------------
(* RANGES                                                                  *)

LEMMA HeaderFacts ==
    ASSUME NEW h \in Headers
    PROVE  /\ h.form \in {"none", "bad", "range"}
           /\ h.first \in Int /\ h.last \in Int
           /\ h.first = Unset \/ h.first >= 0
           /\ h.last = Unset \/ h.last >= 0
           /\ Unset = -1
  BY RangesConstants DEF Headers, Numbers, Unset

(* What parseRange makes of a header: the bytes that are wanted, if it     *)
(* names any, with the suffix of an empty file as the exception.           *)
THEOREM ParseFacts ==
    ASSUME NEW h \in Headers, NEW size \in Nat
    PROVE  LET span == parseRange(h, size)
           IN  \/ span.form = "none" /\ h.form = "none"
               \/ /\ span.form = "bad" /\ h.form # "none"
                  /\ h.form = "bad" \/ ~ Meaningful(h) \/ Wanted(h, size) = {}
                  /\ ~ (size = 0 /\ h.first = Unset /\ Meaningful(h))
               \/ /\ span.form = "range" /\ h.form = "range" /\ Meaningful(h)
                  /\ 0 <= span.start /\ span.start <= span.end /\ span.end < size
                  /\ Bytes(span) = Wanted(h, size)
                  /\ Wanted(h, size) # {}
               \/ /\ span.form = "range" /\ h.form = "range" /\ Meaningful(h)
                  /\ span.start > span.end /\ Wanted(h, size) = {}
                  /\ size = 0 /\ h.first = Unset
<1> DEFINE span == parseRange(h, size)
<1>1. /\ h.form \in {"none", "bad", "range"}
      /\ h.first \in Int /\ h.last \in Int
      /\ h.first = Unset \/ h.first >= 0
      /\ h.last = Unset \/ h.last >= 0
      /\ Unset = -1
  BY HeaderFacts
<1>2. CASE h.form = "none"
  BY <1>2 DEF parseRange, Plain
<1>3. CASE h.form = "bad"
  BY <1>3 DEF parseRange, Plain, Meaningful
<1>4. CASE h.form = "range" /\ h.first = Unset /\ h.last <= 0
  <2>1. span = Plain("bad")
    BY <1>4 DEF parseRange
  <2>2. ~ Meaningful(h)
    BY <1>1, <1>4 DEF Meaningful
  <2>3. QED
    BY <1>4, <2>1, <2>2 DEF Plain
<1>5. CASE h.form = "range" /\ h.first = Unset /\ h.last > 0
  <2>1. span = Span(size - Least(h.last, size), size - 1) /\ Meaningful(h)
    BY <1>1, <1>5 DEF parseRange, Meaningful
  <2>2. /\ span.form = "range" /\ span.end = size - 1
        /\ span.start = size - Least(h.last, size)
    BY <2>1 DEF Span
  <2>3. span.start = IF h.last < size THEN size - h.last ELSE 0
    BY <1>1, <2>2 DEF Least
  <2>4. Wanted(h, size) = {i \in 0..(size - 1) : i >= size - h.last}
    BY <1>5 DEF Wanted, Whole
  <2> HIDE DEF span
  <2>5. Bytes(span) = Wanted(h, size)
    BY <1>1, <1>5, <2>2, <2>3, <2>4 DEF Bytes
  <2>6. CASE size = 0
    BY <1>5, <2>1, <2>2, <2>3, <2>4, <2>6, <1>1 DEF span
  <2>7. CASE size # 0
    <3>1. 0 <= span.start /\ span.start <= span.end /\ span.end < size
      BY <1>1, <1>5, <2>2, <2>3, <2>7
    <3>2. span.end \in Bytes(span)
      BY <1>1, <2>2, <2>3, <3>1 DEF Bytes
    <3>3. QED
      BY <1>5, <2>1, <2>2, <2>5, <3>1, <3>2 DEF span
  <2>8. QED
    BY <2>6, <2>7
<1>6. CASE h.form = "range" /\ h.first # Unset
           /\ (h.first >= size \/ (h.last # Unset /\ h.last < h.first))
  <2>1. span = Plain("bad")
    BY <1>6 DEF parseRange
  <2>2. ~ Meaningful(h) \/ Wanted(h, size) = {}
    BY <1>1, <1>6 DEF Meaningful, Wanted, Whole
  <2>3. QED
    BY <1>6, <2>1, <2>2 DEF Plain
<1>7. CASE h.form = "range" /\ h.first # Unset
           /\ ~ (h.first >= size \/ (h.last # Unset /\ h.last < h.first))
  <2>1. span = Span(h.first, LastByte(h, size))
    BY <1>7 DEF parseRange
  <2>2. /\ span.form = "range" /\ span.start = h.first
        /\ span.end = IF h.last = Unset \/ h.last >= size THEN size - 1 ELSE h.last
    BY <2>1 DEF Span, LastByte
  <2>3. Meaningful(h)
    BY <1>1, <1>7 DEF Meaningful
  <2>4. Wanted(h, size) = {i \in 0..(size - 1) :
                              i >= h.first /\ (h.last = Unset \/ i <= h.last)}
    BY <1>7 DEF Wanted, Whole
  <2> HIDE DEF span
  <2>5. 0 <= span.start /\ span.start <= span.end /\ span.end < size
    BY <1>1, <1>7, <2>2
  <2>6. Bytes(span) = Wanted(h, size)
    BY <1>1, <1>7, <2>2, <2>4 DEF Bytes
  <2>7. span.end \in Bytes(span)
    BY <1>1, <2>2, <2>5 DEF Bytes
  <2>8. QED
    BY <1>7, <2>2, <2>3, <2>5, <2>6, <2>7 DEF span
<1>8. QED
  BY <1>1, <1>2, <1>3, <1>4, <1>5, <1>6, <1>7

-----------------------------------------------------------------------------
Requests == [kind : {"none", "content", "page"}, version : Nat, header : Headers,
             offset : Nat, limit : Nat]
Version == 1..Len(versions)

(* A request in progress has read a version there is; a page goes on where *)
(* the last one ended.                                                     *)
FetchInv ==
    /\ fetch \in Requests
    /\ fetch.kind # "none" => fetch.version \in Version
    /\ fetch.kind = "page" => fetch.offset = pages.next

(* An answer is about a version there is.                                  *)
ReplyInv ==
    /\ reply.request \in Requests
    /\ reply.request.kind = "content" => reply.request.version \in Version

(* What a reader has of a single version is its beginning.                 *)
PagesInv ==
    /\ pages.next \in Nat
    /\ pages.seen = {} => pages.next = 0 /\ pages.bytes = {} /\ ~ pages.eof
    /\ \A v : pages.seen = {v} =>
          /\ v \in Version
          /\ pages.bytes = Whole(pages.next)
          /\ pages.next <= versions[v]
          /\ pages.eof => pages.next = versions[v]

RangesInv ==
    /\ versions \in Seq(Nat) /\ versions # << >>
    /\ FetchInv /\ ReplyInv /\ PagesInv
    /\ RangeIsExact /\ PartsFit

LEMMA NoRequestFacts == NoRequest \in Requests /\ NoRequest.kind = "none"
  BY DEF NoRequest, Requests, Headers, Unset

LEMMA RangesInitInv == RangesInit => RangesInv
<1> SUFFICES ASSUME RangesInit
             PROVE  RangesInv
  OBVIOUS
<1>1. versions \in Seq(Nat) /\ versions # << >>
  <2>1. versions \in [{1} -> Nat] /\ {1} = 1..1
    BY RangesConstants DEF RangesInit, Sizes
  <2>2. versions \in UNION {[1..n -> Nat] : n \in Nat}
    BY <2>1
  <2>3. versions \in Seq(Nat)
    BY <2>2, SeqDef
  <2>4. 1 \in DOMAIN versions
    BY <2>1
  <2>5. DOMAIN versions = 1..Len(versions) /\ (versions = << >> => Len(versions) = 0)
    BY <2>3, LenProperties, EmptySeq
  <2>6. QED
    BY <2>3, <2>4, <2>5
<1>2. FetchInv /\ ReplyInv
  BY NoRequestFacts DEF RangesInit, FetchInv, ReplyInv, NoReply
<1>3. PagesInv
  BY DEF RangesInit, PagesInv, NoPages
<1>4. RangeIsExact /\ PartsFit
  BY NoRequestFacts DEF RangesInit, RangeIsExact, PartsFit, NoReply
<1>5. QED
  BY <1>1, <1>2, <1>3, <1>4 DEF RangesInv

(* The first step of a read: the row of the blob.                          *)
LEMMA ReadRowInv ==
    ASSUME RangesInv, NEW request \in Requests, ReadRow(request),
           request.kind = "page" => request.offset = pages.next
    PROVE  RangesInv'
<1>1. /\ fetch' = [request EXCEPT !.version = Len(versions)]
      /\ reply' = NoReply
      /\ UNCHANGED <<versions, deleted, pages>>
  BY DEF ReadRow
<1>2. versions \in Seq(Nat) /\ Len(versions) \in Nat \ {0}
  BY EmptySeq DEF RangesInv
<1>3. /\ fetch' \in Requests
      /\ fetch'.kind = request.kind /\ fetch'.offset = request.offset
      /\ fetch'.version = Len(versions)
  BY <1>1, <1>2 DEF Requests
<1>4. Len(versions) \in 1..Len(versions)
  BY <1>2
<1>5. FetchInv'
  BY <1>1, <1>3, <1>4 DEF FetchInv, Version
<1>6. ReplyInv' /\ RangeIsExact' /\ PartsFit'
  BY <1>1, NoRequestFacts DEF ReplyInv, RangeIsExact, PartsFit, NoReply
<1>7. PagesInv'
  BY <1>1 DEF RangesInv, PagesInv, Version
<1>8. QED
  BY <1>1, <1>5, <1>6, <1>7 DEF RangesInv

LEMMA AskContentInv ==
    ASSUME RangesInv, NEW h \in Headers, AskContent(h)
    PROVE  RangesInv'
<1> DEFINE request == [NoRequest EXCEPT !.kind = "content", !.header = h]
<1>1. request \in Requests /\ request.kind = "content"
  BY DEF NoRequest, Requests
<1>2. ReadRow(request)
  BY DEF AskContent
<1> HIDE DEF request
<1>3. QED
  BY <1>1, <1>2, ReadRowInv

LEMMA AskPageInv ==
    ASSUME RangesInv, NEW limit \in Limits, AskPage(limit)
    PROVE  RangesInv'
<1> DEFINE request == [NoRequest EXCEPT !.kind = "page", !.offset = pages.next,
                                        !.limit = limit]
<1>1. pages.next \in Nat /\ limit \in Nat
  BY DEF RangesInv, PagesInv, Limits
<1>2. request \in Requests /\ request.kind = "page" /\ request.offset = pages.next
  BY <1>1, NoRequestFacts DEF NoRequest, Requests
<1>3. ReadRow(request)
  BY DEF AskPage
<1> HIDE DEF request
<1>4. QED
  BY <1>2, <1>3, ReadRowInv

(* An answer ends the request it is about.                                 *)
LEMMA RepliesInv ==
    ASSUME RangesInv, NEW status, NEW bytes, Replies(status, bytes)
    PROVE  /\ reply'.status = status /\ reply'.request = fetch /\ reply'.bytes = bytes
           /\ fetch' = NoRequest
           /\ UNCHANGED versions => FetchInv' /\ ReplyInv'
<1>1. /\ reply' = [NoReply EXCEPT !.status = status, !.request = fetch, !.bytes = bytes]
      /\ fetch' = NoRequest
  BY DEF Replies
<1>2. reply'.status = status /\ reply'.request = fetch /\ reply'.bytes = bytes
  BY <1>1 DEF NoReply
<1>3. ASSUME UNCHANGED versions
      PROVE  FetchInv' /\ ReplyInv'
  BY <1>1, <1>2, <1>3, NoRequestFacts DEF RangesInv, FetchInv, ReplyInv, Version
<1>4. QED
  BY <1>1, <1>2, <1>3

LEMMA SendContentInv ==
    ASSUME RangesInv, SendContent
    PROVE  RangesInv'
<1> DEFINE size == versions[fetch.version]
           h == fetch.header
           span == parseRange(h, size)
<1>1. /\ fetch.kind = "content"
      /\ UNCHANGED <<versions, deleted, pages>>
      /\ IF span.form = "bad" THEN Replies(416, {})
         ELSE IF ~ Readable(fetch.version, span) THEN Replies(503, {})
         ELSE IF span.form = "none" THEN Replies(200, Whole(size))
         ELSE Replies(206, Bytes(span))
  BY DEF SendContent
<1>2. h \in Headers /\ fetch.version \in 1..Len(versions) /\ size \in Nat
  BY <1>1, ElementOfSeq DEF RangesInv, FetchInv, Requests, Version
<1>3. /\ \/ span.form = "none" /\ h.form = "none"
         \/ /\ span.form = "bad" /\ h.form # "none"
            /\ h.form = "bad" \/ ~ Meaningful(h) \/ Wanted(h, size) = {}
            /\ ~ (size = 0 /\ h.first = Unset /\ Meaningful(h))
         \/ /\ span.form = "range" /\ h.form = "range" /\ Meaningful(h)
            /\ 0 <= span.start /\ span.start <= span.end /\ span.end < size
            /\ Bytes(span) = Wanted(h, size)
            /\ Wanted(h, size) # {}
         \/ /\ span.form = "range" /\ h.form = "range" /\ Meaningful(h)
            /\ span.start > span.end /\ Wanted(h, size) = {}
            /\ size = 0 /\ h.first = Unset
      /\ h.first \in Int /\ h.last \in Int
  BY <1>2, ParseFacts, HeaderFacts
<1>4. PICK status, bytes :
         /\ status \in {416, 503, 200, 206}
         /\ Replies(status, bytes)
         /\ \/ span.form = "bad" /\ status = 416
            \/ span.form # "bad" /\ ~ Readable(fetch.version, span) /\ status = 503
            \/ span.form = "none" /\ Readable(fetch.version, span)
               /\ status = 200 /\ bytes = Whole(size)
            \/ span.form \notin {"bad", "none"} /\ Readable(fetch.version, span)
               /\ status = 206 /\ bytes = Bytes(span)
  BY <1>1
<1>5. /\ reply'.status = status /\ reply'.request = fetch /\ reply'.bytes = bytes
      /\ FetchInv' /\ ReplyInv'
  BY <1>1, <1>4, RepliesInv
<1> HIDE DEF span
<1>6. \/ status = 503 /\ fetch.version \in deleted
      \/ h.form = "none" /\ status = 200 /\ bytes = Whole(size)
      \/ /\ h.form = "range" /\ Meaningful(h) /\ Wanted(h, size) # {}
         /\ status = 206 /\ bytes = Wanted(h, size)
      \/ /\ h.form = "bad" \/ ~ Meaningful(h) \/ Wanted(h, size) = {}
         /\ h.form # "none"
         /\ status = IF size = 0 /\ h.first = Unset /\ Meaningful(h) THEN 503 ELSE 416
  <2>1. CASE span.form = "none"
    BY <1>3, <1>4, <2>1 DEF Readable
  <2>2. CASE span.form = "bad"
    BY <1>3, <1>4, <2>2
  <2>3. CASE /\ span.form = "range" /\ h.form = "range" /\ Meaningful(h)
             /\ 0 <= span.start /\ span.start <= span.end /\ span.end < size
             /\ Bytes(span) = Wanted(h, size)
             /\ Wanted(h, size) # {}
    BY <1>4, <2>3 DEF Readable
  <2>4. CASE /\ span.form = "range" /\ h.form = "range" /\ Meaningful(h)
             /\ span.start > span.end /\ Wanted(h, size) = {}
             /\ size = 0 /\ h.first = Unset
    <3>1. ~ Readable(fetch.version, span)
      <4>1. span.start <= span.end => span.start \notin Int \/ span.end \notin Int
        BY <2>4
      <4>2. span.start \in Int /\ span.end \in Int
        BY <1>2, <1>3, <2>4 DEF span, parseRange, Span, Plain, Least, LastByte
      <4>3. QED
        BY <2>4, <4>1, <4>2 DEF Readable
    <3>2. QED
      BY <1>4, <2>4, <3>1
  <2>5. QED
    BY <1>3, <2>1, <2>2, <2>3, <2>4
<1>7. RangeIsExact'
  BY <1>1, <1>5, <1>6 DEF RangeIsExact
<1>8. PartsFit'
  BY <1>4, <1>5 DEF PartsFit
<1>9. PagesInv'
  BY <1>1 DEF RangesInv, PagesInv, Version
<1>10. QED
  BY <1>1, <1>5, <1>7, <1>8, <1>9 DEF RangesInv

(* A page of the same version continues what the reader has of it.         *)
LEMMA SendPageInv ==
    ASSUME RangesInv, SendPage
    PROVE  RangesInv'
<1> DEFINE v == fetch.version
           size == versions[v]
           length == Least(fetch.limit, size - fetch.offset)
           span == Span(fetch.offset, fetch.offset + length - 1)
<1>1. /\ fetch.kind = "page"
      /\ UNCHANGED <<versions, deleted>>
      /\ IF fetch.offset > size
         THEN Replies(422, {}) /\ UNCHANGED pages
         ELSE IF length > 0 /\ ~ Readable(v, span)
         THEN Replies(503, {}) /\ UNCHANGED pages
         ELSE /\ Replies(200, Bytes(span))
              /\ pages' = [seen |-> pages.seen \cup {v},
                           bytes |-> pages.bytes \cup Bytes(span),
                           next |-> fetch.offset + length,
                           eof |-> fetch.offset + length = size]
  BY DEF SendPage
<1>2. /\ v \in 1..Len(versions) /\ size \in Nat
      /\ fetch.offset = pages.next /\ pages.next \in Nat /\ fetch.limit \in Nat
  BY <1>1, ElementOfSeq DEF RangesInv, FetchInv, Requests, Version, PagesInv
<1>3. Replies(422, {}) \/ Replies(503, {}) \/ Replies(200, Bytes(span))
  <2> HIDE DEF length, span, size
  <2>1. QED
    BY <1>1
<1> HIDE DEF span
<1>4. /\ reply'.status \in {422, 503, 200} /\ reply'.request = fetch
      /\ fetch' = NoRequest /\ ReplyInv'
  <2>1. CASE Replies(422, {})
    BY <1>1, <2>1, RepliesInv
  <2>2. CASE Replies(503, {})
    BY <1>1, <2>2, RepliesInv
  <2>3. CASE Replies(200, Bytes(span))
    BY <1>1, <2>3, RepliesInv
  <2>4. QED
    BY <1>3, <2>1, <2>2, <2>3
<1> USE DEF span
<1>5. ReplyInv'
  BY <1>4
<1>6. FetchInv'
  BY <1>4, NoRequestFacts DEF FetchInv
<1>7. RangeIsExact' /\ PartsFit'
  <2>1. reply'.request.kind # "content" /\ reply'.status # 201
    BY <1>1, <1>4
  <2>2. QED
    BY <2>1 DEF RangeIsExact, PartsFit
<1>8. CASE UNCHANGED pages
  <2>1. PagesInv'
    BY <1>1, <1>8 DEF RangesInv, PagesInv, Version
  <2>2. QED
    BY <1>1, <1>5, <1>6, <1>7, <2>1 DEF RangesInv
<1>9. CASE /\ ~ fetch.offset > size
           /\ pages' = [seen |-> pages.seen \cup {v},
                        bytes |-> pages.bytes \cup Bytes(span),
                        next |-> fetch.offset + length,
                        eof |-> fetch.offset + length = size]
  <2>1. length \in Nat /\ length <= size - fetch.offset
    BY <1>2, <1>9 DEF Least
  <2>2. Bytes(span) = pages.next..(pages.next + length - 1)
    BY <1>2 DEF Bytes, Span
  <2> HIDE DEF length, span
  <2>3. /\ pages'.seen = pages.seen \cup {v}
        /\ pages'.bytes = pages.bytes \cup (pages.next..(pages.next + length - 1))
        /\ pages'.next = pages.next + length
    BY <1>2, <1>9, <2>2
  <2>4. pages'.eof => pages.next + length = size
    BY <1>2, <1>9
  <2>5. pages'.next \in Nat /\ pages'.seen # {}
    <3>1. pages'.next \in Nat
      BY <1>2, <2>1, <2>3
    <3>2. v \in pages'.seen
      BY <2>3
    <3>3. QED
      BY <3>1, <3>2
  <2>6. ASSUME NEW u, pages'.seen = {u}
        PROVE  /\ u \in Version'
               /\ pages'.bytes = Whole(pages'.next)
               /\ pages'.next <= versions'[u]
               /\ pages'.eof => pages'.next = versions'[u]
    <3>1. u = v /\ (pages.seen = {} \/ pages.seen = {v})
      BY <2>3, <2>6
    <3>2. pages.bytes = 0..(pages.next - 1)
      <4>1. CASE pages.seen = {}
        <5>1. pages.next = 0 /\ pages.bytes = {}
          BY <4>1 DEF RangesInv, PagesInv
        <5>2. 0..(0 - 1) = {}
          OBVIOUS
        <5>3. QED
          BY <5>1, <5>2
      <4>2. CASE pages.seen = {v}
        BY <4>2 DEF RangesInv, PagesInv, Whole
      <4>3. QED
        BY <3>1, <4>1, <4>2
    <3>3. pages'.bytes = 0..(pages.next + length - 1)
      BY <1>2, <2>1, <2>3, <3>2
    <3>4. pages'.bytes = Whole(pages'.next)
      BY <1>2, <2>1, <2>3, <3>3 DEF Whole
    <3>5. pages'.next <= size /\ (pages'.eof => pages'.next = size)
      BY <1>2, <2>1, <2>3, <2>4
    <3>6. u \in Version' /\ versions'[u] = size
      BY <1>1, <1>2, <3>1 DEF Version
    <3>7. QED
      BY <3>4, <3>5, <3>6
  <2>7. PagesInv'
    BY <2>5, <2>6 DEF PagesInv
  <2>8. QED
    BY <1>1, <1>5, <1>6, <1>7, <2>7 DEF RangesInv
<1>10. QED
  BY <1>1, <1>8, <1>9

LEMMA StartAgainInv ==
    ASSUME RangesInv, StartAgain
    PROVE  RangesInv'
<1>1. fetch.kind # "page" /\ pages' = NoPages /\ UNCHANGED <<versions, deleted, fetch, reply>>
  BY DEF StartAgain
<1>2. PagesInv'
  BY <1>1 DEF PagesInv, NoPages
<1>3. FetchInv' /\ ReplyInv' /\ RangeIsExact' /\ PartsFit'
  BY <1>1 DEF RangesInv, FetchInv, ReplyInv, RangeIsExact, PartsFit, Version
<1>4. QED
  BY <1>1, <1>2, <1>3 DEF RangesInv

LEMMA PlanPartsInv ==
    ASSUME RangesInv, NEW size \in 1..MaxUpload, PlanParts(size)
    PROVE  RangesInv'
<1> DEFINE part == multipartPartSize(size)
           parts == CeilingOf(size, part)
<1>1. /\ reply' = [NoReply EXCEPT !.status = 201, !.size = size, !.part = part,
                                  !.parts = parts]
      /\ UNCHANGED <<versions, deleted, fetch, pages>>
  BY DEF PlanParts
<1>2. /\ part >= BasePart
      /\ parts <= PartCount
      /\ (parts - 1) * part < size
      /\ size <= parts * part
  BY PartsCover, RangesConstants
<1> HIDE DEF part, parts
<1>3. /\ reply'.size = size /\ reply'.part = part /\ reply'.parts = parts
      /\ reply'.request = NoRequest
  BY <1>1 DEF NoReply
<1>4. PartsFit'
  BY <1>2, <1>3 DEF PartsFit
<1>5. ReplyInv' /\ RangeIsExact'
  BY <1>3, NoRequestFacts DEF ReplyInv, RangeIsExact
<1>6. FetchInv' /\ PagesInv'
  BY <1>1 DEF RangesInv, FetchInv, PagesInv, Version
<1>7. QED
  BY <1>1, <1>4, <1>5, <1>6 DEF RangesInv

(* An overwritten file keeps the contents it has had.                      *)
LEMMA OverwrittenInv ==
    ASSUME RangesInv, NEW size \in Sizes, Overwritten(size)
    PROVE  RangesInv'
<1>1. versions' = Append(versions, size) /\ UNCHANGED <<deleted, fetch, reply, pages>>
  BY DEF Overwritten
<1>2. versions \in Seq(Nat) /\ size \in Nat
  BY RangesConstants DEF RangesInv, Sizes
<1>3. /\ versions' \in Seq(Nat) /\ versions' # << >>
      /\ Len(versions') = Len(versions) + 1 /\ Len(versions) \in Nat
      /\ \A v \in 1..Len(versions) : versions'[v] = versions[v]
  BY <1>1, <1>2, AppendProperties, LenProperties, EmptySeq
<1>4. \A v \in Version : v \in Version' /\ versions'[v] = versions[v]
  BY <1>3 DEF Version
<1>5. FetchInv' /\ ReplyInv' /\ PartsFit'
  BY <1>1, <1>4 DEF RangesInv, FetchInv, ReplyInv, PartsFit
<1>6. PagesInv'
  <2>1. ASSUME NEW v, pages'.seen = {v}
        PROVE  /\ v \in Version'
               /\ pages'.bytes = Whole(pages'.next)
               /\ pages'.next <= versions'[v]
               /\ pages'.eof => pages'.next = versions'[v]
    BY <1>1, <1>4, <2>1 DEF RangesInv, PagesInv, Whole
  <2>2. QED
    BY <1>1, <2>1 DEF RangesInv, PagesInv
<1>7. RangeIsExact'
  <2>1. CASE reply.request.kind # "content"
    BY <1>1, <2>1 DEF RangeIsExact
  <2>2. CASE reply.request.kind = "content"
    <3>1. versions'[reply.request.version] = versions[reply.request.version]
      BY <1>4, <2>2 DEF RangesInv, ReplyInv
    <3>2. reply' = reply /\ deleted' = deleted /\ RangeIsExact
      BY <1>1 DEF RangesInv
    <3>3. QED
      BY <3>1, <3>2 DEF RangeIsExact
  <2>3. QED
    BY <2>1, <2>2
<1>8. QED
  BY <1>3, <1>5, <1>6, <1>7 DEF RangesInv

LEMMA ObjectDeletedInv ==
    ASSUME RangesInv, NEW version, ObjectDeleted(version)
    PROVE  RangesInv'
<1>1. deleted \subseteq deleted' /\ UNCHANGED <<versions, fetch, reply, pages>>
  BY DEF ObjectDeleted
<1>2. FetchInv' /\ ReplyInv' /\ PagesInv' /\ PartsFit'
  BY <1>1 DEF RangesInv, FetchInv, ReplyInv, PagesInv, PartsFit, Version
<1>3. RangeIsExact'
  BY <1>1 DEF RangesInv, RangeIsExact
<1>4. QED
  BY <1>1, <1>2, <1>3 DEF RangesInv

LEMMA RangesStep == RangesInv /\ [RangesNext]_rangesVars => RangesInv'
<1> SUFFICES ASSUME RangesInv, [RangesNext]_rangesVars
             PROVE  RangesInv'
  OBVIOUS
<1>1. CASE UNCHANGED rangesVars
  BY <1>1 DEF rangesVars, RangesInv, FetchInv, ReplyInv, PagesInv, PartsFit, RangeIsExact,
     Version
<1>2. CASE RangesNext
  BY <1>2, AskContentInv, AskPageInv, SendContentInv, SendPageInv, StartAgainInv,
     PlanPartsInv, OverwrittenInv, ObjectDeletedInv DEF RangesNext
<1>3. QED
  BY <1>1, <1>2

(* Files and uploads of any size come in pieces that make them up: ranges, *)
(* pages and parts, whatever is overwritten or deleted in between.         *)
THEOREM PiecesMakeTheFile == RangesSpec => []PiecesAreTheFile
<1>1. ASSUME RangesInv
      PROVE  PagesAreTheFile
  <2>1. ASSUME NEW v \in DOMAIN versions, pages.eof, pages.seen = {v}
        PROVE  pages.bytes = Whole(versions[v])
    BY <1>1, <2>1 DEF RangesInv, PagesInv
  <2>2. QED
    BY <2>1 DEF PagesAreTheFile
<1>2. RangesInv => PiecesAreTheFile
  BY <1>1 DEF RangesInv, PiecesAreTheFile
<1>3. QED
  BY <1>2, RangesInitInv, RangesStep, PTL DEF RangesSpec
=============================================================================
