------------------------------- MODULE Ascli --------------------------------
(***************************************************************************)
(* The command line downloader.  A process lists a share node by node,     *)
(* looks at every destination, and then fetches the entries one after the  *)
(* other: into a temporary file first, which is published under its name   *)
(* when it is complete.  While it runs, the share is edited, other         *)
(* programs - other ascli processes among them - use the directory, and    *)
(* the process may be interrupted or killed.                               *)
(*                                                                         *)
(* A path stands for a name in the download directory as a                 *)
(* case-insensitive file system compares it.  Authentication, redirects    *)
(* and log lines are left out, and so is the download of a presigned URL,  *)
(* which has no listing to agree with.                                     *)
(***************************************************************************)
EXTENDS Naturals, FiniteSets

CONSTANTS
    Process,      \* runs of ascli
    Entry,        \* nodes of the share
    Path,         \* names in the share and in the download directory
    Size,         \* sizes of files
    MaxShareEdits    \* bound on what users of the share and others change

ASSUME AscliAssumption ==
    /\ "none" \notin Entry \cup Path \cup Process
    /\ "others" \notin Process
    /\ Size \subseteq Nat
    /\ MaxShareEdits \in Nat

VARIABLES
    shared,       \* the share's nodes: type, path and size
    disk,         \* the download directory under its final names
    temp,         \* .ascli-*.part files
    overwrite,    \* the processes run with --overwrite
    run,          \* the processes
    changes

asclVars == <<shared, disk, temp, overwrite, run, changes>>

Shared == [type : {"file", "directory"}, path : Path, size : Size]
Absent == [type |-> "none", path |-> "none", size |-> 0]
Free == [kind |-> "none", by |-> "none", size |-> 0]
File(q, n) == [kind |-> "file", by |-> q, size |-> n]
Foreign == {[kind |-> k, by |-> "others", size |-> 0] : k \in {"file", "directory", "symlink"}}
NoTemp == [held |-> FALSE, size |-> 0]

AscliInit ==
    /\ shared \in [Entry -> Shared \cup {Absent}]
    /\ \A m, n \in Entry :
          m # n /\ shared[m] # Absent => shared[m].path # shared[n].path
    /\ disk = [p \in Path |-> Free]
    /\ temp = [q \in Process |-> NoTemp]
    /\ overwrite \in SUBSET Process
    /\ run = [q \in Process |-> [phase |-> "list", plan |-> [n \in Entry |-> Absent],
                                 left |-> Entry, at |-> "none"]]
    /\ changes = 0

-----------------------------------------------------------------------------
(* THE PLAN                                                                *)
Planned(q) == {n \in Entry : run[q].plan[n] # Absent}

(* Every return of run closes and removes the temporary file it holds.     *)
Exit(q, phase) ==
    /\ run' = [run EXCEPT ![q].phase = phase, ![q].at = "none"]
    /\ temp' = [temp EXCEPT ![q] = NoTemp]

(* Mutant: names that collide are not noticed.                             *)
WalkColliding(q, n) ==
    /\ run[q].phase = "list" /\ n \in run[q].left
    /\ run' = [run EXCEPT ![q].left = @ \ {n}, ![q].plan[n] = shared[n]]
    /\ UNCHANGED <<temp, shared, disk, overwrite, changes>>

(* walk meets each node once (seen), as its listing shows it at that time, *)
(* and not at all if it is gone by then; two nodes with one path, because  *)
(* one was renamed or moved since, end the run (paths).                    *)
Walk(q, n) ==
    /\ run[q].phase = "list" /\ n \in run[q].left
    /\ IF /\ shared[n] # Absent
          /\ \E m \in Planned(q) : run[q].plan[m].path = shared[n].path
       THEN Exit(q, "failed")
       ELSE /\ run' = [run EXCEPT ![q].left = @ \ {n}, ![q].plan[n] = shared[n]]
            /\ UNCHANGED temp
    /\ UNCHANGED <<shared, disk, overwrite, changes>>

Proceed(q, phase) == run' = [run EXCEPT ![q].phase = phase, ![q].left = Planned(q)]

Listed(q) ==
    /\ run[q].phase = "list" /\ run[q].left = {}
    /\ Proceed(q, "preflight")
    /\ UNCHANGED <<shared, disk, temp, overwrite, changes>>

(* checkFile; directories of the plan may exist already.                   *)
FileClear(q, p) ==
    disk[p].kind \in {"none"} \cup (IF q \in overwrite THEN {"file"} ELSE {})

Preflight(q, n) ==
    /\ run[q].phase = "preflight" /\ n \in run[q].left
    /\ LET e == run[q].plan[n]
       IN  IF \/ e.type = "file" /\ FileClear(q, e.path)
              \/ e.type = "directory" /\ disk[e.path].kind \in {"none", "directory"}
           THEN run' = [run EXCEPT ![q].left = @ \ {n}] /\ UNCHANGED temp
           ELSE Exit(q, "failed")
    /\ UNCHANGED <<shared, disk, overwrite, changes>>

Verified(q) ==
    /\ run[q].phase = "preflight" /\ run[q].left = {}
    /\ Proceed(q, "get")
    /\ UNCHANGED <<shared, disk, temp, overwrite, changes>>

-----------------------------------------------------------------------------
(* THE TRANSFER                                                            *)
At(q) == run[q].plan[run[q].at]

MakeDirectory(q, n) ==
    /\ run[q].phase = "get" /\ n \in run[q].left
    /\ run[q].plan[n].type = "directory"
    /\ LET p == run[q].plan[n].path
       IN  IF disk[p].kind \in {"none", "directory"}
           THEN /\ disk' = [disk EXCEPT ![p].kind = "directory",
                                        ![p].by = IF @ = "none" THEN q ELSE @]
                /\ run' = [run EXCEPT ![q].left = @ \ {n}]
                /\ UNCHANGED temp
           ELSE Exit(q, "failed") /\ UNCHANGED disk
    /\ UNCHANGED <<shared, overwrite, changes>>

(* The response begins: its length, if it is announced, must be the one    *)
(* listed; the destination is looked at; the temporary file is created.    *)
Open(q, n) ==
    /\ run[q].phase = "get" /\ n \in run[q].left
    /\ run[q].plan[n].type = "file"
    /\ IF shared[n].type = "file" /\ FileClear(q, run[q].plan[n].path)
       THEN /\ run' = [run EXCEPT ![q].phase = "copy", ![q].at = n, ![q].left = @ \ {n}]
            /\ temp' = [temp EXCEPT ![q] = [held |-> TRUE, size |-> 0]]
       ELSE Exit(q, "failed")
    /\ UNCHANGED <<shared, disk, overwrite, changes>>

(* Mutant: a stream that ends is taken to be complete.                     *)
CopyAny(q, n) ==
    /\ run[q].phase = "copy"
    /\ temp' = [temp EXCEPT ![q].size = n]
    /\ run' = [run EXCEPT ![q].phase = "check"]
    /\ UNCHANGED <<shared, disk, overwrite, changes>>

(* The stream ends after n bytes: the file may be another one by now, and  *)
(* no length need have been announced.                                     *)
Copy(q, n) ==
    /\ run[q].phase = "copy"
    /\ IF n = At(q).size
       THEN /\ temp' = [temp EXCEPT ![q].size = n]
            /\ run' = [run EXCEPT ![q].phase = "check"]
       ELSE Exit(q, "failed")
    /\ UNCHANGED <<shared, disk, overwrite, changes>>

CheckFile(q) ==
    /\ run[q].phase = "check"
    /\ IF FileClear(q, At(q).path)
       THEN run' = [run EXCEPT ![q].phase = "publish"] /\ UNCHANGED temp
       ELSE Exit(q, "failed")
    /\ UNCHANGED <<shared, disk, overwrite, changes>>

Published(q) ==
    /\ disk' = [disk EXCEPT ![At(q).path] = File(q, temp[q].size)]
    /\ Exit(q, "get")

(* Mutant: a file is always published by renaming.                         *)
LinkRenames(q) ==
    /\ run[q].phase = "publish" /\ q \notin overwrite
    /\ IF disk[At(q).path].kind # "directory"
       THEN Published(q)
       ELSE Exit(q, "failed") /\ UNCHANGED disk
    /\ UNCHANGED <<shared, overwrite, changes>>

(* A hard link fails if there is anything under the name; the temporary    *)
(* name is removed by the deferred call.                                   *)
Link(q) ==
    /\ run[q].phase = "publish" /\ q \notin overwrite
    /\ IF disk[At(q).path] = Free
       THEN Published(q)
       ELSE Exit(q, "failed") /\ UNCHANGED disk
    /\ UNCHANGED <<shared, overwrite, changes>>

(* A rename takes the place of whatever is there, but for a directory.     *)
Rename(q) ==
    /\ run[q].phase = "publish" /\ q \in overwrite
    /\ IF disk[At(q).path].kind # "directory"
       THEN Published(q)
       ELSE Exit(q, "failed") /\ UNCHANGED disk
    /\ UNCHANGED <<shared, overwrite, changes>>

Finish(q) ==
    /\ run[q].phase = "get" /\ run[q].left = {}
    /\ Exit(q, "done")
    /\ UNCHANGED <<shared, disk, overwrite, changes>>

Running(q) == run[q].phase \notin {"done", "failed", "killed"}

(* An error or a signal: the deferred calls run.                           *)
Interrupt(q) ==
    /\ Running(q)
    /\ Exit(q, "failed")
    /\ UNCHANGED <<shared, disk, overwrite, changes>>

(* SIGKILL or power loss: they do not.                                     *)
Kill(q) ==
    /\ Running(q)
    /\ run' = [run EXCEPT ![q].phase = "killed"]
    /\ UNCHANGED <<shared, disk, temp, overwrite, changes>>

-----------------------------------------------------------------------------
(* OTHERS                                                                  *)
ShareChanges == changes < MaxShareEdits /\ changes' = changes + 1

EditShare(n, e) ==
    /\ ShareChanges
    /\ e # shared[n]
    /\ e # Absent => \A m \in Entry \ {n} : shared[m].path # e.path
    /\ shared[n].type = "none" \/ e.type \in {"none", shared[n].type}
    /\ shared' = [shared EXCEPT ![n] = e]
    /\ UNCHANGED <<disk, temp, overwrite, run>>

UseDirectory(p, f) ==
    /\ ShareChanges
    /\ f # disk[p]
    /\ disk' = [disk EXCEPT ![p] = f]
    /\ UNCHANGED <<shared, temp, overwrite, run>>

Others ==
    \/ \E n \in Entry, e \in Shared \cup {Absent} : EditShare(n, e)
    \/ \E p \in Path, f \in Foreign \cup {Free} : UseDirectory(p, f)

AscliStep(q) ==
    \/ \E n \in Entry : Walk(q, n) \/ Preflight(q, n) \/ MakeDirectory(q, n) \/ Open(q, n)
    \/ Listed(q) \/ Verified(q)
    \/ \E n \in Size : Copy(q, n)
    \/ CheckFile(q) \/ Link(q) \/ Rename(q) \/ Finish(q)
    \/ Interrupt(q) \/ Kill(q)

AscliNext == (\E q \in Process : AscliStep(q)) \/ Others

AscliSpec == AscliInit /\ [][AscliNext]_asclVars

-----------------------------------------------------------------------------
(* SAFETY                                                                  *)

(* docs/cli.md: only a file that agrees with the listing is published.     *)
(* Whatever happens to the share, to the stream or to the process, a file  *)
(* under its final name has the size some entry of that name was listed    *)
(* with by the process that made it.                                       *)
FilesAreWhole ==
    \A p \in Path : disk[p].kind = "file" /\ disk[p].by # "others" =>
        \E n \in Entry :
            LET e == run[disk[p].by].plan[n]
            IN  e.type = "file" /\ e.path = p /\ e.size = disk[p].size

(* docs/cli.md: without --overwrite nothing that exists is replaced or     *)
(* removed, also if it appeared after every check; with it, no directory.  *)
NothingReplaced ==
    \A p \in Path :
        disk[p] # Free /\ disk'[p] # disk[p] =>
            \/ changes' # changes
            \/ /\ disk[p].kind # "directory"
               /\ disk'[p].by \in overwrite
ExistingKept == [][NothingReplaced]_asclVars

(* A run never replaces a file of its own: every entry of its plan has a   *)
(* file to itself, although the share was edited while it was listed.      *)
OneFileEach ==
    \A q \in Process : run[q].phase = "publish" =>
        LET f == disk[At(q).path] IN ~(f.kind = "file" /\ f.by = q)
=============================================================================
