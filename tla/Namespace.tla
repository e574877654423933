----------------------------- MODULE Namespace -----------------------------
(***************************************************************************)
(* What the file area of a project promises its users, without saying how. *)
(*                                                                         *)
(* A file is a name holding one published version.  A version is the       *)
(* content of one upload; an upload is a ticket that is spent exactly      *)
(* once, either by publishing its version under a name or by being         *)
(* cancelled.  A spent ticket never publishes again, so a replaced or      *)
(* deleted version never comes back, and a version is never visible under  *)
(* two names.                                                              *)
(*                                                                         *)
(* Metadata.tla implements this specification.                             *)
(***************************************************************************)
CONSTANTS
    Upload,    \* the tickets, one per upload session
    Slot,      \* the names: a project, a parent directory and a file name
    None       \* no version

VARIABLES
    file,      \* the version every name holds
    spent      \* the tickets already published or cancelled

nsVars == <<file, spent>>

NsInit ==
    /\ file = [s \in Slot |-> None]
    /\ spent = {}

(* An upload completes: its version appears under one name, replacing the  *)
(* version that name held, in one step.                                    *)
Publish(u, s) ==
    /\ u \notin spent
    /\ file' = [file EXCEPT ![s] = u]
    /\ spent' = spent \cup {u}

(* A file is renamed or moved to a name that is free.                      *)
Move(s, t) ==
    /\ file[s] # None
    /\ file[t] = None
    /\ file' = [file EXCEPT ![s] = None, ![t] = file[s]]
    /\ UNCHANGED spent

(* Files are deleted and uploads are given up, in one step.                *)
Discard(gone, given) ==
    /\ given \cap spent = {}
    /\ file' = [s \in Slot |-> IF s \in gone THEN None ELSE file[s]]
    /\ spent' = spent \cup given

NsNext ==
    \/ \E u \in Upload, s \in Slot : Publish(u, s)
    \/ \E s, t \in Slot : Move(s, t)
    \/ \E gone \in SUBSET Slot, given \in SUBSET Upload : Discard(gone, given)

NamespaceSpec == NsInit /\ [][NsNext]_nsVars
=============================================================================
