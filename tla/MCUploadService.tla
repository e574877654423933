--------------------------- MODULE MCUploadService ---------------------------
(***************************************************************************)
(* Model-checking instances of UploadService: see the MC*.cfg that name    *)
(* its specifications.                                                     *)
(***************************************************************************)
EXTENDS UploadService, TLC

CONSTANT MaxInFlight     \* of handlers, PUTs and worker passes

InFlight ==
    Cardinality({u \in Upload : creating[u] \in {"checked", "stored", "opened"}})
    + Cardinality({u \in Upload : putting[u]})
    + Cardinality({u \in Upload : completing[u] # "idle"})
    + Cardinality({u \in Upload : aborting[u]})
    + (IF phase \in {"boot", "idle"} THEN 0 ELSE 1)

(* One upload, of any kind, is followed wherever it goes; two, both local, *)
(* without a restart or a second attempt at a job, and with a bounded      *)
(* number of steps under way at a time.                                    *)
Used == {u \in Upload : creating[u] # "idle"}

BoundedUploads ==
    /\ \A u, v \in Upload : kind[u] = kind[v]
    /\ Cardinality(Used) > 1 =>
        /\ \A u \in Upload : kind[u] = "local"
        /\ crashes = 0
        /\ \A j \in Job : attempts[j] = 0
        /\ InFlight <= MaxInFlight

Symm == Permutations(Upload)
=============================================================================
