------------------------------ MODULE Metadata ------------------------------
(***************************************************************************)
(* The metadata database of one project: upload sessions, blobs, file      *)
(* nodes and delete_blob jobs, changed by the transactions of the Go       *)
(* package repository.  SQLite opens every transaction IMMEDIATE, so each  *)
(* transaction below is one atomic step; which handler or worker runs it,  *)
(* and when, is the business of UploadService.tla.                         *)
(*                                                                         *)
(* An upload session and its blob are inserted together and refer to each  *)
(* other one to one, so both are indexed by the session.  Only             *)
(* FinalizeUpload inserts file nodes, at most one per session, so a node   *)
(* is named by the session that inserted it.  Directories are part of a    *)
(* Slot, the key of the unique index on live names.                        *)
(***************************************************************************)
EXTENDS Integers, FiniteSets

CONSTANTS
    Upload,        \* upload sessions (and their blobs and nodes)
    Slot,          \* values of (project, parent, normalized name)
    None,          \* SQL NULL
    MaxAttempts    \* attempts after which a job is given up (10 in the code)

ASSUME MetadataAssumption ==
    /\ None \notin Upload \cup Slot
    /\ MaxAttempts \in Nat \ {0}

(* A job is named by the blob it deletes and by the transaction that       *)
(* inserted it: AbortUpload, FailUpload, or one of the three that retire a *)
(* blob (FinalizeUpload replacing it, DeleteNode, MarkProjectDeleting).    *)
Cause == {"abort", "fail", "retire"}
Job == Upload \X Cause

OpenStatus == {"created", "uploading", "completing"}
SessionStatus == OpenStatus \cup {"completed", "aborted", "expired", "failed"}
BlobStatus == {"pending", "active", "deleting", "deleted"}
JobStatus == {"pending", "running", "done", "failed"}

VARIABLES
    project,    \* projects.status
    session,    \* upload_sessions.status, "none" before the row exists
    want,       \* upload_sessions.(parent_id, original_name)
    target,     \* upload_sessions.node_id
    provider,   \* upload_sessions.provider_upload_id IS NOT NULL
    expired,    \* upload_sessions.expires_at <= now
    blob,       \* file_blobs.status
    node,       \* fs_nodes: "none", "live" or "deleted"
    slot,       \* fs_nodes.(parent_id, normalized_name)
    current,    \* fs_nodes.current_blob_id
    job,        \* background_jobs.status
    attempts    \* background_jobs.attempts

sessionVars == <<session, want, target, provider>>
nodeVars == <<node, slot, current>>
jobVars == <<job, attempts>>
vars == <<project, session, want, target, provider, expired,
          blob, node, slot, current, job, attempts>>

TypeOK ==
    /\ project \in {"active", "deleting"}
    /\ session \in [Upload -> SessionStatus \cup {"none"}]
    /\ want \in [Upload -> Slot \cup {None}]
    /\ target \in [Upload -> Upload \cup {None}]
    /\ provider \in [Upload -> BOOLEAN]
    /\ expired \in [Upload -> BOOLEAN]
    /\ blob \in [Upload -> BlobStatus \cup {"none"}]
    /\ node \in [Upload -> {"none", "live", "deleted"}]
    /\ slot \in [Upload -> Slot \cup {None}]
    /\ current \in [Upload -> Upload \cup {None}]
    /\ job \in [Job -> JobStatus \cup {"none"}]
    /\ attempts \in [Job -> Nat]

Init ==
    /\ project = "active"
    /\ session = [u \in Upload |-> "none"]
    /\ want = [u \in Upload |-> None]
    /\ target = [u \in Upload |-> None]
    /\ provider = [u \in Upload |-> FALSE]
    /\ expired = [u \in Upload |-> FALSE]
    /\ blob = [u \in Upload |-> "none"]
    /\ node = [u \in Upload |-> "none"]
    /\ slot = [u \in Upload |-> None]
    /\ current = [u \in Upload |-> None]
    /\ job = [j \in Job |-> "none"]
    /\ attempts = [j \in Job |-> 0]

-----------------------------------------------------------------------------
Live == {n \in Upload : node[n] = "live"}

(* The unique index fs_nodes_unique_live_name accepts a live row at s.     *)
SlotFree(s) == \A n \in Live : slot[n] # s

(* insertJob for every blob of a set.                                      *)
InsertJobs(blobs, cause) ==
    /\ job' = [j \in Job |->
                 IF j[1] \in blobs /\ j[2] = cause THEN "pending" ELSE job[j]]
    /\ attempts' = [j \in Job |->
                 IF j[1] \in blobs /\ j[2] = cause THEN 0 ELSE attempts[j]]

(* Mutant: a replaced version keeps its status.                            *)
RetiredNever(blobs) == blob

(* The active blobs of a set are marked deleting.                          *)
Retired(blobs) ==
    [b \in Upload |->
        IF b \in blobs /\ blob[b] = "active" THEN "deleting" ELSE blob[b]]

(* CreateUpload: the session and its pending blob.  A live file of that    *)
(* name is only accepted with overwrite, and becomes the node to replace.  *)
CreateUpload(u, s, overwrite) ==
    /\ session[u] = "none"
    /\ \/ /\ SlotFree(s)
          /\ target' = [target EXCEPT ![u] = None]
       \/ /\ overwrite
          /\ \E n \in Live :
                /\ slot[n] = s
                /\ target' = [target EXCEPT ![u] = n]
    /\ session' = [session EXCEPT ![u] = "created"]
    /\ want' = [want EXCEPT ![u] = s]
    /\ blob' = [blob EXCEPT ![u] = "pending"]
    /\ UNCHANGED <<project, provider, expired, nodeVars, jobVars>>

SetProviderUploadID(u) ==
    /\ session[u] = "created"
    /\ session' = [session EXCEPT ![u] = "uploading"]
    /\ provider' = [provider EXCEPT ![u] = TRUE]
    /\ UNCHANGED <<project, want, target, expired, blob, nodeVars, jobVars>>

(* MarkUploadCompleting: the compare-and-set that lets one complete call   *)
(* through.                                                                *)
MarkUploadCompleting(u) ==
    /\ session[u] \in {"created", "uploading"}
    /\ ~expired[u]
    /\ session' = [session EXCEPT ![u] = "completing"]
    /\ UNCHANGED <<project, want, target, provider, expired, blob,
                   nodeVars, jobVars>>

(* FinalizeUpload closes the session on node n, provided it is still       *)
(* completing (a row the UPDATE does not match is not an error).           *)
CloseSession(u, n) ==
    IF session[u] = "completing"
    THEN /\ session' = [session EXCEPT ![u] = "completed"]
         /\ target' = [target EXCEPT ![u] = n]
    ELSE UNCHANGED <<session, target>>

(* Mutant: the job is queued for the new blob instead of the old one.      *)
FinalizeReplaceQueuesNew(u) ==
    LET n == target[u]
    IN  /\ blob[u] = "pending"
        /\ n # None
        /\ node[n] = "live"
        /\ blob' = [Retired({current[n]}) EXCEPT ![u] = "active"]
        /\ current' = [current EXCEPT ![n] = u]
        /\ InsertJobs({u}, "retire")
        /\ CloseSession(u, n)
        /\ UNCHANGED <<project, want, provider, expired, node, slot>>

(* FinalizeUpload, when the session names a node: the blob replaces the    *)
(* node's current one, which is retired.                                   *)
FinalizeReplace(u) ==
    LET n == target[u]
        old == current[n]
    IN  /\ blob[u] = "pending"
        /\ n # None
        /\ node[n] = "live"
        /\ blob' = [Retired({old}) EXCEPT ![u] = "active"]
        /\ current' = [current EXCEPT ![n] = u]
        /\ InsertJobs({old}, "retire")
        /\ CloseSession(u, n)
        /\ UNCHANGED <<project, want, provider, expired, node, slot>>

(* Mutant: the UPDATE of the blob does not ask for status='pending'.       *)
FinalizeInsertAnyBlob(u) ==
    /\ session[u] # "none"
    /\ target[u] = None
    /\ SlotFree(want[u])
    /\ blob' = [blob EXCEPT ![u] = "active"]
    /\ node' = [node EXCEPT ![u] = "live"]
    /\ slot' = [slot EXCEPT ![u] = want[u]]
    /\ current' = [current EXCEPT ![u] = u]
    /\ CloseSession(u, u)
    /\ UNCHANGED <<project, want, provider, expired, jobVars>>

(* FinalizeUpload, when it names none: a new node takes the name.          *)
FinalizeInsert(u) ==
    /\ blob[u] = "pending"
    /\ target[u] = None
    /\ SlotFree(want[u])
    /\ blob' = [blob EXCEPT ![u] = "active"]
    /\ node' = [node EXCEPT ![u] = "live"]
    /\ slot' = [slot EXCEPT ![u] = want[u]]
    /\ current' = [current EXCEPT ![u] = u]
    /\ CloseSession(u, u)
    /\ UNCHANGED <<project, want, provider, expired, jobVars>>

FinalizeUpload(u) == FinalizeReplace(u) \/ FinalizeInsert(u)

(* Mutant: AbortUpload does not look at the session's status.              *)
AbortUploadAnyStatus(u) ==
    /\ session[u] # "none"
    /\ session' = [session EXCEPT ![u] = "aborted"]
    /\ blob' = [blob EXCEPT ![u] = "deleting"]
    /\ InsertJobs({u}, "abort")
    /\ UNCHANGED <<project, want, target, provider, expired, nodeVars>>

(* Mutant: AbortUpload forgets the blob.                                   *)
AbortUploadKeepsBlob(u) ==
    /\ session[u] \in OpenStatus
    /\ session' = [session EXCEPT ![u] = "aborted"]
    /\ UNCHANGED <<project, want, target, provider, expired, blob, nodeVars,
                   jobVars>>

AbortUpload(u) ==
    /\ session[u] \in OpenStatus
    /\ session' = [session EXCEPT ![u] = "aborted"]
    /\ blob' = [blob EXCEPT ![u] = "deleting"]
    /\ InsertJobs({u}, "abort")
    /\ UNCHANGED <<project, want, target, provider, expired, nodeVars>>

(* FailUpload looks at no status at all: it only needs the row.            *)
FailUpload(u) ==
    /\ session[u] # "none"
    /\ session' = [session EXCEPT ![u] = "failed"]
    /\ blob' = [blob EXCEPT ![u] = "deleting"]
    /\ InsertJobs({u}, "fail")
    /\ UNCHANGED <<project, want, target, provider, expired, nodeVars>>

(* ExpireUpload: unlike the other two it queues no job, its caller has     *)
(* just removed the object.                                                *)
ExpireUpload(u) ==
    /\ session[u] \in OpenStatus
    /\ session' = [session EXCEPT ![u] = "expired"]
    /\ blob' = [blob EXCEPT ![u] = "deleting"]
    /\ UNCHANGED <<project, want, target, provider, expired, nodeVars, jobVars>>

(* Mutant: the nodes and their blobs go, no job is queued.                 *)
DeleteNodeQueuesNothing(S) ==
    /\ S # {}
    /\ S \subseteq Live
    /\ node' = [n \in Upload |-> IF n \in S THEN "deleted" ELSE node[n]]
    /\ blob' = Retired({current[n] : n \in S})
    /\ UNCHANGED <<project, sessionVars, expired, slot, current, jobVars>>

(* DeleteNode on a file, or on a directory whose subtree holds the live    *)
(* files S.                                                                *)
DeleteNode(S) ==
    LET old == {current[n] : n \in S}
    IN  /\ S # {}
        /\ S \subseteq Live
        /\ node' = [n \in Upload |-> IF n \in S THEN "deleted" ELSE node[n]]
        /\ blob' = Retired(old)
        /\ InsertJobs(old, "retire")
        /\ UNCHANGED <<project, sessionVars, expired, slot, current>>

(* UpdateNode: a rename or a move, refused by the unique index when the    *)
(* name is taken.                                                          *)
UpdateNode(n, s) ==
    /\ n \in Live
    /\ SlotFree(s)
    /\ slot' = [slot EXCEPT ![n] = s]
    /\ UNCHANGED <<project, sessionVars, expired, blob, node, current, jobVars>>

(* Mutant: a project deletion overlooks the uploads in progress.           *)
MarkProjectDeletingActive ==
    LET old == {u \in Upload : blob[u] = "active"}
    IN  /\ project = "active"
        /\ project' = "deleting"
        /\ node' = [n \in Upload |-> IF n \in Live THEN "deleted" ELSE node[n]]
        /\ blob' = Retired(old)
        /\ InsertJobs(old, "retire")
        /\ UNCHANGED <<sessionVars, expired, slot, current>>

MarkProjectDeleting ==
    LET old == {u \in Upload : blob[u] \in {"active", "pending"}}
    IN  /\ project = "active"
        /\ project' = "deleting"
        /\ node' = [n \in Upload |-> IF n \in Live THEN "deleted" ELSE node[n]]
        /\ blob' = [b \in Upload |-> IF b \in old THEN "deleting" ELSE blob[b]]
        /\ InsertJobs(old, "retire")
        /\ UNCHANGED <<sessionVars, expired, slot, current>>

-----------------------------------------------------------------------------
ClaimJobs(S) ==
    /\ S # {}
    /\ \A j \in S : job[j] = "pending"
    /\ job' = [j \in Job |-> IF j \in S THEN "running" ELSE job[j]]
    /\ UNCHANGED <<project, sessionVars, expired, blob, nodeVars, attempts>>

(* Mutant: jobs interrupted by a restart stay running.                     *)
RecoverNothing == UNCHANGED vars

RecoverRunningJobs ==
    /\ job' = [j \in Job |-> IF job[j] = "running" THEN "pending" ELSE job[j]]
    /\ UNCHANGED <<project, sessionVars, expired, blob, nodeVars, attempts>>

MarkBlobDeleted(u) ==
    /\ blob' = [blob EXCEPT ![u] = "deleted"]
    /\ UNCHANGED <<project, sessionVars, expired, nodeVars, jobVars>>

(* Mutant: a job is closed like a session, with a status jobs do not have. *)
CompleteJobAsSession(j) ==
    /\ job' = [job EXCEPT ![j] = "completed"]
    /\ UNCHANGED <<project, sessionVars, expired, blob, nodeVars, attempts>>

CompleteJob(j) ==
    /\ job' = [job EXCEPT ![j] = "done"]
    /\ UNCHANGED <<project, sessionVars, expired, blob, nodeVars, attempts>>

(* FailJob, with the attempt count runJobs passes it.                      *)
FailJob(j) ==
    /\ attempts' = [attempts EXCEPT ![j] = @ + 1]
    /\ job' = [job EXCEPT ![j] = IF attempts[j] + 1 >= MaxAttempts
                                 THEN "failed" ELSE "pending"]
    /\ UNCHANGED <<project, sessionVars, expired, blob, nodeVars>>

(* The clock passes expires_at, 24 hours after the session was created;    *)
(* nothing reads the column of a closed session.                           *)
Expire(u) ==
    /\ session[u] \in OpenStatus
    /\ ~expired[u]
    /\ expired' = [expired EXCEPT ![u] = TRUE]
    /\ UNCHANGED <<project, sessionVars, blob, nodeVars, jobVars>>

-----------------------------------------------------------------------------
(* The transactions in any order the callers can produce.  Four of them    *)
(* trust their caller: FinalizeUpload is called after MarkUploadCompleting *)
(* succeeded; FailUpload once, by the handler that still owns the session; *)
(* ExpireUpload on sessions a query returned as expired; the job updates   *)
(* on jobs the worker has claimed.  UploadService shows that its handlers  *)
(* and its worker keep to that.                                            *)
UploadStep(u) ==
    \/ \E s \in Slot, overwrite \in BOOLEAN : CreateUpload(u, s, overwrite)
    \/ SetProviderUploadID(u)
    \/ MarkUploadCompleting(u)
    \/ session[u] \notin {"created", "uploading"} /\ FinalizeUpload(u)
    \/ AbortUpload(u)
    \/ session[u] \notin {"completed", "failed"} /\ FailUpload(u)
    \/ expired[u] /\ ExpireUpload(u)
    \/ Expire(u)

NodeStep ==
    \/ \E S \in SUBSET Upload : DeleteNode(S)
    \/ \E n \in Upload, s \in Slot : UpdateNode(n, s)
    \/ MarkProjectDeleting

JobStep ==
    \/ \E S \in SUBSET Job : ClaimJobs(S)
    \/ RecoverRunningJobs
    \/ \E j \in Job :
          /\ job[j] = "running"
          /\ MarkBlobDeleted(j[1]) \/ CompleteJob(j) \/ FailJob(j)

Next == (\E u \in Upload : UploadStep(u)) \/ NodeStep \/ JobStep

Spec == Init /\ [][Next]_vars

-----------------------------------------------------------------------------
(* SAFETY                                                                  *)

(* A file users can see is backed by an active blob of a completed upload: *)
(* no abort, failure, expiry, project deletion or job ever pulls the blob  *)
(* from under a live node (BlobForNode answers 404 for such a node).       *)
LiveFileBacked ==
    \A n \in Live : /\ current[n] \in Upload
                    /\ blob[current[n]] = "active"
                    /\ session[current[n]] = "completed"

(* An active blob is the current blob of exactly one live node: replaced   *)
(* and deleted versions are retired in the same transaction, so no content *)
(* is stored that no file shows, and no two files share a blob.            *)
ActiveIsCurrent ==
    \A u \in Upload :
        blob[u] = "active" =>
            \E n \in Live : /\ current[n] = u
                            /\ \A m \in Live : current[m] = u => m = n

(* A delete_blob job only ever exists for a blob that is on its way out:   *)
(* the worker, which looks at no status, never deletes content in use.     *)
JobMeansDisposed ==
    \A j \in Job : job[j] # "none" => blob[j[1]] \in {"deleting", "deleted"}

(* A blob waits for its content only while its session is open, and while  *)
(* it waits no node was made from it: closing a session by any of the four *)
(* ways also decides its blob.                                             *)
PendingIsOpen ==
    \A u \in Upload :
        blob[u] = "pending" => session[u] \in OpenStatus /\ node[u] = "none"

(* The project's files, as its users see them.                             *)
FileAt(s) ==
    IF \E n \in Live : slot[n] = s
    THEN current[CHOOSE n \in Live : slot[n] = s]
    ELSE None

Decided == {u \in Upload : blob[u] \notin {"none", "pending"}}

NS == INSTANCE Namespace WITH file <- [s \in Slot |-> FileAt(s)], spent <- Decided

(* The transactions implement the namespace users are promised: versions   *)
(* appear atomically, once, under one name, and never come back.           *)
ImplementsNamespace == NS!NamespaceSpec
=============================================================================
