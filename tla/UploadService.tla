--------------------------- MODULE UploadService ----------------------------
(***************************************************************************)
(* The upload path of one project as it runs: the HTTP handlers that       *)
(* create, fill, complete and abort uploads, the clients that PUT to       *)
(* presigned URLs, the storage that holds the objects, and the background  *)
(* worker that deletes objects and sweeps expired sessions.                *)
(*                                                                         *)
(* A handler is several transactions and storage calls with everybody      *)
(* else's steps in between; its progress is a program counter per upload.  *)
(* The metadata changes only through the transactions of Metadata.tla, and *)
(* this module is shown to implement Metadata!Spec, that is, to respect    *)
(* what those transactions expect of their callers.                        *)
(***************************************************************************)
EXTENDS Metadata

CONSTANTS
    Kinds,         \* the upload types to explore
    ClaimLimit,    \* jobs claimed per tick (20 in the code)
    SweepLimit,    \* expired uploads per sweep (100 in the code)
    MaxCrashes     \* bound on the server restarts of a behaviour

ASSUME ServiceAssumption ==
    /\ Kinds \subseteq {"local", "single", "multipart"}
    /\ ClaimLimit \in Nat \ {0}
    /\ SweepLimit \in Nat \ {0}
    /\ MaxCrashes \in Nat

VARIABLES
    kind,          \* upload_sessions.upload_type
    object,        \* the stored object: "absent", "wrong" size or "whole"
    remote,        \* the provider's multipart upload: "none", "open", "closed"
    url,           \* a presigned PUT URL is still valid
    putting,       \* a PUT of the content is under way
    creating,      \* createUpload, and whether its client got the answer
    completing,    \* completeUpload
    aborting,      \* abortUpload is past its remote abort
    phase,         \* the worker goroutine: what it does next
    todo,          \* the worker: claimed jobs or swept sessions not done
    at,            \* the worker: the job or session it is at
    crashes        \* restarts so far

storeVars == <<object, remote>>
clientVars == <<url, putting>>
handlerVars == <<creating, completing, aborting>>
workerVars == <<phase, todo, at>>
svars == <<vars, storeVars, clientVars, handlerVars, workerVars, kind,
           crashes>>

ServiceTypeOK ==
    /\ kind \in [Upload -> Kinds]
    /\ object \in [Upload -> {"absent", "wrong", "whole"}]
    /\ remote \in [Upload -> {"none", "open", "closed"}]
    /\ url \in [Upload -> BOOLEAN]
    /\ putting \in [Upload -> BOOLEAN]
    /\ creating \in
         [Upload -> {"idle", "checked", "stored", "opened", "returned", "lost"}]
    /\ completing \in [Upload -> {"idle", "checked", "claimed", "assembled",
                                  "verified", "failing"}]
    /\ aborting \in [Upload -> BOOLEAN]
    /\ phase \in {"boot", "idle", "jobs", "removed", "marked", "sweep", "swept"}
    /\ todo \in (SUBSET Job) \cup (SUBSET Upload)
    /\ at \in Job \cup Upload \cup {None}
    /\ crashes \in 0..MaxCrashes

(* A project has one storage backend.  On local storage every upload goes  *)
(* through the API; on S3 or OSS its size decides between one presigned    *)
(* PUT and a multipart upload.                                             *)
ServiceInit ==
    /\ Init
    /\ kind \in [Upload -> Kinds \cap {"local"}]
               \cup [Upload -> Kinds \cap {"single", "multipart"}]
    /\ object = [u \in Upload |-> "absent"]
    /\ remote = [u \in Upload |-> "none"]
    /\ url = [u \in Upload |-> FALSE]
    /\ putting = [u \in Upload |-> FALSE]
    /\ creating = [u \in Upload |-> "idle"]
    /\ completing = [u \in Upload |-> "idle"]
    /\ aborting = [u \in Upload |-> FALSE]
    /\ phase = "boot"
    /\ todo = {}
    /\ at = None
    /\ crashes = 0

(* CanWriteProject reads an active project; members and roles are not      *)
(* modelled here.                                                          *)
CanWrite == project = "active"

-----------------------------------------------------------------------------
(* createUpload.  A refused create (no permission, name conflict) leaves   *)
(* nothing behind and is not a step.                                       *)
CreateCheck(u) ==
    /\ creating[u] = "idle"
    /\ CanWrite
    /\ creating' = [creating EXCEPT ![u] = "checked"]
    /\ UNCHANGED <<vars, storeVars, clientVars, completing, aborting,
                   workerVars, kind, crashes>>

CreateStore(u, s, overwrite) ==
    /\ creating[u] = "checked"
    /\ CreateUpload(u, s, overwrite)
    /\ creating' = [creating EXCEPT ![u] = "stored"]
    /\ UNCHANGED <<storeVars, clientVars, completing, aborting, workerVars,
                   kind, crashes>>

(* adapter.CreateUpload: nothing for local storage, a presigned URL, or a  *)
(* multipart upload opened at the provider.                                *)
CreateTarget(u) ==
    /\ creating[u] = "stored"
    /\ creating' = [creating EXCEPT
                      ![u] = IF kind[u] = "multipart" THEN "opened" ELSE "returned"]
    /\ url' = [url EXCEPT ![u] = kind[u] = "single"]
    /\ remote' = [remote EXCEPT ![u] = IF kind[u] = "multipart" THEN "open" ELSE @]
    /\ UNCHANGED <<vars, object, putting, completing, aborting, workerVars, kind, crashes>>

(* adapter.CreateUpload fails (the provider may have opened the multipart  *)
(* upload all the same): the session is failed, if FailUpload works, and   *)
(* the client told so.                                                     *)
CreateFails(u) ==
    /\ creating[u] = "stored"
    /\ kind[u] # "local"
    /\ FailUpload(u) \/ UNCHANGED vars
    /\ \E opened \in {"none", "open"} :
          /\ opened = "open" => kind[u] = "multipart"
          /\ remote' = [remote EXCEPT ![u] = opened]
    /\ creating' = [creating EXCEPT ![u] = "lost"]
    /\ UNCHANGED <<object, clientVars, completing, aborting, workerVars, kind, crashes>>

(* SetProviderUploadID, whose error the handler ignores.                   *)
CreateRecord(u) ==
    /\ creating[u] = "opened"
    /\ SetProviderUploadID(u) \/ UNCHANGED vars
    /\ creating' = [creating EXCEPT ![u] = "returned"]
    /\ UNCHANGED <<storeVars, clientVars, completing, aborting, workerVars,
                   kind, crashes>>

-----------------------------------------------------------------------------
(* Content.  localUpload and mcpUploadContent check the session before     *)
(* they store the body; a presigned URL is checked by the provider alone,  *)
(* whatever became of the session.  One PUT at a time is enough: a second  *)
(* one differs only in when it started, and it may start again.            *)
PutStart(u) ==
    /\ creating[u] = "returned"
    /\ ~putting[u]
    /\ \/ /\ kind[u] \in {"local", "single"}
          /\ CanWrite
          /\ session[u] = "created"
          /\ ~expired[u]
       \/ url[u]
    /\ putting' = [putting EXCEPT ![u] = TRUE]
    /\ UNCHANGED <<vars, storeVars, url, handlerVars, workerVars, kind, crashes>>

(* The object appears at once (a rename, a PutObject).  Local storage      *)
(* refuses a body of the wrong size; a presigned PUT need not.             *)
PutFinish(u) ==
    /\ putting[u]
    /\ putting' = [putting EXCEPT ![u] = FALSE]
    /\ \E stored \in {"wrong", "whole"} :
          /\ stored = "wrong" => kind[u] = "single"
          /\ object' = [object EXCEPT ![u] = stored]
    /\ UNCHANGED <<vars, remote, url, handlerVars, workerVars, kind, crashes>>

(* Mutant: the body is written in place, a broken one leaves a part.       *)
PutFailsInPlace(u) ==
    /\ putting[u]
    /\ putting' = [putting EXCEPT ![u] = FALSE]
    /\ object' = [object EXCEPT ![u] = "part"]
    /\ UNCHANGED <<vars, remote, url, handlerVars, workerVars, kind, crashes>>

PutFails(u) ==
    /\ putting[u]
    /\ putting' = [putting EXCEPT ![u] = FALSE]
    /\ UNCHANGED <<vars, storeVars, url, handlerVars, workerVars, kind, crashes>>

UrlExpires(u) ==
    /\ url[u]
    /\ url' = [url EXCEPT ![u] = FALSE]
    /\ UNCHANGED <<vars, storeVars, putting, handlerVars, workerVars, kind, crashes>>

(* A presigned URL lives for an hour at most, a session for 24.            *)
SessionExpires(u) ==
    /\ ~url[u]
    /\ Expire(u)
    /\ UNCHANGED <<storeVars, clientVars, handlerVars, workerVars, kind, crashes>>

-----------------------------------------------------------------------------
(* completeUpload.  One counter per upload is enough: of several calls at  *)
(* most one passes CompleteClaim, the others change nothing.               *)
CompleteGoes(u, from, to) ==
    /\ completing[u] = from
    /\ completing' = [completing EXCEPT ![u] = to]
    /\ UNCHANGED <<clientVars, creating, aborting, workerVars, kind, crashes>>

CompleteCheck(u) ==
    /\ creating[u] = "returned"
    /\ CanWrite
    /\ CompleteGoes(u, "idle", "checked")
    /\ UNCHANGED <<vars, storeVars>>

CompleteClaim(u) ==
    /\ MarkUploadCompleting(u)
    /\ CompleteGoes(u, "checked", "claimed")
    /\ UNCHANGED storeVars

CompleteRefused(u) ==
    /\ session[u] \notin {"created", "uploading"} \/ expired[u]
    /\ CompleteGoes(u, "checked", "idle")
    /\ UNCHANGED <<vars, storeVars>>

(* 503: the backend cannot be used; the session stays completing.          *)
CompleteUnavailable(u) ==
    /\ CompleteGoes(u, "claimed", "idle")
    /\ UNCHANGED <<vars, storeVars>>

CompleteMultipart(u) ==
    /\ kind[u] = "multipart"
    /\ provider[u]
    /\ remote[u] = "open"
    /\ remote' = [remote EXCEPT ![u] = "closed"]
    /\ \E made \in {"wrong", "whole"} : object' = [object EXCEPT ![u] = made]
    /\ CompleteGoes(u, "claimed", "assembled")
    /\ UNCHANGED vars

(* The part list is invalid, or the provider answers with an error, which  *)
(* does not exclude that it assembled the object.                          *)
CompleteMultipartFails(u) ==
    /\ kind[u] = "multipart"
    /\ \/ UNCHANGED storeVars
       \/ /\ provider[u]
          /\ remote[u] = "open"
          /\ remote' = [remote EXCEPT ![u] = "closed"]
          /\ object' = [object EXCEPT ![u] = "whole"]
    /\ CompleteGoes(u, "claimed", "failing")
    /\ UNCHANGED vars

HeadFrom(u) == IF kind[u] = "multipart" THEN "assembled" ELSE "claimed"

(* Mutant: the object found is not compared with the size expected, nor is *)
(* a missing one noticed.                                                  *)
CompleteHeadUnchecked(u) ==
    /\ CompleteGoes(u, HeadFrom(u), "verified")
    /\ UNCHANGED <<vars, storeVars>>

CompleteHead(u) ==
    /\ object[u] = "whole"
    /\ CompleteGoes(u, HeadFrom(u), "verified")
    /\ UNCHANGED <<vars, storeVars>>

(* Head finds no object or a wrong size, or fails.                         *)
CompleteHeadFails(u) ==
    /\ CompleteGoes(u, HeadFrom(u), "failing")
    /\ UNCHANGED <<vars, storeVars>>

(* Whatever FailUpload answers is ignored.                                 *)
CompleteFails(u) ==
    /\ FailUpload(u) \/ UNCHANGED vars
    /\ CompleteGoes(u, "failing", "idle")
    /\ UNCHANGED storeVars

CompleteFinalize(u) ==
    /\ FinalizeUpload(u)
    /\ CompleteGoes(u, "verified", "idle")
    /\ UNCHANGED storeVars

(* FinalizeUpload rolls back: the blob is no longer pending, the node to   *)
(* replace is gone or the name is taken.  The session stays as it is.      *)
CompleteConflicts(u) ==
    /\ \/ blob[u] # "pending"
       \/ target[u] # None /\ node[target[u]] # "live"
       \/ target[u] = None /\ ~SlotFree(want[u])
    /\ CompleteGoes(u, "verified", "idle")
    /\ UNCHANGED <<vars, storeVars>>

-----------------------------------------------------------------------------
(* abortUpload.  The remote abort comes first, before any look at the      *)
(* session's status, and its error is ignored.                             *)
AbortRemote(u) ==
    /\ creating[u] = "returned"
    /\ ~aborting[u]
    /\ CanWrite
    /\ aborting' = [aborting EXCEPT ![u] = TRUE]
    /\ \/ UNCHANGED remote
       \/ /\ provider[u]
          /\ remote[u] = "open"
          /\ remote' = [remote EXCEPT ![u] = "closed"]
    /\ UNCHANGED <<vars, object, clientVars, creating, completing, workerVars,
                   kind, crashes>>

AbortStore(u) ==
    /\ aborting[u]
    /\ AbortUpload(u) \/ (session[u] \notin OpenStatus /\ UNCHANGED vars)
    /\ aborting' = [aborting EXCEPT ![u] = FALSE]
    /\ UNCHANGED <<storeVars, clientVars, creating, completing, workerVars, kind, crashes>>

(* The client goes away and the context of its request is cancelled: the   *)
(* next call of the handler that uses it fails, also a FailUpload meant to *)
(* clean up.                                                               *)
RequestDropped(u) ==
    /\ \/ /\ creating[u] \in {"stored", "opened"}
          /\ creating' = [creating EXCEPT ![u] = "lost"]
          /\ UNCHANGED <<completing, aborting>>
       \/ /\ completing[u] # "idle"
          /\ completing' = [completing EXCEPT ![u] = "idle"]
          /\ UNCHANGED <<creating, aborting>>
       \/ /\ aborting[u]
          /\ aborting' = [aborting EXCEPT ![u] = FALSE]
          /\ UNCHANGED <<creating, completing>>
    /\ UNCHANGED <<vars, storeVars, clientVars, workerVars, kind, crashes>>

(* The other requests that change files are single transactions; when they *)
(* run, the permission their handlers read may be out of date.             *)
FileRequest ==
    /\ \/ \E S \in SUBSET Upload : DeleteNode(S)
       \/ \E n \in Upload, s \in Slot : UpdateNode(n, s)
       \/ MarkProjectDeleting
    /\ UNCHANGED <<storeVars, clientVars, handlerVars, workerVars, kind, crashes>>

-----------------------------------------------------------------------------
(* The worker: one goroutine, one item at a time.                          *)
WorkerGoes(from, to) ==
    /\ phase = from
    /\ phase' = to
    /\ UNCHANGED <<clientVars, handlerVars, kind, crashes>>

(* The item x is dealt with; the list goes on or the worker waits.         *)
ItemDone(from, list, x) ==
    /\ WorkerGoes(from, IF todo = {x} THEN "idle" ELSE list)
    /\ todo' = todo \ {x}
    /\ at' = None

WorkerBoot ==
    /\ WorkerGoes("boot", "idle")
    /\ RecoverRunningJobs
    /\ UNCHANGED <<storeVars, todo, at>>

WorkerClaim(S) ==
    /\ WorkerGoes("idle", "jobs")
    /\ Cardinality(S) <= ClaimLimit
    /\ ClaimJobs(S)
    /\ todo' = S
    /\ UNCHANGED <<storeVars, at>>

(* execute: adapter.Delete, for which a missing object is no error.        *)
JobRemove(j) ==
    /\ j \in todo
    /\ WorkerGoes("jobs", "removed")
    /\ object' = [object EXCEPT ![j[1]] = "absent"]
    /\ at' = j
    /\ UNCHANGED <<vars, remote, todo>>

(* The backend is unknown or disabled, or the delete fails.                *)
JobFails(j) ==
    /\ j \in todo
    /\ ItemDone("jobs", "jobs", j)
    /\ FailJob(j)
    /\ UNCHANGED storeVars

JobMark ==
    /\ WorkerGoes("removed", "marked")
    /\ MarkBlobDeleted(at[1])
    /\ UNCHANGED <<storeVars, todo, at>>

JobCompletes ==
    /\ ItemDone("marked", "jobs", at)
    /\ CompleteJob(at)
    /\ UNCHANGED storeVars

(* Mutant: the query forgets the sessions left completing.                 *)
OverdueBeforeCompleting ==
    {u \in Upload : session[u] \in {"created", "uploading"} /\ expired[u]}

(* Mutant: the query does not compare expires_at.                          *)
OverdueAtOnce == {u \in Upload : session[u] \in OpenStatus}

Overdue == {u \in Upload : session[u] \in OpenStatus /\ expired[u]}

(* cleanupUploads reads a snapshot of the sessions to expire.              *)
SweepStart(S) ==
    /\ WorkerGoes("idle", "sweep")
    /\ S # {}
    /\ S \subseteq Overdue
    /\ S = Overdue \/ Cardinality(S) = SweepLimit
    /\ todo' = S
    /\ UNCHANGED <<vars, storeVars, at>>

(* For a session of the snapshot, abort the multipart upload, which is an  *)
(* error when the provider no longer has it, or else delete the object.    *)
SweepRemove(u) ==
    /\ u \in todo
    /\ WorkerGoes("sweep", "swept")
    /\ IF kind[u] = "multipart" /\ provider[u]
       THEN /\ remote[u] = "open"
            /\ remote' = [remote EXCEPT ![u] = "closed"]
            /\ UNCHANGED object
       ELSE /\ object' = [object EXCEPT ![u] = "absent"]
            /\ UNCHANGED remote
    /\ at' = u
    /\ UNCHANGED <<vars, todo>>

SweepSkips(u) ==
    /\ u \in todo
    /\ ItemDone("sweep", "sweep", u)
    /\ UNCHANGED <<vars, storeVars>>

SweepExpire ==
    /\ ItemDone("swept", "sweep", at)
    /\ ExpireUpload(at) \/ (session[at] \notin OpenStatus /\ UNCHANGED vars)
    /\ UNCHANGED storeVars

(* The server process dies and is started again.  Requests in progress and *)
(* the worker's list are gone; the database, the objects and a client's    *)
(* PUT to the provider are not.                                            *)
Crash ==
    /\ crashes < MaxCrashes
    /\ crashes' = crashes + 1
    /\ creating' = [u \in Upload |->
                      CASE creating[u] = "checked" -> "idle"
                        [] creating[u] \in {"stored", "opened"} -> "lost"
                        [] OTHER -> creating[u]]
    /\ completing' = [u \in Upload |-> "idle"]
    /\ aborting' = [u \in Upload |-> FALSE]
    /\ putting' = [u \in Upload |-> putting[u] /\ kind[u] = "single"]
    /\ phase' = "boot"
    /\ todo' = {}
    /\ at' = None
    /\ UNCHANGED <<vars, storeVars, url, kind>>

-----------------------------------------------------------------------------
CreateRequest(u) ==
    \/ CreateCheck(u)
    \/ \E s \in Slot, overwrite \in BOOLEAN : CreateStore(u, s, overwrite)
    \/ CreateTarget(u)
    \/ CreateFails(u)
    \/ CreateRecord(u)

ContentStep(u) ==
    PutStart(u) \/ PutFinish(u) \/ PutFails(u) \/ UrlExpires(u) \/ SessionExpires(u)

CompleteRequest(u) ==
    \/ CompleteCheck(u)
    \/ CompleteClaim(u)
    \/ CompleteRefused(u)
    \/ CompleteUnavailable(u)
    \/ CompleteMultipart(u)
    \/ CompleteMultipartFails(u)
    \/ CompleteHead(u)
    \/ CompleteHeadFails(u)
    \/ CompleteFails(u)
    \/ CompleteFinalize(u)
    \/ CompleteConflicts(u)

AbortRequest(u) == AbortRemote(u) \/ AbortStore(u)

Worker ==
    \/ WorkerBoot
    \/ \E S \in SUBSET Job : WorkerClaim(S)
    \/ \E j \in Job : JobRemove(j) \/ JobFails(j)
    \/ JobMark
    \/ JobCompletes
    \/ \E S \in SUBSET Upload : SweepStart(S)
    \/ \E u \in Upload : SweepRemove(u) \/ SweepSkips(u)
    \/ SweepExpire

ServiceNext ==
    \/ \E u \in Upload : \/ CreateRequest(u)
                         \/ ContentStep(u)
                         \/ CompleteRequest(u)
                         \/ AbortRequest(u)
                         \/ RequestDropped(u)
    \/ FileRequest
    \/ Worker
    \/ Crash

ServiceSpec == ServiceInit /\ [][ServiceNext]_svars

(* Fairness.  Nothing is assumed of clients, requests or the clock.  The   *)
(* worker keeps running (its restarts are bounded): each of its steps is   *)
(* taken when it can be; both tickers keep firing and select picks among   *)
(* the ready ones at random, so neither list is ignored for ever, and jobs *)
(* are claimed oldest first; and the storage does not refuse for ever to   *)
(* remove one and the same object of a sweep.                              *)
Fairness ==
    /\ WF_svars(Worker)
    /\ \A j \in Job :
          SF_svars(\E S \in SUBSET Job : j \in S /\ WorkerClaim(S))
    /\ \A u \in Upload :
          /\ SF_svars(\E S \in SUBSET Upload : u \in S /\ SweepStart(S))
          /\ SF_svars(SweepRemove(u))

FairServiceSpec == ServiceSpec /\ Fairness

-----------------------------------------------------------------------------
(* SAFETY                                                                  *)

(* What a visible file's content is: whole, unless the sweep of a session  *)
(* that expired while it was being completed removed it, or a client's     *)
(* presigned PUT overwrote it.  Nothing else, and no job, touches it.      *)
ContentKept ==
    \A n \in Live :
        /\ object[current[n]] = "absent" => expired[current[n]]
        /\ object[current[n]] = "wrong" => kind[current[n]] = "single"

(* docs/api.md, upload protocol: a file only appears once it is complete,  *)
(* the server having checked that the object exists and has the expected   *)
(* size before it commits the metadata.                                    *)
PublishedHasObject == \A n \in Live : object[current[n]] # "absent"

(* Content on its way out is never forgotten: a deleting blob has a job    *)
(* that will delete it, or one that was given up, or its object was swept  *)
(* with its expired session.                                               *)
DeletingHasJob ==
    \A u \in Upload :
        blob[u] = "deleting" =>
            \/ session[u] = "expired"
            \/ \E c \in Cause : job[<<u, c>>] \in {"pending", "running", "failed"}

(* A deleted project shows no file again, although CreateUpload and        *)
(* FinalizeUpload never look at the project and permissions are read long  *)
(* before the transactions they allow.                                     *)
NoFileInDeletedProject == project = "deleting" => Live = {}

(* LIVENESS                                                                *)

(* An expired session is eventually closed, whatever its handlers were     *)
(* doing and however often the server restarted.                           *)
OverdueSessionsClose ==
    \A u \in Upload :
        (session[u] \in OpenStatus /\ expired[u]) ~> session[u] \notin OpenStatus

(* A queued job is eventually done or given up, restarts included.         *)
JobsFinish ==
    \A j \in Job : job[j] \in {"pending", "running"} ~> job[j] \in {"done", "failed"}
=============================================================================
