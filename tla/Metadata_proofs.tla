--------------------------- MODULE Metadata_proofs ---------------------------
(***************************************************************************)
(* Proofs about Metadata, for any sets of uploads and names and any number *)
(* of attempts: the type invariant, and the safety invariants from one     *)
(* inductive invariant.                                                    *)
(***************************************************************************)
EXTENDS Metadata, TLAPS

-----------------------------------------------------------------------------
(* The inductive invariant.  The four invariants TLC checks support each   *)
(* other: a job's blob is disposed of because the blob a live node names   *)
(* was active, it is still active because no job may exist for it, and the *)
(* retirement of one node's blob spares every other node because no two    *)
(* nodes share one.                                                        *)

(* A blob row exists exactly when its session row does, no node comes      *)
(* before them, and a session knows the name it is for.                    *)
RowsPaired ==
    \A u \in Upload : /\ session[u] = "none" <=> blob[u] = "none"
                      /\ session[u] = "none" => node[u] = "none"
                      /\ session[u] # "none" => want[u] \in Slot

(* Only a completed session has an active blob: what protects a file from  *)
(* abort, failure and expiry, which look at the session alone.             *)
ActiveIsCompleted ==
    \A u \in Upload : blob[u] = "active" => session[u] = "completed"

LiveHasActive ==
    \A n \in Live : current[n] \in Upload /\ blob[current[n]] = "active"

OneOwner == \A m, n \in Live : current[m] = current[n] => m = n

ActiveHasOwner ==
    \A u \in Upload : blob[u] = "active" => \E n \in Live : current[n] = u

(* The unique index on live names.                                         *)
NamesUnique ==
    \A m, n \in Live : slot[m] \in Slot /\ (slot[m] = slot[n] => m = n)

IInv ==
    /\ TypeOK
    /\ RowsPaired
    /\ PendingIsOpen
    /\ ActiveIsCompleted
    /\ JobMeansDisposed
    /\ LiveHasActive
    /\ OneOwner
    /\ ActiveHasOwner
    /\ NamesUnique

-----------------------------------------------------------------------------
(* TYPE CORRECTNESS                                                        *)

(* The steps, named as the proofs below split them.                        *)
LEMMA NextCases ==
    ASSUME Next
    PROVE  \/ \E u \in Upload :
                \/ \E s \in Slot, overwrite \in BOOLEAN : CreateUpload(u, s, overwrite)
                \/ SetProviderUploadID(u)
                \/ MarkUploadCompleting(u)
                \/ session[u] \notin {"created", "uploading"} /\ FinalizeReplace(u)
                \/ session[u] \notin {"created", "uploading"} /\ FinalizeInsert(u)
                \/ AbortUpload(u)
                \/ session[u] \notin {"completed", "failed"} /\ FailUpload(u)
                \/ ExpireUpload(u)
                \/ Expire(u)
           \/ \E S \in SUBSET Upload : DeleteNode(S)
           \/ \E n \in Upload, s \in Slot : UpdateNode(n, s)
           \/ MarkProjectDeleting
           \/ \E S \in SUBSET Job : ClaimJobs(S)
           \/ RecoverRunningJobs
           \/ \E j \in Job : /\ job[j] = "running"
                             /\ MarkBlobDeleted(j[1]) \/ CompleteJob(j) \/ FailJob(j)
BY DEF Next, UploadStep, NodeStep, JobStep, FinalizeUpload

LEMMA InsertJobsType ==
    ASSUME TypeOK, NEW blobs, NEW cause, InsertJobs(blobs, cause)
    PROVE  /\ job' \in [Job -> JobStatus \cup {"none"}]
           /\ attempts' \in [Job -> Nat]
BY DEF TypeOK, InsertJobs, JobStatus

LEMMA RetiredType ==
    ASSUME TypeOK, NEW blobs
    PROVE  Retired(blobs) \in [Upload -> BlobStatus \cup {"none"}]
BY DEF TypeOK, Retired, BlobStatus

LEMMA CloseSessionType ==
    ASSUME TypeOK, NEW u \in Upload, NEW n \in Upload, CloseSession(u, n)
    PROVE  /\ session' \in [Upload -> SessionStatus \cup {"none"}]
           /\ target' \in [Upload -> Upload \cup {None}]
BY DEF TypeOK, CloseSession, SessionStatus

LEMMA TypeInit == Init => TypeOK
BY DEF Init, TypeOK, SessionStatus, BlobStatus, JobStatus

LEMMA TypeStep == TypeOK /\ [Next]_vars => TypeOK'
<1> SUFFICES ASSUME TypeOK, [Next]_vars PROVE TypeOK'
    OBVIOUS
<1> USE DEF TypeOK, SessionStatus, OpenStatus, BlobStatus, JobStatus
<1>1. ASSUME NEW u \in Upload, NEW s \in Slot, NEW overwrite \in BOOLEAN,
             CreateUpload(u, s, overwrite)
      PROVE  TypeOK'
  BY <1>1 DEF CreateUpload, Live, nodeVars, jobVars
<1>2. ASSUME NEW u \in Upload, SetProviderUploadID(u) PROVE TypeOK'
  BY <1>2 DEF SetProviderUploadID, nodeVars, jobVars
<1>3. ASSUME NEW u \in Upload, MarkUploadCompleting(u) PROVE TypeOK'
  BY <1>3 DEF MarkUploadCompleting, nodeVars, jobVars
<1>4. ASSUME NEW u \in Upload, FinalizeReplace(u) PROVE TypeOK'
  <2>1. target[u] \in Upload
    BY <1>4 DEF FinalizeReplace
  <2>2. blob' \in [Upload -> BlobStatus \cup {"none"}]
    BY <1>4, RetiredType DEF FinalizeReplace
  <2>3. /\ job' \in [Job -> JobStatus \cup {"none"}]
        /\ attempts' \in [Job -> Nat]
    BY <1>4, InsertJobsType DEF FinalizeReplace
  <2>4. /\ session' \in [Upload -> SessionStatus \cup {"none"}]
        /\ target' \in [Upload -> Upload \cup {None}]
    BY <1>4, <2>1, CloseSessionType DEF FinalizeReplace
  <2> QED
    BY <1>4, <2>1, <2>2, <2>3, <2>4 DEF FinalizeReplace
<1>5. ASSUME NEW u \in Upload, FinalizeInsert(u) PROVE TypeOK'
  <2>1. /\ session' \in [Upload -> SessionStatus \cup {"none"}]
        /\ target' \in [Upload -> Upload \cup {None}]
    BY <1>5, CloseSessionType DEF FinalizeInsert
  <2> QED
    BY <1>5, <2>1 DEF FinalizeInsert, jobVars
<1>6. ASSUME NEW u \in Upload, AbortUpload(u) PROVE TypeOK'
  BY <1>6, InsertJobsType DEF AbortUpload, nodeVars
<1>7. ASSUME NEW u \in Upload, FailUpload(u) PROVE TypeOK'
  BY <1>7, InsertJobsType DEF FailUpload, nodeVars
<1>8. ASSUME NEW u \in Upload, ExpireUpload(u) PROVE TypeOK'
  BY <1>8 DEF ExpireUpload, nodeVars, jobVars
<1>9. ASSUME NEW u \in Upload, Expire(u) PROVE TypeOK'
  BY <1>9 DEF Expire, sessionVars, nodeVars, jobVars
<1>10. ASSUME NEW S \in SUBSET Upload, DeleteNode(S) PROVE TypeOK'
  BY <1>10, InsertJobsType, RetiredType DEF DeleteNode, sessionVars
<1>11. ASSUME NEW n \in Upload, NEW s \in Slot, UpdateNode(n, s) PROVE TypeOK'
  BY <1>11 DEF UpdateNode, sessionVars, jobVars
<1>12. CASE MarkProjectDeleting
  BY <1>12, InsertJobsType DEF MarkProjectDeleting, sessionVars
<1>13. ASSUME NEW S \in SUBSET Job, ClaimJobs(S) PROVE TypeOK'
  BY <1>13 DEF ClaimJobs, sessionVars, nodeVars
<1>14. CASE RecoverRunningJobs
  BY <1>14 DEF RecoverRunningJobs, sessionVars, nodeVars
<1>15. ASSUME NEW j \in Job, MarkBlobDeleted(j[1]) PROVE TypeOK'
  BY <1>15 DEF MarkBlobDeleted, sessionVars, nodeVars, jobVars
<1>16. ASSUME NEW j \in Job, CompleteJob(j) PROVE TypeOK'
  BY <1>16 DEF CompleteJob, sessionVars, nodeVars
<1>17. ASSUME NEW j \in Job, FailJob(j) PROVE TypeOK'
  BY <1>17 DEF FailJob, sessionVars, nodeVars
<1>18. CASE UNCHANGED vars
  BY <1>18 DEF vars, sessionVars, nodeVars, jobVars
<1> QED
  BY <1>1, <1>2, <1>3, <1>4, <1>5, <1>6, <1>7, <1>8, <1>9, <1>10, <1>11,
     <1>12, <1>13, <1>14, <1>15, <1>16, <1>17, <1>18, NextCases

(* Every column holds a value the schema's CHECK constraints allow: the    *)
(* status strings the transactions of package repository write are the     *)
(* ones their tables admit.                                                *)
THEOREM TypeCorrect == Spec => []TypeOK
<1>1. Init => TypeOK
  BY TypeInit
<1>2. TypeOK /\ [Next]_vars => TypeOK'
  BY TypeStep
<1> QED
  BY <1>1, <1>2, PTL DEF Spec

-----------------------------------------------------------------------------
(* THE INDUCTIVE INVARIANT                                                 *)

LEMMA IInvInit == Init => IInv
BY TypeInit, MetadataAssumption
   DEF Init, IInv, RowsPaired, PendingIsOpen, ActiveIsCompleted, JobMeansDisposed,
       LiveHasActive, OneOwner, ActiveHasOwner, NamesUnique, Live, Job

(* Steps of the worker's queue and of the clock: the files and their       *)
(* sessions stay, and no job appears.                                      *)
LEMMA QueueStep ==
    ASSUME IInv, TypeOK',
           UNCHANGED <<session, want, blob, node, slot, current>>,
           \A j \in Job : job'[j] # "none" => job[j] # "none"
    PROVE  IInv'
BY DEF IInv, RowsPaired, PendingIsOpen, ActiveIsCompleted, JobMeansDisposed,
       LiveHasActive, OneOwner, ActiveHasOwner, NamesUnique, Live, OpenStatus

(* What InsertJobs does to the existence of jobs, and Retired to a blob.   *)
LEMMA InsertJobsFact ==
    ASSUME NEW blobs, NEW cause, InsertJobs(blobs, cause), NEW j \in Job
    PROVE  j[1] \notin blobs => job'[j] = job[j]
BY DEF InsertJobs

LEMMA RetiredFact ==
    ASSUME NEW blobs, NEW b \in Upload
    PROVE  /\ blob[b] # "active" => Retired(blobs)[b] = blob[b]
           /\ b \notin blobs => Retired(blobs)[b] = blob[b]
           /\ b \in blobs /\ blob[b] = "active" => Retired(blobs)[b] = "deleting"
BY DEF Retired

(* A session is given up: AbortUpload, FailUpload or ExpireUpload.  Its    *)
(* blob was not active, so no file is touched.                             *)
LEMMA GiveUpStep ==
    ASSUME IInv, TypeOK', NEW u \in Upload, NEW status,
           session[u] \notin {"none", "completed"},
           status \in {"aborted", "failed", "expired"},
           session' = [session EXCEPT ![u] = status],
           blob' = [blob EXCEPT ![u] = "deleting"],
           \A j \in Job : j[1] # u => job'[j] = job[j],
           UNCHANGED <<want, node, slot, current>>
    PROVE  IInv'
<1> USE DEF IInv
<1>1. blob[u] # "active"
  BY DEF ActiveIsCompleted
<1>2. Live' = Live
  BY DEF Live
<1>3. RowsPaired' /\ PendingIsOpen' /\ ActiveIsCompleted'
  BY DEF TypeOK, RowsPaired, PendingIsOpen, ActiveIsCompleted, OpenStatus
<1>4. JobMeansDisposed'
  BY DEF TypeOK, JobMeansDisposed, Job
<1>5. LiveHasActive' /\ ActiveHasOwner'
  BY <1>1, <1>2 DEF TypeOK, LiveHasActive, ActiveHasOwner
<1>6. OneOwner' /\ NamesUnique'
  BY <1>2 DEF OneOwner, NamesUnique
<1> QED
  BY <1>3, <1>4, <1>5, <1>6

(* A session moves between open states: SetProviderUploadID and            *)
(* MarkUploadCompleting.                                                   *)
LEMMA OpenStep ==
    ASSUME IInv, TypeOK', NEW u \in Upload, NEW status \in OpenStatus,
           session[u] \in OpenStatus,
           session' = [session EXCEPT ![u] = status],
           UNCHANGED <<want, blob, node, slot, current, job>>
    PROVE  IInv'
<1> USE DEF IInv
<1>1. RowsPaired' /\ PendingIsOpen' /\ ActiveIsCompleted' /\ JobMeansDisposed'
  BY DEF TypeOK, RowsPaired, PendingIsOpen, ActiveIsCompleted, JobMeansDisposed,
         OpenStatus
<1>2. LiveHasActive' /\ ActiveHasOwner' /\ OneOwner' /\ NamesUnique'
  BY DEF LiveHasActive, ActiveHasOwner, OneOwner, NamesUnique, Live
<1> QED
  BY <1>1, <1>2

LEMMA CreateUploadStep ==
    ASSUME IInv, TypeOK', NEW u \in Upload, NEW s \in Slot,
           NEW overwrite \in BOOLEAN, CreateUpload(u, s, overwrite)
    PROVE  IInv'
<1> USE DEF IInv, CreateUpload, nodeVars, jobVars
<1>1. session[u] = "none" /\ blob[u] = "none" /\ node[u] = "none"
  BY DEF RowsPaired
<1>2. Live' = Live
  BY DEF Live
<1>3. RowsPaired'
  BY DEF TypeOK, RowsPaired
<1>4. ActiveIsCompleted' /\ JobMeansDisposed'
  BY <1>1 DEF TypeOK, ActiveIsCompleted, JobMeansDisposed, Job
<1>5. LiveHasActive' /\ ActiveHasOwner'
  BY <1>1, <1>2 DEF TypeOK, LiveHasActive, ActiveHasOwner
<1>6. OneOwner' /\ NamesUnique'
  BY <1>2 DEF OneOwner, NamesUnique
<1>7. PendingIsOpen'
  BY <1>1 DEF TypeOK, PendingIsOpen, OpenStatus
<1> QED
  BY <1>3, <1>4, <1>5, <1>6, <1>7

(* FinalizeUpload replacing: node n takes blob u and its old blob is       *)
(* retired.  The old blob was active and n its only owner.                 *)
LEMMA FinalizeReplaceStep ==
    ASSUME IInv, TypeOK', NEW u \in Upload,
           session[u] \notin {"created", "uploading"}, FinalizeReplace(u)
    PROVE  IInv'
<1> USE DEF IInv
<1> DEFINE n == target[u]
           old == current[n]
<1>1. /\ n \in Live
      /\ old \in Upload
      /\ blob[old] = "active"
      /\ blob[u] = "pending"
      /\ session[u] = "completing"
      /\ current' = [current EXCEPT ![n] = u]
      /\ node' = node /\ slot' = slot /\ want' = want
      /\ InsertJobs({old}, "retire")
  BY DEF TypeOK, FinalizeReplace, Live, LiveHasActive, PendingIsOpen, OpenStatus
<1>2. /\ blob' = [blob EXCEPT ![old] = "deleting", ![u] = "active"]
      /\ session' = [session EXCEPT ![u] = "completed"]
  <2>1. Retired({old}) = [blob EXCEPT ![old] = "deleting"]
    BY <1>1 DEF TypeOK, Retired
  <2> QED
    BY <1>1, <2>1 DEF FinalizeReplace, CloseSession
<1>3. Live' = Live
  BY <1>1 DEF Live
<1>4. \A m \in Live : m # n => current[m] # old
  BY <1>1 DEF OneOwner
<1>5. RowsPaired' /\ PendingIsOpen' /\ ActiveIsCompleted'
  BY <1>1, <1>2 DEF TypeOK, RowsPaired, PendingIsOpen, ActiveIsCompleted, OpenStatus
<1>6. JobMeansDisposed'
  BY <1>1, <1>2, InsertJobsFact DEF TypeOK, JobMeansDisposed, Job
<1>7. LiveHasActive'
  BY <1>1, <1>2, <1>3, <1>4 DEF TypeOK, LiveHasActive, Live
<1>8. OneOwner'
  BY <1>1, <1>3 DEF TypeOK, OneOwner, LiveHasActive, Live
<1>9. ActiveHasOwner'
  BY <1>1, <1>2, <1>3 DEF TypeOK, ActiveHasOwner, Live
<1>10. NamesUnique'
  BY <1>1, <1>3 DEF NamesUnique
<1> QED
  BY <1>5, <1>6, <1>7, <1>8, <1>9, <1>10

(* FinalizeUpload inserting: node u takes blob u and a free name.          *)
LEMMA FinalizeInsertStep ==
    ASSUME IInv, TypeOK', NEW u \in Upload,
           session[u] \notin {"created", "uploading"}, FinalizeInsert(u)
    PROVE  IInv'
<1> USE DEF IInv
<1>1. /\ blob[u] = "pending"
      /\ session[u] = "completing"
      /\ node[u] = "none"
      /\ want[u] \in Slot
      /\ SlotFree(want[u])
      /\ want' = want /\ job' = job
      /\ current' = [current EXCEPT ![u] = u]
      /\ slot' = [slot EXCEPT ![u] = want[u]]
      /\ blob' = [blob EXCEPT ![u] = "active"]
      /\ node' = [node EXCEPT ![u] = "live"]
  BY DEF FinalizeInsert, RowsPaired, PendingIsOpen, OpenStatus, jobVars
<1>2. session' = [session EXCEPT ![u] = "completed"]
  BY <1>1 DEF FinalizeInsert, CloseSession
<1>3. Live' = Live \cup {u} /\ u \notin Live
  BY <1>1 DEF TypeOK, Live
<1>4. \A m \in Live : current[m] # u
  BY <1>1 DEF LiveHasActive
<1>5. RowsPaired' /\ PendingIsOpen' /\ ActiveIsCompleted' /\ JobMeansDisposed'
  BY <1>1, <1>2 DEF TypeOK, RowsPaired, PendingIsOpen, ActiveIsCompleted,
                    JobMeansDisposed, OpenStatus, Job
<1>6. LiveHasActive'
  BY <1>1, <1>3 DEF TypeOK, LiveHasActive, Live
<1>7. OneOwner' /\ ActiveHasOwner'
  BY <1>1, <1>3, <1>4 DEF TypeOK, OneOwner, ActiveHasOwner, Live
<1>8. NamesUnique'
  BY <1>1, <1>3 DEF TypeOK, NamesUnique, SlotFree, Live
<1> QED
  BY <1>5, <1>6, <1>7, <1>8

(* DeleteNode: the blobs of the deleted nodes are retired, and no node     *)
(* that stays owned one of them.                                           *)
LEMMA DeleteNodeStep ==
    ASSUME IInv, TypeOK', NEW S \in SUBSET Upload, DeleteNode(S)
    PROVE  IInv'
<1> USE DEF IInv
<1> DEFINE old == {current[n] : n \in S}
<1>1. /\ S \subseteq Live
      /\ node' = [n \in Upload |-> IF n \in S THEN "deleted" ELSE node[n]]
      /\ blob' = Retired(old)
      /\ InsertJobs(old, "retire")
      /\ session' = session /\ want' = want /\ slot' = slot /\ current' = current
  BY DEF DeleteNode, sessionVars
<1>2. Live' = Live \ S
  BY <1>1 DEF Live
<1>3. \A b \in old : b \in Upload /\ blob[b] = "active"
  BY <1>1 DEF LiveHasActive
<1>4. \A b \in Upload : blob'[b] = IF b \in old THEN "deleting" ELSE blob[b]
  BY <1>1, <1>3, RetiredFact
<1>5. \A n \in Live' : current[n] \notin old
  BY <1>1, <1>2 DEF OneOwner
<1> HIDE DEF old
<1>6. RowsPaired' /\ PendingIsOpen' /\ ActiveIsCompleted'
  BY <1>1, <1>3, <1>4 DEF TypeOK, RowsPaired, PendingIsOpen, ActiveIsCompleted, Live
<1>7. JobMeansDisposed'
  BY <1>1, <1>4, InsertJobsFact DEF JobMeansDisposed, Job
<1>8. LiveHasActive'
  BY <1>1, <1>2, <1>4, <1>5 DEF LiveHasActive
<1>9. OneOwner' /\ NamesUnique'
  BY <1>1, <1>2 DEF OneOwner, NamesUnique
<1>10. ActiveHasOwner'
  BY <1>1, <1>2, <1>4 DEF ActiveHasOwner, old
<1> QED
  BY <1>6, <1>7, <1>8, <1>9, <1>10

LEMMA UpdateNodeStep ==
    ASSUME IInv, TypeOK', NEW n \in Upload, NEW s \in Slot, UpdateNode(n, s)
    PROVE  IInv'
<1> USE DEF IInv, UpdateNode, sessionVars, jobVars
<1>1. Live' = Live
  BY DEF Live
<1>2. RowsPaired' /\ PendingIsOpen' /\ ActiveIsCompleted' /\ JobMeansDisposed'
  BY DEF RowsPaired, PendingIsOpen, ActiveIsCompleted, JobMeansDisposed, OpenStatus
<1>3. LiveHasActive' /\ OneOwner' /\ ActiveHasOwner'
  BY <1>1 DEF LiveHasActive, OneOwner, ActiveHasOwner
<1>4. NamesUnique'
  BY <1>1 DEF TypeOK, NamesUnique, SlotFree, Live
<1> QED
  BY <1>2, <1>3, <1>4

LEMMA MarkProjectDeletingStep ==
    ASSUME IInv, TypeOK', MarkProjectDeleting
    PROVE  IInv'
<1> USE DEF IInv, MarkProjectDeleting, sessionVars
<1> DEFINE old == {u \in Upload : blob[u] \in {"active", "pending"}}
<1>1. Live' = {}
  BY DEF TypeOK, Live
<1>2. \A b \in Upload : blob'[b] = IF b \in old THEN "deleting" ELSE blob[b]
  OBVIOUS
<1>3. \A b \in Upload : blob'[b] \notin {"active", "pending"}
  BY <1>2
<1>4. RowsPaired'
  BY <1>2 DEF TypeOK, RowsPaired, Live
<1>5. PendingIsOpen' /\ ActiveIsCompleted' /\ ActiveHasOwner'
  BY <1>3 DEF PendingIsOpen, ActiveIsCompleted, ActiveHasOwner
<1>6. JobMeansDisposed'
  BY <1>2, InsertJobsFact DEF JobMeansDisposed, Job
<1>7. LiveHasActive' /\ OneOwner' /\ NamesUnique'
  BY <1>1 DEF LiveHasActive, OneOwner, NamesUnique
<1> QED
  BY <1>4, <1>5, <1>6, <1>7

(* MarkBlobDeleted runs for a job, and a job's blob is not active.         *)
LEMMA MarkBlobDeletedStep ==
    ASSUME IInv, TypeOK', NEW j \in Job, job[j] # "none", MarkBlobDeleted(j[1])
    PROVE  IInv'
<1> USE DEF IInv, MarkBlobDeleted, sessionVars, nodeVars, jobVars
<1>1. j[1] \in Upload /\ blob[j[1]] \in {"deleting", "deleted"}
  BY DEF JobMeansDisposed, Job
<1>2. Live' = Live
  BY DEF Live
<1>3. RowsPaired' /\ PendingIsOpen' /\ ActiveIsCompleted' /\ JobMeansDisposed'
  BY <1>1 DEF TypeOK, RowsPaired, PendingIsOpen, ActiveIsCompleted,
              JobMeansDisposed, OpenStatus, Job
<1>4. LiveHasActive' /\ OneOwner' /\ ActiveHasOwner' /\ NamesUnique'
  BY <1>1, <1>2 DEF TypeOK, LiveHasActive, OneOwner, ActiveHasOwner, NamesUnique
<1> QED
  BY <1>3, <1>4

LEMMA IInvStep == IInv /\ [Next]_vars => IInv'
<1> SUFFICES ASSUME IInv, [Next]_vars PROVE IInv'
    OBVIOUS
<1>0. TypeOK /\ TypeOK'
  BY TypeStep DEF IInv
<1>1. ASSUME NEW u \in Upload, NEW s \in Slot, NEW overwrite \in BOOLEAN,
             CreateUpload(u, s, overwrite)
      PROVE  IInv'
  BY <1>0, <1>1, CreateUploadStep
<1>2. ASSUME NEW u \in Upload, SetProviderUploadID(u) PROVE IInv'
  <2>1. /\ session[u] \in OpenStatus
        /\ session' = [session EXCEPT ![u] = "uploading"]
        /\ UNCHANGED <<want, blob, node, slot, current, job>>
    BY <1>2 DEF SetProviderUploadID, OpenStatus, nodeVars, jobVars
  <2>2. "uploading" \in OpenStatus
    BY DEF OpenStatus
  <2> QED
    BY <1>0, <2>1, <2>2, OpenStep
<1>3. ASSUME NEW u \in Upload, MarkUploadCompleting(u) PROVE IInv'
  <2>1. /\ session[u] \in OpenStatus
        /\ session' = [session EXCEPT ![u] = "completing"]
        /\ UNCHANGED <<want, blob, node, slot, current, job>>
    BY <1>3 DEF MarkUploadCompleting, OpenStatus, nodeVars, jobVars
  <2>2. "completing" \in OpenStatus
    BY DEF OpenStatus
  <2> QED
    BY <1>0, <2>1, <2>2, OpenStep
<1>4. ASSUME NEW u \in Upload, session[u] \notin {"created", "uploading"},
             FinalizeReplace(u)
      PROVE  IInv'
  BY <1>0, <1>4, FinalizeReplaceStep
<1>5. ASSUME NEW u \in Upload, session[u] \notin {"created", "uploading"},
             FinalizeInsert(u)
      PROVE  IInv'
  BY <1>0, <1>5, FinalizeInsertStep
<1>6. ASSUME NEW u \in Upload, AbortUpload(u) PROVE IInv'
  <2>1. /\ session[u] \notin {"none", "completed"}
        /\ session' = [session EXCEPT ![u] = "aborted"]
        /\ blob' = [blob EXCEPT ![u] = "deleting"]
        /\ UNCHANGED <<want, node, slot, current>>
    BY <1>6 DEF AbortUpload, OpenStatus, nodeVars
  <2>2. \A j \in Job : j[1] # u => job'[j] = job[j]
    BY <1>6, InsertJobsFact DEF AbortUpload
  <2> QED
    BY <1>0, <2>1, <2>2, GiveUpStep
<1>7. ASSUME NEW u \in Upload, session[u] \notin {"completed", "failed"},
             FailUpload(u)
      PROVE  IInv'
  <2>1. /\ session[u] \notin {"none", "completed"}
        /\ session' = [session EXCEPT ![u] = "failed"]
        /\ blob' = [blob EXCEPT ![u] = "deleting"]
        /\ UNCHANGED <<want, node, slot, current>>
    BY <1>7 DEF FailUpload, nodeVars
  <2>2. \A j \in Job : j[1] # u => job'[j] = job[j]
    BY <1>7, InsertJobsFact DEF FailUpload
  <2> QED
    BY <1>0, <2>1, <2>2, GiveUpStep
<1>8. ASSUME NEW u \in Upload, ExpireUpload(u) PROVE IInv'
  <2>1. /\ session[u] \notin {"none", "completed"}
        /\ session' = [session EXCEPT ![u] = "expired"]
        /\ blob' = [blob EXCEPT ![u] = "deleting"]
        /\ UNCHANGED <<want, node, slot, current, job>>
    BY <1>8 DEF ExpireUpload, OpenStatus, nodeVars, jobVars
  <2> QED
    BY <1>0, <2>1, GiveUpStep
<1>9. ASSUME NEW u \in Upload, Expire(u) PROVE IInv'
  BY <1>0, <1>9, QueueStep DEF Expire, sessionVars, nodeVars, jobVars
<1>10. ASSUME NEW S \in SUBSET Upload, DeleteNode(S) PROVE IInv'
  BY <1>0, <1>10, DeleteNodeStep
<1>11. ASSUME NEW n \in Upload, NEW s \in Slot, UpdateNode(n, s) PROVE IInv'
  BY <1>0, <1>11, UpdateNodeStep
<1>12. CASE MarkProjectDeleting
  BY <1>0, <1>12, MarkProjectDeletingStep
<1>13. ASSUME NEW S \in SUBSET Job, ClaimJobs(S) PROVE IInv'
  <2>1. \A j \in Job : job'[j] # "none" => job[j] # "none"
    BY <1>13 DEF ClaimJobs
  <2> QED
    BY <1>0, <1>13, <2>1, QueueStep DEF ClaimJobs, sessionVars, nodeVars
<1>14. CASE RecoverRunningJobs
  <2>1. \A j \in Job : job'[j] # "none" => job[j] # "none"
    BY <1>14 DEF RecoverRunningJobs
  <2> QED
    BY <1>0, <1>14, <2>1, QueueStep DEF RecoverRunningJobs, sessionVars, nodeVars
<1>15. ASSUME NEW j \in Job, job[j] = "running", MarkBlobDeleted(j[1])
       PROVE  IInv'
  BY <1>0, <1>15, MarkBlobDeletedStep
<1>16. ASSUME NEW j \in Job, job[j] = "running", CompleteJob(j) PROVE IInv'
  <2>1. \A i \in Job : job'[i] # "none" => job[i] # "none"
    BY <1>0, <1>16 DEF CompleteJob, TypeOK
  <2> QED
    BY <1>0, <1>16, <2>1, QueueStep DEF CompleteJob, sessionVars, nodeVars
<1>17. ASSUME NEW j \in Job, job[j] = "running", FailJob(j) PROVE IInv'
  <2>1. \A i \in Job : job'[i] # "none" => job[i] # "none"
    BY <1>0, <1>17 DEF FailJob, TypeOK
  <2> QED
    BY <1>0, <1>17, <2>1, QueueStep DEF FailJob, sessionVars, nodeVars
<1>18. CASE UNCHANGED vars
  <2>1. UNCHANGED <<session, want, blob, node, slot, current, job>>
    BY <1>18 DEF vars
  <2> QED
    BY <1>0, <2>1, QueueStep
<1> QED
  BY <1>1, <1>2, <1>3, <1>4, <1>5, <1>6, <1>7, <1>8, <1>9, <1>10, <1>11,
     <1>12, <1>13, <1>14, <1>15, <1>16, <1>17, <1>18, NextCases

LEMMA IInvAlways == Spec => []IInv
BY IInvInit, IInvStep, PTL DEF Spec

(* A live file is always backed by the active blob of a completed upload,  *)
(* whatever handlers, worker and clock do to the rows in between.          *)
THEOREM FilesAreBacked == Spec => []LiveFileBacked
<1>1. IInv => LiveFileBacked
  BY DEF IInv, LiveHasActive, ActiveIsCompleted, LiveFileBacked
<1> QED
  BY <1>1, IInvAlways, PTL

(* An active blob is the current one of exactly one live node: no content  *)
(* is kept for nobody, and none is shared.                                 *)
THEOREM ActiveBlobsAreCurrent == Spec => []ActiveIsCurrent
<1>1. IInv => ActiveIsCurrent
  BY DEF IInv, ActiveHasOwner, OneOwner, ActiveIsCurrent
<1> QED
  BY <1>1, IInvAlways, PTL

(* A delete_blob job exists only for a blob being disposed of, so a worker *)
(* that checks no status deletes no content in use.                        *)
THEOREM JobsDeleteNoFile == Spec => []JobMeansDisposed
<1>1. IInv => JobMeansDisposed
  BY DEF IInv
<1> QED
  BY <1>1, IInvAlways, PTL

(* A pending blob belongs to an open session and to no node: whichever of  *)
(* complete, abort, failure and expiry closes a session decides its blob.  *)
THEOREM PendingBlobsAreOpen == Spec => []PendingIsOpen
<1>1. IInv => PendingIsOpen
  BY DEF IInv
<1> QED
  BY <1>1, IInvAlways, PTL

-----------------------------------------------------------------------------
(* REFINEMENT: the transactions implement Namespace                        *)

(* A name chosen by a unique owner is that owner's.                        *)
LEMMA UniqueChoice ==
    ASSUME NEW L, NEW at, NEW n \in L, \A m \in L : at[m] = at[n] => m = n
    PROVE  /\ \E m \in L : at[m] = at[n]
           /\ (CHOOSE m \in L : at[m] = at[n]) = n
OBVIOUS

(* The abstract file at a name is the current blob of the one live node    *)
(* there, before a step and after it.                                      *)
LEMMA FilesBefore ==
    ASSUME NamesUnique
    PROVE  /\ \A n \in Live : FileAt(slot[n]) = current[n]
           /\ \A s : SlotFree(s) => FileAt(s) = None
<1>1. ASSUME NEW n \in Live PROVE FileAt(slot[n]) = current[n]
  <2>1. \A m \in Live : slot[m] = slot[n] => m = n
    BY DEF NamesUnique
  <2>2. /\ \E m \in Live : slot[m] = slot[n]
        /\ (CHOOSE m \in Live : slot[m] = slot[n]) = n
    BY <2>1, UniqueChoice
  <2> QED
    BY <2>2 DEF FileAt
<1> QED
  BY <1>1 DEF FileAt, SlotFree

LEMMA FilesAfter ==
    ASSUME NamesUnique'
    PROVE  /\ \A n \in Live' : FileAt(slot[n])' = current'[n]
           /\ \A s : SlotFree(s)' => FileAt(s)' = None
<1>1. ASSUME NEW n \in Live' PROVE FileAt(slot[n])' = current'[n]
  <2>1. \A m \in Live' : slot'[m] = slot'[n] => m = n
    BY DEF NamesUnique
  <2>2. /\ \E m \in Live' : slot'[m] = slot'[n]
        /\ (CHOOSE m \in Live' : slot'[m] = slot'[n]) = n
    BY <2>1, UniqueChoice
  <2> QED
    BY <2>2 DEF FileAt
<1> QED
  BY <1>1 DEF FileAt, SlotFree

LEMMA SameFiles ==
    ASSUME UNCHANGED <<node, slot, current>>
    PROVE  \A s : FileAt(s)' = FileAt(s)
BY DEF FileAt, Live

(* Steps that touch no file and decide no blob change nothing users see.   *)
LEMMA Invisible ==
    ASSUME UNCHANGED <<node, slot, current>>, Decided' = Decided
    PROVE  UNCHANGED NS!nsVars
BY SameFiles DEF NS!nsVars

LEMMA RefinesInit == Init => NS!NsInit
BY DEF Init, NS!NsInit, FileAt, Live, Decided

(* Giving up an upload spends its ticket.                                  *)
LEMMA GiveUpRefines ==
    ASSUME TypeOK, NEW u \in Upload, blob' = [blob EXCEPT ![u] = "deleting"],
           UNCHANGED <<node, slot, current>>
    PROVE  NS!NsNext
<1> DEFINE given == {u} \ Decided
<1>1. Decided' = Decided \cup given
  BY DEF TypeOK, Decided
<1>2. NS!Discard({}, given)
  BY <1>1, SameFiles DEF NS!Discard
<1>3. given \in SUBSET Upload /\ {} \in SUBSET Slot
  OBVIOUS
<1> QED
  BY <1>2, <1>3 DEF NS!NsNext

(* Replacing publishes blob u under the name of node n.                    *)
LEMMA FinalizeReplaceRefines ==
    ASSUME IInv, IInv', NEW u \in Upload, FinalizeReplace(u)
    PROVE  NS!NsNext
<1> DEFINE n == target[u]
<1>1. /\ n \in Live /\ slot[n] \in Slot
      /\ blob[u] = "pending"
      /\ node' = node /\ slot' = slot
      /\ current' = [current EXCEPT ![n] = u]
      /\ blob' = [Retired({current[n]}) EXCEPT ![u] = "active"]
  BY DEF FinalizeReplace, IInv, TypeOK, Live, NamesUnique
<1>2. Live' = Live
  BY <1>1 DEF Live
<1>3. Decided' = Decided \cup {u} /\ u \notin Decided
  <2>1. \A b \in Upload : b # u => blob'[b] = Retired({current[n]})[b]
    BY <1>1 DEF Retired
  <2>2. \A b \in Upload : b # u => (b \in Decided' <=> b \in Decided)
    BY <2>1, RetiredFact DEF Decided
  <2>3. blob'[u] = "active"
    BY <1>1 DEF Retired
  <2> QED
    BY <1>1, <2>2, <2>3 DEF Decided
<1>4. \A s \in Slot : FileAt(s)' = IF s = slot[n] THEN u ELSE FileAt(s)
  <2> SUFFICES ASSUME NEW s \in Slot
               PROVE  FileAt(s)' = IF s = slot[n] THEN u ELSE FileAt(s)
    OBVIOUS
  <2>1. CASE SlotFree(s)
    <3>1. SlotFree(s)' /\ s # slot[n]
      BY <1>1, <1>2, <2>1 DEF SlotFree
    <3> QED
      BY <2>1, <3>1, FilesBefore, FilesAfter DEF IInv
  <2>2. CASE ~SlotFree(s)
    <3>1. PICK m \in Live : slot[m] = s
      BY <2>2 DEF SlotFree
    <3>2. FileAt(s) = current[m] /\ FileAt(s)' = current'[m]
      BY <1>1, <1>2, <3>1, FilesBefore, FilesAfter DEF IInv
    <3>3. m = n <=> s = slot[n]
      BY <1>1, <3>1 DEF IInv, NamesUnique
    <3>4. current'[m] = IF m = n THEN u ELSE current[m]
      BY <1>1, <3>1 DEF IInv, TypeOK, Live
    <3> QED
      BY <3>2, <3>3, <3>4
  <2> QED
    BY <2>1, <2>2
<1>5. NS!Publish(u, slot[n])
  BY <1>1, <1>3, <1>4 DEF NS!Publish
<1> QED
  BY <1>1, <1>5 DEF NS!NsNext

(* Inserting publishes blob u under the name its session wants.            *)
LEMMA FinalizeInsertRefines ==
    ASSUME IInv, IInv', NEW u \in Upload, FinalizeInsert(u)
    PROVE  NS!NsNext
<1> DEFINE t == want[u]
<1>1. /\ blob[u] = "pending" /\ node[u] = "none"
      /\ t \in Slot /\ SlotFree(t)
      /\ node' = [node EXCEPT ![u] = "live"]
      /\ slot' = [slot EXCEPT ![u] = t]
      /\ current' = [current EXCEPT ![u] = u]
      /\ blob' = [blob EXCEPT ![u] = "active"]
  BY DEF FinalizeInsert, IInv, PendingIsOpen, RowsPaired, OpenStatus
<1>2. Live' = Live \cup {u} /\ u \notin Live
  BY <1>1 DEF IInv, TypeOK, Live
<1>3. Decided' = Decided \cup {u} /\ u \notin Decided
  BY <1>1 DEF IInv, TypeOK, Decided
<1>4. slot'[u] = t /\ current'[u] = u
  BY <1>1 DEF IInv, TypeOK
<1>5. \A m \in Live : slot'[m] = slot[m] /\ current'[m] = current[m]
  BY <1>1, <1>2 DEF IInv, TypeOK, Live
<1>6. \A s \in Slot : FileAt(s)' = IF s = t THEN u ELSE FileAt(s)
  <2> SUFFICES ASSUME NEW s \in Slot
               PROVE  FileAt(s)' = IF s = t THEN u ELSE FileAt(s)
    OBVIOUS
  <2>1. CASE s = t
    BY <1>2, <1>4, <2>1, FilesAfter DEF IInv
  <2>2. CASE s # t /\ SlotFree(s)
    <3>1. SlotFree(s)'
      BY <1>2, <1>4, <1>5, <2>2 DEF SlotFree
    <3> QED
      BY <2>2, <3>1, FilesBefore, FilesAfter DEF IInv
  <2>3. CASE s # t /\ ~SlotFree(s)
    <3>1. PICK m \in Live : slot[m] = s
      BY <2>3 DEF SlotFree
    <3> QED
      BY <1>2, <1>5, <2>3, <3>1, FilesBefore, FilesAfter DEF IInv
  <2> QED
    BY <2>1, <2>2, <2>3
<1>7. NS!Publish(u, t)
  BY <1>3, <1>6 DEF NS!Publish
<1> QED
  BY <1>1, <1>7 DEF NS!NsNext

(* Deleting nodes empties their names; their blobs stay decided.           *)
LEMMA DeleteNodeRefines ==
    ASSUME IInv, IInv', NEW S \in SUBSET Upload, DeleteNode(S)
    PROVE  NS!NsNext
<1> DEFINE gone == {slot[n] : n \in S}
<1>1. /\ S \subseteq Live
      /\ node' = [n \in Upload |-> IF n \in S THEN "deleted" ELSE node[n]]
      /\ blob' = Retired({current[n] : n \in S})
      /\ slot' = slot /\ current' = current
  BY DEF DeleteNode
<1>2. Live' = Live \ S
  BY <1>1 DEF Live
<1>3. Decided' = Decided
  BY <1>1 DEF Decided, Retired
<1>4. gone \in SUBSET Slot
  BY <1>1 DEF IInv, NamesUnique
<1>5. \A s \in Slot : FileAt(s)' = IF s \in gone THEN None ELSE FileAt(s)
  <2> SUFFICES ASSUME NEW s \in Slot
               PROVE  FileAt(s)' = IF s \in gone THEN None ELSE FileAt(s)
    OBVIOUS
  <2>1. CASE s \in gone
    <3>1. PICK n \in S : s = slot[n]
      BY <2>1
    <3>2. \A m \in Live' : slot'[m] # s
      BY <1>1, <1>2, <3>1 DEF IInv, NamesUnique
    <3> QED
      BY <2>1, <3>2, FilesAfter DEF IInv, SlotFree
  <2>2. CASE s \notin gone /\ SlotFree(s)
    <3>1. SlotFree(s)'
      BY <1>1, <1>2, <2>2 DEF SlotFree
    <3> QED
      BY <2>2, <3>1, FilesBefore, FilesAfter DEF IInv
  <2>3. CASE s \notin gone /\ ~SlotFree(s)
    <3>1. PICK m \in Live : slot[m] = s
      BY <2>3 DEF SlotFree
    <3>2. m \in Live'
      BY <1>2, <2>3, <3>1
    <3> QED
      BY <1>1, <2>3, <3>1, <3>2, FilesBefore, FilesAfter DEF IInv
  <2> QED
    BY <2>1, <2>2, <2>3
<1>6. NS!Discard(gone, {})
  BY <1>3, <1>5 DEF NS!Discard
<1>7. {} \in SUBSET Upload
  OBVIOUS
<1> QED
  BY <1>4, <1>6, <1>7 DEF NS!NsNext

(* Renaming or moving moves the version to the free name.                  *)
LEMMA UpdateNodeRefines ==
    ASSUME IInv, IInv', NEW n \in Upload, NEW t \in Slot, UpdateNode(n, t)
    PROVE  NS!NsNext
<1>0. PICK from \in Slot : from = slot[n]
  BY DEF UpdateNode, IInv, NamesUnique
<1>1. /\ n \in Live /\ SlotFree(t) /\ from # t
      /\ slot' = [slot EXCEPT ![n] = t]
      /\ node' = node /\ current' = current /\ blob' = blob
  BY <1>0 DEF UpdateNode, SlotFree
<1>2. Live' = Live /\ Decided' = Decided
  BY <1>1 DEF Live, Decided
<1>3. slot'[n] = t /\ \A m \in Live : m # n => slot'[m] = slot[m]
  BY <1>1 DEF IInv, TypeOK, Live
<1>4. FileAt(from) = current[n] /\ FileAt(t) = None /\ current[n] # None
  BY <1>0, <1>1, FilesBefore, MetadataAssumption DEF IInv, LiveHasActive
<1>5. FileAt(t)' = current[n]
  BY <1>1, <1>2, <1>3, FilesAfter DEF IInv
<1>6. FileAt(from)' = None
  <2>1. \A m \in Live' : slot'[m] # from
    BY <1>0, <1>1, <1>2, <1>3 DEF IInv, NamesUnique
  <2> QED
    BY <2>1, FilesAfter DEF IInv, SlotFree
<1>7. \A s \in Slot : s \notin {from, t} => FileAt(s)' = FileAt(s)
  <2> SUFFICES ASSUME NEW s \in Slot, s \notin {from, t}
               PROVE  FileAt(s)' = FileAt(s)
    OBVIOUS
  <2>1. CASE SlotFree(s)
    <3>1. SlotFree(s)'
      BY <1>0, <1>2, <1>3, <2>1 DEF SlotFree
    <3> QED
      BY <2>1, <3>1, FilesBefore, FilesAfter DEF IInv
  <2>2. CASE ~SlotFree(s)
    <3>1. PICK m \in Live : slot[m] = s
      BY <2>2 DEF SlotFree
    <3> QED
      BY <1>0, <1>1, <1>2, <1>3, <3>1, FilesBefore, FilesAfter DEF IInv
  <2> QED
    BY <2>1, <2>2
<1>8. NS!Move(from, t)
  BY <1>1, <1>2, <1>4, <1>5, <1>6, <1>7 DEF NS!Move
<1> QED
  BY <1>1, <1>8 DEF NS!NsNext

(* A project deletion empties every name and spends the uploads in         *)
(* progress.                                                               *)
LEMMA MarkProjectDeletingRefines ==
    ASSUME IInv, IInv', MarkProjectDeleting
    PROVE  NS!NsNext
<1> DEFINE given == {u \in Upload : blob[u] = "pending"}
<1>1. Live' = {}
  BY DEF MarkProjectDeleting, IInv, TypeOK, Live
<1>2. Decided' = Decided \cup given /\ given \cap Decided = {}
  BY DEF MarkProjectDeleting, Decided
<1>3. \A s \in Slot : FileAt(s)' = None
  BY <1>1, FilesAfter DEF IInv, SlotFree
<1>4. NS!Discard(Slot, given)
  BY <1>2, <1>3 DEF NS!Discard
<1>5. Slot \in SUBSET Slot /\ given \in SUBSET Upload
  OBVIOUS
<1> QED
  BY <1>4, <1>5 DEF NS!NsNext

LEMMA RefinesStep ==
    ASSUME IInv, IInv', [Next]_vars
    PROVE  [NS!NsNext]_(NS!nsVars)
<1>1. ASSUME NEW u \in Upload, NEW s \in Slot, NEW overwrite \in BOOLEAN,
             CreateUpload(u, s, overwrite)
      PROVE  UNCHANGED NS!nsVars
  <2>1. blob[u] = "none" /\ blob' = [blob EXCEPT ![u] = "pending"]
    BY <1>1 DEF CreateUpload, IInv, RowsPaired
  <2>2. Decided' = Decided
    BY <2>1 DEF IInv, TypeOK, Decided
  <2> QED
    BY <1>1, <2>2, Invisible DEF CreateUpload, nodeVars
<1>2. ASSUME NEW u \in Upload,
             \/ SetProviderUploadID(u)
             \/ MarkUploadCompleting(u)
             \/ Expire(u)
      PROVE  UNCHANGED NS!nsVars
  <2>1. UNCHANGED <<blob, node, slot, current>>
    BY <1>2 DEF SetProviderUploadID, MarkUploadCompleting, Expire, nodeVars
  <2> QED
    BY <2>1, Invisible DEF Decided
<1>3. ASSUME NEW u \in Upload, FinalizeReplace(u) PROVE NS!NsNext
  BY <1>3, FinalizeReplaceRefines
<1>4. ASSUME NEW u \in Upload, FinalizeInsert(u) PROVE NS!NsNext
  BY <1>4, FinalizeInsertRefines
<1>5. ASSUME NEW u \in Upload, AbortUpload(u) \/ FailUpload(u) \/ ExpireUpload(u)
      PROVE  NS!NsNext
  <2>1. /\ blob' = [blob EXCEPT ![u] = "deleting"]
        /\ UNCHANGED <<node, slot, current>>
    BY <1>5 DEF AbortUpload, FailUpload, ExpireUpload, nodeVars
  <2> QED
    BY <2>1, GiveUpRefines DEF IInv
<1>6. ASSUME NEW S \in SUBSET Upload, DeleteNode(S) PROVE NS!NsNext
  BY <1>6, DeleteNodeRefines
<1>7. ASSUME NEW n \in Upload, NEW s \in Slot, UpdateNode(n, s) PROVE NS!NsNext
  BY <1>7, UpdateNodeRefines
<1>8. CASE MarkProjectDeleting
  BY <1>8, MarkProjectDeletingRefines
<1>9. ASSUME \/ \E S \in SUBSET Job : ClaimJobs(S)
             \/ RecoverRunningJobs
             \/ \E j \in Job : CompleteJob(j) \/ FailJob(j)
             \/ UNCHANGED vars
      PROVE  UNCHANGED NS!nsVars
  <2>1. UNCHANGED <<blob, node, slot, current>>
    BY <1>9 DEF ClaimJobs, RecoverRunningJobs, CompleteJob, FailJob, nodeVars, vars
  <2> QED
    BY <2>1, Invisible DEF Decided
<1>10. ASSUME NEW j \in Job, job[j] = "running", MarkBlobDeleted(j[1])
       PROVE  UNCHANGED NS!nsVars
  <2>1. j[1] \in Decided /\ blob' = [blob EXCEPT ![j[1]] = "deleted"]
    BY <1>10 DEF MarkBlobDeleted, IInv, JobMeansDisposed, Decided, Job
  <2>2. Decided' = Decided
    BY <2>1 DEF IInv, TypeOK, Decided
  <2> QED
    BY <1>10, <2>2, Invisible DEF MarkBlobDeleted, nodeVars
<1> QED
  BY <1>1, <1>2, <1>3, <1>4, <1>5, <1>6, <1>7, <1>8, <1>9, <1>10, NextCases

(* The transactions implement the namespace users are promised: a version  *)
(* appears at once, under one name, by a ticket spent for good.            *)
THEOREM ImplementsTheNamespace == Spec => ImplementsNamespace
<1>1. Init => NS!NsInit
  BY RefinesInit
<1>2. IInv /\ IInv' /\ [Next]_vars => [NS!NsNext]_(NS!nsVars)
  BY RefinesStep
<1> QED
  BY <1>1, <1>2, IInvAlways, PTL DEF Spec, ImplementsNamespace, NS!NamespaceSpec
=============================================================================
