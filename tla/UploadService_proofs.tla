------------------------- MODULE UploadService_proofs -------------------------
(***************************************************************************)
(* Proofs about UploadService, for any sets of uploads and names, any      *)
(* number of attempts and restarts: handlers and worker keep to what the   *)
(* transactions of Metadata expect of their callers, so that what is       *)
(* proved of Metadata holds of the service; and what becomes of content.   *)
(***************************************************************************)
EXTENDS UploadService, Metadata_proofs

-----------------------------------------------------------------------------
(* THE INVARIANT                                                           *)

(* What a handler's position says of its session.  A complete call past    *)
(* its claim may find the session aborted or expired, but never open for   *)
(* another claim, nor completed or failed, which only it can make it.      *)
HandlersHold ==
    \A u \in Upload :
        /\ creating[u] \in {"idle", "checked"} => session[u] = "none"
        /\ creating[u] \in {"stored", "opened"} => session[u] \in {"created", "expired"}
        /\ creating[u] = "returned" => session[u] # "none"
        /\ creating[u] # "returned" => completing[u] = "idle" /\ ~aborting[u]
        /\ completing[u] \notin {"idle", "checked"} =>
               session[u] \in {"completing", "aborted", "expired"}

(* The jobs a session was given up with; each is queued once.              *)
JobsHaveCause ==
    \A u \in Upload :
        /\ job[<<u, "abort">>] # "none" => session[u] \in {"aborted", "failed"}
        /\ job[<<u, "fail">>] # "none" => session[u] = "failed"

(* The worker's list: jobs it has claimed, or sessions that have expired.  *)
WorkerHolds ==
    /\ phase \in {"jobs", "removed", "marked"} =>
           todo \subseteq Job /\ \A j \in todo : job[j] = "running"
    /\ phase \in {"sweep", "swept"} =>
           todo \subseteq Upload /\ \A u \in todo : expired[u]
    /\ phase \in {"removed", "marked", "swept"} => at \in todo

ServiceInv ==
    IInv /\ ServiceTypeOK /\ HandlersHold /\ JobsHaveCause /\ WorkerHolds

-----------------------------------------------------------------------------
(* TYPE CORRECTNESS                                                        *)
LEMMA ServiceTypeInit == ServiceInit => ServiceTypeOK
<1> SUFFICES ASSUME ServiceInit PROVE ServiceTypeOK
  OBVIOUS
<1>1. kind \in [Upload -> Kinds]
  BY DEF ServiceInit
<1>2. crashes \in 0..MaxCrashes
  BY ServiceAssumption DEF ServiceInit
<1> QED
  BY <1>1, <1>2 DEF ServiceInit, ServiceTypeOK

(* The parts of svars that each of the steps below leaves as they are.     *)
LEMMA TypeOfRequests ==
    ASSUME ServiceTypeOK, NEW u \in Upload,
           CreateRequest(u) \/ AbortRequest(u) \/ RequestDropped(u)
    PROVE  ServiceTypeOK'
<1> USE DEF storeVars, clientVars, handlerVars, workerVars, ServiceTypeOK
<1>1. CASE CreateCheck(u) \/ (\E s \in Slot, overwrite \in BOOLEAN : CreateStore(u, s, overwrite))
  BY <1>1 DEF CreateCheck, CreateStore
<1>2. CASE CreateTarget(u)
  BY <1>2 DEF CreateTarget
<1>3. CASE CreateFails(u)
  BY <1>3 DEF CreateFails
<1>4. CASE CreateRecord(u)
  BY <1>4 DEF CreateRecord
<1>5. CASE AbortRemote(u)
  BY <1>5 DEF AbortRemote
<1>6. CASE AbortStore(u)
  BY <1>6 DEF AbortStore
<1>7. CASE RequestDropped(u)
  BY <1>7 DEF RequestDropped
<1> QED
  BY <1>1, <1>2, <1>3, <1>4, <1>5, <1>6, <1>7 DEF CreateRequest, AbortRequest

LEMMA TypeOfContent ==
    ASSUME ServiceTypeOK, NEW u \in Upload, ContentStep(u)
    PROVE  ServiceTypeOK'
<1> USE DEF storeVars, clientVars, handlerVars, workerVars, ServiceTypeOK
<1>1. CASE PutStart(u)
  BY <1>1 DEF PutStart
<1>2. CASE PutFinish(u)
  BY <1>2 DEF PutFinish
<1>3. CASE PutFails(u) \/ UrlExpires(u) \/ SessionExpires(u)
  BY <1>3 DEF PutFails, UrlExpires, SessionExpires
<1> QED
  BY <1>1, <1>2, <1>3 DEF ContentStep

LEMMA TypeOfComplete ==
    ASSUME ServiceTypeOK, NEW u \in Upload, CompleteRequest(u)
    PROVE  ServiceTypeOK'
<1> USE DEF storeVars, clientVars, workerVars, ServiceTypeOK, CompleteGoes
<1>1. CASE CompleteCheck(u) \/ CompleteClaim(u) \/ CompleteRefused(u) \/ CompleteUnavailable(u)
  BY <1>1 DEF CompleteCheck, CompleteClaim, CompleteRefused, CompleteUnavailable
<1>2. CASE CompleteMultipart(u) \/ CompleteMultipartFails(u)
  BY <1>2 DEF CompleteMultipart, CompleteMultipartFails
<1>3. CASE CompleteHead(u) \/ CompleteHeadFails(u)
  BY <1>3 DEF CompleteHead, CompleteHeadFails
<1>4. CASE CompleteFails(u) \/ CompleteFinalize(u) \/ CompleteConflicts(u)
  BY <1>4 DEF CompleteFails, CompleteFinalize, CompleteConflicts
<1> QED
  BY <1>1, <1>2, <1>3, <1>4 DEF CompleteRequest

LEMMA TypeOfWorker == ServiceTypeOK /\ WorkerHolds /\ Worker => ServiceTypeOK'
<1> SUFFICES ASSUME ServiceTypeOK, WorkerHolds, Worker PROVE ServiceTypeOK'
  OBVIOUS
<1> USE DEF storeVars, clientVars, handlerVars, ServiceTypeOK, WorkerGoes
<1>1. CASE WorkerBoot
  BY <1>1 DEF WorkerBoot
<1>2. ASSUME NEW S \in SUBSET Job, WorkerClaim(S) PROVE ServiceTypeOK'
  BY <1>2 DEF WorkerClaim
<1>3. ASSUME NEW j \in Job, JobRemove(j) PROVE ServiceTypeOK'
  BY <1>3 DEF JobRemove, Job
<1>4. ASSUME NEW j \in Job, JobFails(j) PROVE ServiceTypeOK'
  BY <1>4 DEF JobFails, ItemDone
<1>5. CASE JobMark
  BY <1>5 DEF JobMark
<1>6. CASE JobCompletes
  BY <1>6 DEF JobCompletes, ItemDone
<1>7. ASSUME NEW S \in SUBSET Upload, SweepStart(S) PROVE ServiceTypeOK'
  BY <1>7 DEF SweepStart
<1>8. ASSUME NEW u \in Upload, SweepRemove(u) PROVE ServiceTypeOK'
  BY <1>8 DEF SweepRemove
<1>9. ASSUME NEW u \in Upload, SweepSkips(u) PROVE ServiceTypeOK'
  BY <1>9 DEF SweepSkips, ItemDone
<1>10. CASE SweepExpire
  BY <1>10 DEF SweepExpire, ItemDone
<1> QED
  BY <1>1, <1>2, <1>3, <1>4, <1>5, <1>6, <1>7, <1>8, <1>9, <1>10 DEF Worker

LEMMA ServiceTypeStep == ServiceTypeOK /\ WorkerHolds /\ [ServiceNext]_svars => ServiceTypeOK'
<1> SUFFICES ASSUME ServiceTypeOK, WorkerHolds, [ServiceNext]_svars PROVE ServiceTypeOK'
  OBVIOUS
<1>1. CASE FileRequest
  BY <1>1 DEF FileRequest, storeVars, clientVars, handlerVars, workerVars, ServiceTypeOK
<1>2. CASE Crash
  <2>1. crashes' \in 0..MaxCrashes
    BY <1>2, ServiceAssumption DEF Crash, ServiceTypeOK
  <2>2. creating' \in [Upload -> {"idle", "checked", "stored", "opened", "returned", "lost"}]
    BY <1>2 DEF Crash, ServiceTypeOK
  <2> QED
    BY <1>2, <2>1, <2>2 DEF Crash, storeVars, ServiceTypeOK
<1>3. CASE UNCHANGED svars
  BY <1>3 DEF svars, storeVars, clientVars, handlerVars, workerVars, ServiceTypeOK
<1> QED
  BY <1>1, <1>2, <1>3, TypeOfRequests, TypeOfContent, TypeOfComplete, TypeOfWorker
     DEF ServiceNext

-----------------------------------------------------------------------------
(* EVERY STEP IS A TRANSACTION THAT ITS CALLER MAY RUN, OR NONE            *)
LEMMA UploadMakes ==
    ASSUME NEW u \in Upload, UploadStep(u)
    PROVE  [Next]_vars
BY DEF Next

(* Creating fails a session that is open or expired.                       *)
LEMMA CreateRefines ==
    ASSUME HandlersHold, NEW u \in Upload, CreateRequest(u)
    PROVE  UploadStep(u) \/ UNCHANGED vars
<1>1. CASE CreateCheck(u) \/ CreateTarget(u)
  BY <1>1 DEF CreateCheck, CreateTarget
<1>2. ASSUME NEW s \in Slot, NEW overwrite \in BOOLEAN, CreateStore(u, s, overwrite)
      PROVE  UploadStep(u)
  BY <1>2 DEF CreateStore, UploadStep
<1>3. CASE CreateFails(u)
  <2>1. session[u] \in {"created", "expired"}
    BY <1>3 DEF CreateFails, HandlersHold
  <2>2. FailUpload(u) \/ UNCHANGED vars
    BY <1>3, Zenon DEF CreateFails
  <2> QED
    BY <2>1, <2>2 DEF UploadStep
<1>4. CASE CreateRecord(u)
  <2>1. SetProviderUploadID(u) \/ UNCHANGED vars
    BY <1>4, Zenon DEF CreateRecord
  <2> QED
    BY <2>1 DEF UploadStep
<1> QED
  BY <1>1, <1>2, <1>3, <1>4 DEF CreateRequest

(* Completing fails and publishes what it has claimed, or somebody else    *)
(* has given up since.                                                     *)
LEMMA CompleteRefines ==
    ASSUME HandlersHold, NEW u \in Upload, CompleteRequest(u)
    PROVE  UploadStep(u) \/ UNCHANGED vars
<1>1. CASE CompleteClaim(u)
  BY <1>1 DEF CompleteClaim, UploadStep
<1>2. CASE CompleteFails(u)
  <2>1. session[u] \in {"completing", "aborted", "expired"}
    BY <1>2 DEF CompleteFails, CompleteGoes, HandlersHold
  <2>2. FailUpload(u) \/ UNCHANGED vars
    BY <1>2, Zenon DEF CompleteFails
  <2> QED
    BY <2>1, <2>2 DEF UploadStep
<1>3. CASE CompleteFinalize(u)
  <2>1. session[u] \in {"completing", "aborted", "expired"}
    BY <1>3 DEF CompleteFinalize, CompleteGoes, HandlersHold
  <2> QED
    BY <1>3, <2>1 DEF CompleteFinalize, UploadStep
<1>4. CASE \/ CompleteCheck(u) \/ CompleteRefused(u) \/ CompleteUnavailable(u)
           \/ CompleteMultipart(u) \/ CompleteMultipartFails(u)
           \/ CompleteHead(u) \/ CompleteHeadFails(u) \/ CompleteConflicts(u)
  BY <1>4 DEF CompleteCheck, CompleteRefused, CompleteUnavailable, CompleteMultipart,
              CompleteMultipartFails, CompleteHead, CompleteHeadFails, CompleteConflicts
<1> QED
  BY <1>1, <1>2, <1>3, <1>4 DEF CompleteRequest

LEMMA OthersRefine ==
    ASSUME NEW u \in Upload, ContentStep(u) \/ AbortRequest(u) \/ RequestDropped(u)
    PROVE  UploadStep(u) \/ UNCHANGED vars
<1>1. CASE ContentStep(u)
  BY <1>1 DEF ContentStep, PutStart, PutFinish, PutFails, UrlExpires, SessionExpires, UploadStep
<1>2. CASE AbortRequest(u)
  BY <1>2 DEF AbortRequest, AbortRemote, AbortStore, UploadStep
<1>3. CASE RequestDropped(u)
  BY <1>3 DEF RequestDropped
<1> QED
  BY <1>1, <1>2, <1>3

(* The worker finishes jobs it has claimed, and expires sessions that a    *)
(* query returned as expired.                                              *)
LEMMA WorkerRefines ==
    ASSUME WorkerHolds, Worker
    PROVE  JobStep \/ (\E u \in Upload : UploadStep(u)) \/ UNCHANGED vars
<1>1. CASE WorkerBoot
  BY <1>1 DEF WorkerBoot, JobStep
<1>2. ASSUME NEW S \in SUBSET Job, WorkerClaim(S) PROVE JobStep
  BY <1>2 DEF WorkerClaim, JobStep
<1>3. ASSUME NEW j \in Job, JobRemove(j) PROVE UNCHANGED vars
  BY <1>3 DEF JobRemove
<1>4. ASSUME NEW j \in Job, JobFails(j) PROVE JobStep
  <2>1. job[j] = "running" /\ FailJob(j)
    BY <1>4 DEF JobFails, ItemDone, WorkerGoes, WorkerHolds
  <2> QED
    BY <2>1 DEF JobStep
<1>5. CASE JobMark \/ JobCompletes
  <2>1. at \in Job /\ job[at] = "running"
    BY <1>5 DEF JobMark, JobCompletes, ItemDone, WorkerGoes, WorkerHolds
  <2> QED
    BY <1>5, <2>1 DEF JobMark, JobCompletes, JobStep
<1>6. ASSUME NEW S \in SUBSET Upload, SweepStart(S) PROVE UNCHANGED vars
  BY <1>6 DEF SweepStart
<1>7. ASSUME NEW u \in Upload, SweepRemove(u) \/ SweepSkips(u) PROVE UNCHANGED vars
  BY <1>7 DEF SweepRemove, SweepSkips
<1>8. CASE SweepExpire
  <2>1. at \in Upload /\ expired[at]
    BY <1>8 DEF SweepExpire, ItemDone, WorkerGoes, WorkerHolds
  <2>2. ExpireUpload(at) \/ UNCHANGED vars
    BY <1>8 DEF SweepExpire
  <2> QED
    BY <2>1, <2>2 DEF UploadStep
<1> QED
  BY <1>1, <1>2, <1>3, <1>4, <1>5, <1>6, <1>7, <1>8 DEF Worker

LEMMA ServiceRefines == HandlersHold /\ WorkerHolds /\ [ServiceNext]_svars => [Next]_vars
<1> SUFFICES ASSUME HandlersHold, WorkerHolds, [ServiceNext]_svars PROVE [Next]_vars
  OBVIOUS
<1>1. ASSUME NEW u \in Upload,
             CreateRequest(u) \/ ContentStep(u) \/ CompleteRequest(u) \/ AbortRequest(u)
             \/ RequestDropped(u)
      PROVE  [Next]_vars
  BY <1>1, CreateRefines, CompleteRefines, OthersRefine, UploadMakes
<1>2. CASE FileRequest
  BY <1>2 DEF FileRequest, Next, NodeStep
<1>3. CASE Worker
  BY <1>3, WorkerRefines, UploadMakes DEF Next
<1>4. CASE Crash \/ UNCHANGED svars
  BY <1>4 DEF Crash, svars
<1> QED
  BY <1>1, <1>2, <1>3, <1>4 DEF ServiceNext

-----------------------------------------------------------------------------
(* JOBS                                                                    *)
LEMMA JobParts ==
    ASSUME NEW u \in Upload, NEW c \in Cause
    PROVE  <<u, c>> \in Job /\ <<u, c>>[1] = u /\ <<u, c>>[2] = c
BY DEF Job

LEMMA JobIsPair ==
    ASSUME NEW j \in Job
    PROVE  j[1] \in Upload /\ j[2] \in Cause /\ j = <<j[1], j[2]>>
BY DEF Job

LEMMA InsertedJob ==
    ASSUME NEW blobs, NEW cause, InsertJobs(blobs, cause), NEW u \in Upload, NEW c \in Cause
    PROVE  job'[<<u, c>>] = IF u \in blobs /\ c = cause THEN "pending" ELSE job[<<u, c>>]
BY JobParts DEF InsertJobs

(* The blobs of files, and those a project shows or waits for, have no job *)
(* yet.                                                                    *)
LEMMA NoJobYet ==
    ASSUME IInv, NEW u \in Upload, blob[u] \in {"active", "pending"}, NEW c \in Cause
    PROVE  job[<<u, c>>] = "none"
BY JobParts DEF IInv, JobMeansDisposed

(* What the transactions of handlers and users do to jobs: the ones there  *)
(* are stay as they are, and each of a session given up is queued once.    *)
LEMMA JobsStay ==
    ASSUME IInv, JobsHaveCause, (\E u \in Upload : UploadStep(u)) \/ NodeStep
    PROVE  \A j \in Job : job[j] # "none" => job'[j] = job[j]
<1> SUFFICES ASSUME NEW v \in Upload, NEW c \in Cause, job[<<v, c>>] # "none"
             PROVE  job'[<<v, c>>] = job[<<v, c>>]
  BY JobIsPair
<1>1. ASSUME NEW u \in Upload, UploadStep(u), ~UNCHANGED job
      PROVE  \/ FinalizeReplace(u)
             \/ AbortUpload(u)
             \/ session[u] # "failed" /\ FailUpload(u)
  BY <1>1 DEF UploadStep, CreateUpload, SetProviderUploadID, MarkUploadCompleting,
              FinalizeUpload, FinalizeInsert, ExpireUpload, Expire, jobVars
<1>2. ASSUME NEW u \in Upload, FinalizeReplace(u) PROVE job'[<<v, c>>] = job[<<v, c>>]
  <2>1. target[u] \in Live
    BY <1>2 DEF FinalizeReplace, IInv, TypeOK, Live
  <2>2. InsertJobs({current[target[u]]}, "retire")
    BY <1>2 DEF FinalizeReplace
  <2>3. v # current[target[u]]
    BY <2>1, NoJobYet DEF IInv, LiveHasActive
  <2> QED
    BY <2>2, <2>3, InsertedJob
<1>3. ASSUME NEW u \in Upload, AbortUpload(u) PROVE job'[<<v, c>>] = job[<<v, c>>]
  <2>1. InsertJobs({u}, "abort") /\ session[u] \in OpenStatus
    BY <1>3 DEF AbortUpload
  <2>2. ~(v = u /\ c = "abort")
    BY <2>1 DEF JobsHaveCause, OpenStatus
  <2> QED
    BY <2>1, <2>2, InsertedJob
<1>4. ASSUME NEW u \in Upload, session[u] # "failed", FailUpload(u)
      PROVE  job'[<<v, c>>] = job[<<v, c>>]
  <2>1. InsertJobs({u}, "fail")
    BY <1>4 DEF FailUpload
  <2>2. ~(v = u /\ c = "fail")
    BY <1>4 DEF JobsHaveCause
  <2> QED
    BY <2>1, <2>2, InsertedJob
<1>5. ASSUME NEW S \in SUBSET Upload, DeleteNode(S) PROVE job'[<<v, c>>] = job[<<v, c>>]
  <2>1. InsertJobs({current[n] : n \in S}, "retire") /\ S \subseteq Live
    BY <1>5 DEF DeleteNode
  <2>2. v \notin {current[n] : n \in S}
    BY <2>1, NoJobYet DEF IInv, LiveHasActive
  <2> QED
    BY <2>1, <2>2, InsertedJob
<1>6. ASSUME MarkProjectDeleting PROVE job'[<<v, c>>] = job[<<v, c>>]
  <2>1. InsertJobs({u \in Upload : blob[u] \in {"active", "pending"}}, "retire")
    BY <1>6 DEF MarkProjectDeleting
  <2>2. blob[v] \notin {"active", "pending"}
    BY NoJobYet
  <2> QED
    BY <2>1, <2>2, InsertedJob
<1>7. ASSUME NEW n \in Upload, NEW s \in Slot, UpdateNode(n, s) PROVE UNCHANGED job
  BY <1>7 DEF UpdateNode, jobVars
<1> QED
  BY <1>1, <1>2, <1>3, <1>4, <1>5, <1>6, <1>7 DEF NodeStep

LEMMA CausesStep == IInv /\ JobsHaveCause /\ [Next]_vars => JobsHaveCause'
<1> SUFFICES ASSUME IInv, JobsHaveCause, [Next]_vars, NEW v \in Upload
             PROVE  /\ job'[<<v, "abort">>] # "none" => session'[v] \in {"aborted", "failed"}
                    /\ job'[<<v, "fail">>] # "none" => session'[v] = "failed"
  BY DEF JobsHaveCause
<1> DEFINE a == <<v, "abort">>
           f == <<v, "fail">>
<1>0. /\ a \in Job /\ f \in Job /\ "abort" \in Cause /\ "fail" \in Cause
      /\ session \in [Upload -> SessionStatus \cup {"none"}]
      /\ job \in [Job -> JobStatus \cup {"none"}]
  BY JobParts DEF Cause, IInv, TypeOK
<1>1. /\ job[a] # "none" => session[v] \in {"aborted", "failed"}
      /\ job[f] # "none" => session[v] = "failed"
  BY DEF JobsHaveCause
<1> HIDE DEF a, f
<1>2. CASE /\ job'[a] # "none" => job[a] # "none"
           /\ job'[f] # "none" => job[f] # "none"
           /\ \/ session'[v] = session[v]
              \/ session[v] \in OpenStatus \cup {"none"}
              \/ session'[v] = "failed"
  BY <1>1, <1>2 DEF OpenStatus, a, f
<1>3. ASSUME NEW u \in Upload, NEW s \in Slot, NEW overwrite \in BOOLEAN,
             CreateUpload(u, s, overwrite)
      PROVE  UNCHANGED job /\ (session'[v] = session[v] \/ session[v] = "none")
  BY <1>0, <1>3 DEF CreateUpload, jobVars
<1>4. ASSUME NEW u \in Upload,
             SetProviderUploadID(u) \/ MarkUploadCompleting(u) \/ ExpireUpload(u) \/ Expire(u)
      PROVE  UNCHANGED job /\ (session'[v] = session[v] \/ session[v] \in OpenStatus)
  BY <1>0, <1>4 DEF SetProviderUploadID, MarkUploadCompleting, ExpireUpload, Expire, jobVars,
                    sessionVars, OpenStatus
<1>5. ASSUME NEW u \in Upload, FinalizeReplace(u) \/ FinalizeInsert(u)
      PROVE  /\ job'[a] = job[a] /\ job'[f] = job[f]
             /\ session'[v] = session[v] \/ session[v] \in OpenStatus
  <2>1. session'[v] = session[v] \/ session[v] \in OpenStatus
    BY <1>0, <1>5 DEF FinalizeReplace, FinalizeInsert, CloseSession, OpenStatus
  <2>2. CASE FinalizeInsert(u)
    BY <2>1, <2>2 DEF FinalizeInsert, jobVars
  <2>3. CASE FinalizeReplace(u)
    BY <1>0, <2>1, <2>3, InsertedJob DEF FinalizeReplace, a, f
  <2> QED
    BY <1>5, <2>2, <2>3
<1>6. ASSUME NEW u \in Upload, AbortUpload(u)
      PROVE  /\ job'[a] # "none" => session'[v] \in {"aborted", "failed"}
             /\ job'[f] # "none" => session'[v] = "failed"
  <2>1. /\ InsertJobs({u}, "abort") /\ session[u] \in OpenStatus
        /\ session' = [session EXCEPT ![u] = "aborted"]
    BY <1>6 DEF AbortUpload
  <2>2. job'[f] = job[f] /\ (v # u => job'[a] = job[a])
    BY <1>0, <2>1, InsertedJob DEF a, f
  <2> QED
    BY <1>0, <1>1, <2>1, <2>2 DEF OpenStatus
<1>7. ASSUME NEW u \in Upload, FailUpload(u)
      PROVE  /\ job'[a] # "none" => session'[v] \in {"aborted", "failed"}
             /\ job'[f] # "none" => session'[v] = "failed"
  <2>1. InsertJobs({u}, "fail") /\ session' = [session EXCEPT ![u] = "failed"]
    BY <1>7 DEF FailUpload
  <2>2. v # u => job'[a] = job[a] /\ job'[f] = job[f]
    BY <1>0, <2>1, InsertedJob DEF a, f
  <2> QED
    BY <1>0, <1>1, <2>1, <2>2
<1>8. ASSUME NodeStep
      PROVE  UNCHANGED session /\ job'[a] = job[a] /\ job'[f] = job[f]
  <2>1. ASSUME NEW S \in SUBSET Upload, DeleteNode(S)
        PROVE  UNCHANGED session /\ job'[a] = job[a] /\ job'[f] = job[f]
    BY <1>0, <2>1, InsertedJob DEF DeleteNode, sessionVars, a, f
  <2>2. ASSUME NEW n \in Upload, NEW s \in Slot, UpdateNode(n, s) PROVE UNCHANGED <<session, job>>
    BY <2>2 DEF UpdateNode, sessionVars, jobVars
  <2>3. ASSUME MarkProjectDeleting
        PROVE  UNCHANGED session /\ job'[a] = job[a] /\ job'[f] = job[f]
    BY <1>0, <2>3, InsertedJob DEF MarkProjectDeleting, sessionVars, a, f
  <2> QED
    BY <1>8, <2>1, <2>2, <2>3 DEF NodeStep
<1>9. ASSUME JobStep
      PROVE  UNCHANGED session /\ \A j \in Job : job'[j] # "none" => job[j] # "none"
  <2>1. ASSUME NEW S \in SUBSET Job, ClaimJobs(S)
        PROVE  UNCHANGED session /\ \A j \in Job : job'[j] # "none" => job[j] # "none"
    BY <2>1 DEF ClaimJobs, sessionVars
  <2>2. ASSUME RecoverRunningJobs
        PROVE  UNCHANGED session /\ \A j \in Job : job'[j] # "none" => job[j] # "none"
    BY <2>2 DEF RecoverRunningJobs, sessionVars
  <2>3. ASSUME NEW i \in Job, job[i] = "running",
               MarkBlobDeleted(i[1]) \/ CompleteJob(i) \/ FailJob(i)
        PROVE  UNCHANGED session /\ \A j \in Job : job'[j] # "none" => job[j] # "none"
    BY <1>0, <2>3 DEF MarkBlobDeleted, CompleteJob, FailJob, sessionVars, jobVars
  <2> QED
    BY <1>9, <2>1, <2>2, <2>3 DEF JobStep
<1>10. CASE UNCHANGED vars
  BY <1>1, <1>10 DEF vars, a, f
<1>11. CASE \E u \in Upload : UploadStep(u)
  BY <1>2, <1>3, <1>4, <1>5, <1>6, <1>7, <1>11 DEF UploadStep, FinalizeUpload, a, f
<1> QED
  BY <1>0, <1>2, <1>8, <1>9, <1>10, <1>11 DEF Next

-----------------------------------------------------------------------------
(* POSITIONS OF HANDLERS                                                   *)

(* The part of the invariant about one upload.                             *)
Position(cr, co, ab, se) ==
    /\ cr \in {"idle", "checked"} => se = "none"
    /\ cr \in {"stored", "opened"} => se \in {"created", "expired"}
    /\ cr = "returned" => se # "none"
    /\ cr # "returned" => co = "idle" /\ ~ab
    /\ co \notin {"idle", "checked"} => se \in {"completing", "aborted", "expired"}

(* A step of one upload leaves the others' positions.                      *)
LEMMA OthersStay ==
    ASSUME HandlersHold, NEW u \in Upload,
           \A v \in Upload \ {u} :
              /\ creating'[v] = creating[v] /\ completing'[v] = completing[v]
              /\ aborting'[v] = aborting[v] /\ session'[v] = session[v],
           Position(creating'[u], completing'[u], aborting'[u], session'[u])
    PROVE  HandlersHold'
BY DEF HandlersHold, Position

LEMMA HandlersCreate ==
    ASSUME TypeOK, ServiceTypeOK, HandlersHold, NEW u \in Upload, CreateRequest(u)
    PROVE  HandlersHold'
<1>0. Position(creating[u], completing[u], aborting[u], session[u])
  BY DEF HandlersHold, Position
<1> USE <1>0 DEF TypeOK, ServiceTypeOK, Position
<1>1. CASE CreateCheck(u)
  BY <1>1, OthersStay DEF CreateCheck, vars
<1>2. ASSUME NEW s \in Slot, NEW overwrite \in BOOLEAN, CreateStore(u, s, overwrite)
      PROVE  HandlersHold'
  BY <1>2, OthersStay DEF CreateStore, CreateUpload
<1>3. CASE CreateTarget(u)
  BY <1>3, OthersStay DEF CreateTarget, vars
<1>4. CASE CreateFails(u)
  <2>1. creating' = [creating EXCEPT ![u] = "lost"] /\ UNCHANGED <<completing, aborting>>
    BY <1>4 DEF CreateFails
  <2>2. session' = session \/ session' = [session EXCEPT ![u] = "failed"]
    BY <1>4 DEF CreateFails, FailUpload, vars
  <2>3. creating[u] = "stored"
    BY <1>4 DEF CreateFails
  <2> QED
    BY <2>1, <2>2, <2>3, OthersStay
<1>5. CASE CreateRecord(u)
  <2>1. /\ creating' = [creating EXCEPT ![u] = "returned"]
        /\ creating[u] = "opened" /\ UNCHANGED <<completing, aborting>>
    BY <1>5 DEF CreateRecord
  <2>2. session' = session \/ session' = [session EXCEPT ![u] = "uploading"]
    BY <1>5 DEF CreateRecord, SetProviderUploadID, vars
  <2> QED
    BY <2>1, <2>2, OthersStay
<1> QED
  BY <1>1, <1>2, <1>3, <1>4, <1>5 DEF CreateRequest

(* A complete call goes on, and its session becomes se.                     *)
LEMMA CompleteMoves ==
    ASSUME TypeOK, ServiceTypeOK, HandlersHold, NEW u \in Upload, NEW from, NEW to, NEW se,
           CompleteGoes(u, from, to), session' = [session EXCEPT ![u] = se],
           creating[u] = "returned", Position("returned", to, aborting[u], se)
    PROVE  HandlersHold'
<1>1. /\ completing' = [completing EXCEPT ![u] = to]
      /\ UNCHANGED <<creating, aborting>>
  BY DEF CompleteGoes
<1>2. /\ completing'[u] = to /\ session'[u] = se
      /\ \A v \in Upload \ {u} : completing'[v] = completing[v] /\ session'[v] = session[v]
  BY <1>1 DEF TypeOK, ServiceTypeOK
<1>3. Position(creating'[u], completing'[u], aborting'[u], session'[u])
  BY <1>1, <1>2
<1> QED
  BY <1>1, <1>2, <1>3, OthersStay

LEMMA HandlersComplete ==
    ASSUME TypeOK, ServiceTypeOK, HandlersHold, NEW u \in Upload, CompleteRequest(u)
    PROVE  HandlersHold'
<1>0. /\ creating[u] # "returned" => completing[u] = "idle"
      /\ creating[u] = "returned" => session[u] # "none"
      /\ completing[u] \notin {"idle", "checked"} =>
             session[u] \in {"completing", "aborted", "expired"}
  BY DEF HandlersHold
<1>1. ASSUME NEW from, NEW to, CompleteGoes(u, from, to), UNCHANGED session,
             creating[u] = "returned",
             to \in {"idle", "checked"} \/ from \notin {"idle", "checked"}
      PROVE  HandlersHold'
  <2>1. session' = [session EXCEPT ![u] = session[u]]
    BY <1>1 DEF TypeOK
  <2>2. Position("returned", to, aborting[u], session[u])
    BY <1>0, <1>1 DEF CompleteGoes, Position
  <2> QED
    BY <1>1, <2>1, <2>2, CompleteMoves DEF CompleteGoes
<1>2. CASE CompleteCheck(u)
  BY <1>1, <1>2 DEF CompleteCheck, vars
<1>3. CASE CompleteClaim(u)
  <2>1. /\ CompleteGoes(u, "checked", "claimed")
        /\ session' = [session EXCEPT ![u] = "completing"]
    BY <1>3 DEF CompleteClaim, MarkUploadCompleting
  <2>2. creating[u] = "returned"
    BY <1>0, <2>1 DEF CompleteGoes
  <2>3. Position("returned", "claimed", aborting[u], "completing")
    BY DEF Position
  <2> QED
    BY <2>1, <2>2, <2>3, CompleteMoves DEF CompleteGoes
<1>4. CASE CompleteRefused(u)
  <2>1. CompleteGoes(u, "checked", "idle") /\ UNCHANGED session
    BY <1>4 DEF CompleteRefused, vars
  <2> QED
    BY <1>0, <1>1, <2>1 DEF CompleteGoes
<1>5. CASE CompleteUnavailable(u)
  <2>1. CompleteGoes(u, "claimed", "idle") /\ UNCHANGED session
    BY <1>5 DEF CompleteUnavailable, vars
  <2> QED
    BY <1>0, <1>1, <2>1 DEF CompleteGoes
<1>6. CASE CompleteMultipart(u)
  <2>1. CompleteGoes(u, "claimed", "assembled") /\ UNCHANGED session
    BY <1>6 DEF CompleteMultipart, vars
  <2> QED
    BY <1>0, <1>1, <2>1 DEF CompleteGoes
<1>7. CASE CompleteMultipartFails(u)
  <2>1. CompleteGoes(u, "claimed", "failing") /\ UNCHANGED session
    BY <1>7 DEF CompleteMultipartFails, vars
  <2> QED
    BY <1>0, <1>1, <2>1 DEF CompleteGoes
<1>8. HeadFrom(u) \in {"claimed", "assembled"}
  BY DEF HeadFrom
<1>9. CASE CompleteHead(u)
  <2>1. CompleteGoes(u, HeadFrom(u), "verified") /\ UNCHANGED session
    BY <1>9 DEF CompleteHead, vars
  <2>2. creating[u] = "returned"
    BY <1>0, <1>8, <2>1 DEF CompleteGoes
  <2> QED
    BY <1>1, <1>8, <2>1, <2>2
<1>10. CASE CompleteHeadFails(u)
  <2>1. CompleteGoes(u, HeadFrom(u), "failing") /\ UNCHANGED session
    BY <1>10 DEF CompleteHeadFails, vars
  <2>2. creating[u] = "returned"
    BY <1>0, <1>8, <2>1 DEF CompleteGoes
  <2> QED
    BY <1>1, <1>8, <2>1, <2>2
<1>11. ASSUME NEW from \in {"verified", "failing"}, CompleteGoes(u, from, "idle"),
              NEW se \in {"failed", "completed"}, session' = [session EXCEPT ![u] = se]
       PROVE  HandlersHold'
  <2>1. creating[u] = "returned"
    BY <1>0, <1>11 DEF CompleteGoes
  <2>2. Position("returned", "idle", aborting[u], se)
    BY DEF Position
  <2> QED
    BY <1>11, <2>1, <2>2, CompleteMoves DEF CompleteGoes
<1>12. ASSUME NEW from \in {"verified", "failing"}, CompleteGoes(u, from, "idle"),
              UNCHANGED session
       PROVE  HandlersHold'
  BY <1>0, <1>1, <1>12 DEF CompleteGoes
<1>13. CASE CompleteFails(u)
  <2>1. CompleteGoes(u, "failing", "idle") /\ (FailUpload(u) \/ UNCHANGED vars)
    BY <1>13, Zenon DEF CompleteFails
  <2>2. session' = [session EXCEPT ![u] = "failed"] \/ UNCHANGED session
    BY <2>1 DEF FailUpload, vars
  <2> QED
    BY <1>11, <1>12, <2>1, <2>2
<1>14. CASE CompleteFinalize(u)
  <2>1. CompleteGoes(u, "verified", "idle") /\ FinalizeUpload(u)
    BY <1>14 DEF CompleteFinalize
  <2>2. session' = [session EXCEPT ![u] = "completed"] \/ UNCHANGED session
    BY <2>1 DEF FinalizeUpload, FinalizeReplace, FinalizeInsert, CloseSession, TypeOK
  <2> QED
    BY <1>11, <1>12, <2>1, <2>2
<1>15. CASE CompleteConflicts(u)
  <2>1. CompleteGoes(u, "verified", "idle") /\ UNCHANGED session
    BY <1>15 DEF CompleteConflicts, vars
  <2> QED
    BY <1>12, <2>1
<1> QED
  BY <1>2, <1>3, <1>4, <1>5, <1>6, <1>7, <1>9, <1>10, <1>13, <1>14, <1>15 DEF CompleteRequest

LEMMA HandlersAbort ==
    ASSUME TypeOK, ServiceTypeOK, HandlersHold, NEW u \in Upload,
           AbortRequest(u) \/ RequestDropped(u) \/ ContentStep(u)
    PROVE  HandlersHold'
<1>0. Position(creating[u], completing[u], aborting[u], session[u])
  BY DEF HandlersHold, Position
<1>1. ASSUME NEW b \in BOOLEAN, aborting' = [aborting EXCEPT ![u] = b],
             UNCHANGED <<creating, completing, session>>, b => creating[u] = "returned"
      PROVE  HandlersHold'
  <2>1. aborting'[u] = b /\ \A v \in Upload \ {u} : aborting'[v] = aborting[v]
    BY <1>1 DEF ServiceTypeOK
  <2>2. Position(creating'[u], completing'[u], aborting'[u], session'[u])
    BY <1>0, <1>1, <2>1 DEF Position
  <2> QED
    BY <1>1, <2>1, <2>2, OthersStay
<1>2. CASE AbortRemote(u)
  <2>1. /\ aborting' = [aborting EXCEPT ![u] = TRUE] /\ creating[u] = "returned"
        /\ UNCHANGED <<creating, completing, session>>
    BY <1>2 DEF AbortRemote, vars
  <2> QED
    BY <1>1, <2>1
<1>3. CASE AbortStore(u)
  <2>1. /\ aborting' = [aborting EXCEPT ![u] = FALSE] /\ aborting[u]
        /\ UNCHANGED <<creating, completing>>
    BY <1>3 DEF AbortStore
  <2>2. CASE UNCHANGED session
    BY <1>1, <2>1, <2>2
  <2>3. CASE session' = [session EXCEPT ![u] = "aborted"]
    <3>1. /\ aborting'[u] = FALSE /\ session'[u] = "aborted" /\ creating[u] = "returned"
          /\ \A v \in Upload \ {u} : aborting'[v] = aborting[v] /\ session'[v] = session[v]
      BY <1>0, <2>1, <2>3 DEF TypeOK, ServiceTypeOK, Position
    <3>2. Position(creating'[u], completing'[u], aborting'[u], session'[u])
      BY <2>1, <3>1 DEF Position
    <3> QED
      BY <2>1, <3>1, <3>2, OthersStay
  <2>4. session' = session \/ session' = [session EXCEPT ![u] = "aborted"]
    BY <1>3 DEF AbortStore, AbortUpload, vars
  <2> QED
    BY <2>2, <2>3, <2>4
<1>4. CASE RequestDropped(u)
  <2>1. UNCHANGED session
    BY <1>4 DEF RequestDropped, vars
  <2>2. CASE creating[u] \in {"stored", "opened"} /\ creating' = [creating EXCEPT ![u] = "lost"]
             /\ UNCHANGED <<completing, aborting>>
    <3>1. creating'[u] = "lost" /\ \A v \in Upload \ {u} : creating'[v] = creating[v]
      BY <2>2 DEF ServiceTypeOK
    <3>2. Position(creating'[u], completing'[u], aborting'[u], session'[u])
      BY <1>0, <2>1, <2>2, <3>1 DEF Position
    <3> QED
      BY <2>1, <2>2, <3>1, <3>2, OthersStay
  <2>3. CASE completing' = [completing EXCEPT ![u] = "idle"] /\ UNCHANGED <<creating, aborting>>
    <3>1. completing'[u] = "idle" /\ \A v \in Upload \ {u} : completing'[v] = completing[v]
      BY <2>3 DEF ServiceTypeOK
    <3>2. Position(creating'[u], completing'[u], aborting'[u], session'[u])
      BY <1>0, <2>1, <2>3, <3>1 DEF Position
    <3> QED
      BY <2>1, <2>3, <3>1, <3>2, OthersStay
  <2>4. CASE aborting' = [aborting EXCEPT ![u] = FALSE] /\ UNCHANGED <<creating, completing>>
    BY <1>1, <2>1, <2>4
  <2> QED
    BY <1>4, <2>2, <2>3, <2>4 DEF RequestDropped
<1>5. CASE ContentStep(u)
  <2>1. UNCHANGED <<session, creating, completing, aborting>>
    BY <1>5 DEF ContentStep, PutStart, PutFinish, PutFails, UrlExpires, SessionExpires, Expire,
                vars, handlerVars, sessionVars
  <2> QED
    BY <2>1 DEF HandlersHold
<1> QED
  BY <1>2, <1>3, <1>4, <1>5 DEF AbortRequest

LEMMA HandlersStep ==
    ASSUME TypeOK, ServiceTypeOK, HandlersHold, WorkerHolds, [ServiceNext]_svars
    PROVE  HandlersHold'
<1>1. CASE FileRequest
  BY <1>1 DEF FileRequest, DeleteNode, UpdateNode, MarkProjectDeleting, sessionVars,
              handlerVars, HandlersHold
<1>2. CASE Worker /\ UNCHANGED session
  <2>1. UNCHANGED handlerVars
    BY <1>2 DEF Worker, WorkerBoot, WorkerClaim, JobRemove, JobFails, JobMark, JobCompletes,
                SweepStart, SweepRemove, SweepSkips, SweepExpire, ItemDone, WorkerGoes
  <2> QED
    BY <1>2, <2>1 DEF handlerVars, HandlersHold
<1>3. CASE Worker /\ ~UNCHANGED session
  <2>1. SweepExpire
    BY <1>3 DEF Worker, WorkerBoot, WorkerClaim, JobRemove, JobFails, JobMark, JobCompletes,
                SweepStart, SweepRemove, SweepSkips, RecoverRunningJobs, ClaimJobs, FailJob,
                MarkBlobDeleted, CompleteJob, sessionVars, vars
  <2>2. at \in Upload /\ UNCHANGED handlerVars
    BY <2>1 DEF SweepExpire, ItemDone, WorkerGoes, WorkerHolds
  <2>3. session[at] \in OpenStatus /\ session' = [session EXCEPT ![at] = "expired"]
    BY <1>3, <2>1 DEF SweepExpire, ExpireUpload, vars
  <2> QED
    BY <2>2, <2>3 DEF TypeOK, HandlersHold, handlerVars, OpenStatus
<1>4. CASE Crash
  <2>1. /\ UNCHANGED session
        /\ creating' = [u \in Upload |->
                          CASE creating[u] = "checked" -> "idle"
                            [] creating[u] \in {"stored", "opened"} -> "lost"
                            [] OTHER -> creating[u]]
        /\ completing' = [u \in Upload |-> "idle"]
        /\ aborting' = [u \in Upload |-> FALSE]
    BY <1>4 DEF Crash, vars
  <2>2. ASSUME NEW u \in Upload
        PROVE  /\ creating[u] = "checked" => creating'[u] = "idle"
               /\ creating[u] \in {"stored", "opened"} => creating'[u] = "lost"
               /\ creating[u] \notin {"checked", "stored", "opened"} => creating'[u] = creating[u]
    BY <2>1
  <2> QED
    BY <2>1, <2>2 DEF HandlersHold
<1>5. CASE UNCHANGED svars
  BY <1>5 DEF svars, vars, handlerVars, HandlersHold
<1> QED
  BY <1>1, <1>2, <1>3, <1>4, <1>5, HandlersCreate, HandlersComplete, HandlersAbort
     DEF ServiceNext

-----------------------------------------------------------------------------
(* THE WORKER'S LIST                                                       *)
LEMMA StaysExpired ==
    ASSUME TypeOK, [Next]_vars, NEW u \in Upload, expired[u]
    PROVE  expired'[u]
<1>1. CASE UNCHANGED expired
  BY <1>1
<1>2. ASSUME NEW v \in Upload, Expire(v) PROVE expired'[u]
  BY <1>2 DEF Expire, TypeOK
<1>3. ASSUME NEW v \in Upload, UploadStep(v) PROVE Expire(v) \/ UNCHANGED expired
  BY <1>3 DEF UploadStep, CreateUpload, SetProviderUploadID, MarkUploadCompleting, FinalizeUpload,
              FinalizeReplace, FinalizeInsert, AbortUpload, FailUpload, ExpireUpload
<1>4. CASE NodeStep \/ JobStep \/ UNCHANGED vars
  BY <1>1, <1>4 DEF NodeStep, DeleteNode, UpdateNode, MarkProjectDeleting, JobStep, ClaimJobs,
                    RecoverRunningJobs, MarkBlobDeleted, CompleteJob, FailJob, vars
<1> QED
  BY <1>1, <1>2, <1>3, <1>4 DEF Next

LEMMA RequestsSpareWorker ==
    ASSUME NEW u \in Upload,
           CreateRequest(u) \/ ContentStep(u) \/ CompleteRequest(u) \/ AbortRequest(u)
           \/ RequestDropped(u)
    PROVE  UNCHANGED workerVars
<1>1. CASE CreateRequest(u)
  BY <1>1 DEF CreateRequest, CreateCheck, CreateStore, CreateTarget, CreateFails, CreateRecord
<1>2. CASE ContentStep(u)
  BY <1>2 DEF ContentStep, PutStart, PutFinish, PutFails, UrlExpires, SessionExpires
<1>3. CASE CompleteRequest(u)
  BY <1>3 DEF CompleteRequest, CompleteCheck, CompleteClaim, CompleteRefused,
              CompleteUnavailable, CompleteMultipart, CompleteMultipartFails, CompleteHead,
              CompleteHeadFails, CompleteFails, CompleteFinalize, CompleteConflicts, CompleteGoes
<1>4. CASE AbortRequest(u) \/ RequestDropped(u)
  BY <1>4 DEF AbortRequest, AbortRemote, AbortStore, RequestDropped
<1> QED
  BY <1>1, <1>2, <1>3, <1>4

(* Handlers and users leave the worker its jobs and sessions.              *)
LEMMA ListKept ==
    ASSUME IInv, JobsHaveCause, WorkerHolds, UNCHANGED workerVars,
           (\E u \in Upload : UploadStep(u)) \/ NodeStep \/ UNCHANGED vars
    PROVE  WorkerHolds'
<1>1. \A j \in Job : job[j] = "running" => job'[j] = "running"
  BY JobsStay DEF vars
<1>2. \A u \in Upload : expired[u] => expired'[u]
  BY StaysExpired DEF IInv, Next
<1> QED
  BY <1>1, <1>2 DEF WorkerHolds, workerVars

LEMMA WorkerStep ==
    ASSUME ServiceInv, [ServiceNext]_svars
    PROVE  WorkerHolds'
<1> USE DEF ServiceInv
<1>1. ASSUME NEW u \in Upload,
             CreateRequest(u) \/ ContentStep(u) \/ CompleteRequest(u) \/ AbortRequest(u)
             \/ RequestDropped(u)
      PROVE  WorkerHolds'
  BY <1>1, RequestsSpareWorker, CreateRefines, CompleteRefines, OthersRefine, ListKept
<1>2. CASE FileRequest
  BY <1>2, ListKept DEF FileRequest, NodeStep
<1>3. CASE Crash
  BY <1>3 DEF Crash, WorkerHolds
<1>4. CASE UNCHANGED svars
  BY <1>4, ListKept DEF svars
<1>5. CASE Worker
  <2>1. CASE WorkerBoot
    BY <2>1 DEF WorkerBoot, WorkerGoes, WorkerHolds
  <2>2. ASSUME NEW S \in SUBSET Job, WorkerClaim(S) PROVE WorkerHolds'
    BY <2>2 DEF WorkerClaim, WorkerGoes, ClaimJobs, WorkerHolds
  <2>3. ASSUME NEW j \in Job, JobRemove(j) PROVE WorkerHolds'
    BY <2>3 DEF JobRemove, WorkerGoes, WorkerHolds, vars
  <2>4. ASSUME NEW j \in Job, JobFails(j) PROVE WorkerHolds'
    <3>1. /\ phase = "jobs" /\ phase' \in {"idle", "jobs"} /\ todo' = todo \ {j}
          /\ FailJob(j)
      BY <2>4 DEF JobFails, ItemDone, WorkerGoes
    <3>2. \A i \in Job \ {j} : job'[i] = job[i]
      BY <3>1 DEF FailJob, IInv, TypeOK
    <3> QED
      BY <3>1, <3>2 DEF WorkerHolds
  <2>5. CASE JobMark
    BY <2>5 DEF JobMark, WorkerGoes, MarkBlobDeleted, jobVars, WorkerHolds
  <2>6. CASE JobCompletes
    <3>1. /\ phase = "marked" /\ phase' \in {"idle", "jobs"} /\ todo' = todo \ {at}
          /\ CompleteJob(at)
      BY <2>6 DEF JobCompletes, ItemDone, WorkerGoes
    <3>2. \A i \in Job \ {at} : job'[i] = job[i]
      BY <3>1 DEF CompleteJob, IInv, TypeOK
    <3> QED
      BY <3>1, <3>2 DEF WorkerHolds
  <2>7. ASSUME NEW S \in SUBSET Upload, SweepStart(S) PROVE WorkerHolds'
    BY <2>7 DEF SweepStart, WorkerGoes, Overdue, WorkerHolds, vars
  <2>8. ASSUME NEW u \in Upload, SweepRemove(u) PROVE WorkerHolds'
    BY <2>8 DEF SweepRemove, WorkerGoes, WorkerHolds, vars
  <2>9. ASSUME NEW u \in Upload, SweepSkips(u) PROVE WorkerHolds'
    BY <2>9 DEF SweepSkips, ItemDone, WorkerGoes, WorkerHolds, vars
  <2>10. CASE SweepExpire
    <3>1. /\ phase = "swept" /\ phase' \in {"idle", "sweep"} /\ todo' = todo \ {at}
          /\ UNCHANGED expired
      BY <2>10 DEF SweepExpire, ItemDone, WorkerGoes, ExpireUpload, vars
    <3> QED
      BY <3>1 DEF WorkerHolds
  <2> QED
    BY <1>5, <2>1, <2>2, <2>3, <2>4, <2>5, <2>6, <2>7, <2>8, <2>9, <2>10 DEF Worker
<1> QED
  BY <1>1, <1>2, <1>3, <1>4, <1>5 DEF ServiceNext

-----------------------------------------------------------------------------
(* THE SERVICE IMPLEMENTS THE METADATA'S SPECIFICATION                     *)
LEMMA ServiceInvInit == ServiceInit => ServiceInv
<1> SUFFICES ASSUME ServiceInit PROVE ServiceInv
  OBVIOUS
<1>1. Init
  BY DEF ServiceInit
<1>2. IInv
  BY <1>1, IInvInit
<1>3. HandlersHold
  BY <1>1 DEF ServiceInit, Init, HandlersHold
<1>4. JobsHaveCause
  BY <1>1, JobParts DEF Init, JobsHaveCause, Cause
<1>5. WorkerHolds
  BY DEF ServiceInit, WorkerHolds
<1> QED
  BY <1>2, <1>3, <1>4, <1>5, ServiceTypeInit DEF ServiceInv

LEMMA ServiceInvStep == ServiceInv /\ [ServiceNext]_svars => ServiceInv'
<1> SUFFICES ASSUME ServiceInv, [ServiceNext]_svars PROVE ServiceInv'
  OBVIOUS
<1>1. [Next]_vars
  BY ServiceRefines DEF ServiceInv
<1>2. IInv' /\ JobsHaveCause'
  BY <1>1, IInvStep, CausesStep DEF ServiceInv
<1>3. ServiceTypeOK'
  BY ServiceTypeStep DEF ServiceInv
<1>4. HandlersHold'
  BY HandlersStep DEF ServiceInv, IInv
<1> QED
  BY <1>2, <1>3, <1>4, WorkerStep DEF ServiceInv

LEMMA ServiceInvAlways == ServiceSpec => []ServiceInv
BY ServiceInvInit, ServiceInvStep, PTL DEF ServiceSpec

(* Every variable of the service keeps its type.                           *)
THEOREM ServiceTypeCorrect == ServiceSpec => []ServiceTypeOK
<1>1. ServiceInv => ServiceTypeOK
  BY DEF ServiceInv
<1> QED
  BY <1>1, ServiceInvAlways, PTL

(* Handlers, clients, worker and restarts change the metadata only by its  *)
(* transactions, and call those that trust their caller only when they     *)
(* may.                                                                    *)
THEOREM ServiceImplementsMetadata == ServiceSpec => Spec
<1>1. ServiceInit => Init
  BY DEF ServiceInit
<1>2. ServiceInv /\ [ServiceNext]_svars => [Next]_vars
  BY ServiceRefines DEF ServiceInv
<1> QED
  BY <1>1, <1>2, ServiceInvAlways, PTL DEF ServiceSpec, Spec

(* So the files that a project shows appear, are replaced and disappear as *)
(* the namespace promises, whatever handlers and worker interleave.        *)
THEOREM ServiceImplementsNamespace == ServiceSpec => ImplementsNamespace
BY ServiceImplementsMetadata, ImplementsTheNamespace, PTL

-----------------------------------------------------------------------------
(* WHAT BECOMES OF A BLOB                                                  *)

(* A blob is only made active by the complete call that verified its       *)
(* object, and is only new where no complete call can be.                  *)
LEMMA BlobRises ==
    ASSUME ServiceInv, [ServiceNext]_svars, NEW u \in Upload
    PROVE  /\ blob'[u] = "active" =>
                  blob[u] = "active" \/ (completing[u] = "verified" /\ blob[u] = "pending")
           /\ blob'[u] = "pending" => blob[u] = "pending" \/ completing'[u] = "idle"
<1> DEFINE Rises == /\ blob'[u] = "active" =>
                           \/ blob[u] = "active"
                           \/ completing[u] = "verified" /\ blob[u] = "pending"
                    /\ blob'[u] = "pending" => blob[u] = "pending" \/ completing'[u] = "idle"
<1>0. TypeOK /\ ServiceTypeOK /\ HandlersHold
  BY DEF ServiceInv, IInv
<1>1. CASE UNCHANGED blob
  BY <1>1
<1>2. ASSUME NEW v \in Upload, blob' = [blob EXCEPT ![v] = "deleting"] PROVE Rises
  BY <1>0, <1>2 DEF TypeOK
<1>3. ASSUME NEW blobs, blob' = Retired(blobs) PROVE Rises
  BY <1>0, <1>3 DEF Retired
<1>4. ASSUME NEW v \in Upload, CreateRequest(v) PROVE Rises
  <2>1. ASSUME NEW s \in Slot, NEW overwrite \in BOOLEAN, CreateStore(v, s, overwrite)
        PROVE  Rises
    <3>1. completing'[v] = "idle" /\ blob' = [blob EXCEPT ![v] = "pending"]
      BY <1>0, <2>1 DEF CreateStore, CreateUpload, HandlersHold
    <3> QED
      BY <1>0, <3>1 DEF TypeOK
  <2>2. CASE CreateFails(v)
    <3>1. FailUpload(v) \/ UNCHANGED vars
      BY <2>2, Zenon DEF CreateFails
    <3>2. UNCHANGED blob \/ blob' = [blob EXCEPT ![v] = "deleting"]
      BY <3>1 DEF FailUpload, vars
    <3> QED
      BY <1>1, <1>2, <3>2
  <2>3. CASE CreateCheck(v) \/ CreateTarget(v) \/ CreateRecord(v)
    BY <1>1, <2>3 DEF CreateCheck, CreateTarget, CreateRecord, SetProviderUploadID, vars
  <2> QED
    BY <1>4, <2>1, <2>2, <2>3 DEF CreateRequest
<1>5. ASSUME NEW v \in Upload, ContentStep(v) \/ RequestDropped(v) PROVE Rises
  <2>1. UNCHANGED blob
    BY <1>5 DEF ContentStep, PutStart, PutFinish, PutFails, UrlExpires, SessionExpires, Expire,
                RequestDropped, vars
  <2> QED
    BY <1>1, <2>1
<1>6. ASSUME NEW v \in Upload, CompleteRequest(v) PROVE Rises
  <2>1. CASE CompleteFails(v)
    <3>1. FailUpload(v) \/ UNCHANGED vars
      BY <2>1, Zenon DEF CompleteFails
    <3>2. UNCHANGED blob \/ blob' = [blob EXCEPT ![v] = "deleting"]
      BY <3>1 DEF FailUpload, vars
    <3> QED
      BY <1>1, <1>2, <3>2
  <2>2. CASE CompleteFinalize(v)
    <3>1. completing[v] = "verified" /\ FinalizeUpload(v)
      BY <2>2 DEF CompleteFinalize, CompleteGoes
    <3>2. blob[v] = "pending"
      BY <3>1 DEF FinalizeUpload, FinalizeReplace, FinalizeInsert
    <3>3. \E blobs : blob' = [Retired(blobs) EXCEPT ![v] = "active"]
                     \/ blob' = [blob EXCEPT ![v] = "active"]
      BY <3>1 DEF FinalizeUpload, FinalizeReplace, FinalizeInsert
    <3>4. CASE u = v
      BY <3>1, <3>2, <3>4, <3>3, <1>0 DEF TypeOK, Retired
    <3>5. CASE u # v
      BY <3>5, <3>3, <1>0 DEF TypeOK, Retired
    <3> QED
      BY <3>4, <3>5
  <2>3. CASE CompleteClaim(v)
    BY <1>1, <2>3 DEF CompleteClaim, MarkUploadCompleting
  <2>4. CASE \/ CompleteCheck(v) \/ CompleteRefused(v) \/ CompleteUnavailable(v)
             \/ CompleteMultipart(v) \/ CompleteMultipartFails(v)
             \/ CompleteHead(v) \/ CompleteHeadFails(v) \/ CompleteConflicts(v)
    <3>1. UNCHANGED vars
      BY <2>4 DEF CompleteCheck, CompleteRefused, CompleteUnavailable, CompleteMultipart,
              CompleteMultipartFails, CompleteHead, CompleteHeadFails, CompleteConflicts
    <3> QED
      BY <1>1, <3>1 DEF vars
  <2> QED
    BY <1>6, <2>1, <2>2, <2>3, <2>4 DEF CompleteRequest
<1>7. ASSUME NEW v \in Upload, AbortRequest(v) PROVE Rises
  <2>1. UNCHANGED blob \/ blob' = [blob EXCEPT ![v] = "deleting"]
    BY <1>7 DEF AbortRequest, AbortRemote, AbortStore, AbortUpload, vars
  <2> QED
    BY <1>1, <1>2, <2>1
<1>8. CASE FileRequest
  <2>1. ASSUME NEW S \in SUBSET Upload, DeleteNode(S) PROVE Rises
    BY <1>3, <2>1 DEF DeleteNode
  <2>2. ASSUME NEW n \in Upload, NEW s \in Slot, UpdateNode(n, s) PROVE Rises
    BY <1>1, <2>2 DEF UpdateNode
  <2>3. CASE MarkProjectDeleting
    BY <2>3 DEF MarkProjectDeleting
  <2> QED
    BY <1>8, <2>1, <2>2, <2>3 DEF FileRequest
<1>9. CASE Worker
  <2>1. CASE JobMark
    <3>1. blob' = [blob EXCEPT ![at[1]] = "deleted"]
      BY <2>1 DEF JobMark, MarkBlobDeleted
    <3> QED
      BY <1>0, <3>1 DEF TypeOK
  <2>2. CASE SweepExpire
    <3>1. UNCHANGED blob \/ blob' = [blob EXCEPT ![at] = "deleting"]
      BY <2>2 DEF SweepExpire, ExpireUpload, vars
    <3> QED
      BY <1>0, <3>1 DEF TypeOK
  <2>3. CASE Worker /\ ~JobMark /\ ~SweepExpire
    <3>1. UNCHANGED blob
      BY <2>3 DEF Worker, WorkerBoot, RecoverRunningJobs, WorkerClaim, ClaimJobs, JobRemove,
                  JobFails, FailJob, JobCompletes, CompleteJob, SweepStart, SweepRemove,
                  SweepSkips, vars
    <3> QED
      BY <1>1, <3>1
  <2> QED
    BY <1>9, <2>1, <2>2, <2>3
<1>10. CASE Crash \/ UNCHANGED svars
  BY <1>1, <1>10 DEF Crash, svars, vars
<1> QED
  BY <1>4, <1>5, <1>6, <1>7, <1>8, <1>9, <1>10 DEF ServiceNext

(* A complete call begins in an active project, and its verdict on the     *)
(* object comes from a look at the object.                                 *)
LEMMA CompleteRises ==
    ASSUME ServiceTypeOK, [ServiceNext]_svars, NEW u \in Upload
    PROVE  /\ completing'[u] # "idle" => completing[u] # "idle" \/ CanWrite
           /\ completing'[u] = "verified" => completing[u] = "verified" \/ object[u] = "whole"
<1> DEFINE Rises ==
       /\ completing'[u] # "idle" => completing[u] # "idle" \/ CanWrite
       /\ completing'[u] = "verified" => completing[u] = "verified" \/ object[u] = "whole"
<1>1. CASE UNCHANGED completing
  BY <1>1
<1>2. ASSUME NEW v \in Upload, NEW from, NEW to, CompleteGoes(v, from, to),
             from # "idle" \/ CanWrite, to # "verified" \/ object[v] = "whole"
      PROVE  Rises
  BY <1>2 DEF CompleteGoes, ServiceTypeOK
<1>3. ASSUME NEW v \in Upload, CompleteRequest(v) PROVE Rises
  <2>1. HeadFrom(v) # "idle"
    BY DEF HeadFrom
  <2>2. CASE CompleteHead(v) \/ CompleteHeadFails(v)
    BY <1>2, <2>1, <2>2 DEF CompleteHead, CompleteHeadFails
  <2>3. CASE CompleteCheck(v)
    BY <1>2, <2>3 DEF CompleteCheck
  <2>4. CASE CompleteRequest(v) /\ ~CompleteHead(v) /\ ~CompleteHeadFails(v) /\ ~CompleteCheck(v)
    <3>1. \E from \in {"checked", "claimed", "failing", "verified"},
             to \in {"claimed", "idle", "assembled", "failing"} : CompleteGoes(v, from, to)
      BY <2>4 DEF CompleteRequest, CompleteClaim, CompleteRefused, CompleteUnavailable,
                  CompleteMultipart, CompleteMultipartFails, CompleteFails, CompleteFinalize,
                  CompleteConflicts
    <3> QED
      BY <1>2, <3>1
  <2> QED
    BY <1>3, <2>2, <2>3, <2>4
<1>4. ASSUME NEW v \in Upload, RequestDropped(v) PROVE Rises
  BY <1>4 DEF RequestDropped, ServiceTypeOK
<1>5. ASSUME NEW v \in Upload, CreateRequest(v) \/ ContentStep(v) \/ AbortRequest(v)
      PROVE  UNCHANGED completing
  BY <1>5 DEF CreateRequest, CreateCheck, CreateStore, CreateTarget, CreateFails, CreateRecord,
              ContentStep, PutStart, PutFinish, PutFails, UrlExpires, SessionExpires,
              AbortRequest, AbortRemote, AbortStore, handlerVars
<1>6. CASE FileRequest \/ UNCHANGED svars
  BY <1>1, <1>6 DEF FileRequest, handlerVars, svars
<1>7. CASE Worker
  BY <1>1, <1>7 DEF Worker, WorkerBoot, WorkerClaim, JobRemove, JobFails, JobMark, JobCompletes,
                    SweepStart, SweepRemove, SweepSkips, SweepExpire, ItemDone, WorkerGoes,
                    handlerVars
<1>8. CASE Crash
  BY <1>8 DEF Crash
<1> QED
  BY <1>1, <1>3, <1>4, <1>5, <1>6, <1>7, <1>8 DEF ServiceNext

-----------------------------------------------------------------------------
(* DELETED PROJECTS                                                        *)

(* In a deleted project no content is shown, and no complete call is past  *)
(* its start with content that waits.  (A create call may still add some.) *)
ProjectHolds ==
    project = "deleting" =>
        \A u \in Upload : /\ blob[u] # "active"
                          /\ completing[u] # "idle" => blob[u] # "pending"

LEMMA ProjectStays ==
    ASSUME [Next]_vars
    PROVE  MarkProjectDeleting \/ UNCHANGED project
BY DEF Next, UploadStep, CreateUpload, SetProviderUploadID, MarkUploadCompleting,
       FinalizeUpload, FinalizeReplace, FinalizeInsert, AbortUpload, FailUpload, ExpireUpload,
       Expire, NodeStep, DeleteNode, UpdateNode, JobStep, ClaimJobs, RecoverRunningJobs,
       MarkBlobDeleted, CompleteJob, FailJob, vars

LEMMA ProjectStep ==
    ASSUME ServiceInv, ProjectHolds, [ServiceNext]_svars
    PROVE  ProjectHolds'
<1>1. MarkProjectDeleting \/ UNCHANGED project
  BY ServiceRefines, ProjectStays DEF ServiceInv
<1>2. CASE MarkProjectDeleting
  BY <1>2 DEF MarkProjectDeleting, ProjectHolds
<1>3. CASE UNCHANGED project
  <2> SUFFICES ASSUME project = "deleting", NEW u \in Upload
               PROVE  /\ blob'[u] # "active"
                      /\ completing'[u] # "idle" => blob'[u] # "pending"
    BY <1>3 DEF ProjectHolds
  <2>1. ~CanWrite
    BY DEF CanWrite
  <2>2. blob[u] # "active" /\ (completing[u] # "idle" => blob[u] # "pending")
    BY DEF ProjectHolds
  <2> QED
    BY <2>1, <2>2, BlobRises, CompleteRises DEF ServiceInv
<1> QED
  BY <1>1, <1>2, <1>3

(* A deleted project shows no file again, though the transactions do not   *)
(* look at the project: the complete calls that began before the deletion  *)
(* find their content disposed of.                                         *)
THEOREM DeletedProjectsShowNothing == ServiceSpec => []NoFileInDeletedProject
<1>1. ServiceInit => ProjectHolds
  BY DEF ServiceInit, Init, ProjectHolds
<1>2. ServiceInv /\ ProjectHolds /\ [ServiceNext]_svars => ProjectHolds'
  BY ProjectStep
<1>3. ServiceInv /\ ProjectHolds => NoFileInDeletedProject
  BY DEF ServiceInv, IInv, LiveHasActive, ProjectHolds, NoFileInDeletedProject
<1> QED
  BY <1>1, <1>2, <1>3, ServiceInvAlways, PTL DEF ServiceSpec

-----------------------------------------------------------------------------
(* CONTENT                                                                 *)

(* What is known of the object behind content that is shown, or that a     *)
(* complete call has verified and is about to show.                        *)
ObjectKept(u) ==
    /\ object[u] = "absent" => expired[u]
    /\ object[u] = "wrong" => kind[u] = "single"

Vouched(u) == blob[u] = "active" \/ (completing[u] = "verified" /\ blob[u] = "pending")

ContentHolds == \A u \in Upload : Vouched(u) => ObjectKept(u)

(* Who changes an object: a client's PUT, a complete call that assembles   *)
(* parts, and the worker with a job or an expired session in hand.         *)
LEMMA ObjectMoves ==
    ASSUME ServiceInv, [ServiceNext]_svars, NEW u \in Upload, object'[u] # object[u]
    PROVE  \/ object'[u] = "whole"
           \/ object'[u] = "wrong" /\ kind[u] = "single"
           \/ /\ completing[u] = "claimed"
              /\ completing'[u] = "assembled"
              /\ UNCHANGED vars
           \/ object'[u] = "absent" /\ expired[u]
           \/ /\ blob[u] \in {"deleting", "deleted"}
              /\ UNCHANGED vars
<1> DEFINE Moves ==
       \/ object'[u] = "whole"
       \/ object'[u] = "wrong" /\ kind[u] = "single"
       \/ completing[u] = "claimed" /\ completing'[u] = "assembled" /\ UNCHANGED vars
       \/ object'[u] = "absent" /\ expired[u]
       \/ blob[u] \in {"deleting", "deleted"} /\ UNCHANGED vars
<1>1. ServiceTypeOK /\ WorkerHolds /\ JobMeansDisposed
  BY DEF ServiceInv, IInv
<1>2. ~UNCHANGED object
  OBVIOUS
<1>3. ASSUME NEW v \in Upload, ContentStep(v) PROVE Moves
  <2>1. PutFinish(v)
    BY <1>2, <1>3 DEF ContentStep, PutStart, PutFails, UrlExpires, SessionExpires, storeVars
  <2>2. PICK stored \in {"wrong", "whole"} : /\ stored = "wrong" => kind[v] = "single"
                                             /\ object' = [object EXCEPT ![v] = stored]
    BY <2>1 DEF PutFinish
  <2> QED
    BY <1>1, <2>2 DEF ServiceTypeOK
<1>4. ASSUME NEW v \in Upload, CompleteRequest(v) PROVE Moves
  <2>1. CASE CompleteMultipart(v)
    <3>1. /\ CompleteGoes(v, "claimed", "assembled") /\ UNCHANGED vars
          /\ \E made \in {"wrong", "whole"} : object' = [object EXCEPT ![v] = made]
      BY <2>1 DEF CompleteMultipart
    <3>2. u = v
      BY <1>1, <3>1 DEF ServiceTypeOK
    <3> QED
      BY <1>1, <3>1, <3>2 DEF CompleteGoes, ServiceTypeOK
  <2>2. CASE CompleteMultipartFails(v)
    <3>1. object' = [object EXCEPT ![v] = "whole"]
      BY <1>2, <2>2 DEF CompleteMultipartFails, storeVars
    <3> QED
      BY <1>1, <3>1 DEF ServiceTypeOK
  <2> QED
    BY <1>2, <1>4, <2>1, <2>2 DEF CompleteRequest, CompleteCheck, CompleteClaim, CompleteRefused,
           CompleteUnavailable, CompleteHead, CompleteHeadFails, CompleteFails, CompleteFinalize,
           CompleteConflicts, storeVars
<1>5. ASSUME NEW v \in Upload, CreateRequest(v) \/ AbortRequest(v) \/ RequestDropped(v)
      PROVE  FALSE
  BY <1>2, <1>5 DEF CreateRequest, CreateCheck, CreateStore, CreateTarget, CreateFails,
           CreateRecord, AbortRequest, AbortRemote, AbortStore, RequestDropped, storeVars
<1>6. CASE Worker
  <2>1. ASSUME NEW j \in Job, JobRemove(j) PROVE Moves
    <3>1. /\ job[j] = "running" /\ UNCHANGED vars
          /\ object' = [object EXCEPT ![j[1]] = "absent"]
      BY <1>1, <2>1 DEF JobRemove, WorkerGoes, WorkerHolds
    <3>2. u = j[1]
      BY <1>1, <3>1 DEF ServiceTypeOK
    <3> QED
      BY <1>1, <3>1, <3>2 DEF JobMeansDisposed
  <2>2. ASSUME NEW v \in Upload, SweepRemove(v) PROVE Moves
    <3>1. expired[v]
      BY <1>1, <2>2 DEF SweepRemove, WorkerGoes, WorkerHolds
    <3>2. object' = [object EXCEPT ![v] = "absent"]
      BY <1>2, <2>2 DEF SweepRemove
    <3> QED
      BY <1>1, <3>1, <3>2 DEF ServiceTypeOK
  <2> QED
    BY <1>2, <1>6, <2>1, <2>2 DEF Worker, WorkerBoot, WorkerClaim, JobFails, JobMark,
           JobCompletes, SweepStart, SweepSkips, SweepExpire, storeVars
<1>7. CASE FileRequest \/ Crash \/ UNCHANGED svars
  BY <1>2, <1>7 DEF FileRequest, Crash, storeVars, svars
<1> QED
  BY <1>3, <1>4, <1>5, <1>6, <1>7 DEF ServiceNext

LEMMA KindStays == [ServiceNext]_svars => UNCHANGED kind
<1> SUFFICES ASSUME [ServiceNext]_svars PROVE UNCHANGED kind
  OBVIOUS
<1>1. ASSUME NEW u \in Upload,
             CreateRequest(u) \/ ContentStep(u) \/ AbortRequest(u) \/ RequestDropped(u)
      PROVE  UNCHANGED kind
  BY <1>1 DEF CreateRequest, CreateCheck, CreateStore, CreateTarget, CreateFails, CreateRecord,
              ContentStep, PutStart, PutFinish, PutFails, UrlExpires, SessionExpires,
              AbortRequest, AbortRemote, AbortStore, RequestDropped
<1>2. ASSUME NEW u \in Upload, CompleteRequest(u) PROVE UNCHANGED kind
  BY <1>2 DEF CompleteRequest, CompleteCheck, CompleteClaim, CompleteRefused,
              CompleteUnavailable, CompleteMultipart, CompleteMultipartFails, CompleteHead,
              CompleteHeadFails, CompleteFails, CompleteFinalize, CompleteConflicts, CompleteGoes
<1>3. CASE Worker
  BY <1>3 DEF Worker, WorkerBoot, WorkerClaim, JobRemove, JobFails, JobMark, JobCompletes,
              SweepStart, SweepRemove, SweepSkips, SweepExpire, ItemDone, WorkerGoes
<1>4. CASE FileRequest \/ Crash \/ UNCHANGED svars
  BY <1>4 DEF FileRequest, Crash, svars
<1> QED
  BY <1>1, <1>2, <1>3, <1>4 DEF ServiceNext

LEMMA ContentStays ==
    ASSUME ServiceInv, ContentHolds, [ServiceNext]_svars
    PROVE  ContentHolds'
<1> SUFFICES ASSUME NEW u \in Upload, Vouched(u)'
             PROVE  ObjectKept(u)'
  BY DEF ContentHolds
<1>1. expired[u] => expired'[u]
  BY StaysExpired, ServiceRefines DEF ServiceInv, IInv
<1>2. UNCHANGED kind
  BY KindStays
<1>3. Vouched(u) \/ object[u] = "whole"
  BY BlobRises, CompleteRises DEF ServiceInv, Vouched
<1>4. ObjectKept(u)
  BY <1>3 DEF ContentHolds, ObjectKept
<1>5. CASE object'[u] = object[u]
  BY <1>1, <1>2, <1>4, <1>5 DEF ObjectKept
<1>6. ~(completing[u] = "claimed" /\ completing'[u] = "assembled" /\ UNCHANGED vars)
  <2> SUFFICES ASSUME completing[u] = "claimed", completing'[u] = "assembled", UNCHANGED vars
               PROVE  FALSE
    OBVIOUS
  <2>1. blob[u] = "active"
    BY DEF Vouched, vars
  <2>2. session[u] = "completed"
    BY <2>1 DEF ServiceInv, IInv, ActiveIsCompleted
  <2> QED
    BY <2>2 DEF ServiceInv, HandlersHold
<1>7. ~(blob[u] \in {"deleting", "deleted"} /\ UNCHANGED vars)
  BY DEF Vouched, vars
<1>8. CASE object'[u] # object[u]
  <2>1. \/ object'[u] = "whole"
        \/ object'[u] = "wrong" /\ kind[u] = "single"
        \/ object'[u] = "absent" /\ expired[u]
    BY <1>6, <1>7, <1>8, ObjectMoves
  <2> QED
    BY <1>1, <1>2, <2>1 DEF ObjectKept
<1> QED
  BY <1>5, <1>8

(* The content of a visible file is whole, but for the two ways the code   *)
(* leaves open: the sweep of a session that expired while it was completed *)
(* removes it, and a client's presigned PUT overwrites it.  No job and no  *)
(* other upload's handlers touch it.                                       *)
THEOREM VisibleContentIsKept == ServiceSpec => []ContentKept
<1>1. ServiceInit => ContentHolds
  BY DEF ServiceInit, Init, ContentHolds, Vouched
<1>2. ServiceInv /\ ContentHolds /\ [ServiceNext]_svars => ContentHolds'
  BY ContentStays
<1>3. ServiceInv /\ ContentHolds => ContentKept
  BY DEF ServiceInv, IInv, LiveHasActive, ContentHolds, Vouched, ObjectKept, ContentKept
<1> QED
  BY <1>1, <1>2, <1>3, ServiceInvAlways, PTL DEF ServiceSpec

-----------------------------------------------------------------------------
(* CONTENT ON ITS WAY OUT                                                  *)

(* Content that waits to be deleted has a job, other than the one whose    *)
(* blob the worker has just marked deleted (and that a late FailUpload may *)
(* have marked deleting again).                                            *)
HasJob(u) ==
    \E c \in Cause : /\ job[<<u, c>>] \in {"pending", "running", "failed"}
                     /\ phase = "marked" => at # <<u, c>>

DeletingHolds ==
    \A u \in Upload : blob[u] = "deleting" /\ session[u] # "expired" => HasJob(u)

(* Whoever marks content deleting, or fails a session that had expired,    *)
(* queues a job that was not there; only the expiry, which comes after the *)
(* object is gone, queues none.                                            *)
LEMMA DeletingIsQueued ==
    ASSUME IInv, JobsHaveCause, (\E v \in Upload : UploadStep(v)) \/ NodeStep,
           NEW u \in Upload, blob'[u] = "deleting", session'[u] # "expired",
           blob[u] # "deleting" \/ session[u] = "expired"
    PROVE  \E c \in Cause : job[<<u, c>>] = "none" /\ job'[<<u, c>>] = "pending"
<1> DEFINE Queued == \E c \in Cause : job[<<u, c>>] = "none" /\ job'[<<u, c>>] = "pending"
<1>0. TypeOK /\ {"retire", "abort", "fail"} \subseteq Cause
  BY DEF IInv, Cause
<1>1. ~(UNCHANGED <<blob, session>>)
  OBVIOUS
<1>2. ASSUME NEW v \in Upload, AbortUpload(v) PROVE Queued
  <2>1. /\ InsertJobs({v}, "abort") /\ session[v] \in OpenStatus
        /\ session' = [session EXCEPT ![v] = "aborted"]
        /\ blob' = [blob EXCEPT ![v] = "deleting"]
    BY <1>2 DEF AbortUpload
  <2>2. u = v
    BY <1>0, <2>1 DEF TypeOK
  <2>3. job[<<u, "abort">>] = "none"
    BY <2>1, <2>2 DEF JobsHaveCause, OpenStatus
  <2> QED
    BY <1>0, <2>1, <2>2, <2>3, InsertedJob
<1>3. ASSUME NEW v \in Upload, session[v] # "failed", FailUpload(v) PROVE Queued
  <2>1. /\ InsertJobs({v}, "fail")
        /\ session' = [session EXCEPT ![v] = "failed"]
        /\ blob' = [blob EXCEPT ![v] = "deleting"]
    BY <1>3 DEF FailUpload
  <2>2. u = v
    BY <1>0, <2>1 DEF TypeOK
  <2>3. job[<<u, "fail">>] = "none"
    BY <1>3, <2>2 DEF JobsHaveCause
  <2> QED
    BY <1>0, <2>1, <2>2, <2>3, InsertedJob
<1>4. ASSUME NEW blobs, InsertJobs(blobs, "retire"), u \in blobs,
             blob[u] \in {"active", "pending"}
      PROVE  Queued
  <2>1. job[<<u, "retire">>] = "none"
    BY <1>0, <1>4, NoJobYet
  <2> QED
    BY <1>0, <1>4, <2>1, InsertedJob
<1>5. ASSUME NEW v \in Upload, FinalizeReplace(v), session[v] \notin {"created", "uploading"}
      PROVE  Queued
  <2>1. blob' = [Retired({current[target[v]]}) EXCEPT ![v] = "active"]
    BY <1>5 DEF FinalizeReplace
  <2>2. u # v
    BY <1>0, <2>1 DEF Retired, TypeOK
  <2>3. session'[u] = session[u]
    BY <1>0, <1>5, <2>2 DEF FinalizeReplace, CloseSession, TypeOK
  <2>4. blob'[u] = Retired({current[target[v]]})[u]
    BY <2>1, <2>2
  <2>5. u = current[target[v]] /\ blob[u] = "active"
    BY <2>3, <2>4 DEF Retired
  <2> QED
    BY <1>4, <1>5, <2>5 DEF FinalizeReplace
<1>6. ASSUME NEW S \in SUBSET Upload, DeleteNode(S) PROVE Queued
  <2>1. /\ blob' = Retired({current[n] : n \in S}) /\ UNCHANGED session
        /\ InsertJobs({current[n] : n \in S}, "retire")
    BY <1>6 DEF DeleteNode, sessionVars
  <2>2. u \in {current[n] : n \in S} /\ blob[u] = "active"
    BY <2>1 DEF Retired
  <2> QED
    BY <1>4, <2>1, <2>2
<1>7. ASSUME MarkProjectDeleting PROVE Queued
  <2>1. /\ UNCHANGED session
        /\ \/ blob'[u] = blob[u]
           \/ u \in {v \in Upload : blob[v] \in {"active", "pending"}}
        /\ InsertJobs({v \in Upload : blob[v] \in {"active", "pending"}}, "retire")
    BY <1>7 DEF MarkProjectDeleting, sessionVars
  <2> QED
    BY <1>4, <2>1
<1>8. ASSUME NEW v \in Upload,
             \/ \E s \in Slot, overwrite \in BOOLEAN : CreateUpload(v, s, overwrite)
             \/ SetProviderUploadID(v) \/ MarkUploadCompleting(v) \/ FinalizeInsert(v)
             \/ ExpireUpload(v) \/ Expire(v)
      PROVE  FALSE
  <2>1. ASSUME NEW s \in Slot, NEW overwrite \in BOOLEAN, CreateUpload(v, s, overwrite)
        PROVE  FALSE
    BY <1>0, <2>1 DEF CreateUpload, TypeOK
  <2>2. CASE SetProviderUploadID(v) \/ MarkUploadCompleting(v)
    BY <1>0, <2>2 DEF SetProviderUploadID, MarkUploadCompleting, TypeOK
  <2>3. CASE FinalizeInsert(v)
    BY <1>0, <2>3 DEF FinalizeInsert, CloseSession, TypeOK
  <2>4. CASE ExpireUpload(v) \/ Expire(v)
    BY <1>0, <2>4 DEF ExpireUpload, Expire, sessionVars, TypeOK
  <2> QED
    BY <1>8, <2>1, <2>2, <2>3, <2>4
<1>9. ASSUME NEW n \in Upload, NEW s \in Slot, UpdateNode(n, s) PROVE FALSE
  BY <1>1, <1>9 DEF UpdateNode, sessionVars
<1>10. ASSUME NEW v \in Upload, UploadStep(v) PROVE Queued
  BY <1>2, <1>3, <1>5, <1>8, <1>10 DEF UploadStep, FinalizeUpload
<1> QED
  BY <1>6, <1>7, <1>9, <1>10 DEF NodeStep

(* The steps of handlers and users.                                        *)
LEMMA QueuedStays ==
    ASSUME ServiceInv, DeletingHolds, UNCHANGED workerVars,
           (\E v \in Upload : UploadStep(v)) \/ NodeStep \/ UNCHANGED vars
    PROVE  DeletingHolds'
<1>0. IInv /\ JobsHaveCause /\ WorkerHolds
  BY DEF ServiceInv
<1> SUFFICES ASSUME NEW u \in Upload, blob'[u] = "deleting", session'[u] # "expired"
             PROVE  HasJob(u)'
  BY DEF DeletingHolds
<1>1. CASE UNCHANGED vars
  BY <1>1 DEF DeletingHolds, HasJob, vars, workerVars
<1>2. CASE (\E v \in Upload : UploadStep(v)) \/ NodeStep
  <2>1. CASE blob[u] = "deleting" /\ session[u] # "expired"
    <3>1. PICK c \in Cause : /\ job[<<u, c>>] \in {"pending", "running", "failed"}
                             /\ phase = "marked" => at # <<u, c>>
      BY <2>1 DEF DeletingHolds, HasJob
    <3>2. job'[<<u, c>>] = job[<<u, c>>]
      BY <1>0, <1>2, <3>1, JobsStay, JobParts
    <3> QED
      BY <3>1, <3>2 DEF HasJob, workerVars
  <2>2. CASE blob[u] # "deleting" \/ session[u] = "expired"
    <3>1. PICK c \in Cause : job[<<u, c>>] = "none" /\ job'[<<u, c>>] = "pending"
      BY <1>0, <1>2, <2>2, DeletingIsQueued
    <3>2. phase = "marked" => job[at] = "running"
      BY <1>0 DEF WorkerHolds
    <3> QED
      BY <3>1, <3>2 DEF HasJob, workerVars
  <2> QED
    BY <2>1, <2>2
<1> QED
  BY <1>1, <1>2

(* The worker's own steps.                                                 *)
LEMMA WorkerKeepsJobs ==
    ASSUME ServiceInv, DeletingHolds, Worker
    PROVE  DeletingHolds'
<1>0. TypeOK /\ WorkerHolds
  BY DEF ServiceInv, IInv
<1> SUFFICES ASSUME NEW u \in Upload, blob'[u] = "deleting", session'[u] # "expired"
             PROVE  HasJob(u)'
  BY DEF DeletingHolds
<1>1. blob[u] = "deleting" /\ session[u] # "expired"
  <2>1. CASE JobMark
    BY <1>0, <2>1 DEF JobMark, MarkBlobDeleted, sessionVars, TypeOK
  <2>2. CASE SweepExpire
    <3>1. at \in Upload
      BY <1>0, <2>2 DEF SweepExpire, ItemDone, WorkerGoes, WorkerHolds
    <3>2. ExpireUpload(at) \/ UNCHANGED vars
      BY <2>2 DEF SweepExpire
    <3> QED
      BY <1>0, <3>1, <3>2 DEF ExpireUpload, vars, TypeOK
  <2>3. CASE ~JobMark /\ ~SweepExpire
    <3>1. UNCHANGED <<blob, session>>
      BY <2>3 DEF Worker, WorkerBoot, RecoverRunningJobs, WorkerClaim, ClaimJobs, JobRemove,
                  JobFails, FailJob, JobCompletes, CompleteJob, SweepStart, SweepRemove,
                  SweepSkips, sessionVars, vars
    <3> QED
      BY <3>1
  <2> QED
    BY <2>1, <2>2, <2>3
<1>2. PICK c \in Cause : /\ job[<<u, c>>] \in {"pending", "running", "failed"}
                         /\ phase = "marked" => at # <<u, c>>
  BY <1>1 DEF DeletingHolds, HasJob
<1> DEFINE k == <<u, c>>
<1>3. k \in Job /\ k[1] = u
  BY JobParts
<1> SUFFICES job'[k] \in {"pending", "running", "failed"} /\ (phase' = "marked" => at' # k)
  BY DEF HasJob
<1>4. /\ job[k] \in {"pending", "running", "failed"}
      /\ phase = "marked" => at # k
  BY <1>2
<1> HIDE DEF k
<1>5. CASE WorkerBoot
  BY <1>3, <1>4, <1>5 DEF WorkerBoot, WorkerGoes, RecoverRunningJobs
<1>6. ASSUME NEW S \in SUBSET Job, WorkerClaim(S)
      PROVE  job'[k] \in {"pending", "running", "failed"} /\ (phase' = "marked" => at' # k)
  BY <1>3, <1>4, <1>6 DEF WorkerClaim, WorkerGoes, ClaimJobs
<1>7. ASSUME NEW j \in Job, JobRemove(j)
      PROVE  job'[k] \in {"pending", "running", "failed"} /\ (phase' = "marked" => at' # k)
  BY <1>4, <1>7 DEF JobRemove, WorkerGoes, vars
<1>8. ASSUME NEW j \in Job, JobFails(j)
      PROVE  job'[k] \in {"pending", "running", "failed"} /\ (phase' = "marked" => at' # k)
  <2>1. phase' \in {"idle", "jobs"} /\ FailJob(j)
    BY <1>8 DEF JobFails, ItemDone, WorkerGoes
  <2> QED
    BY <1>0, <1>3, <1>4, <2>1 DEF FailJob, TypeOK
<1>9. CASE JobMark
  <2>1. /\ blob' = [blob EXCEPT ![at[1]] = "deleted"] /\ UNCHANGED <<job, at>>
        /\ at \in Job
    BY <1>0, <1>9 DEF JobMark, MarkBlobDeleted, jobVars, WorkerGoes, WorkerHolds
  <2>2. at[1] # u
    BY <1>0, <2>1 DEF TypeOK
  <2> QED
    BY <1>3, <1>4, <2>1, <2>2
<1>10. CASE JobCompletes
  <2>1. /\ phase = "marked" /\ phase' \in {"idle", "jobs"} /\ CompleteJob(at)
    BY <1>10 DEF JobCompletes, ItemDone, WorkerGoes
  <2> QED
    BY <1>0, <1>3, <1>4, <2>1 DEF CompleteJob, TypeOK
<1>11. ASSUME \/ \E S \in SUBSET Upload : SweepStart(S)
              \/ \E v \in Upload : SweepRemove(v) \/ SweepSkips(v)
       PROVE  job'[k] \in {"pending", "running", "failed"} /\ (phase' = "marked" => at' # k)
  <2>1. UNCHANGED job /\ phase' \in {"idle", "sweep", "swept"}
    BY <1>11 DEF SweepStart, SweepRemove, SweepSkips, ItemDone, WorkerGoes, vars
  <2> QED
    BY <1>4, <2>1
<1>12. CASE SweepExpire
  <2>1. UNCHANGED job /\ phase' \in {"idle", "sweep"}
    BY <1>12 DEF SweepExpire, ItemDone, WorkerGoes, ExpireUpload, jobVars, vars
  <2> QED
    BY <1>4, <2>1
<1> QED
  BY <1>5, <1>6, <1>7, <1>8, <1>9, <1>10, <1>11, <1>12 DEF Worker

LEMMA DeletingStep ==
    ASSUME ServiceInv, DeletingHolds, [ServiceNext]_svars
    PROVE  DeletingHolds'
<1>1. ASSUME NEW u \in Upload,
             CreateRequest(u) \/ ContentStep(u) \/ CompleteRequest(u) \/ AbortRequest(u)
             \/ RequestDropped(u)
      PROVE  DeletingHolds'
  BY <1>1, RequestsSpareWorker, CreateRefines, CompleteRefines, OthersRefine, QueuedStays
     DEF ServiceInv
<1>2. CASE FileRequest
  BY <1>2, QueuedStays DEF FileRequest, NodeStep
<1>3. CASE Crash
  BY <1>3 DEF Crash, vars, DeletingHolds, HasJob
<1>4. CASE UNCHANGED svars
  BY <1>4, QueuedStays DEF svars
<1> QED
  BY <1>1, <1>2, <1>3, <1>4, WorkerKeepsJobs DEF ServiceNext

(* Content on its way out is never forgotten: some job will still delete   *)
(* it or was given up, or its object was swept with its expired session.   *)
THEOREM DeletingIsNeverForgotten == ServiceSpec => []DeletingHasJob
<1>1. ServiceInit => DeletingHolds
  BY DEF ServiceInit, Init, DeletingHolds
<1>2. ServiceInv /\ DeletingHolds /\ [ServiceNext]_svars => DeletingHolds'
  BY DeletingStep
<1>3. DeletingHolds => DeletingHasJob
  BY DEF DeletingHolds, HasJob, DeletingHasJob
<1> QED
  BY <1>1, <1>2, <1>3, ServiceInvAlways, PTL DEF ServiceSpec
=============================================================================
