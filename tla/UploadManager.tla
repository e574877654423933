--------------------------- MODULE UploadManager ----------------------------
(***************************************************************************)
(* One item of the browser's upload queue.  Its run creates a session,     *)
(* sends the content - in one PUT, or in parts that a few workers take     *)
(* from a batch of presigned URLs - and completes the upload; its user may *)
(* cancel it, retry it in a new run with a new session, or dismiss it.     *)
(*                                                                         *)
(* A step of a run is what happens up to the next await.  Runs are         *)
(* numbered, and so are their sessions; a call that has left the browser   *)
(* may reach the server at any later time, or never.                       *)
(***************************************************************************)
EXTENDS Naturals, FiniteSets

CONSTANTS
    Workers,     \* part uploads at a time (4 in the code)
    Tries,       \* attempts per part (3 in the code)
    Parts,       \* parts of a multipart upload
    Batch,       \* parts presigned at a time (100 in the code)
    MaxRuns      \* bound on the runs of an item

ASSUME ManagerAssumption ==
    /\ {Workers, Tries, Parts, Batch, MaxRuns} \subseteq Nat \ {0}

Runs == 1..MaxRuns
Lanes == 1..Workers

VARIABLES
    shown,        \* the status in the drawer
    uploadId,     \* the session the drawer knows, or 0
    control,      \* the run whose AbortController is registered, or 0
    aborted,      \* runs whose controller was aborted
    phase,        \* what each run awaits
    lane,         \* the part each worker of a run sends, and its attempt
    cursor,       \* the next part of the batch of a run
    sent,         \* the parts of a run whose ETag came back
    asked,        \* DELETE and complete calls that have left the browser
    session       \* the sessions at the server

itemVars == <<shown, uploadId, control>>
runVars == <<aborted, phase, lane, cursor, sent>>
managerVars == <<itemVars, runVars, asked, session>>

NoPart == [part |-> 0, try |-> 0]

ManagerInit ==
    /\ shown = "none" /\ uploadId = 0 /\ control = 0
    /\ aborted = {}
    /\ phase = [r \in Runs |-> "none"]
    /\ lane = [r \in Runs |-> [w \in Lanes |-> NoPart]]
    /\ cursor = [r \in Runs |-> 1]
    /\ sent = [r \in Runs |-> {}]
    /\ asked = {}
    /\ session = [r \in Runs |-> "none"]

-----------------------------------------------------------------------------
(* An item that was dismissed stays out of the list whatever is shown.     *)
Shows(status) == shown' = IF shown = "dismissed" THEN shown ELSE status
Goes(r, next) == phase' = [phase EXCEPT ![r] = next]
Alive(r) == phase[r] \notin {"none", "ended", "broken"}

(* run, from its start to the call that creates the session.               *)
Begin(r) ==
    /\ phase[r] = "none" /\ \A q \in Runs : q < r => phase[q] # "none"
    /\ Shows("uploading")
    /\ control' = r
    /\ Goes(r, "creating")
    /\ UNCHANGED <<uploadId, aborted, lane, cursor, sent, asked, session>>

Enqueue == shown = "none" /\ Begin(1)
Retry == shown = "failed" /\ \E r \in Runs : Begin(r)

(* The catch and finally of run.  A run that ends while its workers send   *)
(* parts leaves them at it: it is broken.                                  *)
Ends(r) ==
    /\ Shows(IF r \in aborted THEN "cancelled" ELSE "failed")
    /\ control' = 0
    /\ Goes(r, IF phase[r] = "parts" THEN "broken" ELSE "ended")

(* Mutant: the error is thrown, and nobody is told.                        *)
FailsSilently(r) ==
    /\ phase[r] \in {"creating", "again", "confirm", "presign", "blob", "completing"}
    /\ control' = 0
    /\ Goes(r, "ended")
    /\ UNCHANGED <<shown, uploadId, aborted, lane, cursor, sent, asked, session>>

(* The call fails, is answered with an error or aborted; or the user does  *)
(* not want to overwrite the file there is.                                *)
Fails(r) ==
    /\ phase[r] \in {"creating", "again", "confirm", "presign", "blob", "completing"}
    /\ Ends(r)
    /\ UNCHANGED <<uploadId, aborted, lane, cursor, sent, asked, session>>

Live(r) == r \notin aborted

Conflict(r) ==
    /\ phase[r] = "creating" /\ Live(r)
    /\ Goes(r, "confirm")
    /\ UNCHANGED <<itemVars, aborted, lane, cursor, sent, asked, session>>

(* A dialog that outlives the cancellation leads to a call that is aborted.*)
Confirm(r) ==
    /\ phase[r] = "confirm" /\ Live(r)
    /\ Goes(r, "again")
    /\ UNCHANGED <<itemVars, aborted, lane, cursor, sent, asked, session>>

Created(r) ==
    /\ phase[r] \in {"creating", "again"} /\ Live(r)
    /\ session[r] # "none"
    /\ uploadId' = r
    /\ \E next \in {"blob", "presign"} : Goes(r, next)
    /\ UNCHANGED <<shown, control, aborted, lane, cursor, sent, asked, session>>

(* The single PUT is done: the upload is completed in the next call.       *)
BlobSent(r) ==
    /\ phase[r] = "blob" /\ Live(r)
    /\ Shows("completing")
    /\ Goes(r, "completing")
    /\ asked' = asked \cup {<<"complete", r>>}
    /\ UNCHANGED <<uploadId, control, aborted, lane, cursor, sent, session>>

-----------------------------------------------------------------------------
(* MULTIPART                                                               *)
AtMost(a, b) == IF a < b THEN a ELSE b

(* The batch that begins at part c of a run.                               *)
BatchEnd(c) == AtMost(Parts, ((c - 1) \div Batch + 1) * Batch)

Presigned(r) ==
    /\ phase[r] = "presign" /\ Live(r)
    /\ LET c == cursor[r]
           n == AtMost(Workers, BatchEnd(c) - c + 1)
       IN  /\ lane' = [lane EXCEPT ![r] = [w \in Lanes |->
                          IF w <= n THEN [part |-> c + w - 1, try |-> 1] ELSE NoPart]]
           /\ cursor' = [cursor EXCEPT ![r] = c + n]
    /\ Goes(r, "parts")
    /\ UNCHANGED <<itemVars, aborted, sent, asked, session>>

(* A worker without a part takes the next one of its batch, if any.        *)
NextPart(r, part) ==
    IF cursor[r] <= BatchEnd(part) THEN [part |-> cursor[r], try |-> 1] ELSE NoPart

Advance(r, part) ==
    cursor' = [cursor EXCEPT ![r] = IF @ <= BatchEnd(part) THEN @ + 1 ELSE @]

(* All workers have returned: the next batch, or the complete call.        *)
Awaited(r) ==
    IF phase[r] # "parts" \/ \E w \in Lanes : lane'[r][w] # NoPart
    THEN UNCHANGED <<phase, asked>>
    ELSE IF cursor'[r] <= Parts
    THEN Goes(r, "presign") /\ UNCHANGED asked
    ELSE /\ Goes(r, "completing")
         /\ asked' = asked \cup {<<"complete", r>>}

(* The part arrives; also in a run that has failed, unless it was aborted. *)
PartSent(r, w) ==
    /\ lane[r][w] # NoPart /\ Live(r)
    /\ LET part == lane[r][w].part
       IN  /\ sent' = [sent EXCEPT ![r] = @ \cup {part}]
           /\ lane' = [lane EXCEPT ![r][w] = NextPart(r, part)]
           /\ Advance(r, part)
    /\ Shows("uploading")
    /\ Awaited(r)
    /\ UNCHANGED <<uploadId, control, aborted, session>>

PartRetried(r, w) ==
    /\ lane[r][w] # NoPart /\ Live(r)
    /\ lane[r][w].try < Tries
    /\ lane' = [lane EXCEPT ![r][w].try = @ + 1]
    /\ Shows("retrying")
    /\ UNCHANGED <<uploadId, control, aborted, phase, cursor, sent, asked, session>>

(* Mutant: a part that was tried often enough is left out.                 *)
PartSkipped(r, w) ==
    /\ lane[r][w] # NoPart
    /\ r \in aborted \/ lane[r][w].try = Tries
    /\ LET part == lane[r][w].part
       IN  /\ lane' = [lane EXCEPT ![r][w] = NextPart(r, part)]
           /\ Advance(r, part)
    /\ Awaited(r)
    /\ UNCHANGED <<shown, uploadId, control, aborted, sent, session>>

(* The worker throws: the last attempt failed, the run was aborted, or the *)
(* storage shows no ETag, at any attempt.  The first to throw ends the     *)
(* run, and nothing stops the other workers.                               *)
PartFails(r, w) ==
    /\ lane[r][w] # NoPart
    /\ lane' = [lane EXCEPT ![r][w] = NoPart]
    /\ IF phase[r] = "parts"
       THEN Ends(r)
       ELSE UNCHANGED <<shown, control, phase>>
    /\ UNCHANGED <<uploadId, aborted, cursor, sent, asked, session>>

Completed(r) ==
    /\ phase[r] = "completing" /\ Live(r)
    /\ session[r] = "completed"
    /\ Shows("completed")
    /\ control' = 0
    /\ Goes(r, "ended")
    /\ UNCHANGED <<uploadId, aborted, lane, cursor, sent, asked, session>>

-----------------------------------------------------------------------------
(* THE USER                                                                *)
Terminal == {"completed", "failed", "cancelled"}

(* The session is deleted if the drawer knows one: the last one it learned *)
(* of, which need not be that of the run it aborts.                        *)
Cancel ==
    /\ shown \notin Terminal \cup {"none", "dismissed"}
    /\ aborted' = aborted \cup ({control} \ {0})
    /\ asked' = asked \cup {<<"delete", r>> : r \in {uploadId} \ {0}}
    /\ Shows("cancelled")
    /\ UNCHANGED <<uploadId, control, phase, lane, cursor, sent, session>>

Dismiss ==
    /\ shown \in Terminal
    /\ shown' = "dismissed"
    /\ UNCHANGED <<uploadId, control, runVars, asked, session>>

-----------------------------------------------------------------------------
(* THE SERVER, as UploadService answers                                    *)
Becomes(r, status) ==
    /\ session' = [session EXCEPT ![r] = status]
    /\ UNCHANGED <<itemVars, runVars, asked>>

Opens(r) == /\ phase[r] \in {"creating", "again"} /\ session[r] = "none"
            /\ Becomes(r, "open")
Accepts(r) == /\ <<"complete", r>> \in asked /\ session[r] = "open"
              /\ Becomes(r, "completed")
Closes(r) == /\ <<"delete", r>> \in asked /\ session[r] = "open"
             /\ Becomes(r, "aborted")

-----------------------------------------------------------------------------
RunStep(r) ==
    \/ Fails(r) \/ Conflict(r) \/ Confirm(r) \/ Created(r) \/ BlobSent(r)
    \/ Presigned(r) \/ Completed(r)
    \/ \E w \in Lanes : PartSent(r, w) \/ PartRetried(r, w) \/ PartFails(r, w)

ManagerNext ==
    \/ Enqueue \/ Retry \/ Cancel \/ Dismiss
    \/ \E r \in Runs : RunStep(r) \/ Opens(r) \/ Accepts(r) \/ Closes(r)

ManagerSpec == ManagerInit /\ [][ManagerNext]_managerVars

-----------------------------------------------------------------------------
(* SAFETY                                                                  *)

(* The complete call of a multipart upload names every part: a batch is    *)
(* not left behind with a part missing, however its workers retried, and   *)
(* what the workers of a run that failed still send counts for no other.   *)
CompleteNamesAllParts ==
    \A r \in Runs :
        phase[r] = "completing" /\ cursor[r] > 1 => sent[r] = 1..Parts

(* An item that looks as if it were at work is at work, or was left so by  *)
(* the workers of a run that failed while it sent parts: they go on and    *)
(* show what they do, over the failure, a cancellation or a later run.     *)
AtWork == {"uploading", "retrying", "completing"}
UnfinishedIsRunning ==
    shown \in AtWork =>
        \E r \in Runs : Alive(r) \/ (phase[r] = "broken" /\ Live(r))

(* docs/architecture.md:79, "每个文件最多 4 个分片并发": at most Workers    *)
(* parts of one file are sent at a time.                                   *)
InFlight == {rw \in Runs \X Lanes : lane[rw[1]][rw[2]] # NoPart}
PartsInFlightBounded == Cardinality(InFlight) <= Workers
=============================================================================
