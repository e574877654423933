# AltasCI storage: a verification of the file service

This directory holds TLA+ models of the Go server in `src/backend`, the TLC
configurations that check them on small instances, and TLAPS proofs of the
properties that matter most, for instances of any size. It reads alone with
the repository: every definition names, in `PROJECT.json` under `map`, the
lines it stands for, and `hazards` lists what in this code is hard to test, at
its line.

The question behind the project: the server keeps *metadata* in SQLite and
*content* in a storage (local directory, S3, OSS), and no transaction spans
both. Handlers, a background worker, clients with presigned URLs and restarts
each change one or the other. Does a file users see always have the content
they uploaded, is content nobody shows ever deleted, and does every upload end?

The same pattern, a check in one transaction and its effect in another, runs
through the rest of the server: logins and the sessions they open, requests
that act with the role or the API key they had when they were let in, shares that are
read, changed and written back, guesses that are past the check of a ban,
callbacks of a login whose provider is deleted meanwhile, an `init` that is run
again after a crash. The second half of the project asks what is still true
then, on the server and in its two clients, the downloader and the browser.

## 1. Inventory

| Component | State it keeps | Operations | What must hold |
|---|---|---|---|
| **Metadata store** (`repository/uploads.go`, `nodes.go`, `jobs.go`, `projects.go`) | rows of `projects`, `upload_sessions`, `file_blobs`, `fs_nodes`, `background_jobs` | CreateUpload, MarkUploadCompleting, FinalizeUpload, AbortUpload, FailUpload, ExpireUpload, UpdateNode, DeleteNode, MarkProjectDeleting, job claiming and completion | a live file has exactly one active blob; a job never deletes a blob in use; replaced and deleted versions are disposed of |
| **Upload handlers** (`httpapi/files.go`, `mcp.go`) | nothing between requests; a position in the handler during one | createUpload, localUpload, upload_content, completeUpload, abortUpload | content is verified before it is published; a dropped request leaves something that is cleaned up |
| **Storage adapters** (`storage/`) | objects, multipart uploads at the provider | CreateUpload, Put, Head, Delete, Complete/AbortMultipartUpload | an object appears whole or not at all |
| **Background worker** (`worker/worker.go`) | its list of claimed jobs or swept sessions | recovery at start, claim, execute, retry, sweep of expired sessions | every job and every expired session ends; nothing in use is deleted |
| **Directory tree** (`repository/nodes.go`) | `fs_nodes.parent_id`, `node_type`, `deleted_at` | CreateDirectory, UpdateNode, DeleteNode, insertion of files | no cycle, bounded depth, deletion takes the whole subtree |
| **Project access** (`authorization`, `repository/projects.go`) | members, `write_enabled`, roles | CanReadProject, CanWriteProject, member changes | who may write, and when that is looked up |
| **Public shares** (`httpapi/shares.go`, `sharing`) | `shares`, signed grants; the row a request has read | create, update, revoke, verify, list, download | a revoked share stays revoked; only the shared subtree is visible |
| **Rate limiting** (`repository/shares.go`, login) | `security_bans` | BanRemaining, RecordFailure, ClearFailures | the number of guesses one ban is worth; a ban lasts |
| **Accounts and sessions** (`repository/users.go`, `httpapi/auth.go`, `admin.go`) | `users`, `sessions`; the row a request was let in with | login, logout, password change, disabling, administrator transfer, admin-reset-password | exactly one active administrator; who still has a session after all were revoked |
| **API keys** (`repository/api_keys.go`, `httpapi/api_keys.go`) | `api_keys` | create, authenticate, update, revoke | scope and project range; a revoked key stays revoked |
| **OIDC** (`oidc`, `repository/oidc.go`) | flows, identities, providers | start, callback, provider administration | a state lets in once; a subject has one user; nothing refers to a deleted provider |
| **Storage administration, settings, audit** (`httpapi/admin.go`) | `storage_backends`, `system_settings`, `audit_events` | enable, disable, delete, PATCH settings | a backend in use is not deleted |
| **Server start** (`cmd/altasci-server`) | key file, database file | init, serve, admin-reset-password | an initialised database and its key are not removed, and get one administrator |
| **MCP endpoint** (`httpapi/mcp.go`) | none | calls the handlers above | same rules as the handlers |
| **Downloads** (`httpapi/files.go`, `shares.go`, `mcp.go`) | the row a request has read | download, ranges, read_file in pages | what is sent is what was asked for, of one version |
| **ascli** (`internal/ascli`) | plan, temporary file, destination directory | list, preflight, download, verify, publish | never a broken file under the final name; nothing replaced unasked |
| **Browser** (`frontend/src/upload`) | queue of uploads; runs, part workers | enqueue, retry, cancel, dismiss, send parts, complete | complete names every part; what is shown is going on |

How they interact. A handler is a sequence of calls: read permission, run a
transaction, call the storage, run another transaction. Each transaction is
atomic (SQLite opens every one `IMMEDIATE`), everything between two of them is
not. The worker is one goroutine that shares only the database and the storage
with the handlers. Clients of S3 or OSS write objects without the server
seeing it. A request whose client goes away has its context cancelled, so
*any* of its calls may be its last, including the ones meant to clean up.

What is hard: interleavings of handlers with each other and with the sweep;
checks that are old when their effect happens; restarts that forget the
handlers' and the worker's positions but nothing else; storage calls that fail
after having had an effect; late PUTs; retries with an attempt limit; sessions
that only the sweep can end; guesses that are past the ban's check; clean-up
code that runs at whatever step a command has reached; part workers that
outlive the run they belong to; a directory or a share that others change
between a check and its use.

## 2. Modules

| Module | What it is | Composes |
|---|---|---|
| `Namespace` | abstract: what users are promised of the file area | |
| `Metadata` | the transactions on sessions, blobs, file nodes and jobs | refines `Namespace` |
| `Metadata_proofs` | TLAPS: type correctness, invariants, refinement | `Metadata` |
| `UploadService` | handlers, clients, storage, worker, restarts | extends `Metadata`, and implements it |
| `UploadService_proofs` | TLAPS: types, implementation of `Metadata`, what becomes of content | `UploadService`, `Metadata_proofs` |
| `NodeTree` | the tree of directories and files | |
| `NodeTree_proofs` | TLAPS: type correctness, no cycle, the depth limit, nodes stay attached | `NodeTree` |
| `RateLimit` | the table of bans and the handlers that consult it | |
| `Accounts` | users, sessions and the requests that act on them | |
| `Shares` | the life of a share, in the requests of `Accounts` | extends `Accounts` |
| `Shares_proofs` | TLAPS: type correctness, one administrator, disabled accounts; `Shares` implements `Accounts`, restored shares | `Accounts`, `Shares` |
| `Access` | who may do what: users, members, projects, storage backends, API keys | |
| `Access_proofs` | TLAPS: effects were permitted, keys stay within their policy, revocation | `Access` |
| `Oidc` | logins through providers, and the administration of providers | |
| `Login_proofs` | TLAPS: states are used once, one user per subject, deleted providers; bounds and bans of the rate limit | `Oidc`, `RateLimit` |
| `InitCommand` | `init` and the other commands on the same two files | |
| `InitCommand_proofs` | TLAPS: one initialisation, initialised databases are kept | `InitCommand` |
| `Ranges` | part sizes, Range headers, pages, and the reads that use them | |
| `Ascli` | the downloader, others in its directory, editors of its share | |
| `UploadManager` | one item of the browser's queue, its runs and part workers | |
| `Transfer_proofs` | TLAPS: downloads are whole, nothing is replaced; uploads name all parts; ranges, pages and parts are the file | `Ascli`, `UploadManager`, `Ranges` |
| `MCParts` | `Oidc`, `Access`, `InitCommand`, `Ranges`, `Ascli`, `UploadManager`, one at a time | extends all six |
| other `MC*` | instances for TLC: symmetry, bound on concurrency | |

**Namespace.** A name holds the version of one upload; an upload is a ticket
spent once, by publishing or by being given up. A spent ticket never
publishes, so a replaced or deleted version never returns and none is visible
under two names.

**Metadata.** One project. `session`, `blob`, `node`, `job` are the `status`
columns; a session and its blob are inserted together and are both indexed by
the upload, and a file node by the upload that inserted it (only FinalizeUpload
inserts files, at most one per session). A job is named by its blob and the
kind of transaction that queued it, because one blob can have several. A `Slot` is a
value of the unique index on live names; directories are in it, not in the
state. `DeleteNode(S)` deletes the files `S`, whichever directory they were
under. `expired` stands for `expires_at <= now` and never becomes false.
`UploadStep` and `JobStep` say what the callers of the transactions guarantee:
FinalizeUpload only after a claim, FailUpload neither of a completed session
nor twice, ExpireUpload of expired sessions, and the worker's updates on jobs
that run. Those guards are in no transaction; that the callers respect them is what
`UploadService` is checked for.

**UploadService.** A program counter per upload and handler (`creating`,
`completing`, `aborting`), a flag for a PUT under way, and the worker's `phase`
with its list. `object` is the stored content by what completion checks of it
(absent, of the wrong size, whole), `remote` the multipart upload at the
provider. Kinds of uploads: `local`, `single` (presigned PUT), `multipart`.
One counter per upload is enough for several concurrent complete calls, as the
claim admits one and the others change nothing. `RequestDropped` ends a
handler at any call; `Crash` restarts the server. `CompleteMultipartFails`,
`CreateFails` and `AbortRemote` admit that a call that reports an error had its
effect.

**NodeTree.** `parent`, `kind`, `state` by node. A creation is three steps
(parent found, depth measured, row inserted), an upload two; a move and a
deletion are single transactions. The recursive SQL queries are modelled by
closed sets (`Subtree`): no recursion, so that theorems can be proved.

**RateLimit.** One row per scope; a request asks for the client's ban, then the
share's, then compares the code, then records one failure after the other, each
step on its own. `guesses` is a history variable: the answers given towards one
ban. `Share = {}` is login, which counts per client only and does not escalate.
Client and share have a limit each, window and length of the ban are the same
for both. The handlers ignore errors of these calls; the model assumes there
are none. The clock a handler reads and the transaction it then runs are one instant.

**Accounts.** `role`, `status`, `local` are columns of `users` (`local` says
that there is a password), `session` and `owner` of `sessions`. `req` is what a
request carries between its steps: a login the account it has verified, an
authenticated request the user row it was let in with (`withAuth`). Such a
handler runs with a role that may be out of date; `UpdateUser` and
`TransferAdmin` look again in their transactions, `CreateUser`, `SetPassword`
and `RevokeUserSessions` do not. `stale` and `late` are history variables: the
sessions of a login's user were revoked after it verified the user, and the
session it then opened. The command admin-reset-password is a process of its
own that waits for somebody to type (`prompt`). Which password was given is
left out: clients know the one that is compared.

**Shares.** `updateShare` and `deleteShare` read the share and compare its
creator (`ShareByID`), decode the body, and write in another statement
(`UpdateShare`, `DisableShare`). A request runs one handler, of a share or of
`Accounts`. Expiry times are written back like the flag and left out.

**Access.** A request (`ask`) is authenticated by a session or a key, and from
then on carries the rows it read: the user's, and the policy of the key. It
passes the middleware of its route (`ApiAccess`, which is `apiAccess`,
`sessionOnly` and `admin` together) and then runs one handler, which asks
`CanReadProject` and so on once more: with the old user row, but with projects
and members as they are at that moment. Between the steps, handlers of other
requests change users, members, projects, backends and keys. `held` is a
history variable: every fact an operation may rest on (`Basis`) that was true
at some moment of the request. The abstract promise of authorization is stated
with it, as the code keeps no better one: an effect was permitted *at some moment
of its request*, not when it happened. Updating a key is read, validation and
write; deleting a storage backend looks for projects that use it.

**Oidc.** A login is a flow (the row behind `state`) that `Start` inserts after
it has asked the provider for its endpoints, and a callback of five steps:
consume the flow, read the provider, exchange the code, resolve the user, open
the session. What the provider answers is the choice of a subject and an address
(`Exchange`). Resolving is one transaction with three outcomes: the known
identity, a link by address, a new user. Foreign keys and unique columns are
guards where they decide a race. `removing` is the check of `deleteOIDC` before
its transaction; a provider that was enabled again in between is deleted
nevertheless (`docs/api.md:213` asks for it to be disabled), which no property
forbids, as what it must leave behind is the same.

**InitCommand.** Every invocation of a command is a member of `Command`; `step`
is how far it is. A database file is named after the command that created it,
so that a handle to a removed file is not a handle to its successor.
`InitFails` sends any step to the deferred clean-up, which decides by `existed`
and `made`; `Crash` skips it.

**Ranges.** `multipartPartSize` and `parseRange` are operators; the state
around them is a reader that has read the row of a blob and opens its object
later, and a client that reads a file page by page, while the file is
overwritten and old objects are deleted. The reference definition of a Range is
a set of bytes (`Wanted`).

**Ascli.** A process is a phase with the plan it has listed, what is `left` of
a loop, and the entry it is `at`. The phases are those of the code: listing,
preflight, then for each entry the response, the copy, the second look at the
destination and the publication, by a hard link or, with `--overwrite`, by a
rename. `disk` are the final names, with the process that made each file; `temp`
is the temporary file, removed by every way out except `Kill`. `EditShare` and
`UseDirectory` are other people.

**UploadManager.** One item. Its runs are numbered, and the sessions they open
with them. A step lasts until the next `await`; calls that have left the
browser (`asked`) reach the server at any later time or never. `lane` are the
part workers of a run. `Promise.all` rejects with the first worker that throws:
the run is then `broken`, its other workers are not. The server's side is
three steps of a session, which stand for `UploadService`.

## 3. Runs

| Run | Question | Instance | Result |
|---|---|---|---|
| `metadata` | do the transactions, in any order their callers can produce, keep files backed and implement `Namespace`? | 2 uploads, 2 names, 1 attempt per job; symmetric | holds, 1.5 M states |
| `upload_service` | do handlers and worker use the transactions as `Metadata` expects, and what happens to content? | 1 upload of each kind, all interleavings, 2 attempts, 1 restart; or 2 local uploads for one name, any two requests or worker passes at a time | holds, 770 k states |
| `upload_liveness` | do expired sessions and queued jobs end? | 1 local upload, 2 attempts, 1 restart, fairness | holds, 58 k states |
| `tree` | do old checks, moves and deletions keep the tree a tree? | 5 nodes, depth limit 3; symmetric | holds, 31 k states |
| `rate_limit` | what is a ban worth when requests are past its check? | 2 clients, 1 share, 2 requests, limits 2 and 3, clock to 4 | holds, 3 M states |
| `shares` | with requests that act on old reads: one administrator? what is revoking worth? | 2 users, 3 sessions, 2 requests, 1 share; symmetric | holds, 300 k states |
| `parts` | what is true of six parts that share no state: OIDC logins, rights and keys, init, ranges and pages, ascli, the browser's queue? | see *Bounds* | holds, 720 k states |
| `late_finalize` | is a visible file's object always there? | 1 local upload | **violated**, finding 1 |
| `stuck_multipart` | does every expired session end? | 1 multipart upload, fairness | **violated**, finding 2 |
| `orphans` | is nothing live left under a deleted directory? | 3 nodes | **violated**, finding 3 |
| `share_reopened` | does a revoked share stay revoked? | 2 users, 2 sessions, 2 requests, 1 share | **violated**, finding 4 |
| `part_flood` | are at most 4 parts of a file sent at a time? | 2 workers, 5 parts, 2 runs | **violated**, finding 5 |

The properties:

* `LiveFileBacked`, `ActiveIsCurrent`: a live file has an active blob of a
  completed upload, and an active blob exactly one live file.
* `JobMeansDisposed`: the worker looks at no status before it deletes an
  object, so a job must only exist for a blob on its way out.
* `PendingIsOpen`: closing a session, in any of four ways, decides its blob.
* `ImplementsNamespace`, `Spec` (as a property of `UploadService`): refinement.
* `ContentKept`: the exact ways a visible file can lose its content. Those are the ones
  of finding 1 and of a presigned URL used again after completion.
* `DeletingHasJob`: content to be deleted is never forgotten. Its exceptions
  are in the formula: a session that expired (ExpireUpload queues no job) and a
  job given up after the last attempt.
* `NoFileInDeletedProject`: although neither CreateUpload nor FinalizeUpload
  looks at the project.
* `OverdueSessionsClose`, `JobsFinish`: liveness.
* `Acyclic`, `DepthBounded`, `StaysAttached`: a cycle would make the recursive
  queries (`UNION ALL`) endless; the depth limit can be exceeded by one level,
  not more; only an insertion can leave a node under a deleted directory.
* `GuessesBounded`, `BansHold`: the limit and one guess more per other request
  in progress; late failures neither lift, shorten nor prolong a ban.
* `ExactlyOneAdmin`: nobody can lock the installation and no transfer makes
  two, although a request of a former administrator may still be running.
* `LateSessionsBounded`, `DisabledAreOut`: `docs/architecture.md:66` says that
  a password change revokes all sessions of the user. A login in progress opens
  its session afterwards; there is one such session per login, and a disabled
  account has no other.
* `RevokedUnlessRead`: a revoked share is only restored by an update that read
  it before; `share_reopened` shows that this does happen.
* `RightsWereHeld`: whatever a request did, its user was permitted to do it at
  some moment of the request, for each operation with the exact rights it
  needs: an administrator or a member, `write_enabled`, an active project. That
  the three may have been true at different moments is in the formula.
* `KeyPermitted`, `RevocationIsFinal`: a request with a key did nothing
  outside the scopes and projects the key had during the request, not even in
  the listing, which has no project in its route; and an update that was read
  before a revocation does not undo it (unlike shares, finding 4).
* `OneLoginPerFlow`, `SameSubjectSameUser`, `NothingOfDeletedProviders`: a
  state opens one session however often its callback is sent
  (`docs/architecture.md:71`); two first logins of one person make one user; a
  start or a callback that has read a provider leaves nothing in the database
  after the provider is deleted.
* `OneInitPerDatabase`, `InitializedIsKept`: no interleaving of two inits gives
  a database two administrators. As long as inits do not overlap, no crash,
  failure, clean-up or repetition removes an initialised database or its key.
  When they do overlap, the one that fails may remove the database of the other,
  because it found none at its start: the precondition of the property is
  what the code relies on.
* `PiecesAreTheFile`: the bytes of a Range are those the header names
  (`RangeIsExact`), pages that show one version are that version
  (`PagesAreTheFile`), and the parts of an upload fit the provider's limits and
  are the file (`PartsFit`). One exception is in the formula: the last n bytes
  of an empty file are answered with 503 instead of 416 (`docs/api.md:140`),
  because `parseRange` yields the range 0 to -1.
* `FilesAreWhole`, `OneFileEach`, `ExistingKept`: a file under its final name
  has the size it was listed with; no process publishes two entries under one
  name, although the share was edited while it was listed; nothing that exists
  is replaced without `--overwrite`, and no directory with it.
* `CompleteNamesAllParts`, `UnfinishedIsRunning`: a complete call names every part
  whatever the retries; an item that looks busy is busy. The exception is the
  cause of finding 5: a run that failed while it sent parts leaves workers
  behind, which also show "uploading" over the failure.

**Bounds, and why they are enough.** Two uploads and one or two names give every race the
transactions can have: two versions of one file, a replacement with a move, a
name taken in between. A third upload only repeats one of the two. Three job causes
per upload make several jobs for one blob possible. One attempt separates
"retried" from "given up" in `metadata`; `upload_service` and `upload_liveness` have
two, so a job is retried before it is given up. `MaxInFlight = 2` in `upload_service`
(`BoundedUploads`) is the one bound on interleaving: once there are two uploads,
at most two of the handlers, PUTs and worker passes are under way at a time,
without a restart or a second attempt; all steps of one upload interleave
without a bound. `ClaimLimit` and `SweepLimit` are the batch sizes (20 and
100). A restart may happen once, at any point. Five nodes and a depth limit
of three make it possible to exceed the limit by two, were that allowed, and to
build cycles through two directories with something below. With limits of 2
and 3 a ban of each scope can be set, expire and be set again within the clock.
Two users and two requests are the parties of a transfer and of every race
between a revocation and a login or an old read; a user row that does not exist
yet can be created by an administrator or by an OIDC login. Three sessions let
both log in and one log in again; the sessions are not reused, which bounds
the run.

In `parts` one part moves while the others stand still in an initial state; the
parts share no variable, so nothing is lost by that.
*Access*: two requests, two users, two projects, one key and one change
(`MaxChanges`; revoking and expiring a key are not counted). One request changes
something for the administrator or the owner of a key, the other does anything;
`AskersMatter` keeps two requests at a time to the first project and to different
operations, except on keys. The second project is there for the range of keys
and for listings. *Oidc*: one provider, two flows and callbacks, two subjects
with one address, four changes by administrators: enough to delete a
provider and create users on both sides of a callback. *InitCommand*: three
commands of any kind. *Ranges*: files up to 3 bytes with every header up to
their size and one beyond, two versions; uploads up to 18 with a least part of
3, a unit of 2 and at most 4 parts, so that the part size is the least, is
rounded up, and is exact. *Ascli*: two processes, two entries, two
names, two changes by others while one process runs and one while two do
(`AscliBounds`). *UploadManager*: five parts in batches of three for two
workers, so a batch is full, another is not, and a worker takes a second part;
two attempts and two runs.

**Fairness.** `ServiceSpec` has none. `FairServiceSpec` assumes nothing of
clients, requests or time. The worker is a goroutine that loops until the
context ends, so weak fairness of its steps says only that the scheduler runs
it. Both tickers fire for ever and `select` chooses among ready channels at
random: strong fairness for claiming a given job (they are claimed by
`next_run_at`, and attempts are bounded, so a job cannot be overtaken for ever)
and for a sweep that lists a given session. Strong fairness of removing the
object of one session says that the storage does not refuse for ever; it gives
nothing when the removal is impossible, which is finding 2. The worker's own
database updates are assumed to succeed.

## 4. Findings

1. `late_finalize` (`worker/worker.go:111`). The sweep reads the expired
   sessions once, then deletes each object *before* it looks at the session's
   status again. A complete call claimed just before `expires_at` can verify
   the object, the sweep remove it, and FinalizeUpload publish the file: a
   live file without content. `docs/api.md:132` promises that the object of a published
   file was found.
2. `stuck_multipart` (`worker/worker.go:115`). For a multipart session the
   sweep expires the row only if AbortMultipartUpload succeeds. After the
   provider has completed or aborted that upload, while the row was not
   updated (dropped request, restart), it answers with an error every time, and
   the session stays open for ever, against `docs/architecture.md:85`.
3. `orphans` (`repository/nodes.go:97`). A directory is deleted between the
   check of the parent and the insertion of a directory or file under it. The new node is live,
   in no listing, and its blob is never disposed of, against
   `docs/api.md:96`.
4. `share_reopened` (`httpapi/shares.go:204`). `updateShare` writes back the
   `disabled` flag it read. A PATCH of the expiry time that was read before a
   DELETE (or another PATCH) of the same share enables it again, against
   `docs/api.md:155`.
5. `part_flood` (`UploadManager.tsx:175`). The workers of a run whose part has
   failed go on with the other parts of their batch. The item is shown as
   failed, can be retried, and the retry starts four workers again: seven
   parts of one file are sent at a time, three of them for a session nobody
   completes, and three more with every further run that fails, against
   `docs/architecture.md:79`. `FloodIsBounded` proves that it is never more, and
   `LimitHoldsUntilFailure` that the limit holds while no run has failed.

## 5. Proofs

`Metadata_proofs` proves for all sets of uploads and names and any number of
attempts (assuming only `MetadataAssumption`: NULL is no upload or name, and
at least one attempt):

* `TypeCorrect`, `FilesAreBacked`, `ActiveBlobsAreCurrent`,
  `JobsDeleteNoFile`, `PendingBlobsAreOpen`: each invariant of the run
  `metadata`;
* `ImplementsTheNamespace`: every transaction is a step of `Namespace` or
  changes nothing users see.

None of the invariants is inductive alone. A job's blob is disposed of because
the blob a live node shows was active when it was retired (`LiveHasActive`);
it is still active because only completed sessions have active blobs
(`ActiveIsCompleted`), so abort, failure and expiry, which look at the
session, do not touch it; and retiring one node's blob spares every other node
because no two share one (`OneOwner`). `RowsPaired` says rows are inserted
together, `NamesUnique` is the index. `IInv` is their conjunction; the proof
has one lemma per transaction and group of conjuncts.

`UploadService_proofs` proves, for any uploads, names, kinds, attempts, batch
sizes and restarts:

* `ServiceTypeCorrect`, and `ServiceImplementsMetadata`: every step of handlers,
  clients, worker and restarts is a transaction of `Metadata` that its caller
  may run, or leaves the metadata alone. With `ImplementsTheNamespace` this
  gives `ServiceImplementsNamespace`, so what `Metadata_proofs` shows holds of
  the service with all its interleavings.
* `VisibleContentIsKept`, `DeletingIsNeverForgotten`,
  `DeletedProjectsShowNothing`: the safety properties of the run
  `upload_service`.

The inductive invariant `ServiceInv` adds to `IInv` what a handler's position
says of its session (`HandlersHold`: past its claim a complete call finds its
session completing, aborted or expired, never open, completed or failed, so it
may fail or publish it), that an abort or a failure queues its job once
(`JobsHaveCause`), and that the worker's list holds jobs it has claimed or
sessions that have expired (`WorkerHolds`; nobody else touches a running job,
which is `JobsStay`). The three safety theorems need one strengthening each.
`ContentHolds` says of content that is shown, *or verified and about to be
shown*, what `ContentKept` says of the former; no job can touch either, because
a job means that its blob is disposed of. `ProjectHolds`: in a deleted project
no complete call is under way with content that waits. `DeletingHolds`: the
job that covers content is not the one the worker has just marked as done,
since a late `FailUpload` may mark that content deleting once more and queues
a job of its own.

`NodeTree_proofs` proves, for any finite set of nodes and any depth limit:
`TreeTypeCorrect`, `TreeIsAcyclic`, `AttachedNodesStay`, `TreeDepthIsBounded`.
The inductive
invariant `TreeInv` adds that a live node's parent is a directory or the root
(`ParentsAreDirectories`) and that a node with a request under way is not in
the tree (`RequestsAreNew`): a new node has no children, so inserting it closes
no cycle; a move's target is outside the subtree that moves, and a set of
live nodes closed under "parent of" would have been one before the move.
The bound on the depth needs `DepthInv`: the parent a request has measured stays
within `MaxDepth`, because deletions and insertions take no node deeper, and a
move either leaves a node with ancestors it had or counts it in `Fits`
(`DepthOfMoved`). So what is inserted is at most one level below the limit.

`Shares_proofs` proves of `Accounts`, for any users, sessions and requests (assuming that
there is a user, that NULL is none of them and that requests are finitely many
at a time): `AccountsTypeCorrect`, `OneAdministrator`,
`DisabledAccountsAreOut`, `FewSessionsAreLate`. The inductive invariant `AInv`
adds that a request refers to users that exist (`RequestsHaveUsers`), a session
that is open has an owner, a row not yet inserted is not disabled, and, what
carries the last theorem, that a login of a disabled user in progress is stale
(`DisabledAreStale`). One administrator needs no more than the transactions'
own guards, the index not even that: `IndexAdmits` is not used in the proof.
`FewSessionsAreLate` rests on `LateInv`: the late sessions and the stale logins
of a user are together at most as many as there are requests. A login is used up
by the session it opens (`Moved`), and whatever makes logins stale revokes the
sessions that are open, so the count starts again (`StaleLogins`).

Of `Shares` it proves `SharesTypeCorrect`, `SharesImplementAccounts` (so the
theorems above hold with the handlers of shares) and
`RestoredOnlyByOldReads`. The strengthening `ReadersHandle` says that whoever
has read a share is an authenticated request in its handler; it needs that a
step of one request leaves the others where they are (`OthersGoOn`).

`Access_proofs` proves, for any users, projects, policies and requests at a
time, assuming `AccessAssumption`: `RequestsHadTheirRights`, `KeysHadPermitted`,
`RevokedKeysStayRevoked`. The invariant `RequestInv` of one request says what
its old rows are worth: what a row says was true when it was read and so is
among the facts held (`RowsWereTrue`); what the middleware has let through the
key permits (`WasCleared`); and a request that is done had its rights. Facts
once held stay held (`HeldIsKept`), so the steps of other requests keep it, and
the step of the handler adds what is true of projects and members at that
moment (`DoneStep`).

`Login_proofs` holds the proofs about getting in. `Oidc` and `RateLimit` share no
state; each theorem is of one of them. Of `Oidc` it proves, for any providers,
flows, callbacks and users, assuming `OidcAssumption`: `FlowsAreUsedOnce`, `SubjectsHaveOneUser`,
`NothingIsLeftOfProviders`. A flow is gone before its callback goes on
(`CallsConsumed`), so at most one callback holds it and it opens at most one
session (`UsedOnce`); a resolved user is the one the identity names as long as
the provider exists (`ResolvedAsLinked`), which with the uniqueness of the
identity makes two callbacks of a subject agree.

Of `RateLimit` it proves, for any limits, windows, bans, clients, shares and
finitely many requests at a time, assuming `LimitAssumption` (clients and shares
are different, limits and lengths are positive, a first ban is no longer than a
long one): `LimitTypeCorrect`, `GuessesAreBounded`, `BansLast`. The number of
answers since the last ban is more than a row can say, because requests that
were past the question when the ban fell count on. So the invariant `LimitInv`
says what a row does say: within its window it counts every guess, and the ban
that ends a count starts the next (`CountsAgree`); and during a ban the guesses
*together with the requests that can still add one* stay within the bound
(`PendingCounts`). A request that adds a guess leaves the set of those requests
(`Pending`), and none enters it during a ban, since BanRemaining turns it away.

`InitCommand_proofs` proves, for any number of commands, assuming that NULL is
none of them: `OneAdministratorPerDatabase` for overlapping inits too, by
`SuccessInitializes` (whoever succeeded has initialised the database it had
open) and the count in the transaction; and `InitializedDatabasesAreKept`. The
latter needs that inits one at a time own what they found and made
(`OneAtATime`, `FilesAreItsOwn`), and that whoever may remove something removes
it while nothing is initialised (`RemovesNothingNeeded`).

`Transfer_proofs` holds the proofs about content on its way; `Ascli`,
`UploadManager` and `Ranges` share no state either. Of `Ascli` it proves, for
any processes, entries, names and edits, assuming `AscliAssumption`: `DownloadsAreWhole`, `EntriesHaveTheirFile`,
`ExistingFilesAreKept`. The plan of a process has each name once and the
temporary file, once checked, the size of the entry (`PlansHold`); a published
file is an entry its process is through with (`FilesAreThrough`), so the entry
it publishes next has another name.

Of `UploadManager` it proves, for any number of workers, tries, parts, parts in
a batch and runs, assuming only that there is one of each
(`ManagerAssumption`): `UploadsNameAllParts`, `UnfinishedItemsRun`. The
invariant `TransferInv` says that every part a batch has taken is sent or has a
worker at it (`PartsAccountedFor`), so a batch whose workers are all idle is
complete; that only a run which waits for parts, or failed doing so, has
workers (`LanesRun`); and that a multipart upload being completed has taken all
parts (`AllTaken`), which needs that a batch ends with the last part or before
the next one begins (`BatchEndFacts`).
`OneRunGoesOn`, `FloodIsBounded` and `LimitHoldsUntilFailure` say how far the
code departs from the limit that the run `part_flood` refutes: an item has at
most one run that goes on, since a retry needs the drawer to show a failure and
no run goes on then (`FailedRests`), and a failed run has lost the worker that
threw for good (`OneThrew`), so of four workers it keeps three at most.

Of `Ranges` it proves, for files and uploads of any size and any constants
(`RangesAssumption`), the two algorithms and then the requests that use them:

* `PartsCover`: with the part size `multipartPartSize` chooses there are at most
  as many parts as the provider takes, none is empty, and together they are the
  upload. It rests on what a ceiling is for (`CeilingFacts`).
* `ParseFacts`: for every header and size, parseRange yields exactly the bytes
  the header names or refuses it, but for the suffix of an empty file.
* `PiecesMakeTheFile`: the invariant of the run, whatever is overwritten or
  deleted between the row, the object and the next page. `PagesInv` carries the
  pages: as long as all were of one version, what the reader has is the
  beginning of that version, up to where it asks next.

So every safety invariant and every action property of the passing runs is a
theorem. Only model-checked are the two liveness properties
`OverdueSessionsClose` and `JobsFinish`, because liveness under fairness is out of
the prover's reach, and the five properties that the code does not have.

## 6. Not modelled

* Settings and the audit log: single values and appended rows; the PATCH that
  is not transactional is listed as a hazard. The pages of the browser:
  presentation.
* The configuration and secrets of storage backends, their connection tests
  and presigned URLs as strings.
* The expiry of sessions and shares, grants of visitors, CSRF tokens; the
  visibility of a shared subtree; names and `last_used_at`.
* ascli given a presigned URL directly (no listing to agree with), its
  redirects and authentication; the creation of the configuration file by init.
* Retry times: a job that failed becomes claimable at some later time.
* In `UploadService`, part numbers and sizes: an object is whole or of the
  wrong size. `Ranges` has the sizes, `UploadManager` the numbers.
* The size check of a multipart upload's parts; a provider that answers
  wrongly about success.
* Several projects or several servers: the code has one process per database.
* Hashes, sealed boxes and random identifiers are taken as injective and fresh.

## 7. Plan

Order: what can lose or expose data first.

1. *Done*: `Namespace`, `Metadata`, `UploadService`, `NodeTree`, `RateLimit`
   and the proofs of `Metadata` and `NodeTree`.
2. *Done*: `Accounts` and its proofs.
3. *Done*: `Shares` and its proofs. Left: the visibility of the shared subtree
   over `NodeTree`.
4. *Done*: `Access` and its proofs, with "every effect was permitted at some
   moment of its request" as the promise.
5. *Done*: `Oidc` and its proofs.
6. *Done*: `Ranges`: parseRange, multipartPartSize and pages against reference
   definitions. Left: validCompletedParts.
7. *Done*: `Ascli` and its proofs; `UploadManager`.
8. *Done*: `InitCommand` and its proofs.
9. *Done*: the proofs of `UploadService`, `DepthBounded`,
   `LateSessionsBounded`, `RateLimit`, `UploadManager` and `Ranges`.
10. A `JobQueue` with failing updates of the worker and the order of the sweep;
    settings.
