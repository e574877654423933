------------------------------- MODULE Access -------------------------------
(***************************************************************************)
(* What a request may do.  A request is authenticated by a session or by   *)
(* an API key, keeps the user's row (and the key's) as it was read then,   *)
(* passes the middleware of its route, and reaches a handler that checks   *)
(* once more; administrators change users, members, projects, storage      *)
(* backends and keys between any two of these reads.                       *)
(*                                                                         *)
(* A session is here a user who has one (module Accounts), a file is its   *)
(* project (module UploadService), names and descriptions are left out.    *)
(***************************************************************************)
EXTENDS Naturals, FiniteSets

CONSTANTS
    Person,       \* users.id
    Root,         \* the first administrator
    Project,      \* projects.id
    Backend,      \* storage_backends.id
    Key,          \* api_keys.id
    Policy,       \* policies a client asks for: scopes, all or projects
    Asker,        \* requests under way at a time
    Wish,         \* what each may ask for: operations and their projects
    MaxChanges    \* bound on the changes, keys that end not counted

Scopes == {"projects:read", "projects:create", "projects:write", "projects:delete",
           "files:read", "files:write", "files:delete"}
SessionOnly == {"members", "keys"}
AdminOnly == {"users", "storage"}
OnProject == {"projects:read", "projects:list", "projects:write", "projects:delete",
              "files:read", "files:write", "files:delete", "members"}
Wishes == {w \in (Scopes \cup {"projects:list"} \cup SessionOnly \cup AdminOnly)
                 \X (Project \cup {"none"}) : w[2] = "none" <=> w[1] \notin OnProject}

ASSUME AccessAssumption ==
    /\ Root \in Person
    /\ Policy \subseteq [scopes : SUBSET Scopes, all : BOOLEAN, projects : SUBSET Project]
    /\ Wish \in [Asker -> SUBSET Wishes]
    /\ MaxChanges \in Nat

VARIABLES
    users,        \* role, status and write_enabled
    permission,   \* project_members
    project,      \* projects.status
    backing,      \* projects.storage_backend_id
    backend,      \* storage_backends: "none", "enabled" or "disabled"
    apiKey,       \* api_keys
    ask,          \* the requests
    held,         \* the facts that were true at some moment of a request
    spent         \* changes made

projectVars == <<permission, project, backing>>
tables == <<users, projectVars, backend, apiKey>>
accessVars == <<tables, ask, held, spent>>

NoPolicy == [scopes |-> {}, all |-> FALSE, projects |-> {}]
NoAPIKey == [status |-> "none", owner |-> Root, policy |-> NoPolicy]
NoUserRow == [role |-> "user", active |-> FALSE, writes |-> FALSE]
Quiet == [phase |-> "idle", user |-> Root, row |-> NoUserRow, key |-> "none",
          policy |-> NoPolicy, op |-> "none", on |-> "none"]

(* Some projects are there, with a common member each; keys may be.        *)
AccessInit ==
    /\ users = [u \in Person |-> [role |-> IF u = Root THEN "admin" ELSE "user",
                                  active |-> TRUE, writes |-> TRUE]]
    /\ project \in [Project -> {"none", "active"}]
    /\ permission = [p \in Project |-> [u \in Person |->
            IF u = Root \/ project[p] = "none" THEN "none" ELSE "write"]]
    /\ backend = [b \in Backend |-> "enabled"]
    /\ backing \in [Project -> Backend]
    /\ apiKey \in [Key -> {NoAPIKey} \cup
            [status : {"live"}, owner : Person \ {Root}, policy : Policy]]
    /\ ask = [r \in Asker |-> Quiet]
    /\ held = [r \in Asker |-> {}]
    /\ spent = 0

-----------------------------------------------------------------------------
(* AUTHORIZATION.  The user's row is the one the request was authenticated *)
(* with; projects and members are read when the question is asked.         *)
CanReadProject(row, u, p) ==
    /\ row.active /\ project[p] = "active"
    /\ row.role = "admin" \/ permission[p][u] # "none"

CanWriteProject(row, u, p) ==
    /\ row.active /\ project[p] = "active"
    /\ row.role = "admin" \/ (row.writes /\ permission[p][u] = "write")

CanCreateProject(row) == row.active /\ (row.role = "admin" \/ row.writes)
CanManageProject(row) == row.active /\ row.role = "admin"

Writes == {"files:write", "files:delete"}
Scope(op) == IF op = "projects:list" THEN "projects:read" ELSE op

(* Mutant: a key reaches every project.                                    *)
AllowsAnyProject(policy, p) == TRUE

AllowsProject(policy, p) == policy.all \/ p \in policy.projects

-----------------------------------------------------------------------------
(* AUTHENTICATION.  The client says at once what it asks for.              *)
AuthenticateSession(r, u, w) ==
    /\ ask[r].phase = "idle"
    /\ users[u].active
    /\ ask' = [ask EXCEPT ![r] = [Quiet EXCEPT !.phase = "known", !.user = u,
                                  !.row = users[u], !.op = w[1], !.on = w[2]]]
    /\ UNCHANGED <<tables, spent>>

APIKeyByTokenHash(r, k, w) ==
    /\ ask[r].phase = "idle"
    /\ apiKey[k].status = "live"
    /\ ask' = [ask EXCEPT ![r] = [Quiet EXCEPT !.phase = "keyed", !.user = apiKey[k].owner,
                                  !.key = k, !.policy = apiKey[k].policy,
                                  !.op = w[1], !.on = w[2]]]
    /\ UNCHANGED <<tables, spent>>

(* Mutant: the status of the owner of a key is left to the handlers.       *)
OwnerOfAnyStatus(r) ==
    /\ ask[r].phase = "keyed"
    /\ ask' = [ask EXCEPT ![r].phase = "known", ![r].row = users[ask[r].user]]
    /\ UNCHANGED <<tables, spent>>

UserByID(r) ==
    /\ ask[r].phase = "keyed"
    /\ users[ask[r].user].active
    /\ ask' = [ask EXCEPT ![r].phase = "known", ![r].row = users[ask[r].user]]
    /\ UNCHANGED <<tables, spent>>

(* The middleware of the routes: apiAccess for a key, which looks at the   *)
(* project that the route, the node or the upload names; sessionOnly; and  *)
(* admin.  projects:list has no project in its route.                      *)
KeyPermits(a) ==
    /\ Scope(a.op) \in a.policy.scopes
    /\ a.op = "projects:create" => CanCreateProject(a.row) /\ a.policy.all
    /\ a.op \in OnProject \ {"projects:list"} =>
        /\ AllowsProject(a.policy, a.on)
        /\ IF a.op \in Writes THEN CanWriteProject(a.row, a.user, a.on)
                              ELSE CanReadProject(a.row, a.user, a.on)

ApiAccess(r) ==
    /\ ask[r].phase = "known"
    /\ ask[r].key # "none" => KeyPermits(ask[r])
    /\ ask[r].op \in AdminOnly => ask[r].row.role = "admin"
    /\ ask' = [ask EXCEPT ![r].phase = "cleared"]
    /\ UNCHANGED <<tables, spent>>

-----------------------------------------------------------------------------
(* HANDLERS.                                                               *)
Handles(r, op) == ask[r].phase = "cleared" /\ ask[r].op = op
Done(r) == ask' = [ask EXCEPT ![r].phase = "done"]
Changes == spent < MaxChanges /\ spent' = spent + 1
Only(changed) == Changes /\ UNCHANGED changed

CheckRead(r) ==
    /\ Handles(r, "projects:read") \/ Handles(r, "files:read")
    /\ CanReadProject(ask[r].row, ask[r].user, ask[r].on)
    /\ Done(r) /\ UNCHANGED <<tables, spent>>

CheckWrite(r) ==
    /\ Handles(r, "files:write") \/ Handles(r, "files:delete")
    /\ CanWriteProject(ask[r].row, ask[r].user, ask[r].on)
    /\ Done(r) /\ UNCHANGED <<tables, spent>>

(* The listing shows the project.                                          *)
ListProjects(r) ==
    /\ Handles(r, "projects:list")
    /\ project[ask[r].on] = "active"
    /\ ask[r].row.role = "admin" \/ permission[ask[r].on][ask[r].user] # "none"
    /\ ask[r].key # "none" => AllowsProject(ask[r].policy, ask[r].on)
    /\ Done(r) /\ UNCHANGED <<tables, spent>>

CreateProject(r, p, b) ==
    /\ Handles(r, "projects:create")
    /\ CanCreateProject(ask[r].row)
    /\ project[p] = "none"
    /\ backend[b] = "enabled"
    /\ project' = [project EXCEPT ![p] = "active"]
    /\ backing' = [backing EXCEPT ![p] = b]
    /\ permission' = IF ask[r].row.role = "admin" THEN permission
                     ELSE [permission EXCEPT ![p][ask[r].user] = "write"]
    /\ Done(r) /\ Only(<<users, backend, apiKey>>)

UpdateProject(r) ==
    /\ Handles(r, "projects:write")
    /\ CanManageProject(ask[r].row)
    /\ project[ask[r].on] = "active"
    /\ Done(r) /\ UNCHANGED <<tables, spent>>

MarkProjectDeleting(r) ==
    /\ Handles(r, "projects:delete")
    /\ CanManageProject(ask[r].row)
    /\ project[ask[r].on] = "active"
    /\ project' = [project EXCEPT ![ask[r].on] = "deleting"]
    /\ Done(r) /\ Only(<<users, permission, backing, backend, apiKey>>)

(* Also in a project that is being deleted.                                *)
PutMember(r, u, m) ==
    /\ Handles(r, "members")
    /\ CanManageProject(ask[r].row)
    /\ project[ask[r].on] # "none"
    /\ permission' = [permission EXCEPT ![ask[r].on][u] = m]
    /\ Done(r) /\ Only(<<users, project, backing, backend, apiKey>>)

DeleteMember(r, u) ==
    /\ Handles(r, "members")
    /\ CanManageProject(ask[r].row)
    /\ permission[ask[r].on][u] # "none"
    /\ permission' = [permission EXCEPT ![ask[r].on][u] = "none"]
    /\ Done(r) /\ Only(<<users, project, backing, backend, apiKey>>)

ChangeUser(r, u, active, writes) ==
    /\ Handles(r, "users")
    /\ users[u].role = "admin" => active
    /\ users' = [users EXCEPT ![u].active = active, ![u].writes = writes]
    /\ Done(r) /\ Only(<<projectVars, backend, apiKey>>)

TransferAdministration(r, u) ==
    /\ Handles(r, "users")
    /\ users[ask[r].user].role = "admin"
    /\ users[u].role = "user" /\ users[u].active
    /\ users' = [users EXCEPT ![ask[r].user].role = "user",
                              ![u].role = "admin", ![u].writes = TRUE]
    /\ Done(r) /\ Only(<<projectVars, backend, apiKey>>)

-----------------------------------------------------------------------------
(* Storage backends.  updateStorage and deleteStorage read the row first   *)
(* and decide nothing by it that the statement does not decide again.      *)
SetBackend(r, b, status) ==
    /\ Handles(r, "storage")
    /\ backend' = [backend EXCEPT ![b] = status]
    /\ Done(r) /\ Only(<<users, projectVars, apiKey>>)

CreateStorage(r, b, status) == backend[b] = "none" /\ SetBackend(r, b, status)
UpdateStorage(r, b, status) == backend[b] # "none" /\ SetBackend(r, b, status)

DeleteStorage(r, b) ==
    /\ backend[b] # "none"
    /\ ~ \E p \in Project : project[p] # "none" /\ backing[p] = b
    /\ SetBackend(r, b, "none")

-----------------------------------------------------------------------------
(* API keys.  A policy is within what its owner may do when it is given.   *)
ValidateAPIKey(a, policy) ==
    /\ policy.scopes # {}
    /\ policy.all <=> policy.projects = {}
    /\ "projects:create" \in policy.scopes => policy.all
    /\ policy.scopes \cap {"projects:write", "projects:delete"} # {} => CanManageProject(a.row)
    /\ policy.scopes \cap ({"projects:create"} \cup Writes) # {} => CanCreateProject(a.row)
    /\ \A p \in policy.projects :
        /\ CanReadProject(a.row, a.user, p)
        /\ policy.scopes \cap Writes # {} => CanWriteProject(a.row, a.user, p)

CreateAPIKey(r, k, policy) ==
    /\ Handles(r, "keys")
    /\ apiKey[k].status = "none"
    /\ ValidateAPIKey(ask[r], policy)
    /\ apiKey' = [apiKey EXCEPT ![k] = [status |-> "live", owner |-> ask[r].user,
                                        policy |-> policy]]
    /\ Done(r) /\ Only(<<users, projectVars, backend>>)

(* PUT reads the key, validates the new policy, and then writes it.        *)
APIKeyByID(r, k) ==
    /\ Handles(r, "keys")
    /\ apiKey[k].status \in {"live", "expired"} /\ apiKey[k].owner = ask[r].user
    /\ ask' = [ask EXCEPT ![r].phase = "editing", ![r].on = k]
    /\ UNCHANGED <<tables, spent>>

(* Mutant: the statement has lost its revoked_at IS NULL.                  *)
UpdateAnyAPIKey(r, policy) ==
    LET k == ask[r].on
    IN  /\ ask[r].phase = "editing"
        /\ ValidateAPIKey(ask[r], policy)
        /\ apiKey' = [apiKey EXCEPT ![k].policy = policy]
        /\ Done(r) /\ Only(<<users, projectVars, backend>>)

UpdateAPIKey(r, policy) ==
    LET k == ask[r].on
    IN  /\ ask[r].phase = "editing"
        /\ ValidateAPIKey(ask[r], policy)
        /\ apiKey[k].status # "revoked"
        /\ apiKey' = [apiKey EXCEPT ![k].status = "live", ![k].policy = policy]
        /\ Done(r) /\ Only(<<users, projectVars, backend>>)

RevokeAPIKey(r, k) ==
    /\ Handles(r, "keys")
    /\ apiKey[k].status # "none" /\ apiKey[k].owner = ask[r].user
    /\ apiKey' = [apiKey EXCEPT ![k].status = "revoked"]
    /\ Done(r) /\ UNCHANGED <<users, projectVars, backend, spent>>

KeyExpires(k) ==
    /\ apiKey[k].status = "live"
    /\ apiKey' = [apiKey EXCEPT ![k].status = "expired"]
    /\ UNCHANGED <<ask, users, projectVars, backend, spent>>

(* Answered, refused or given up.                                          *)
Answered(r) ==
    /\ ask[r].phase # "idle"
    /\ ask' = [ask EXCEPT ![r] = Quiet]
    /\ UNCHANGED <<tables, spent>>

-----------------------------------------------------------------------------
(* What an operation may rest on, and what of it is true now.              *)
Basis(op) ==
    {"active", "admin", "key"}
    \cup (IF Scope(op) \in {"projects:read", "files:read"} THEN {"exists", "reader"} ELSE {})
    \cup (IF op \in Writes THEN {"exists", "writer", "writes"} ELSE {})
    \cup (IF op = "projects:create" THEN {"writes"} ELSE {})

Permits(k, a) ==
    LET policy == apiKey[k].policy
    IN  /\ apiKey[k].status = "live" /\ apiKey[k].owner = a.user
        /\ Scope(a.op) \in policy.scopes
        /\ a.op = "projects:create" => policy.all
        /\ a.op \in OnProject => policy.all \/ a.on \in policy.projects

Holds(fact, a) ==
    LET u == users[a.user]
    IN  /\ fact \in {"active", "admin", "writes"} => u.active
        /\ fact = "admin" => u.role = "admin"
        /\ fact = "writes" => u.writes
        /\ fact \in {"exists", "reader", "writer"} => project[a.on] = "active"
        /\ fact = "reader" => permission[a.on][a.user] # "none"
        /\ fact = "writer" => permission[a.on][a.user] = "write"
        /\ fact = "key" => a.key # "none" /\ Permits(a.key, a)

Truths(a) == {fact \in Basis(a.op) : Holds(fact, a)}

Remember ==
    held' = [r \in Asker |-> IF ask'[r].phase = "idle" THEN {}
                             ELSE held[r] \cup Truths(ask[r])']

ProjectHandler(r) ==
    \/ CheckRead(r) \/ CheckWrite(r) \/ ListProjects(r)
    \/ \E p \in Project, b \in Backend : CreateProject(r, p, b)
    \/ UpdateProject(r)
    \/ MarkProjectDeleting(r)
    \/ \E u \in Person, m \in {"read", "write"} : PutMember(r, u, m)
    \/ \E u \in Person : DeleteMember(r, u)

AdministrationHandler(r) ==
    \/ \E u \in Person, active, writes \in BOOLEAN : ChangeUser(r, u, active, writes)
    \/ \E u \in Person : TransferAdministration(r, u)
    \/ \E b \in Backend, status \in {"enabled", "disabled"} :
        CreateStorage(r, b, status) \/ UpdateStorage(r, b, status)
    \/ \E b \in Backend : DeleteStorage(r, b)

KeyHandler(r) ==
    \/ \E k \in Key, policy \in Policy : CreateAPIKey(r, k, policy)
    \/ \E k \in Key : APIKeyByID(r, k) \/ RevokeAPIKey(r, k)
    \/ \E policy \in Policy : UpdateAPIKey(r, policy)

AccessStep ==
    \/ \E r \in Asker :
        \/ \E w \in Wish[r] :
            \/ \E u \in Person : AuthenticateSession(r, u, w)
            \/ \E k \in Key : APIKeyByTokenHash(r, k, w)
        \/ UserByID(r)
        \/ ApiAccess(r)
        \/ ProjectHandler(r) \/ AdministrationHandler(r) \/ KeyHandler(r)
        \/ Answered(r)
    \/ \E k \in Key : KeyExpires(k)

AccessNext == AccessStep /\ Remember
AccessSpec == AccessInit /\ [][AccessNext]_accessVars

-----------------------------------------------------------------------------
(* A request that got through had the rights it used while it was under    *)
(* way: its user was active, and what was checked on the row of the        *)
(* authentication and what was read later were each true at a moment since *)
(* the request came in.  Nothing is decided by what was true before.       *)
RightsWereHeld ==
    \A r \in Asker : ask[r].phase = "done" =>
        LET h == held[r]
            op == ask[r].op
        IN  /\ "active" \in h
            /\ Scope(op) \in {"projects:read", "files:read"} =>
                {"admin", "exists"} \subseteq h \/ "reader" \in h
            /\ op \in Writes => {"admin", "exists"} \subseteq h \/ {"writes", "writer"} \subseteq h
            /\ op = "projects:create" => {"admin", "writes"} \cap h # {}
            /\ op \in {"projects:write", "projects:delete", "members"} \cup AdminOnly => "admin" \in h

(* A request with a key does what the key, live and as its owner had last  *)
(* left it, permitted at one moment since the request came in: its scope   *)
(* and its range together, never the scope of one policy and the range of  *)
(* another.                                                                *)
KeyPermitted ==
    \A r \in Asker : ask[r].phase = "done" /\ ask[r].key # "none" => "key" \in held[r]

(* A revoked key stays as it was, also for an update that read it before.  *)
RevocationIsFinal ==
    [][\A k \in Key : apiKey[k].status = "revoked" => apiKey'[k] = apiKey[k]]_accessVars
=============================================================================
