---------------------------- MODULE Access_proofs ----------------------------
(***************************************************************************)
(* Proofs about the rights of requests, for any number of users, projects, *)
(* keys, policies and requests at a time.                                  *)
(***************************************************************************)
EXTENDS Access, TLAPS

Operations == Scopes \cup {"projects:list"} \cup SessionOnly \cup AdminOnly
Phases == {"idle", "keyed", "known", "cleared", "editing", "done"}
UserRows == [role : {"admin", "user"}, active : BOOLEAN, writes : BOOLEAN]
Policies == [scopes : SUBSET Scopes, all : BOOLEAN, projects : SUBSET Project]
KeyRows == [status : {"none", "live", "expired", "revoked"}, owner : Person, policy : Policies]
Asks == [phase : Phases, user : Person, row : UserRows, key : Key \cup {"none"},
         policy : Policies, op : Operations \cup {"none"}, on : Project \cup Key \cup {"none"}]

AccessTypeOK ==
    /\ users \in [Person -> UserRows]
    /\ apiKey \in [Key -> KeyRows]
    /\ ask \in [Asker -> Asks]

(* The policy a request was let in with permits its operation.             *)
PolicyPermits(a) ==
    /\ Scope(a.op) \in a.policy.scopes
    /\ a.op = "projects:create" => a.policy.all
    /\ a.op \in OnProject => a.policy.all \/ a.on \in a.policy.projects

(* What the rows a request carries say was true when they were read, and   *)
(* so is among the facts h that were held.                                 *)
RowsWereTrue(a, h) ==
    /\ a.phase \in {"known", "cleared", "editing", "done"} =>
        /\ "active" \in h
        /\ a.row.role = "admin" => "admin" \in h
        /\ a.row.writes /\ "writes" \in Basis(a.op) => "writes" \in h
    /\ a.phase # "idle" /\ a.key # "none" /\ PolicyPermits(a) => "key" \in h

(* What the middleware has seen to.                                        *)
WasCleared(a) ==
    /\ a.phase \in {"cleared", "editing", "done"} /\ a.op \in AdminOnly => a.row.role = "admin"
    /\ a.phase \in {"cleared", "editing", "done"} /\ a.key # "none" =>
        /\ Scope(a.op) \in a.policy.scopes
        /\ a.op = "projects:create" => a.policy.all
        /\ a.op \in OnProject \ {"projects:list"} => AllowsProject(a.policy, a.on)
    /\ a.phase = "editing" => a.op = "keys"

(* What an operation that got through rested on.                           *)
RightsFor(op, h) ==
    /\ Scope(op) \in {"projects:read", "files:read"} =>
        {"admin", "exists"} \subseteq h \/ "reader" \in h
    /\ op \in Writes => {"admin", "exists"} \subseteq h \/ {"writes", "writer"} \subseteq h
    /\ op = "projects:create" => {"admin", "writes"} \cap h # {}
    /\ op \in {"projects:write", "projects:delete", "members"} \cup AdminOnly => "admin" \in h

RightsOf(a, h) == RightsFor(a.op, h) /\ (a.key # "none" => "key" \in h)

RequestInv(a, h) ==
    RowsWereTrue(a, h) /\ WasCleared(a) /\ (a.phase = "done" => RightsOf(a, h))

AccessInv == AccessTypeOK /\ \A r \in Asker : RequestInv(ask[r], held[r])
-----------------------------------------------------------------------------
(* A fact that was held stays held.                                        *)
LEMMA HeldIsKept ==
    ASSUME NEW a, NEW h, NEW h2, h \subseteq h2, RequestInv(a, h)
    PROVE  RequestInv(a, h2)
<1>1. RowsWereTrue(a, h2)
  BY DEF RequestInv, RowsWereTrue
<1>2. a.phase = "done" => RightsOf(a, h2)
  BY DEF RequestInv, RightsOf, RightsFor
<1> QED
  BY <1>1, <1>2 DEF RequestInv

LEMMA Idle == ASSUME NEW a, NEW h, a.phase = "idle" PROVE RequestInv(a, h)
BY DEF RequestInv, RowsWereTrue, WasCleared

(* What is true after a step is held after it by a request under way.      *)
LEMMA TruthsAreHeld ==
    ASSUME Remember, NEW r \in Asker, ask'[r].phase # "idle"
    PROVE  /\ held[r] \subseteq held'[r]
           /\ \A fact \in Basis(ask'[r].op) : Holds(fact, ask[r])' => fact \in held'[r]
BY DEF Remember, Truths

(* It is enough to look at the request that takes the step.                *)
LEMMA OneAtATime ==
    ASSUME AccessInv, AccessTypeOK', Remember, NEW r \in Asker,
           \A q \in Asker \ {r} : ask'[q] = ask[q],
           ask'[r].phase # "idle" => RequestInv(ask'[r], held'[r])
    PROVE  AccessInv'
<1> SUFFICES ASSUME NEW q \in Asker PROVE RequestInv(ask'[q], held'[q])
  BY DEF AccessInv
<1>1. CASE ask'[q].phase = "idle"
  BY <1>1, Idle
<1>2. CASE ask'[q].phase # "idle" /\ q # r
  <2>1. held[q] \subseteq held'[q]
    BY <1>2, TruthsAreHeld
  <2> QED
    BY <1>2, <2>1, HeldIsKept DEF AccessInv
<1> QED
  BY <1>1, <1>2

-----------------------------------------------------------------------------
(* A request that is done is what it was.                                  *)
LEMMA DoneFields ==
    ASSUME AccessTypeOK, NEW r \in Asker, Done(r)
    PROVE  /\ ask' \in [Asker -> Asks]
           /\ \A q \in Asker \ {r} : ask'[q] = ask[q]
           /\ ask'[r].phase = "done"
           /\ ask'[r].user = ask[r].user /\ ask'[r].row = ask[r].row
           /\ ask'[r].key = ask[r].key /\ ask'[r].policy = ask[r].policy
           /\ ask'[r].op = ask[r].op /\ ask'[r].on = ask[r].on
BY DEF AccessTypeOK, Asks, Done, Phases

(* A handler need only see to the rights of its operation.                 *)
LEMMA DoneStep ==
    ASSUME AccessInv, AccessTypeOK', Remember, NEW r \in Asker, Done(r),
           ask[r].phase \in {"cleared", "editing"},
           ask[r].op = "projects:list" /\ ask[r].key # "none" =>
               AllowsProject(ask[r].policy, ask[r].on),
           RightsFor(ask[r].op, held'[r])
    PROVE  AccessInv'
<1> DEFINE a == ask[r]
           b == ask'[r]
<1>1. /\ b.phase = "done" /\ b.user = a.user /\ b.row = a.row /\ b.key = a.key
      /\ b.policy = a.policy /\ b.op = a.op /\ b.on = a.on
      /\ \A q \in Asker \ {r} : ask'[q] = ask[q]
  BY DoneFields DEF AccessInv
<1>2. RowsWereTrue(a, held[r]) /\ WasCleared(a) /\ held[r] \subseteq held'[r]
  BY <1>1, TruthsAreHeld DEF AccessInv, RequestInv
<1>3. RowsWereTrue(b, held'[r])
  BY <1>1, <1>2 DEF RowsWereTrue, PolicyPermits
<1>4. WasCleared(b)
  BY <1>1, <1>2 DEF WasCleared
<1>5. b.key # "none" => PolicyPermits(b)
  BY <1>1, <1>2 DEF WasCleared, PolicyPermits, AllowsProject
<1>6. b.key # "none" => "key" \in held'[r]
  BY <1>1, <1>3, <1>5 DEF RowsWereTrue
<1>7. RightsOf(b, held'[r])
  BY <1>1, <1>6 DEF RightsOf
<1> QED
  BY <1>1, <1>3, <1>4, <1>7, OneAtATime DEF RequestInv

(* What a request that was cleared knows, also after its step.             *)
LEMMA Cleared ==
    ASSUME AccessInv, Remember, NEW r \in Asker, Done(r), ask[r].phase \in {"cleared", "editing"}
    PROVE  /\ "active" \in held'[r]
           /\ ask[r].row.role = "admin" => "admin" \in held'[r]
           /\ ask[r].row.writes /\ "writes" \in Basis(ask[r].op) => "writes" \in held'[r]
           /\ ask[r].op \in AdminOnly => ask[r].row.role = "admin"
           /\ \A fact \in Basis(ask[r].op) : Holds(fact, ask[r])' => fact \in held'[r]
<1>1. ask'[r].phase = "done" /\ ask'[r].op = ask[r].op
  BY DoneFields DEF AccessInv
<1>2. /\ held[r] \subseteq held'[r]
      /\ \A fact \in Basis(ask[r].op) : Holds(fact, ask[r])' => fact \in held'[r]
  BY <1>1, TruthsAreHeld
<1>3. RowsWereTrue(ask[r], held[r]) /\ WasCleared(ask[r])
  BY DEF AccessInv, RequestInv
<1> QED
  BY <1>2, <1>3 DEF RowsWereTrue, WasCleared

LEMMA DoneTypes ==
    ASSUME AccessTypeOK, NEW r \in Asker, Done(r), UNCHANGED <<users, apiKey>>
    PROVE  AccessTypeOK'
BY DoneFields DEF AccessTypeOK

LEMMA CheckReadStep ==
    ASSUME AccessInv, Remember, NEW r \in Asker, CheckRead(r)
    PROVE  AccessInv'
<1>1. /\ Done(r) /\ ask[r].phase = "cleared" /\ ask[r].op \in {"projects:read", "files:read"}
      /\ UNCHANGED <<users, apiKey, project, permission>>
  BY DEF CheckRead, Handles, tables, projectVars
<1>2. AccessTypeOK'
  BY <1>1, DoneTypes DEF AccessInv
<1>3. ask'[r].on = ask[r].on /\ ask'[r].user = ask[r].user
  BY <1>1, DoneFields DEF AccessInv
<1>4. {"exists", "reader"} \subseteq Basis(ask[r].op)
  BY <1>1 DEF Basis, Scope
<1>5. Holds("exists", ask[r])' /\ (ask[r].row.role # "admin" => Holds("reader", ask[r])')
  BY <1>1, <1>3 DEF CheckRead, CanReadProject, Holds
<1>6. RightsFor(ask[r].op, held'[r])
  BY <1>1, <1>4, <1>5, Cleared DEF RightsFor, Scope, Writes, AdminOnly
<1> QED
  BY <1>1, <1>2, <1>6, DoneStep

LEMMA CheckWriteStep ==
    ASSUME AccessInv, Remember, NEW r \in Asker, CheckWrite(r)
    PROVE  AccessInv'
<1>1. /\ Done(r) /\ ask[r].phase = "cleared" /\ ask[r].op \in Writes
      /\ UNCHANGED <<users, apiKey, project, permission>>
  BY DEF CheckWrite, Handles, tables, projectVars, Writes
<1>2. AccessTypeOK'
  BY <1>1, DoneTypes DEF AccessInv
<1>3. ask'[r].on = ask[r].on /\ ask'[r].user = ask[r].user
  BY <1>1, DoneFields DEF AccessInv
<1>4. {"exists", "writer", "writes"} \subseteq Basis(ask[r].op)
  BY <1>1 DEF Basis
<1>5. Holds("exists", ask[r])' /\ (ask[r].row.role # "admin" => Holds("writer", ask[r])')
  BY <1>1, <1>3 DEF CheckWrite, CanWriteProject, Holds
<1>6. ask[r].row.role # "admin" => ask[r].row.writes
  BY DEF CheckWrite, CanWriteProject
<1>7. RightsFor(ask[r].op, held'[r])
  BY <1>1, <1>4, <1>5, <1>6, Cleared DEF RightsFor, Scope, Writes, AdminOnly
<1> QED
  BY <1>1, <1>2, <1>7, DoneStep DEF Writes

LEMMA ListProjectsStep ==
    ASSUME AccessInv, Remember, NEW r \in Asker, ListProjects(r)
    PROVE  AccessInv'
<1>1. /\ Done(r) /\ ask[r].phase = "cleared" /\ ask[r].op = "projects:list"
      /\ UNCHANGED <<users, apiKey, project, permission>>
  BY DEF ListProjects, Handles, tables, projectVars
<1>2. AccessTypeOK'
  BY <1>1, DoneTypes DEF AccessInv
<1>3. ask'[r].on = ask[r].on /\ ask'[r].user = ask[r].user
  BY <1>1, DoneFields DEF AccessInv
<1>4. {"exists", "reader"} \subseteq Basis(ask[r].op)
  BY <1>1 DEF Basis, Scope
<1>5. Holds("exists", ask[r])' /\ (ask[r].row.role # "admin" => Holds("reader", ask[r])')
  BY <1>1, <1>3 DEF ListProjects, Holds
<1>6. RightsFor(ask[r].op, held'[r])
  BY <1>1, <1>4, <1>5, Cleared DEF RightsFor, Scope, Writes, AdminOnly
<1> QED
  BY <1>1, <1>2, <1>6, DoneStep DEF ListProjects

LEMMA CreateProjectStep ==
    ASSUME AccessInv, Remember, NEW r \in Asker, NEW p \in Project, NEW b \in Backend,
           CreateProject(r, p, b)
    PROVE  AccessInv'
<1>1. /\ Done(r) /\ ask[r].phase = "cleared" /\ ask[r].op = "projects:create"
      /\ UNCHANGED <<users, apiKey>>
  BY DEF CreateProject, Handles, Only
<1>2. AccessTypeOK'
  BY <1>1, DoneTypes DEF AccessInv
<1>3. "writes" \in Basis(ask[r].op)
  BY <1>1 DEF Basis
<1>4. ask[r].row.role = "admin" \/ ask[r].row.writes
  BY DEF CreateProject, CanCreateProject
<1>5. RightsFor(ask[r].op, held'[r])
  BY <1>1, <1>3, <1>4, Cleared DEF RightsFor, Scope, Writes, AdminOnly
<1> QED
  BY <1>1, <1>2, <1>5, DoneStep

(* Whatever else it changes, a step of an administrator.                   *)
LEMMA ManagedStep ==
    ASSUME AccessInv, AccessTypeOK', Remember, NEW r \in Asker, Done(r),
           ask[r].phase = "cleared",
           ask[r].op \in {"projects:write", "projects:delete", "members"} \cup AdminOnly,
           ask[r].op \notin AdminOnly => CanManageProject(ask[r].row)
    PROVE  AccessInv'
<1>1. "admin" \in held'[r]
  BY Cleared DEF CanManageProject
<1>2. RightsFor(ask[r].op, held'[r])
  BY <1>1 DEF RightsFor, Scope, Writes, AdminOnly
<1> QED
  BY <1>2, DoneStep DEF AdminOnly

LEMMA ProjectsStep ==
    ASSUME AccessInv, Remember, NEW r \in Asker,
           \/ UpdateProject(r)
           \/ MarkProjectDeleting(r)
           \/ \E u \in Person, m \in {"read", "write"} : PutMember(r, u, m)
           \/ \E u \in Person : DeleteMember(r, u)
    PROVE  AccessInv'
<1>1. /\ Done(r) /\ ask[r].phase = "cleared"
      /\ ask[r].op \in {"projects:write", "projects:delete", "members"}
      /\ CanManageProject(ask[r].row) /\ UNCHANGED <<users, apiKey>>
  BY DEF UpdateProject, MarkProjectDeleting, PutMember, DeleteMember, Handles, Only, tables
<1>2. AccessTypeOK'
  BY <1>1, DoneTypes DEF AccessInv
<1> QED
  BY <1>1, <1>2, ManagedStep

LEMMA StorageStep ==
    ASSUME AccessInv, Remember, NEW r \in Asker, NEW b \in Backend,
           NEW status \in {"enabled", "disabled", "none"}, SetBackend(r, b, status)
    PROVE  AccessInv'
<1>1. /\ Done(r) /\ ask[r].phase = "cleared" /\ ask[r].op = "storage"
      /\ UNCHANGED <<users, apiKey>>
  BY DEF SetBackend, Handles, Only
<1>2. AccessTypeOK'
  BY <1>1, DoneTypes DEF AccessInv
<1> QED
  BY <1>1, <1>2, ManagedStep DEF AdminOnly

LEMMA ChangeUserStep ==
    ASSUME AccessInv, Remember, NEW r \in Asker, NEW u \in Person, NEW active \in BOOLEAN,
           NEW writes \in BOOLEAN, ChangeUser(r, u, active, writes)
    PROVE  AccessInv'
<1>1. Done(r) /\ ask[r].phase = "cleared" /\ ask[r].op = "users" /\ apiKey' = apiKey
  BY DEF ChangeUser, Handles, Only
<1>2. users \in [Person -> UserRows]
  BY DEF AccessInv, AccessTypeOK
<1>3. users' = [users EXCEPT ![u] = [users[u] EXCEPT !.active = active, !.writes = writes]]
  BY <1>2, Zenon DEF ChangeUser
<1>4. [users[u] EXCEPT !.active = active, !.writes = writes] \in UserRows
  BY <1>2 DEF UserRows
<1>5. AccessTypeOK'
  BY <1>1, <1>2, <1>3, <1>4, DoneFields DEF AccessInv, AccessTypeOK
<1> QED
  BY <1>1, <1>5, ManagedStep DEF AdminOnly

LEMMA TransferStep ==
    ASSUME AccessInv, Remember, NEW r \in Asker, NEW u \in Person, TransferAdministration(r, u)
    PROVE  AccessInv'
<1> DEFINE a == ask[r].user
           given == [users[u] EXCEPT !.role = "admin", !.writes = TRUE]
           taken == [users[a] EXCEPT !.role = "user"]
<1>1. Done(r) /\ ask[r].phase = "cleared" /\ ask[r].op = "users" /\ apiKey' = apiKey
  BY DEF TransferAdministration, Handles, Only
<1>2. users \in [Person -> UserRows] /\ a \in Person /\ u # a
  BY DEF AccessInv, AccessTypeOK, Asks, TransferAdministration
<1>3. users' = [users EXCEPT ![a].role = "user", ![u].role = "admin", ![u].writes = TRUE]
  BY DEF TransferAdministration
<1>4. users' = [[users EXCEPT ![a] = taken] EXCEPT ![u] = given]
  BY <1>2, <1>3, Zenon
<1>5. given \in UserRows /\ taken \in UserRows
  BY <1>2 DEF UserRows
<1>6. users' \in [Person -> UserRows]
  <2> HIDE DEF given, taken
  <2> QED
    BY <1>2, <1>4, <1>5
<1>7. AccessTypeOK'
  BY <1>1, <1>6, DoneFields DEF AccessInv, AccessTypeOK
<1> QED
  BY <1>1, <1>7, ManagedStep DEF AdminOnly

(* The rows of keys: each statement writes a row that the columns admit.   *)
LEMMA KeyRowWritten ==
    ASSUME AccessTypeOK, NEW k \in Key, NEW row \in KeyRows, apiKey' = [apiKey EXCEPT ![k] = row]
    PROVE  apiKey' \in [Key -> KeyRows]
BY DEF AccessTypeOK

LEMMA KeysDone ==
    ASSUME AccessInv, apiKey' \in [Key -> KeyRows], users' = users, Remember, NEW r \in Asker,
           Done(r), ask[r].phase \in {"cleared", "editing"}, ask[r].op = "keys"
    PROVE  AccessInv'
<1>1. AccessTypeOK'
  BY DoneFields DEF AccessInv, AccessTypeOK
<1>2. RightsFor(ask[r].op, held'[r])
  BY DEF RightsFor, Scope, Writes, AdminOnly
<1> QED
  BY <1>1, <1>2, DoneStep

LEMMA CreateAPIKeyStep ==
    ASSUME AccessInv, Remember, NEW r \in Asker, NEW k \in Key, NEW policy \in Policy,
           CreateAPIKey(r, k, policy)
    PROVE  AccessInv'
<1>1. /\ Done(r) /\ ask[r].phase = "cleared" /\ ask[r].op = "keys" /\ users' = users
  BY DEF CreateAPIKey, Handles, Only
<1>2. ask[r].user \in Person /\ policy \in Policies
  BY AccessAssumption DEF AccessInv, AccessTypeOK, Asks, Policies
<1>3. [status |-> "live", owner |-> ask[r].user, policy |-> policy] \in KeyRows
  BY <1>2 DEF KeyRows
<1>4. apiKey' \in [Key -> KeyRows]
  BY <1>3, KeyRowWritten DEF CreateAPIKey, AccessInv
<1> QED
  BY <1>1, <1>4, KeysDone

LEMMA UpdateAPIKeyStep ==
    ASSUME AccessInv, Remember, NEW r \in Asker, NEW policy \in Policy, UpdateAPIKey(r, policy)
    PROVE  AccessInv'
<1> DEFINE k == ask[r].on
           row == [apiKey[k] EXCEPT !.status = "live", !.policy = policy]
<1>1. Done(r) /\ ask[r].phase = "editing" /\ users' = users
  BY DEF UpdateAPIKey, Only
<1>2. ask[r].op = "keys"
  BY <1>1 DEF AccessInv, RequestInv, WasCleared
<1>3. policy \in Policies
  BY AccessAssumption DEF Policies
<1>4. apiKey' = [apiKey EXCEPT ![k].status = "live", ![k].policy = policy]
  BY DEF UpdateAPIKey
<1>5. apiKey \in [Key -> KeyRows]
  BY DEF AccessInv, AccessTypeOK
<1>6. CASE k \in Key
  <2>1. row \in KeyRows
    BY <1>3, <1>5, <1>6 DEF KeyRows
  <2>2. apiKey' = [apiKey EXCEPT ![k] = row]
    BY <1>4, <1>5, <1>6, Zenon
  <2>3. apiKey' \in [Key -> KeyRows]
    BY <2>1, <2>2, <1>6, KeyRowWritten DEF AccessInv
  <2> QED
    BY <1>1, <1>2, <2>3, KeysDone
<1>7. CASE k \notin Key
  <2>1. apiKey' \in [Key -> KeyRows]
    BY <1>4, <1>5, <1>7
  <2> QED
    BY <1>1, <1>2, <2>1, KeysDone
<1> QED
  BY <1>6, <1>7

LEMMA RevokeAPIKeyStep ==
    ASSUME AccessInv, Remember, NEW r \in Asker, NEW k \in Key, RevokeAPIKey(r, k)
    PROVE  AccessInv'
<1>1. /\ Done(r) /\ ask[r].phase = "cleared" /\ ask[r].op = "keys" /\ users' = users
  BY DEF RevokeAPIKey, Handles
<1>2. apiKey' \in [Key -> KeyRows]
  BY DEF RevokeAPIKey, AccessInv, AccessTypeOK, KeyRows
<1> QED
  BY <1>1, <1>2, KeysDone

LEMMA APIKeyByIDStep ==
    ASSUME AccessInv, Remember, NEW r \in Asker, NEW k \in Key, APIKeyByID(r, k)
    PROVE  AccessInv'
<1> DEFINE a == ask[r]
           b == ask'[r]
<1>1. /\ a.phase = "cleared" /\ a.op = "keys" /\ UNCHANGED <<users, apiKey>>
      /\ ask' = [ask EXCEPT ![r] = [a EXCEPT !.phase = "editing", !.on = k]]
  BY Zenon DEF APIKeyByID, Handles, tables
<1>2. a \in Asks /\ ask \in [Asker -> Asks]
  BY DEF AccessInv, AccessTypeOK
<1>3. b = [a EXCEPT !.phase = "editing", !.on = k] /\ \A q \in Asker \ {r} : ask'[q] = ask[q]
  BY <1>1, <1>2
<1>4. b \in Asks
  BY <1>2, <1>3 DEF Asks, Phases
<1>5. AccessTypeOK'
  BY <1>1, <1>2, <1>3, <1>4 DEF AccessInv, AccessTypeOK
<1>6. /\ b.phase = "editing" /\ b.row = a.row /\ b.op = a.op /\ b.key = a.key
      /\ b.policy = a.policy
  BY <1>2, <1>3 DEF Asks
<1>7. RowsWereTrue(a, held[r]) /\ WasCleared(a) /\ held[r] \subseteq held'[r]
  BY <1>6, TruthsAreHeld DEF AccessInv, RequestInv
<1>8. RequestInv(b, held'[r])
  BY <1>1, <1>6, <1>7 DEF RequestInv, RowsWereTrue, WasCleared, PolicyPermits, OnProject, AdminOnly
<1> QED
  BY <1>3, <1>5, <1>8, OneAtATime

(* Requests come in as somebody asks for something.                        *)
LEMMA WishTypes ==
    ASSUME NEW r \in Asker, NEW w \in Wish[r]
    PROVE  w[1] \in Operations /\ w[2] \in Project \cup {"none"}
BY AccessAssumption DEF Wishes, Operations

LEMMA QuietTypes == Quiet \in Asks
BY AccessAssumption DEF Quiet, Asks, NoUserRow, UserRows, NoPolicy, Policies, Phases

(* A request that writes its own row.                                      *)
LEMMA AskWritten ==
    ASSUME AccessInv, NEW r \in Asker, NEW b \in Asks, ask' = [ask EXCEPT ![r] = b],
           UNCHANGED <<users, apiKey>>
    PROVE  AccessTypeOK' /\ ask'[r] = b /\ \A q \in Asker \ {r} : ask'[q] = ask[q]
BY DEF AccessInv, AccessTypeOK

LEMMA AuthenticateSessionStep ==
    ASSUME AccessInv, Remember, NEW r \in Asker, NEW u \in Person, NEW w \in Wish[r],
           AuthenticateSession(r, u, w)
    PROVE  AccessInv'
<1> DEFINE b == [Quiet EXCEPT !.phase = "known", !.user = u, !.row = users[u],
                              !.op = w[1], !.on = w[2]]
<1>1. ask' = [ask EXCEPT ![r] = b] /\ UNCHANGED <<users, apiKey>> /\ users[u].active
  BY DEF AuthenticateSession, tables
<1>2. b \in Asks
  BY QuietTypes, WishTypes DEF Asks, Phases, AccessInv, AccessTypeOK
<1>3. b.phase = "known" /\ b.user = u /\ b.row = users[u] /\ b.key = "none"
  BY DEF Quiet
<1> HIDE DEF b
<1>4. AccessTypeOK' /\ ask'[r] = b /\ \A q \in Asker \ {r} : ask'[q] = ask[q]
  BY <1>1, <1>2, AskWritten
<1>5. \A fact \in Basis(b.op) : Holds(fact, ask[r])' => fact \in held'[r]
  BY <1>3, <1>4, TruthsAreHeld
<1>6. {"active", "admin"} \subseteq Basis(b.op)
  BY DEF Basis
<1>7. RowsWereTrue(b, held'[r])
  BY <1>1, <1>3, <1>4, <1>5, <1>6 DEF RowsWereTrue, Holds
<1> QED
  BY <1>3, <1>4, <1>7, OneAtATime DEF RequestInv, WasCleared

LEMMA APIKeyByTokenHashStep ==
    ASSUME AccessInv, Remember, NEW r \in Asker, NEW k \in Key, NEW w \in Wish[r],
           APIKeyByTokenHash(r, k, w)
    PROVE  AccessInv'
<1> DEFINE b == [Quiet EXCEPT !.phase = "keyed", !.user = apiKey[k].owner, !.key = k,
                              !.policy = apiKey[k].policy, !.op = w[1], !.on = w[2]]
<1>1. /\ ask' = [ask EXCEPT ![r] = b] /\ UNCHANGED <<users, apiKey>>
      /\ apiKey[k].status = "live"
  BY DEF APIKeyByTokenHash, tables
<1>2. b \in Asks
  BY QuietTypes, WishTypes DEF Asks, Phases, KeyRows, AccessInv, AccessTypeOK
<1>3. /\ b.phase = "keyed" /\ b.user = apiKey[k].owner /\ b.key = k
      /\ b.policy = apiKey[k].policy
  BY DEF Quiet
<1> HIDE DEF b
<1>4. AccessTypeOK' /\ ask'[r] = b /\ \A q \in Asker \ {r} : ask'[q] = ask[q]
  BY <1>1, <1>2, AskWritten
<1>5. Holds("key", ask[r])' => "key" \in held'[r]
  BY <1>3, <1>4, TruthsAreHeld DEF Basis
<1>6. PolicyPermits(b) => Permits(k, ask[r])'
  BY <1>1, <1>3, <1>4 DEF PolicyPermits, Permits
<1>7. ask'[r].key = k
  BY <1>3, <1>4
<1>8. PolicyPermits(b) /\ k # "none" => Holds("key", ask[r])'
  BY <1>6, <1>7 DEF Holds
<1>9. RowsWereTrue(b, held'[r])
  BY <1>3, <1>5, <1>8 DEF RowsWereTrue
<1> QED
  BY <1>3, <1>4, <1>9, OneAtATime DEF RequestInv, WasCleared

LEMMA UserByIDStep ==
    ASSUME AccessInv, Remember, NEW r \in Asker, UserByID(r)
    PROVE  AccessInv'
<1> DEFINE a == ask[r]
           b == [a EXCEPT !.phase = "known", !.row = users[a.user]]
<1>1. a \in Asks /\ ask \in [Asker -> Asks] /\ users \in [Person -> UserRows]
  BY DEF AccessInv, AccessTypeOK
<1>2. /\ a.phase = "keyed" /\ users[a.user].active /\ UNCHANGED <<users, apiKey>>
      /\ ask' = [ask EXCEPT ![r] = b]
  BY <1>1, Zenon DEF UserByID, tables
<1>3. /\ b \in Asks /\ b.phase = "known" /\ b.user = a.user /\ b.row = users[a.user]
      /\ b.key = a.key /\ b.policy = a.policy /\ b.op = a.op /\ b.on = a.on
  BY <1>1 DEF Asks, Phases
<1> HIDE DEF a, b
<1>4. AccessTypeOK' /\ ask'[r] = b /\ \A q \in Asker \ {r} : ask'[q] = ask[q]
  BY <1>2, <1>3, AskWritten
<1>5. /\ held[r] \subseteq held'[r]
      /\ \A fact \in Basis(b.op) : Holds(fact, ask[r])' => fact \in held'[r]
  BY <1>3, <1>4, TruthsAreHeld
<1>6. {"active", "admin"} \subseteq Basis(b.op)
  BY DEF Basis
<1>7. RowsWereTrue(a, held[r])
  BY DEF AccessInv, RequestInv, a
<1>8. RowsWereTrue(b, held'[r])
  BY <1>2, <1>3, <1>4, <1>5, <1>6, <1>7 DEF RowsWereTrue, PolicyPermits, Holds
<1> QED
  BY <1>3, <1>4, <1>8, OneAtATime DEF RequestInv, WasCleared

LEMMA ApiAccessStep ==
    ASSUME AccessInv, Remember, NEW r \in Asker, ApiAccess(r)
    PROVE  AccessInv'
<1> DEFINE a == ask[r]
           b == [a EXCEPT !.phase = "cleared"]
<1>1. a \in Asks /\ ask \in [Asker -> Asks]
  BY DEF AccessInv, AccessTypeOK
<1>2. /\ a.phase = "known" /\ UNCHANGED <<users, apiKey>>
      /\ ask' = [ask EXCEPT ![r] = b]
  BY <1>1, Zenon DEF ApiAccess, tables
<1>3. /\ b \in Asks /\ b.phase = "cleared" /\ b.user = a.user /\ b.row = a.row
      /\ b.key = a.key /\ b.policy = a.policy /\ b.op = a.op /\ b.on = a.on
  BY <1>1 DEF Asks, Phases
<1>4. /\ a.op \in AdminOnly => a.row.role = "admin"
      /\ a.key # "none" => KeyPermits(a)
  BY DEF ApiAccess
<1> HIDE DEF a, b
<1>5. AccessTypeOK' /\ ask'[r] = b /\ \A q \in Asker \ {r} : ask'[q] = ask[q]
  BY <1>2, <1>3, AskWritten
<1>6. held[r] \subseteq held'[r]
  BY <1>3, <1>5, TruthsAreHeld
<1>7. RowsWereTrue(a, held[r])
  BY DEF AccessInv, RequestInv, a
<1>8. RowsWereTrue(b, held'[r])
  BY <1>2, <1>3, <1>6, <1>7 DEF RowsWereTrue, PolicyPermits
<1>9. WasCleared(b)
  BY <1>3, <1>4 DEF WasCleared, KeyPermits
<1> QED
  BY <1>3, <1>5, <1>8, <1>9, OneAtATime DEF RequestInv

LEMMA AnsweredStep ==
    ASSUME AccessInv, Remember, NEW r \in Asker, Answered(r)
    PROVE  AccessInv'
<1>1. ask' = [ask EXCEPT ![r] = Quiet] /\ UNCHANGED <<users, apiKey>>
  BY DEF Answered, tables
<1>2. AccessTypeOK' /\ ask'[r] = Quiet /\ \A q \in Asker \ {r} : ask'[q] = ask[q]
  BY <1>1, QuietTypes, AskWritten
<1>3. ask'[r].phase = "idle"
  BY <1>2 DEF Quiet
<1> QED
  BY <1>2, <1>3, OneAtATime

LEMMA KeyExpiresStep ==
    ASSUME AccessInv, Remember, NEW k \in Key, KeyExpires(k)
    PROVE  AccessInv'
<1>1. ask' = ask /\ users' = users
  BY DEF KeyExpires
<1>2. apiKey' \in [Key -> KeyRows]
  BY DEF KeyExpires, AccessInv, AccessTypeOK, KeyRows
<1>3. AccessTypeOK'
  BY <1>1, <1>2 DEF AccessInv, AccessTypeOK
<1>4. ASSUME NEW q \in Asker PROVE RequestInv(ask'[q], held'[q])
  <2>1. CASE ask[q].phase = "idle"
    BY <1>1, <2>1, Idle
  <2>2. CASE ask[q].phase # "idle"
    BY <1>1, <2>2, TruthsAreHeld, HeldIsKept DEF AccessInv
  <2> QED
    BY <2>1, <2>2
<1> QED
  BY <1>3, <1>4 DEF AccessInv

-----------------------------------------------------------------------------
LEMMA InitAccess == AccessInit => AccessInv
<1> SUFFICES ASSUME AccessInit PROVE AccessInv
  OBVIOUS
<1>1. users \in [Person -> UserRows]
  BY DEF AccessInit, UserRows
<1>2. apiKey \in [Key -> KeyRows]
  <2> DEFINE Given == [status : {"live"}, owner : Person \ {Root}, policy : Policy]
  <2>1. NoAPIKey \in KeyRows
    BY AccessAssumption DEF KeyRows, NoAPIKey, NoPolicy, Policies
  <2>2. Policy \subseteq Policies
    BY AccessAssumption DEF Policies
  <2>3. Given \subseteq KeyRows
    BY <2>2 DEF KeyRows
  <2>4. apiKey \in [Key -> {NoAPIKey} \cup Given]
    BY DEF AccessInit
  <2> HIDE DEF Given
  <2> QED
    BY <2>1, <2>3, <2>4
<1>3. ask \in [Asker -> Asks]
  BY QuietTypes DEF AccessInit
<1>4. \A r \in Asker : ask[r].phase = "idle"
  BY DEF AccessInit, Quiet
<1> QED
  BY <1>1, <1>2, <1>3, <1>4, Idle DEF AccessInv, AccessTypeOK

LEMMA HandlersStep ==
    ASSUME AccessInv, Remember, NEW r \in Asker,
           ProjectHandler(r) \/ AdministrationHandler(r) \/ KeyHandler(r)
    PROVE  AccessInv'
<1>1. CASE ProjectHandler(r)
  BY <1>1, CheckReadStep, CheckWriteStep, ListProjectsStep, CreateProjectStep, ProjectsStep
     DEF ProjectHandler
<1>2. CASE AdministrationHandler(r)
  BY <1>2, ChangeUserStep, TransferStep, StorageStep
     DEF AdministrationHandler, CreateStorage, UpdateStorage, DeleteStorage
<1>3. CASE KeyHandler(r)
  BY <1>3, CreateAPIKeyStep, APIKeyByIDStep, RevokeAPIKeyStep, UpdateAPIKeyStep DEF KeyHandler
<1> QED
  BY <1>1, <1>2, <1>3

LEMMA StepAccess == ASSUME AccessInv, [AccessNext]_accessVars PROVE AccessInv'
<1>1. CASE UNCHANGED accessVars
  <2>1. ask' = ask /\ held' = held /\ users' = users /\ apiKey' = apiKey
    BY <1>1 DEF accessVars, tables
  <2> QED
    BY <2>1 DEF AccessInv, AccessTypeOK
<1>2. CASE AccessNext
  BY <1>2, AuthenticateSessionStep, APIKeyByTokenHashStep, UserByIDStep, ApiAccessStep,
     HandlersStep, AnsweredStep, KeyExpiresStep DEF AccessNext, AccessStep
<1> QED
  BY <1>1, <1>2

LEMMA AccessInductive == AccessSpec => []AccessInv
<1>1. AccessInit => AccessInv
  BY InitAccess
<1>2. AccessInv /\ [AccessNext]_accessVars => AccessInv'
  BY StepAccess
<1> QED
  BY <1>1, <1>2, PTL DEF AccessSpec

(* A request that got through had the rights it used, each of them at a    *)
(* moment while it was under way.                                          *)
THEOREM RequestsHadTheirRights == AccessSpec => []RightsWereHeld
<1>1. AccessInv => RightsWereHeld
  BY DEF AccessInv, AccessTypeOK, RequestInv, RowsWereTrue, RightsOf, RightsFor, RightsWereHeld
<1> QED
  BY <1>1, AccessInductive, PTL

(* A request with a key did what its key permitted at one moment.          *)
THEOREM KeysHadPermitted == AccessSpec => []KeyPermitted
<1>1. AccessInv => KeyPermitted
  BY DEF AccessInv, RequestInv, RightsOf, KeyPermitted
<1> QED
  BY <1>1, AccessInductive, PTL

RevokedStays == \A k \in Key : apiKey[k].status = "revoked" => apiKey'[k] = apiKey[k]

LEMMA StepRevoked ==
    ASSUME AccessInv, [AccessNext]_accessVars
    PROVE  RevokedStays
<1> SUFFICES ASSUME NEW k \in Key, apiKey[k].status = "revoked", apiKey' # apiKey
             PROVE  apiKey'[k] = apiKey[k]
  BY DEF RevokedStays
<1>1. apiKey \in [Key -> KeyRows]
  BY DEF AccessInv, AccessTypeOK
<1>2. \/ \E r \in Asker : KeyHandler(r)
      \/ \E j \in Key : KeyExpires(j)
  BY DEF AccessNext, AccessStep, accessVars, tables, AuthenticateSession, APIKeyByTokenHash,
     UserByID, ApiAccess, Answered, ProjectHandler, AdministrationHandler, CheckRead, CheckWrite,
     ListProjects, CreateProject, UpdateProject, MarkProjectDeleting, PutMember, DeleteMember,
     ChangeUser, TransferAdministration, CreateStorage, UpdateStorage, DeleteStorage, SetBackend,
     Only
<1>3. ASSUME NEW r \in Asker, NEW j \in Key, NEW policy \in Policy, CreateAPIKey(r, j, policy)
      PROVE  apiKey'[k] = apiKey[k]
  BY <1>1, <1>3 DEF CreateAPIKey
<1>4. ASSUME NEW r \in Asker, NEW policy \in Policy, UpdateAPIKey(r, policy)
      PROVE  apiKey'[k] = apiKey[k]
  BY <1>1, <1>4 DEF UpdateAPIKey
<1>5. ASSUME NEW r \in Asker, NEW j \in Key, RevokeAPIKey(r, j)
      PROVE  apiKey'[k] = apiKey[k]
  BY <1>1, <1>5 DEF RevokeAPIKey, KeyRows
<1>6. ASSUME NEW j \in Key, KeyExpires(j)
      PROVE  apiKey'[k] = apiKey[k]
  BY <1>1, <1>6 DEF KeyExpires
<1> QED
  BY <1>2, <1>3, <1>4, <1>5, <1>6 DEF KeyHandler, APIKeyByID, tables

(* A revoked key stays as it was.                                          *)
THEOREM RevokedKeysStayRevoked == AccessSpec => RevocationIsFinal
<1>1. AccessInv /\ [AccessNext]_accessVars => [RevokedStays]_accessVars
  BY StepRevoked
<1>2. [][RevokedStays]_accessVars <=> RevocationIsFinal
  BY DEF RevokedStays, RevocationIsFinal
<1> QED
  BY <1>1, <1>2, AccessInductive, PTL DEF AccessSpec
==============================================================================
