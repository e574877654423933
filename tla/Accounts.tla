------------------------------ MODULE Accounts ------------------------------
(***************************************************************************)
(* Users, their sessions and the requests that use them: repository's      *)
(* users.go, the logins, and the administrator's handlers.                 *)
(*                                                                         *)
(* A login looks at the account first and inserts the session afterwards.  *)
(* An authenticated request carries the user row it was let in with, so    *)
(* its handler runs with a role and a password that may be out of date;    *)
(* only the transactions of UpdateUser and TransferAdmin look again.       *)
(*                                                                         *)
(* Left out: the expiry of sessions (a session here is one that lives      *)
(* long), email addresses, write_enabled, and which password was given:    *)
(* clients are taken to know the password a row holds when it is compared. *)
(***************************************************************************)
EXTENDS FiniteSets, Naturals

CONSTANTS
    User,        \* users.id
    Session,     \* sessions.id
    Request,     \* requests the server handles at a time
    None

ASSUME AccountsAssumption ==
    /\ User # {}
    /\ IsFiniteSet(Request)
    /\ None \notin User \cup Session \cup Request

VARIABLES
    role,        \* users.role, "none" before the row exists
    status,      \* users.status
    local,       \* users.password_hash IS NOT NULL
    session,     \* "none" before the row exists, "open", "revoked"
    owner,       \* sessions.user_id
    late,        \* open although its owner's sessions were revoked
    req,         \* what a request has read so far
    prompt       \* the user whose password admin-reset-password asks for

userVars == <<role, status, local>>
accountVars == <<role, status, local, session, owner, late, req, prompt>>

(* role, local: of the row a request was authenticated with; stale: the    *)
(* sessions of its user were revoked since the login verified the user.    *)
NoRequest == [doing |-> "nothing", user |-> None, session |-> None,
              role |-> "none", local |-> FALSE, stale |-> FALSE]

AccountsTypeOK ==
    /\ role \in [User -> {"none", "user", "admin"}]
    /\ status \in [User -> {"active", "disabled"}]
    /\ local \in [User -> BOOLEAN]
    /\ session \in [Session -> {"none", "open", "revoked"}]
    /\ owner \in [Session -> User \cup {None}]
    /\ late \in [Session -> BOOLEAN]
    /\ req \in [Request -> [doing : {"nothing", "login", "handler"},
                            user : User \cup {None},
                            session : Session \cup {None},
                            role : {"none", "user", "admin"},
                            local : BOOLEAN,
                            stale : BOOLEAN]]
    /\ prompt \in User \cup {None}

(* Initialize: one administrator, with a password.                         *)
AccountsInit ==
    /\ \E admin \in User :
          role = [u \in User |-> IF u = admin THEN "admin" ELSE "none"]
    /\ status = [u \in User |-> "active"]
    /\ local = [u \in User |-> role[u] = "admin"]
    /\ session = [s \in Session |-> "none"]
    /\ owner = [s \in Session |-> None]
    /\ late = [s \in Session |-> FALSE]
    /\ req = [r \in Request |-> NoRequest]
    /\ prompt = None

-----------------------------------------------------------------------------
Active(u) == role[u] # "none" /\ status[u] = "active"

(* The unique index users_one_active_admin accepts the new rows.           *)
IndexAdmits ==
    \A u, v \in User :
        /\ role'[u] = "admin" /\ status'[u] = "active"
        /\ role'[v] = "admin" /\ status'[v] = "active"
        => u = v

(* A request is answered, and nothing else happens.                        *)
Answer(r) == req' = [req EXCEPT ![r] = NoRequest]

(* Mutant: no session is revoked.                                          *)
RevokeSessionsNot(users, r) ==
    /\ late' = [s \in Session |-> late[s] \/ (owner[s] \in users /\ session[s] = "open")]
    /\ req' = [q \in Request |->
          IF q = r THEN NoRequest
          ELSE [req[q] EXCEPT !.stale = @ \/ req[q].user \in users]]
    /\ UNCHANGED <<session, owner>>

(* The open sessions of some users are revoked and the request, if any, is *)
(* answered; logins of theirs in progress are from now on stale.           *)
RevokeSessions(users, r) ==
    /\ session' = [s \in Session |->
          IF owner[s] \in users /\ session[s] = "open" THEN "revoked" ELSE session[s]]
    /\ req' = [q \in Request |->
          IF q = r THEN NoRequest
          ELSE IF req[q].doing = "login" /\ req[q].user \in users
               THEN [req[q] EXCEPT !.stale = TRUE]
               ELSE req[q]]
    /\ UNCHANGED <<owner, late>>

(* SetPassword: the new hash and the revocation are one transaction.       *)
SetPassword(u, r) ==
    /\ local' = [local EXCEPT ![u] = TRUE]
    /\ RevokeSessions({u}, r)
    /\ UNCHANGED <<role, status>>

(* Mutant: a role as members of projects have it.                          *)
InsertUserAsMember(u, hasPassword) ==
    /\ role[u] = "none"
    /\ role' = [role EXCEPT ![u] = "write"]
    /\ local' = [local EXCEPT ![u] = hasPassword]
    /\ UNCHANGED status

InsertUser(u, hasPassword) ==
    /\ role[u] = "none"
    /\ role' = [role EXCEPT ![u] = "user"]
    /\ local' = [local EXCEPT ![u] = hasPassword]
    /\ UNCHANGED status

-----------------------------------------------------------------------------
(* login, and the callback of an OIDC login: the account is looked up and  *)
(* the password compared ...                                               *)
LoginBegins(r, u) ==
    req' = [req EXCEPT ![r] = [NoRequest EXCEPT !.doing = "login", !.user = u]]

LoginVerifies(r, u) ==
    /\ req[r] = NoRequest
    /\ Active(u)
    /\ local[u]
    /\ LoginBegins(r, u)
    /\ UNCHANGED <<userVars, session, owner, late, prompt>>

(* ... or the identity resolved, which may create the user.                *)
OidcResolves(r, u) ==
    /\ req[r] = NoRequest
    /\ LoginBegins(r, u)
    /\ \/ Active(u) /\ UNCHANGED userVars
       \/ InsertUser(u, FALSE)
    /\ UNCHANGED <<session, owner, late, prompt>>

(* establishSession looks at nothing again.                                *)
EstablishSession(r, s) ==
    /\ req[r].doing = "login"
    /\ session[s] = "none"
    /\ session' = [session EXCEPT ![s] = "open"]
    /\ owner' = [owner EXCEPT ![s] = req[r].user]
    /\ late' = [late EXCEPT ![s] = req[r].stale]
    /\ Answer(r)
    /\ UNCHANGED <<userVars, prompt>>

(* SessionByTokenHash joins the session with its user's row.               *)
Authenticate(r, s) ==
    /\ req[r] = NoRequest
    /\ session[s] = "open"
    /\ Active(owner[s])
    /\ req' = [req EXCEPT ![r] = [doing |-> "handler", user |-> owner[s], session |-> s,
                                  role |-> role[owner[s]], local |-> local[owner[s]],
                                  stale |-> FALSE]]
    /\ UNCHANGED <<userVars, session, owner, late, prompt>>

Handles(r) == req[r].doing = "handler"
Administers(r) == Handles(r) /\ req[r].role = "admin"

(* A request is refused, or its client goes away.                          *)
RequestEnds(r) ==
    /\ req[r] # NoRequest
    /\ Answer(r)
    /\ UNCHANGED <<userVars, session, owner, late, prompt>>

Logout(r) ==
    /\ Handles(r)
    /\ session' = [session EXCEPT ![req[r].session] = "revoked"]
    /\ Answer(r)
    /\ UNCHANGED <<userVars, owner, late, prompt>>

(* The current password is compared with the row of the authentication.    *)
ChangePassword(r) ==
    /\ Handles(r)
    /\ req[r].local
    /\ SetPassword(req[r].user, r)
    /\ UNCHANGED prompt

-----------------------------------------------------------------------------
(* The administrator's handlers.                                           *)
CreateUser(r, u) ==
    /\ Administers(r)
    /\ InsertUser(u, TRUE)
    /\ Answer(r)
    /\ UNCHANGED <<session, owner, late, prompt>>

(* UpdateUser with a status.                                               *)
EnableUser(r, u) ==
    /\ Administers(r)
    /\ role[u] # "none"
    /\ status' = [status EXCEPT ![u] = "active"]
    /\ UNCHANGED <<role, local>>
    /\ IndexAdmits
    /\ Answer(r)
    /\ UNCHANGED <<session, owner, late, prompt>>

(* Mutant: a disabled user keeps its sessions.                             *)
DisableUserAlone(r, u) ==
    /\ Administers(r)
    /\ role[u] = "user"
    /\ status' = [status EXCEPT ![u] = "disabled"]
    /\ Answer(r)
    /\ UNCHANGED <<role, local, session, owner, late, prompt>>

DisableUser(r, u) ==
    /\ Administers(r)
    /\ role[u] = "user"
    /\ status' = [status EXCEPT ![u] = "disabled"]
    /\ RevokeSessions({u}, r)
    /\ UNCHANGED <<role, local, prompt>>

ResetPassword(r, u) ==
    /\ Administers(r)
    /\ role[u] # "none"
    /\ SetPassword(u, r)
    /\ UNCHANGED prompt

RevokeUserSessions(r, u) ==
    /\ Administers(r)
    /\ RevokeSessions({u}, r)
    /\ UNCHANGED <<userVars, prompt>>

(* Mutant: the status of the new administrator is not looked at.           *)
TransferAdminAnyStatus(r, u) ==
    /\ Administers(r)
    /\ role[req[r].user] = "admin"
    /\ role[u] = "user"
    /\ role' = [role EXCEPT ![req[r].user] = "user", ![u] = "admin"]
    /\ RevokeSessions({req[r].user, u}, r)
    /\ UNCHANGED <<status, local, prompt>>

TransferAdmin(r, u) ==
    /\ Administers(r)
    /\ req[r].local
    /\ role[req[r].user] = "admin"
    /\ role[u] = "user"
    /\ status[u] = "active"
    /\ role' = [role EXCEPT ![req[r].user] = "user", ![u] = "admin"]
    /\ UNCHANGED <<status, local>>
    /\ IndexAdmits
    /\ RevokeSessions({req[r].user, u}, r)
    /\ UNCHANGED prompt

(* The command admin-reset-password, a process of its own: it looks for    *)
(* the administrator, asks for a password twice, and sets it.              *)
ResetAsks(u) ==
    /\ prompt = None
    /\ role[u] = "admin"
    /\ Active(u)
    /\ prompt' = u
    /\ UNCHANGED <<userVars, session, owner, late, req>>

ResetSets ==
    /\ prompt # None
    /\ SetPassword(prompt, None)
    /\ prompt' = None

ResetQuits ==
    /\ prompt # None
    /\ prompt' = None
    /\ UNCHANGED <<userVars, session, owner, late, req>>

-----------------------------------------------------------------------------
AccountStep(r) ==
    \/ \E u \in User :
          \/ LoginVerifies(r, u)
          \/ OidcResolves(r, u)
          \/ CreateUser(r, u)
          \/ EnableUser(r, u)
          \/ DisableUser(r, u)
          \/ ResetPassword(r, u)
          \/ RevokeUserSessions(r, u)
          \/ TransferAdmin(r, u)
    \/ \E s \in Session : EstablishSession(r, s) \/ Authenticate(r, s)
    \/ Logout(r)
    \/ ChangePassword(r)
    \/ RequestEnds(r)

AccountsNext ==
    \/ \E r \in Request : AccountStep(r)
    \/ \E u \in User : ResetAsks(u)
    \/ ResetSets
    \/ ResetQuits

AccountsSpec == AccountsInit /\ [][AccountsNext]_accountVars

-----------------------------------------------------------------------------
(* SAFETY                                                                  *)

(* There is exactly one administrator and it is active, whatever requests  *)
(* of former administrators are still in progress: nobody can lock the     *)
(* installation, and no transfer makes two.                                *)
ExactlyOneAdmin ==
    /\ \E u \in User : role[u] = "admin"
    /\ \A u, v \in User : role[u] = "admin" /\ role[v] = "admin" => u = v
    /\ \A u \in User : role[u] = "admin" => Active(u)

LateSessions(u) == {s \in Session : owner[s] = u /\ session[s] = "open" /\ late[s]}

(* docs/architecture.md: changing or resetting a password revokes all      *)
(* sessions of the user (so do disabling, transfer and revoke-sessions).   *)
(* What can survive is one session per login that was in progress.         *)
LateSessionsBounded ==
    \A u \in User : Cardinality(LateSessions(u)) <= Cardinality(Request)

(* A disabled account holds no session but late ones: enabling it again    *)
(* does not bring back the sessions it had.                                *)
DisabledAreOut ==
    \A s \in Session :
        session[s] = "open" /\ status[owner[s]] = "disabled" => late[s]
=============================================================================
