---------------------------- MODULE Shares_proofs ----------------------------
(***************************************************************************)
(* Proofs about Accounts and about Shares, which extends it, for any sets  *)
(* of users, sessions, requests and shares.  What is proved of             *)
(* AccountsSpec holds of SharesSpec, which implements it.                  *)
(***************************************************************************)
EXTENDS Shares, FiniteSetTheorems, TLAPS

-----------------------------------------------------------------------------
(* ACCOUNTS                                                                *)

(* The inductive invariant adds that what refers to a user has one, that a *)
(* row that does not exist yet is not disabled, and that a login of a      *)
(* disabled user was verified before: the session it is to open is late.   *)
RequestsHaveUsers ==
    \A r \in Request :
        /\ req[r].doing # "nothing" => req[r].user \in User
        /\ req[r].doing = "handler" => req[r].session \in Session

OpenHaveOwners == \A s \in Session : session[s] = "open" => owner[s] \in User

NewAreActive == \A u \in User : role[u] = "none" => status[u] = "active"

DisabledAreStale ==
    \A r \in Request :
        req[r].doing = "login" /\ status[req[r].user] = "disabled" => req[r].stale

AInv ==
    /\ AccountsTypeOK
    /\ RequestsHaveUsers
    /\ OpenHaveOwners
    /\ NewAreActive
    /\ ExactlyOneAdmin
    /\ DisabledAreStale
    /\ DisabledAreOut

-----------------------------------------------------------------------------
(* The record types of requests, so that proofs need not unfold them.      *)
Req == [doing : {"nothing", "login", "handler"}, user : User \cup {None},
        session : Session \cup {None}, role : {"none", "user", "admin"},
        local : BOOLEAN, stale : BOOLEAN]

LEMMA NoRequestType == NoRequest \in Req /\ NoRequest.doing = "nothing"
BY DEF NoRequest, Req

LEMMA ReqType == AccountsTypeOK => req \in [Request -> Req]
BY DEF AccountsTypeOK, Req

LEMMA AnswerEffect ==
    ASSUME req \in [Request -> Req], NEW r \in Request, Answer(r)
    PROVE  /\ req' \in [Request -> Req]
           /\ \A q \in Request : req'[q] = req[q] \/ req'[q].doing = "nothing"
BY NoRequestType DEF Answer

LEMMA StaleEffect ==
    ASSUME NEW x \in Req, NEW y, y = [x EXCEPT !.stale = TRUE]
    PROVE  /\ y \in Req /\ y.stale
           /\ y.doing = x.doing /\ y.user = x.user /\ y.session = x.session
BY DEF Req

(* What a revocation leaves as it was, and what it makes sure of.          *)
LEMMA RevokeEffect ==
    ASSUME AccountsTypeOK, NEW users, NEW r, RevokeSessions(users, r)
    PROVE  /\ session' \in [Session -> {"none", "open", "revoked"}]
           /\ owner' = owner /\ late' = late
           /\ req' \in [Request -> Req]
           /\ \A s \in Session :
                 session'[s] = "open" => session[s] = "open" /\ owner[s] \notin users
           /\ \A q \in Request :
                 \/ req'[q].doing = "nothing"
                 \/ req'[q] = req[q] /\ ~(req[q].doing = "login" /\ req[q].user \in users)
                 \/ /\ req'[q].stale
                    /\ req'[q].doing = req[q].doing
                    /\ req'[q].user = req[q].user
                    /\ req'[q].session = req[q].session
<1>1. req \in [Request -> Req]
  BY ReqType
<1>2. ASSUME NEW q \in Request
      PROVE  /\ req'[q] \in Req
             /\ \/ req'[q].doing = "nothing"
                \/ req'[q] = req[q] /\ ~(req[q].doing = "login" /\ req[q].user \in users)
                \/ /\ req'[q].stale
                   /\ req'[q].doing = req[q].doing
                   /\ req'[q].user = req[q].user
                   /\ req'[q].session = req[q].session
  <2>1. \/ req'[q] = NoRequest
        \/ req'[q] = req[q] /\ ~(req[q].doing = "login" /\ req[q].user \in users)
        \/ req'[q] = [req[q] EXCEPT !.stale = TRUE]
    BY Zenon DEF RevokeSessions
  <2>2. req[q] \in Req
    BY <1>1
  <2>3. QED
    BY <2>1, <2>2, NoRequestType, StaleEffect, Zenon
<1>3. req' = [q \in Request |-> req'[q]]
  BY DEF RevokeSessions
<1>4. req' \in [Request -> Req]
  BY <1>2, <1>3
<1>5. QED
  BY <1>2, <1>4 DEF RevokeSessions, AccountsTypeOK

-----------------------------------------------------------------------------
LEMMA InitInv == AccountsInit => AInv
<1> SUFFICES ASSUME AccountsInit PROVE AInv
  OBVIOUS
<1> USE DEF AccountsInit
<1>1. PICK admin \in User :
          role = [u \in User |-> IF u = admin THEN "admin" ELSE "none"]
  OBVIOUS
<1>2. AccountsTypeOK
  BY <1>1, NoRequestType DEF AccountsTypeOK, Req
<1>3. ExactlyOneAdmin
  BY <1>1 DEF ExactlyOneAdmin, Active
<1>4. RequestsHaveUsers /\ DisabledAreStale
  BY NoRequestType DEF RequestsHaveUsers, DisabledAreStale
<1>5. OpenHaveOwners /\ NewAreActive /\ DisabledAreOut
  BY DEF OpenHaveOwners, NewAreActive, DisabledAreOut
<1>6. QED
  BY <1>2, <1>3, <1>4, <1>5 DEF AInv

-----------------------------------------------------------------------------
(* Steps that revoke sessions.                                             *)
LEMMA RevocationKeeps ==
    ASSUME AInv, NEW users, NEW r, RevokeSessions(users, r),
           \A u \in User :
              status'[u] = "disabled" => status[u] = "disabled" \/ u \in users
    PROVE  RequestsHaveUsers' /\ OpenHaveOwners' /\ DisabledAreStale' /\ DisabledAreOut'
<1>1. AccountsTypeOK
  BY DEF AInv
<1> DEFINE Kept(q) ==
      \/ req'[q].doing = "nothing"
      \/ req'[q] = req[q] /\ ~(req[q].doing = "login" /\ req[q].user \in users)
      \/ /\ req'[q].stale
         /\ req'[q].doing = req[q].doing
         /\ req'[q].user = req[q].user
         /\ req'[q].session = req[q].session
<1>2. /\ owner' = owner /\ late' = late
      /\ \A s \in Session :
            session'[s] = "open" => session[s] = "open" /\ owner[s] \notin users
      /\ \A q \in Request : Kept(q)
  BY <1>1, RevokeEffect
<1>3. RequestsHaveUsers'
  BY <1>2 DEF AInv, RequestsHaveUsers
<1>4. OpenHaveOwners'
  BY <1>2 DEF AInv, OpenHaveOwners
<1>5. DisabledAreOut'
  BY <1>2 DEF AInv, OpenHaveOwners, DisabledAreOut
<1>6. DisabledAreStale'
  BY <1>2 DEF AInv, RequestsHaveUsers, DisabledAreStale
<1>7. QED
  BY <1>3, <1>4, <1>5, <1>6

(* Steps that answer a request, disable nobody and revoke nothing.         *)
LEMMA AnswerKeeps ==
    ASSUME AInv, NEW r \in Request, Answer(r),
           UNCHANGED <<session, owner, late>>,
           \A u \in User : status'[u] = "disabled" => status[u] = "disabled"
    PROVE  RequestsHaveUsers' /\ OpenHaveOwners' /\ DisabledAreStale' /\ DisabledAreOut'
<1>1. \A q \in Request : req'[q] = req[q] \/ req'[q].doing = "nothing"
  BY ReqType, AnswerEffect DEF AInv
<1>2. RequestsHaveUsers'
  BY <1>1 DEF AInv, RequestsHaveUsers
<1>3. OpenHaveOwners'
  BY DEF AInv, OpenHaveOwners
<1>4. DisabledAreOut'
  BY DEF AInv, OpenHaveOwners, DisabledAreOut
<1>5. DisabledAreStale'
  BY <1>1 DEF AInv, RequestsHaveUsers, DisabledAreStale
<1>6. QED
  BY <1>2, <1>3, <1>4, <1>5

(* Steps that begin a login of a user who is not disabled.                 *)
LEMMA LoginKeeps ==
    ASSUME AInv, NEW r \in Request, NEW u \in User, LoginBegins(r, u),
           UNCHANGED <<session, owner, late, status>>, status[u] = "active"
    PROVE  /\ req' \in [Request -> Req]
           /\ RequestsHaveUsers' /\ OpenHaveOwners' /\ DisabledAreStale' /\ DisabledAreOut'
<1> DEFINE L == [NoRequest EXCEPT !.doing = "login", !.user = u]
<1>1. L \in Req /\ L.doing = "login" /\ L.user = u
  BY DEF NoRequest, Req
<1>2. req \in [Request -> Req] /\ req' = [req EXCEPT ![r] = L]
  BY ReqType DEF AInv, LoginBegins
<1> HIDE DEF L
<1>3. req' \in [Request -> Req] /\ \A q \in Request : q # r => req'[q] = req[q]
  BY <1>1, <1>2
<1>4. req'[r].doing = "login" /\ req'[r].user = u
  BY <1>1, <1>2
<1>5. RequestsHaveUsers'
  BY <1>3, <1>4 DEF AInv, RequestsHaveUsers
<1>6. OpenHaveOwners' /\ DisabledAreOut'
  BY DEF AInv, OpenHaveOwners, DisabledAreOut
<1>7. DisabledAreStale'
  BY <1>3, <1>4 DEF AInv, DisabledAreStale
<1>8. QED
  BY <1>3, <1>5, <1>6, <1>7

(* Roles and types, where only a user's row changes.                       *)
LEMMA InsertKeeps ==
    ASSUME AInv, NEW u \in User, NEW b \in BOOLEAN, InsertUser(u, b)
    PROVE  /\ role' \in [User -> {"none", "user", "admin"}]
           /\ status' = status /\ status[u] = "active"
           /\ local' \in [User -> BOOLEAN]
           /\ NewAreActive' /\ ExactlyOneAdmin'
<1>1. role' \in [User -> {"none", "user", "admin"}] /\ local' \in [User -> BOOLEAN]
  BY DEF AInv, AccountsTypeOK, InsertUser
<1>2. status' = status /\ status[u] = "active" /\ NewAreActive'
  BY DEF AInv, AccountsTypeOK, InsertUser, NewAreActive
<1>3. ExactlyOneAdmin'
  BY DEF AInv, AccountsTypeOK, InsertUser, ExactlyOneAdmin, Active
<1>4. QED
  BY <1>1, <1>2, <1>3

(* Steps that change a password and revoke the sessions of its user.       *)
LEMMA SetPasswordKeeps ==
    ASSUME AInv, NEW u \in User, NEW r, SetPassword(u, r), prompt' \in User \cup {None}
    PROVE  AInv'
<1>1. RevokeSessions({u}, r) /\ UNCHANGED <<role, status>>
  BY DEF SetPassword
<1>2. RequestsHaveUsers' /\ OpenHaveOwners' /\ DisabledAreStale' /\ DisabledAreOut'
  BY <1>1, RevocationKeeps
<1>3. /\ session' \in [Session -> {"none", "open", "revoked"}]
      /\ owner' = owner /\ late' = late
      /\ req' \in [Request -> Req]
  BY <1>1, RevokeEffect DEF AInv
<1>4. AccountsTypeOK'
  BY <1>1, <1>3 DEF AInv, AccountsTypeOK, Req, SetPassword
<1>5. NewAreActive' /\ ExactlyOneAdmin'
  BY <1>1 DEF AInv, NewAreActive, ExactlyOneAdmin, Active
<1>6. QED
  BY <1>2, <1>4, <1>5 DEF AInv

-----------------------------------------------------------------------------
(* Every step of a request keeps the invariant.                            *)
LEMMA RequestStepKeeps ==
    ASSUME AInv, NEW r \in Request, AccountStep(r)
    PROVE  AInv'
<1> USE DEF userVars
<1>a. AccountsTypeOK /\ req \in [Request -> Req]
  BY ReqType DEF AInv
<1>1. ASSUME NEW u \in User, LoginVerifies(r, u)
      PROVE  AInv'
  <2>1. LoginBegins(r, u) /\ status[u] = "active" /\ UNCHANGED <<role, status, local, session, owner, late, prompt>>
    BY <1>1 DEF LoginVerifies, Active
  <2>2. /\ req' \in [Request -> Req]
        /\ RequestsHaveUsers' /\ OpenHaveOwners' /\ DisabledAreStale' /\ DisabledAreOut'
    BY <2>1, LoginKeeps
  <2>3. AccountsTypeOK'
    BY <1>a, <2>1, <2>2 DEF AccountsTypeOK, Req
  <2>4. NewAreActive' /\ ExactlyOneAdmin'
    BY <2>1 DEF AInv, NewAreActive, ExactlyOneAdmin, Active
  <2>5. QED
    BY <2>2, <2>3, <2>4 DEF AInv
<1>2. ASSUME NEW u \in User, OidcResolves(r, u)
      PROVE  AInv'
  <2>1. LoginBegins(r, u) /\ UNCHANGED <<session, owner, late, prompt>>
    BY <1>2 DEF OidcResolves
  <2>2. /\ role' \in [User -> {"none", "user", "admin"}]
        /\ status' = status /\ status[u] = "active"
        /\ local' \in [User -> BOOLEAN]
        /\ NewAreActive' /\ ExactlyOneAdmin'
    <3>1. CASE Active(u) /\ UNCHANGED userVars
      BY <1>a, <3>1 DEF AInv, AccountsTypeOK, NewAreActive, ExactlyOneAdmin, Active
    <3>2. CASE InsertUser(u, FALSE)
      BY <3>2, InsertKeeps
    <3>3. QED
      BY <1>2, <3>1, <3>2 DEF OidcResolves
  <2>3. /\ req' \in [Request -> Req]
        /\ RequestsHaveUsers' /\ OpenHaveOwners' /\ DisabledAreStale' /\ DisabledAreOut'
    BY <2>1, <2>2, LoginKeeps
  <2>4. AccountsTypeOK'
    BY <1>a, <2>1, <2>2, <2>3 DEF AccountsTypeOK, Req
  <2>5. QED
    BY <2>2, <2>3, <2>4 DEF AInv
<1>3. ASSUME NEW u \in User, CreateUser(r, u)
      PROVE  AInv'
  <2>1. InsertUser(u, TRUE) /\ Answer(r) /\ UNCHANGED <<session, owner, late, prompt>>
    BY <1>3 DEF CreateUser
  <2>2. /\ role' \in [User -> {"none", "user", "admin"}]
        /\ status' = status
        /\ local' \in [User -> BOOLEAN]
        /\ NewAreActive' /\ ExactlyOneAdmin'
    BY <2>1, InsertKeeps
  <2>3. RequestsHaveUsers' /\ OpenHaveOwners' /\ DisabledAreStale' /\ DisabledAreOut'
    BY <2>1, <2>2, AnswerKeeps
  <2>4. req' \in [Request -> Req]
    BY <1>a, <2>1, AnswerEffect
  <2>5. AccountsTypeOK'
    BY <1>a, <2>1, <2>2, <2>4 DEF AccountsTypeOK, Req
  <2>6. QED
    BY <2>2, <2>3, <2>5 DEF AInv
<1>4. ASSUME NEW u \in User, EnableUser(r, u)
      PROVE  AInv'
  <2>1. /\ role[u] # "none" /\ status' = [status EXCEPT ![u] = "active"]
        /\ Answer(r) /\ UNCHANGED <<role, local, session, owner, late, prompt>>
    BY <1>4 DEF EnableUser
  <2>2. RequestsHaveUsers' /\ OpenHaveOwners' /\ DisabledAreStale' /\ DisabledAreOut'
    <3>1. \A v \in User : status'[v] = "disabled" => status[v] = "disabled"
      BY <1>a, <2>1 DEF AccountsTypeOK
    <3>2. QED
      BY <2>1, <3>1, AnswerKeeps
  <2>3. req' \in [Request -> Req]
    BY <1>a, <2>1, AnswerEffect
  <2>4. AccountsTypeOK'
    BY <1>a, <2>1, <2>3 DEF AccountsTypeOK, Req
  <2>5. NewAreActive' /\ ExactlyOneAdmin'
    BY <1>a, <2>1 DEF AInv, AccountsTypeOK, NewAreActive, ExactlyOneAdmin, Active
  <2>6. QED
    BY <2>2, <2>4, <2>5 DEF AInv
<1>5. ASSUME NEW u \in User, DisableUser(r, u)
      PROVE  AInv'
  <2>1. /\ role[u] = "user" /\ status' = [status EXCEPT ![u] = "disabled"]
        /\ RevokeSessions({u}, r) /\ UNCHANGED <<role, local, prompt>>
    BY <1>5 DEF DisableUser
  <2>2. RequestsHaveUsers' /\ OpenHaveOwners' /\ DisabledAreStale' /\ DisabledAreOut'
    <3>1. \A v \in User : status'[v] = "disabled" => status[v] = "disabled" \/ v \in {u}
      BY <1>a, <2>1 DEF AccountsTypeOK
    <3>2. QED
      BY <2>1, <3>1, RevocationKeeps
  <2>3. /\ session' \in [Session -> {"none", "open", "revoked"}]
        /\ owner' = owner /\ late' = late
        /\ req' \in [Request -> Req]
    BY <1>a, <2>1, RevokeEffect
  <2>4. AccountsTypeOK'
    BY <1>a, <2>1, <2>3 DEF AccountsTypeOK, Req
  <2>5. NewAreActive' /\ ExactlyOneAdmin'
    BY <1>a, <2>1 DEF AInv, AccountsTypeOK, NewAreActive, ExactlyOneAdmin, Active
  <2>6. QED
    BY <2>2, <2>4, <2>5 DEF AInv
<1>6. ASSUME NEW u \in User, ResetPassword(r, u)
      PROVE  AInv'
  BY <1>a, <1>6, SetPasswordKeeps DEF ResetPassword, AccountsTypeOK
<1>7. ASSUME NEW u \in User, RevokeUserSessions(r, u)
      PROVE  AInv'
  <2>1. RevokeSessions({u}, r) /\ UNCHANGED <<role, status, local, prompt>>
    BY <1>7 DEF RevokeUserSessions
  <2>2. RequestsHaveUsers' /\ OpenHaveOwners' /\ DisabledAreStale' /\ DisabledAreOut'
    BY <2>1, RevocationKeeps
  <2>3. /\ session' \in [Session -> {"none", "open", "revoked"}]
        /\ owner' = owner /\ late' = late
        /\ req' \in [Request -> Req]
    BY <1>a, <2>1, RevokeEffect
  <2>4. AccountsTypeOK'
    BY <1>a, <2>1, <2>3 DEF AccountsTypeOK, Req
  <2>5. NewAreActive' /\ ExactlyOneAdmin'
    BY <2>1 DEF AInv, NewAreActive, ExactlyOneAdmin, Active
  <2>6. QED
    BY <2>2, <2>4, <2>5 DEF AInv
<1>8. ASSUME NEW u \in User, TransferAdmin(r, u)
      PROVE  AInv'
  <2> DEFINE old == req[r].user
  <2>1. /\ Handles(r) /\ role[old] = "admin" /\ role[u] = "user" /\ status[u] = "active"
        /\ role' = [role EXCEPT ![old] = "user", ![u] = "admin"]
        /\ RevokeSessions({old, u}, r) /\ UNCHANGED <<status, local, prompt>>
    BY <1>8 DEF TransferAdmin, Administers
  <2>2. old \in User
    BY <2>1 DEF AInv, RequestsHaveUsers, Handles
  <2> HIDE DEF old
  <2>3. RequestsHaveUsers' /\ OpenHaveOwners' /\ DisabledAreStale' /\ DisabledAreOut'
    BY <2>1, RevocationKeeps
  <2>4. /\ session' \in [Session -> {"none", "open", "revoked"}]
        /\ owner' = owner /\ late' = late
        /\ req' \in [Request -> Req]
    BY <1>a, <2>1, RevokeEffect
  <2>5. role' \in [User -> {"none", "user", "admin"}]
    BY <1>a, <2>1 DEF AccountsTypeOK
  <2>6. AccountsTypeOK'
    BY <1>a, <2>1, <2>4, <2>5 DEF AccountsTypeOK, Req
  <2>7. NewAreActive'
    BY <1>a, <2>1, <2>2 DEF AInv, AccountsTypeOK, NewAreActive
  <2>8. ExactlyOneAdmin'
    BY <1>a, <2>1, <2>2 DEF AInv, AccountsTypeOK, ExactlyOneAdmin, Active
  <2>9. QED
    BY <2>3, <2>6, <2>7, <2>8 DEF AInv
<1>9. ASSUME NEW s \in Session, EstablishSession(r, s)
      PROVE  AInv'
  <2>1. /\ req[r].doing = "login" /\ session[s] = "none"
        /\ session' = [session EXCEPT ![s] = "open"]
        /\ owner' = [owner EXCEPT ![s] = req[r].user]
        /\ late' = [late EXCEPT ![s] = req[r].stale]
        /\ Answer(r) /\ UNCHANGED <<role, status, local, prompt>>
    BY <1>9 DEF EstablishSession
  <2>2. /\ req' \in [Request -> Req]
        /\ \A q \in Request : req'[q] = req[q] \/ req'[q].doing = "nothing"
    BY <1>a, <2>1, AnswerEffect
  <2>3. req[r].user \in User /\ req[r].stale \in BOOLEAN
    BY <1>a, <2>1 DEF AInv, RequestsHaveUsers, Req
  <2>4. AccountsTypeOK'
    BY <1>a, <2>1, <2>2, <2>3 DEF AccountsTypeOK, Req
  <2>5. RequestsHaveUsers' /\ DisabledAreStale'
    BY <2>1, <2>2 DEF AInv, RequestsHaveUsers, DisabledAreStale
  <2>6. OpenHaveOwners'
    BY <1>a, <2>1, <2>3 DEF AInv, AccountsTypeOK, OpenHaveOwners
  <2>7. DisabledAreOut'
    <3> SUFFICES ASSUME NEW t \in Session, session'[t] = "open", status'[owner'[t]] = "disabled"
                 PROVE  late'[t]
      BY DEF DisabledAreOut
    <3>1. CASE t = s
      <4>1. owner'[t] = req[r].user /\ late'[t] = req[r].stale
        BY <1>a, <2>1, <3>1 DEF AccountsTypeOK
      <4>2. QED
        BY <2>1, <4>1 DEF AInv, DisabledAreStale
    <3>2. CASE t # s
      BY <1>a, <2>1, <3>2 DEF AInv, AccountsTypeOK, DisabledAreOut
    <3>3. QED
      BY <3>1, <3>2
  <2>8. NewAreActive' /\ ExactlyOneAdmin'
    BY <2>1 DEF AInv, NewAreActive, ExactlyOneAdmin, Active
  <2>9. QED
    BY <2>4, <2>5, <2>6, <2>7, <2>8 DEF AInv
<1>10. ASSUME NEW s \in Session, Authenticate(r, s)
       PROVE  AInv'
  <2> DEFINE H == [doing |-> "handler", user |-> owner[s], session |-> s,
                   role |-> role[owner[s]], local |-> local[owner[s]], stale |-> FALSE]
  <2>1. /\ session[s] = "open" /\ req' = [req EXCEPT ![r] = H]
        /\ UNCHANGED <<role, status, local, session, owner, late, prompt>>
    BY <1>10 DEF Authenticate
  <2>2. owner[s] \in User
    BY <2>1 DEF AInv, OpenHaveOwners
  <2>3. H \in Req /\ H.doing = "handler" /\ H.user \in User /\ H.session \in Session
    BY <1>a, <2>2 DEF AccountsTypeOK, Req
  <2> HIDE DEF H
  <2>4. /\ req' \in [Request -> Req] /\ req'[r] = H
        /\ \A q \in Request : q # r => req'[q] = req[q]
    BY <1>a, <2>1, <2>3
  <2>5. AccountsTypeOK'
    BY <1>a, <2>1, <2>4 DEF AccountsTypeOK, Req
  <2>6. RequestsHaveUsers' /\ DisabledAreStale'
    BY <2>1, <2>3, <2>4 DEF AInv, RequestsHaveUsers, DisabledAreStale
  <2>7. OpenHaveOwners' /\ DisabledAreOut' /\ NewAreActive' /\ ExactlyOneAdmin'
    BY <2>1 DEF AInv, OpenHaveOwners, DisabledAreOut, NewAreActive, ExactlyOneAdmin, Active
  <2>8. QED
    BY <2>5, <2>6, <2>7 DEF AInv
<1>11. CASE Logout(r)
  <2>1. /\ session' = [session EXCEPT ![req[r].session] = "revoked"]
        /\ Answer(r) /\ UNCHANGED <<role, status, local, owner, late, prompt>>
    BY <1>11 DEF Logout
  <2>2. /\ req' \in [Request -> Req]
        /\ \A q \in Request : req'[q] = req[q] \/ req'[q].doing = "nothing"
    BY <1>a, <2>1, AnswerEffect
  <2>3. /\ session' \in [Session -> {"none", "open", "revoked"}]
        /\ \A s \in Session : session'[s] = "open" => session[s] = "open"
    BY <1>a, <2>1 DEF AccountsTypeOK
  <2>4. AccountsTypeOK'
    BY <1>a, <2>1, <2>2, <2>3 DEF AccountsTypeOK, Req
  <2>5. RequestsHaveUsers' /\ DisabledAreStale'
    BY <2>1, <2>2 DEF AInv, RequestsHaveUsers, DisabledAreStale
  <2>6. OpenHaveOwners' /\ DisabledAreOut'
    BY <2>1, <2>3 DEF AInv, OpenHaveOwners, DisabledAreOut
  <2>7. NewAreActive' /\ ExactlyOneAdmin'
    BY <2>1 DEF AInv, NewAreActive, ExactlyOneAdmin, Active
  <2>8. QED
    BY <2>4, <2>5, <2>6, <2>7 DEF AInv
<1>12. CASE ChangePassword(r)
  <2>1. SetPassword(req[r].user, r) /\ prompt' = prompt /\ req[r].user \in User
    BY <1>12 DEF ChangePassword, Handles, AInv, RequestsHaveUsers
  <2>2. QED
    BY <1>a, <2>1, SetPasswordKeeps DEF AccountsTypeOK
<1>13. CASE RequestEnds(r)
  <2>1. Answer(r) /\ UNCHANGED <<role, status, local, session, owner, late, prompt>>
    BY <1>13 DEF RequestEnds
  <2>2. RequestsHaveUsers' /\ OpenHaveOwners' /\ DisabledAreStale' /\ DisabledAreOut'
    BY <2>1, AnswerKeeps
  <2>3. req' \in [Request -> Req]
    BY <1>a, <2>1, AnswerEffect
  <2>4. AccountsTypeOK'
    BY <1>a, <2>1, <2>3 DEF AccountsTypeOK, Req
  <2>5. NewAreActive' /\ ExactlyOneAdmin'
    BY <2>1 DEF AInv, NewAreActive, ExactlyOneAdmin, Active
  <2>6. QED
    BY <2>2, <2>4, <2>5 DEF AInv
<1>14. QED
  BY <1>1, <1>2, <1>3, <1>4, <1>5, <1>6, <1>7, <1>8, <1>9, <1>10, <1>11, <1>12, <1>13
     DEF AccountStep

LEMMA StepKeeps == AInv /\ [AccountsNext]_accountVars => AInv'
<1> SUFFICES ASSUME AInv, [AccountsNext]_accountVars PROVE AInv'
  OBVIOUS
<1>1. ASSUME NEW r \in Request, AccountStep(r) PROVE AInv'
  BY <1>1, RequestStepKeeps
<1>2. ASSUME UNCHANGED <<role, status, local, session, owner, late, req>>,
             prompt' \in User \cup {None}
      PROVE  AInv'
  BY <1>2 DEF AInv, AccountsTypeOK, RequestsHaveUsers, OpenHaveOwners, NewAreActive,
              ExactlyOneAdmin, Active, DisabledAreStale, DisabledAreOut
<1>3. ASSUME NEW u \in User, ResetAsks(u) PROVE AInv'
  BY <1>2, <1>3 DEF ResetAsks, userVars
<1>4. CASE ResetSets
  <2>1. prompt \in User /\ SetPassword(prompt, None) /\ prompt' \in User \cup {None}
    BY <1>4 DEF ResetSets, AInv, AccountsTypeOK
  <2>2. QED
    BY <2>1, SetPasswordKeeps
<1>5. CASE ResetQuits
  BY <1>2, <1>5 DEF ResetQuits, userVars
<1>6. CASE UNCHANGED accountVars
  BY <1>2, <1>6 DEF accountVars, AInv, AccountsTypeOK
<1>7. QED
  BY <1>1, <1>3, <1>4, <1>5, <1>6 DEF AccountsNext

LEMMA InvAlways == AccountsSpec => []AInv
<1>1. AccountsInit => AInv
  BY InitInv
<1>2. AInv /\ [AccountsNext]_accountVars => AInv'
  BY StepKeeps
<1>3. QED
  BY <1>1, <1>2, PTL DEF AccountsSpec

-----------------------------------------------------------------------------
(* Users, sessions and requests hold what the columns admit, for any       *)
(* number of each.                                                         *)
THEOREM AccountsTypeCorrect == AccountsSpec => []AccountsTypeOK
<1>1. AInv => AccountsTypeOK
  BY DEF AInv
<1>2. QED
  BY <1>1, InvAlways, PTL

(* No interleaving of the administrator's requests, of transfers by former *)
(* administrators and of logins leaves none or two administrators, or a    *)
(* disabled one: TransferAdmin and UpdateUser look at the roles again.     *)
THEOREM OneAdministrator == AccountsSpec => []ExactlyOneAdmin
<1>1. AInv => ExactlyOneAdmin
  BY DEF AInv
<1>2. QED
  BY <1>1, InvAlways, PTL

(* A disabled account holds no session but those of logins that were in    *)
(* progress when it was disabled.                                          *)
THEOREM DisabledAccountsAreOut == AccountsSpec => []DisabledAreOut
<1>1. AInv => DisabledAreOut
  BY DEF AInv
<1>2. QED
  BY <1>1, InvAlways, PTL

-----------------------------------------------------------------------------
(* Late sessions and the logins that are to open one: a login is used up   *)
(* by the session it opens, and whatever makes logins stale revokes the    *)
(* sessions that are open.                                                 *)
StaleLogins(u) ==
    {r \in Request : req[r].doing = "login" /\ req[r].user = u /\ req[r].stale}

(* Of sets L of sessions and S of logins.                                  *)
Few(L, S) ==
    /\ IsFiniteSet(L)
    /\ S \subseteq Request
    /\ Cardinality(L) + Cardinality(S) <= Cardinality(Request)

LateInv == \A u \in User : Few(LateSessions(u), StaleLogins(u))

(* What a step makes of them: nothing new; or no session is left; or one   *)
(* login opened one session.                                               *)
Moved(L, S, M, T) ==
    /\ T \subseteq Request
    /\ \/ M \subseteq L /\ T \subseteq S
       \/ M = {}
       \/ \E s, r : r \in S /\ M \subseteq L \cup {s} /\ T \subseteq S \ {r}

LEMMA FewStayFew ==
    ASSUME NEW L, NEW S, Few(L, S), NEW M, NEW T, Moved(L, S, M, T)
    PROVE  Few(M, T)
<1>0. /\ IsFiniteSet(L) /\ S \in SUBSET Request /\ T \in SUBSET Request
      /\ Cardinality(L) + Cardinality(S) <= Cardinality(Request)
  BY DEF Few, Moved
<1> SUFFICES IsFiniteSet(M) /\ Cardinality(M) + Cardinality(T) <= Cardinality(Request)
  BY <1>0 DEF Few
<1>1. /\ IsFiniteSet(Request) /\ IsFiniteSet(S) /\ IsFiniteSet(T)
      /\ Cardinality(T) <= Cardinality(Request)
  BY <1>0, AccountsAssumption, FS_Subset
<1>2. /\ Cardinality(Request) \in Nat /\ Cardinality(S) \in Nat /\ Cardinality(T) \in Nat
      /\ Cardinality(L) \in Nat
  BY <1>0, <1>1, FS_CardinalityType
<1>3. CASE M \subseteq L /\ T \subseteq S
  <2>1. IsFiniteSet(M) /\ Cardinality(M) <= Cardinality(L) /\ Cardinality(T) <= Cardinality(S)
    BY <1>0, <1>1, <1>3, FS_Subset
  <2>2. Cardinality(M) \in Nat
    BY <2>1, FS_CardinalityType
  <2> QED
    BY <1>0, <1>2, <2>1, <2>2
<1>4. CASE M = {}
  BY <1>0, <1>1, <1>2, <1>4, FS_EmptySet
<1>5. ASSUME NEW s, NEW r, r \in S, M \subseteq L \cup {s}, T \subseteq S \ {r}
      PROVE  IsFiniteSet(M) /\ Cardinality(M) + Cardinality(T) <= Cardinality(Request)
  <2>1. IsFiniteSet(L \cup {s}) /\ Cardinality(L \cup {s}) <= Cardinality(L) + 1
    <3>1. /\ IsFiniteSet(L \cup {s})
          /\ Cardinality(L \cup {s}) = IF s \in L THEN Cardinality(L) ELSE Cardinality(L) + 1
      BY <1>0, FS_AddElement
    <3> QED
      BY <1>2, <3>1
  <2>2. IsFiniteSet(S \ {r}) /\ Cardinality(S \ {r}) = Cardinality(S) - 1
    BY <1>1, <1>5, FS_RemoveElement
  <2>3. IsFiniteSet(M) /\ Cardinality(M) <= Cardinality(L \cup {s})
    BY <1>5, <2>1, FS_Subset
  <2>4. Cardinality(T) <= Cardinality(S \ {r})
    BY <1>5, <2>2, FS_Subset
  <2>5. Cardinality(M) \in Nat /\ Cardinality(L \cup {s}) \in Nat
    BY <2>1, <2>3, FS_CardinalityType
  <2> QED
    BY <1>0, <1>2, <2>1, <2>2, <2>3, <2>4, <2>5
<1> QED
  BY <1>3, <1>4, <1>5 DEF Moved

LateMoves(u) ==
    Moved(LateSessions(u), StaleLogins(u), LateSessions(u)', StaleLogins(u)')

LEMMA StaleAreRequests == \A u \in User : StaleLogins(u)' \subseteq Request
BY DEF StaleLogins

LEMMA RevocationMoves ==
    ASSUME AInv, NEW users, NEW r, RevokeSessions(users, r), NEW u \in User
    PROVE  LateMoves(u)
<1>1. AccountsTypeOK
  BY DEF AInv
<1>2. /\ owner' = owner /\ late' = late
      /\ \A s \in Session :
            session'[s] = "open" => session[s] = "open" /\ owner[s] \notin users
      /\ \A q \in Request :
            \/ req'[q].doing = "nothing"
            \/ req'[q] = req[q]
            \/ req'[q] = [req[q] EXCEPT !.stale = TRUE] /\ req[q].user \in users
  <2>1. ASSUME NEW q \in Request
        PROVE  \/ req'[q].doing = "nothing"
               \/ req'[q] = req[q]
               \/ req'[q] = [req[q] EXCEPT !.stale = TRUE] /\ req[q].user \in users
    <3>1. \/ req'[q] = NoRequest
          \/ req'[q] = req[q]
          \/ req'[q] = [req[q] EXCEPT !.stale = TRUE] /\ req[q].user \in users
      BY Zenon DEF RevokeSessions
    <3> QED
      BY <3>1, NoRequestType
  <2> QED
    BY <1>1, <2>1, RevokeEffect
<1>3. CASE u \in users
  BY <1>2, <1>3, StaleAreRequests DEF LateMoves, Moved, LateSessions
<1>4. CASE u \notin users
  <2>1. LateSessions(u)' \subseteq LateSessions(u)
    BY <1>2 DEF LateSessions
  <2>2. ASSUME NEW q \in Request,
               req'[q].doing = "login", req'[q].user = u, req'[q].stale
        PROVE  q \in StaleLogins(u)
    <3>1. req[q] \in Req
      BY <1>1, ReqType
    <3>2. ~(req'[q] = [req[q] EXCEPT !.stale = TRUE] /\ req[q].user \in users)
      BY <1>4, <2>2, <3>1, StaleEffect
    <3>3. req'[q] = req[q]
      BY <1>2, <2>2, <3>2
    <3> QED
      BY <2>2, <3>3 DEF StaleLogins
  <2> QED
    BY <2>1, <2>2 DEF LateMoves, Moved, StaleLogins
<1> QED
  BY <1>3, <1>4

(* A request is answered or begins something that is not stale, and no     *)
(* session becomes open.                                                   *)
LEMMA RequestMoves ==
    ASSUME NEW r \in Request, NEW u \in User, UNCHANGED <<owner, late>>,
           \A s \in Session : session'[s] = "open" => session[s] = "open",
           \A q \in Request : \/ req'[q] = req[q]
                              \/ req'[q].doing # "login"
                              \/ ~req'[q].stale
    PROVE  LateMoves(u)
<1>1. LateSessions(u)' \subseteq LateSessions(u)
  BY DEF LateSessions
<1>2. StaleLogins(u)' \subseteq StaleLogins(u)
  BY DEF StaleLogins
<1> QED
  BY <1>1, <1>2, StaleAreRequests DEF LateMoves, Moved

LEMMA EstablishMoves ==
    ASSUME AInv, NEW r \in Request, NEW s \in Session, EstablishSession(r, s), NEW u \in User
    PROVE  LateMoves(u)
<1>1. /\ AccountsTypeOK /\ req \in [Request -> Req]
  BY ReqType DEF AInv
<1>2. /\ req[r].doing = "login" /\ session[s] = "none"
      /\ session' = [session EXCEPT ![s] = "open"]
      /\ owner' = [owner EXCEPT ![s] = req[r].user]
      /\ late' = [late EXCEPT ![s] = req[r].stale]
      /\ req' = [req EXCEPT ![r] = NoRequest]
  BY DEF EstablishSession, Answer
<1>3. /\ \A q \in Request \ {r} : req'[q] = req[q]
      /\ req'[r].doing = "nothing"
  BY <1>1, <1>2, NoRequestType
<1>4. StaleLogins(u)' \subseteq StaleLogins(u) \ {r}
  BY <1>3 DEF StaleLogins
<1>5. /\ \A t \in Session \ {s} : /\ session'[t] = session[t] /\ owner'[t] = owner[t]
                                 /\ late'[t] = late[t]
      /\ owner'[s] = req[r].user /\ late'[s] = req[r].stale
  BY <1>1, <1>2 DEF AccountsTypeOK
<1>6. LateSessions(u)' \subseteq LateSessions(u) \cup {s}
  BY <1>5 DEF LateSessions
<1>7. CASE r \in StaleLogins(u)
  BY <1>4, <1>6, <1>7, StaleAreRequests DEF LateMoves, Moved
<1>8. CASE r \notin StaleLogins(u)
  <2>1. ~(owner'[s] = u /\ late'[s])
    BY <1>2, <1>5, <1>8 DEF StaleLogins
  <2>2. LateSessions(u)' \subseteq LateSessions(u)
    BY <1>5, <2>1 DEF LateSessions
  <2> QED
    BY <1>4, <2>2, StaleAreRequests DEF LateMoves, Moved
<1> QED
  BY <1>7, <1>8

LEMMA AccountStepMoves ==
    ASSUME AInv, NEW r \in Request, AccountStep(r), NEW u \in User
    PROVE  LateMoves(u)
<1>0. AccountsTypeOK /\ req \in [Request -> Req]
  BY ReqType DEF AInv
<1>1. ASSUME Answer(r) PROVE \A q \in Request : req'[q] = req[q] \/ req'[q].doing # "login"
  BY <1>0, <1>1, AnswerEffect
<1>2. ASSUME NEW v \in User, LoginBegins(r, v), UNCHANGED <<session, owner, late>>
      PROVE  LateMoves(u)
  <2> DEFINE B == [NoRequest EXCEPT !.doing = "login", !.user = v]
  <2>1. req' = [req EXCEPT ![r] = B]
    BY <1>2 DEF LoginBegins
  <2>2. ~B.stale
    BY DEF NoRequest
  <2> HIDE DEF B
  <2>3. \A q \in Request : req'[q] = req[q] \/ ~req'[q].stale
    BY <1>0, <2>1, <2>2
  <2> QED
    BY <1>2, <2>3, RequestMoves
<1>3. ASSUME NEW v \in User, LoginVerifies(r, v) \/ OidcResolves(r, v) PROVE LateMoves(u)
  BY <1>2, <1>3 DEF LoginVerifies, OidcResolves
<1>4. ASSUME NEW v \in User, CreateUser(r, v) \/ EnableUser(r, v) PROVE LateMoves(u)
  <2>1. Answer(r) /\ UNCHANGED <<session, owner, late>>
    BY <1>4 DEF CreateUser, EnableUser
  <2> QED
    BY <1>1, <2>1, RequestMoves
<1>5. ASSUME NEW v \in User,
             DisableUser(r, v) \/ ResetPassword(r, v) \/ RevokeUserSessions(r, v)
             \/ TransferAdmin(r, v)
      PROVE  LateMoves(u)
  <2>1. \E users : RevokeSessions(users, r)
    BY <1>5 DEF DisableUser, ResetPassword, SetPassword, RevokeUserSessions, TransferAdmin
  <2> QED
    BY <2>1, RevocationMoves
<1>6. ASSUME NEW s \in Session, Authenticate(r, s) PROVE LateMoves(u)
  <2> DEFINE H == [doing |-> "handler", user |-> owner[s], session |-> s,
                   role |-> role[owner[s]], local |-> local[owner[s]], stale |-> FALSE]
  <2>1. req' = [req EXCEPT ![r] = H] /\ UNCHANGED <<session, owner, late>>
    BY <1>6 DEF Authenticate
  <2>2. ~H.stale
    OBVIOUS
  <2> HIDE DEF H
  <2>3. \A q \in Request : req'[q] = req[q] \/ ~req'[q].stale
    BY <1>0, <2>1, <2>2
  <2> QED
    BY <2>1, <2>3, RequestMoves
<1>7. CASE Logout(r)
  <2>1. /\ session' = [session EXCEPT ![req[r].session] = "revoked"]
        /\ Answer(r) /\ UNCHANGED <<owner, late>>
    BY <1>7 DEF Logout
  <2>2. \A s \in Session : session'[s] = "open" => session[s] = "open"
    BY <1>0, <2>1 DEF AccountsTypeOK
  <2> QED
    BY <1>1, <2>1, <2>2, RequestMoves
<1>8. CASE ChangePassword(r)
  <2>1. \E users : RevokeSessions(users, r)
    BY <1>8 DEF ChangePassword, SetPassword
  <2> QED
    BY <2>1, RevocationMoves
<1>9. CASE RequestEnds(r)
  <2>1. Answer(r) /\ UNCHANGED <<session, owner, late>>
    BY <1>9 DEF RequestEnds
  <2> QED
    BY <1>1, <2>1, RequestMoves
<1> QED
  BY <1>3, <1>4, <1>5, <1>6, <1>7, <1>8, <1>9, EstablishMoves DEF AccountStep

LEMMA LateStep == AInv /\ LateInv /\ [AccountsNext]_accountVars => LateInv'
<1> SUFFICES ASSUME AInv, LateInv, [AccountsNext]_accountVars, NEW u \in User
             PROVE  Few(LateSessions(u), StaleLogins(u))'
  BY DEF LateInv
<1>1. LateMoves(u)
  <2>1. CASE UNCHANGED <<session, owner, late, req>>
    BY <2>1 DEF LateMoves, Moved, LateSessions, StaleLogins
  <2>2. ASSUME NEW v \in User, ResetAsks(v) PROVE UNCHANGED <<session, owner, late, req>>
    BY <2>2 DEF ResetAsks
  <2>3. CASE ResetQuits \/ UNCHANGED accountVars
    BY <2>1, <2>3 DEF ResetQuits, accountVars
  <2>4. CASE ResetSets
    <3>1. RevokeSessions({prompt}, None)
      BY <2>4 DEF ResetSets, SetPassword
    <3> QED
      BY <3>1, RevocationMoves
  <2> QED
    BY <2>1, <2>2, <2>3, <2>4, AccountStepMoves DEF AccountsNext
<1>2. Few(LateSessions(u), StaleLogins(u))
  BY DEF LateInv
<1> QED
  BY <1>1, <1>2, FewStayFew DEF LateMoves

(* After a revocation, a change of password say, a user has no more open   *)
(* sessions from before it than there were logins in progress.             *)
THEOREM FewSessionsAreLate == AccountsSpec => []LateSessionsBounded
<1>1. AccountsInit => LateInv
  <2> SUFFICES ASSUME AccountsInit, NEW u \in User
               PROVE  Few(LateSessions(u), StaleLogins(u))
    BY DEF LateInv
  <2>1. LateSessions(u) = {} /\ StaleLogins(u) = {}
    BY NoRequestType DEF AccountsInit, LateSessions, StaleLogins
  <2> QED
    BY <2>1, FS_EmptySet, FS_CardinalityType, AccountsAssumption DEF Few
<1>2. AInv /\ LateInv /\ [AccountsNext]_accountVars => LateInv'
  BY LateStep
<1>3. AInv /\ LateInv => LateSessionsBounded
  <2> SUFFICES ASSUME LateInv, NEW u \in User
               PROVE  Cardinality(LateSessions(u)) <= Cardinality(Request)
    BY DEF LateSessionsBounded
  <2>1. Few(LateSessions(u), StaleLogins(u)) /\ IsFiniteSet(StaleLogins(u))
    BY AccountsAssumption, FS_Subset DEF LateInv, Few
  <2>2. /\ Cardinality(LateSessions(u)) \in Nat /\ Cardinality(StaleLogins(u)) \in Nat
        /\ Cardinality(Request) \in Nat
    BY <2>1, FS_CardinalityType, AccountsAssumption DEF Few
  <2> QED
    BY <2>1, <2>2 DEF Few
<1> QED
  BY <1>1, <1>2, <1>3, InvAlways, PTL DEF AccountsSpec

-----------------------------------------------------------------------------
(* SHARES                                                                  *)

(* A request that has read a share is a handler of shares: only such steps *)
(* of the accounts are taken with it that Accounts allows.                 *)
ReadersHandle ==
    \A r \in Request : reading[r] # NoReading => Handles(r) /\ reading[r].share \in Share

SInv == AInv /\ SharesTypeOK /\ ReadersHandle

(* A step of one request leaves what the others are doing as it is.        *)
LEMMA RevocationOfOthers ==
    ASSUME NEW users, NEW r, RevokeSessions(users, r),
           req \in [Request -> Req], NEW q \in Request, q # r
    PROVE  req'[q].doing = req[q].doing
<1>1. req'[q] = req[q] \/ req'[q] = [req[q] EXCEPT !.stale = TRUE]
  BY Zenon DEF RevokeSessions
<1>2. req[q] \in Req
  OBVIOUS
<1>3. QED
  BY <1>1, <1>2, StaleEffect, Zenon

LEMMA OthersGoOn ==
    ASSUME AInv, NEW r \in Request, AccountStep(r), NEW q \in Request, q # r
    PROVE  req'[q].doing = req[q].doing
<1>1. req \in [Request -> Req]
  BY ReqType DEF AInv
<1>2. ASSUME NEW users, RevokeSessions(users, r)
      PROVE  req'[q].doing = req[q].doing
  BY <1>1, <1>2, RevocationOfOthers
<1>3. ASSUME NEW x, req' = [req EXCEPT ![r] = x]
      PROVE  req'[q].doing = req[q].doing
  BY <1>1, <1>3
<1>4. ASSUME NEW u \in User,
             \/ DisableUser(r, u) \/ ResetPassword(r, u)
             \/ RevokeUserSessions(r, u) \/ TransferAdmin(r, u)
      PROVE  req'[q].doing = req[q].doing
  BY <1>2, <1>4 DEF DisableUser, ResetPassword, SetPassword, RevokeUserSessions, TransferAdmin
<1>5. ASSUME NEW u \in User,
             \/ LoginVerifies(r, u) \/ OidcResolves(r, u)
             \/ CreateUser(r, u) \/ EnableUser(r, u)
      PROVE  req'[q].doing = req[q].doing
  BY <1>3, <1>5 DEF LoginVerifies, OidcResolves, LoginBegins, CreateUser, EnableUser, Answer
<1>6. ASSUME NEW s \in Session, EstablishSession(r, s) \/ Authenticate(r, s)
      PROVE  req'[q].doing = req[q].doing
  BY <1>3, <1>6 DEF EstablishSession, Authenticate, Answer
<1>7. CASE Logout(r) \/ RequestEnds(r)
  BY <1>3, <1>7 DEF Logout, RequestEnds, Answer
<1>8. CASE ChangePassword(r)
  BY <1>2, <1>8 DEF ChangePassword, SetPassword
<1>9. QED
  BY <1>4, <1>5, <1>6, <1>7, <1>8 DEF AccountStep

-----------------------------------------------------------------------------
(* What a step of a share's handler does to the accounts: it answers.      *)
LEMMA ShareStepEnds ==
    ASSUME SInv, NEW r \in Request, ShareStep(r)
    PROVE  /\ RequestEnds(r) \/ UNCHANGED accountVars
           /\ \A q \in Request : req'[q].doing = req[q].doing \/ reading'[q] = NoReading
<1>1. req \in [Request -> Req]
  BY ReqType DEF SInv, AInv
<1>2. ASSUME AnswerShare(r), Handles(r)
      PROVE  /\ RequestEnds(r)
             /\ \A q \in Request : req'[q].doing = req[q].doing \/ reading'[q] = NoReading
  <2>1. req[r] # NoRequest
    BY <1>2, NoRequestType DEF Handles
  <2>2. RequestEnds(r)
    BY <1>2, <2>1 DEF AnswerShare, RequestEnds
  <2>3. ASSUME NEW q \in Request
        PROVE  req'[q].doing = req[q].doing \/ reading'[q] = NoReading
    BY <1>1, <1>2 DEF AnswerShare, Answer, SInv, SharesTypeOK
  <2>4. QED
    BY <2>2, <2>3
<1>3. ASSUME NEW h \in Share, CreateShare(r, h)
      PROVE  AnswerShare(r) /\ Handles(r)
  BY <1>3 DEF CreateShare
<1>4. ASSUME NEW h \in Share, ShareByID(r, h)
      PROVE  UNCHANGED accountVars /\ UNCHANGED req
  BY <1>4 DEF ShareByID, accountVars
<1>5. ASSUME NEW disabled \in BOOLEAN, UpdateShare(r, disabled)
      PROVE  AnswerShare(r) /\ Handles(r)
  BY <1>5 DEF UpdateShare, SInv, ReadersHandle
<1>6. CASE DisableShare(r)
  <2>1. AnswerShare(r) /\ Handles(r)
    BY <1>6 DEF DisableShare, SInv, ReadersHandle
  <2>2. QED
    BY <1>2, <2>1
<1>7. CASE RequestEnds(r) /\ AnswerShare(r)
  <2>1. ASSUME NEW q \in Request
        PROVE  req'[q].doing = req[q].doing \/ reading'[q] = NoReading
    BY <1>1, <1>7 DEF AnswerShare, Answer, SInv, SharesTypeOK
  <2>2. QED
    BY <1>7, <2>1
<1>8. QED
  BY <1>2, <1>3, <1>4, <1>5, <1>6, <1>7 DEF ShareStep

(* Every step of Shares is one of Accounts, or leaves the accounts alone.  *)
LEMMA AccountsSimulated ==
    ASSUME SInv, [SharesNext]_allVars
    PROVE  [AccountsNext]_accountVars
<1>1. ASSUME NEW r \in Request, ShareStep(r)
      PROVE  [AccountsNext]_accountVars
  BY <1>1, ShareStepEnds DEF AccountsNext, AccountStep
<1>2. ASSUME NEW r \in Request, AccountStep(r)
      PROVE  [AccountsNext]_accountVars
  BY <1>2 DEF AccountsNext
<1>3. CASE (\E u \in User : ResetAsks(u)) \/ ResetSets \/ ResetQuits
  BY <1>3 DEF AccountsNext
<1>4. CASE UNCHANGED allVars
  BY <1>4 DEF allVars
<1>5. QED
  BY <1>1, <1>2, <1>3, <1>4 DEF SharesNext

-----------------------------------------------------------------------------
LEMMA SharesInitInv == SharesInit => SInv
<1> SUFFICES ASSUME SharesInit PROVE SInv
  OBVIOUS
<1>1. AInv
  BY InitInv DEF SharesInit
<1>2. SharesTypeOK /\ ReadersHandle
  BY DEF SharesInit, SharesTypeOK, ReadersHandle, NoReading
<1>3. QED
  BY <1>1, <1>2 DEF SInv

(* Answering a request forgets what it had read.                           *)
LEMMA AnswerShareTypes ==
    ASSUME SharesTypeOK, NEW r \in Request, AnswerShare(r)
    PROVE  /\ reading' \in [Request -> [share : Share \cup {None}, disabled : BOOLEAN]]
           /\ \A q \in Request : reading'[q] = NoReading \/ reading'[q] = reading[q]
BY DEF SharesTypeOK, AnswerShare, NoReading

LEMMA ShareStepKeeps ==
    ASSUME SInv, NEW r \in Request, ShareStep(r)
    PROVE  SharesTypeOK' /\ ReadersHandle'
<1>a. SharesTypeOK /\ req \in [Request -> Req]
  BY ReqType DEF SInv, AInv
<1>b. \A q \in Request : req'[q].doing = req[q].doing \/ reading'[q] = NoReading
  BY ShareStepEnds
<1>c. ASSUME AnswerShare(r)
      PROVE  /\ reading' \in [Request -> [share : Share \cup {None}, disabled : BOOLEAN]]
             /\ ReadersHandle'
  <2>1. /\ reading' \in [Request -> [share : Share \cup {None}, disabled : BOOLEAN]]
        /\ \A q \in Request : reading'[q] = NoReading \/ reading'[q] = reading[q]
    BY <1>a, <1>c, AnswerShareTypes
  <2>2. ReadersHandle'
    BY <1>b, <2>1 DEF SInv, ReadersHandle, Handles
  <2>3. QED
    BY <2>1, <2>2
<1>1. ASSUME NEW h \in Share, CreateShare(r, h)
      PROVE  SharesTypeOK' /\ ReadersHandle'
  <2>1. req[r].user \in User
    BY <1>1 DEF CreateShare, Handles, SInv, AInv, RequestsHaveUsers
  <2>2. AnswerShare(r)
    BY <1>1 DEF CreateShare
  <2>3. SharesTypeOK'
    BY <1>a, <1>c, <1>1, <2>1, <2>2 DEF CreateShare, SharesTypeOK
  <2>4. QED
    BY <1>c, <2>2, <2>3
<1>2. ASSUME NEW h \in Share, ShareByID(r, h)
      PROVE  SharesTypeOK' /\ ReadersHandle'
  <2> DEFINE R == [share |-> h, disabled |-> share[h] = "revoked"]
  <2>1. R \in [share : Share \cup {None}, disabled : BOOLEAN] /\ R.share = h
    OBVIOUS
  <2>2. /\ Handles(r) /\ reading' = [reading EXCEPT ![r] = R]
        /\ UNCHANGED <<req, share, creator>>
    BY <1>2 DEF ShareByID, accountVars
  <2> HIDE DEF R
  <2>3. SharesTypeOK'
    BY <1>a, <2>1, <2>2 DEF SharesTypeOK
  <2>4. ReadersHandle'
    BY <1>a, <2>1, <2>2 DEF SInv, SharesTypeOK, ReadersHandle, Handles
  <2>5. QED
    BY <2>3, <2>4
<1>3. ASSUME NEW disabled \in BOOLEAN, UpdateShare(r, disabled)
      PROVE  SharesTypeOK' /\ ReadersHandle'
  <2>1. AnswerShare(r)
    BY <1>3 DEF UpdateShare
  <2>2. SharesTypeOK'
    BY <1>a, <1>c, <1>3, <2>1 DEF UpdateShare, SharesTypeOK
  <2>3. QED
    BY <1>c, <2>1, <2>2
<1>4. CASE DisableShare(r)
  <2>1. AnswerShare(r)
    BY <1>4 DEF DisableShare
  <2>2. SharesTypeOK'
    BY <1>a, <1>c, <1>4, <2>1 DEF DisableShare, SharesTypeOK
  <2>3. QED
    BY <1>c, <2>1, <2>2
<1>5. CASE AnswerShare(r) /\ UNCHANGED <<share, creator>>
  BY <1>a, <1>c, <1>5 DEF SharesTypeOK
<1>6. QED
  BY <1>1, <1>2, <1>3, <1>4, <1>5 DEF ShareStep

LEMMA SharesStepKeeps == SInv /\ [SharesNext]_allVars => SInv'
<1> SUFFICES ASSUME SInv, [SharesNext]_allVars PROVE SInv'
  OBVIOUS
<1>1. AInv'
  BY AccountsSimulated, StepKeeps DEF SInv
<1> SUFFICES SharesTypeOK' /\ ReadersHandle'
  BY <1>1 DEF SInv
<1>2. ASSUME UNCHANGED <<share, creator, reading>>,
             \A q \in Request : reading[q] # NoReading => req'[q].doing = req[q].doing
      PROVE  SharesTypeOK' /\ ReadersHandle'
  BY <1>2 DEF SInv, SharesTypeOK, ReadersHandle, Handles
<1>3. ASSUME NEW r \in Request, ShareStep(r)
      PROVE  SharesTypeOK' /\ ReadersHandle'
  BY <1>3, ShareStepKeeps
<1>4. ASSUME NEW r \in Request, reading[r] = NoReading, AccountStep(r), UNCHANGED <<share, creator, reading>>
      PROVE  SharesTypeOK' /\ ReadersHandle'
  BY <1>2, <1>4, OthersGoOn DEF SInv
<1>5. ASSUME UNCHANGED <<req, share, creator, reading>>
      PROVE  SharesTypeOK' /\ ReadersHandle'
  BY <1>2, <1>5
<1>6. CASE ((\E u \in User : ResetAsks(u)) \/ ResetQuits) /\ UNCHANGED shareVars
  BY <1>5, <1>6 DEF ResetAsks, ResetQuits, shareVars
<1>7. CASE ResetSets /\ UNCHANGED shareVars
  <2>1. RevokeSessions({prompt}, None)
    BY <1>7 DEF ResetSets, SetPassword
  <2>2. \A q \in Request : req'[q].doing = req[q].doing
    BY <2>1, RevocationOfOthers, ReqType, AccountsAssumption DEF SInv, AInv
  <2>3. QED
    BY <1>2, <1>7, <2>2 DEF shareVars
<1>8. CASE UNCHANGED allVars
  BY <1>5, <1>8 DEF allVars, accountVars, shareVars
<1>9. QED
  BY <1>3, <1>4, <1>6, <1>7, <1>8 DEF SharesNext, shareVars

LEMMA SharesInvAlways == SharesSpec => []SInv
<1>1. SharesInit => SInv
  BY SharesInitInv
<1>2. SInv /\ [SharesNext]_allVars => SInv'
  BY SharesStepKeeps
<1>3. QED
  BY <1>1, <1>2, PTL DEF SharesSpec

-----------------------------------------------------------------------------
(* Shares hold what the columns admit, for any number of them.             *)
THEOREM SharesTypeCorrect == SharesSpec => []SharesTypeOK
<1>1. SInv => SharesTypeOK
  BY DEF SInv
<1>2. QED
  BY <1>1, SharesInvAlways, PTL

(* The handlers of shares add nothing to the accounts: what is proved of   *)
(* Accounts holds with them.                                               *)
THEOREM SharesImplementAccounts == SharesSpec => AccountsSpec
<1>1. SharesInit => AccountsInit
  BY DEF SharesInit
<1>2. SInv /\ [SharesNext]_allVars => [AccountsNext]_accountVars
  BY AccountsSimulated
<1>3. QED
  BY <1>1, <1>2, SharesInvAlways, PTL DEF SharesSpec, AccountsSpec

(* A revoked share is only restored by an updateShare that read it before  *)
(* it was revoked: the one way in which revoking is not final.             *)
THEOREM RestoredOnlyByOldReads == SharesSpec => RevokedUnlessRead
<1>1. SInv /\ [SharesNext]_allVars => [RestoredByOldRead]_allVars
  <2> SUFFICES ASSUME SInv, [SharesNext]_allVars,
                      NEW h \in Share, share[h] = "revoked", share'[h] # "revoked"
               PROVE  \E r \in Request : reading[r] = [share |-> h, disabled |-> FALSE]
    BY DEF RestoredByOldRead
  <2>1. SharesTypeOK
    BY DEF SInv
  <2>2. PICK r \in Request : ShareStep(r)
    BY DEF SharesNext, shareVars, allVars
  <2>3. ~(\E k \in Share : CreateShare(r, k))
    BY <2>1 DEF CreateShare, SharesTypeOK
  <2>4. ~(\E k \in Share : ShareByID(r, k)) /\ ~UNCHANGED share
    BY DEF ShareByID
  <2>5. ~DisableShare(r)
    BY <2>1 DEF DisableShare, SharesTypeOK
  <2>6. PICK disabled \in BOOLEAN : UpdateShare(r, disabled)
    BY <2>2, <2>3, <2>4, <2>5 DEF ShareStep
  <2>7. reading[r].share = h /\ reading[r].disabled = FALSE
    BY <2>1, <2>6 DEF UpdateShare, SharesTypeOK
  <2>8. reading[r] = [share |-> h, disabled |-> FALSE]
    BY <2>1, <2>7 DEF SharesTypeOK
  <2>9. QED
    BY <2>8
<1>2. QED
  BY <1>1, SharesInvAlways, PTL DEF SharesSpec, RevokedUnlessRead
=============================================================================
