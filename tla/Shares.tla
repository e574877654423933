------------------------------- MODULE Shares -------------------------------
(***************************************************************************)
(* Creating, changing and revoking public shares.  The handlers of shares  *)
(* run in the authenticated requests of Accounts: they read the share and  *)
(* compare its creator with the user of the request, and write it in a     *)
(* statement of its own, after the body of the request was decoded.        *)
(*                                                                         *)
(* Expiry times are written back like the disabled flag and are left out;  *)
(* so is the permission on the nodes a new share points to.  What visitors *)
(* of a share do changes nothing but the rate limit (RateLimit).           *)
(***************************************************************************)
EXTENDS Accounts

CONSTANT Share       \* shares.id

ASSUME SharesAssumption == None \notin Share

VARIABLES
    share,       \* "none" before the row exists, disabled_at IS NULL, or not
    creator,     \* shares.created_by
    reading      \* the share a request has read, and whether it was disabled

shareVars == <<share, creator, reading>>
allVars == <<accountVars, shareVars>>

NoReading == [share |-> None, disabled |-> FALSE]

SharesTypeOK ==
    /\ share \in [Share -> {"none", "open", "revoked"}]
    /\ creator \in [Share -> User \cup {None}]
    /\ reading \in [Request -> [share : Share \cup {None}, disabled : BOOLEAN]]

SharesInit ==
    /\ AccountsInit
    /\ share = [h \in Share |-> "none"]
    /\ creator = [h \in Share |-> None]
    /\ reading = [r \in Request |-> NoReading]

-----------------------------------------------------------------------------
(* The handler of a share answers: only req changes in the accounts.       *)
AnswerShare(r) ==
    /\ Answer(r)
    /\ reading' = [reading EXCEPT ![r] = NoReading]
    /\ UNCHANGED <<userVars, session, owner, late, prompt>>

(* Mutant: the share keeps the flag of its row as a status.                *)
CreateShareDisabledAt(r, h) ==
    /\ Handles(r)
    /\ share' = [share EXCEPT ![h] = "active"]
    /\ creator' = [creator EXCEPT ![h] = req[r].user]
    /\ AnswerShare(r)

CreateShare(r, h) ==
    /\ Handles(r)
    /\ reading[r] = NoReading
    /\ share[h] = "none"
    /\ share' = [share EXCEPT ![h] = "open"]
    /\ creator' = [creator EXCEPT ![h] = req[r].user]
    /\ AnswerShare(r)

(* updateShare and deleteShare begin alike.                                *)
ShareByID(r, h) ==
    /\ Handles(r)
    /\ reading[r] = NoReading
    /\ share[h] # "none"
    /\ req[r].role = "admin" \/ creator[h] = req[r].user
    /\ reading' = [reading EXCEPT ![r] = [share |-> h, disabled |-> share[h] = "revoked"]]
    /\ UNCHANGED <<accountVars, share, creator>>

(* Mutant: the flag is written as the request has it.                      *)
UpdateShareAsAsked(r, disabled) ==
    /\ reading[r] # NoReading
    /\ share' = [share EXCEPT ![reading[r].share] = IF disabled THEN "revoked" ELSE "open"]
    /\ UNCHANGED creator
    /\ AnswerShare(r)

(* The flag read, or TRUE if the request says so, is written; a body that  *)
(* says FALSE or nothing leaves it as it was read.                         *)
UpdateShare(r, disabled) ==
    /\ reading[r] # NoReading
    /\ share' = [share EXCEPT ![reading[r].share] =
                    IF reading[r].disabled \/ disabled THEN "revoked" ELSE "open"]
    /\ UNCHANGED creator
    /\ AnswerShare(r)

(* DisableShare finds the row still enabled; if not, the answer is 404.    *)
DisableShare(r) ==
    /\ reading[r] # NoReading
    /\ share[reading[r].share] = "open"
    /\ share' = [share EXCEPT ![reading[r].share] = "revoked"]
    /\ UNCHANGED creator
    /\ AnswerShare(r)

-----------------------------------------------------------------------------
ShareStep(r) ==
    \/ \E h \in Share : CreateShare(r, h) \/ ShareByID(r, h)
    \/ \E disabled \in BOOLEAN : UpdateShare(r, disabled)
    \/ DisableShare(r)
    \/ RequestEnds(r) /\ AnswerShare(r) /\ UNCHANGED <<share, creator>>

(* A request runs one handler: of a share, or one of Accounts.             *)
SharesNext ==
    \/ \E r \in Request : ShareStep(r)
    \/ \E r \in Request :
          reading[r] = NoReading /\ AccountStep(r) /\ UNCHANGED shareVars
    \/ /\ (\E u \in User : ResetAsks(u)) \/ ResetSets \/ ResetQuits
       /\ UNCHANGED shareVars

SharesSpec == SharesInit /\ [][SharesNext]_allVars

-----------------------------------------------------------------------------
(* SAFETY                                                                  *)

(* docs/api.md, shares: a revoked share cannot be restored.                *)
RevokedStays == \A h \in Share : share[h] = "revoked" => share'[h] = "revoked"
RevokedStaysRevoked == [][RevokedStays]_allVars

(* What the code does keep: a share is only restored by an updateShare     *)
(* that read it before it was revoked, so not by one that begins later.    *)
RestoredByOldRead ==
    \A h \in Share :
        share[h] = "revoked" /\ share'[h] # "revoked" =>
            \E r \in Request : reading[r] = [share |-> h, disabled |-> FALSE]
RevokedUnlessRead == [][RestoredByOldRead]_allVars
=============================================================================
