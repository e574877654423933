------------------------------- MODULE MCParts -------------------------------
(***************************************************************************)
(* Model-checking instance of the parts that share no variable with each   *)
(* other or with the rest: login through a provider, the rights of         *)
(* requests, init, ranges, ascli and the browser's upload manager.  A      *)
(* behaviour is a behaviour of one of them, the others stand still in one  *)
(* of their initial states; see MCParts.cfg.                               *)
(***************************************************************************)
EXTENDS Oidc, Access, InitCommand, Ranges, Ascli, UploadManager, TLC

CONSTANTS pa, pb,    \* projects
    second       \* a request
VARIABLE part

partVars == <<part, oidcVars, accessVars, commandVars, rangesVars, asclVars, managerVars>>

(* A key for one project, and one for all projects.                        *)
MCPolicy ==
    {[scopes |-> {"projects:read", "files:read", "files:write"}, all |-> FALSE,
      projects |-> {pa}],
     [scopes |-> {"projects:create", "projects:read", "files:read"}, all |-> TRUE,
      projects |-> {}]}

(* One request changes something for the administrator or for the owner of *)
(* a key, the other does anything.  files:delete is decided as files:write *)
(* is; the second project matters to listings and to the range of a key.   *)
Changing == {"members", "users", "keys", "projects:delete"}
MCWish ==
    [r \in Asker |-> {w \in Wishes :
        /\ w[1] # "files:delete"
        /\ w[2] = pb => w[1] \in {"projects:list", "files:write"}
        /\ r = second => w[1] \in Changing}]

PartsInit ==
    /\ part \in {"oidc", "access", "init", "ranges", "ascli", "manager"}
    /\ OidcInit
    /\ AccessInit
    /\ part # "access" => /\ project = [p \in Project |-> "active"]
                          /\ apiKey = [k \in Key |-> NoAPIKey]
    /\ CommandInit
    /\ part # "init" => verb = [c \in Command |-> "init"]
    /\ RangesInit
    /\ part # "ranges" => versions = <<0>>
    /\ AscliInit
    /\ part # "ascli" => overwrite = {} /\ shared = [n \in Entry |-> Absent]
    /\ ManagerInit

PartsNext ==
    \/ /\ part = "oidc" /\ OidcNext
       /\ UNCHANGED <<part, accessVars, commandVars, rangesVars, asclVars, managerVars>>
    \/ /\ part = "access" /\ AccessNext
       /\ UNCHANGED <<part, oidcVars, commandVars, rangesVars, asclVars, managerVars>>
    \/ /\ part = "init" /\ CommandNext
       /\ UNCHANGED <<part, oidcVars, accessVars, rangesVars, asclVars, managerVars>>
    \/ /\ part = "ranges" /\ RangesNext
       /\ UNCHANGED <<part, oidcVars, accessVars, commandVars, asclVars, managerVars>>
    \/ /\ part = "ascli" /\ AscliNext
       /\ UNCHANGED <<part, oidcVars, accessVars, commandVars, rangesVars, managerVars>>
    \/ /\ part = "manager" /\ ManagerNext
       /\ UNCHANGED <<part, oidcVars, accessVars, commandVars, rangesVars, asclVars>>

PartsSpec == PartsInit /\ [][PartsNext]_partVars

-----------------------------------------------------------------------------
(* Two requests at a time are about the first project, and not the same    *)
(* operation twice, except on keys.                                        *)
Depending == {"files:write", "projects:list", "projects:create"}

AskersMatter ==
    (\A r \in Asker : ask[r].phase # "idle") =>
        /\ project[pb] = "none"
        /\ ask[second].op = "keys" \/ \A r \in Asker \ {second} : ask[r].op # ask[second].op
        /\ \A r \in Asker :
            /\ ask[r].op \in Changing \cup Depending
            /\ ask[r].on # pb
            /\ ask[r].op \in Changing \ {"keys"} => ask[r].user = Root
            /\ ask[r].op \in Depending \cup {"keys"} => ask[r].user # Root

(* One run of ascli with two changes to the share or the directory; or two *)
(* runs, with a change if they have planned no more than one file each.    *)
Started(q) == run[q].phase # "list" \/ run[q].left # Entry
AscliBounds ==
    (\A q \in Process : Started(q)) =>
        \/ changes = 0
        \/ changes = 1 /\ \A q \in Process : Cardinality(Planned(q)) <= 1

PartsBounds == AskersMatter /\ AscliBounds

(* Sets of different parts share model values, hence their permutations.   *)
Symm == Permutations(Process) \cup Permutations(Entry) \cup Permutations(Path)
=============================================================================
