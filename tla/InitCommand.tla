---------------------------- MODULE InitCommand -----------------------------
(***************************************************************************)
(* altasci-server init, the files it makes, and the other commands that    *)
(* open them.  init creates the database, the master key and the           *)
(* administrator one after the other, and takes back what it created if it *)
(* does not get to the end; it may be run again, crash anywhere, or run    *)
(* twice at a time.                                                        *)
(*                                                                         *)
(* A database file is named after the command that created it, so that one *)
(* removed while it is open differs from the next under its name.          *)
(***************************************************************************)
EXTENDS Naturals, FiniteSets

CONSTANT Command     \* invocations of the server's commands

ASSUME CommandAssumption == "none" \notin Command

VARIABLES
    file,         \* the file at database.path, "none" if there is none
    content,      \* of each database file: "none", "empty" or "initialized"
    key,          \* the file at security.master_key_file
    verb,         \* init, serve or admin-reset-password
    step,         \* how far each command is
    existed,      \* commands that found a database (databaseExisted)
    made,         \* commands that made the key (masterKeyCreated)
    handle,       \* the database a command has open
    overlapped    \* two inits were under way at the same time

files == <<file, content, key>>
marks == <<existed, made, handle>>
commandVars == <<files, marks, verb, step, overlapped>>

NoKey == [by |-> "none", whole |-> FALSE]

CommandInit ==
    /\ file = "none"
    /\ content = [c \in Command |-> "none"]
    /\ key = NoKey
    /\ verb \in [Command -> {"init", "serve", "admin-reset-password"}]
    /\ step = [c \in Command |-> "none"]
    /\ existed = {} /\ made = {}
    /\ handle = [c \in Command |-> "none"]
    /\ overlapped = FALSE

-----------------------------------------------------------------------------
Reaches(c, next) == step' = [step EXCEPT ![c] = next]
Over == {"none", "succeeded", "failed", "crashed"}
Inits == {c \in Command : verb[c] = "init"}
Exists == file # "none"

(* openConfigured: SQLite creates the file if there is none; the           *)
(* migrations leave it without users and settings.                         *)
OpensDatabase(c) ==
    /\ IF Exists
       THEN UNCHANGED <<file, content>>
       ELSE file' = c /\ content' = [content EXCEPT ![c] = "empty"]
    /\ handle' = [handle EXCEPT ![c] = file']

-----------------------------------------------------------------------------
(* INIT.  Its first step is the stat that comes after the password.        *)
StatDatabase(c) ==
    /\ c \in Inits /\ step[c] = "none"
    /\ existed' = IF Exists THEN existed \cup {c} ELSE existed
    /\ overlapped' = (overlapped \/ \E d \in Inits : step[d] \notin Over)
    /\ Reaches(c, "statted")
    /\ UNCHANGED <<files, made, handle, verb>>

OpenDatabase(c) ==
    /\ c \in Inits /\ step[c] = "statted"
    /\ OpensDatabase(c)
    /\ Reaches(c, "opened")
    /\ UNCHANGED <<key, existed, made, verb, overlapped>>

(* "database is already initialized; init can only run once"               *)
IsInitialized(c) ==
    /\ c \in Inits /\ step[c] = "opened"
    /\ Reaches(c, IF content[handle[c]] = "initialized" THEN "undo" ELSE "inspected")
    /\ UNCHANGED <<files, marks, verb, overlapped>>

(* Mutant: a key file that exists is not read.                             *)
StatKeyUnread(c) ==
    /\ c \in Inits /\ step[c] = "inspected"
    /\ Reaches(c, IF key = NoKey THEN "keyless" ELSE "keyed")
    /\ UNCHANGED <<files, marks, verb, overlapped>>

(* A key that exists must load.                                            *)
StatKey(c) ==
    /\ c \in Inits /\ step[c] = "inspected"
    /\ Reaches(c, CASE key = NoKey -> "keyless"
                    [] key.whole -> "keyed"
                    [] OTHER -> "undo")
    /\ UNCHANGED <<files, marks, verb, overlapped>>

(* CreateMasterKey: the file is created, exclusively, and then written.    *)
CreateKeyFile(c) ==
    /\ step[c] = "keyless"
    /\ IF key = NoKey
       THEN key' = [by |-> c, whole |-> FALSE] /\ Reaches(c, "writing")
       ELSE Reaches(c, "undo") /\ UNCHANGED key
    /\ UNCHANGED <<file, content, marks, verb, overlapped>>

WriteKey(c) ==
    /\ step[c] = "writing"
    /\ key' = IF key.by = c THEN [key EXCEPT !.whole = TRUE] ELSE key
    /\ made' = made \cup {c}
    /\ Reaches(c, "keyed")
    /\ UNCHANGED <<file, content, existed, handle, verb, overlapped>>

(* Mutant: whether there are users and settings is not asked again.        *)
InitializeAgain(c) ==
    /\ step[c] = "keyed"
    /\ content' = [content EXCEPT ![handle[c]] = "initialized"]
    /\ Reaches(c, "succeeded")
    /\ UNCHANGED <<file, key, marks, verb, overlapped>>

(* One transaction, in the file that is open, counts users and settings    *)
(* and inserts the administrator and the settings.                         *)
Initialize(c) ==
    /\ step[c] = "keyed"
    /\ IF content[handle[c]] = "empty"
       THEN /\ content' = [content EXCEPT ![handle[c]] = "initialized"]
            /\ Reaches(c, "succeeded")
       ELSE Reaches(c, "undo") /\ UNCHANGED content
    /\ UNCHANGED <<file, key, marks, verb, overlapped>>

(* Any call may fail; the key file of a write that failed is not "made".   *)
InitFails(c) ==
    /\ step[c] \in {"statted", "opened", "inspected", "keyless", "writing", "keyed"}
    /\ Reaches(c, "undo")
    /\ UNCHANGED <<files, marks, verb, overlapped>>

(* The deferred clean-up removes what is at the paths by then.             *)
UndoDatabase(c) ==
    /\ step[c] = "undo"
    /\ file' = IF c \in existed THEN file ELSE "none"
    /\ Reaches(c, "undo key")
    /\ UNCHANGED <<content, key, marks, verb, overlapped>>

UndoKey(c) ==
    /\ step[c] = "undo key"
    /\ key' = IF c \in made THEN NoKey ELSE key
    /\ Reaches(c, "failed")
    /\ UNCHANGED <<file, content, marks, verb, overlapped>>

Crash(c) ==
    /\ step[c] \notin Over
    /\ Reaches(c, "crashed")
    /\ UNCHANGED <<files, marks, verb, overlapped>>

-----------------------------------------------------------------------------
(* THE OTHER COMMANDS.  serve wants database and key before it opens the   *)
(* database; admin-reset-password opens it at once.                        *)
ServeChecks(c) ==
    /\ verb[c] = "serve"
    /\ \/ step[c] = "none" /\ Exists /\ Reaches(c, "found")
       \/ step[c] = "found" /\ key.whole /\ Reaches(c, "loaded")
    /\ UNCHANGED <<files, marks, verb, overlapped>>

CommandOpens(c) ==
    /\ \/ verb[c] = "serve" /\ step[c] = "loaded"
       \/ verb[c] = "admin-reset-password" /\ step[c] = "none"
    /\ OpensDatabase(c)
    /\ Reaches(c, IF content'[file'] = "initialized" THEN "succeeded" ELSE "failed")
    /\ UNCHANGED <<key, existed, made, verb, overlapped>>

CommandStep(c) ==
    \/ StatDatabase(c) \/ OpenDatabase(c) \/ IsInitialized(c) \/ StatKey(c)
    \/ CreateKeyFile(c) \/ WriteKey(c) \/ Initialize(c) \/ InitFails(c)
    \/ UndoDatabase(c) \/ UndoKey(c) \/ Crash(c)
    \/ ServeChecks(c) \/ CommandOpens(c)

CommandNext == \E c \in Command : CommandStep(c)
CommandSpec == CommandInit /\ [][CommandNext]_commandVars

-----------------------------------------------------------------------------
(* SAFETY                                                                  *)

(* docs/docker.md:18: as long as inits run one at a time, a database that  *)
(* was initialized stays where it is, with a whole key beside it, through  *)
(* crashes, failures, clean-ups and repeated runs.  (Two at a time may     *)
(* lose it: the one that fails removes what it did not find at its start.) *)
InitializedIsKept ==
    ~overlapped =>
        \A c \in Command : content[c] = "initialized" => file = c /\ key.whole

(* Also with two inits at a time, a database gets one administrator.       *)
OneInitPerDatabase ==
    \A c, d \in Inits :
        step[c] = "succeeded" /\ step[d] = "succeeded" /\ handle[c] = handle[d]
        => c = d
=============================================================================
