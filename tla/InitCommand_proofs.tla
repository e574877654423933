------------------------- MODULE InitCommand_proofs -------------------------
(***************************************************************************)
(* Proofs about altasci-server init, for any number of commands: a         *)
(* database is initialized at most once, and kept once it is, as long as   *)
(* inits do not overlap.                                                   *)
(***************************************************************************)
EXTENDS InitCommand, TLAPS

Early == {"none", "statted", "found", "loaded"}
Opened == {"opened", "inspected", "keyless", "writing", "keyed"}
Undoing == {"undo", "undo key"}
Steps == Early \cup Opened \cup Undoing \cup {"succeeded", "failed", "crashed"}

CommandTypeOK ==
    /\ file \in Command \cup {"none"}
    /\ content \in [Command -> {"none", "empty", "initialized"}]
    /\ key \in [by : Command \cup {"none"}, whole : BOOLEAN]
    /\ step \in [Command -> Steps]
    /\ existed \in SUBSET Command
    /\ made \in SUBSET Command
    /\ handle \in [Command -> Command \cup {"none"}]
    /\ overlapped \in BOOLEAN

(* A command that has opened no database has created none.                 *)
FilesAreOpened == \A c \in Command : content[c] # "none" => step[c] \notin Early

(* What only init does is done by an init.                                 *)
StepsOfInit == \A c \in Command : step[c] \in {"statted"} \cup Opened \cup Undoing => c \in Inits

HandlesAreOpen == \A c \in Command : step[c] \in Opened => handle[c] \in Command

(* An init that succeeded has initialized the database it had open.        *)
SuccessInitializes ==
    \A c \in Inits : step[c] = "succeeded" =>
        handle[c] \in Command /\ content[handle[c]] = "initialized"

OInv == /\ CommandTypeOK /\ FilesAreOpened /\ StepsOfInit /\ HandlesAreOpen
        /\ SuccessInitializes /\ OneInitPerDatabase

Active(c) == c \in Inits /\ step[c] \notin Over
NothingInitialized == \A c \in Command : content[c] # "initialized"

MadeHasBegun == \A c \in made : step[c] # "none"

(* As long as inits do not overlap, there is one at a time, and            *)
OneAtATime == \A c, d \in Command : Active(c) /\ Active(d) => c = d

(* what it found, opened and made is still there,                          *)
FilesAreItsOwn ==
    \A c \in Command : Active(c) =>
        /\ step[c] \in Opened => file = handle[c]
        /\ step[c] = "writing" => key.by = c
        /\ step[c] = "keyed" => key.whole

(* and where it may remove something, nothing was initialized.             *)
RemovesNothingNeeded ==
    \A c \in Command : Active(c) /\ (c \notin existed \/ c \in made \/ step[c] = "writing") =>
        NothingInitialized

KInv == /\ OInv /\ MadeHasBegun
        /\ ~overlapped => OneAtATime /\ FilesAreItsOwn /\ RemovesNothingNeeded
        /\ InitializedIsKept
-----------------------------------------------------------------------------
USE DEF Inits, Early, Opened, Undoing

LEMMA InitO == CommandInit => OInv
<1> SUFFICES ASSUME CommandInit PROVE OInv
  OBVIOUS
<1> USE DEF CommandInit, NoKey
<1>1. CommandTypeOK
  BY DEF CommandTypeOK, Steps
<1>2. FilesAreOpened /\ StepsOfInit /\ HandlesAreOpen
  BY DEF FilesAreOpened, StepsOfInit, HandlesAreOpen
<1>3. SuccessInitializes /\ OneInitPerDatabase
  BY DEF SuccessInitializes, OneInitPerDatabase
<1> QED
  BY <1>1, <1>2, <1>3 DEF OInv

(* A step keeps the types.                                                 *)
LEMMA StepTypes ==
    ASSUME CommandTypeOK, NEW c \in Command, CommandStep(c)
    PROVE  CommandTypeOK'
<1> USE DEF CommandTypeOK, Steps, Reaches, files, marks, Exists, OpensDatabase, NoKey
<1>1. CASE StatDatabase(c)
  BY <1>1 DEF StatDatabase
<1>2. CASE OpenDatabase(c)
  BY <1>2 DEF OpenDatabase
<1>3. CASE IsInitialized(c)
  BY <1>3 DEF IsInitialized
<1>4. CASE StatKey(c)
  BY <1>4 DEF StatKey
<1>5. CASE CreateKeyFile(c)
  <2>1. [by |-> c, whole |-> FALSE] \in [by : Command \cup {"none"}, whole : BOOLEAN]
    OBVIOUS
  <2>2. key' \in [by : Command \cup {"none"}, whole : BOOLEAN]
    BY <1>5, <2>1 DEF CreateKeyFile
  <2>3. step' \in [Command -> Steps]
    BY <1>5 DEF CreateKeyFile
  <2> QED
    BY <1>5, <2>2, <2>3 DEF CreateKeyFile
<1>6. CASE WriteKey(c)
  BY <1>6 DEF WriteKey
<1>7. CASE Initialize(c)
  BY <1>7 DEF Initialize
<1>8. CASE InitFails(c)
  BY <1>8 DEF InitFails
<1>9. CASE UndoDatabase(c)
  BY <1>9 DEF UndoDatabase
<1>10. CASE UndoKey(c)
  BY <1>10 DEF UndoKey
<1>11. CASE Crash(c)
  BY <1>11 DEF Crash
<1>12. CASE ServeChecks(c)
  BY <1>12 DEF ServeChecks
<1>13. CASE CommandOpens(c)
  BY <1>13 DEF CommandOpens
<1> QED
  BY <1>1, <1>2, <1>3, <1>4, <1>5, <1>6, <1>7, <1>8, <1>9, <1>10, <1>11, <1>12, <1>13 DEF CommandStep

(* A step changes where one command is, the database that command creates  *)
(* or initializes, and nothing that is initialized.                        *)
LEMMA StepFiles ==
    ASSUME CommandTypeOK, FilesAreOpened, StepsOfInit, NEW c \in Command, CommandStep(c)
    PROVE  FilesAreOpened' /\ StepsOfInit'
<1> USE DEF CommandTypeOK, FilesAreOpened, StepsOfInit, Reaches, files, marks, Exists,
            OpensDatabase, Over
<1>1. CASE StatDatabase(c)
  BY <1>1 DEF StatDatabase
<1>2. CASE OpenDatabase(c)
  BY <1>2 DEF OpenDatabase
<1>3. CASE IsInitialized(c)
  BY <1>3 DEF IsInitialized
<1>4. CASE StatKey(c)
  BY <1>4 DEF StatKey
<1>5. CASE CreateKeyFile(c)
  BY <1>5 DEF CreateKeyFile
<1>6. CASE WriteKey(c)
  BY <1>6 DEF WriteKey
<1>7. CASE Initialize(c)
  BY <1>7 DEF Initialize
<1>8. CASE InitFails(c)
  BY <1>8 DEF InitFails
<1>9. CASE UndoDatabase(c)
  BY <1>9 DEF UndoDatabase
<1>10. CASE UndoKey(c)
  BY <1>10 DEF UndoKey
<1>11. CASE Crash(c)
  BY <1>11 DEF Crash
<1>12. CASE ServeChecks(c)
  BY <1>12 DEF ServeChecks
<1>13. CASE CommandOpens(c)
  BY <1>13 DEF CommandOpens
<1> QED
  BY <1>1, <1>2, <1>3, <1>4, <1>5, <1>6, <1>7, <1>8, <1>9, <1>10, <1>11, <1>12, <1>13 DEF CommandStep

LEMMA StepHandles ==
    ASSUME CommandTypeOK, HandlesAreOpen, NEW c \in Command, CommandStep(c)
    PROVE  HandlesAreOpen'
<1> USE DEF CommandTypeOK, HandlesAreOpen, Reaches, files, marks, Exists, OpensDatabase, Over
<1>1. CASE StatDatabase(c)
  BY <1>1 DEF StatDatabase
<1>2. CASE OpenDatabase(c)
  BY <1>2 DEF OpenDatabase
<1>3. CASE IsInitialized(c)
  BY <1>3 DEF IsInitialized
<1>4. CASE StatKey(c)
  BY <1>4 DEF StatKey
<1>5. CASE CreateKeyFile(c)
  BY <1>5 DEF CreateKeyFile
<1>6. CASE WriteKey(c)
  BY <1>6 DEF WriteKey
<1>7. CASE Initialize(c)
  BY <1>7 DEF Initialize
<1>8. CASE InitFails(c)
  BY <1>8 DEF InitFails
<1>9. CASE UndoDatabase(c)
  BY <1>9 DEF UndoDatabase
<1>10. CASE UndoKey(c)
  BY <1>10 DEF UndoKey
<1>11. CASE Crash(c)
  BY <1>11 DEF Crash
<1>12. CASE ServeChecks(c)
  BY <1>12 DEF ServeChecks
<1>13. CASE CommandOpens(c)
  BY <1>13 DEF CommandOpens
<1> QED
  BY <1>1, <1>2, <1>3, <1>4, <1>5, <1>6, <1>7, <1>8, <1>9, <1>10, <1>11, <1>12, <1>13 DEF CommandStep

LEMMA StepSuccess ==
    ASSUME OInv, NEW c \in Command, CommandStep(c)
    PROVE  SuccessInitializes' /\ OneInitPerDatabase'
<1> USE DEF OInv, CommandTypeOK, FilesAreOpened, HandlesAreOpen, SuccessInitializes,
            OneInitPerDatabase, Reaches, files, marks, Exists, OpensDatabase, Over
<1>1. CASE StatDatabase(c)
  BY <1>1 DEF StatDatabase
<1>2. CASE OpenDatabase(c)
  BY <1>2 DEF OpenDatabase
<1>3. CASE IsInitialized(c)
  BY <1>3 DEF IsInitialized
<1>4. CASE StatKey(c)
  BY <1>4 DEF StatKey
<1>5. CASE CreateKeyFile(c)
  BY <1>5 DEF CreateKeyFile
<1>6. CASE WriteKey(c)
  BY <1>6 DEF WriteKey
<1>7. CASE Initialize(c)
  BY <1>7 DEF Initialize
<1>8. CASE InitFails(c)
  BY <1>8 DEF InitFails
<1>9. CASE UndoDatabase(c)
  BY <1>9 DEF UndoDatabase
<1>10. CASE UndoKey(c)
  BY <1>10 DEF UndoKey
<1>11. CASE Crash(c)
  BY <1>11 DEF Crash
<1>12. CASE ServeChecks(c)
  BY <1>12 DEF ServeChecks
<1>13. CASE CommandOpens(c)
  BY <1>13 DEF CommandOpens
<1> QED
  BY <1>1, <1>2, <1>3, <1>4, <1>5, <1>6, <1>7, <1>8, <1>9, <1>10, <1>11, <1>12, <1>13 DEF CommandStep

(* A step that is no init's first step sees no overlap that was not there. *)
LEMMA StepOverlap ==
    ASSUME CommandTypeOK, StepsOfInit, NEW c \in Command, CommandStep(c), ~overlapped'
    PROVE  ~overlapped
<1> USE DEF CommandTypeOK
<1>1. CASE StatDatabase(c)
  BY <1>1 DEF StatDatabase
<1>2. CASE OpenDatabase(c)
  BY <1>2 DEF OpenDatabase
<1>3. CASE IsInitialized(c)
  BY <1>3 DEF IsInitialized
<1>4. CASE StatKey(c)
  BY <1>4 DEF StatKey
<1>5. CASE CreateKeyFile(c)
  BY <1>5 DEF CreateKeyFile
<1>6. CASE WriteKey(c)
  BY <1>6 DEF WriteKey
<1>7. CASE Initialize(c)
  BY <1>7 DEF Initialize
<1>8. CASE InitFails(c)
  BY <1>8 DEF InitFails
<1>9. CASE UndoDatabase(c)
  BY <1>9 DEF UndoDatabase
<1>10. CASE UndoKey(c)
  BY <1>10 DEF UndoKey
<1>11. CASE Crash(c)
  BY <1>11 DEF Crash
<1>12. CASE ServeChecks(c)
  BY <1>12 DEF ServeChecks
<1>13. CASE CommandOpens(c)
  BY <1>13 DEF CommandOpens
<1> QED
  BY <1>1, <1>2, <1>3, <1>4, <1>5, <1>6, <1>7, <1>8, <1>9, <1>10, <1>11, <1>12, <1>13 DEF CommandStep

LEMMA StepMade ==
    ASSUME CommandTypeOK, MadeHasBegun, NEW c \in Command, CommandStep(c)
    PROVE  MadeHasBegun'
<1> USE DEF CommandTypeOK, MadeHasBegun, Reaches, files, marks, OpensDatabase
<1>1. CASE StatDatabase(c)
  BY <1>1 DEF StatDatabase
<1>2. CASE OpenDatabase(c)
  BY <1>2 DEF OpenDatabase
<1>3. CASE IsInitialized(c)
  BY <1>3 DEF IsInitialized
<1>4. CASE StatKey(c)
  BY <1>4 DEF StatKey
<1>5. CASE CreateKeyFile(c)
  BY <1>5 DEF CreateKeyFile
<1>6. CASE WriteKey(c)
  BY <1>6 DEF WriteKey
<1>7. CASE Initialize(c)
  BY <1>7 DEF Initialize
<1>8. CASE InitFails(c)
  BY <1>8 DEF InitFails
<1>9. CASE UndoDatabase(c)
  BY <1>9 DEF UndoDatabase
<1>10. CASE UndoKey(c)
  BY <1>10 DEF UndoKey
<1>11. CASE Crash(c)
  BY <1>11 DEF Crash
<1>12. CASE ServeChecks(c)
  BY <1>12 DEF ServeChecks
<1>13. CASE CommandOpens(c)
  BY <1>13 DEF CommandOpens
<1> QED
  BY <1>1, <1>2, <1>3, <1>4, <1>5, <1>6, <1>7, <1>8, <1>9, <1>10, <1>11, <1>12, <1>13 DEF CommandStep

LEMMA StepOne ==
    ASSUME CommandTypeOK, StepsOfInit, OneAtATime, NEW c \in Command, CommandStep(c),
           ~overlapped'
    PROVE  OneAtATime'
<1> USE DEF CommandTypeOK, StepsOfInit, OneAtATime, Active, Reaches, files, marks, OpensDatabase, Over
<1>1. CASE StatDatabase(c)
  BY <1>1 DEF StatDatabase
<1>2. CASE OpenDatabase(c)
  BY <1>2 DEF OpenDatabase
<1>3. CASE IsInitialized(c)
  BY <1>3 DEF IsInitialized
<1>4. CASE StatKey(c)
  BY <1>4 DEF StatKey
<1>5. CASE CreateKeyFile(c)
  BY <1>5 DEF CreateKeyFile
<1>6. CASE WriteKey(c)
  BY <1>6 DEF WriteKey
<1>7. CASE Initialize(c)
  BY <1>7 DEF Initialize
<1>8. CASE InitFails(c)
  BY <1>8 DEF InitFails
<1>9. CASE UndoDatabase(c)
  BY <1>9 DEF UndoDatabase
<1>10. CASE UndoKey(c)
  BY <1>10 DEF UndoKey
<1>11. CASE Crash(c)
  BY <1>11 DEF Crash
<1>12. CASE ServeChecks(c)
  BY <1>12 DEF ServeChecks
<1>13. CASE CommandOpens(c)
  BY <1>13 DEF CommandOpens
<1> QED
  BY <1>1, <1>2, <1>3, <1>4, <1>5, <1>6, <1>7, <1>8, <1>9, <1>10, <1>11, <1>12, <1>13 DEF CommandStep

(* A step changes the position and the handle of one command.              *)
LEMMA StepIsLocal ==
    ASSUME CommandTypeOK, NEW c \in Command, CommandStep(c)
    PROVE  /\ verb' = verb
           /\ \A d \in Command \ {c} : step'[d] = step[d] /\ handle'[d] = handle[d]
<1> USE DEF CommandTypeOK, Reaches, files, marks, OpensDatabase
<1>1. CASE StatDatabase(c)
  BY <1>1 DEF StatDatabase
<1>2. CASE OpenDatabase(c)
  BY <1>2 DEF OpenDatabase
<1>3. CASE IsInitialized(c)
  BY <1>3 DEF IsInitialized
<1>4. CASE StatKey(c)
  BY <1>4 DEF StatKey
<1>5. CASE CreateKeyFile(c)
  BY <1>5 DEF CreateKeyFile
<1>6. CASE WriteKey(c)
  BY <1>6 DEF WriteKey
<1>7. CASE Initialize(c)
  BY <1>7 DEF Initialize
<1>8. CASE InitFails(c)
  BY <1>8 DEF InitFails
<1>9. CASE UndoDatabase(c)
  BY <1>9 DEF UndoDatabase
<1>10. CASE UndoKey(c)
  BY <1>10 DEF UndoKey
<1>11. CASE Crash(c)
  BY <1>11 DEF Crash
<1>12. CASE ServeChecks(c)
  BY <1>12 DEF ServeChecks
<1>13. CASE CommandOpens(c)
  BY <1>13 DEF CommandOpens
<1> QED
  BY <1>1, <1>2, <1>3, <1>4, <1>5, <1>6, <1>7, <1>8, <1>9, <1>10, <1>11, <1>12, <1>13 DEF CommandStep

(* While an init is at work, the others that take a step are no inits.     *)
LEMMA OthersServe ==
    ASSUME CommandTypeOK, StepsOfInit, OneAtATime, NEW c \in Command, CommandStep(c),
           ~overlapped', NEW d \in Command \ {c}, Active(d)'
    PROVE  Active(d) /\ (ServeChecks(c) \/ CommandOpens(c) \/ Crash(c))
<1>1. Active(d)
  BY StepIsLocal DEF Active
<1>2. ~Active(c)
  BY <1>1 DEF OneAtATime
<1>3. ~StatDatabase(c)
  BY <1>1 DEF StatDatabase, Active, CommandTypeOK
<1>4. step[c] \notin {"statted"} \cup Opened \cup Undoing
  BY <1>2 DEF StepsOfInit, Active, Over
<1> QED
  BY <1>1, <1>3, <1>4 DEF CommandStep, OpenDatabase, IsInitialized, StatKey, CreateKeyFile,
     WriteKey, Initialize, InitFails, UndoDatabase, UndoKey

LEMMA StepOwn ==
    ASSUME KInv, NEW c \in Command, CommandStep(c), ~overlapped'
    PROVE  FilesAreItsOwn'
<1>a. /\ CommandTypeOK /\ StepsOfInit /\ HandlesAreOpen /\ OneAtATime /\ FilesAreItsOwn
      /\ ~overlapped
  BY StepOverlap DEF KInv, OInv
<1> SUFFICES ASSUME NEW d \in Command, Active(d)'
             PROVE  (/\ step[d] \in Opened => file = handle[d]
                     /\ step[d] = "writing" => key.by = d
                     /\ step[d] = "keyed" => key.whole)'
  BY DEF FilesAreItsOwn
<1>1. CASE d # c
  <2>1. Active(d) /\ (ServeChecks(c) \/ CommandOpens(c) \/ Crash(c))
    BY <1>1, <1>a, OthersServe
  <2>2. step'[d] = step[d] /\ handle'[d] = handle[d]
    BY <1>1, <1>a, StepIsLocal
  <2>3. key' = key
    BY <2>1 DEF ServeChecks, CommandOpens, Crash, files
  <2>4. step[d] \in Opened => file' = file
    BY <2>1, <1>a, CommandAssumption DEF ServeChecks, CommandOpens, Crash, files, OpensDatabase,
       Exists, FilesAreItsOwn, HandlesAreOpen
  <2> QED
    BY <2>1, <2>2, <2>3, <2>4, <1>a DEF FilesAreItsOwn
<1>2. CASE d = c
  <2> USE <1>2 DEF CommandTypeOK, Active, Reaches
  <2>1. CASE StatDatabase(c)
    BY <2>1, <1>a DEF StatDatabase, Over, files, marks, OpensDatabase, FilesAreItsOwn, NoKey, Exists
  <2>2. CASE OpenDatabase(c)
    BY <2>2, <1>a DEF OpenDatabase, Over, files, marks, OpensDatabase, FilesAreItsOwn, NoKey, Exists
  <2>3. CASE IsInitialized(c)
    BY <2>3, <1>a DEF IsInitialized, Over, files, marks, OpensDatabase, FilesAreItsOwn, NoKey, Exists
  <2>4. CASE StatKey(c)
    BY <2>4, <1>a DEF StatKey, Over, files, marks, OpensDatabase, FilesAreItsOwn, NoKey, Exists
  <2>5. CASE CreateKeyFile(c)
    BY <2>5, <1>a DEF CreateKeyFile, Over, files, marks, OpensDatabase, FilesAreItsOwn, NoKey, Exists
  <2>6. CASE WriteKey(c)
    BY <2>6, <1>a DEF WriteKey, Over, files, marks, OpensDatabase, FilesAreItsOwn, NoKey, Exists
  <2>7. CASE Initialize(c)
    BY <2>7, <1>a DEF Initialize, Over, files, marks, OpensDatabase, FilesAreItsOwn, NoKey, Exists
  <2>8. CASE InitFails(c)
    BY <2>8, <1>a DEF InitFails, Over, files, marks, OpensDatabase, FilesAreItsOwn, NoKey, Exists
  <2>9. CASE UndoDatabase(c)
    BY <2>9, <1>a DEF UndoDatabase, Over, files, marks, OpensDatabase, FilesAreItsOwn, NoKey, Exists
  <2>10. CASE UndoKey(c)
    BY <2>10, <1>a DEF UndoKey, Over, files, marks, OpensDatabase, FilesAreItsOwn, NoKey, Exists
  <2>11. CASE Crash(c)
    BY <2>11, <1>a DEF Crash, Over, files, marks, OpensDatabase, FilesAreItsOwn, NoKey, Exists
  <2>12. CASE ServeChecks(c)
    BY <2>12, <1>a DEF ServeChecks, Over, files, marks, OpensDatabase, FilesAreItsOwn, NoKey, Exists
  <2>13. CASE CommandOpens(c)
    BY <2>13, <1>a DEF CommandOpens, Over, files, marks, OpensDatabase, FilesAreItsOwn, NoKey, Exists
  <2> QED
    BY <2>1, <2>2, <2>3, <2>4, <2>5, <2>6, <2>7, <2>8, <2>9, <2>10, <2>11, <2>12, <2>13 DEF CommandStep
<1> QED
  BY <1>1, <1>2

LEMMA StepNeeded ==
    ASSUME KInv, NEW c \in Command, CommandStep(c), ~overlapped'
    PROVE  RemovesNothingNeeded'
<1>a. /\ CommandTypeOK /\ StepsOfInit /\ MadeHasBegun /\ OneAtATime /\ RemovesNothingNeeded
      /\ InitializedIsKept /\ ~overlapped
  BY StepOverlap DEF KInv, OInv
<1> SUFFICES ASSUME NEW d \in Command, Active(d)',
                    (d \notin existed \/ d \in made \/ step[d] = "writing")'
             PROVE  NothingInitialized'
  BY DEF RemovesNothingNeeded
<1>1. CASE d # c
  <2>1. Active(d) /\ (ServeChecks(c) \/ CommandOpens(c) \/ Crash(c))
    BY <1>1, <1>a, OthersServe
  <2>2. step'[d] = step[d]
    BY <1>1, <1>a, StepIsLocal
  <2>3. existed' = existed /\ made' = made
    BY <2>1 DEF ServeChecks, CommandOpens, Crash, marks
  <2>4. NothingInitialized
    BY <2>1, <2>2, <2>3, <1>a DEF RemovesNothingNeeded
  <2> QED
    BY <2>1, <2>4, <1>a DEF ServeChecks, CommandOpens, Crash, files, OpensDatabase,
       NothingInitialized, CommandTypeOK
<1>2. CASE d = c
  <2> USE <1>2, CommandAssumption DEF CommandTypeOK, Active, Reaches
  <2>1. CASE StatDatabase(c)
    BY <2>1, <1>a DEF StatDatabase, Over, files, marks, OpensDatabase, RemovesNothingNeeded, NothingInitialized, InitializedIsKept, MadeHasBegun, NoKey, Exists
  <2>2. CASE OpenDatabase(c)
    BY <2>2, <1>a DEF OpenDatabase, Over, files, marks, OpensDatabase, RemovesNothingNeeded, NothingInitialized, InitializedIsKept, MadeHasBegun, NoKey, Exists
  <2>3. CASE IsInitialized(c)
    BY <2>3, <1>a DEF IsInitialized, Over, files, marks, OpensDatabase, RemovesNothingNeeded, NothingInitialized, InitializedIsKept, MadeHasBegun, NoKey, Exists
  <2>4. CASE StatKey(c)
    BY <2>4, <1>a DEF StatKey, Over, files, marks, OpensDatabase, RemovesNothingNeeded, NothingInitialized, InitializedIsKept, MadeHasBegun, NoKey, Exists
  <2>5. CASE CreateKeyFile(c)
    BY <2>5, <1>a DEF CreateKeyFile, Over, files, marks, OpensDatabase, RemovesNothingNeeded, NothingInitialized, InitializedIsKept, MadeHasBegun, NoKey, Exists
  <2>6. CASE WriteKey(c)
    BY <2>6, <1>a DEF WriteKey, Over, files, marks, OpensDatabase, RemovesNothingNeeded, NothingInitialized, InitializedIsKept, MadeHasBegun, NoKey, Exists
  <2>7. CASE Initialize(c)
    BY <2>7, <1>a DEF Initialize, Over, files, marks, OpensDatabase, RemovesNothingNeeded, NothingInitialized, InitializedIsKept, MadeHasBegun, NoKey, Exists
  <2>8. CASE InitFails(c)
    BY <2>8, <1>a DEF InitFails, Over, files, marks, OpensDatabase, RemovesNothingNeeded, NothingInitialized, InitializedIsKept, MadeHasBegun, NoKey, Exists
  <2>9. CASE UndoDatabase(c)
    BY <2>9, <1>a DEF UndoDatabase, Over, files, marks, OpensDatabase, RemovesNothingNeeded, NothingInitialized, InitializedIsKept, MadeHasBegun, NoKey, Exists
  <2>10. CASE UndoKey(c)
    BY <2>10, <1>a DEF UndoKey, Over, files, marks, OpensDatabase, RemovesNothingNeeded, NothingInitialized, InitializedIsKept, MadeHasBegun, NoKey, Exists
  <2>11. CASE Crash(c)
    BY <2>11, <1>a DEF Crash, Over, files, marks, OpensDatabase, RemovesNothingNeeded, NothingInitialized, InitializedIsKept, MadeHasBegun, NoKey, Exists
  <2>12. CASE ServeChecks(c)
    BY <2>12, <1>a DEF ServeChecks, Over, files, marks, OpensDatabase, RemovesNothingNeeded, NothingInitialized, InitializedIsKept, MadeHasBegun, NoKey, Exists
  <2>13. CASE CommandOpens(c)
    BY <2>13, <1>a DEF CommandOpens, Over, files, marks, OpensDatabase, RemovesNothingNeeded, NothingInitialized, InitializedIsKept, MadeHasBegun, NoKey, Exists
  <2> QED
    BY <2>1, <2>2, <2>3, <2>4, <2>5, <2>6, <2>7, <2>8, <2>9, <2>10, <2>11, <2>12, <2>13 DEF CommandStep
<1> QED
  BY <1>1, <1>2

LEMMA StepKept ==
    ASSUME KInv, NEW c \in Command, CommandStep(c), ~overlapped'
    PROVE  InitializedIsKept'
<1>a. /\ CommandTypeOK /\ StepsOfInit /\ HandlesAreOpen /\ FilesAreItsOwn
      /\ RemovesNothingNeeded /\ InitializedIsKept /\ ~overlapped
  BY StepOverlap DEF KInv, OInv
<1> USE CommandAssumption DEF CommandTypeOK, InitializedIsKept
<1>1. CASE StatDatabase(c)
  BY <1>1, <1>a DEF StatDatabase, files, OpensDatabase, FilesAreItsOwn, HandlesAreOpen, StepsOfInit, Active, Over, RemovesNothingNeeded, NothingInitialized, NoKey, Exists
<1>2. CASE OpenDatabase(c)
  <2>1. key' = key
    BY <1>2 DEF OpenDatabase
  <2>2. CASE Exists
    BY <1>2, <1>a, <2>1, <2>2 DEF OpenDatabase, OpensDatabase
  <2>3. CASE ~Exists
    <3>1. \A d \in Command : content[d] # "initialized"
      BY <1>a, <2>3 DEF Exists
    <3>2. content' = [content EXCEPT ![c] = "empty"]
      BY <1>2, <2>3 DEF OpenDatabase, OpensDatabase
    <3> QED
      BY <3>1, <3>2
  <2> QED
    BY <2>2, <2>3
<1>3. CASE IsInitialized(c)
  BY <1>3, <1>a DEF IsInitialized, files, OpensDatabase, FilesAreItsOwn, HandlesAreOpen, StepsOfInit, Active, Over, RemovesNothingNeeded, NothingInitialized, NoKey, Exists
<1>4. CASE StatKey(c)
  BY <1>4, <1>a DEF StatKey, files, OpensDatabase, FilesAreItsOwn, HandlesAreOpen, StepsOfInit, Active, Over, RemovesNothingNeeded, NothingInitialized, NoKey, Exists
<1>5. CASE CreateKeyFile(c)
  <2>1. file' = file /\ content' = content
    BY <1>5 DEF CreateKeyFile
  <2>2. CASE key = NoKey
    <3>1. \A d \in Command : content[d] # "initialized"
      BY <1>a, <2>2 DEF NoKey
    <3> QED
      BY <2>1, <3>1
  <2>3. CASE key # NoKey
    BY <1>5, <1>a, <2>1, <2>3 DEF CreateKeyFile
  <2> QED
    BY <2>2, <2>3
<1>6. CASE WriteKey(c)
  BY <1>6, <1>a DEF WriteKey, files, OpensDatabase, FilesAreItsOwn, HandlesAreOpen, StepsOfInit, Active, Over, RemovesNothingNeeded, NothingInitialized, NoKey, Exists
<1>7. CASE Initialize(c)
  BY <1>7, <1>a DEF Initialize, files, OpensDatabase, FilesAreItsOwn, HandlesAreOpen, StepsOfInit, Active, Over, RemovesNothingNeeded, NothingInitialized, NoKey, Exists
<1>8. CASE InitFails(c)
  BY <1>8, <1>a DEF InitFails, files, OpensDatabase, FilesAreItsOwn, HandlesAreOpen, StepsOfInit, Active, Over, RemovesNothingNeeded, NothingInitialized, NoKey, Exists
<1>9. CASE UndoDatabase(c)
  BY <1>9, <1>a DEF UndoDatabase, files, OpensDatabase, FilesAreItsOwn, HandlesAreOpen, StepsOfInit, Active, Over, RemovesNothingNeeded, NothingInitialized, NoKey, Exists
<1>10. CASE UndoKey(c)
  BY <1>10, <1>a DEF UndoKey, files, OpensDatabase, FilesAreItsOwn, HandlesAreOpen, StepsOfInit, Active, Over, RemovesNothingNeeded, NothingInitialized, NoKey, Exists
<1>11. CASE Crash(c)
  BY <1>11, <1>a DEF Crash, files, OpensDatabase, FilesAreItsOwn, HandlesAreOpen, StepsOfInit, Active, Over, RemovesNothingNeeded, NothingInitialized, NoKey, Exists
<1>12. CASE ServeChecks(c)
  BY <1>12, <1>a DEF ServeChecks, files, OpensDatabase, FilesAreItsOwn, HandlesAreOpen, StepsOfInit, Active, Over, RemovesNothingNeeded, NothingInitialized, NoKey, Exists
<1>13. CASE CommandOpens(c)
  <2>1. key' = key
    BY <1>13 DEF CommandOpens
  <2>2. CASE Exists
    BY <1>13, <1>a, <2>1, <2>2 DEF CommandOpens, OpensDatabase
  <2>3. CASE ~Exists
    <3>1. \A d \in Command : content[d] # "initialized"
      BY <1>a, <2>3 DEF Exists
    <3>2. content' = [content EXCEPT ![c] = "empty"]
      BY <1>13, <2>3 DEF CommandOpens, OpensDatabase
    <3> QED
      BY <3>1, <3>2
  <2> QED
    BY <2>2, <2>3
<1> QED
  BY <1>1, <1>2, <1>3, <1>4, <1>5, <1>6, <1>7, <1>8, <1>9, <1>10, <1>11, <1>12, <1>13 DEF CommandStep

-----------------------------------------------------------------------------
LEMMA StepO ==
    ASSUME OInv, [CommandNext]_commandVars
    PROVE  OInv'
<1>1. CASE UNCHANGED commandVars
  BY <1>1 DEF OInv, CommandTypeOK, FilesAreOpened, StepsOfInit, HandlesAreOpen,
     SuccessInitializes, OneInitPerDatabase, commandVars, files, marks
<1>2. ASSUME NEW c \in Command, CommandStep(c) PROVE OInv'
  BY <1>2, StepTypes, StepFiles, StepHandles, StepSuccess DEF OInv
<1> QED
  BY <1>1, <1>2 DEF CommandNext

(* A database is initialized, and gets an administrator, by one init only, *)
(* also when several run at the same time: the transaction that inserts    *)
(* them asks first whether there are any.                                  *)
THEOREM OneAdministratorPerDatabase == CommandSpec => []OneInitPerDatabase
<1>1. CommandInit => OInv
  BY InitO
<1>2. OInv /\ [CommandNext]_commandVars => OInv'
  BY StepO
<1>3. OInv => OneInitPerDatabase
  BY DEF OInv
<1> QED
  BY <1>1, <1>2, <1>3, PTL DEF CommandSpec

LEMMA InitK == CommandInit => KInv
<1> SUFFICES ASSUME CommandInit PROVE KInv
  OBVIOUS
<1>1. OInv
  BY InitO
<1>2. MadeHasBegun /\ InitializedIsKept /\ RemovesNothingNeeded
  BY DEF CommandInit, MadeHasBegun, InitializedIsKept, RemovesNothingNeeded, NothingInitialized
<1>3. OneAtATime /\ FilesAreItsOwn
  BY DEF CommandInit, OneAtATime, FilesAreItsOwn, Active, Over
<1> QED
  BY <1>1, <1>2, <1>3 DEF KInv

LEMMA StepK ==
    ASSUME KInv, [CommandNext]_commandVars
    PROVE  KInv'
<1>1. CASE UNCHANGED commandVars
  <2>1. OInv'
    BY <1>1, StepO DEF KInv
  <2>2. MadeHasBegun' /\ InitializedIsKept'
    BY <1>1 DEF KInv, MadeHasBegun, InitializedIsKept, commandVars, files, marks
  <2>3. ~overlapped' => (OneAtATime /\ FilesAreItsOwn /\ RemovesNothingNeeded)'
    BY <1>1 DEF KInv, OneAtATime, FilesAreItsOwn, RemovesNothingNeeded, NothingInitialized,
       Active, commandVars, files, marks
  <2> QED
    BY <2>1, <2>2, <2>3 DEF KInv
<1>2. ASSUME NEW c \in Command, CommandStep(c) PROVE KInv'
  <2>1. OInv' /\ MadeHasBegun'
    BY <1>2, StepO, StepMade DEF KInv, OInv, CommandNext
  <2>2. CASE ~overlapped'
    <3>1. ~overlapped
      BY <1>2, <2>2, StepOverlap DEF KInv, OInv
    <3>2. OneAtATime'
      BY <1>2, <2>2, <3>1, StepOne DEF KInv, OInv
    <3> QED
      BY <1>2, <2>1, <2>2, <3>2, StepOwn, StepNeeded, StepKept DEF KInv
  <2>3. CASE overlapped'
    BY <2>1, <2>3 DEF KInv, InitializedIsKept
  <2> QED
    BY <2>2, <2>3
<1> QED
  BY <1>1, <1>2 DEF CommandNext

(* As long as inits run one at a time, a database that was initialized     *)
(* stays, with a whole key: what an init removes when it fails is never    *)
(* something that was in use.                                              *)
THEOREM InitializedDatabasesAreKept == CommandSpec => []InitializedIsKept
<1>1. CommandInit => KInv
  BY InitK
<1>2. KInv /\ [CommandNext]_commandVars => KInv'
  BY StepK
<1>3. KInv => InitializedIsKept
  BY DEF KInv
<1> QED
  BY <1>1, <1>2, <1>3, PTL DEF CommandSpec
=============================================================================
