------------------------ MODULE PersistentUpload_proofs ------------------------
(***************************************************************************)
(* Theorem about the persistent upload, for any number of files.           *)
(***************************************************************************)
EXTENDS PersistentUpload, TLAPS

Contents == {"absent", "part", "whole"}

AtFile == {"write", "close", "add"}   \* the task is not through with its file

UploadTypes ==
    /\ persist_max \in Nat /\ persist_max <= MaxFiles
    /\ sequenceIndex \in Nat
    /\ timer \in AtFile \cup {"off", "armed", "lock", "dead"}
    /\ disk \in [Files -> Contents] /\ sent \in [Files -> Contents]
    /\ queue \subseteq 1..persist_max /\ unwritten \subseteq 1..persist_max

(* Where the two threads may be: the timer starts last, and while the task *)
(* is at work there is a file for it.                                      *)
PlaceInv ==
    /\ main \in {"start", "schedule"} => timer = "off"
    /\ main \in {"start", "schedule", "waiting"} => verdict = "none"
    /\ main = "waiting" => timer # "off"
    /\ timer = "off" => sequenceIndex = 0
    /\ timer \in AtFile \cup {"lock"} => 0 < sequenceIndex /\ sequenceIndex <= persist_max
    /\ timer = "lock" => sequenceIndex = persist_max

Passed(f) == f < sequenceIndex \/ (f = sequenceIndex /\ timer \notin AtFile)

Settled(f) == f \in queue \cup unwritten

(* Files that were added, or given up, are behind the task, and all files  *)
(* behind a task that has not thrown are one of the two.                   *)
FilesInv ==
    /\ \A f \in queue : Passed(f) /\ f \notin unwritten /\ disk[f] = "whole"
    /\ \A f \in unwritten : Passed(f)
    /\ timer = "add" => disk[sequenceIndex] = "whole"
    /\ \A f \in 1..persist_max :
           f < sequenceIndex \/ (f = sequenceIndex /\ timer \in {"armed", "lock"}) => Settled(f)

(* The lock follows the last file, and a session that completes follows    *)
(* the lock.                                                               *)
LockInv ==
    /\ locked => \A f \in 1..persist_max : Settled(f)
    /\ persist_max \in queue => locked \/ timer \in {"lock", "dead"}

SentInv ==
    /\ \A f \in Files : sent[f] # "absent" => f \in queue /\ sent[f] = "whole"
    /\ session = "completed" => locked /\ \A f \in queue : sent[f] # "absent"
    /\ verdict = "completed" => session = "completed"

UploadInv == UploadTypes /\ PlaceInv /\ FilesInv /\ LockInv /\ SentInv

(* Every step keeps the types: files that are written or added are those   *)
(* of the session.                                                         *)
LEMMA UploadTypesStep ==
    ASSUME UploadTypes, PlaceInv, [UploadNext]_uploadVars
    PROVE  UploadTypes'
<1> USE DEF UploadTypes, PlaceInv, AtFile, Contents, Files
<1>1. CASE SessionStart
  BY <1>1 DEF SessionStart, taskVars
<1>2. CASE ScheduleAtFixedRate
  BY <1>2 DEF ScheduleAtFixedRate, sessionVars
<1>3. CASE MainFails
  BY <1>3 DEF MainFails, taskVars, sessionVars
<1>4. CASE SessionWaitForCompletion
  BY <1>4 DEF SessionWaitForCompletion, taskVars, sessionVars
<1>5. CASE ShutDown
  BY <1>5 DEF ShutDown, taskVars
<1>6. CASE Tick
  BY <1>6 DEF Tick, Runs, mainVars, sessionVars
<1>7. CASE Write
  BY <1>7 DEF Write, Runs, mainVars, sessionVars
<1>8. CASE CloseFile
  BY <1>8 DEF CloseFile, Runs, mainVars, sessionVars
<1>9. CASE WriteFails
  BY <1>9 DEF WriteFails, Runs, mainVars, sessionVars
<1>10. CASE AddTransferPaths
  BY <1>10 DEF AddTransferPaths, Runs, Open, mainVars
<1>11. CASE LockPersistentTransfer
  BY <1>11 DEF LockPersistentTransfer, Runs, Open, mainVars
<1>12. CASE TaskThrows
  BY <1>12 DEF TaskThrows, Runs, mainVars, sessionVars
<1>13. CASE SendFile
  BY <1>13 DEF SendFile, Open, mainVars, taskVars
<1>14. CASE SessionEnds
  BY <1>14 DEF SessionEnds, Open, mainVars, taskVars
<1>15. CASE TransferdDies
  BY <1>15 DEF TransferdDies, mainVars, taskVars
<1>16. CASE UNCHANGED uploadVars
  BY <1>16 DEF uploadVars, mainVars, taskVars, sessionVars
<1> QED BY <1>1, <1>2, <1>3, <1>4, <1>5, <1>6, <1>7, <1>8, <1>9, <1>10, <1>11, <1>12, <1>13,
           <1>14, <1>15, <1>16 DEF UploadNext, MainThread, FileUploadTask

(* Every step keeps the order of the two threads.                          *)
LEMMA PlaceStep ==
    ASSUME UploadTypes, PlaceInv, [UploadNext]_uploadVars
    PROVE  PlaceInv'
<1> USE DEF UploadTypes, PlaceInv, AtFile
<1>1. CASE SessionStart
  BY <1>1 DEF SessionStart, taskVars
<1>2. CASE ScheduleAtFixedRate
  BY <1>2 DEF ScheduleAtFixedRate, sessionVars
<1>3. CASE MainFails
  BY <1>3 DEF MainFails, taskVars, sessionVars
<1>4. CASE SessionWaitForCompletion
  BY <1>4 DEF SessionWaitForCompletion, taskVars, sessionVars
<1>5. CASE ShutDown
  BY <1>5 DEF ShutDown, taskVars
<1>6. CASE Tick
  BY <1>6 DEF Tick, Runs, mainVars, sessionVars
<1>7. CASE Write
  BY <1>7 DEF Write, Runs, mainVars, sessionVars
<1>8. CASE CloseFile
  BY <1>8 DEF CloseFile, Runs, mainVars, sessionVars
<1>9. CASE WriteFails
  BY <1>9 DEF WriteFails, Runs, mainVars, sessionVars
<1>10. CASE AddTransferPaths
  BY <1>10 DEF AddTransferPaths, Runs, Open, mainVars
<1>11. CASE LockPersistentTransfer
  BY <1>11 DEF LockPersistentTransfer, Runs, Open, mainVars
<1>12. CASE TaskThrows
  BY <1>12 DEF TaskThrows, Runs, mainVars, sessionVars
<1>13. CASE SendFile
  BY <1>13 DEF SendFile, Open, mainVars, taskVars
<1>14. CASE SessionEnds
  BY <1>14 DEF SessionEnds, Open, mainVars, taskVars
<1>15. CASE TransferdDies
  BY <1>15 DEF TransferdDies, mainVars, taskVars
<1>16. CASE UNCHANGED uploadVars
  BY <1>16 DEF uploadVars, mainVars, taskVars, sessionVars
<1> QED BY <1>1, <1>2, <1>3, <1>4, <1>5, <1>6, <1>7, <1>8, <1>9, <1>10, <1>11, <1>12, <1>13,
           <1>14, <1>15, <1>16 DEF UploadNext, MainThread, FileUploadTask

(* A file is written before it is added and never again after that.        *)
LEMMA FilesStep ==
    ASSUME UploadTypes, PlaceInv, FilesInv, [UploadNext]_uploadVars
    PROVE  FilesInv'
<1> USE DEF UploadTypes, PlaceInv, FilesInv, Passed, Settled, AtFile, Contents, Files
<1>1. CASE SessionStart
  BY <1>1 DEF SessionStart, taskVars
<1>2. CASE ScheduleAtFixedRate
  BY <1>2 DEF ScheduleAtFixedRate, sessionVars
<1>3. CASE MainFails
  BY <1>3 DEF MainFails, taskVars, sessionVars
<1>4. CASE SessionWaitForCompletion
  BY <1>4 DEF SessionWaitForCompletion, taskVars, sessionVars
<1>5. CASE ShutDown
  BY <1>5 DEF ShutDown, taskVars
<1>6. CASE Tick
  BY <1>6 DEF Tick, Runs, mainVars, sessionVars
<1>7. CASE Write
  BY <1>7 DEF Write, Runs, mainVars, sessionVars
<1>8. CASE CloseFile
  <2>1. sequenceIndex \in Files
    BY <1>8, UploadAssumption DEF CloseFile, Runs
  <2>2. disk'[sequenceIndex] = "whole" /\ \A f \in queue : disk'[f] = disk[f]
    BY <1>8, <2>1 DEF CloseFile, Runs
  <2> QED BY <1>8, <2>1, <2>2 DEF CloseFile, Runs, mainVars, sessionVars
<1>9. CASE WriteFails
  BY <1>9 DEF WriteFails, Runs, mainVars, sessionVars
<1>10. CASE AddTransferPaths
  BY <1>10 DEF AddTransferPaths, Runs, Open, mainVars
<1>11. CASE LockPersistentTransfer
  BY <1>11 DEF LockPersistentTransfer, Runs, Open, mainVars
<1>12. CASE TaskThrows
  BY <1>12 DEF TaskThrows, Runs, mainVars, sessionVars
<1>13. CASE SendFile
  BY <1>13 DEF SendFile, Open, mainVars, taskVars
<1>14. CASE SessionEnds
  BY <1>14 DEF SessionEnds, Open, mainVars, taskVars
<1>15. CASE TransferdDies
  BY <1>15 DEF TransferdDies, mainVars, taskVars
<1>16. CASE UNCHANGED uploadVars
  BY <1>16 DEF uploadVars, mainVars, taskVars, sessionVars
<1> QED BY <1>1, <1>2, <1>3, <1>4, <1>5, <1>6, <1>7, <1>8, <1>9, <1>10, <1>11, <1>12, <1>13,
           <1>14, <1>15, <1>16 DEF UploadNext, MainThread, FileUploadTask

(* Nothing is left to be added when the session is locked.                 *)
LEMMA LockStep ==
    ASSUME UploadTypes, PlaceInv, FilesInv, LockInv, [UploadNext]_uploadVars
    PROVE  LockInv'
<1> USE DEF UploadTypes, PlaceInv, FilesInv, LockInv, Passed, Settled, AtFile
<1>1. CASE SessionStart
  BY <1>1 DEF SessionStart, taskVars
<1>2. CASE ScheduleAtFixedRate
  BY <1>2 DEF ScheduleAtFixedRate, sessionVars
<1>3. CASE MainFails
  BY <1>3 DEF MainFails, taskVars, sessionVars
<1>4. CASE SessionWaitForCompletion
  BY <1>4 DEF SessionWaitForCompletion, taskVars, sessionVars
<1>5. CASE ShutDown
  BY <1>5 DEF ShutDown, taskVars
<1>6. CASE Tick
  BY <1>6 DEF Tick, Runs, mainVars, sessionVars
<1>7. CASE Write
  BY <1>7 DEF Write, Runs, mainVars, sessionVars
<1>8. CASE CloseFile
  BY <1>8 DEF CloseFile, Runs, mainVars, sessionVars
<1>9. CASE WriteFails
  BY <1>9 DEF WriteFails, Runs, mainVars, sessionVars
<1>10. CASE AddTransferPaths
  BY <1>10 DEF AddTransferPaths, Runs, Open, mainVars
<1>11. CASE LockPersistentTransfer
  BY <1>11 DEF LockPersistentTransfer, Runs, Open, mainVars
<1>12. CASE TaskThrows
  BY <1>12 DEF TaskThrows, Runs, mainVars, sessionVars
<1>13. CASE SendFile
  BY <1>13 DEF SendFile, Open, mainVars, taskVars
<1>14. CASE SessionEnds
  BY <1>14 DEF SessionEnds, Open, mainVars, taskVars
<1>15. CASE TransferdDies
  BY <1>15 DEF TransferdDies, mainVars, taskVars
<1>16. CASE UNCHANGED uploadVars
  BY <1>16 DEF uploadVars, mainVars, taskVars, sessionVars
<1> QED BY <1>1, <1>2, <1>3, <1>4, <1>5, <1>6, <1>7, <1>8, <1>9, <1>10, <1>11, <1>12, <1>13,
           <1>14, <1>15, <1>16 DEF UploadNext, MainThread, FileUploadTask

(* The daemon reads files that are complete, and completes a session that  *)
(* is locked only.                                                         *)
LEMMA SentStep ==
    ASSUME UploadTypes, PlaceInv, FilesInv, LockInv, SentInv, [UploadNext]_uploadVars
    PROVE  SentInv'
<1> USE DEF UploadTypes, PlaceInv, FilesInv, SentInv, Files, Contents
<1>1. CASE SessionStart
  BY <1>1 DEF SessionStart, taskVars
<1>2. CASE ScheduleAtFixedRate
  BY <1>2 DEF ScheduleAtFixedRate, sessionVars
<1>3. CASE MainFails
  BY <1>3 DEF MainFails, taskVars, sessionVars
<1>4. CASE SessionWaitForCompletion
  BY <1>4 DEF SessionWaitForCompletion, taskVars, sessionVars
<1>5. CASE ShutDown
  BY <1>5 DEF ShutDown, taskVars
<1>6. CASE Tick
  BY <1>6 DEF Tick, Runs, mainVars, sessionVars
<1>7. CASE Write
  BY <1>7 DEF Write, Runs, mainVars, sessionVars
<1>8. CASE CloseFile
  BY <1>8 DEF CloseFile, Runs, mainVars, sessionVars
<1>9. CASE WriteFails
  BY <1>9 DEF WriteFails, Runs, mainVars, sessionVars
<1>10. CASE AddTransferPaths
  BY <1>10 DEF AddTransferPaths, Runs, Open, mainVars
<1>11. CASE LockPersistentTransfer
  BY <1>11 DEF LockPersistentTransfer, Runs, Open, mainVars
<1>12. CASE TaskThrows
  BY <1>12 DEF TaskThrows, Runs, mainVars, sessionVars
<1>13. CASE SendFile
  BY <1>13 DEF SendFile, Open, mainVars, taskVars
<1>14. CASE SessionEnds
  BY <1>14 DEF SessionEnds, Open, mainVars, taskVars
<1>15. CASE TransferdDies
  BY <1>15 DEF TransferdDies, mainVars, taskVars
<1>16. CASE UNCHANGED uploadVars
  BY <1>16 DEF uploadVars, mainVars, taskVars, sessionVars
<1> QED BY <1>1, <1>2, <1>3, <1>4, <1>5, <1>6, <1>7, <1>8, <1>9, <1>10, <1>11, <1>12, <1>13,
           <1>14, <1>15, <1>16 DEF UploadNext, MainThread, FileUploadTask

(* A session that completes was locked: all its files are settled, those   *)
(* added have been sent; and a task that waits for no more ticks has       *)
(* locked it.                                                              *)
LEMMA InvSuffices == ASSUME UploadInv PROVE AllFilesSent
<1>1. CompletedIsWhole
  <2> SUFFICES ASSUME verdict = "completed", NEW f \in 1..persist_max
               PROVE  IF f \in unwritten THEN sent[f] = "absent" ELSE sent[f] = "whole"
    BY DEF CompletedIsWhole
  <2>1. f \in Files /\ Settled(f)
    BY UploadAssumption DEF UploadInv, UploadTypes, LockInv, SentInv, Files
  <2>2. CASE f \in unwritten
    BY <2>1, <2>2 DEF UploadInv, FilesInv, SentInv
  <2>3. CASE f \notin unwritten
    BY <2>1, <2>3 DEF UploadInv, SentInv, Settled
  <2> QED BY <2>2, <2>3
<1>2. LockIsComing
  <2> SUFFICES ASSUME main = "waiting", persist_max > 0, ~locked, sequenceIndex >= persist_max,
                      timer = "armed"
               PROVE  persist_max \in unwritten
    BY DEF UploadInv, UploadTypes, PlaceInv, AtFile, LockIsComing
  <2>1. Settled(persist_max)
    BY DEF UploadInv, UploadTypes, FilesInv
  <2> QED BY <2>1 DEF UploadInv, LockInv, Settled
<1> QED BY <1>1, <1>2 DEF AllFilesSent

(* AllFilesSent, for any number of files, whatever call or write fails and *)
(* whenever the daemon dies: a session that is seen to be completed has    *)
(* sent every file as a whole, and the wait is for a lock that will come.  *)
THEOREM EveryFileSent == UploadSpec => []AllFilesSent
<1>1. UploadInit => UploadInv
  BY UploadAssumption DEF UploadInit, UploadInv, UploadTypes, PlaceInv, FilesInv, LockInv, SentInv,
     Passed, Settled, AtFile, Contents, Files
<1>2. UploadInv /\ [UploadNext]_uploadVars => UploadInv'
  BY UploadTypesStep, PlaceStep, FilesStep, LockStep, SentStep DEF UploadInv
<1>3. UploadInv => AllFilesSent
  BY InvSuffices
<1> QED BY <1>1, <1>2, <1>3, PTL DEF UploadSpec
=============================================================================
