--------------------------- MODULE PersistentUpload ---------------------------
(***************************************************************************)
(* PersistentUploadExample of Java: a transfer session that is kept open.  *)
(* The task of a timer writes one file after another and adds each to the  *)
(* session, and after the last one locks the session, which lets it        *)
(* complete; the main thread waits for that.  The two threads share only   *)
(* the daemon.                                                             *)
(***************************************************************************)
EXTENDS Naturals

CONSTANT MaxFiles  \* bound: persist_max of the configuration

ASSUME UploadAssumption == MaxFiles \in Nat

VARIABLES
    persist_max,    \* the files to send
    main,           \* where the main thread is
    verdict,        \* the status that ended its wait
    timer,          \* where the task of the timer is; "dead" once it has thrown
    sequenceIndex,  \* the file the task is at
    disk,           \* the files in the temporary folder
    unwritten,      \* history: the files that could not be written
    daemon,         \* whether transferd runs
    session,        \* the state of the session
    queue,          \* the files added to it
    locked,         \* no more of them can be added
    sent            \* what of each file was transferred

mainVars == <<persist_max, main, verdict>>
taskVars == <<timer, sequenceIndex, disk, unwritten>>
sessionVars == <<daemon, session, queue, locked, sent>>
uploadVars == <<mainVars, taskVars, sessionVars>>

Files == 1..MaxFiles

UploadInit ==
    /\ persist_max \in 0..MaxFiles
    /\ main = "start" /\ verdict = "none"
    /\ timer = "off" /\ sequenceIndex = 0
    /\ disk = [f \in Files |-> "absent"] /\ unwritten = {}
    /\ daemon = TRUE
    /\ session = "none" /\ queue = {} /\ locked = FALSE
    /\ sent = [f \in Files |-> "absent"]

Open == daemon /\ session = "running"

-----------------------------------------------------------------------------
(* The main thread.  Whatever it throws, the daemon is shut down.          *)

SessionStart ==
    /\ main = "start" /\ daemon
    /\ session' \in {"running", "failed"}
    /\ main' = "schedule"
    /\ UNCHANGED <<persist_max, verdict, taskVars, daemon, queue, locked, sent>>

ScheduleAtFixedRate ==
    /\ main = "schedule"
    /\ timer' = "armed"
    /\ main' = "waiting"
    /\ UNCHANGED <<persist_max, verdict, sequenceIndex, disk, unwritten, sessionVars>>

MainFails ==
    /\ main \in {"start", "schedule"} \/ (main = "waiting" /\ ~daemon)
    /\ main' = "shutdown"
    /\ UNCHANGED <<persist_max, verdict, taskVars, sessionVars>>

(* The wait ends with the session, or with the stream of its events.       *)
SessionWaitForCompletion ==
    /\ main = "waiting" /\ daemon
    /\ verdict' \in {session, "end"} \ {"running"}
    /\ main' = "shutdown"
    /\ UNCHANGED <<persist_max, taskVars, sessionVars>>

ShutDown ==
    /\ main = "shutdown"
    /\ daemon' = FALSE
    /\ main' = "gone"
    /\ UNCHANGED <<persist_max, verdict, taskVars, session, queue, locked, sent>>

-----------------------------------------------------------------------------
(* The task.  The thread of the timer does not keep the program running.   *)
(* Of the ticks after the last task, one is looked at.                     *)

Runs(step) == timer = step /\ main # "gone"

Tick ==
    /\ Runs("armed") /\ sequenceIndex <= persist_max
    /\ sequenceIndex' = sequenceIndex + 1
    /\ timer' = IF sequenceIndex' > persist_max THEN "armed" ELSE "write"
    /\ UNCHANGED <<mainVars, disk, unwritten, sessionVars>>

Write ==
    /\ Runs("write")
    /\ disk' = [disk EXCEPT ![sequenceIndex] = "part"]
    /\ timer' = "close"
    /\ UNCHANGED <<mainVars, sequenceIndex, unwritten, sessionVars>>

CloseFile ==
    /\ Runs("close")
    /\ disk' = [disk EXCEPT ![sequenceIndex] = "whole"]
    /\ timer' = "add"
    /\ UNCHANGED <<mainVars, sequenceIndex, unwritten, sessionVars>>

(* An IOException is caught and ends the task: the file is not added, and  *)
(* when it was the last one the session is not locked.                     *)
WriteFails ==
    /\ Runs("write") \/ Runs("close")
    /\ unwritten' = unwritten \cup {sequenceIndex}
    /\ timer' = "armed"
    /\ UNCHANGED <<mainVars, sequenceIndex, disk, sessionVars>>

AddTransferPathsEarlyLock ==   \* mutant: the session is locked one file too early
    /\ Runs("add") /\ Open /\ ~locked
    /\ queue' = queue \cup {sequenceIndex}
    /\ timer' \in {IF sequenceIndex + 1 >= persist_max THEN "lock" ELSE "armed", "dead"}
    /\ UNCHANGED <<mainVars, sequenceIndex, disk, unwritten, daemon, session, locked, sent>>

(* The answer may be lost, with what was asked for done.                   *)
AddTransferPaths ==
    /\ Runs("add") /\ Open /\ ~locked
    /\ queue' = queue \cup {sequenceIndex}
    /\ timer' \in {IF sequenceIndex = persist_max THEN "lock" ELSE "armed", "dead"}
    /\ UNCHANGED <<mainVars, sequenceIndex, disk, unwritten, daemon, session, locked, sent>>

LockPersistentTransfer ==
    /\ Runs("lock") /\ Open
    /\ locked' = TRUE
    /\ timer' \in {"armed", "dead"}
    /\ UNCHANGED <<mainVars, sequenceIndex, disk, unwritten, daemon, session, queue, sent>>

(* A call that fails throws what the task does not catch: the timer ends,  *)
(* and nobody is told.                                                     *)
TaskThrows ==
    /\ Runs("add") \/ Runs("lock")
    /\ timer' = "dead"
    /\ UNCHANGED <<mainVars, sequenceIndex, disk, unwritten, sessionVars>>

-----------------------------------------------------------------------------
(* The daemon.                                                             *)

SendFile ==
    /\ Open
    /\ \E f \in queue : sent[f] = "absent" /\ sent' = [sent EXCEPT ![f] = disk[f]]
    /\ UNCHANGED <<mainVars, taskVars, daemon, session, queue, locked>>

SessionEnds ==
    /\ Open
    /\ \/ session' = "failed"
       \/ session' = "completed" /\ locked /\ \A f \in queue : sent[f] # "absent"
    /\ UNCHANGED <<mainVars, taskVars, daemon, queue, locked, sent>>

TransferdDies ==
    /\ daemon /\ main # "gone"
    /\ daemon' = FALSE
    /\ UNCHANGED <<mainVars, taskVars, session, queue, locked, sent>>

-----------------------------------------------------------------------------
MainThread ==
    SessionStart \/ ScheduleAtFixedRate \/ MainFails \/ SessionWaitForCompletion \/ ShutDown

FileUploadTask ==
    \/ Tick \/ Write \/ CloseFile \/ WriteFails
    \/ AddTransferPaths \/ LockPersistentTransfer \/ TaskThrows

UploadNext == MainThread \/ FileUploadTask \/ SendFile \/ SessionEnds \/ TransferdDies

UploadSpec == UploadInit /\ [][UploadNext]_uploadVars

-----------------------------------------------------------------------------
(* Properties.                                                             *)

(* A session that is seen to be completed has sent every file, but those   *)
(* that could not be written (which the program only logs), and each one   *)
(* as a whole, though the daemon reads a file while the next is written.   *)
CompletedIsWhole ==
    verdict = "completed" =>
        \A f \in 1..persist_max : IF f \in unwritten THEN sent[f] = "absent"
                                  ELSE sent[f] = "whole"

(* While the main thread waits for a session that is open, the lock that   *)
(* will end it has been made or is still to come: unless the task has      *)
(* thrown, there was no file to send, or the last one was not written.     *)
(* (In these cases the program waits for ever.)                            *)
LockIsComing ==
    main = "waiting" /\ Open /\ persist_max > 0 =>
        \/ locked \/ sequenceIndex < persist_max
        \/ timer \in {"write", "close", "add", "lock"}
        \/ timer = "dead" \/ persist_max \in unwritten

(* What the two threads promise together.                                  *)
AllFilesSent == CompletedIsWhole /\ LockIsComing
=============================================================================
