---------------------------- MODULE AscmdSession ----------------------------
(***************************************************************************)
(* A session of the ascmd protocol: the AsCmd object of the Rust and Go    *)
(* helpers (utils/server.rs, utils/server.go) on one end of two pipes, the *)
(* ascmd process on the other.  A command is one line; its answer is one   *)
(* TLV.  The two helpers execute commands alike; they differ in the        *)
(* results they recognise.                                                 *)
(***************************************************************************)
EXTENDS Naturals, Sequences

CONSTANTS
    Language,    \* "rust" or "go"
    Protocol,    \* 1: ascmd greets by itself; 2: it answers session_init
    Names,       \* the paths given as arguments
    MultiLine,   \* the paths among them that contain a newline
    MaxCommands, \* bound: commands sent in one session
    MayDie       \* whether ascmd, or the connection to it, can fail

ASSUME SessionAssumption ==
    /\ Language \in {"rust", "go"}
    /\ Protocol \in {1, 2}
    /\ MultiLine \subseteq Names
    /\ MaxCommands \in Nat
    /\ MayDie \in BOOLEAN

VARIABLES
    pc,       \* where the client is
    sent,     \* number of lines the client has written
    command,  \* the command being executed
    stdin,    \* lines written, not yet read by ascmd
    stdout,   \* answers written by ascmd, not yet read by the client
    agent,    \* the ascmd process
    result    \* history: the last result the caller was given

vars == <<pc, sent, command, stdin, stdout, agent, result>>

(* The tags ascmd uses for its results: File, Dir, Size, Error, Info,      *)
(* Success, Exit, Df, Md5sum; and the ones it gives to each command.       *)
Error == 4
Exit  == 7
Answers ==
    [info |-> {5}, ls |-> {1, 2}, rm |-> {6}, du |-> {3}, mkdir |-> {6},
     cp |-> {6}, mv |-> {6}, df |-> {8}, md5sum |-> {9}]

Commands == DOMAIN Answers

RustAcceptsNoFile ==   \* mutant: ls forgets that a file is no directory
    [info |-> {5}, ls |-> {2}, rm |-> {6}, du |-> {3}, mkdir |-> {6},
     cp |-> {6}, mv |-> {6}, df |-> {8}, md5sum |-> {9}]

(* The results each method of the Rust AsCmd returns as Ok.                *)
RustAccepts ==
    [info |-> {5}, ls |-> {2, 1}, rm |-> {6}, du |-> {3}, mkdir |-> {6},
     cp |-> {6}, mv |-> {6}, df |-> {8}, md5sum |-> {9}]

(* Those of the Go one: Info() looks for an Info in a result that          *)
(* newCommandResult made an *Info, and finds none.                         *)
GoAccepts ==
    [info |-> {}, ls |-> {2, 1}, rm |-> {6}, du |-> {3}, mkdir |-> {6},
     cp |-> {6}, mv |-> {6}, df |-> {8}, md5sum |-> {9}]

Accepts == IF Language = "go" THEN GoAccepts ELSE RustAccepts

Line(n, c) == [n |-> n, cmd |-> c]
Tlv(n, t) == [n |-> n, tag |-> t]

(* What a method returns: the line it wrote, the command, the tag of the   *)
(* answer it read (0: none) with the line that answer was made for, and    *)
(* whether the method returns Ok.                                          *)
Result(tlv, ok) == [n |-> sent, cmd |-> command, of |-> tlv.n, tag |-> tlv.tag, ok |-> ok]
NoAnswer == Tlv(0, 0)

Pcs == {"new", "greeting", "idle", "reading", "terminated", "ended", "closed"}

TypeOK ==
    /\ pc \in Pcs
    /\ sent \in Nat
    /\ command \in Commands \cup {"none", "exit", "session_init"}
    /\ stdin \in Seq([n : Nat, cmd : Commands \cup {"exit", "session_init", "rest"}])
    /\ stdout \in Seq([n : Nat, tag : 1..9])
    /\ agent \in {"starting", "up", "gone"}
    /\ result \in [n : Nat, cmd : Commands \cup {"none"}, of : Nat, tag : 0..9, ok : BOOLEAN]

Init ==
    /\ pc = "new" /\ sent = 0 /\ command = "none"
    /\ stdin = <<>> /\ stdout = <<>>
    /\ agent = "starting"
    /\ result = Result(NoAnswer, TRUE)

-----------------------------------------------------------------------------
(* The client.                                                             *)

WriteUnfinished(lines) ==   \* mutant: the newline is forgotten
    stdin' = stdin \o [i \in DOMAIN lines |-> [lines[i] EXCEPT !.cmd = "unfinished"]]

(* send_command.  What is written to a process that is gone is lost, if    *)
(* the write does not fail.                                                *)
Write(lines) == stdin' = IF agent = "gone" THEN stdin ELSE stdin \o lines

NewAsCmdUnread ==   \* mutant: the greeting of protocol 2 is not read
    /\ pc = "new"
    /\ sent' = 1
    /\ Write(<<Line(1, "session_init")>>)
    /\ pc' = "idle"
    /\ UNCHANGED <<command, stdout, agent, result>>

(* AsCmd::new: with protocol 2 it sends session_init; then it waits for    *)
(* the Info of the greeting.                                               *)
NewAsCmd ==
    /\ pc = "new"
    /\ command' = "session_init"
    /\ IF Protocol = 1
       THEN pc' = "greeting" /\ UNCHANGED <<sent, stdin>>
       ELSE \/ /\ sent' = 1
               /\ Write(<<Line(1, "session_init")>>)
               /\ pc' = "greeting"
            \/ /\ agent = "gone"
               /\ pc' = "closed"
               /\ UNCHANGED <<sent, stdin>>
    /\ UNCHANGED <<stdout, agent, result>>

(* The TLV at the head of the pipe is read through a BufReader that lives  *)
(* for this read only: what it has read ahead is lost with it.             *)
ReadAhead == \E k \in 1..Len(stdout) : stdout' = SubSeq(stdout, k + 1, Len(stdout))

(* End of the stream: an empty TLV, which is no result.                    *)
AtEnd == stdout = <<>> /\ agent = "gone"

ReadGreeting ==
    /\ pc = "greeting"
    /\ \/ /\ stdout # <<>>
          /\ ReadAhead
          /\ pc' = IF Head(stdout).tag = 5 THEN "idle" ELSE "closed"
       \/ AtEnd /\ pc' = "closed" /\ UNCHANGED stdout
    /\ UNCHANGED <<sent, command, stdin, agent, result>>

(* exec_command_result writes its line.  A newline in a path is written as *)
(* it is: ascmd sees two lines, of which the second is no command.         *)
Execute(c, name) ==
    /\ pc = "idle"
    /\ sent < MaxCommands
    /\ sent' = sent + 1
    /\ command' = c
    /\ Write(IF name \in MultiLine /\ c \notin {"info", "df"}
             THEN <<Line(sent + 1, c), Line(sent + 1, "rest")>>
             ELSE <<Line(sent + 1, c)>>)
    /\ pc' = "reading"
    /\ UNCHANGED <<stdout, agent, result>>

(* The pipe is broken: the method returns an error.                        *)
ExecuteFails(c) ==
    /\ pc = "idle"
    /\ agent = "gone"
    /\ command' = c
    /\ result' = [Result(NoAnswer, FALSE) EXCEPT !.cmd = c]
    /\ UNCHANGED <<pc, sent, stdin, stdout, agent>>

ReadAnswerUntilOne ==   \* mutant: the end of the stream is waited out
    /\ pc = "reading" /\ stdout # <<>>
    /\ ReadAhead
    /\ result' = Result(Head(stdout), Head(stdout).tag \in Accepts[command])
    /\ pc' = "idle"
    /\ UNCHANGED <<sent, command, stdin, agent>>

(* The answer is read and decoded.                                         *)
ReadAnswer ==
    /\ pc = "reading"
    /\ \/ /\ stdout # <<>>
          /\ ReadAhead
          /\ result' = Result(Head(stdout), Head(stdout).tag \in Accepts[command])
       \/ AtEnd /\ result' = Result(NoAnswer, FALSE) /\ UNCHANGED stdout
    /\ pc' = "idle"
    /\ UNCHANGED <<sent, command, stdin, agent>>

TerminateUnsaid ==   \* mutant: as_exit is not sent
    /\ pc = "idle"
    /\ pc' = "terminated"
    /\ UNCHANGED <<sent, command, stdin, stdout, agent, result>>

(* terminate sends as_exit and reads nothing.                              *)
Terminate ==
    /\ pc = "idle"
    /\ pc' = "terminated"
    /\ command' = "exit"
    /\ sent' = sent + 1
    /\ Write(<<Line(sent + 1, "exit")>>)
    /\ UNCHANGED <<stdout, agent, result>>

(* The caller is done without terminate, as when a command has failed: the *)
(* object is dropped and its pipes are closed.                             *)
Close ==
    /\ pc = "idle"
    /\ pc' = "closed"
    /\ UNCHANGED <<sent, command, stdin, stdout, agent, result>>

(* After terminate, a session over SSH ends the input of ascmd; one with a *)
(* local ascmd leaves it open.                                             *)
SendEof ==
    /\ pc = "terminated"
    /\ pc' = "ended"
    /\ UNCHANGED <<sent, command, stdin, stdout, agent, result>>

(* Both wait for ascmd to end before they close what they read from.       *)
WaitProcess ==
    /\ pc \in {"terminated", "ended"}
    /\ agent = "gone"
    /\ pc' = "closed"
    /\ UNCHANGED <<sent, command, stdin, stdout, agent, result>>

-----------------------------------------------------------------------------
(* The ascmd process (not part of the repository).                         *)

AgentStarts ==
    /\ agent = "starting"
    /\ agent' = "up"
    /\ stdout' = IF Protocol = 1 THEN <<Tlv(0, 5)>> ELSE <<>>
    /\ UNCHANGED <<pc, sent, command, stdin, result>>

AgentAnswers ==
    /\ agent = "up" /\ stdin # <<>>
    /\ stdin' = Tail(stdin)
    /\ LET line == Head(stdin) IN
       \/ /\ line.cmd = "exit"
          /\ stdout' = Append(stdout, Tlv(line.n, Exit))
          /\ agent' = "gone"
       \/ /\ line.cmd = "session_init"
          /\ \E t \in {5, Error} : stdout' = Append(stdout, Tlv(line.n, t))
          /\ UNCHANGED agent
       \/ /\ line.cmd = "rest"
          /\ stdout' = Append(stdout, Tlv(line.n, Error))
          /\ UNCHANGED agent
       \/ /\ line.cmd \in Commands
          /\ \E t \in Answers[line.cmd] \cup {Error} :
                stdout' = Append(stdout, Tlv(line.n, t))
          /\ UNCHANGED agent
    /\ UNCHANGED <<pc, sent, command, result>>

(* Its input is closed and read to the end.                                *)
AgentSeesEnd ==
    /\ agent = "up" /\ stdin = <<>> /\ pc \in {"ended", "closed"}
    /\ agent' = "gone"
    /\ UNCHANGED <<pc, sent, command, stdin, stdout, result>>

AgentDies ==
    /\ MayDie
    /\ agent # "gone"
    /\ agent' = "gone"
    /\ stdin' = <<>>
    /\ UNCHANGED <<pc, sent, command, stdout, result>>

-----------------------------------------------------------------------------
Client ==
    \/ NewAsCmd \/ ReadGreeting \/ ReadAnswer \/ Terminate \/ SendEof \/ WaitProcess
    \/ Close
    \/ \E c \in Commands : ExecuteFails(c) \/ \E name \in Names : Execute(c, name)

Agent == AgentStarts \/ AgentAnswers \/ AgentSeesEnd \/ AgentDies

Next == Client \/ Agent

Spec == Init /\ [][Next]_vars

(* The client takes what it waits for; ascmd starts, answers and ends.     *)
FairSpec ==
    /\ Spec
    /\ WF_vars(ReadGreeting \/ ReadAnswer \/ WaitProcess)
    /\ WF_vars(AgentStarts \/ AgentAnswers \/ AgentSeesEnd)

-----------------------------------------------------------------------------
(* Properties.                                                             *)

(* The answer a method decodes is the one ascmd made for its own command.  *)
InStep == result.tag # 0 => result.of = result.n

(* A command that ascmd carried out is reported as carried out.            *)
SuccessReported ==
    result.cmd \in Commands => (result.ok <=> result.tag \in Answers[result.cmd])

(* Whatever ascmd does, no caller is left waiting for an answer, ...       *)
CommandsReturn == (pc \in {"greeting", "reading"}) ~> (pc \notin {"greeting", "reading"})

(* ... or for the end of ascmd, which does not outlive the session.        *)
AgentEnds == (pc \in {"terminated", "ended", "closed"}) ~> (pc = "closed" /\ agent = "gone")
=============================================================================
