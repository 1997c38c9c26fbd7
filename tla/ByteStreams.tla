---------------------------- MODULE ByteStreams ----------------------------
(***************************************************************************)
(* What one process writes and another one takes to pieces, byte by byte:  *)
(* the line that carries the paths of a command to ascmd, the answer that  *)
(* carries its results, and the log of the transfer daemon.  A behaviour   *)
(* is about one line, one answer or one log.                               *)
(***************************************************************************)
EXTENDS AscmdArguments, AscmdResults, LastLine

vars == <<lineVars, answer, logVars>>

NoLine == paths = <<>> /\ rest = <<>> /\ mode = "blank" /\ args = <<>>
NoAnswer == answer = [tag |-> 6, value |-> Nothing]
NoLog == log = <<>> /\ reader = "none" /\ pc = "closed" /\ size = 0 /\ at = 0 /\ line = <<>>

Init ==
    \/ LineWritten(RustLine) /\ NoAnswer /\ NoLog
    \/ NoLine /\ AnAnswer /\ NoLog
    \/ NoLine /\ NoAnswer /\ LogInit

Next ==
    \/ LineRead /\ UNCHANGED <<answer, logVars>>
    \/ NoLine /\ reader = "none" /\ AnswerGrows /\ UNCHANGED <<lineVars, logVars>>
    \/ reader # "none" /\ LogNext /\ UNCHANGED <<lineVars, answer>>

Spec == Init /\ [][Next]_vars
=============================================================================
