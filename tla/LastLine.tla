------------------------------ MODULE LastLine ------------------------------
(***************************************************************************)
(* last_file_line of utils/configuration: the last line of the log of the  *)
(* daemon, read byte by byte from the end, while the daemon goes on        *)
(* writing.  The daemon's port is found in it, and the reason why it ended. *)
(* Ruby, C# and JavaScript read the whole file instead.                    *)
(***************************************************************************)
EXTENDS Naturals, Sequences

CONSTANTS
    Byte,     \* of the log
    Eol,      \* the one that ends a line
    Readers,  \* the classes looked at
    MaxLog    \* bound: bytes of the log

Scanning == {"rust", "python", "go"}  \* collect the line on the way back
Forward == {"java", "cpp"}            \* find its start, then read it

ASSUME LastLineAssumption ==
    /\ Eol \in Byte
    /\ Readers \subseteq Scanning \cup Forward
    /\ MaxLog \in Nat

VARIABLES
    log,     \* the file
    reader,  \* whose last_file_line
    pc,      \* where the reader is
    size,    \* of the file, when its end was sought
    at,      \* the byte to be looked at, counted from 1
    line     \* what was read of the line

logVars == <<log, reader, pc, size, at, line>>

LogTypeOK ==
    /\ log \in Seq(Byte) /\ line \in Seq(Byte)
    /\ reader \in Readers
    /\ pc \in {"closed", "back", "forward", "done", "failed"}
    /\ size \in 0..Len(log) /\ at \in 0..(Len(log) + 1)

Logs == UNION {[1..n -> Byte] : n \in 0..MaxLog}

LogInit ==
    /\ log \in Logs /\ reader \in Readers
    /\ pc = "closed" /\ size = 0 /\ at = 0 /\ line = <<>>

(* A daemon writes a line, a part of one, or several.                      *)
LogGrows ==
    /\ \E piece \in Logs \ {<<>>} :
          Len(log) + Len(piece) <= MaxLog /\ log' = log \o piece
    /\ UNCHANGED <<reader, pc, size, at, line>>

-----------------------------------------------------------------------------
(* The end is sought.  Java and C++ skip the last byte, and fail, or read  *)
(* nothing, where there are fewer than two.                                *)
Open ==
    /\ pc = "closed"
    /\ size' = Len(log)
    /\ \/ reader \in Scanning /\ pc' = "back" /\ at' = Len(log)
       \/ reader \in Forward /\ Len(log) >= 2 /\ pc' = "back" /\ at' = Len(log) - 1
       \/ /\ reader \in Forward /\ Len(log) < 2
          /\ pc' = IF reader = "java" /\ Len(log) = 1 THEN "failed" ELSE "done"
          /\ at' = 0
    /\ UNCHANGED <<log, reader, line>>

BackFirstEol ==   \* mutant: the end of the last line is taken for its start
    /\ pc = "back" /\ reader \in Scanning
    /\ IF at = 0 \/ log[at] = Eol
       THEN pc' = "done" /\ UNCHANGED <<at, line>>
       ELSE line' = <<log[at]>> \o line /\ at' = at - 1 /\ UNCHANGED pc
    /\ UNCHANGED <<log, reader, size>>

(* Rust, Python and Go: the byte before, unless it ends the line before.   *)
Back ==
    /\ pc = "back" /\ reader \in Scanning
    /\ IF at = 0 \/ (log[at] = Eol /\ line # <<>>)
       THEN pc' = "done" /\ UNCHANGED <<at, line>>
       ELSE line' = <<log[at]>> \o line /\ at' = at - 1 /\ UNCHANGED pc
    /\ UNCHANGED <<log, reader, size>>

(* Java looks at every byte but the first.                                 *)
JavaBack ==
    /\ pc = "back" /\ reader = "java"
    /\ IF at = 1 THEN pc' = "forward" /\ UNCHANGED at
       ELSE IF log[at] = Eol THEN pc' = "forward" /\ at' = at + 1
       ELSE at' = at - 1 /\ UNCHANGED pc
    /\ UNCHANGED <<log, reader, size, line>>

(* C++ goes back by two bytes for each one it gets: the one it looks at is *)
(* two before the one it would start to read the line from.                *)
CppBack ==
    /\ pc = "back" /\ reader = "cpp"
    /\ IF at <= 2 THEN pc' = "forward" /\ UNCHANGED at
       ELSE at' = at - 1 /\ pc' = IF log[at - 2] = Eol THEN "forward" ELSE "back"
    /\ UNCHANGED <<log, reader, size, line>>

(* readLine, getline: to the end of the line, or of the file.              *)
ReadForward ==
    /\ pc = "forward"
    /\ IF at > Len(log) \/ log[at] = Eol
       THEN pc' = "done" /\ UNCHANGED <<at, line>>
       ELSE line' = Append(line, log[at]) /\ at' = at + 1 /\ UNCHANGED pc
    /\ UNCHANGED <<log, reader, size>>

LastFileLine == Open \/ Back \/ JavaBack \/ CppBack \/ ReadForward

LogNext == LogGrows \/ LastFileLine

-----------------------------------------------------------------------------
(* Properties.                                                             *)

(* Bytes i to j of the log.                                                *)
Part(i, j) == SubSeq(log, i, j)

(* A line starts at byte i, and is the last one of the first n bytes.      *)
LastStart(i, n) ==
    /\ i \in 1..n
    /\ i = 1 \/ log[i - 1] = Eol
    /\ \A j \in i..(n - 1) : log[j] # Eol

(* Rust, Python and Go return the last line of the log as it was when they *)
(* sought its end, whatever was written since: the line has one writer     *)
(* and one moment, so that a port found in it was one of those announced.  *)
ScanIsSnapshot ==
    pc = "done" /\ reader \in Scanning =>
        IF size = 0 THEN line = <<>>
        ELSE \E i \in 1..size : LastStart(i, size) /\ line = Part(i, size)

(* Java and C++ return that line too, with what was added to it before     *)
(* they had read it.  Of a log that starts with an empty line Java returns *)
(* this one, and of a log of one line C++ loses the first byte.            *)
ForwardIsLine ==
    pc = "done" /\ reader \in Forward /\ size >= 2 =>
        \E i \in 1..size :
            /\ LastStart(i, size)
            /\ \/ line = Part(i, at - 1) /\ \A j \in i..(at - 1) : log[j] # Eol
                  /\ at >= size
               \/ reader = "java" /\ i = 2 /\ line = <<>>
               \/ reader = "cpp" /\ i = 1
               \/ reader = "cpp" /\ size <= i + 1   \* a line of one byte or none

(* What last_file_line promises.                                           *)
ReadsLastLine == ScanIsSnapshot /\ ForwardIsLine
=============================================================================
