--------------------------- MODULE AscmdArguments ---------------------------
(***************************************************************************)
(* The line of an ascmd command: how the helpers write paths into it, and  *)
(* how ascmd splits it into arguments.  Characters are told apart by what  *)
(* the line's format makes of them.                                        *)
(***************************************************************************)
EXTENDS Naturals, Sequences, SequencesExt

CONSTANTS
    MaxPath,    \* bound: length of a path
    Paths       \* number of paths of the command: 1 (rm, ls, ...) or 2 (cp, mv)

ASSUME ArgumentsAssumption == MaxPath \in Nat /\ Paths \in {1, 2}

VARIABLES
    paths,      \* the arguments of the method
    rest,       \* what ascmd has not read yet of the line the method writes
    mode,       \* what ascmd is in: a blank, a word, quotes, an escape in
                \* them; at the end of the command
    args        \* the arguments ascmd has found

lineVars == <<paths, rest, mode, args>>

Quote == "quote"          \* "
Backslash == "backslash"  \* \
Blank == "blank"          \* a space or a tab
Newline == "newline"      \* ends a command
Raw == "raw"              \* bytes that are not UTF-8
Letter == "letter"        \* any other character, U+FFFD among them
Char == {Letter, Blank, Quote, Backslash, Newline, Raw}

-----------------------------------------------------------------------------
(* The writers.                                                            *)

(* str::replace, strings.ReplaceAll: a character by a string.              *)
Replace(s, c, by) == FlattenSeq([i \in DOMAIN s |-> IF s[i] = c THEN by ELSE <<s[i]>>])

Enclose(s) == <<Quote>> \o s \o <<Quote>>

(* Path::display puts U+FFFD in place of what is not UTF-8.                *)
Shown(p) == [i \in DOMAIN p |-> IF p[i] = Raw THEN Letter ELSE p[i]]

RustArgUnescaped(p) ==   \* mutant: only quotes are escaped
    Enclose(Replace(Shown(p), Quote, <<Backslash, Quote>>))

(* path_to_arg: backslashes, then quotes.                                  *)
RustArg(p) ==
    Enclose(Replace(Replace(Shown(p), Backslash, <<Backslash, Backslash>>),
                    Quote, <<Backslash, Quote>>))

(* executeCommandRes: quotes, then backslashes.                            *)
GoArg(p) ==
    Enclose(Replace(Replace(p, Quote, <<Backslash, Quote>>),
                    Backslash, <<Backslash, Backslash>>))

(* What follows the name of a command: the paths, a blank before each, and *)
(* the newline of send_command.                                            *)
RustLine(ps) ==
    FlattenSeq([i \in DOMAIN ps |-> <<Blank>> \o RustArg(ps[i])]) \o <<Newline>>
GoLine(ps) ==
    FlattenSeq([i \in DOMAIN ps |-> <<Blank>> \o GoArg(ps[i])]) \o <<Newline>>

-----------------------------------------------------------------------------
(* The reader: ascmd, after the comment at the head of utils/server.rs.    *)

AddTo(c) == [args EXCEPT ![Len(args)] = Append(@, c)]

(* A newline ends the command wherever it is.  What follows it is for the  *)
(* next command.                                                           *)
ReadNewline == Head(rest) = Newline /\ mode' = "end" /\ UNCHANGED args

ReadBlank ==
    /\ mode = "blank"
    /\ CASE Head(rest) = Blank -> mode' = "blank" /\ UNCHANGED args
         [] Head(rest) = Quote -> mode' = "quotes" /\ args' = Append(args, <<>>)
         [] OTHER -> mode' = "word" /\ args' = Append(args, <<Head(rest)>>)

ReadWord ==
    /\ mode = "word"
    /\ IF Head(rest) = Blank
       THEN mode' = "blank" /\ UNCHANGED args
       ELSE mode' = "word" /\ args' = AddTo(Head(rest))

ReadQuotes ==
    /\ mode = "quotes"
    /\ CASE Head(rest) = Quote -> mode' = "word" /\ UNCHANGED args
         [] Head(rest) = Backslash -> mode' = "escape" /\ UNCHANGED args
         [] OTHER -> mode' = "quotes" /\ args' = AddTo(Head(rest))

ReadEscape == mode = "escape" /\ mode' = "quotes" /\ args' = AddTo(Head(rest))

LineWritten(Line(_)) ==
    /\ \E n \in [1..Paths -> UNION {[1..k -> Char] : k \in 0..MaxPath}] :
          paths = n /\ rest = Line(n)
    /\ mode = "blank"
    /\ args = <<>>

LineRead ==
    /\ rest # <<>> /\ mode # "end"
    /\ \/ ReadNewline
       \/ Head(rest) # Newline /\ (ReadBlank \/ ReadWord \/ ReadQuotes \/ ReadEscape)
    /\ rest' = Tail(rest)
    /\ UNCHANGED paths

GoSpec == LineWritten(GoLine) /\ [][LineRead]_lineVars

-----------------------------------------------------------------------------
(* Properties.                                                             *)

OneLine(p) == ~Contains(p, Newline)

(* The command that ascmd carries out acts on the paths the method was     *)
(* given, as Path::display shows them (those in UTF-8 as they are), on all *)
(* of them and no other, and nothing of the line is left: if each path is  *)
(* of one line.  If one is not, the command ends before its line does, and *)
(* ascmd takes the rest of the line for another command.                   *)
PathsArrive ==
    mode = "end" =>
        IF \A i \in DOMAIN paths : OneLine(paths[i])
        THEN rest = <<>> /\ args = [i \in DOMAIN paths |-> Shown(paths[i])]
        ELSE rest # <<>>

(* What utils/server.rs says of the format is what the Go helper relies    *)
(* on: paths of one line arrive, byte by byte.                             *)
QuotedPathsArrive ==
    mode = "end" /\ (\A i \in DOMAIN paths : OneLine(paths[i])) => args = paths
=============================================================================
