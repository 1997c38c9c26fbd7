------------------------ MODULE AscmdSession_proofs ------------------------
(***************************************************************************)
(* The answer a method reads is the one made for its command, in a session *)
(* of any length, with any paths of one line.                              *)
(***************************************************************************)
EXTENDS AscmdSession, TLAPS

Words == Commands \cup {"exit", "session_init"}

(* At most one line or answer is under way, that of the last command.      *)
Outstanding ==
    /\ stdin = <<>> \/ \E c \in Words : stdin = <<Line(sent, c)>>
    /\ stdout = <<>> \/ \E t \in 1..9 : stdout = <<Tlv(sent, t)>>
    /\ stdin = <<>> \/ stdout = <<>>

(* Nothing is under way when the next command is written.                  *)
Quiet ==
    /\ pc = "idle" => stdin = <<>> /\ stdout = <<>>
    /\ pc = "new" => sent = 0 /\ stdin = <<>> /\ (Protocol = 1 \/ stdout = <<>>)
    /\ agent = "gone" => stdin = <<>>
    /\ agent = "starting" => /\ pc \in {"new", "greeting"}
                             /\ stdout = <<>>
                             /\ Protocol = 1 => stdin = <<>> /\ sent = 0

Counts == sent \in Nat

SessionInv == Counts /\ Outstanding /\ Quiet /\ InStep

(* What the operators on sequences do to a sequence of at most one.        *)
LEMMA Singletons ==
    ASSUME NEW e
    PROVE  /\ <<e>> # <<>> /\ Len(<<e>>) = 1
           /\ Head(<<e>>) = e
           /\ Tail(<<e>>) = <<>>
           /\ <<>> \o <<e>> = <<e>>
           /\ Append(<<>>, e) = <<e>>
           /\ \A k \in 1..1 : SubSeq(<<e>>, k + 1, 1) = <<>>
  BY SMT

(* Reading empties the pipe, for it held one answer.                       *)
LEMMA ReadEmpties ==
    ASSUME Outstanding, stdout # <<>>, ReadAhead
    PROVE  stdout' = <<>> /\ stdin = <<>> /\ Head(stdout).n = sent
  <1>1. PICK t \in 1..9 : stdout = <<Tlv(sent, t)>>
    BY DEF Outstanding
  <1>2. stdin = <<>>
    BY DEF Outstanding
  <1>3. stdout' = <<>>
    BY <1>1, Singletons DEF ReadAhead
  <1>4. Head(stdout) = Tlv(sent, t)
    BY <1>1, Singletons
  <1> QED BY <1>2, <1>3, <1>4 DEF Tlv

(* Writing one line into an empty pipe.                                    *)
LEMMA WriteOne ==
    ASSUME NEW line, stdin = <<>>, Write(<<line>>)
    PROVE  /\ stdin' = <<>> \/ stdin' = <<line>>
           /\ agent = "gone" => stdin' = <<>>
  BY Singletons DEF Write

(* A session starts with empty pipes.                                      *)
LEMMA SessionInvInit == Init => SessionInv
  BY SessionAssumption DEF Init, SessionInv, Counts, Outstanding, Quiet, InStep, Result, NoAnswer, Tlv

(* No step leaves two lines, or two answers, under way.                    *)
LEMMA SessionInvStep ==
    ASSUME MultiLine = {}, SessionInv, [Next]_vars
    PROVE  SessionInv'
  <1> USE SessionAssumption DEF SessionInv, Counts
  <1>1. CASE NewAsCmd
    <2>1. stdin = <<>> /\ sent = 0
      BY <1>1 DEF NewAsCmd, Quiet
    <2>2. CASE Protocol = 1
      BY <1>1, <2>1, <2>2 DEF NewAsCmd, Outstanding, Quiet, InStep
    <2>3. CASE Protocol = 2 /\ pc' = "greeting"
      <3>1. sent' = 1 /\ Write(<<Line(1, "session_init")>>)
        BY <1>1, <2>3 DEF NewAsCmd
      <3>2. /\ stdin' = <<>> \/ stdin' = <<Line(sent', "session_init")>>
            /\ agent = "gone" => stdin' = <<>>
        BY <2>1, <3>1, WriteOne
      <3>3. stdout' = <<>>
        BY <1>1, <2>3 DEF NewAsCmd, Quiet
      <3> QED BY <1>1, <2>3, <3>1, <3>2, <3>3 DEF NewAsCmd, Outstanding, Quiet, InStep, Words
    <2>4. CASE Protocol = 2 /\ pc' = "closed"
      BY <1>1, <2>1, <2>4 DEF NewAsCmd, Outstanding, Quiet, InStep
    <2> QED BY <1>1, <2>2, <2>3, <2>4 DEF NewAsCmd
  <1>2. CASE ReadGreeting
    <2>1. CASE stdout # <<>> /\ ReadAhead
      BY <1>2, <2>1, ReadEmpties DEF ReadGreeting, Outstanding, Quiet, InStep
    <2>2. CASE AtEnd /\ pc' = "closed" /\ UNCHANGED stdout
      BY <1>2, <2>2 DEF ReadGreeting, AtEnd, Outstanding, Quiet, InStep
    <2> QED BY <1>2, <2>1, <2>2 DEF ReadGreeting
  <1>3. CASE ReadAnswer
    <2>1. CASE /\ stdout # <<>> /\ ReadAhead
               /\ result' = Result(Head(stdout), Head(stdout).tag \in Accepts[command])
      BY <1>3, <2>1, ReadEmpties DEF ReadAnswer, Outstanding, Quiet, InStep, Result
    <2>2. CASE AtEnd /\ result' = Result(NoAnswer, FALSE) /\ UNCHANGED stdout
      <3>1. stdin' = stdin /\ sent' = sent /\ stdout' = <<>> /\ agent' = "gone" /\ pc' = "idle"
        BY <1>3, <2>2 DEF ReadAnswer, AtEnd
      <3>2. InStep'
        BY <2>2 DEF InStep, Result, NoAnswer, Tlv
      <3>3. stdin = <<>>
        BY <1>3, <2>2 DEF ReadAnswer, AtEnd, Quiet
      <3> QED BY <3>1, <3>2, <3>3 DEF Outstanding, Quiet
    <2> QED BY <1>3, <2>1, <2>2 DEF ReadAnswer
  <1>4. CASE Terminate
    <2>1. stdin = <<>> /\ stdout' = <<>> /\ sent' = sent + 1
      BY <1>4 DEF Terminate, Quiet
    <2>2. /\ stdin' = <<>> \/ stdin' = <<Line(sent', "exit")>>
          /\ agent = "gone" => stdin' = <<>>
      BY <1>4, <2>1, WriteOne DEF Terminate
    <2> QED BY <1>4, <2>1, <2>2 DEF Terminate, Outstanding, Quiet, InStep, Words
  <1>5. CASE Close \/ SendEof \/ WaitProcess
    BY <1>5 DEF Close, SendEof, WaitProcess, Outstanding, Quiet, InStep
  <1>6. CASE \E c \in Commands : ExecuteFails(c)
    BY <1>6 DEF ExecuteFails, Outstanding, Quiet, InStep, Result, NoAnswer, Tlv
  <1>7. CASE \E c \in Commands, name \in Names : Execute(c, name)
    <2>1. PICK c \in Commands, name \in Names : Execute(c, name)
      BY <1>7
    <2>2. Write(<<Line(sent + 1, c)>>)
      BY <2>1 DEF Execute
    <2>3. stdin = <<>> /\ stdout' = <<>> /\ sent' = sent + 1
      BY <2>1 DEF Execute, Quiet
    <2>4. /\ stdin' = <<>> \/ stdin' = <<Line(sent', c)>>
          /\ agent = "gone" => stdin' = <<>>
      BY <2>2, <2>3, WriteOne
    <2> QED BY <2>1, <2>3, <2>4 DEF Execute, Outstanding, Quiet, InStep, Words
  <1>8. CASE AgentStarts
    <2>1. stdout' = <<>> \/ stdout' = <<Tlv(0, 5)>>
      BY <1>8 DEF AgentStarts
    <2> QED BY <1>8, <2>1 DEF AgentStarts, Outstanding, Quiet, InStep
  <1>9. CASE AgentAnswers
    <2>1. PICK c \in Words : stdin = <<Line(sent, c)>>
      BY <1>9 DEF AgentAnswers, Outstanding
    <2>2. stdin' = <<>> /\ stdout = <<>> /\ Head(stdin).n = sent /\ Head(stdin).cmd = c
      BY <1>9, <2>1, Singletons DEF AgentAnswers, Outstanding, Line
    <2>3. Commands = {"info", "ls", "rm", "du", "mkdir", "cp", "mv", "df", "md5sum"}
      BY DEF Commands, Answers
    <2>4. \A k \in Commands : Answers[k] \subseteq 1..9
      BY <2>3 DEF Answers
    <2>5. \E t \in 1..9 : stdout' = Append(stdout, Tlv(sent, t))
      BY <1>9, <2>2, <2>4 DEF AgentAnswers, Error, Exit
    <2>6. \E t \in 1..9 : stdout' = <<Tlv(sent, t)>>
      BY <2>2, <2>5, Singletons
    <2> QED BY <1>9, <2>1, <2>2, <2>6, Singletons DEF AgentAnswers, Outstanding, Quiet, InStep
  <1>10. CASE AgentSeesEnd
    BY <1>10 DEF AgentSeesEnd, Outstanding, Quiet, InStep
  <1>11. CASE AgentDies
    BY <1>11 DEF AgentDies, Outstanding, Quiet, InStep
  <1>12. CASE UNCHANGED vars
    BY <1>12 DEF vars, Outstanding, Quiet, InStep
  <1> QED BY <1>1, <1>2, <1>3, <1>4, <1>5, <1>6, <1>7, <1>8, <1>9, <1>10, <1>11, <1>12
          DEF Next, Client, Agent

(* Every answer a method decodes was made for the command it has just      *)
(* written: greeting, errors and the death of ascmd never put the two      *)
(* sides of exec_command_result out of step.                               *)
THEOREM AnswersInStep ==
    ASSUME MultiLine = {}
    PROVE  Spec => []InStep
  <1>1. SessionInv /\ [Next]_vars => SessionInv'
    BY SessionInvStep
  <1>2. SessionInv => InStep
    BY DEF SessionInv
  <1> QED BY SessionInvInit, <1>1, <1>2, PTL DEF Spec

-----------------------------------------------------------------------------
(* What the methods of the Rust helper make of an answer.                  *)

(* The commands, one by one.                                               *)
LEMMA CommandsAre ==
    Commands = {"info", "ls", "rm", "du", "mkdir", "cp", "mv", "df", "md5sum"}
  BY DEF Commands, Answers

(* The methods of the Rust helper take for success just the answers ascmd  *)
(* gives to their command.                                                 *)
LEMMA RustAcceptsAnswers ==
    ASSUME Language = "rust", NEW c \in Commands, NEW t
    PROVE  t \in Accepts[c] <=> t \in Answers[c]
  BY CommandsAre DEF Accepts, RustAccepts, Answers

(* A tag of zero, which stands for no answer, is none that ascmd gives.    *)
LEMMA ZeroIsNoAnswer ==
    ASSUME NEW c \in Commands
    PROVE  0 \notin Answers[c]
  BY CommandsAre DEF Answers

(* The Rust methods report a command as carried out if and only if the     *)
(* answer read for it is one ascmd gives to that command when it has done  *)
(* it, in sessions of any length and whatever dies.                        *)
THEOREM ResultsReported ==
    ASSUME Language = "rust"
    PROVE  Spec => []SuccessReported
  <1>1. Init => SuccessReported
    BY CommandsAre DEF Init, SuccessReported, Result, NoAnswer, Tlv
  <1>2. ASSUME SuccessReported, [Next]_vars PROVE SuccessReported'
    <2>1. CASE ReadAnswer
      <3>1. CASE result' = Result(Head(stdout), Head(stdout).tag \in Accepts[command])
        <4>1. /\ result'.cmd = command /\ result'.tag = Head(stdout).tag
              /\ result'.ok = (Head(stdout).tag \in Accepts[command])
          BY <3>1 DEF Result
        <4> QED BY <4>1, RustAcceptsAnswers DEF SuccessReported
      <3>2. CASE result' = Result(NoAnswer, FALSE)
        <4>1. result'.ok = FALSE /\ result'.tag = 0
          BY <3>2 DEF Result, NoAnswer, Tlv
        <4> QED BY <4>1, ZeroIsNoAnswer DEF SuccessReported
      <3> QED BY <2>1, <3>1, <3>2 DEF ReadAnswer
    <2>2. CASE \E c \in Commands : ExecuteFails(c)
      <3>1. result'.ok = FALSE /\ result'.tag = 0
        BY <2>2 DEF ExecuteFails, Result, NoAnswer, Tlv
      <3> QED BY <3>1, ZeroIsNoAnswer DEF SuccessReported
    <2>3. CASE UNCHANGED result
      BY <1>2, <2>3 DEF SuccessReported
    <2>4. \/ ReadAnswer \/ (\E c \in Commands : ExecuteFails(c)) \/ UNCHANGED result
      BY <1>2 DEF Next, Client, Agent, vars, NewAsCmd, ReadGreeting, Terminate, SendEof,
         WaitProcess, Close, Execute, AgentStarts, AgentAnswers, AgentSeesEnd, AgentDies
    <2> QED BY <2>1, <2>2, <2>3, <2>4
  <1> QED BY <1>1, <1>2, PTL DEF Spec

-----------------------------------------------------------------------------
(* Types.                                                                  *)

Lines == [n : Nat, cmd : Commands \cup {"exit", "session_init", "rest"}]
Tlvs == [n : Nat, tag : 1..9]

(* What is read first is an answer.                                        *)
LEMMA HeadOfTlvs ==
    ASSUME NEW s \in Seq(Tlvs), s # <<>>
    PROVE  Head(s) \in Tlvs
  OBVIOUS

(* Reading ahead leaves answers in the pipe.                               *)
LEMMA ReadAheadType ==
    ASSUME stdout \in Seq(Tlvs), ReadAhead
    PROVE  stdout' \in Seq(Tlvs)
  BY DEF ReadAhead

(* Writing lines leaves lines in the pipe.                                 *)
LEMMA WriteType ==
    ASSUME stdin \in Seq(Lines), NEW lines \in Seq(Lines), Write(lines)
    PROVE  stdin' \in Seq(Lines)
  BY DEF Write

(* What a method returns has its type.                                     *)
LEMMA ResultType ==
    ASSUME sent \in Nat, command \in Commands \cup {"none"},
           NEW t \in [n : Nat, tag : 0..9], NEW ok \in BOOLEAN
    PROVE  Result(t, ok)
             \in [n : Nat, cmd : Commands \cup {"none"}, of : Nat, tag : 0..9, ok : BOOLEAN]
  BY DEF Result

(* While an answer is read, the command is one of the nine.                *)
TypeInv == TypeOK /\ (pc = "reading" => command \in Commands)

(* The session is type correct, for both helpers, both protocols and       *)
(* sessions of any length.                                                 *)
THEOREM SessionTyping == Spec => []TypeOK
  <1>1. Init => TypeInv
    BY SessionAssumption DEF Init, TypeInv, TypeOK, Pcs, Result, NoAnswer, Tlv
  <1>2. ASSUME TypeInv, [Next]_vars PROVE TypeInv'
    <2> USE SessionAssumption
    <2> stdin \in Seq(Lines) /\ stdout \in Seq(Tlvs) /\ sent \in Nat
      BY <1>2 DEF TypeInv, TypeOK, Lines, Tlvs
    <2> USE <1>2 DEF TypeInv, TypeOK, Pcs
    <2>1. CASE NewAsCmd
      <3>1. <<Line(1, "session_init")>> \in Seq(Lines)
        BY DEF Lines, Line
      <3>2. stdin' \in Seq(Lines)
        BY <2>1, <3>1, WriteType DEF NewAsCmd
      <3> QED BY <2>1, <3>2 DEF NewAsCmd, Lines
    <2>2. CASE ReadGreeting
      <3>1. stdout' \in Seq(Tlvs)
        BY <2>2, ReadAheadType DEF ReadGreeting
      <3> QED BY <2>2, <3>1 DEF ReadGreeting, Tlvs
    <2>3. CASE ReadAnswer
      <3>1. stdout' \in Seq(Tlvs)
        BY <2>3, ReadAheadType DEF ReadAnswer
      <3>2. NoAnswer \in [n : Nat, tag : 0..9] /\ Tlvs \subseteq [n : Nat, tag : 0..9]
        BY DEF NoAnswer, Tlv, Tlvs
      <3>3. command \in Commands \cup {"none"}
        BY <2>3 DEF ReadAnswer
      <3>4. \E t \in [n : Nat, tag : 0..9], ok \in BOOLEAN : result' = Result(t, ok)
        <4>1. CASE stdout # <<>> /\ result' = Result(Head(stdout), Head(stdout).tag \in Accepts[command])
          <5>1. Head(stdout) \in [n : Nat, tag : 0..9]
            BY <4>1, <3>2, HeadOfTlvs
          <5>2. (Head(stdout).tag \in Accepts[command]) \in BOOLEAN
            OBVIOUS
          <5> HIDE DEF TypeInv, TypeOK, Pcs
          <5> QED BY <4>1, <5>1, <5>2, Zenon
        <4>2. CASE result' = Result(NoAnswer, FALSE)
          BY <4>2, <3>2
        <4> QED BY <2>3, <4>1, <4>2 DEF ReadAnswer
      <3>5. result' \in [n : Nat, cmd : Commands \cup {"none"}, of : Nat, tag : 0..9, ok : BOOLEAN]
        BY <3>3, <3>4, ResultType
      <3> QED BY <2>3, <3>1, <3>5 DEF ReadAnswer, Tlvs
    <2>4. CASE Terminate
      <3>1. <<Line(sent + 1, "exit")>> \in Seq(Lines)
        BY DEF Lines, Line
      <3>2. stdin' \in Seq(Lines)
        BY <2>4, <3>1, WriteType DEF Terminate
      <3> QED BY <2>4, <3>2 DEF Terminate, Lines
    <2>5. CASE SendEof \/ WaitProcess \/ Close
      BY <2>5 DEF SendEof, WaitProcess, Close
    <2>6. ASSUME NEW c \in Commands, ExecuteFails(c) PROVE TypeInv'
      <3>1. result' = [n |-> sent, cmd |-> c, of |-> 0, tag |-> 0, ok |-> FALSE]
        BY <2>6 DEF ExecuteFails, Result, NoAnswer, Tlv
      <3>2. result' \in [n : Nat, cmd : Commands \cup {"none"}, of : Nat, tag : 0..9, ok : BOOLEAN]
        BY <3>1
      <3>3. command' = c /\ UNCHANGED <<pc, sent, stdin, stdout, agent>>
        BY <2>6 DEF ExecuteFails
      <3> QED BY <3>2, <3>3
    <2>7. ASSUME NEW c \in Commands, NEW name \in Names, Execute(c, name) PROVE TypeInv'
      <3>1. <<Line(sent + 1, c), Line(sent + 1, "rest")>> \in Seq(Lines)
        BY DEF Lines, Line
      <3>2. <<Line(sent + 1, c)>> \in Seq(Lines)
        BY DEF Lines, Line
      <3>3. stdin' \in Seq(Lines)
        BY <2>7, <3>1, <3>2, WriteType DEF Execute
      <3> QED BY <2>7, <3>3 DEF Execute, Lines
    <2>8. CASE AgentStarts
      <3>1. <<Tlv(0, 5)>> \in Seq(Tlvs) /\ <<>> \in Seq(Tlvs)
        BY DEF Tlv, Tlvs
      <3>2. stdout' \in Seq(Tlvs)
        BY <2>8, <3>1 DEF AgentStarts
      <3> QED BY <2>8, <3>2 DEF AgentStarts, Tlvs
    <2>9. CASE AgentAnswers
      <3>1. stdin' \in Seq(Lines) /\ Head(stdin) \in Lines
        BY <2>9 DEF AgentAnswers
      <3>2. \A c \in Commands : \A t \in Answers[c] : t \in 1..9
        BY CommandsAre DEF Answers
      <3> HIDE <1>2 DEF TypeInv, TypeOK, Pcs
      <3>3. \E t \in 1..9 : stdout' = Append(stdout, Tlv(Head(stdin).n, t))
        <4>1. CASE stdout' = Append(stdout, Tlv(Head(stdin).n, Exit))
          BY <4>1 DEF Exit
        <4>2. CASE \E t \in {5, Error} : stdout' = Append(stdout, Tlv(Head(stdin).n, t))
          BY <4>2 DEF Error
        <4>3. CASE /\ Head(stdin).cmd \in Commands
                   /\ \E t \in Answers[Head(stdin).cmd] \cup {Error} :
                         stdout' = Append(stdout, Tlv(Head(stdin).n, t))
          <5>1. PICK t \in Answers[Head(stdin).cmd] \cup {Error} :
                       stdout' = Append(stdout, Tlv(Head(stdin).n, t))
            BY <4>3
          <5>2. t \in 1..9
            BY <3>2, <4>3, <5>1 DEF Error
          <5> QED BY <5>1, <5>2
        <4>4. CASE stdout' = Append(stdout, Tlv(Head(stdin).n, Error))
          BY <4>4 DEF Error
        <4> QED BY <2>9, <4>1, <4>2, <4>3, <4>4 DEF AgentAnswers
      <3> USE <1>2 DEF TypeInv, TypeOK, Pcs
      <3>4. \A t \in 1..9 : Tlv(Head(stdin).n, t) \in Tlvs
        BY <3>1 DEF Tlv, Tlvs, Lines
      <3>5. stdout' \in Seq(Tlvs)
        BY <3>3, <3>4
      <3> QED BY <2>9, <3>1, <3>5 DEF AgentAnswers, Lines, Tlvs
    <2>10. CASE AgentSeesEnd \/ AgentDies
      <3>0. <<>> \in Seq(Lines)
        OBVIOUS
      <3>1. stdin' \in Seq(Lines)
        BY <2>10, <3>0 DEF AgentSeesEnd, AgentDies
      <3>2. agent' = "gone" /\ UNCHANGED <<pc, sent, command, stdout, result>>
        BY <2>10 DEF AgentSeesEnd, AgentDies
      <3> QED BY <3>1, <3>2 DEF Lines
    <2>11. CASE UNCHANGED vars
      BY <2>11 DEF vars
    <2> QED BY <2>1, <2>2, <2>3, <2>4, <2>5, <2>6, <2>7, <2>8, <2>9, <2>10, <2>11 DEF Next, Client, Agent
  <1>3. TypeInv => TypeOK
    BY DEF TypeInv
  <1> QED BY <1>1, <1>2, <1>3, PTL DEF Spec
=============================================================================
