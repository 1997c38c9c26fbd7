------------------------- MODULE ClientLibrary_proofs -------------------------
(***************************************************************************)
(* Proofs about the TransferClient classes of ClientLibrary, for any       *)
(* number of daemons, ports and transfers.  What a class checks, remembers *)
(* and undoes is read from its record in one lemma; the proofs then speak  *)
(* of the record's fields, not of the languages.                           *)
(***************************************************************************)
EXTENDS ClientLibrary, TLAPS

-----------------------------------------------------------------------------
(* The fields of the records that the proofs depend on.                    *)
LEMMA Classes ==
    ASSUME lang \in Languages
    PROVE  /\ C.raises \subseteq {"error", "unknown", "failed", "end"}
           /\ C.returns \subseteq {"completed", "failed", "end"}
           /\ lang \in {"go", "cpp", "javascript"} => C.returns = {"completed"}
           /\ lang = "csharp" => C.returns = {"completed", "failed"}
           /\ lang # "go" => "end" \notin C.raises
           /\ C.stream <=> lang \notin {"csharp", "cpp"}
BY LibraryAssumption
   DEF C, Class, Go, Python, Ruby, CSharp, Cpp, Java, JavaScript

(* A transfer is only waited for when there is one.                        *)
WaitsInv == pc \in {"accepted", "wait", "next", "sleep"} => job # None

TypeInv == TypeOK /\ WaitsInv

(* Types and waits stay consistent together: the wait of JavaScript opens  *)
(* a stream to the daemon of its transfer, which there has to be.          *)
LEMMA TypeInductive == Spec => []TypeInv
<1>1. Init => TypeInv
  BY LibraryAssumption, TransferdAssumption
  DEF Init, EnvInit, TypeInv, WaitsInv, TypeOK, EnvTypeOK, Statuses, Pcs
<1>2. TypeInv /\ [Next]_vars => TypeInv'
  <2> SUFFICES ASSUME TypeInv, [Next]_vars PROVE TypeInv'
    OBVIOUS
  <2> USE LibraryAssumption, TransferdAssumption
      DEF TypeInv, WaitsInv, TypeOK, EnvTypeOK, Statuses, Pcs, ownVars, object, history, envVars
  <2>1. CASE EnvNext /\ UNCHANGED ownVars
    <3>1. ASSUME NEW d \in Daemons, Bind(d) PROVE TypeInv'
      BY <2>1, <3>1 DEF Bind
    <3>2. ASSUME NEW d \in Daemons, BindFails(d) \/ LogOther(d) \/ Crash(d) PROVE TypeInv'
      BY <2>1, <3>2 DEF BindFails, LogOther, Crash, Dies
    <3>3. ASSUME NEW t \in Transfers, Advance(t) PROVE TypeInv'
      BY <2>1, <3>3 DEF Advance
    <3> QED BY <2>1, <3>1, <3>2, <3>3 DEF EnvNext
  <2>2. CASE Use
    <3>1. CASE New BY <3>1 DEF New, Goto
    <3>2. CASE End
      <4>1. EnvTypeOK'
        BY <3>2 DEF End, Dies
      <4>2. as_text' \in BOOLEAN /\ lang' = lang /\ told' = told /\ UNCHANGED history
        BY <3>2, Zenon DEF End, Gone
      <4> QED BY <3>2, <4>1, <4>2 DEF End, Gone
    <3>3. CASE Shutdown BY <3>3 DEF Shutdown, Dies
    <3>4. CASE Startup BY <3>4 DEF Startup
    <3>5. CASE StartTransfer \/ WaitTransfer BY <3>5 DEF StartTransfer, WaitTransfer
    <3>6. CASE Interrupt BY <3>6 DEF Interrupt, Gone
    <3> QED BY <2>2, <3>1, <3>2, <3>3, <3>4, <3>5, <3>6 DEF Use
  <2>3. CASE Step
    <3> USE DEF Goto, Return, StartupFails, StartupDone, Started
    <3>1. CASE Spawn BY <3>1 DEF Spawn, Spawned, Overtakes
    <3>2. CASE SpawnFails BY <3>2 DEF SpawnFails
    <3>3. CASE Probe BY <3>3 DEF Probe, Overtakes
    <3>4. CASE ReadPort BY <3>4 DEF ReadPort
    <3>5. CASE Connect
      <4>1. /\ service' \in {service, server_port} /\ unclean' \in BOOLEAN /\ lang' = lang
            /\ pc' \in {"verify", "idle", "request"} /\ call' \in {"none", call}
            /\ UNCHANGED <<envVars, server_port, as_text, process, child, stream, job, told,
                           mine, late>>
        BY <3>5 DEF Connect
      <4> QED BY <4>1
    <3>6. CASE Verify
      <4>1. /\ process' \in {process, None} /\ service' \in {service, None}
            /\ unclean' \in BOOLEAN /\ lang' = lang
            /\ pc' \in {"idle", "request"} /\ call' \in {"none", call}
            /\ Dies(process) \/ UNCHANGED <<dstate, dport>>
            /\ UNCHANGED <<last_line, status, host, server_port, as_text, child, stream, job,
                           told, mine, late>>
        BY <3>6 DEF Verify
      <4> QED BY <4>1 DEF Dies
    <3>7. CASE Request BY <3>7 DEF Request, Accept, Serving
    <3>8. CASE RequestFails BY <3>8 DEF RequestFails
    <3>9. CASE Answered BY <3>9 DEF Answered, Gone
    <3>10. CASE AnswerLost BY <3>10 DEF AnswerLost
    <3>11. CASE Wait
      <4>1. /\ pc = "wait" /\ stream' \in Daemons \cup {stream, host[job]} /\ lang' = lang
            /\ pc' \in {"idle", "next", "sleep"} /\ call' \in {"none", call}
            /\ \E v \in {"success", "failure"} : told' \in {told, [told EXCEPT ![job] = v]}
            /\ UNCHANGED <<envVars, server_port, as_text, process, child, service, job,
                           history>>
        BY <3>11 DEF Wait, Hears, Serving
      <4> QED BY <4>1
    <3>12. CASE NextEvent BY <3>12 DEF NextEvent, Hears
    <3>13. CASE Sleep BY <3>13 DEF Sleep
    <3>14. CASE Uncaught BY <3>14 DEF Uncaught, Gone
    <3> QED BY <2>3, <3>1, <3>2, <3>3, <3>4, <3>5, <3>6, <3>7, <3>8, <3>9, <3>10,
               <3>11, <3>12, <3>13, <3>14 DEF Step
  <2>4. CASE UNCHANGED vars BY <2>4 DEF vars
  <2> QED BY <2>1, <2>2, <2>3, <2>4 DEF Next
<1> QED BY <1>1, <1>2, PTL DEF Spec

(* The type invariant of ClientLibrary holds for every instance.           *)
THEOREM LibraryTyping == Spec => []TypeOK
<1>1. TypeInv => TypeOK
  BY DEF TypeInv
<1> QED BY <1>1, TypeInductive, PTL

-----------------------------------------------------------------------------
(* Why verdicts are honest: within a run the object knows one port; the    *)
(* daemon of the transfer it holds keeps that port as long as it lives, so *)
(* it is the one that is asked, and the one whose events are read.         *)
HostInv ==
    \A t \in Transfers :
        /\ host[t] = None <=> status[t] = "absent"
        /\ host[t] # None => dstate[host[t]] \in {"listening", "dead"}

PortsApart ==
    \A d, e \in Daemons :
        dstate[d] = "listening" /\ dstate[e] = "listening" /\ dport[d] = dport[e] => d = e

PortInv ==
    /\ service # None => service = server_port /\ server_port \in Ports
    /\ pc \in {"verify", "request", "accepted", "wait", "next", "sleep"} => service # None
    /\ pc = "connect" => server_port \in Ports
    /\ pc = "read_port" => server_port = AnyPort
    /\ pc = "gone" => service = None /\ job = None

JobInv ==
    job # None =>
        /\ status[job] # "absent"
        /\ dstate[host[job]] = "listening" => dport[host[job]] = server_port
        /\ pc = "next" /\ stream # None /\ dstate[host[job]] = "listening" =>
              host[job] = stream

FailureInv ==
    \A t \in Transfers : lang # "go" /\ told[t] = "failure" =>
        host[t] # None /\ (status[t] = "failed" \/ dstate[host[t]] = "dead")

SuccessInv == SuccessIsHonest /\ \A t \in Transfers : told[t] = "success" => host[t] # None

VerdictInv ==
    TypeInv /\ HostInv /\ PortsApart /\ PortInv /\ JobInv /\ FailureInv /\ SuccessInv

(* What the daemon asked says of the transfer that is held.                *)
LEMMA AnswerFromHost ==
    ASSUME VerdictInv, job # None, service # None
    PROVE  LET answer == Answer(service, job) IN
           /\ answer \in {"error", "unknown"} => dstate[host[job]] = "dead"
           /\ answer \notin {"error", "unknown"} => answer = status[job]
<1>1. job \in Transfers /\ host[job] \in Daemons
  BY DEF VerdictInv, TypeInv, TypeOK, EnvTypeOK, HostInv, JobInv
<1>2. dstate[host[job]] \in {"listening", "dead"}
  BY <1>1, TransferdAssumption DEF VerdictInv, HostInv
<1>3. dstate[host[job]] = "listening" => host[job] \in Serving(service)
  BY <1>1 DEF VerdictInv, JobInv, PortInv, Serving
<1>4. status[job] \notin {"error", "unknown"}
  BY <1>1 DEF VerdictInv, TypeInv, TypeOK, EnvTypeOK, Statuses
<1> QED BY <1>2, <1>3, <1>4 DEF Answer

(* An end of the wait that an honest answer brings about is honest.        *)
LEMMA HonestEnd ==
    ASSUME VerdictInv, NEW answer, NEW again, job # None, Hears(answer, again),
           UNCHANGED <<status, host, dstate, lang>>,
           answer \in {"error", "unknown"} => dstate[host[job]] = "dead",
           answer \notin {"error", "unknown", "end"} => answer = status[job]
    PROVE  FailureInv' /\ SuccessInv'
<1>1. lang \in Languages /\ job \in Transfers /\ told \in [Transfers -> {"nothing", "success", "failure"}]
      /\ host[job] # None /\ status[job] \in Statuses
  BY DEF VerdictInv, TypeInv, TypeOK, EnvTypeOK, HostInv, JobInv
<1>2. /\ C.raises \subseteq {"error", "unknown", "failed", "end"}
      /\ lang \in DOMAIN Meaning => C.returns \subseteq Meaning[lang]
      /\ lang # "go" => "end" \notin C.raises
  BY <1>1, Classes DEF Meaning
<1>3. lang \in DOMAIN Meaning => Meaning[lang] \subseteq {"completed", "failed"}
  BY DEF Meaning
<1>4. FailureInv'
  BY <1>1, <1>2 DEF Hears, FailureInv, VerdictInv
<1>5. SuccessInv'
  BY <1>1, <1>2, <1>3 DEF Hears, SuccessInv, SuccessIsHonest, VerdictInv
<1> QED BY <1>4, <1>5

(* A process that ends, or no process at all, leaves the facts in place.   *)
LEMMA DiesKeepsVerdicts ==
    ASSUME VerdictInv, NEW d, Dies(d), UNCHANGED <<status, host, told, lang>>
    PROVE  /\ HostInv' /\ PortsApart' /\ FailureInv' /\ SuccessInv'
           /\ \A x \in Daemons : dstate'[x] = "listening" =>
                 dstate[x] = "listening" /\ dport'[x] = dport[x]
<1> USE DEF VerdictInv, TypeInv, TypeOK, EnvTypeOK
<1>1. \A x \in Daemons : dstate'[x] = "listening" =>
         dstate[x] = "listening" /\ dport'[x] = dport[x]
  BY DEF Dies, Alive
<1>2. \A x \in Daemons : dstate[x] = "dead" => dstate'[x] = "dead"
  BY DEF Dies, Alive
<1>3. \A x \in Daemons : dstate[x] \in {"listening", "dead"} =>
         dstate'[x] \in {"listening", "dead"}
  BY DEF Dies, Alive
<1>4. HostInv' BY <1>3 DEF HostInv
<1>5. PortsApart' BY <1>1 DEF PortsApart
<1>6. FailureInv' BY <1>2 DEF FailureInv
<1>7. SuccessInv' BY DEF SuccessInv, SuccessIsHonest
<1> QED BY <1>1, <1>4, <1>5, <1>6, <1>7

(* Hosts, ports, streams and verdicts stay consistent together.            *)
LEMMA VerdictsInductive == Spec => []VerdictInv
<1>1. Init /\ TypeInv => VerdictInv
  BY DEF Init, EnvInit, VerdictInv, TypeInv, HostInv, PortsApart, PortInv, JobInv,
     FailureInv, SuccessInv, SuccessIsHonest
<1>2. VerdictInv /\ TypeInv' /\ [Next]_vars => VerdictInv'
  <2> SUFFICES ASSUME VerdictInv, TypeInv', [Next]_vars
      PROVE (HostInv /\ PortsApart /\ PortInv /\ JobInv /\ FailureInv /\ SuccessInv)'
    BY DEF VerdictInv
  <2>0. TypeInv /\ (job # None => job \in Transfers /\ host[job] \in Daemons)
        /\ (lang \in DOMAIN Meaning => Meaning[lang] \subseteq {"completed", "failed"})
    BY TransferdAssumption
    DEF VerdictInv, TypeInv, TypeOK, EnvTypeOK, HostInv, JobInv, Meaning
  <2> USE TransferdAssumption, LibraryAssumption
      DEF VerdictInv, TypeInv, TypeOK, EnvTypeOK, ownVars, object, history, envVars
  <2>1. CASE EnvNext /\ UNCHANGED ownVars
    <3>1. ASSUME NEW d \in Daemons, Bind(d) PROVE VerdictInv'
      BY <2>0, <2>1, <3>1 DEF Bind, Free, Serving, HostInv, PortsApart, PortInv, JobInv,
         FailureInv, SuccessInv, SuccessIsHonest
    <3>2. ASSUME NEW d \in Daemons, BindFails(d) \/ Crash(d) PROVE VerdictInv'
      <4>1. Dies(d) /\ UNCHANGED <<status, host, told, lang>>
        BY <2>1, <3>2 DEF BindFails, Crash
      <4>2. PortInv' /\ JobInv'
        BY <2>0, <2>1, <4>1, DiesKeepsVerdicts DEF PortInv, JobInv
      <4> QED BY <4>1, <4>2, DiesKeepsVerdicts
    <3>3. ASSUME NEW d \in Daemons, LogOther(d) PROVE VerdictInv'
      BY <2>0, <2>1, <3>3 DEF LogOther, HostInv, PortsApart, PortInv, JobInv,
         FailureInv, SuccessInv, SuccessIsHonest
    <3>4. ASSUME NEW t \in Transfers, Advance(t) PROVE VerdictInv'
      BY <2>0, <2>1, <3>4 DEF Advance, HostInv, PortsApart, PortInv, JobInv,
         FailureInv, SuccessInv, SuccessIsHonest
    <3> QED BY <2>1, <3>1, <3>2, <3>3, <3>4 DEF EnvNext
  <2>2. CASE Use
    <3>1. CASE New \/ Startup \/ StartTransfer \/ WaitTransfer \/ Interrupt
      BY <2>0, <3>1 DEF New, Startup, StartTransfer, WaitTransfer, Interrupt, Gone, Goto,
         HostInv, PortsApart, PortInv, JobInv, FailureInv, SuccessInv, SuccessIsHonest
    <3>2. CASE End
      <4>1. (Dies(process) \/ UNCHANGED <<dstate, dport>>)
            /\ UNCHANGED <<status, host, told, lang>> /\ Gone
        BY <3>2 DEF End, Gone
      <4>2. PortInv' /\ JobInv'
        BY <4>1 DEF Gone, PortInv, JobInv
      <4>3. (HostInv /\ PortsApart /\ FailureInv /\ SuccessInv)'
        BY <4>1, DiesKeepsVerdicts DEF HostInv, PortsApart, FailureInv, SuccessInv,
           SuccessIsHonest
      <4> QED BY <4>2, <4>3
    <3>3. CASE Shutdown
      <4>1. (Dies(process) \/ UNCHANGED <<dstate, dport>>)
            /\ service' \in {service, None} /\ pc = "idle"
            /\ UNCHANGED <<status, host, told, lang, pc, job, server_port, stream>>
        BY <3>3 DEF Shutdown
      <4>2. (HostInv /\ PortsApart /\ FailureInv /\ SuccessInv)'
        BY <4>1, DiesKeepsVerdicts DEF HostInv, PortsApart, FailureInv, SuccessInv,
           SuccessIsHonest
      <4>3. PortInv' /\ JobInv'
        BY <2>0, <4>1, DiesKeepsVerdicts DEF PortInv, JobInv
      <4> QED BY <4>2, <4>3
    <3> QED BY <2>2, <3>1, <3>2, <3>3 DEF Use
  <2>3. CASE Step
    <3> USE DEF Goto, Return, StartupFails, StartupDone, Started
    <3>1. CASE Spawn
      BY <2>0, <3>1 DEF Spawn, Spawned, HostInv, PortsApart, PortInv, JobInv, FailureInv,
         SuccessInv, SuccessIsHonest
    <3>2. CASE SpawnFails \/ RequestFails \/ AnswerLost \/ Sleep
      BY <2>0, <3>2 DEF SpawnFails, RequestFails, AnswerLost, Sleep, HostInv, PortsApart,
         PortInv, JobInv, FailureInv, SuccessInv, SuccessIsHonest
    <3>3. CASE Probe
      <4>1. /\ pc = "probe"
            /\ \/ pc' = "read_port" /\ server_port = AnyPort
               \/ pc' = "connect" /\ server_port # AnyPort
               \/ pc' = "idle"
            /\ UNCHANGED <<envVars, lang, server_port, service, stream, job, told>>
        BY <3>3 DEF Probe
      <4> QED BY <2>0, <4>1 DEF HostInv, PortsApart, PortInv, JobInv, FailureInv,
                SuccessInv, SuccessIsHonest
    <3>4. CASE ReadPort
      BY <2>0, <3>4 DEF ReadPort, HostInv, PortsApart, PortInv, JobInv, FailureInv,
         SuccessInv, SuccessIsHonest
    <3>5. CASE Connect
      <4>1. /\ pc = "connect"
            /\ \/ pc' \in {"idle", "request", "verify"} /\ service' = server_port
               \/ pc' = "idle" /\ UNCHANGED service
            /\ UNCHANGED <<envVars, lang, server_port, stream, job, told>>
        BY <3>5 DEF Connect
      <4> QED BY <2>0, <4>1 DEF HostInv, PortsApart, PortInv, JobInv, FailureInv,
                SuccessInv, SuccessIsHonest
    <3>6. CASE Verify
      <4>1. /\ Dies(process) \/ UNCHANGED <<dstate, dport>>
            /\ \/ pc' = "idle" /\ service' \in {service, None}
               \/ pc' = "request" /\ UNCHANGED service
            /\ pc = "verify"
            /\ UNCHANGED <<status, host, lang, server_port, stream, job, told>>
        BY <3>6 DEF Verify
      <4>2. (HostInv /\ PortsApart /\ FailureInv /\ SuccessInv)'
        BY <4>1, DiesKeepsVerdicts DEF HostInv, PortsApart, FailureInv, SuccessInv,
           SuccessIsHonest
      <4>3. PortInv' /\ JobInv'
        BY <2>0, <4>1, DiesKeepsVerdicts DEF PortInv, JobInv
      <4> QED BY <4>2, <4>3
    <3>7. CASE Request
      BY <2>0, <3>7 DEF Request, Accept, Serving, HostInv, PortsApart, PortInv, JobInv,
         FailureInv, SuccessInv, SuccessIsHonest
    <3>8. CASE Answered
      <4>1. /\ UNCHANGED <<envVars, lang, told>>
            /\ \/ pc' \in {"idle", "wait"} /\ job' \in {job, None} /\ pc = "accepted"
                  /\ UNCHANGED <<server_port, service, stream>>
               \/ Gone
        BY <3>8 DEF Answered, Gone
      <4> QED BY <2>0, <4>1 DEF Gone, HostInv, PortsApart, PortInv, JobInv, FailureInv,
                SuccessInv, SuccessIsHonest
    <3>9. CASE Wait
      <4>0. job # None /\ service # None /\ pc = "wait"
        BY <3>9 DEF Wait, WaitsInv, PortInv
      <4>1. CASE UNCHANGED told /\ pc' = "next" /\ stream' \in Serving(service) \cup {host[job]}
        <5>1. UNCHANGED <<envVars, lang, server_port, service, job, told>>
          BY <3>9, <4>1 DEF Wait, Hears
        <5>2. dstate[host[job]] = "listening" => host[job] = stream'
          BY <2>0, <4>0, <4>1 DEF Serving, PortsApart, PortInv, JobInv
        <5>3. PortInv' /\ JobInv'
          BY <4>0, <4>1, <5>1, <5>2 DEF PortInv, JobInv
        <5> QED BY <5>1, <5>3 DEF HostInv, PortsApart, FailureInv, SuccessInv, SuccessIsHonest
      <4>2. CASE Hears(Answer(service, job), "sleep")
        <5>1. FailureInv' /\ SuccessInv'
          BY <3>9, <4>0, <4>2, AnswerFromHost, HonestEnd DEF Wait, Hears
        <5>2. (HostInv /\ PortsApart /\ PortInv /\ JobInv)'
          BY <2>0, <3>9, <4>0, <4>2 DEF Wait, Hears, HostInv, PortsApart, PortInv, JobInv
        <5> QED BY <5>1, <5>2
      <4> QED BY <3>9, <4>1, <4>2 DEF Wait
    <3>10. CASE NextEvent
      <4>1. PICK event \in IF ~Alive(stream) THEN {"error"}
                 ELSE {IF host[job] = stream THEN status[job] ELSE "unknown", "end"} :
               Hears(event, "next") /\ stream' \in {stream, None}
        BY <3>10 DEF NextEvent
      <4>2. job # None /\ service # None /\ stream # None /\ pc = "next"
        BY <3>10 DEF NextEvent, WaitsInv, PortInv
      <4>3. dstate[host[job]] \in {"listening", "dead"}
            /\ (dstate[host[job]] = "listening" => host[job] = stream)
            /\ status[job] \notin {"error", "unknown", "end"}
        BY <2>0, <4>2 DEF HostInv, JobInv, Statuses
      <4>4. /\ event \in {"error", "unknown"} => dstate[host[job]] = "dead"
            /\ event \notin {"error", "unknown", "end"} => event = status[job]
        BY <4>1, <4>3 DEF Alive
      <4>5. FailureInv' /\ SuccessInv'
        <5>1. UNCHANGED <<status, host, dstate, lang>>
          BY <3>10, <4>1 DEF NextEvent, Hears
        <5> QED BY <4>1, <4>2, <4>4, <5>1, HonestEnd
      <4>6. (HostInv /\ PortsApart /\ PortInv /\ JobInv)'
        BY <2>0, <3>10, <4>1, <4>2 DEF NextEvent, Hears, HostInv, PortsApart, PortInv, JobInv
      <4> QED BY <4>5, <4>6
    <3>11. CASE Uncaught
      <4>1. CASE UNCHANGED told
        BY <2>0, <3>11, <4>1 DEF Uncaught, Gone, HostInv, PortsApart, PortInv, JobInv,
           FailureInv, SuccessInv, SuccessIsHonest
      <4>2. CASE /\ pc = "next" /\ stream # None /\ (~Alive(stream) \/ status[job] = "failed")
                 /\ told' = [told EXCEPT ![job] = "failure"]
        <5>1. job # None /\ host[job] # None
              /\ (status[job] = "failed" \/ dstate[host[job]] = "dead")
          BY <2>0, <4>2 DEF WaitsInv, HostInv, JobInv, Alive
        <5> QED BY <2>0, <3>11, <4>2, <5>1 DEF Uncaught, Gone, HostInv, PortsApart, PortInv,
                  JobInv, FailureInv, SuccessInv, SuccessIsHonest
      <4> QED BY <3>11, <4>1, <4>2 DEF Uncaught
    <3> QED BY <2>3, <3>1, <3>2, <3>3, <3>4, <3>5, <3>6, <3>7, <3>8, <3>9, <3>10, <3>11
            DEF Step
  <2>4. CASE UNCHANGED vars
    BY <2>4 DEF vars, HostInv, PortsApart, PortInv, JobInv, FailureInv, SuccessInv,
       SuccessIsHonest
  <2> QED BY <2>1, <2>2, <2>3, <2>4 DEF Next
<1> QED BY <1>1, <1>2, TypeInductive, PTL DEF Spec

(* In Go, C++, JavaScript and C#, a wait that ends well was for a transfer *)
(* that its daemon completed (or, in C#, ended), for any number of daemons.*)
THEOREM LibrarySuccess == Spec => []SuccessIsHonest
<1>1. VerdictInv => SuccessIsHonest
  BY DEF VerdictInv, SuccessInv
<1> QED BY <1>1, VerdictsInductive, PTL

(* In every class but Go's, a wait that raises was for a transfer that     *)
(* failed or whose daemon is dead: no other daemon is mistaken for it.     *)
THEOREM LibraryFailure == Spec => []FailureIsHonest
<1>1. VerdictInv => FailureIsHonest
  BY DEF VerdictInv, FailureInv, FailureIsHonest, Alive
<1> QED BY <1>1, VerdictsInductive, PTL

-----------------------------------------------------------------------------
(* What the classes remember.  Java's is the only one below that starts a  *)
(* daemon with a service in place; its connection then fails.              *)
LEMMA Memory ==
    ASSUME lang \in Languages
    PROVE  /\ lang \in {"go", "ruby", "csharp", "cpp", "java"} => C.kills
           /\ lang \in {"go", "python", "ruby", "csharp", "cpp"} => C.guarded
           /\ lang = "java" => ~C.guarded /\ C.connect = "early"
           /\ C.connect \in {"blindly", "ready", "early", "anew"}
           /\ C.connect = "anew" <=> lang = "javascript"
           /\ lang \in {"ruby", "csharp", "cpp"} =>
                 C.kept = "spawned" /\ C.clears = {"process", "service"}
           /\ lang \in {"python", "ruby", "csharp", "java"} => C.probe /\ C.config
BY LibraryAssumption
   DEF C, Class, Go, Python, Ruby, CSharp, Cpp, Java, JavaScript

(* A service implies a process that was not shut down, in the classes that *)
(* clear both; those that are guarded start a daemon without a service.    *)
ProcessInv ==
    /\ pc \in {"probe", "read_port"} => child \in Daemons
    /\ lang \in {"go", "python", "ruby", "csharp", "cpp"}
          /\ pc \in {"spawn", "probe", "read_port", "connect"} => service = None
    /\ lang \in {"ruby", "csharp", "cpp"} /\ (service # None \/ pc = "connect") =>
          process # None

(* The daemons of a clean run that are alive: none without a service, then *)
(* the one being started, then the one the object remembers.               *)
MineInv ==
    lang \notin {"python", "javascript"} /\ ~unclean => \A d \in mine : Alive(d) =>
        /\ ~(pc \in {"idle", "spawn"} /\ service = None)
        /\ pc \in {"probe", "read_port"} /\ service = None => d = child
        /\ (service # None /\ pc \notin {"probe", "read_port", "connect"})
              \/ (service = None /\ pc = "connect") => d = process

MemoryInv == VerdictInv /\ ProcessInv /\ MineInv

(* A process that ends leaves both facts in place.                         *)
LEMMA DiesKeepsMemory ==
    ASSUME MemoryInv, NEW d, Dies(d)
    PROVE  \A x \in Daemons : Alive(x)' => Alive(x) /\ x # d
BY DEF Dies, Alive, MemoryInv, VerdictInv, TypeInv, TypeOK, EnvTypeOK

(* What an object remembers agrees with the daemons that there are.        *)
LEMMA MemoryInductive == Spec => []MemoryInv
<1>1. Init /\ VerdictInv => MemoryInv
  BY DEF Init, MemoryInv, ProcessInv, MineInv
<1>2. MemoryInv /\ VerdictInv' /\ [Next]_vars => MemoryInv'
  <2> SUFFICES ASSUME MemoryInv, VerdictInv', [Next]_vars
      PROVE ProcessInv' /\ MineInv'
    BY DEF MemoryInv
  <2>0. /\ TypeInv /\ PortInv
        /\ lang \in {"go", "ruby", "csharp", "cpp", "java"} => C.kills
        /\ lang \in {"go", "python", "ruby", "csharp", "cpp"} => C.guarded
        /\ lang = "java" => ~C.guarded /\ C.connect = "early"
        /\ C.connect \in {"blindly", "ready", "early", "anew"}
        /\ C.connect = "anew" <=> lang = "javascript"
        /\ lang \in {"ruby", "csharp", "cpp"} =>
              C.kept = "spawned" /\ C.clears = {"process", "service"}
    BY Memory DEF MemoryInv, VerdictInv, TypeInv, TypeOK
  <2> USE TransferdAssumption, LibraryAssumption
      DEF MemoryInv, ProcessInv, MineInv, TypeInv, TypeOK, EnvTypeOK, ownVars, object,
          history, envVars, PortInv
  <2>1. CASE EnvNext /\ UNCHANGED ownVars
    <3>1. \A x \in mine : Alive(x)' => Alive(x)
      BY <2>0, <2>1 DEF EnvNext, Bind, BindFails, LogOther, Crash, Advance, Dies, Alive
    <3> QED BY <2>0, <2>1, <3>1
  <2>2. CASE Use
    <3>1. CASE New BY <2>0, <3>1 DEF New, Goto, Alive
    <3>2. CASE End \/ Interrupt BY <2>0, <3>2 DEF End, Interrupt, Gone
    <3>3. CASE Shutdown
      <4>1. CASE lang \in {"go", "ruby", "csharp", "cpp", "java"}
        <5>1. Dies(process) BY <2>0, <3>3, <4>1 DEF Shutdown
        <5>2. ~unclean => \A x \in mine : ~Alive(x)'
          BY <2>0, <3>3, <4>1, <5>1, DiesKeepsMemory DEF Shutdown, Alive
        <5> QED BY <2>0, <3>3, <4>1, <5>2 DEF Shutdown
      <4> QED BY <2>0, <3>3, <4>1 DEF Shutdown
    <3>4. CASE Startup
      BY <2>0, <3>4 DEF Startup, Alive
    <3>5. CASE StartTransfer \/ WaitTransfer
      BY <2>0, <3>5 DEF StartTransfer, WaitTransfer, Alive
    <3> QED BY <2>2, <3>1, <3>2, <3>3, <3>4, <3>5 DEF Use
  <2>3. CASE Step
    <3> USE DEF Goto, Return, StartupFails, StartupDone, Started
    <3>1. CASE Spawn
      <4>1. PICK d \in Daemons :
               /\ dstate' = [dstate EXCEPT ![d] = "starting"] /\ child' = d
               /\ mine' = mine \cup {d} /\ pc' = "probe" /\ pc = "spawn"
               /\ UNCHANGED <<lang, service, unclean>>
               /\ process' = IF C.kept = "spawned" THEN d ELSE process
        BY <3>1 DEF Spawn, Spawned
      <4> QED BY <2>0, <4>1 DEF Alive
    <3>2. CASE SpawnFails BY <2>0, <3>2 DEF SpawnFails, Alive
    <3>3. CASE Probe
      <4>1. /\ pc = "probe" /\ UNCHANGED <<envVars, lang, service, mine>>
            /\ \/ pc' = "read_port" /\ UNCHANGED <<child, process, unclean>>
               \/ pc' = "connect" /\ process' = child /\ UNCHANGED unclean
               \/ pc' = "idle" /\ unclean' /\ process' \in {process, None}
        BY <3>3 DEF Probe
      <4> QED BY <2>0, <4>1 DEF Alive
    <3>4. CASE ReadPort BY <2>0, <3>4 DEF ReadPort, Alive
    <3>5. CASE Connect
      <4>1. /\ pc = "connect" /\ UNCHANGED <<envVars, lang, process, child, mine>>
            /\ server_port # None
            /\ \/ pc' \in {"idle", "request", "verify"} /\ service' = server_port
                  /\ UNCHANGED unclean
                  /\ (lang = "java" => service = None)
               \/ pc' = "idle" /\ UNCHANGED service /\ unclean'
        BY <2>0, <3>5 DEF Connect
      <4> QED BY <2>0, <4>1 DEF Alive
    <3>6. CASE Verify
      <4>1. /\ pc = "verify" /\ UNCHANGED <<lang, child, mine>>
            /\ \/ pc' \in {"idle", "request"} /\ UNCHANGED <<dstate, service, process, unclean>>
               \/ pc' = "idle" /\ unclean'
                  /\ \/ process' = None /\ service' = None
                     \/ UNCHANGED <<service, process>>
        BY <3>6 DEF Verify
      <4> QED BY <2>0, <4>1 DEF Alive
    <3>7. CASE Request \/ RequestFails \/ AnswerLost \/ Sleep
      BY <2>0, <3>7 DEF Request, Accept, RequestFails, AnswerLost, Sleep, Alive
    <3>8. CASE Answered BY <2>0, <3>8 DEF Answered, Gone, Alive
    <3>9. CASE Wait \/ NextEvent
      <4>1. pc \in {"wait", "next"} /\ pc' \in {"idle", "next", "sleep"}
            /\ UNCHANGED <<dstate, lang, service, process, child, unclean, mine>>
        BY <3>9 DEF Wait, NextEvent, Hears
      <4> QED BY <2>0, <4>1 DEF Alive
    <3>10. CASE Uncaught BY <2>0, <3>10 DEF Uncaught, Gone, Alive
    <3> QED BY <2>3, <3>1, <3>2, <3>3, <3>4, <3>5, <3>6, <3>7, <3>8, <3>9, <3>10 DEF Step
  <2>4. CASE UNCHANGED vars BY <2>0, <2>4 DEF vars, Alive
  <2> QED BY <2>1, <2>2, <2>3, <2>4 DEF Next
<1> QED BY <1>1, <1>2, VerdictsInductive, PTL DEF Spec

(* In Ruby, C# and C++, no transfer is requested after a shutdown but with *)
(* a daemon that was started since.                                        *)
THEOREM LibraryRequests == Spec => []RequestsHaveDaemon
<1>1. MemoryInv => RequestsHaveDaemon
  BY DEF MemoryInv, VerdictInv, PortInv, ProcessInv, RequestsHaveDaemon
<1> QED BY <1>1, MemoryInductive, PTL

(* In Go, Ruby, C#, C++ and Java, an object whose startups were good has   *)
(* not forgotten any daemon that still runs.                               *)
THEOREM LibraryForgetsNone == Spec => []NoneForgotten
<1>1. MemoryInv => NoneForgotten
  BY DEF MemoryInv, MineInv, NoneForgotten
<1> QED BY <1>1, MemoryInductive, PTL

-----------------------------------------------------------------------------
(* Why transfers run on the program's own daemon: as in the Rust client,   *)
(* the port it will connect to is held by a daemon of this run or nobody.  *)
(* Java may start a second daemon, which is one of this run as well.       *)
Settled == \A d \in Daemons : dstate[d] = "starting" => d \in mine
Reaches(p) == Serving(p) \subseteq mine

ProbeInv ==
    pc = "probe" =>
        /\ Settled /\ child \in mine
        /\ dstate[child] = "starting" => dport[child] = server_port
        /\ dstate[child] = "listening" =>
              Reaches(IF server_port = AnyPort THEN last_line ELSE server_port)

ReachInv ==
    lang \in {"python", "ruby", "csharp", "java"} /\ ~unclean /\ ~late =>
        /\ ProbeInv
        /\ pc = "read_port" => Settled /\ Reaches(last_line)
        /\ pc = "connect" => Settled /\ Reaches(server_port)
        /\ service # None => Settled /\ Reaches(service)
        /\ job # None => host[job] \in mine

OwnInv == MemoryInv /\ ReachInv

(* In Python, Ruby, C# and Java, a program whose startups were good and    *)
(* whose daemons were not late has its transfers run by its own daemon.    *)
THEOREM LibraryOwnDaemon == Spec => []RunsOnOwnDaemon
<1>1. Init /\ MemoryInv => OwnInv
  BY DEF Init, OwnInv, ReachInv, ProbeInv
<1>2. OwnInv /\ MemoryInv' /\ [Next]_vars => OwnInv'
  <2> SUFFICES ASSUME OwnInv, MemoryInv', [Next]_vars PROVE ReachInv'
    BY DEF OwnInv
  <2>0. /\ TypeInv /\ PortInv /\ PortsApart
        /\ pc \in {"probe", "read_port"} => child \in Daemons
        /\ job # None => job \in Transfers
        /\ lang \in {"python", "ruby", "csharp", "java"} => C.probe /\ C.config
    BY Memory DEF OwnInv, MemoryInv, VerdictInv, TypeInv, TypeOK, ProcessInv
  <2> USE TransferdAssumption, LibraryAssumption
      DEF OwnInv, ReachInv, ProbeInv, TypeInv, TypeOK, EnvTypeOK, ownVars, object,
          history, envVars, PortInv, PortsApart, Settled, Reaches, Serving
  <2>1. CASE EnvNext /\ UNCHANGED ownVars
    <3>1. ASSUME NEW d \in Daemons, Bind(d) PROVE ReachInv'
      BY <2>0, <2>1, <3>1 DEF Bind, Free
    <3>2. ASSUME NEW d \in Daemons, BindFails(d) PROVE ReachInv'
      BY <2>0, <2>1, <3>2 DEF BindFails, Dies, Alive
    <3>3. ASSUME NEW d \in Daemons, Crash(d) PROVE ReachInv'
      BY <2>0, <2>1, <3>3 DEF Crash, Dies, Alive
    <3>4. ASSUME NEW d \in Daemons, LogOther(d) PROVE ReachInv'
      BY <2>0, <2>1, <3>4 DEF LogOther
    <3>5. ASSUME NEW t \in Transfers, Advance(t) PROVE ReachInv'
      BY <2>0, <2>1, <3>5 DEF Advance
    <3> QED BY <2>1, <3>1, <3>2, <3>3, <3>4, <3>5 DEF EnvNext
  <2>2. CASE Use
    <3>1. CASE New BY <2>0, <3>1 DEF New, Goto
    <3>2. CASE End \/ Interrupt BY <2>0, <3>2 DEF End, Interrupt, Gone
    <3>3. CASE Shutdown BY <2>0, <3>3 DEF Shutdown, Dies, Alive
    <3>4. CASE Startup \/ StartTransfer \/ WaitTransfer
      BY <2>0, <3>4 DEF Startup, StartTransfer, WaitTransfer
    <3> QED BY <2>2, <3>1, <3>2, <3>3, <3>4 DEF Use
  <2>3. CASE Step
    <3> USE DEF Goto, Return, StartupFails, StartupDone, Started
    <3>1. CASE Spawn
      <4>1. CASE lang \in {"python", "ruby", "csharp", "java"} /\ ~unclean' /\ ~late'
        <5>1. PICK d \in Daemons :
                 Spawned(d, server_port) /\ child' = d /\ mine' = mine \cup {d}
          BY <2>0, <3>1, <4>1 DEF Spawn
        <5>2. /\ pc' = "probe" /\ \A x \in Daemons : dstate[x] # "starting"
              /\ ~unclean /\ ~late
              /\ UNCHANGED <<lang, server_port, service, job, host>>
          BY <3>1, <4>1 DEF Spawn, Overtakes
        <5> QED BY <2>0, <4>1, <5>1, <5>2 DEF Spawned
      <4> QED BY <3>1, <4>1 DEF Spawn
    <3>2. CASE SpawnFails \/ RequestFails \/ AnswerLost \/ Sleep
      BY <2>0, <3>2 DEF SpawnFails, RequestFails, AnswerLost, Sleep
    <3>3. CASE Probe
      <4>1. CASE lang \in {"python", "ruby", "csharp", "java"} /\ ~unclean' /\ ~late'
        <5>1. /\ pc = "probe" /\ Alive(child)
              /\ \A d \in Daemons : dstate[d] # "starting"
              /\ IF server_port = AnyPort THEN pc' = "read_port" ELSE pc' = "connect"
              /\ ~unclean /\ ~late
              /\ UNCHANGED <<envVars, lang, server_port, service, stream, job, told, mine>>
          BY <2>0, <3>3, <4>1 DEF Probe, Overtakes
        <5> QED BY <2>0, <4>1, <5>1 DEF Alive
      <4> QED BY <3>3, <4>1 DEF Probe
    <3>4. CASE ReadPort BY <2>0, <3>4 DEF ReadPort
    <3>5. CASE Connect
      <4>1. /\ pc = "connect" /\ UNCHANGED <<envVars, lang, server_port, job, mine, late>>
            /\ pc' \in {"idle", "request", "verify"}
            /\ service' \in {service, server_port} /\ (unclean => unclean')
        BY <3>5 DEF Connect
      <4> QED BY <2>0, <4>1
    <3>6. CASE Verify
      <4>1. /\ UNCHANGED <<last_line, status, host, lang, server_port, job, mine, late>>
            /\ pc' \in {"idle", "request"}
            /\ \/ UNCHANGED <<dstate, dport, service, unclean>>
               \/ unclean'
        BY <3>6 DEF Verify
      <4> QED BY <2>0, <4>1
    <3>7. CASE Request BY <2>0, <3>7 DEF Request, Accept
    <3>8. CASE Answered BY <2>0, <3>8 DEF Answered, Gone
    <3>9. CASE Wait \/ NextEvent
      <4>1. pc' \in {"idle", "next", "sleep"}
            /\ UNCHANGED <<envVars, lang, server_port, service, job, mine, unclean, late>>
        BY <3>9 DEF Wait, NextEvent, Hears
      <4> QED BY <2>0, <4>1
    <3>10. CASE Uncaught BY <2>0, <3>10 DEF Uncaught, Gone
    <3> QED BY <2>3, <3>1, <3>2, <3>3, <3>4, <3>5, <3>6, <3>7, <3>8, <3>9, <3>10 DEF Step
  <2>4. CASE UNCHANGED vars BY <2>0, <2>4 DEF vars
  <2> QED BY <2>1, <2>2, <2>3, <2>4 DEF Next
<1>3. OwnInv => RunsOnOwnDaemon
  BY DEF OwnInv, ReachInv, RunsOnOwnDaemon, OnOwnDaemon
<1> QED BY <1>1, <1>2, <1>3, MemoryInductive, PTL DEF Spec
-----------------------------------------------------------------------------
(* The promise that TransferJobs makes to the caller of a wait.            *)
Up == {t \in Transfers : host[t] # None /\ dstate[host[t]] = "listening"}
Promise == INSTANCE TransferJobs WITH up <- Up

(* A step that neither moves a transfer nor tells a verdict loses some     *)
(* transfers at most.                                                      *)
LEMMA QuietStep ==
    ASSUME UNCHANGED <<status, told>>, Up' \in SUBSET Up
    PROVE  [Promise!Next]_(Promise!vars)
BY DEF Promise!Next, Promise!Lose, Promise!vars

(* A process that ends takes transfers away, and adds none.                *)
LEMMA DiesLosesTransfers ==
    ASSUME NEW d, TypeOK, Dies(d), UNCHANGED host
    PROVE  Up' \in SUBSET Up
BY DEF Dies, Alive, Up, TypeOK, EnvTypeOK

(* A verdict that C++ or JavaScript gives is one that the promise allows.  *)
LEMMA VerdictStep ==
    ASSUME VerdictInv, VerdictInv', lang \in {"cpp", "javascript"}, lang' = lang,
           UNCHANGED <<status, host, dstate>>, job # None,
           NEW v \in {"success", "failure"}, told' = [told EXCEPT ![job] = v]
    PROVE  [Promise!Next]_(Promise!vars)
<1>1. /\ job \in Transfers /\ host[job] # None /\ status[job] # "absent"
      /\ told'[job] = v /\ Up' = Up
  BY DEF VerdictInv, TypeInv, TypeOK, HostInv, JobInv, Up
<1>2. CASE v = "success"
  <2>1. status[job] = "completed"
    BY <1>1, <1>2 DEF VerdictInv, SuccessInv, SuccessIsHonest, Meaning
  <2>2. Promise!TellSuccess(job)
    BY <1>1, <1>2, <2>1 DEF Promise!TellSuccess
  <2> QED BY <1>1, <2>2 DEF Promise!Next
<1>3. CASE v = "failure"
  <2>1. status[job] = "failed" \/ job \notin Up
    BY <1>1, <1>3 DEF VerdictInv, FailureInv, Up
  <2>2. Promise!TellFailure(job)
    BY <1>1, <1>3, <2>1 DEF Promise!TellFailure
  <2> QED BY <1>1, <2>2 DEF Promise!Next
<1> QED BY <1>2, <1>3

(* The C++ and the JavaScript classes keep the promise of TransferJobs, as *)
(* the Rust one does: what they tell of a transfer is what its daemon had  *)
(* to say, whatever daemon they have reached and whatever died meanwhile.  *)
THEOREM LibraryKeepsPromise ==
    ASSUME Languages \subseteq {"cpp", "javascript"}
    PROVE  Spec => Promise!Spec
<1>1. Init => Promise!Init
  BY DEF Init, EnvInit, Promise!Init, Up
<1>2. VerdictInv /\ VerdictInv' /\ [Next]_vars => [Promise!Next]_(Promise!vars)
  <2> SUFFICES ASSUME VerdictInv, VerdictInv', [Next]_vars
      PROVE [Promise!Next]_(Promise!vars)
    OBVIOUS
  <2>0. TypeOK /\ TypeOK' /\ lang \in {"cpp", "javascript"}
    BY DEF VerdictInv, TypeInv, TypeOK
  <2> USE DEF ownVars, object, history, envVars
  <2>1. CASE EnvNext /\ UNCHANGED ownVars
    <3>1. ASSUME NEW d \in Daemons, Bind(d) PROVE [Promise!Next]_(Promise!vars)
      <4>1. \A t \in Transfers : host[t] # d
        BY <3>1, TransferdAssumption DEF Bind, VerdictInv, HostInv
      <4>2. Up' \in SUBSET Up
        BY <2>0, <3>1, <4>1 DEF Bind, Up, TypeOK, EnvTypeOK
      <4> QED BY <2>1, <3>1, <4>2, QuietStep DEF Bind
    <3>2. ASSUME NEW d \in Daemons, BindFails(d) \/ Crash(d)
          PROVE [Promise!Next]_(Promise!vars)
      <4>1. Dies(d) /\ UNCHANGED <<status, host, told>>
        BY <2>1, <3>2 DEF BindFails, Crash
      <4> QED BY <2>0, <4>1, DiesLosesTransfers, QuietStep
    <3>3. ASSUME NEW d \in Daemons, LogOther(d) PROVE [Promise!Next]_(Promise!vars)
      <4>1. Up' \in SUBSET Up
        BY <3>3 DEF LogOther, Up
      <4> QED BY <2>1, <3>3, <4>1, QuietStep DEF LogOther
    <3>4. ASSUME NEW t \in Transfers, Advance(t) PROVE [Promise!Next]_(Promise!vars)
      <4>1. t \in Up /\ Up' = Up
        BY <3>4, TransferdAssumption DEF Advance, Up
      <4>2. PICK s \in {"running", "completed", "failed"} :
               /\ <<status[t], s>> \in {<<"queued", "running">>, <<"queued", "failed">>,
                                       <<"running", "completed">>, <<"running", "failed">>}
               /\ status' = [status EXCEPT ![t] = s]
        BY <3>4 DEF Advance
      <4>3. Promise!Advance(t)
        BY <2>1, <4>1, <4>2 DEF Promise!Advance
      <4> QED BY <4>3 DEF Promise!Next
    <3> QED BY <2>1, <3>1, <3>2, <3>3, <3>4 DEF EnvNext
  <2>2. CASE Use
    <3>1. CASE New \/ Startup \/ StartTransfer \/ WaitTransfer \/ Interrupt
      <4>1. UNCHANGED <<status, told, host, dstate>>
        BY <3>1 DEF New, Startup, StartTransfer, WaitTransfer, Interrupt
      <4> QED BY <4>1, QuietStep DEF Up
    <3>2. CASE End \/ Shutdown
      <4>1. /\ Dies(process) \/ UNCHANGED <<dstate, dport>>
            /\ UNCHANGED <<status, host, told>>
        BY <3>2 DEF End, Shutdown
      <4>2. Up' \in SUBSET Up
        BY <2>0, <4>1, DiesLosesTransfers DEF Up
      <4> QED BY <4>1, <4>2, QuietStep
    <3> QED BY <2>2, <3>1, <3>2 DEF Use
  <2>3. CASE Step
    <3>1. CASE Spawn
      <4>1. UNCHANGED <<status, told, host>> /\ Up' \in SUBSET Up
        BY <2>0, <3>1 DEF Spawn, Spawned, Up, TypeOK, EnvTypeOK
      <4> QED BY <4>1, QuietStep
    <3>2. CASE SpawnFails \/ Probe \/ ReadPort \/ Connect \/ RequestFails \/ Answered
               \/ AnswerLost \/ Sleep
      <4>1. UNCHANGED <<status, told, host, dstate>>
        BY <3>2 DEF SpawnFails, Probe, ReadPort, Connect, RequestFails, Answered,
           AnswerLost, Sleep
      <4> QED BY <4>1, QuietStep DEF Up
    <3>3. CASE Verify
      <4>1. /\ Dies(process) \/ UNCHANGED <<dstate, dport>>
            /\ UNCHANGED <<status, host, told>>
        BY <3>3 DEF Verify
      <4>2. Up' \in SUBSET Up
        BY <2>0, <4>1, DiesLosesTransfers DEF Up
      <4> QED BY <4>1, <4>2, QuietStep
    <3>4. CASE Request
      <4>1. PICK d \in Serving(service), t \in Transfers : Accept(d, t)
        BY <3>4 DEF Request
      <4>2. Up' = Up \cup {t}
        BY <2>0, <4>1, TransferdAssumption
           DEF Accept, Serving, Up, TypeOK, EnvTypeOK, VerdictInv, HostInv
      <4>3. Promise!Submit(t)
        BY <3>4, <4>1, <4>2 DEF Request, Accept, Promise!Submit
      <4> QED BY <4>3 DEF Promise!Next
    <3>5. CASE Wait \/ NextEvent \/ Uncaught
      <4>1. /\ UNCHANGED <<status, host, dstate>> /\ lang' = lang
            /\ \/ UNCHANGED told
               \/ /\ pc \in {"wait", "next"}
                  /\ \E v \in {"success", "failure"} : told' = [told EXCEPT ![job] = v]
        BY <3>5 DEF Wait, NextEvent, Uncaught, Hears, Goto, Return, Gone
      <4>2. CASE UNCHANGED told
        BY <4>1, <4>2, QuietStep DEF Up
      <4>3. CASE \E v \in {"success", "failure"} : told' = [told EXCEPT ![job] = v]
                 /\ pc \in {"wait", "next"}
        <5>1. job # None
          BY <4>3 DEF VerdictInv, TypeInv, WaitsInv
        <5> QED BY <2>0, <4>1, <4>3, <5>1, VerdictStep
      <4> QED BY <4>1, <4>2, <4>3
    <3> QED BY <2>3, <3>1, <3>2, <3>3, <3>4, <3>5 DEF Step
  <2>4. CASE UNCHANGED vars
    BY <2>4, QuietStep DEF vars, Up
  <2> QED BY <2>1, <2>2, <2>3, <2>4 DEF Next
<1> QED BY <1>1, <1>2, VerdictsInductive, PTL DEF Spec, Promise!Spec
=============================================================================
