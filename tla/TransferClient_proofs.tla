------------------------ MODULE TransferClient_proofs ------------------------
(***************************************************************************)
(* Proofs about TransferClient, for any number of programs, daemons, ports *)
(* and transfers: its types, the honesty of its verdicts, and that it      *)
(* implements the promise of TransferJobs.                                 *)
(***************************************************************************)
EXTENDS TransferClient, TLAPS

-----------------------------------------------------------------------------
(* The type invariant of TransferClient holds for every instance.          *)
THEOREM Typing == Spec => []TypeOK
<1>1. Init => TypeOK
  BY ClientAssumption, TransferdAssumption
  DEF Init, EnvInit, TypeOK, EnvTypeOK, Statuses, Pcs, Calls
<1>2. TypeOK /\ [Next]_vars => TypeOK'
  <2> SUFFICES ASSUME TypeOK, [Next]_vars PROVE TypeOK'
    OBVIOUS
  <2> USE ClientAssumption, TransferdAssumption
      DEF TypeOK, EnvTypeOK, Statuses, Pcs, Calls, ownVars, clientVars, envVars
  <2>1. CASE EnvNext /\ UNCHANGED clientVars
    <3>1. ASSUME NEW d \in Daemons, Bind(d) PROVE TypeOK'
      BY <2>1, <3>1 DEF Bind
    <3>2. ASSUME NEW d \in Daemons, BindFails(d) \/ LogOther(d) \/ Crash(d) PROVE TypeOK'
      BY <2>1, <3>2 DEF BindFails, LogOther, Crash, Dies
    <3>3. ASSUME NEW t \in Transfers, Advance(t) PROVE TypeOK'
      BY <2>1, <3>3 DEF Advance
    <3> QED BY <2>1, <3>1, <3>2, <3>3 DEF EnvNext
  <2>2. ASSUME NEW c \in Clients, Use(c) PROVE TypeOK'
    <3>1. CASE New(c) BY <3>1 DEF New, Goto
    <3>2. CASE Startup(c) BY <3>2 DEF Startup
    <3>3. CASE TransferWait(c) BY <3>3 DEF TransferWait
    <3>4. CASE DaemonShutdown(c) BY <3>4 DEF DaemonShutdown, Dies
    <3>5. CASE Drop(c) BY <3>5 DEF Drop, Dies, Forget
    <3>6. CASE Killed(c) BY <3>6 DEF Killed, Forget
    <3> QED BY <2>2, <3>1, <3>2, <3>3, <3>4, <3>5, <3>6 DEF Use
  <2>3. ASSUME NEW c \in Clients, Step(c) PROVE TypeOK'
    <3> USE DEF Goto, Return, StartupFails
    <3>1. CASE DaemonStart(c) BY <3>1 DEF DaemonStart, Spawned, Overtakes
    <3>2. CASE DaemonStartFails(c) BY <3>2 DEF DaemonStartFails
    <3>3. CASE TryWait(c)
      <4>1. child[c] \in Daemons \cup {None} BY DEF TypeOK
      <4> QED BY <3>3, <4>1 DEF TryWait, Overtakes
    <3>4. CASE ReadPort(c) BY <3>4 DEF ReadPort
    <3>5. CASE DaemonConnect(c)
      <4>1. server_port[c] \in Ports \/ Serving(server_port[c]) = {}
        BY <3>5 DEF Serving
      <4> QED BY <3>5, <4>1 DEF DaemonConnect
    <3>6. CASE GetInfo(c) BY <3>6 DEF GetInfo, StartupDone
    <3>7. CASE TransferStart(c) BY <3>7 DEF TransferStart, Accept, Serving
    <3>8. CASE TransferStartFails(c) BY <3>8 DEF TransferStartFails
    <3>9. CASE TransferStarted(c) BY <3>9 DEF TransferStarted
    <3>10. CASE TransferStartLost(c) BY <3>10 DEF TransferStartLost
    <3>11. CASE QueryTransfer(c)
      BY <3>11 DEF QueryTransfer, Tell
    <3>12. CASE Sleep(c) BY <3>12 DEF Sleep
    <3> QED BY <2>3, <3>1, <3>2, <3>3, <3>4, <3>5, <3>6, <3>7, <3>8, <3>9,
               <3>10, <3>11, <3>12 DEF Step
  <2>4. CASE UNCHANGED vars BY <2>4 DEF vars
  <2> QED BY <2>1, <2>2, <2>3, <2>4 DEF Next
<1> QED BY <1>1, <1>2, PTL DEF Spec

-----------------------------------------------------------------------------
(* Why verdicts are honest: a transfer that was accepted has a host, which *)
(* bound its port before and keeps it until it dies; and the host of the   *)
(* transfer a client holds, while it lives, is at the end of its channel.  *)
HostInv ==
    \A t \in Transfers :
        /\ host[t] = None <=> status[t] = "absent"
        /\ host[t] # None => dstate[host[t]] \in {"listening", "dead"}

JobInv ==
    \A c \in Clients :
        /\ pc[c] \in {"accepted", "query", "sleep"} => job[c] # None
        /\ job[c] # None =>
              /\ status[job[c]] # "absent"
              /\ dstate[host[job[c]]] = "listening" =>
                    dport[host[job[c]]] = transfer_service[c]
        /\ transfer_service[c] = None => job[c] = None
        /\ pc[c] \in {"spawn", "started", "read_port", "connect"} =>
              transfer_service[c] = None

VerdictInv ==
    TypeOK /\ HostInv /\ JobInv /\ SuccessIsHonest /\ FailureIsHonest

(* What asking for the transfer a client holds tells about its host.       *)
LEMMA AnswerFromHost ==
    ASSUME VerdictInv, NEW c \in Clients, job[c] # None
    PROVE  LET answer == Answer(transfer_service[c], job[c]) IN
           /\ answer \in {"error", "unknown"} => dstate[host[job[c]]] = "dead"
           /\ answer \notin {"error", "unknown"} => answer = status[job[c]]
<1>1. job[c] \in Transfers /\ host[job[c]] \in Daemons
  BY DEF VerdictInv, TypeOK, EnvTypeOK, HostInv, JobInv
<1>2. dstate[host[job[c]]] \in {"listening", "dead"}
  BY <1>1, TransferdAssumption DEF VerdictInv, HostInv
<1>3. dstate[host[job[c]]] = "listening" => host[job[c]] \in Serving(transfer_service[c])
  BY <1>1 DEF VerdictInv, JobInv, Serving
<1>4. status[job[c]] \notin {"error", "unknown"}
  BY <1>1 DEF VerdictInv, TypeOK, EnvTypeOK, Statuses
<1> QED BY <1>2, <1>3, <1>4 DEF Answer

(* A process that ends, or no process at all, leaves the facts in place.   *)
LEMMA DiesKeepsVerdicts ==
    ASSUME VerdictInv, NEW d, Dies(d), UNCHANGED <<status, host, told>>
    PROVE  /\ HostInv' /\ SuccessIsHonest' /\ FailureIsHonest'
           /\ \A x \in Daemons : dstate'[x] = "listening" =>
                 dstate[x] = "listening" /\ dport'[x] = dport[x]
<1> USE DEF VerdictInv, TypeOK, EnvTypeOK
<1>1. \A x \in Daemons : dstate'[x] = "listening" =>
         dstate[x] = "listening" /\ dport'[x] = dport[x]
  BY DEF Dies, Alive
<1>2. \A x \in Daemons : dstate[x] = "dead" => dstate'[x] = "dead"
  BY DEF Dies, Alive
<1>3. \A x \in Daemons : dstate[x] \in {"listening", "dead"} =>
         dstate'[x] \in {"listening", "dead"}
  BY DEF Dies, Alive
<1>4. HostInv' BY <1>3 DEF HostInv
<1>5. SuccessIsHonest' BY DEF SuccessIsHonest
<1>6. FailureIsHonest'
  <2>1. \A x \in Daemons : ~Alive(x) /\ dstate[x] \in {"listening", "dead"} => ~Alive(x)'
    BY <1>2 DEF Alive
  <2> QED BY <2>1 DEF FailureIsHonest, HostInv
<1> QED BY <1>1, <1>4, <1>5, <1>6

(* Types, hosts, held transfers and verdicts stay consistent together.     *)
LEMMA VerdictsInductive == Spec => []VerdictInv
<1>1. Init => VerdictInv
  <2> SUFFICES ASSUME Init PROVE VerdictInv
    OBVIOUS
  <2>1. TypeOK
    BY ClientAssumption, TransferdAssumption
    DEF Init, EnvInit, TypeOK, EnvTypeOK, Statuses, Pcs, Calls
  <2>2. HostInv /\ JobInv /\ SuccessIsHonest /\ FailureIsHonest
    BY DEF Init, EnvInit, HostInv, JobInv, SuccessIsHonest, FailureIsHonest
  <2> QED BY <2>1, <2>2 DEF VerdictInv
<1>2. VerdictInv /\ TypeOK' /\ [Next]_vars => VerdictInv'
  <2> SUFFICES ASSUME VerdictInv, TypeOK', [Next]_vars
      PROVE (HostInv /\ JobInv /\ SuccessIsHonest /\ FailureIsHonest)'
    BY DEF VerdictInv
  <2> USE TransferdAssumption, ClientAssumption
      DEF VerdictInv, TypeOK, EnvTypeOK, ownVars, clientVars, envVars
  <2>0. \A c \in Clients : job[c] # None => host[job[c]] \in Daemons
    BY DEF HostInv, JobInv
  <2>1. CASE EnvNext /\ UNCHANGED clientVars
    <3>1. ASSUME NEW d \in Daemons, Bind(d) PROVE VerdictInv'
      BY <2>1, <3>1 DEF Bind, HostInv, JobInv, SuccessIsHonest, FailureIsHonest, Alive
    <3>2. ASSUME NEW d \in Daemons, BindFails(d) \/ Crash(d) PROVE VerdictInv'
      <4>1. Dies(d) /\ UNCHANGED <<status, host, told>>
        BY <2>1, <3>2 DEF BindFails, Crash
      <4>2. JobInv'
        BY <2>1, <2>0, <4>1, DiesKeepsVerdicts DEF JobInv
      <4> QED BY <4>1, <4>2, DiesKeepsVerdicts
    <3>3. ASSUME NEW d \in Daemons, LogOther(d) PROVE VerdictInv'
      BY <2>1, <3>3 DEF LogOther, HostInv, JobInv, SuccessIsHonest, FailureIsHonest, Alive
    <3>4. ASSUME NEW t \in Transfers, Advance(t) PROVE VerdictInv'
      BY <2>1, <3>4 DEF Advance, HostInv, JobInv, SuccessIsHonest, FailureIsHonest, Alive
    <3> QED BY <2>1, <3>1, <3>2, <3>3, <3>4 DEF EnvNext
  <2>2. ASSUME NEW c \in Clients, Use(c) PROVE VerdictInv'
    <3>1. CASE New(c) \/ Startup(c) \/ TransferWait(c) \/ Killed(c)
      BY <3>1 DEF New, Startup, TransferWait, Killed, Forget, Goto,
         HostInv, JobInv, SuccessIsHonest, FailureIsHonest, Alive
    <3>2. CASE DaemonShutdown(c) \/ Drop(c)
      <4>1. Dies(daemon_process[c]) /\ UNCHANGED <<status, host, told>>
        BY <3>2 DEF DaemonShutdown, Drop, Forget
      <4>2. JobInv'
        BY <2>0, <3>2, <4>1, DiesKeepsVerdicts DEF DaemonShutdown, Drop, Forget, JobInv
      <4> QED BY <4>1, <4>2, DiesKeepsVerdicts
    <3> QED BY <2>2, <3>1, <3>2 DEF Use
  <2>3. ASSUME NEW c \in Clients, Step(c) PROVE VerdictInv'
    <3> USE DEF Goto, Return, StartupFails
    <3>1. CASE DaemonStart(c)
      BY <3>1 DEF DaemonStart, Spawned, HostInv, JobInv, SuccessIsHonest,
                  FailureIsHonest, Alive
    <3>2. CASE DaemonStartFails(c) \/ TryWait(c) \/ ReadPort(c) \/ DaemonConnect(c)
               \/ GetInfo(c) \/ TransferStartFails(c) \/ TransferStarted(c)
               \/ TransferStartLost(c) \/ Sleep(c)
      BY <3>2 DEF DaemonStartFails, TryWait, ReadPort, DaemonConnect, GetInfo, StartupDone,
           TransferStartFails, TransferStarted, TransferStartLost, Sleep,
           HostInv, JobInv, SuccessIsHonest, FailureIsHonest, Alive
    <3>3. CASE TransferStart(c)
      BY <3>3 DEF TransferStart, Accept, Serving, HostInv, JobInv, SuccessIsHonest,
                  FailureIsHonest, Alive
    <3>4. CASE QueryTransfer(c)
      BY <3>4, AnswerFromHost DEF QueryTransfer, Tell, Failed, HostInv, JobInv,
         SuccessIsHonest, FailureIsHonest, Alive
    <3> QED BY <2>3, <3>1, <3>2, <3>3, <3>4 DEF Step
  <2>4. CASE UNCHANGED vars
    BY <2>4 DEF vars, HostInv, JobInv, SuccessIsHonest, FailureIsHonest, Alive
  <2> QED BY <2>1, <2>2, <2>3, <2>4 DEF Next
<1> QED BY <1>1, <1>2, Typing, PTL DEF Spec

(* The verdicts of transfer_wait are the ones of the daemon that ran the   *)
(* transfer, for any number of programs sharing the machine.               *)
THEOREM HonestVerdicts == Spec => [](SuccessIsHonest /\ FailureIsHonest)
<1>1. VerdictInv => SuccessIsHonest /\ FailureIsHonest
  BY DEF VerdictInv
<1> QED BY <1>1, VerdictsInductive, PTL

-----------------------------------------------------------------------------
(* Why one daemon is enough: before its first daemon_start a program owns  *)
(* none; then it owns the one it holds in child, then in daemon_process,   *)
(* and with a transfer_service it never starts another.                    *)
OwnerInv ==
    \A c \in Clients \ unclean :
        /\ \A d \in Daemons : owner[d] = c =>
              /\ pc[c] = "gone" => ~Alive(d)
              /\ pc[c] = "started" => d = child[c]
              /\ pc[c] \notin {"gone", "started"} => d = daemon_process[c]
        /\ pc[c] \in {"idle", "spawn"} /\ transfer_service[c] = None =>
              \A d \in Daemons : owner[d] # c

(* A channel is there from daemon_connect on, and is never taken back.     *)
ServiceInv ==
    \A c \in Clients :
        /\ pc[c] = "spawn" => transfer_service[c] = None
        /\ pc[c] \in {"get_info", "request", "accepted", "query", "sleep"} =>
              transfer_service[c] # None
        /\ job[c] # None => transfer_service[c] # None

(* A daemon with an owner was spawned.                                     *)
SpawnedInv == \A d \in Daemons : owner[d] # None => dstate[d] # "none"

DaemonInv == TypeOK /\ SpawnedInv /\ ServiceInv /\ OwnerInv /\ OneDaemonPerClient

(* A program with no failed startup spawns one daemon, and leaves none     *)
(* behind when it ends.                                                    *)
THEOREM NoDaemonLost == Spec => [](OneDaemonPerClient /\ NothingLeftBehind)
<1>1. Init => DaemonInv
  <2> SUFFICES ASSUME Init PROVE DaemonInv
    OBVIOUS
  <2>1. TypeOK
    BY ClientAssumption, TransferdAssumption
    DEF Init, EnvInit, TypeOK, EnvTypeOK, Statuses, Pcs, Calls
  <2> QED BY <2>1, ClientAssumption
          DEF Init, DaemonInv, SpawnedInv, ServiceInv, OwnerInv, OneDaemonPerClient
<1>2. DaemonInv /\ TypeOK' /\ [Next]_vars => DaemonInv'
  <2> SUFFICES ASSUME DaemonInv, TypeOK', [Next]_vars
      PROVE (SpawnedInv /\ ServiceInv /\ OwnerInv /\ OneDaemonPerClient)'
    BY DEF DaemonInv
  <2> USE TransferdAssumption, ClientAssumption
      DEF DaemonInv, TypeOK, EnvTypeOK, ownVars, clientVars, envVars,
          SpawnedInv, ServiceInv, OwnerInv, OneDaemonPerClient, Alive
  <2>1. CASE EnvNext /\ UNCHANGED clientVars
    <3>1. \A d \in Daemons : /\ dstate[d] # "none" => dstate'[d] # "none"
                             /\ ~Alive(d) /\ dstate[d] # "none" => ~Alive(d)'
      BY <2>1 DEF EnvNext, Bind, BindFails, LogOther, Crash, Advance, Dies
    <3> QED BY <2>1, <3>1
  <2>2. ASSUME NEW c \in Clients, Use(c) PROVE DaemonInv'
    <3>1. CASE New(c) BY <3>1 DEF New, Goto
    <3>2. CASE Startup(c) \/ TransferWait(c) BY <3>2 DEF Startup, TransferWait
    <3>3. CASE DaemonShutdown(c) BY <3>3 DEF DaemonShutdown, Dies
    <3>4. CASE Drop(c) BY <3>4 DEF Drop, Dies, Forget
    <3>5. CASE Killed(c) BY <3>5 DEF Killed, Forget
    <3> QED BY <2>2, <3>1, <3>2, <3>3, <3>4, <3>5 DEF Use
  <2>3. ASSUME NEW c \in Clients, Step(c) PROVE DaemonInv'
    <3> USE DEF Goto, Return, StartupFails
    <3>1. CASE DaemonStart(c) BY <3>1 DEF DaemonStart, Spawned, Overtakes
    <3>2. CASE DaemonStartFails(c) BY <3>2 DEF DaemonStartFails
    <3>3. CASE TryWait(c) BY <3>3 DEF TryWait
    <3>4. CASE ReadPort(c) \/ DaemonConnect(c) BY <3>4 DEF ReadPort, DaemonConnect
    <3>5. CASE GetInfo(c) BY <3>5 DEF GetInfo, StartupDone
    <3>6. CASE TransferStart(c) BY <3>6 DEF TransferStart, Accept
    <3>7. CASE TransferStartFails(c) \/ TransferStarted(c) \/ TransferStartLost(c)
      BY <3>7 DEF TransferStartFails, TransferStarted, TransferStartLost
    <3>8. CASE QueryTransfer(c) \/ Sleep(c) BY <3>8 DEF QueryTransfer, Tell, Sleep
    <3> QED BY <2>3, <3>1, <3>2, <3>3, <3>4, <3>5, <3>6, <3>7, <3>8 DEF Step
  <2>4. CASE UNCHANGED vars BY <2>4 DEF vars
  <2> QED BY <2>1, <2>2, <2>3, <2>4 DEF Next
<1>3. DaemonInv => OneDaemonPerClient /\ NothingLeftBehind
  BY DEF DaemonInv, OwnerInv, NothingLeftBehind
<1> QED BY <1>1, <1>2, <1>3, Typing, PTL DEF Spec

(* transfer_wait gives up no transfer that is still running on a live      *)
(* daemon, whatever other daemon answers on the port of the client.        *)
THEOREM FailuresHonest == Spec => []FailureIsHonest
<1> QED BY HonestVerdicts, PTL

(* A program that ends without a failed startup leaves no daemon running,  *)
(* however many share the machine.                                         *)
THEOREM NoneLeftRunning == Spec => []NothingLeftBehind
<1> QED BY NoDaemonLost, PTL

-----------------------------------------------------------------------------
(* Why one program alone reaches its own daemon: when its sleep is over    *)
(* and no daemon is still starting, the port it will connect to (the one   *)
(* configured, or the one in the last line of the log) is held by the      *)
(* daemon it spawned, or by nobody; and nobody else can take it later.     *)
PortsApart ==
    \A d, e \in Daemons :
        dstate[d] = "listening" /\ dstate[e] = "listening" /\ dport[d] = dport[e] => d = e

Settled == \A d \in Daemons : dstate[d] # "starting"
Reaches(c, p) == \A d \in Serving(p) : owner[d] = c

StartedInv(c) ==
    pc[c] = "started" =>
        /\ child[c] \in Daemons
        /\ owner[child[c]] = c
        /\ \A d \in Daemons : dstate[d] = "starting" => d = child[c]
        /\ dstate[child[c]] = "starting" => dport[child[c]] = server_port[c]
        /\ dstate[child[c]] = "listening" =>
              IF server_port[c] = AnyPort THEN last_line \in {None, dport[child[c]]}
              ELSE dport[child[c]] = server_port[c]

ReachInv(c) ==
    /\ pc[c] = "read_port" => Settled /\ Reaches(c, last_line)
    /\ pc[c] = "connect" => Settled /\ Reaches(c, server_port[c])
    /\ transfer_service[c] # None => Settled /\ Reaches(c, transfer_service[c])
    /\ OnOwnDaemon(c)

GoneInv == \A c \in Clients : pc[c] = "gone" => transfer_service[c] = None

OwnInv ==
    /\ TypeOK /\ ServiceInv /\ GoneInv /\ PortsApart
    /\ \A c \in Clients \ (unclean \cup late) : StartedInv(c) /\ ReachInv(c)

(* A program that is alone on the machine, though daemons of its earlier   *)
(* runs may still hold ports, has its transfers run by the daemon it       *)
(* spawned itself, if its startup was good and the daemon not late.        *)
THEOREM OwnDaemon ==
    ASSUME NEW me, Clients = {me}
    PROVE  Spec => []RunsOnOwnDaemon
<1>1. Init => OwnInv
  <2> SUFFICES ASSUME Init PROVE OwnInv
    OBVIOUS
  <2>1. TypeOK
    BY ClientAssumption, TransferdAssumption
    DEF Init, EnvInit, TypeOK, EnvTypeOK, Statuses, Pcs, Calls
  <2> QED BY <2>1 DEF Init, EnvInit, OwnInv, ServiceInv, GoneInv, PortsApart, StartedInv,
                      ReachInv, OnOwnDaemon
<1>2. OwnInv /\ TypeOK' /\ [Next]_vars => OwnInv'
  <2> SUFFICES ASSUME OwnInv, TypeOK', [Next]_vars
      PROVE (ServiceInv /\ GoneInv /\ PortsApart
             /\ \A c \in Clients \ (unclean \cup late) : StartedInv(c) /\ ReachInv(c))'
    BY DEF OwnInv
  <2> USE TransferdAssumption, ClientAssumption
      DEF OwnInv, TypeOK, EnvTypeOK, ownVars, clientVars, envVars, ServiceInv, GoneInv,
          PortsApart, StartedInv, ReachInv, OnOwnDaemon, Settled, Reaches, Serving, Alive
  <2>1. CASE EnvNext /\ UNCHANGED clientVars
    <3>1. ASSUME NEW d \in Daemons, Bind(d) PROVE OwnInv'
      BY <2>1, <3>1 DEF Bind, Free
    <3>2. ASSUME NEW d \in Daemons, BindFails(d) PROVE OwnInv'
      BY <2>1, <3>2 DEF BindFails, Dies
    <3>3. ASSUME NEW d \in Daemons, Crash(d) PROVE OwnInv'
      BY <2>1, <3>3 DEF Crash, Dies
    <3>4. ASSUME NEW d \in Daemons, LogOther(d) PROVE OwnInv'
      BY <2>1, <3>4 DEF LogOther
    <3>5. ASSUME NEW t \in Transfers, Advance(t) PROVE OwnInv'
      BY <2>1, <3>5 DEF Advance
    <3> QED BY <2>1, <3>1, <3>2, <3>3, <3>4, <3>5 DEF EnvNext
  <2>2. ASSUME NEW c \in Clients, Use(c) PROVE OwnInv'
    <3>1. CASE New(c) BY <3>1 DEF New, Goto
    <3>2. CASE Startup(c) \/ TransferWait(c) BY <3>2 DEF Startup, TransferWait
    <3>3. CASE DaemonShutdown(c) BY <3>3 DEF DaemonShutdown, Dies
    <3>4. CASE Drop(c) BY <3>4 DEF Drop, Dies, Forget
    <3>5. CASE Killed(c) BY <3>5 DEF Killed, Forget
    <3> QED BY <2>2, <3>1, <3>2, <3>3, <3>4, <3>5 DEF Use
  <2>3. ASSUME NEW c \in Clients, Step(c) PROVE OwnInv'
    <3> USE DEF Goto, Return, StartupFails
    <3>1. CASE DaemonStart(c) BY <3>1 DEF DaemonStart, Spawned, Overtakes
    <3>2. CASE DaemonStartFails(c) BY <3>2 DEF DaemonStartFails
    <3>3. CASE TryWait(c) BY <3>3 DEF TryWait, Overtakes
    <3>4. CASE ReadPort(c) BY <3>4 DEF ReadPort
    <3>5. CASE DaemonConnect(c) BY <3>5 DEF DaemonConnect
    <3>6. CASE GetInfo(c) BY <3>6 DEF GetInfo, StartupDone
    <3>7. CASE TransferStart(c) BY <3>7 DEF TransferStart, Accept
    <3>8. CASE TransferStartFails(c) \/ TransferStarted(c) \/ TransferStartLost(c)
      BY <3>8 DEF TransferStartFails, TransferStarted, TransferStartLost
    <3>9. CASE QueryTransfer(c) \/ Sleep(c) BY <3>9 DEF QueryTransfer, Tell, Sleep
    <3> QED BY <2>3, <3>1, <3>2, <3>3, <3>4, <3>5, <3>6, <3>7, <3>8, <3>9 DEF Step
  <2>4. CASE UNCHANGED vars BY <2>4 DEF vars
  <2> QED BY <2>1, <2>2, <2>3, <2>4 DEF Next
<1>3. OwnInv => RunsOnOwnDaemon
  BY DEF OwnInv, ReachInv, RunsOnOwnDaemon
<1> QED BY <1>1, <1>2, <1>3, Typing, PTL DEF Spec

-----------------------------------------------------------------------------
(* The transfers whose daemon listens: `up` of the promise.                *)
Up == {t \in Transfers : host[t] # None /\ dstate[host[t]] = "listening"}

(* A step that neither moves a transfer nor tells a verdict loses some     *)
(* transfers at most.                                                      *)
LEMMA QuietStep ==
    ASSUME UNCHANGED <<status, told>>, Up' \in SUBSET Up
    PROVE  [Promise!Next]_(Promise!vars)
BY DEF Promise!Next, Promise!Lose, Promise!vars, Up

(* A process that ends takes transfers away, and adds none.                *)
LEMMA DiesLosesTransfers ==
    ASSUME NEW d, TypeOK, Dies(d), UNCHANGED host
    PROVE  Up' \in SUBSET Up
BY DEF Dies, Alive, Up, TypeOK, EnvTypeOK

(* The Rust client keeps the promise of TransferJobs: every step of the    *)
(* programs and daemons is a step of the promise, or changes nothing in it.*)
THEOREM PromiseKept == Spec => KeepsPromise
<1>1. Init => Promise!Init
  BY DEF Init, EnvInit, Promise!Init
<1>2. VerdictInv /\ VerdictInv' /\ [Next]_vars => [Promise!Next]_(Promise!vars)
  <2> SUFFICES ASSUME VerdictInv, VerdictInv', [Next]_vars
      PROVE [Promise!Next]_(Promise!vars)
    OBVIOUS
  <2>0. TypeOK /\ TypeOK'
    BY DEF VerdictInv
  <2> USE DEF ownVars, clientVars, envVars
  <2>1. CASE EnvNext /\ UNCHANGED clientVars
    <3>1. ASSUME NEW d \in Daemons, Bind(d) PROVE [Promise!Next]_(Promise!vars)
      <4>1. \A t \in Transfers : host[t] # d
        BY <3>1, TransferdAssumption DEF Bind, VerdictInv, HostInv
      <4>2. Up' \in SUBSET Up
        BY <2>0, <3>1, <4>1 DEF Bind, Up, TypeOK, EnvTypeOK
      <4> QED BY <2>1, <3>1, <4>2, QuietStep DEF Bind
    <3>2. ASSUME NEW d \in Daemons, BindFails(d) \/ Crash(d)
          PROVE [Promise!Next]_(Promise!vars)
      <4>1. Dies(d) /\ UNCHANGED <<status, host, told>>
        BY <2>1, <3>2 DEF BindFails, Crash
      <4> QED BY <2>0, <4>1, DiesLosesTransfers, QuietStep
    <3>3. ASSUME NEW d \in Daemons, LogOther(d) PROVE [Promise!Next]_(Promise!vars)
      <4>1. Up' \in SUBSET Up
        BY <3>3 DEF LogOther, Up
      <4> QED BY <2>1, <3>3, <4>1, QuietStep DEF LogOther
    <3>4. ASSUME NEW t \in Transfers, Advance(t) PROVE [Promise!Next]_(Promise!vars)
      <4>1. t \in Up /\ Up' = Up
        BY <3>4, TransferdAssumption DEF Advance, Up
      <4>2. /\ <<status[t], status'[t]>> \in
                 {<<"queued", "running">>, <<"queued", "failed">>,
                  <<"running", "completed">>, <<"running", "failed">>}
            /\ status' = [status EXCEPT ![t] = status'[t]]
        BY <2>0, <3>4 DEF Advance, TypeOK, EnvTypeOK
      <4>3. Promise!Advance(t)
        BY <2>1, <3>4, <4>1, <4>2 DEF Promise!Advance, Up
      <4> QED BY <4>3 DEF Promise!Next
    <3> QED BY <2>1, <3>1, <3>2, <3>3, <3>4 DEF EnvNext
  <2>2. ASSUME NEW c \in Clients, Use(c) PROVE [Promise!Next]_(Promise!vars)
    <3>1. CASE New(c) \/ Startup(c) \/ TransferWait(c) \/ Killed(c)
      <4>1. UNCHANGED <<status, told, host, dstate>>
        BY <3>1 DEF New, Startup, TransferWait, Killed, Forget
      <4>2. Up' \in SUBSET Up
        BY <4>1 DEF Up
      <4> QED BY <4>1, <4>2, QuietStep
    <3>2. CASE DaemonShutdown(c) \/ Drop(c)
      <4>1. Dies(daemon_process[c]) /\ UNCHANGED <<status, host, told>>
        BY <3>2 DEF DaemonShutdown, Drop, Forget
      <4> QED BY <2>0, <4>1, DiesLosesTransfers, QuietStep
    <3> QED BY <2>2, <3>1, <3>2 DEF Use
  <2>3. ASSUME NEW c \in Clients, Step(c) PROVE [Promise!Next]_(Promise!vars)
    <3>1. CASE DaemonStart(c)
      <4>1. UNCHANGED <<status, told, host>> /\ Up' \in SUBSET Up
        BY <2>0, <3>1 DEF DaemonStart, Spawned, Up, TypeOK, EnvTypeOK
      <4> QED BY <4>1, QuietStep
    <3>2. CASE DaemonStartFails(c) \/ TryWait(c) \/ ReadPort(c) \/ DaemonConnect(c)
               \/ GetInfo(c) \/ TransferStartFails(c) \/ TransferStarted(c)
               \/ TransferStartLost(c) \/ Sleep(c)
      <4>1. UNCHANGED <<status, told, host, dstate>>
        BY <3>2 DEF DaemonStartFails, TryWait, ReadPort, DaemonConnect, GetInfo,
           TransferStartFails, TransferStarted, TransferStartLost, Sleep
      <4>2. Up' \in SUBSET Up
        BY <4>1 DEF Up
      <4> QED BY <4>1, <4>2, QuietStep
    <3>3. CASE TransferStart(c)
      <4>1. PICK d \in Serving(transfer_service[c]), t \in Transfers : Accept(d, t)
        BY <3>3 DEF TransferStart
      <4>2. Up' = Up \cup {t}
        BY <2>0, <4>1, TransferdAssumption
           DEF Accept, Serving, Up, TypeOK, EnvTypeOK, VerdictInv, HostInv
      <4>3. Promise!Submit(t)
        BY <3>3, <4>1, <4>2 DEF TransferStart, Accept, Promise!Submit, Up
      <4> QED BY <4>3 DEF Promise!Next
    <3>4. CASE QueryTransfer(c)
      <4>0. UNCHANGED <<status, host, dstate>> /\ Up' = Up
        BY <3>4 DEF QueryTransfer, Up
      <4>1. CASE UNCHANGED told
        BY <4>0, <4>1, QuietStep
      <4>2. job[c] \in Transfers /\ job[c] # None /\ host[job[c]] # None
            /\ status[job[c]] # "absent"
        BY <3>4 DEF QueryTransfer, VerdictInv, TypeOK, JobInv, HostInv
      <4>3. CASE Failed(Answer(transfer_service[c], job[c])) /\ Tell(c, "failure")
        <5>1. status[job[c]] = "failed" \/ job[c] \notin Up
          BY <4>2, <4>3, AnswerFromHost DEF Failed, Up
        <5>2. Promise!TellFailure(job[c])
          BY <4>0, <4>2, <4>3, <5>1 DEF Tell, Promise!TellFailure, Up
        <5> QED BY <4>2, <5>2 DEF Promise!Next
      <4>4. CASE Answer(transfer_service[c], job[c]) = "completed" /\ Tell(c, "success")
        <5>1. status[job[c]] = "completed"
          BY <4>2, <4>4, AnswerFromHost
        <5>2. Promise!TellSuccess(job[c])
          BY <4>0, <4>4, <5>1 DEF Tell, Promise!TellSuccess, Up
        <5> QED BY <4>2, <5>2 DEF Promise!Next
      <4> QED BY <3>4, <4>1, <4>3, <4>4 DEF QueryTransfer
    <3> QED BY <2>3, <3>1, <3>2, <3>3, <3>4 DEF Step
  <2>4. CASE UNCHANGED vars
    <3>1. UNCHANGED <<status, told>> /\ Up' \in SUBSET Up
      BY <2>4 DEF vars, Up
    <3> QED BY <3>1, QuietStep
  <2> QED BY <2>1, <2>2, <2>3, <2>4 DEF Next
<1>3. Spec => []VerdictInv
  BY VerdictsInductive
<1> QED BY <1>1, <1>2, <1>3, PTL DEF Spec, KeepsPromise, Promise!Spec
=============================================================================
