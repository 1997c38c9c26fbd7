--------------------------- MODULE TransferClient ---------------------------
(***************************************************************************)
(* The Rust TransferClient (app/rust/src/utils/transfer_client.rs): it     *)
(* writes the configuration file of a transferd, spawns it, finds out on   *)
(* which port it listens, connects to it, starts transfers and waits for   *)
(* them.  Several programs may use one at the same time on one machine:    *)
(* they share the configuration, the log file and the ports.               *)
(*                                                                         *)
(* A step of a client ends where the code may be overtaken by another      *)
(* process: at a sleep, a system call on shared state, or an .await.       *)
(***************************************************************************)
EXTENDS Transferd

CONSTANTS
    Clients,        \* the programs that own a TransferClient
    ConfiguredPorts \* what trsdk.url may hold: ports, and AnyPort for port 0

ASSUME ClientAssumption ==
    /\ ConfiguredPorts \subseteq Ports \cup {AnyPort}
    /\ None \notin Clients

VARIABLES
    pc,               \* where each client is
    call,             \* the method of the client being executed
    server_port,      \* self.server_port
    daemon_process,   \* self.daemon_process
    child,            \* the local variable daemon_process of daemon_start
    transfer_service, \* self.transfer_service: the port its channel leads to
    job,              \* the transfer id the caller holds
    told,             \* verdict of the last transfer_wait on each transfer
    owner,            \* history: the client that spawned each daemon
    unclean,          \* history: clients with a failed startup, or killed
    late              \* history: clients whose sleep ended before a daemon was up

ownVars == <<server_port, daemon_process, child, transfer_service, job>>
clientVars == <<pc, call, ownVars, told, owner, unclean, late>>
vars == <<envVars, clientVars>>

Calls == {"none", "daemon_startup", "transfer_start", "transfer_start_and_wait",
          "transfer_wait"}

Pcs == {"gone", "idle", "spawn", "started", "read_port", "connect", "get_info",
        "request", "accepted", "query", "sleep"}

TypeOK ==
    /\ EnvTypeOK
    /\ pc \in [Clients -> Pcs]
    /\ call \in [Clients -> Calls]
    /\ server_port \in [Clients -> Ports \cup {AnyPort}]
    /\ daemon_process \in [Clients -> Daemons \cup {None}]
    /\ child \in [Clients -> Daemons \cup {None}]
    /\ transfer_service \in [Clients -> Ports \cup {None}]
    /\ job \in [Clients -> Transfers \cup {None}]
    /\ told \in [Transfers -> {"nothing", "success", "failure"}]
    /\ owner \in [Daemons -> Clients \cup {None}]
    /\ unclean \in SUBSET Clients
    /\ late \in SUBSET Clients

Init ==
    /\ EnvInit
    /\ pc = [c \in Clients |-> "gone"]
    /\ call = [c \in Clients |-> "none"]
    /\ server_port = [c \in Clients |-> AnyPort]
    /\ daemon_process = [c \in Clients |-> None]
    /\ child = [c \in Clients |-> None]
    /\ transfer_service = [c \in Clients |-> None]
    /\ job = [c \in Clients |-> None]
    /\ told = [t \in Transfers |-> "nothing"]
    /\ owner = [d \in Daemons |-> None]
    /\ unclean = {}
    /\ late = {}

-----------------------------------------------------------------------------
(* Control flow shared by the steps below.                                 *)

Goto(c, l) == pc' = [pc EXCEPT ![c] = l] /\ UNCHANGED call

Return(c) ==
    /\ pc' = [pc EXCEPT ![c] = "idle"]
    /\ call' = [call EXCEPT ![c] = "none"]

(* An error of the startup: the caller gets Err, the fields stay.          *)
StartupFails(c) == Return(c) /\ unclean' = unclean \cup {c}

(* daemon_startup is over: the method that called it goes on.              *)
StartupDone(c) ==
    IF call[c] = "daemon_startup" THEN Return(c) ELSE Goto(c, "request")

(* The object is gone, and what the program knew with it.                  *)
Forget(c) ==
    /\ pc' = [pc EXCEPT ![c] = "gone"]
    /\ call' = [call EXCEPT ![c] = "none"]
    /\ server_port' = [server_port EXCEPT ![c] = AnyPort]
    /\ daemon_process' = [daemon_process EXCEPT ![c] = None]
    /\ child' = [child EXCEPT ![c] = None]
    /\ transfer_service' = [transfer_service EXCEPT ![c] = None]
    /\ job' = [job EXCEPT ![c] = None]
    /\ UNCHANGED told

-----------------------------------------------------------------------------
(* The life of the object.                                                 *)

(* A program is run (again): TransferClient::new, with no process, no      *)
(* service and the port that the configuration then has.                   *)
New(c) ==
    /\ pc[c] = "gone"
    /\ Goto(c, "idle")
    /\ owner' = [d \in Daemons |-> IF owner[d] = c THEN None ELSE owner[d]]
    /\ \E p \in ConfiguredPorts : server_port' = [server_port EXCEPT ![c] = p]
    /\ unclean' = unclean \ {c}
    /\ late' = late \ {c}
    /\ UNCHANGED <<envVars, daemon_process, child, transfer_service, job, told>>

(* daemon_shutdown, called by the program: SIGKILL, and no field changes.  *)
DaemonShutdown(c) ==
    /\ pc[c] = "idle"
    /\ Dies(daemon_process[c])
    /\ UNCHANGED <<last_line, status, host, clientVars>>

(* Mutant: no Drop, the object is just forgotten.                          *)
DropWithoutShutdown(c) ==
    /\ pc[c] = "idle"
    /\ Forget(c)
    /\ UNCHANGED <<envVars, owner, unclean, late>>

(* The object goes out of scope: Drop calls daemon_shutdown.               *)
Drop(c) ==
    /\ pc[c] = "idle"
    /\ Dies(daemon_process[c])
    /\ Forget(c)
    /\ UNCHANGED <<last_line, status, host, owner, unclean, late>>

(* The program is killed: Drop does not run.                               *)
Killed(c) ==
    /\ pc[c] # "gone"
    /\ Forget(c)
    /\ unclean' = unclean \cup {c}
    /\ UNCHANGED <<envVars, owner, late>>

-----------------------------------------------------------------------------
(* daemon_startup, with daemon_start and daemon_connect.                   *)

(* Mutant: daemon_startup without its test of transfer_service.            *)
StartupEachTime(c) ==
    /\ pc[c] = "idle"
    /\ \E m \in {"daemon_startup", "transfer_start", "transfer_start_and_wait"} :
          call' = [call EXCEPT ![c] = m]
    /\ pc' = [pc EXCEPT ![c] = "spawn"]
    /\ UNCHANGED <<envVars, ownVars, told, owner, unclean, late>>

(* A method that needs the daemon is called; daemon_startup does nothing   *)
(* when there is a transfer_service.                                       *)
Startup(c) ==
    /\ pc[c] = "idle"
    /\ \E m \in {"daemon_startup", "transfer_start", "transfer_start_and_wait"} :
          /\ call' = [call EXCEPT ![c] = m]
          /\ IF transfer_service[c] = None
             THEN pc' = [pc EXCEPT ![c] = "spawn"]
             ELSE m # "daemon_startup" /\ pc' = [pc EXCEPT ![c] = "request"]
    /\ UNCHANGED <<envVars, ownVars, told, owner, unclean, late>>

(* Time passes for the client: it may be ahead of the daemons.             *)
Overtakes(c) ==
    late' = IF \E d \in Daemons : dstate[d] = "starting" THEN late \cup {c} ELSE late

(* The configuration file is written and the process spawned with it.      *)
DaemonStart(c) ==
    /\ pc[c] = "spawn"
    /\ Overtakes(c)
    /\ \E d \in Daemons :
          /\ Spawned(d, server_port[c])
          /\ child' = [child EXCEPT ![c] = d]
          /\ owner' = [owner EXCEPT ![d] = c]
    /\ Goto(c, "started")
    /\ UNCHANGED <<last_line, status, host, server_port, daemon_process,
                   transfer_service, job, told, unclean>>

(* A bad level, a file that cannot be written, no daemon to execute.       *)
DaemonStartFails(c) ==
    /\ pc[c] = "spawn"
    /\ Return(c)
    /\ UNCHANGED <<envVars, ownVars, told, owner, unclean, late>>

(* Mutant: the process is kept without asking whether it has exited.       *)
TryWaitUnchecked(c) ==
    /\ pc[c] = "started"
    /\ Overtakes(c)
    /\ child' = [child EXCEPT ![c] = None]
    /\ daemon_process' = [daemon_process EXCEPT ![c] = child[c]]
    /\ Goto(c, IF server_port[c] = AnyPort THEN "read_port" ELSE "connect")
    /\ UNCHANGED <<envVars, server_port, transfer_service, job, told, owner, unclean>>

(* Mutant: no sleep before try_wait.                                       *)
TryWaitAtOnce(c) ==
    /\ pc[c] = "started"
    /\ child' = [child EXCEPT ![c] = None]
    /\ \/ /\ Alive(child[c])
          /\ daemon_process' = [daemon_process EXCEPT ![c] = child[c]]
          /\ Goto(c, IF server_port[c] = AnyPort THEN "read_port" ELSE "connect")
          /\ UNCHANGED unclean
       \/ StartupFails(c) /\ UNCHANGED daemon_process
    /\ UNCHANGED <<envVars, server_port, transfer_service, job, told, owner, late>>

(* After the sleep of one second: try_wait.  The Child is kept when the    *)
(* process runs; the local variable is dropped, and nothing is killed,     *)
(* when it has exited or cannot be asked.                                  *)
TryWait(c) ==
    /\ pc[c] = "started"
    /\ Overtakes(c)
    /\ child' = [child EXCEPT ![c] = None]
    /\ \/ /\ Alive(child[c])
          /\ daemon_process' = [daemon_process EXCEPT ![c] = child[c]]
          /\ Goto(c, IF server_port[c] = AnyPort THEN "read_port" ELSE "connect")
          /\ UNCHANGED unclean
       \/ StartupFails(c) /\ UNCHANGED daemon_process
    /\ UNCHANGED <<envVars, server_port, transfer_service, job, told, owner>>

(* Mutant: the test that a port was found is missing.                      *)
ReadPortUnchecked(c) ==
    /\ pc[c] = "read_port"
    /\ server_port' = [server_port EXCEPT ![c] = last_line]
    /\ Goto(c, "connect")
    /\ UNCHANGED <<envVars, daemon_process, child, transfer_service, job, told,
                   owner, unclean, late>>

(* Port 0: the port is searched in the last line of the log.               *)
ReadPort(c) ==
    /\ pc[c] = "read_port"
    /\ \/ /\ last_line # None
          /\ server_port' = [server_port EXCEPT ![c] = last_line]
          /\ Goto(c, "connect")
          /\ UNCHANGED unclean
       \/ /\ last_line = None
          /\ StartupFails(c)
          /\ UNCHANGED server_port
    /\ UNCHANGED <<envVars, daemon_process, child, transfer_service, job, told, owner, late>>

DaemonConnect(c) ==
    /\ pc[c] = "connect"
    /\ \/ /\ Serving(server_port[c]) # {}
          /\ transfer_service' = [transfer_service EXCEPT ![c] = server_port[c]]
          /\ Goto(c, "get_info")
          /\ UNCHANGED unclean
       \/ /\ Serving(server_port[c]) = {}
          /\ StartupFails(c)
          /\ UNCHANGED transfer_service
    /\ UNCHANGED <<envVars, server_port, daemon_process, child, job, told, owner, late>>

(* The first call through the channel; transfer_service is already set.    *)
GetInfo(c) ==
    /\ pc[c] = "get_info"
    /\ \/ Serving(transfer_service[c]) # {} /\ StartupDone(c) /\ UNCHANGED unclean
       \/ Serving(transfer_service[c]) = {} /\ StartupFails(c)
    /\ UNCHANGED <<envVars, ownVars, told, owner, late>>

-----------------------------------------------------------------------------
(* transfer_start, transfer_wait and both in one call.                     *)

(* start_transfer reaches the daemon at the other end of the channel.      *)
TransferStart(c) ==
    /\ pc[c] = "request"
    /\ \E d \in Serving(transfer_service[c]), t \in Transfers :
          /\ Accept(d, t)
          /\ job' = [job EXCEPT ![c] = t]
    /\ Goto(c, "accepted")
    /\ UNCHANGED <<server_port, daemon_process, child, transfer_service, told,
                   owner, unclean, late>>

(* Nobody answers, or the call is refused: the caller gets Err.            *)
TransferStartFails(c) ==
    /\ pc[c] = "request"
    /\ Return(c)
    /\ UNCHANGED <<envVars, ownVars, told, owner, unclean, late>>

(* The answer comes in: the id of the transfer (its status is not read).   *)
TransferStarted(c) ==
    /\ pc[c] = "accepted"
    /\ IF call[c] = "transfer_start" THEN Return(c) ELSE Goto(c, "query")
    /\ UNCHANGED <<envVars, ownVars, told, owner, unclean, late>>

(* The daemon dies before its answer is out: nobody knows the id.          *)
TransferStartLost(c) ==
    /\ pc[c] = "accepted"
    /\ ~Alive(host[job[c]])
    /\ job' = [job EXCEPT ![c] = None]
    /\ Return(c)
    /\ UNCHANGED <<envVars, server_port, daemon_process, child, transfer_service,
                   told, owner, unclean, late>>

TransferWait(c) ==
    /\ pc[c] = "idle" /\ job[c] # None
    /\ call' = [call EXCEPT ![c] = "transfer_wait"]
    /\ pc' = [pc EXCEPT ![c] = "query"]
    /\ UNCHANGED <<envVars, ownVars, told, owner, unclean, late>>

(* Mutants: a status that should stop the wait is overlooked; a queued     *)
(* transfer is taken for one that failed.                                  *)
FailedIsOverlooked(answer) == answer = "error"
FailedUnlessRunning(answer) == answer \notin {"running", "completed"}

(* transfer_check_failed_status, and the `?` on the call itself.           *)
Failed(answer) == answer \in {"error", "unknown", "failed"}

Tell(c, verdict) == Return(c) /\ told' = [told EXCEPT ![job[c]] = verdict]

(* Mutant: every final status ends the loop as a success.                  *)
QueryTransferAnyEnd(c) ==
    /\ pc[c] = "query"
    /\ IF Answer(transfer_service[c], job[c]) \in {"completed", "failed"}
       THEN Tell(c, "success")
       ELSE Goto(c, "sleep") /\ UNCHANGED told
    /\ UNCHANGED <<envVars, ownVars, owner, unclean, late>>

(* One round of the loop of transfer_wait.                                 *)
QueryTransfer(c) ==
    /\ pc[c] = "query"
    /\ LET answer == Answer(transfer_service[c], job[c]) IN
          \/ Failed(answer) /\ Tell(c, "failure")
          \/ answer = "completed" /\ Tell(c, "success")
          \/ /\ ~Failed(answer) /\ answer # "completed"
             /\ Goto(c, "sleep") /\ UNCHANGED told
    /\ UNCHANGED <<envVars, ownVars, owner, unclean, late>>

Sleep(c) ==
    /\ pc[c] = "sleep"
    /\ Goto(c, "query")
    /\ UNCHANGED <<envVars, ownVars, told, owner, unclean, late>>

-----------------------------------------------------------------------------
(* A step the client takes by itself once one of its methods is called.    *)
Step(c) ==
    \/ DaemonStart(c) \/ DaemonStartFails(c) \/ TryWait(c) \/ ReadPort(c)
    \/ DaemonConnect(c) \/ GetInfo(c)
    \/ TransferStart(c) \/ TransferStartFails(c)
    \/ TransferStarted(c) \/ TransferStartLost(c)
    \/ QueryTransfer(c) \/ Sleep(c)

(* What the program that owns the object may do with it.                   *)
Use(c) ==
    New(c) \/ Startup(c) \/ TransferWait(c) \/ DaemonShutdown(c) \/ Drop(c) \/ Killed(c)

Next ==
    \/ EnvNext /\ UNCHANGED clientVars
    \/ \E c \in Clients : Step(c) \/ Use(c)

Spec == Init /\ [][Next]_vars

(* The threads of a program are scheduled, daemons and transfers progress. *)
FairSpec == Spec /\ EnvFairness /\ \A c \in Clients : WF_vars(Step(c))

-----------------------------------------------------------------------------
(* Properties.                                                             *)

(* A wait that returned Ok was for a transfer that its daemon completed.   *)
SuccessIsHonest == \A t \in Transfers : told[t] = "success" => status[t] = "completed"

(* A wait that returned Err was for a transfer that failed or whose daemon *)
(* is dead: a running transfer of a live daemon is never given up, even    *)
(* when another daemon answers on the port of the client.                  *)
FailureIsHonest ==
    \A t \in Transfers : told[t] = "failure" =>
        status[t] = "failed" \/ (host[t] # None /\ ~Alive(host[t]))

(* A program with no failed startup spawns one daemon in its life, however *)
(* often its methods are called.                                           *)
OneDaemonPerClient ==
    \A c \in Clients \ unclean : \A d, e \in Daemons :
        owner[d] = c /\ owner[e] = c => d = e

(* A program that ends without a failed startup leaves no daemon behind.   *)
NothingLeftBehind ==
    \A c \in Clients \ unclean : pc[c] = "gone" =>
        \A d \in Daemons : owner[d] = c => ~Alive(d)

(* A program has its transfers run by the daemon it spawned itself, and    *)
(* not by one that another program left on the port, ...                   *)
OnOwnDaemon(c) == job[c] # None => owner[host[job[c]]] = c

(* ... if no startup failed and no daemon was slower than the sleep, or    *)
(* whatever the daemon's speed.                                            *)
RunsOnOwnDaemon == \A c \in Clients \ (unclean \cup late) : OnOwnDaemon(c)
ConnectsToItsDaemon == \A c \in Clients \ unclean : OnOwnDaemon(c)

(* Every call of a method comes back.                                      *)
CallsReturn == \A c \in Clients : (pc[c] # "idle") ~> (pc[c] \in {"idle", "gone"})

(* The promise made to the caller.                                         *)
Promise == INSTANCE TransferJobs WITH
    up <- {t \in Transfers : host[t] # None /\ dstate[host[t]] = "listening"}
KeepsPromise == Promise!Spec
=============================================================================
