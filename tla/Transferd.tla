------------------------------ MODULE Transferd ------------------------------
(***************************************************************************)
(* The world a TransferClient works in: the `transferd` processes of one   *)
(* machine, the TCP ports they listen on, the log file they share and the  *)
(* transfers they run.  transferd is not part of this repository: this     *)
(* module states what the client classes rely on, as they use it.          *)
(***************************************************************************)
EXTENDS Naturals, FiniteSets

CONSTANTS
    Daemons,    \* processes that can ever be spawned (bounds the spawns)
    Ports,      \* TCP ports of the machine
    Transfers,  \* transfer identifiers the daemons can hand out
    MayCrash,   \* whether a daemon can die by itself or be stopped by hand
    AnyPort,    \* port 0: the daemon chooses a free port
    None        \* no port, no process, no transfer, no object

ASSUME TransferdAssumption ==
    /\ MayCrash \in BOOLEAN
    /\ AnyPort \notin Ports \cup {None}
    /\ None \notin Ports \cup Daemons \cup Transfers

VARIABLES
    dstate,     \* life cycle of each process
    dport,      \* the port asked for, then the port listened on
    last_line,  \* port shown in the last line of <daemon>.log, None if none
    status,     \* state of each transfer, as its daemon reports it
    host        \* the daemon that accepted each transfer

envVars == <<dstate, dport, last_line, status, host>>

(* The states of a transfer.  TransferStatus has more: CANCELED and PAUSED *)
(* are left out because no program of the repository cancels or pauses a   *)
(* transfer, ORPHANED because no daemon takes up the transfers of another  *)
(* (README, section 6).                                                    *)
Statuses == {"absent", "queued", "running", "completed", "failed"}

EnvTypeOK ==
    /\ dstate \in [Daemons -> {"none", "starting", "listening", "dead"}]
    /\ dport \in [Daemons -> Ports \cup {AnyPort, None}]
    /\ \A d \in Daemons : dstate[d] = "listening" => dport[d] \in Ports
    /\ last_line \in Ports \cup {None}
    /\ status \in [Transfers -> Statuses]
    /\ host \in [Transfers -> Daemons \cup {None}]

Alive(d) == dstate[d] \in {"starting", "listening"}

(* The processes that accept connections on port p (the operating system   *)
(* gives a port to one of them at most).                                   *)
Serving(p) == {d \in Daemons : dstate[d] = "listening" /\ dport[d] = p}

(* The log survives from earlier runs, and so may one daemon: the helper   *)
(* of an earlier program that could not stop it, or one started by hand.   *)
EnvInit ==
    /\ \E left \in Daemons \cup {None}, p \in Ports :
          /\ dstate = [d \in Daemons |-> IF d = left THEN "listening" ELSE "none"]
          /\ dport = [d \in Daemons |-> IF d = left THEN p ELSE None]
    /\ last_line \in Ports \cup {None}
    /\ status = [t \in Transfers |-> "absent"]
    /\ host = [t \in Transfers |-> None]

(* A process that was just spawned, asked by its configuration file to     *)
(* listen on port p.                                                       *)
Spawned(d, p) ==
    /\ dstate[d] = "none"
    /\ dstate' = [dstate EXCEPT ![d] = "starting"]
    /\ dport' = [dport EXCEPT ![d] = p]

(* The end of process d, which gives its port back.  Nothing happens to a  *)
(* process that has ended, or to no process at all.                        *)
Dies(d) ==
    /\ dstate' = [x \in Daemons |-> IF x = d /\ Alive(x) THEN "dead" ELSE dstate[x]]
    /\ dport' = [x \in Daemons |-> IF x = d /\ Alive(x) THEN None ELSE dport[x]]

Free(d, p) == dport[d] \in {AnyPort, p} /\ Serving(p) = {}

(* The daemon takes its port and says so in the log.                       *)
Bind(d) ==
    /\ dstate[d] = "starting"
    /\ \E p \in Ports :
          /\ Free(d, p)
          /\ dport' = [dport EXCEPT ![d] = p]
          /\ last_line' = p
    /\ dstate' = [dstate EXCEPT ![d] = "listening"]
    /\ UNCHANGED <<status, host>>

(* The port is in use: the daemon logs the error and exits.                *)
BindFails(d) ==
    /\ dstate[d] = "starting"
    /\ \A p \in Ports : ~Free(d, p)
    /\ Dies(d)
    /\ last_line' = None
    /\ UNCHANGED <<status, host>>

(* Any other message of a daemon becomes the last line of the log.         *)
LogOther(d) ==
    /\ dstate[d] = "listening"
    /\ last_line' = None
    /\ UNCHANGED <<dstate, dport, status, host>>

(* A daemon dies by itself, or is stopped by hand.                         *)
Crash(d) ==
    /\ MayCrash
    /\ Alive(d)
    /\ Dies(d)
    /\ UNCHANGED <<last_line, status, host>>

(* A daemon moves one of its transfers on.                                 *)
Advance(t) ==
    /\ \E d \in Daemons : host[t] = d /\ dstate[d] = "listening"
    /\ \/ status[t] = "queued" /\ \E s \in {"running", "failed"} :
             status' = [status EXCEPT ![t] = s]
       \/ status[t] = "running" /\ \E s \in {"completed", "failed"} :
             status' = [status EXCEPT ![t] = s]
    /\ UNCHANGED <<dstate, dport, last_line, host>>

(* Daemon d takes a transfer on: it queues it, or rejects its transfer     *)
(* specification and remembers it as failed.                               *)
Accept(d, t) ==
    /\ status[t] = "absent"
    /\ \E s \in {"queued", "failed"} : status' = [status EXCEPT ![t] = s]
    /\ host' = [host EXCEPT ![t] = d]
    /\ UNCHANGED <<dstate, dport, last_line>>

(* What asking about transfer t on port p brings back: an error of the     *)
(* call when nobody listens, "unknown" from a daemon that does not run t.  *)
(* A call that a live daemon receives is answered: no error of gRPC comes  *)
(* from anything but a dead daemon (README, section 6).                    *)
Answer(p, t) ==
    IF Serving(p) = {} THEN "error"
    ELSE IF host[t] \in Serving(p) THEN status[t] ELSE "unknown"

EnvNext ==
    \/ \E d \in Daemons : Bind(d) \/ BindFails(d) \/ LogOther(d) \/ Crash(d)
    \/ \E t \in Transfers : Advance(t)

(* A started daemon binds its port or exits; the transfers of a daemon     *)
(* that stays up come to an end (ascp finishes, or its retries run out).   *)
EnvFairness ==
    /\ \A d \in Daemons : WF_envVars(Bind(d) \/ BindFails(d))
    /\ \A t \in Transfers : WF_envVars(Advance(t))
=============================================================================
