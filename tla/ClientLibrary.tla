---------------------------- MODULE ClientLibrary ----------------------------
(***************************************************************************)
(* The TransferClient classes of all the examples but the Rust ones,       *)
(* utils/transfer_client.  They follow one procedure and                   *)
(* differ in what they check, remember and undo: a record per language     *)
(* says what, and the steps of the procedure read it.  One program uses    *)
(* one object; the daemons are those of Transferd.                         *)
(***************************************************************************)
EXTENDS Transferd

CONSTANTS
    Languages,       \* the classes to look at
    ConfiguredPorts  \* what trsdk.url may hold: ports, and AnyPort for port 0

ASSUME LibraryAssumption ==
    /\ Languages \subseteq {"go", "python", "ruby", "csharp", "cpp", "java", "javascript"}
    /\ ConfiguredPorts \subseteq Ports \cup {AnyPort}

(* guarded  startup does nothing when there is a service                   *)
(* config   an error in the configuration file stops the startup           *)
(* kept     the process is remembered as soon as it is "spawned", or when  *)
(*          the daemon is found "started"                                  *)
(* probe    after the sleep, an exited daemon is noticed ...               *)
(* forgets  ... and its process no longer remembered                       *)
(* connect  the service is set "blindly", once the channel is "ready",     *)
(*          "early", before a first call verifies it, or "anew", the same  *)
(*          in place of one that there is                                  *)
(* undo     a connection that fails shuts the daemon down                  *)
(* refused  a transfer refused at once: "raise", "exit", or "ignore"       *)
(* stream   the wait follows a stream of events instead of asking          *)
(* raises   answers that end the wait with an error                        *)
(* returns  answers that end it normally, "end" of the stream among them   *)
(* clears   what shutdown forgets                                          *)
(* kills    the signal of shutdown reaches the daemon in every case        *)
(* drop     the end of the object shuts down                               *)
GoEndIsSuccess ==   \* mutant: the end of the stream ends the wait
    [guarded |-> TRUE, config |-> FALSE, kept |-> "spawned", probe |-> FALSE,
     forgets |-> FALSE, connect |-> "blindly", undo |-> FALSE, refused |-> "raise",
     stream |-> TRUE, raises |-> {"error", "unknown", "failed"},
     returns |-> {"completed", "end"}, clears |-> {}, kills |-> TRUE, drop |-> FALSE]

Go ==
    [guarded |-> TRUE, config |-> FALSE, kept |-> "spawned", probe |-> FALSE,
     forgets |-> FALSE, connect |-> "blindly", undo |-> FALSE, refused |-> "raise",
     stream |-> TRUE, raises |-> {"error", "unknown", "failed", "end"},
     returns |-> {"completed"}, clears |-> {}, kills |-> TRUE, drop |-> FALSE]

PythonRaisesQueued ==   \* mutant: any state but running or completed is an error
    [guarded |-> TRUE, config |-> TRUE, kept |-> "spawned", probe |-> TRUE,
     forgets |-> FALSE, connect |-> "ready", undo |-> FALSE, refused |-> "raise",
     stream |-> TRUE, raises |-> {"error", "unknown", "failed", "queued"},
     returns |-> {"completed", "end"}, clears |-> {"process"}, kills |-> FALSE, drop |-> FALSE]

Python ==
    [guarded |-> TRUE, config |-> TRUE, kept |-> "spawned", probe |-> TRUE,
     forgets |-> FALSE, connect |-> "ready", undo |-> FALSE, refused |-> "raise",
     stream |-> TRUE, raises |-> {"error", "unknown", "failed"},
     returns |-> {"completed", "end"}, clears |-> {"process"}, kills |-> FALSE, drop |-> FALSE]

RubyKeepsService ==   \* mutant: shutdown forgets the process only
    [guarded |-> TRUE, config |-> TRUE, kept |-> "spawned", probe |-> TRUE,
     forgets |-> FALSE, connect |-> "early", undo |-> FALSE, refused |-> "raise",
     stream |-> TRUE, raises |-> {"error", "unknown", "failed"},
     returns |-> {"completed", "end"}, clears |-> {"process"}, kills |-> TRUE, drop |-> FALSE]

Ruby ==
    [guarded |-> TRUE, config |-> TRUE, kept |-> "spawned", probe |-> TRUE,
     forgets |-> FALSE, connect |-> "early", undo |-> FALSE, refused |-> "raise",
     stream |-> TRUE, raises |-> {"error", "unknown", "failed"},
     returns |-> {"completed", "end"}, clears |-> {"process", "service"},
     kills |-> TRUE, drop |-> FALSE]

CSharp ==
    [guarded |-> TRUE, config |-> TRUE, kept |-> "spawned", probe |-> TRUE,
     forgets |-> TRUE, connect |-> "early", undo |-> FALSE, refused |-> "exit",
     stream |-> FALSE, raises |-> {"error"},
     returns |-> {"completed", "failed"}, clears |-> {"process", "service"},
     kills |-> TRUE, drop |-> FALSE]

CppUnknownIsAsked ==   \* mutant: an unknown transfer is asked for again
    [guarded |-> TRUE, config |-> TRUE, kept |-> "spawned", probe |-> FALSE,
     forgets |-> FALSE, connect |-> "early", undo |-> TRUE, refused |-> "raise",
     stream |-> FALSE, raises |-> {"failed"},
     returns |-> {"completed"}, clears |-> {"process", "service"}, kills |-> TRUE, drop |-> TRUE]

Cpp ==
    [guarded |-> TRUE, config |-> TRUE, kept |-> "spawned", probe |-> FALSE,
     forgets |-> FALSE, connect |-> "early", undo |-> TRUE, refused |-> "raise",
     stream |-> FALSE, raises |-> {"error", "unknown", "failed"},
     returns |-> {"completed"}, clears |-> {"process", "service"}, kills |-> TRUE, drop |-> TRUE]

Java ==
    [guarded |-> FALSE, config |-> TRUE, kept |-> "started", probe |-> TRUE,
     forgets |-> FALSE, connect |-> "early", undo |-> FALSE, refused |-> "ignore",
     stream |-> TRUE, raises |-> {"error"},
     returns |-> {"completed", "failed", "end"}, clears |-> {"process"},
     kills |-> TRUE, drop |-> FALSE]

(* The errors of JavaScript are thrown in callbacks (see Uncaught).        *)
JavaScript ==
    [guarded |-> FALSE, config |-> TRUE, kept |-> "spawned", probe |-> FALSE,
     forgets |-> FALSE, connect |-> "anew", undo |-> FALSE, refused |-> "ignore",
     stream |-> TRUE, raises |-> {},
     returns |-> {"completed"}, clears |-> {}, kills |-> TRUE, drop |-> FALSE]

Class == [go |-> Go, python |-> Python, ruby |-> Ruby, csharp |-> CSharp,
          cpp |-> Cpp, java |-> Java, javascript |-> JavaScript]

VARIABLES
    lang,         \* the language of the program
    pc,           \* where the object is
    call,         \* the method being executed
    server_port,  \* the port the object believes the daemon listens on
    as_text,      \* it was read from the log, and kept as a text (Ruby)
    process,      \* the process the object remembers
    child,        \* the process being started
    service,      \* the port that the gRPC service leads to
    stream,       \* the daemon at the other end of the stream of events
    job,          \* the transfer the caller holds
    told,         \* how the last wait on each transfer ended
    mine,         \* history: the daemons spawned by this run of the program
    unclean,      \* history: a startup failed in this run
    late          \* history: a daemon was slower than the sleep

object == <<server_port, as_text, process, child, service, stream, job>>
history == <<mine, unclean, late>>
ownVars == <<lang, pc, call, object, told, history>>
vars == <<envVars, ownVars>>

C == Class[lang]

Pcs == {"gone", "idle", "spawn", "probe", "read_port", "connect", "verify", "request",
        "accepted", "wait", "next", "sleep"}

TypeOK ==
    /\ EnvTypeOK
    /\ lang \in Languages /\ pc \in Pcs
    /\ call \in {"none", "startup", "start", "wait", "start_and_wait"}
    /\ server_port \in Ports \cup {AnyPort} /\ as_text \in BOOLEAN
    /\ process \in Daemons \cup {None} /\ child \in Daemons \cup {None}
    /\ service \in Ports \cup {AnyPort, None}
    /\ stream \in Daemons \cup {None}
    /\ job \in Transfers \cup {None}
    /\ told \in [Transfers -> {"nothing", "success", "failure"}]
    /\ mine \in SUBSET Daemons
    /\ unclean \in BOOLEAN /\ late \in BOOLEAN

Init ==
    /\ EnvInit
    /\ lang \in Languages
    /\ pc = "gone" /\ call = "none"
    /\ server_port = AnyPort /\ as_text = FALSE
    /\ process = None /\ child = None /\ service = None /\ stream = None /\ job = None
    /\ told = [t \in Transfers |-> "nothing"]
    /\ mine = {} /\ unclean = FALSE /\ late = FALSE

-----------------------------------------------------------------------------
Goto(l) == pc' = l /\ UNCHANGED <<lang, call>>
Return == pc' = "idle" /\ call' = "none" /\ UNCHANGED lang
StartupFails == Return /\ unclean' = TRUE /\ UNCHANGED <<mine, late>>
StartupDone == IF call = "startup" THEN Return ELSE Goto("request")
Overtakes == late' = (late \/ \E d \in Daemons : dstate[d] = "starting")

(* The constructor, in a program that is run (again).                      *)
New ==
    /\ pc = "gone"
    /\ Goto("idle")
    /\ server_port' \in ConfiguredPorts /\ as_text' = FALSE
    /\ mine' = {} /\ unclean' = FALSE /\ late' = FALSE
    /\ UNCHANGED <<envVars, process, child, service, stream, job, told>>

(* The end of the program: the object is gone, its daemon only where a     *)
(* destructor sees to it.                                                  *)
Gone ==
    /\ pc' = "gone" /\ call' = "none"
    /\ server_port' = AnyPort /\ as_text' = FALSE
    /\ process' = None /\ child' = None /\ service' = None /\ stream' = None /\ job' = None
    /\ UNCHANGED <<lang, history>>

End ==
    /\ pc = "idle"
    /\ Gone
    /\ IF C.drop THEN Dies(process) ELSE UNCHANGED <<dstate, dport>>
    /\ UNCHANGED <<last_line, status, host, told>>

(* shutdown.  (Ruby's raises when the process was reaped before: there is  *)
(* nothing left then to be forgotten.)                                     *)
Shutdown ==
    /\ pc = "idle"
    /\ Dies(process) \/ (~C.kills /\ UNCHANGED <<dstate, dport>>)
    /\ process' = IF "process" \in C.clears THEN None ELSE process
    /\ service' = IF "service" \in C.clears THEN None ELSE service
    /\ UNCHANGED <<last_line, status, host, lang, pc, call, server_port, as_text, child, stream,
                   job, told, history>>

-----------------------------------------------------------------------------
(* startup: start the daemon and connect to it.                            *)

StartupUnguarded ==   \* mutant: the daemon is started each time
    /\ pc = "idle"
    /\ \E m \in {"startup", "start_and_wait"} : call' = m
    /\ pc' = "spawn"
    /\ UNCHANGED <<envVars, lang, object, told, history>>

Startup ==
    /\ pc = "idle"
    /\ \E m \in {"startup", "start_and_wait"} :
          /\ m # "startup" => lang # "javascript"
          /\ call' = m
          /\ IF C.guarded /\ service # None
             THEN m # "startup" /\ pc' = "request"
             ELSE pc' = "spawn"
    /\ UNCHANGED <<envVars, lang, object, told, history>>

(* The daemon reads the configuration file just written, or the one of     *)
(* another run where the error of writing it is ignored.                   *)
Spawn ==
    /\ pc = "spawn"
    /\ \E d \in Daemons :
          /\ \/ Spawned(d, server_port)
             \/ ~C.config /\ \E p \in ConfiguredPorts : Spawned(d, p)
          /\ child' = d
          /\ process' = IF C.kept = "spawned" THEN d ELSE process
          /\ mine' = mine \cup {d}
    /\ Overtakes
    /\ Goto("probe")
    /\ UNCHANGED <<last_line, status, host, server_port, as_text, service, stream, job, told,
                   unclean>>

SpawnFails ==
    /\ pc = "spawn"
    /\ Return
    /\ UNCHANGED <<envVars, object, told, history>>

(* What follows a daemon that is found, or taken to be, running.           *)
Started(l) ==
    /\ Goto(l)
    /\ child' = None
    /\ process' = child

ProbeBlind ==   \* mutant: nobody looks whether the daemon runs
    /\ pc = "probe"
    /\ IF server_port = AnyPort
       THEN Goto("read_port") /\ UNCHANGED <<child, process>>
       ELSE Started("connect")
    /\ Overtakes
    /\ UNCHANGED <<envVars, server_port, as_text, service, stream, job, told, mine, unclean>>

(* After the sleep of two seconds.  In Ruby a port that was read from the  *)
(* log is a text, which has no zero?: the next startup of the object       *)
(* raises, with its process remembered.                                    *)
Probe ==
    /\ pc = "probe"
    /\ Overtakes
    /\ \/ /\ (C.probe => Alive(child)) /\ ~as_text
          /\ IF server_port = AnyPort
             THEN Goto("read_port") /\ UNCHANGED <<child, process>>
             ELSE Started("connect")
          /\ UNCHANGED unclean
       \/ /\ as_text /\ Alive(child)
          /\ Return /\ unclean' = TRUE
          /\ child' = None /\ UNCHANGED process
       \/ /\ C.probe /\ ~Alive(child)
          /\ Return /\ unclean' = TRUE
          /\ child' = None
          /\ process' = IF C.forgets THEN None ELSE process
    /\ UNCHANGED <<envVars, server_port, as_text, service, stream, job, told, mine>>

ReadPortUnmatched ==   \* mutant: the port is taken without a match
    /\ pc = "read_port"
    /\ server_port' = last_line /\ as_text' = (lang = "ruby")
    /\ Started("connect")
    /\ UNCHANGED <<envVars, service, stream, job, told, history>>

(* Port 0: the port is searched in the last line of the log.               *)
ReadPort ==
    /\ pc = "read_port"
    /\ \/ /\ last_line # None
          /\ server_port' = last_line /\ as_text' = (lang = "ruby")
          /\ Started("connect")
          /\ UNCHANGED history
       \/ /\ last_line = None
          /\ StartupFails
          /\ child' = None
          /\ UNCHANGED <<server_port, as_text, process>>
    /\ UNCHANGED <<envVars, service, stream, job, told>>

Connect ==
    /\ pc = "connect"
    /\ \/ /\ C.connect = "blindly"
          /\ service' = server_port
          /\ StartupDone /\ UNCHANGED history
       \/ /\ C.connect = "ready"
          /\ IF Serving(server_port) # {}
             THEN service' = server_port /\ StartupDone /\ UNCHANGED history
             ELSE StartupFails /\ UNCHANGED service
       \/ /\ C.connect = "anew" \/ (C.connect = "early" /\ (C.guarded \/ service = None))
          /\ service' = server_port
          /\ Goto("verify") /\ UNCHANGED history
       \/ /\ C.connect = "early" /\ ~C.guarded /\ service # None   \* "already connected to daemon"
          /\ StartupFails /\ UNCHANGED service
    /\ UNCHANGED <<envVars, server_port, as_text, process, child, stream, job, told>>

(* The first call, or the channel's state.                                 *)
Verify ==
    /\ pc = "verify"
    /\ \/ /\ Serving(service) # {}
          /\ StartupDone
          /\ UNCHANGED <<dstate, dport, process, service, history>>
       \/ /\ Serving(service) = {}
          /\ StartupFails
          /\ IF C.undo
             THEN Dies(process) /\ process' = None /\ service' = None
             ELSE UNCHANGED <<dstate, dport, process, service>>
    /\ UNCHANGED <<last_line, status, host, server_port, as_text, child, stream, job, told>>

-----------------------------------------------------------------------------
(* start_transfer.  JavaScript has one method, which waits and does not    *)
(* start the daemon.                                                       *)

StartTransfer ==
    /\ pc = "idle" /\ service # None
    /\ call' = IF lang = "javascript" THEN "start_and_wait" ELSE "start"
    /\ pc' = "request"
    /\ UNCHANGED <<envVars, lang, object, told, history>>

Request ==
    /\ pc = "request"
    /\ \E d \in Serving(service), t \in Transfers : Accept(d, t) /\ job' = t
    /\ Goto("accepted")
    /\ UNCHANGED <<server_port, as_text, process, child, service, stream, told, history>>

RequestFails ==
    /\ pc = "request"
    /\ Return
    /\ UNCHANGED <<envVars, object, told, history>>

(* The answer: a transfer may be refused in it, which is not a verdict on  *)
(* a transfer that the caller holds.                                       *)
Answered ==
    /\ pc = "accepted" /\ Alive(host[job])
    /\ \/ /\ status[job] # "failed" \/ C.refused = "ignore"
          /\ IF call = "start" THEN Return ELSE Goto("wait")
          /\ UNCHANGED <<object, told, history>>
       \/ /\ status[job] = "failed" /\ C.refused = "raise"
          /\ Return
          /\ job' = None
          /\ UNCHANGED <<server_port, as_text, process, child, service, stream, told, history>>
       \/ status[job] = "failed" /\ C.refused = "exit" /\ Gone /\ UNCHANGED told
    /\ UNCHANGED envVars

AnswerLost ==
    /\ pc = "accepted" /\ ~Alive(host[job])
    /\ job' = None
    /\ Return
    /\ UNCHANGED <<envVars, server_port, as_text, process, child, service, stream, told, history>>

-----------------------------------------------------------------------------
(* wait_transfer.                                                          *)

WaitTransfer ==
    /\ pc = "idle" /\ job # None /\ service # None /\ lang # "javascript"
    /\ call' = "wait" /\ pc' = "wait"
    /\ UNCHANGED <<envVars, lang, object, told, history>>

(* An answer about the transfer ends the wait, or not.                     *)
Hears(answer, again) ==
    \/ answer \in C.raises /\ Return /\ told' = [told EXCEPT ![job] = "failure"]
    \/ answer \in C.returns /\ Return /\ told' = [told EXCEPT ![job] = "success"]
    \/ answer \notin C.raises \cup C.returns /\ Goto(again) /\ UNCHANGED told

(* The daemon is asked, or the stream of its events opened.  In JavaScript *)
(* it is the answer to the request.                                        *)
Wait ==
    /\ pc = "wait"
    /\ IF lang = "javascript" THEN Goto("next") /\ stream' = host[job] /\ UNCHANGED told
       ELSE IF C.stream /\ Serving(service) # {}
       THEN Goto("next") /\ stream' \in Serving(service) /\ UNCHANGED told
       ELSE Hears(Answer(service, job), "sleep") /\ UNCHANGED stream
    /\ UNCHANGED <<envVars, server_port, as_text, process, child, service, job, history>>

(* The next event of the stream, which breaks with its daemon and which    *)
(* the daemon may close.                                                   *)
NextEvent ==
    /\ pc = "next" /\ stream # None
    /\ \E event \in IF ~Alive(stream) THEN {"error"}
                    ELSE {IF host[job] = stream THEN status[job] ELSE "unknown", "end"} :
          Hears(event, "next") /\ stream' = IF pc' = "next" /\ event # "end" THEN stream ELSE None
    /\ UNCHANGED <<envVars, server_port, as_text, process, child, service, job, history>>

Sleep ==
    /\ pc = "sleep"
    /\ Goto("wait")
    /\ UNCHANGED <<envVars, object, told, history>>

-----------------------------------------------------------------------------
(* What JavaScript throws in a callback ends the program: a transfer that  *)
(* failed, a stream that broke, the exit of a daemon before there is a     *)
(* service.                                                                *)
Uncaught ==
    /\ lang = "javascript"
    /\ \/ /\ pc = "next" /\ stream # None
          /\ ~Alive(stream) \/ status[job] = "failed"
          /\ told' = [told EXCEPT ![job] = "failure"]
       \/ /\ pc # "gone" /\ service = None
          /\ \E d \in mine : dstate[d] = "dead"
          /\ UNCHANGED told
    /\ Gone
    /\ UNCHANGED envVars

(* Nobody listens to the end of the stream: the callback is never called,  *)
(* and only the user can end the program.                                  *)
Interrupt ==
    /\ pc = "next" /\ stream = None
    /\ Gone
    /\ UNCHANGED <<envVars, told>>

-----------------------------------------------------------------------------
Step ==
    \/ Spawn \/ SpawnFails \/ Probe \/ ReadPort \/ Connect \/ Verify
    \/ Request \/ RequestFails \/ Answered \/ AnswerLost
    \/ Wait \/ NextEvent \/ Sleep \/ Uncaught

Use == Interrupt \/ New \/ End \/ Shutdown \/ Startup \/ StartTransfer \/ WaitTransfer

Next == (EnvNext /\ UNCHANGED ownVars) \/ Step \/ Use

Spec == Init /\ [][Next]_vars
FairSpec == Spec /\ EnvFairness /\ WF_vars(Step)

-----------------------------------------------------------------------------
(* Properties.  Each names the languages it is true of.                    *)

(* What the normal end of a wait says of the transfer.                     *)
Meaning == [go |-> {"completed"}, cpp |-> {"completed"}, javascript |-> {"completed"},
            csharp |-> {"completed", "failed"}]
SuccessIsHonest ==
    \A t \in Transfers : lang \in DOMAIN Meaning /\ told[t] = "success"
        => status[t] \in Meaning[lang]

(* A wait that raised was for a transfer that failed, or whose daemon is   *)
(* dead; Go takes the end of the stream, too, for an error.                *)
FailureIsHonest ==
    \A t \in Transfers : lang # "go" /\ told[t] = "failure" =>
        status[t] = "failed" \/ ~Alive(host[t])

(* A transfer is not requested after a shutdown unless a daemon was        *)
(* started since: what a shutdown clears is what a startup tests.          *)
RequestsHaveDaemon ==
    lang \in {"ruby", "csharp", "cpp"} /\ pc = "request" => process # None

(* A program whose startups were good has its transfers run by a daemon    *)
(* of its own, though another one may hold the configured port.            *)
OnOwnDaemon == job # None /\ ~unclean /\ ~late => host[job] \in mine
RunsOnOwnDaemon == lang \in {"python", "ruby", "csharp", "java"} => OnOwnDaemon
CppRunsOnOwnDaemon == lang = "cpp" => OnOwnDaemon

(* No daemon of the program runs that the object has forgotten, unless a   *)
(* startup failed (as each but the first one does in Java, and in Ruby     *)
(* once a port was read from the log).  JavaScript spawns a daemon each    *)
(* time.                                                                   *)
NoneForgotten ==
    lang \notin {"python", "javascript"} /\ ~unclean /\ pc = "idle" =>
        \A d \in mine : Alive(d) => d = process

(* Every call comes back.                                                  *)
CallsReturn ==
    (pc \notin {"gone", "idle"} /\ lang \in {"go", "python", "ruby", "cpp"})
        ~> (pc \in {"gone", "idle"})
=============================================================================
