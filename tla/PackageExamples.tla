--------------------------- MODULE PackageExamples ---------------------------
(***************************************************************************)
(* The example programs that send files: Aspera on Cloud (examples/aoc),   *)
(* Faspex 5 (examples/faspex5) and a server reached over SSH               *)
(* (examples/server of Rust).  Each is a sequence of calls to a REST API,  *)
(* ended by a transfer, and any call may fail; a user runs the program     *)
(* again until it succeeds.  What the TransferClient of a language does is *)
(* TransferJobs, with the verdicts that ClientLibrary finds.               *)
(***************************************************************************)
EXTENDS Naturals, FiniteSets, Sequences

CONSTANTS
    Examples,    \* the programs looked at
    Workspaces,  \* of the organisation
    Deliveries,  \* packages, or uploads to a folder, that can be made (a bound)
    None         \* no workspace, no delivery

(* After the package is created: its node, the announcement where it is a  *)
(* call of its own, the token for the node, the files.                     *)
Fill == <<"node", "token", "sources", "transfer">>
FillAnnounced == <<"node", "announce", "token", "sources", "transfer">>
Faspex5 == <<"configure", "scope", "create", "spec", "sources", "transfer">>
Faspex5Remote == <<"create_remote", "folder", "remote">>

Steps ==
    [rust_aoc |-> <<"configure", "scope", "workspace", "inbox", "create">> \o FillAnnounced,
     cpp_aoc |-> <<"configure", "scope", "self", "workspace", "inbox", "create">>
                 \o FillAnnounced,
     js_aoc |-> <<"configure", "scope", "self", "workspace", "inbox", "create">>
                \o FillAnnounced,
     python_aoc |-> <<"configure", "scope", "self", "workspace", "inbox", "create">> \o Fill,
     java_aoc |-> <<"configure", "scope", "self", "workspace", "inbox", "create">> \o Fill,
     ruby_aoc |-> <<"configure", "scope", "self", "workspace", "inbox", "create">> \o Fill
                  \o <<"node", "folder_upload", "token", "sources", "transfer">>,
     csharp_aoc |-> <<"configure", "scope", "self", "default", "contact", "create">>
                    \o FillAnnounced,
     rust_faspex5 |-> Faspex5,
     go_faspex5 |-> Faspex5,
     js_faspex5 |-> Faspex5,
     java_faspex5 |-> Faspex5 \o Faspex5Remote,
     python_faspex5 |-> <<"configure", "scope", "self", "create", "spec", "sources",
                          "transfer">> \o Faspex5Remote,
     rust_server |-> <<"configure", "folder_upload", "sources", "transfer">>]

Rust == {"rust_aoc", "rust_faspex5", "rust_server"}
JavaScript == {"js_aoc", "js_faspex5"}
Java == {"java_aoc", "java_faspex5"}
CSharp == {"csharp_aoc"}
Python == {"python_aoc", "python_faspex5"}

(* What the configuration and the command line give.  Next to ascp_level,  *)
(* the daemon's own level is looked up (but for JavaScript, which does     *)
(* without it).  The url of the daemon is looked up by all at once.        *)
Settings == {"login", "workspace", "inbox", "folder", "files", "ascp_level"}

(* These start the daemon when they begin, the others for a transfer.      *)
StartAtOnce == Python \cup {"ruby_aoc"}

(* A delivery: where it is and for whom; whether that one is told of it,   *)
(* once how many transfers have come; how often it has each file; whether  *)
(* its files come from another server.                                     *)
Packages ==
    [ws : Workspaces \cup {None}, to : Workspaces \cup {None}, sent : BOOLEAN,
     expected : 0..1, files : 0..1, server : BOOLEAN]

ASSUME ExamplesAssumption ==
    /\ Examples \subseteq DOMAIN Steps
    /\ None \notin Workspaces \cup Deliveries \cup Settings \cup Packages

(* The step of a program at which a setting that is missing stops it.      *)
CheckedLate(e, setting) ==   \* mutant: Rust looks at the files when it adds them
    CASE setting = "files" -> IF e \in JavaScript \cup Rust THEN "sources"
                              ELSE IF e \in Java \cup CSharp THEN "never" ELSE "configure"
      [] setting = "login" -> IF e \in JavaScript THEN "scope" ELSE "configure"
      [] setting = "ascp_level" -> IF e \in StartAtOnce THEN "configure" ELSE "transfer"
      [] OTHER -> setting

Checked(e, setting) ==
    CASE setting = "files" -> IF e \in JavaScript THEN "sources"
                              ELSE IF e \in Java \cup CSharp THEN "never" ELSE "configure"
      [] setting = "login" -> IF e \in JavaScript THEN "scope" ELSE "configure"
      [] setting = "ascp_level" -> IF e \in StartAtOnce THEN "configure" ELSE "transfer"
      [] OTHER -> setting

VARIABLES
    example,  \* the program
    todo,     \* the steps it has still to do in this run
    missing,  \* a setting that is missing, or None
    named,    \* the workspaces that the search for the configured one finds
    inboxes,  \* the workspaces with an inbox that the search for it finds
    ws, box,  \* what the program has found: a workspace, an inbox or a contact
    job,      \* the delivery it works on
    files,    \* how often the transfer specification lists each file
    outcome,  \* how the run went
    made,     \* the deliveries there are
    mine,     \* history: those of this run
    unlucky,  \* history: a program or a daemon was killed
    status, up, told  \* the transfers, as in TransferJobs

Jobs == INSTANCE TransferJobs WITH Transfers <- Deliveries

world == <<example, missing, named, inboxes>>
local == <<ws, box, job, files>>
jobs == <<status, up, told>>
vars == <<world, local, jobs, todo, outcome, made, mine, unlucky>>

Does(e, step) == \E i \in DOMAIN Steps[e] : Steps[e][i] = step
Needed == {s \in Settings : s \in {"login", "files", "ascp_level"} \/ Does(example, s)}

(* The organisation is what Aspera on Cloud knows of: the others have none *)
Init ==
    /\ example \in Examples
    /\ todo = Steps[example]
    /\ missing \in Needed \cup {None}
    /\ named \in SUBSET {w \in Workspaces : Does(example, "node")}
    /\ inboxes \in SUBSET {w \in Workspaces : Does(example, "inbox")}
    /\ ws = None /\ box = None /\ job = None /\ files = 0
    /\ outcome = "running"
    /\ made = [d \in Deliveries |-> None]
    /\ mine = {} /\ unlucky = FALSE
    /\ Jobs!Init

-----------------------------------------------------------------------------
At(step) == outcome = "running" /\ todo # <<>> /\ Head(todo) = step
Complete(step) == missing = None \/ Checked(example, missing) # step
GoOn == todo' = Tail(todo) /\ UNCHANGED <<outcome, mine, unlucky>>

(* The daemon of a program ends with it: Drop, finally, a deferred call.   *)
(* In JavaScript an error ends the program in a callback, and the daemon   *)
(* stays.  A transfer between servers goes on.                             *)
Ends(how) ==
    /\ outcome' = how /\ todo' = <<>>
    /\ up' = IF how = "failure" /\ example \in JavaScript THEN up
             ELSE {d \in up : d \notin mine \/ made[d].server}

(* Go does not look at the error of a transfer that cannot be started; the *)
(* lookup of a setting that is missing is a panic.                         *)
Unheeded == example = "go_faspex5" /\ At("transfer") /\ Complete("transfer")

NotStarted ==
    /\ Unheeded
    /\ GoOn
    /\ UNCHANGED <<world, local, jobs, made>>

(* Any step may fail, by an exception, a status that is not a success, or  *)
(* an answer that lacks something, without having done anything.           *)
Fails ==
    /\ outcome = "running" /\ todo # <<>>
    /\ Head(todo) # "wait" /\ ~Unheeded
    /\ Ends("failure")
    /\ UNCHANGED <<world, local, status, told, made, mine, unlucky>>

Success ==
    /\ outcome = "running" /\ todo = <<>>
    /\ Ends("success")
    /\ UNCHANGED <<world, local, status, told, made, mine, unlucky>>

(* A step that leaves nothing behind but what is needed later.  The        *)
(* specification that Faspex 5 gives may list the files asked for.         *)
Ask ==
    /\ \E s \in {"configure", "scope", "self", "node", "token", "folder"} : At(s) /\ Complete(s)
    /\ GoOn
    /\ UNCHANGED <<world, local, jobs, made>>

GetTransferSpec ==
    /\ At("spec")
    /\ files' \in 0..1
    /\ GoOn
    /\ UNCHANGED <<world, ws, box, job, jobs, made>>

(* The one workspace that the search finds; in C# the user's own.          *)
Workspace ==
    /\ ws' \in Workspaces
    /\ \/ At("workspace") /\ Complete("workspace") /\ named = {ws'}
       \/ At("default")
    /\ GoOn
    /\ UNCHANGED <<world, box, job, files, jobs, made>>

(* The one inbox that the search finds in the workspace.  Rust sends the   *)
(* identifier with the quotes of its JSON form, which is no workspace's.   *)
SharedInbox ==
    /\ At("inbox") /\ Complete("inbox")
    /\ box' \in Workspaces
    /\ {box'} = IF example = "rust_aoc" THEN inboxes ELSE inboxes \cap {ws}
    /\ GoOn
    /\ UNCHANGED <<world, ws, job, files, jobs, made>>

(* C#: the first contact found for the address of the user.                *)
Contact ==
    /\ At("contact")
    /\ box' \in Workspaces \cup {None}
    /\ GoOn
    /\ UNCHANGED <<world, ws, job, files, jobs, made>>

-----------------------------------------------------------------------------
(* Python, Ruby and Java announce the package as they create it, Faspex 5  *)
(* sends a package when it is complete; the folder of a server or of a     *)
(* workspace announces nothing.                                            *)
AnnouncedAtOnce ==
    ~At("create") \/ example \notin {"rust_aoc", "cpp_aoc", "js_aoc", "csharp_aoc"}

Made(d) ==
    made' = [made EXCEPT ![d] =
        [ws |-> ws, to |-> box, sent |-> AnnouncedAtOnce, expected |-> 1, files |-> 0,
         server |-> At("create_remote")]]

Creates == At("create") \/ At("create_remote") \/ At("folder_upload")

Create ==
    /\ Creates
    /\ \E d \in Deliveries :
          /\ made[d] = None /\ Made(d)
          /\ job' = d /\ mine' = mine \cup {d}
    /\ todo' = Tail(todo)
    /\ UNCHANGED <<world, ws, box, files, jobs, outcome, unlucky>>

(* The package is created and the program does not learn it.               *)
CreateLost ==
    /\ At("create") \/ At("create_remote")
    /\ \E d \in Deliveries :
          made[d] = None /\ Made(d) /\ mine' = mine \cup {d}
    /\ Ends("failure")
    /\ UNCHANGED <<world, local, status, told, unlucky>>

AnnounceAtOnce ==   \* mutant: transfers_expected is left out
    /\ At("announce")
    /\ made' = [made EXCEPT ![job].sent = TRUE, ![job].expected = 0]
    /\ \/ GoOn /\ UNCHANGED up
       \/ Ends("failure") /\ UNCHANGED <<mine, unlucky>>
    /\ UNCHANGED <<world, local, status, told>>

(* sent and transfers_expected, whether or not the answer arrives.         *)
Announce ==
    /\ At("announce")
    /\ made' = [made EXCEPT ![job].sent = TRUE,
                            ![job].expected = IF example \in CSharp THEN 0 ELSE 1]
    /\ \/ GoOn /\ UNCHANGED up
       \/ Ends("failure") /\ UNCHANGED <<mine, unlucky>>
    /\ UNCHANGED <<world, local, status, told>>

AddToSources ==   \* mutant: the files are added to those that are listed
    /\ At("sources") /\ Complete("sources")
    /\ files' = files + IF missing = "files" THEN 0 ELSE 1
    /\ GoOn
    /\ UNCHANGED <<world, ws, box, job, jobs, made>>

(* add_files_to_ts, add_sources: the list is replaced (Go and C# add to    *)
(* it, and their programs empty it before).                                *)
AddSources ==
    /\ At("sources") /\ Complete("sources")
    /\ files' = IF missing = "files" THEN 0 ELSE 1
    /\ GoOn
    /\ UNCHANGED <<world, ws, box, job, jobs, made>>

-----------------------------------------------------------------------------
(* transfer_start_and_wait, and remote_transfer: the request, then a wait. *)
(* For the first, the daemon is started, if it was not before.             *)
Transfer ==
    /\ (At("transfer") /\ Complete("transfer")) \/ At("remote")
    /\ Jobs!Submit(job)
    /\ made' = [made EXCEPT ![job].files = files]
    /\ todo' = <<"wait">> \o Tail(todo)
    /\ UNCHANGED <<world, local, outcome, mine, unlucky>>

(* What a program takes for success: see ClientLibrary.  Go does not look  *)
(* at the error; the poll of Faspex 5 looks at the status, or fails itself.*)
Satisfied ==
    IF made[job].server THEN {"completed"}
    ELSE IF example \in Rust \cup JavaScript \cup {"cpp_aoc"} THEN {"completed"}
    ELSE IF example \in Python \cup {"ruby_aoc"} THEN {"queued", "running", "completed"}
    ELSE IF example \in CSharp THEN {"completed", "failed"}
    ELSE {"queued", "running", "completed", "failed"}

WaitImpatient ==   \* mutant: a transfer that takes long is given up
    /\ At("wait")
    /\ \/ /\ status[job] \in Satisfied
          /\ told' = [told EXCEPT ![job] = "success"]
          /\ GoOn /\ UNCHANGED up
       \/ /\ status[job] # "completed"
          /\ told' = [told EXCEPT ![job] = "failure"]
          /\ Ends("failure") /\ UNCHANGED <<mine, unlucky>>
    /\ UNCHANGED <<world, local, status, made>>

Wait ==
    /\ At("wait")
    /\ \/ /\ status[job] \in Satisfied
          /\ told' = [told EXCEPT ![job] = "success"]
          /\ GoOn /\ UNCHANGED up
       \/ /\ status[job] = "failed" \/ job \notin up \/ made[job].server
          /\ told' = [told EXCEPT ![job] = "failure"]
          /\ IF example = "go_faspex5" THEN GoOn /\ UNCHANGED up
             ELSE Ends("failure") /\ UNCHANGED <<mine, unlucky>>
    /\ UNCHANGED <<world, local, status, made>>

-----------------------------------------------------------------------------
(* The world: transfers move on, a daemon dies, a program is killed before *)
(* it has stopped its daemon, and a user runs it again.                    *)
Advance ==
    /\ \E d \in Deliveries : Jobs!Advance(d)
    /\ UNCHANGED <<world, local, todo, outcome, made, mine, unlucky>>

DaemonDies ==
    /\ Jobs!Lose /\ up' # up
    /\ \A d \in up \ up' : ~made[d].server
    /\ unlucky' = TRUE
    /\ UNCHANGED <<world, local, todo, outcome, made, mine>>

Killed ==
    /\ outcome = "running"
    /\ outcome' = "killed" /\ todo' = <<>>
    /\ unlucky' = TRUE
    /\ UNCHANGED <<world, local, jobs, made, mine>>

Rerun ==
    /\ outcome \in {"failure", "killed"}
    /\ outcome' = "running" /\ todo' = Steps[example]
    /\ ws' = None /\ box' = None /\ job' = None /\ files' = 0 /\ mine' = {}
    /\ UNCHANGED <<world, jobs, made, unlucky>>

Program ==
    \/ NotStarted \/ Fails \/ Success
    \/ Ask \/ GetTransferSpec \/ Workspace \/ SharedInbox \/ Contact
    \/ Create \/ CreateLost \/ Announce \/ AddSources \/ Transfer \/ Wait

Next == Program \/ Advance \/ DaemonDies \/ Killed \/ Rerun

Spec == Init /\ [][Next]_vars

-----------------------------------------------------------------------------
(* Properties.                                                             *)

Filled(d) == status[d] = "completed" /\ (made[d].files > 0 \/ made[d].server)
Announced(d) == made[d].sent /\ (made[d].expected = 0 \/ status[d] = "completed")

(* The workspace is the only one that the search for the configured name   *)
(* finds, and the inbox is in it.                                          *)
RightPlace(d) == made[d].to # None => named = {made[d].ws} /\ made[d].to = made[d].ws

(* A program that ends well has delivered: in Rust, JavaScript and C++     *)
(* each file once, and the recipient is told (the classes of the others    *)
(* take other ends of a transfer for their success).  And what it made is  *)
(* in the place that was searched for, but for C#, which takes the first   *)
(* contact, and rust_aoc, whose inbox may be of another workspace.         *)
Delivers(d) == Filled(d) /\ made[d].files <= 1 /\ Announced(d)
SuccessDelivers ==
    outcome = "success" => \A d \in mine :
        /\ example \in Rust \cup JavaScript \cup {"cpp_aoc"} => Delivers(d)
        /\ example \notin {"rust_aoc", "csharp_aoc"} => RightPlace(d)

(* A program that is run until it succeeds delivers its files once, if     *)
(* neither it nor a daemon was killed, though every other step failed      *)
(* meanwhile.  Those with a second part deliver the first one each time.   *)
DeliveredOnce ==
    example \notin {"ruby_aoc", "java_faspex5", "python_faspex5"} /\ ~unlucky =>
        Cardinality({d \in Deliveries : made[d] # None /\ status[d] = "completed"}) <= 1

(* The settings whose absence is noticed too late: files that are counted  *)
(* when they are added, or never; the folder of a second package; and what *)
(* is looked up when the daemon is started.                                *)
Careless == (JavaScript \cup Java \cup CSharp) \X {"files"}
            \cup {"java_faspex5", "python_faspex5"} \X {"folder"}
            \cup (DOMAIN Steps \ StartAtOnce) \X {"ascp_level"}

(* A package whose recipient is told of it has its files ("validate        *)
(* package once files have been put inside"): but for C#, which announces  *)
(* it before, and Java, which sends a list of no files.  And a program     *)
(* that lacks a setting leaves no package behind, but for those that       *)
(* notice it too late.                                                     *)
NoEmptyPackages ==
    \A d \in Deliveries : made[d] # None =>
        /\ Announced(d) => \/ Filled(d) \/ example \in CSharp
                           \/ example \in Java /\ missing = "files"
        /\ missing \in Needed => <<example, missing>> \in Careless
=============================================================================
