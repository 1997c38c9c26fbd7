------------------------------- MODULE WebApp -------------------------------
(***************************************************************************)
(* The web application: the page (web/src/client/client.ts), with the      *)
(* choice of a transfer client, the state of the Aspera SDK it shows, the  *)
(* drop area, the selection of files and the transfers; and the server     *)
(* that authorizes them (web/src/server/server.ts).  Each action runs from *)
(* one `await`, event or timer to the next.                                *)
(***************************************************************************)
EXTENDS Naturals, FiniteSets

CONSTANTS
    Choices,     \* the transfer clients offered, "desktop" among them
    Files,       \* files the user can select
    Calls,       \* clicks on "Start transfer" (bounds them)
    MaxChanges,  \* bound: status changes of the SDK in one page
    MaxLoads,    \* bound: how often the page is loaded
    MaxWaiting,  \* bound: updates of the page waiting at the same time
    None

ASSUME WebAssumption ==
    /\ "desktop" \in Choices /\ Choices \subseteq {"desktop", "connect", "httpgw"}
    /\ MaxChanges \in Nat /\ MaxLoads \in Nat \ {0} /\ MaxWaiting \in Nat
    /\ None \notin Choices \cup {"RUNNING", "DEGRADED", "FAILED"}

VARIABLES
    page,     \* "loading" its configuration, "init" of the SDK, "ready", "broken"
    radio,    \* the client that is checked
    current,  \* currentClient
    saved,    \* selectedClient of the session storage
    sdk,      \* the status of the SDK
    shown,    \* the status displayed
    link,     \* whether the link to launch Desktop is displayed
    dragDropInitialized,
    zones,    \* drop zones created on the drop area
    waiting,  \* how many activities of the page are suspended, and where
    op,       \* the direction that is checked
    selectedUploadFiles,
    dialog,   \* whether the file dialog is open
    calls,    \* the calls of startClientTransfer
    handed,   \* the transfers handed to the SDK
    server,   \* "up", "stopping", "closing" or "exited"
    chosen,   \* history: the client the user chose last
    refused,  \* history: drag and drop failed since the SDK was last RUNNING
    changes, loads

sdkVars == <<sdk, changes>>
statusVars == <<shown, link>>
dropVars == <<dragDropInitialized, zones, refused>>
choiceVars == <<page, radio, current, saved, chosen, loads>>
uploadVars == <<op, selectedUploadFiles, dialog, calls, handed>>
vars == <<choiceVars, sdkVars, statusVars, dropVars, waiting, uploadVars, server>>

(* The SDK tells four states; FAILED stands for DISCONNECTED as well, which *)
(* the page treats in the same way.                                        *)
Statuses == {"RUNNING", "DEGRADED", "FAILED"}

(* Where an activity waits: for the 500 ms after RUNNING, for initDragDrop, *)
(* for createDropzone, for getInfo, for getInfo with a link to add then.   *)
Places == {"timer", "initDragDrop", "createDropzone", "getInfo", "getInfo+link"}

NoCall == [at |-> "none", op |-> "download", files |-> {}]

TypeOK ==
    /\ page \in {"loading", "init", "ready", "broken"}
    /\ radio \in Choices /\ chosen \in Choices
    /\ current \in Choices \cup {None} /\ saved \in Choices \cup {None}
    /\ sdk \in Statuses \cup {None} /\ shown \in Statuses \cup {None}
    /\ link \in BOOLEAN /\ dragDropInitialized \in BOOLEAN /\ refused \in BOOLEAN
    /\ waiting \in [Places -> Nat] /\ zones \in Nat
    /\ op \in {"upload", "download"}
    /\ selectedUploadFiles \subseteq Files /\ dialog \in BOOLEAN
    /\ calls \in [Calls -> [at : {"none", "tspec", "startTransfer", "over"},
                            op : {"upload", "download"}, files : SUBSET Files]]
    /\ handed \in [Calls -> {None} \cup [op : {"upload", "download"}, files : SUBSET Files]]
    /\ server \in {"up", "stopping", "closing", "exited"}
    /\ changes \in 0..MaxChanges /\ loads \in 0..MaxLoads

(* What a page starts from.                                                *)
Blank ==
    /\ page = "loading" /\ radio = "desktop" /\ current = None
    /\ sdk = None /\ changes = 0 /\ shown = None /\ link = FALSE
    /\ dragDropInitialized = FALSE /\ zones = 0 /\ refused = FALSE
    /\ waiting = [p \in Places |-> 0]
    /\ op = "download" /\ selectedUploadFiles = {} /\ dialog = FALSE

Init ==
    /\ Blank
    /\ saved = None /\ chosen = "desktop" /\ loads = 1
    /\ calls = [k \in Calls |-> NoCall] /\ handed = [k \in Calls |-> None]
    /\ server = "up"

-----------------------------------------------------------------------------
(* Activities of the page.                                                 *)

Suspend(p) == waiting' = [waiting EXCEPT ![p] = @ + 1]
Move(p, q) == waiting' = [w \in Places |->
    waiting[w] - (IF w = p THEN 1 ELSE 0) + (IF w = q THEN 1 ELSE 0)]
Done(p) == waiting' = [waiting EXCEPT ![p] = @ - 1]
Room == waiting["getInfo"] + waiting["getInfo+link"] + waiting["timer"] < MaxWaiting

(* Mutant: the choice is not saved.                                        *)
ReloadUnsaved == saved' = None

(* updateUi when another client is checked than the one in use: the page   *)
(* is loaded again, and all it was doing is gone.                          *)
SaveChoice == saved' = radio'

Reload ==
    /\ SaveChoice
    /\ page' = "loading" /\ current' = None /\ loads' = loads + 1
    /\ sdk' = None /\ changes' = 0 /\ shown' = None /\ link' = FALSE
    /\ dragDropInitialized' = FALSE /\ zones' = 0 /\ refused' = FALSE
    /\ waiting' = [p \in Places |-> 0]
    /\ selectedUploadFiles' = {} /\ dialog' = FALSE
    /\ calls' = [k \in Calls |->
          IF calls[k].at = "none" THEN calls[k] ELSE [calls[k] EXCEPT !.at = "over"]]
    /\ UNCHANGED <<handed, server>>

-----------------------------------------------------------------------------
(* The life of the page.                                                   *)

(* Mutant: the saved choice is checked without a test that there is one.   *)
LoadUntested ==
    /\ page = "loading" /\ server \in {"up", "stopping"}
    /\ page' = "init"
    /\ radio' = saved
    /\ saved' = None
    /\ UNCHANGED <<current, chosen, loads, sdkVars, statusVars, dropVars, waiting,
                   uploadVars, server>>

(* The configuration is there: initialize, up to removeDropzone.           *)
Load ==
    /\ page = "loading" /\ server \in {"up", "stopping"}
    /\ page' = "init"
    /\ radio' = IF saved # None THEN saved ELSE "desktop"
    /\ saved' = None
    /\ UNCHANGED <<current, chosen, loads, sdkVars, statusVars, dropVars, waiting,
                   uploadVars, server>>

LoadFails ==
    /\ page = "loading" /\ server \notin {"up", "stopping"}
    /\ page' = "broken"
    /\ UNCHANGED <<radio, current, saved, chosen, loads, sdkVars, statusVars, dropVars,
                   waiting, uploadVars, server>>

(* The callbacks are registered, the session is initialised, and the       *)
(* interface shown, for the client that was checked.                       *)
Initialized ==
    /\ page = "init"
    /\ page' = "ready"
    /\ current' = radio
    /\ dragDropInitialized' = FALSE
    /\ Suspend("getInfo")
    /\ UNCHANGED <<radio, saved, chosen, loads, sdkVars, statusVars, zones, refused,
                   uploadVars, server>>

(* The user checks another client, or another direction.                   *)
ChooseClient ==
    /\ page \in {"init", "ready"} /\ loads < MaxLoads
    /\ \E c \in Choices \ {radio} : radio' = c /\ chosen' = c
    /\ Reload
    /\ op' = "download"

ChooseDirection ==
    /\ page \in {"init", "ready"}
    /\ \E o \in {"upload", "download"} \ {op} :
          IF radio # current
          THEN /\ loads < MaxLoads
               /\ UNCHANGED <<radio, chosen>>
               /\ Reload
               /\ op' = "download"
          ELSE /\ Room
               /\ op' = o
               /\ Suspend("getInfo")
               /\ UNCHANGED <<choiceVars, sdkVars, statusVars, dropVars,
                              selectedUploadFiles, dialog, calls, handed, server>>

-----------------------------------------------------------------------------
(* The status of the SDK, and the drop area.                               *)

(* The SDK has another status: handleStatusEvents, up to its first await.  *)
StatusEvent ==
    /\ page = "ready" /\ changes < MaxChanges /\ Room
    /\ \E s \in Statuses \ {sdk} :
          /\ sdk' = s
          /\ Suspend(IF s = "RUNNING" THEN "timer"
                     ELSE IF s = "FAILED" /\ current = "desktop" THEN "getInfo+link"
                     ELSE "getInfo")
          /\ refused' = (refused /\ s # "RUNNING")
    /\ changes' = changes + 1
    /\ UNCHANGED <<choiceVars, statusVars, dragDropInitialized, zones, uploadVars, server>>

(* Mutant: nothing is left to do when drag and drop is there already.      *)
TimerReturnsEarly ==
    /\ waiting["timer"] > 0
    /\ IF ~dragDropInitialized /\ current # "httpgw"
       THEN Move("timer", "initDragDrop")
       ELSE Done("timer")
    /\ UNCHANGED <<choiceVars, sdkVars, statusVars, dropVars, uploadVars, server>>

(* Mutant: the flag is raised before drag and drop is initialised, so that *)
(* a second timer does not do it again.                                    *)
TimerRaisesFlag ==
    /\ waiting["timer"] > 0
    /\ IF ~dragDropInitialized /\ current # "httpgw"
       THEN Move("timer", "initDragDrop")
       ELSE Move("timer", "getInfo")
    /\ dragDropInitialized' = TRUE
    /\ UNCHANGED <<choiceVars, sdkVars, statusVars, zones, refused, uploadVars, server>>

(* 500 ms after RUNNING.                                                   *)
Timer ==
    /\ waiting["timer"] > 0
    /\ IF ~dragDropInitialized /\ current # "httpgw"
       THEN Move("timer", "initDragDrop")
       ELSE Move("timer", "getInfo")
    /\ UNCHANGED <<choiceVars, sdkVars, statusVars, dropVars, uploadVars, server>>

InitDragDrop ==
    /\ waiting["initDragDrop"] > 0
    /\ Move("initDragDrop", "createDropzone")
    /\ UNCHANGED <<choiceVars, sdkVars, statusVars, dropVars, uploadVars, server>>

CreateDropzone ==
    /\ waiting["createDropzone"] > 0
    /\ zones' = zones + 1
    /\ dragDropInitialized' = TRUE
    /\ Move("createDropzone", "getInfo")
    /\ UNCHANGED <<choiceVars, sdkVars, statusVars, refused, uploadVars, server>>

DragDropFails ==
    /\ \E p \in {"initDragDrop", "createDropzone"} :
          waiting[p] > 0 /\ Move(p, "getInfo")
    /\ refused' = TRUE
    /\ UNCHANGED <<choiceVars, sdkVars, statusVars, dragDropInitialized, zones,
                   uploadVars, server>>

(* refreshStatusDisplay after its await: the status is read now, but for   *)
(* Connect, whose status is the one that getInfo brings.                   *)
RefreshStatusDisplay ==
    /\ \E p \in {"getInfo", "getInfo+link"} :
          /\ waiting[p] > 0
          /\ Done(p)
          /\ link' = (p = "getInfo+link")
    /\ \/ shown' = sdk
       \/ current = "connect" /\ shown' \in Statuses
    /\ UNCHANGED <<choiceVars, sdkVars, dropVars, uploadVars, server>>

-----------------------------------------------------------------------------
(* The selection of files.                                                 *)

PickFiles ==
    /\ page = "ready" /\ ~dialog
    /\ selectedUploadFiles' = {}
    /\ dialog' = TRUE
    /\ UNCHANGED <<choiceVars, sdkVars, statusVars, dropVars, waiting, op, calls, handed, server>>

Picked ==
    /\ dialog /\ Room
    /\ dialog' = FALSE
    /\ \E F \in SUBSET Files : selectedUploadFiles' = F
    /\ Suspend("getInfo")
    /\ UNCHANGED <<choiceVars, sdkVars, statusVars, dropVars, op, calls, handed, server>>

PickCancelled ==
    /\ dialog
    /\ dialog' = FALSE
    /\ UNCHANGED <<choiceVars, sdkVars, statusVars, dropVars, waiting, op,
                   selectedUploadFiles, calls, handed, server>>

(* handleDropEvent, once for each drop zone: the files are added.          *)
Drop ==
    /\ page = "ready" /\ zones > 0 /\ Room
    /\ \E F \in SUBSET Files \ {{}} : selectedUploadFiles' = selectedUploadFiles \cup F
    /\ Suspend("getInfo")
    /\ UNCHANGED <<choiceVars, sdkVars, statusVars, dropVars, op, dialog, calls, handed, server>>

-----------------------------------------------------------------------------
(* startClientTransfer and the server's answer to it.                      *)

Continue(k, at) == calls' = [calls EXCEPT ![k].at = at]
Sources(k) == [op |-> calls[k].op, files |-> calls[k].files]

(* With SSH credentials the page makes the specification itself.           *)
StartClientTransfer(k) ==
    /\ page = "ready" /\ calls[k].at = "none"
    /\ \E at \in {"tspec", "startTransfer"} :
          /\ at = "tspec" => server \in {"up", "stopping"}
          /\ LET files == IF op = "download" THEN {} ELSE selectedUploadFiles
                 call == [at |-> at, op |-> op, files |-> files]
             IN  /\ calls' = [calls EXCEPT ![k] = call]
                 /\ handed' = IF at = "tspec" THEN handed
                              ELSE [handed EXCEPT ![k] = [op |-> op, files |-> files]]
    /\ UNCHANGED <<choiceVars, sdkVars, statusVars, dropVars, waiting, op,
                   selectedUploadFiles, dialog, server>>

(* Mutant: the files are those selected when the server has answered.      *)
AuthorizedLate(k) ==
    /\ calls[k].at = "tspec"
    /\ Continue(k, "startTransfer")
    /\ handed' = [handed EXCEPT ![k] = [op |-> calls[k].op, files |-> selectedUploadFiles]]
    /\ UNCHANGED <<choiceVars, sdkVars, statusVars, dropVars, waiting, op,
                   selectedUploadFiles, dialog, server>>

(* The Node API authorizes the operation; the server puts the sources of   *)
(* the request in its answer, and the page hands it to the SDK.            *)
Authorized(k) ==
    /\ calls[k].at = "tspec"
    /\ Continue(k, "startTransfer")
    /\ handed' = [handed EXCEPT ![k] = Sources(k)]
    /\ UNCHANGED <<choiceVars, sdkVars, statusVars, dropVars, waiting, op,
                   selectedUploadFiles, dialog, server>>

(* The request, the Node API or the SDK fails: an alert.                   *)
TransferFails(k) ==
    /\ calls[k].at \in {"tspec", "startTransfer"}
    /\ Continue(k, "over")
    /\ UNCHANGED <<choiceVars, sdkVars, statusVars, dropVars, waiting, op,
                   selectedUploadFiles, dialog, handed, server>>

TransferStarted(k) ==
    /\ calls[k].at = "startTransfer" /\ Room
    /\ Continue(k, "over")
    /\ selectedUploadFiles' = IF calls[k].op = "upload" THEN {} ELSE selectedUploadFiles
    /\ Suspend("getInfo")
    /\ UNCHANGED <<choiceVars, sdkVars, statusVars, dropVars, op, dialog, handed, server>>

(* handleTransferEvents: the progress of a transfer updates the page.      *)
TransferEvent ==
    /\ page = "ready" /\ Room
    /\ \E k \in Calls : calls[k].at = "over" /\ handed[k] # None
    /\ Suspend("getInfo")
    /\ UNCHANGED <<choiceVars, sdkVars, statusVars, dropVars, uploadVars, server>>

-----------------------------------------------------------------------------
(* /api/shutdown: the answer, then 200 ms later close, which waits for the *)
(* requests under way, then exit.                                          *)

Shutdown == server = "up" /\ server' = "stopping"
Close == server = "stopping" /\ server' = "closing"

(* Mutant: the callback of close is forgotten.                             *)
ExitForgotten == FALSE /\ server' = "exited"
Exit == server = "closing" /\ (\A k \in Calls : calls[k].at # "tspec") /\ server' = "exited"

ServerStops ==
    /\ Shutdown \/ Close \/ Exit
    /\ UNCHANGED <<choiceVars, sdkVars, statusVars, dropVars, waiting, uploadVars>>

-----------------------------------------------------------------------------
User ==
    \/ ChooseClient \/ ChooseDirection \/ PickFiles \/ Picked \/ PickCancelled \/ Drop
    \/ \E k \in Calls : StartClientTransfer(k)

Page ==
    \/ Load \/ LoadFails \/ Initialized
    \/ Timer \/ InitDragDrop \/ CreateDropzone \/ DragDropFails \/ RefreshStatusDisplay
    \/ \E k \in Calls : Authorized(k) \/ TransferFails(k) \/ TransferStarted(k)

Next == User \/ Page \/ StatusEvent \/ TransferEvent \/ ServerStops

Spec == Init /\ [][Next]_vars

(* Promises are settled and timers fire; the Node API answers; the server  *)
(* that was told to stop goes on with it.                                  *)
FairSpec ==
    /\ Spec
    /\ WF_vars(Page)
    /\ \A k \in Calls : WF_vars(Authorized(k) \/ TransferFails(k))
    /\ WF_vars(ServerStops /\ server # "up")

-----------------------------------------------------------------------------
(* Properties.                                                             *)

Quiet == page = "ready" /\ \A p \in Places : waiting[p] = 0

(* With nothing left to do, the page shows the status of the SDK, however  *)
(* its changes and the answers to getInfo were interleaved.                *)
ShowsCurrentStatus == Quiet /\ current # "connect" => shown = sdk

(* A SDK that runs leaves the user with a drop area, unless initialising   *)
(* it failed since: an earlier failure does not prevent a later attempt.   *)
DropAreaReady ==
    Quiet /\ sdk = "RUNNING" /\ current # "httpgw" /\ ~refused => zones > 0

(* The page is at work with the client that the user chose last, through   *)
(* the reloads that changing it takes.                                     *)
UsesChosenClient == page = "ready" => current = chosen /\ radio = chosen

(* The SDK is handed the files and the direction that were on the page     *)
(* when the user clicked, whatever happened to the selection since.        *)
TransfersWhatWasAsked == \A k \in Calls : handed[k] # None => handed[k] = Sources(k)

(* A server told to stop stops, once it has answered.                      *)
ServerExits == (server = "stopping") ~> (server = "exited")
=============================================================================
