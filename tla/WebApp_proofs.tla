----------------------------- MODULE WebApp_proofs -----------------------------
(***************************************************************************)
(* Proofs about WebApp, for any clients offered, files, clicks and bounds: *)
(* its types, the choice of the client, what is handed to the SDK, and     *)
(* what a page shows that has nothing left to do.                          *)
(***************************************************************************)
EXTENDS WebApp, TLAPS

-----------------------------------------------------------------------------
(* An activity that moves on from where there is one leaves counters.      *)
LEMMA Counters ==
    ASSUME waiting \in [Places -> Nat], NEW p \in Places, NEW q \in Places,
           waiting[p] > 0, p # q
    PROVE  /\ Move(p, q) => /\ waiting' \in [Places -> Nat]
                            /\ waiting'[q] > 0
                            /\ \A w \in Places \ {p, q} : waiting'[w] = waiting[w]
           /\ Done(p) => /\ waiting' \in [Places -> Nat]
                         /\ \A w \in Places \ {p} : waiting'[w] = waiting[w]
BY DEF Move, Done

(* An activity that is suspended waits at its place, and no other place is *)
(* left.                                                                   *)
LEMMA Suspended ==
    ASSUME waiting \in [Places -> Nat], NEW p \in Places, Suspend(p)
    PROVE  /\ waiting' \in [Places -> Nat] /\ waiting'[p] > 0
           /\ \A w \in Places : waiting[w] > 0 => waiting'[w] > 0
BY DEF Suspend

(* The places are the ones that the actions name.                          *)
LEMMA PlacesNamed ==
    /\ "timer" \in Places /\ "initDragDrop" \in Places /\ "createDropzone" \in Places
    /\ "getInfo" \in Places /\ "getInfo+link" \in Places
BY DEF Places

(* The records of the calls, as TypeOK has them.                           *)
CallRecord == [at : {"none", "tspec", "startTransfer", "over"},
               op : {"upload", "download"}, files : SUBSET Files]

(* The page starts blank, and blank has its type.                          *)
LEMMA InitTyped == Init => TypeOK
<1> SUFFICES ASSUME Init PROVE TypeOK
  OBVIOUS
<1>1. NoCall \in CallRecord
  BY DEF NoCall, CallRecord
<1>2. calls \in [Calls -> CallRecord]
  BY <1>1 DEF Init
<1>3. handed \in [Calls -> {None} \cup [op : {"upload", "download"}, files : SUBSET Files]]
  BY DEF Init
<1>4. waiting \in [Places -> Nat]
  BY DEF Init, Blank
<1>5. loads \in 0..MaxLoads /\ changes \in 0..MaxChanges /\ zones \in Nat
  BY WebAssumption DEF Init, Blank
<1> QED BY <1>2, <1>3, <1>4, <1>5, WebAssumption DEF Init, Blank, TypeOK, CallRecord

(* The calls that a reload ends.                                           *)
LEMMA ReloadEndsCalls ==
    ASSUME TypeOK, Reload
    PROVE  calls' \in [Calls -> CallRecord]
<1>1. \A k \in Calls : calls[k] \in CallRecord
  BY DEF TypeOK, CallRecord
<1>2. \A k \in Calls : [calls[k] EXCEPT !.at = "over"] \in CallRecord
  BY <1>1 DEF CallRecord
<1> QED BY <1>1, <1>2 DEF Reload

(* The type invariant of WebApp holds for every instance.                  *)
THEOREM WebTyping == Spec => []TypeOK
<1>1. Init => TypeOK
  BY InitTyped
<1>2. TypeOK /\ [Next]_vars => TypeOK'
  <2> SUFFICES ASSUME TypeOK, [Next]_vars PROVE TypeOK'
    OBVIOUS
  <2>0. Reload => calls' \in [Calls -> CallRecord]
    BY ReloadEndsCalls
  <2> USE WebAssumption
      DEF TypeOK, CallRecord, choiceVars, sdkVars, statusVars, dropVars, uploadVars
  <2>1. CASE User
    <3>0. ASSUME Reload, loads < MaxLoads, radio' \in Choices, chosen' \in Choices,
                 op' = "download"
          PROVE TypeOK'
      <4>1. /\ page' = "loading" /\ saved' = radio' /\ current' = None /\ sdk' = None
            /\ shown' = None /\ link' = FALSE /\ dragDropInitialized' = FALSE /\ zones' = 0
            /\ refused' = FALSE /\ selectedUploadFiles' = {} /\ dialog' = FALSE
            /\ UNCHANGED <<handed, server>>
        BY <3>0 DEF Reload, SaveChoice
      <4>2. loads' \in 0..MaxLoads /\ changes' \in 0..MaxChanges
        BY <3>0 DEF Reload
      <4>3. waiting' \in [Places -> Nat]
        BY <3>0 DEF Reload
      <4> QED BY <2>0, <3>0, <4>1, <4>2, <4>3
    <3>1. CASE ChooseClient
      BY <3>0, <3>1 DEF ChooseClient
    <3>2. CASE ChooseDirection
      <4>1. CASE radio # current
        BY <3>0, <3>2, <4>1 DEF ChooseDirection
      <4>2. CASE radio = current
        BY <3>2, <4>2, PlacesNamed, Suspended DEF ChooseDirection
      <4> QED BY <4>1, <4>2
    <3>3. CASE PickFiles \/ PickCancelled BY <3>3 DEF PickFiles, PickCancelled
    <3>4. CASE Picked BY <3>4, PlacesNamed, Suspended DEF Picked
    <3>5. CASE Drop BY <3>5, PlacesNamed, Suspended DEF Drop
    <3>6. ASSUME NEW k \in Calls, StartClientTransfer(k) PROVE TypeOK'
      BY <3>6 DEF StartClientTransfer
    <3> QED BY <2>1, <3>1, <3>2, <3>3, <3>4, <3>5, <3>6 DEF User
  <2>2. CASE Page
    <3>1. CASE Load \/ LoadFails BY <3>1 DEF Load, LoadFails
    <3>2. CASE Initialized BY <3>2, PlacesNamed, Suspended DEF Initialized
    <3>3. CASE Timer BY <3>3, PlacesNamed, Counters DEF Timer
    <3>4. CASE InitDragDrop BY <3>4, PlacesNamed, Counters DEF InitDragDrop
    <3>5. CASE CreateDropzone BY <3>5, PlacesNamed, Counters DEF CreateDropzone
    <3>6. CASE DragDropFails BY <3>6, PlacesNamed, Counters DEF DragDropFails
    <3>7. CASE RefreshStatusDisplay
      BY <3>7, PlacesNamed, Counters DEF RefreshStatusDisplay
    <3>8. ASSUME NEW k \in Calls, Authorized(k) \/ TransferFails(k) PROVE TypeOK'
      BY <3>8 DEF Authorized, TransferFails, Continue, Sources
    <3>9. ASSUME NEW k \in Calls, TransferStarted(k) PROVE TypeOK'
      BY <3>9, PlacesNamed, Suspended DEF TransferStarted, Continue
    <3> QED BY <2>2, <3>1, <3>2, <3>3, <3>4, <3>5, <3>6, <3>7, <3>8, <3>9 DEF Page
  <2>3. CASE StatusEvent
    BY <2>3, PlacesNamed, Suspended DEF StatusEvent, Statuses
  <2>4. CASE TransferEvent BY <2>4, PlacesNamed, Suspended DEF TransferEvent
  <2>5. CASE ServerStops BY <2>5 DEF ServerStops, Shutdown, Close, Exit
  <2>6. CASE UNCHANGED vars BY <2>6 DEF vars
  <2> QED BY <2>1, <2>2, <2>3, <2>4, <2>5, <2>6 DEF Next
<1> QED BY <1>1, <1>2, PTL DEF Spec

-----------------------------------------------------------------------------
(* Through a reload, the choice is in the session storage, then checked,   *)
(* then in use.                                                            *)
ChoiceInv ==
    /\ page = "loading" => chosen = IF saved # None THEN saved ELSE "desktop"
    /\ page = "init" => radio = chosen
    /\ page = "ready" => current = chosen /\ radio = chosen

(* The page is at work with the client the user chose last, whatever       *)
(* clients are offered and however often the page was loaded again.        *)
THEOREM ChosenClientUsed == Spec => []UsesChosenClient
<1>1. Init => ChoiceInv
  BY DEF Init, Blank, ChoiceInv
<1>2. ChoiceInv /\ TypeOK /\ [Next]_vars => ChoiceInv'
  <2> SUFFICES ASSUME ChoiceInv, TypeOK, [Next]_vars PROVE ChoiceInv'
    OBVIOUS
  <2> USE WebAssumption DEF ChoiceInv, TypeOK, choiceVars
  <2>1. CASE ChooseClient BY <2>1 DEF ChooseClient, Reload, SaveChoice
  <2>2. CASE ChooseDirection BY <2>2 DEF ChooseDirection, Reload, SaveChoice
  <2>3. CASE Load BY <2>3 DEF Load
  <2>4. CASE LoadFails BY <2>4 DEF LoadFails
  <2>5. CASE Initialized BY <2>5 DEF Initialized
  <2>6. CASE UNCHANGED choiceVars BY <2>6
  <2>7. ASSUME NEW k \in Calls, StartClientTransfer(k) PROVE UNCHANGED choiceVars
    BY <2>7 DEF StartClientTransfer
  <2>8. ASSUME NEW k \in Calls, Authorized(k) \/ TransferFails(k) \/ TransferStarted(k)
        PROVE UNCHANGED choiceVars
    BY <2>8 DEF Authorized, TransferFails, TransferStarted
  <2>9. CASE Timer \/ InitDragDrop \/ CreateDropzone \/ DragDropFails
             \/ RefreshStatusDisplay \/ StatusEvent \/ TransferEvent \/ ServerStops
             \/ PickFiles \/ Picked \/ PickCancelled \/ Drop
    BY <2>6, <2>9 DEF Timer, InitDragDrop, CreateDropzone, DragDropFails,
       RefreshStatusDisplay, StatusEvent, TransferEvent, ServerStops, PickFiles, Picked,
       PickCancelled, Drop
  <2> QED BY <2>1, <2>2, <2>3, <2>4, <2>5, <2>6, <2>7, <2>8, <2>9
          DEF Next, User, Page, vars
<1>3. ChoiceInv => UsesChosenClient
  BY DEF ChoiceInv, UsesChosenClient
<1> QED BY <1>1, <1>2, <1>3, WebTyping, PTL DEF Spec

-----------------------------------------------------------------------------
(* Nothing was handed to the SDK for a click that has not happened.        *)
HandedInv ==
    TransfersWhatWasAsked /\ \A k \in Calls : calls[k].at = "none" => handed[k] = None

(* The SDK is handed the files and the direction of the click, for any     *)
(* number of clicks, files and changes of the selection.                   *)
THEOREM AskedIsTransferred == Spec => []TransfersWhatWasAsked
<1>1. Init => HandedInv
  BY DEF Init, HandedInv, TransfersWhatWasAsked
<1>2. HandedInv /\ TypeOK /\ [Next]_vars => HandedInv'
  <2> SUFFICES ASSUME HandedInv, TypeOK, [Next]_vars PROVE HandedInv'
    OBVIOUS
  <2> USE DEF HandedInv, TransfersWhatWasAsked, Sources, TypeOK, uploadVars
  <2>1. CASE ChooseClient BY <2>1 DEF ChooseClient, Reload
  <2>2. CASE ChooseDirection BY <2>2 DEF ChooseDirection, Reload
  <2>3. ASSUME NEW k \in Calls, StartClientTransfer(k) PROVE HandedInv'
    <3> DEFINE files == IF op = "download" THEN {} ELSE selectedUploadFiles
    <3>1. PICK at \in {"tspec", "startTransfer"} :
             /\ calls' = [calls EXCEPT ![k] = [at |-> at, op |-> op, files |-> files]]
             /\ handed' = IF at = "tspec" THEN handed
                          ELSE [handed EXCEPT ![k] = [op |-> op, files |-> files]]
      BY <2>3, Zenon DEF StartClientTransfer
    <3> HIDE DEF files
    <3>2. calls[k].at = "none"
      BY <2>3 DEF StartClientTransfer
    <3>3. /\ calls'[k] = [at |-> at, op |-> op, files |-> files]
          /\ handed'[k] = IF at = "tspec" THEN None ELSE [op |-> op, files |-> files]
          /\ \A j \in Calls \ {k} : calls'[j] = calls[j] /\ handed'[j] = handed[j]
      BY <3>1, <3>2
    <3> QED BY <3>3
  <2>4. ASSUME NEW k \in Calls, Authorized(k) PROVE HandedInv'
    BY <2>4 DEF Authorized, Continue
  <2>5. ASSUME NEW k \in Calls, TransferFails(k) \/ TransferStarted(k) PROVE HandedInv'
    BY <2>5 DEF TransferFails, TransferStarted, Continue
  <2>6. CASE UNCHANGED <<calls, handed>> BY <2>6
  <2>7. CASE Load \/ LoadFails \/ Initialized \/ Timer \/ InitDragDrop \/ CreateDropzone
             \/ DragDropFails \/ RefreshStatusDisplay \/ StatusEvent \/ TransferEvent
             \/ ServerStops \/ PickFiles \/ Picked \/ PickCancelled \/ Drop
    BY <2>6, <2>7 DEF Load, LoadFails, Initialized, Timer, InitDragDrop, CreateDropzone,
       DragDropFails, RefreshStatusDisplay, StatusEvent, TransferEvent, ServerStops,
       PickFiles, Picked, PickCancelled, Drop
  <2> QED BY <2>1, <2>2, <2>3, <2>4, <2>5, <2>6, <2>7 DEF Next, User, Page, vars
<1>3. HandedInv => TransfersWhatWasAsked
  BY DEF HandedInv
<1> QED BY <1>1, <1>2, <1>3, WebTyping, PTL DEF Spec

-----------------------------------------------------------------------------
(* Why a page with nothing left to do shows what there is: each change of  *)
(* the status leaves an activity that has not read it yet, and a RUNNING   *)
(* SDK one that is on its way to the drop area, until it is there.         *)
Busy == \E p \in Places : waiting[p] > 0

OnItsWay == waiting["timer"] > 0 \/ waiting["initDragDrop"] > 0 \/ waiting["createDropzone"] > 0

StatusInv ==
    /\ page # "ready" =>
          /\ current = None /\ sdk = None /\ ~dialog
          /\ \A p \in Places : waiting[p] = 0
          /\ \A k \in Calls : calls[k].at \in {"none", "over"}
    /\ page = "ready" /\ current # "connect" /\ shown # sdk => Busy

DropInv ==
    /\ dragDropInitialized => zones > 0
    /\ page = "ready" /\ sdk = "RUNNING" /\ current # "httpgw" /\ ~refused =>
          zones > 0 \/ OnItsWay

ShownInv == TypeOK /\ StatusInv /\ DropInv

(* The page that is loaded again starts from nothing.                      *)
LEMMA ReloadedIsBlank ==
    ASSUME TypeOK, Reload PROVE StatusInv' /\ DropInv'
BY DEF Reload, StatusInv, DropInv, TypeOK

(* While the status or the drop area is not right, somebody is on the way  *)
(* who will set it.                                                        *)
LEMMA ShownInductive == Spec => []ShownInv
<1>1. Init => ShownInv
  BY InitTyped DEF Init, Blank, ShownInv, StatusInv, DropInv, NoCall
<1>2. ShownInv /\ TypeOK' /\ [Next]_vars => ShownInv'
  <2> SUFFICES ASSUME ShownInv, TypeOK', [Next]_vars PROVE StatusInv' /\ DropInv'
    BY DEF ShownInv
  <2>0. waiting \in [Places -> Nat] /\ zones \in Nat /\ current \in Choices \cup {None}
        /\ radio \in Choices /\ None \notin Choices /\ TypeOK
        /\ calls \in [Calls -> [at : {"none", "tspec", "startTransfer", "over"},
                                op : {"upload", "download"}, files : SUBSET Files]]
    BY WebAssumption DEF ShownInv, TypeOK
  <2> USE DEF ShownInv, StatusInv, DropInv, Busy, OnItsWay, choiceVars, sdkVars, statusVars,
          dropVars
  <2>1. ASSUME page = "ready", UNCHANGED <<choiceVars, sdkVars, statusVars, dropVars>>,
               Suspend("getInfo")
        PROVE StatusInv' /\ DropInv'
    BY <2>0, <2>1, PlacesNamed, Suspended
  <2>2. ASSUME UNCHANGED <<choiceVars, sdkVars, statusVars, dropVars, waiting>>,
               page = "ready" \/ UNCHANGED <<dialog, calls>>
        PROVE StatusInv' /\ DropInv'
    BY <2>2
  <2>3. CASE User
    <3>1. CASE ChooseClient BY <2>0, <3>1, ReloadedIsBlank DEF ChooseClient
    <3>2. CASE ChooseDirection
      <4>1. CASE Reload BY <2>0, <4>1, ReloadedIsBlank
      <4>2. CASE ~Reload
        BY <2>0, <2>1, <3>2, <4>2 DEF ChooseDirection
      <4> QED BY <4>1, <4>2
    <3>3. CASE PickFiles \/ PickCancelled BY <2>2, <3>3 DEF PickFiles, PickCancelled
    <3>4. CASE Picked \/ Drop BY <2>1, <3>4 DEF Picked, Drop
    <3>5. ASSUME NEW k \in Calls, StartClientTransfer(k) PROVE StatusInv' /\ DropInv'
      BY <2>2, <3>5 DEF StartClientTransfer
    <3> QED BY <2>3, <3>1, <3>2, <3>3, <3>4, <3>5 DEF User
  <2>4. CASE Page
    <3>1. CASE Load \/ LoadFails BY <2>0, <3>1 DEF Load, LoadFails, uploadVars
    <3>2. CASE Initialized
      <4>1. waiting'["getInfo"] > 0
        BY <2>0, <3>2, PlacesNamed, Suspended DEF Initialized
      <4>2. page' = "ready" /\ sdk' = None /\ ~dragDropInitialized'
        BY <3>2 DEF Initialized
      <4> QED BY <4>1, <4>2, PlacesNamed, WebAssumption
    <3>3. CASE Timer
      <4>1. PICK q \in {"initDragDrop", "getInfo"} :
               Move("timer", q) /\ (q = "getInfo" => dragDropInitialized \/ current = "httpgw")
        BY <3>3 DEF Timer
      <4>2. page = "ready" /\ waiting'[q] > 0
            /\ UNCHANGED <<choiceVars, sdkVars, statusVars, dropVars>>
        BY <2>0, <3>3, <4>1, PlacesNamed, Counters DEF Timer
      <4> QED BY <4>1, <4>2, PlacesNamed
    <3>4. CASE InitDragDrop
      <4>1. page = "ready" /\ waiting'["createDropzone"] > 0
            /\ UNCHANGED <<choiceVars, sdkVars, statusVars, dropVars>>
        BY <2>0, <3>4, PlacesNamed, Counters DEF InitDragDrop
      <4> QED BY <4>1, PlacesNamed
    <3>5. CASE CreateDropzone
      <4>1. page = "ready" /\ waiting'["getInfo"] > 0 /\ zones' > 0
            /\ UNCHANGED <<choiceVars, sdkVars, statusVars, refused>>
        BY <2>0, <3>5, PlacesNamed, Counters DEF CreateDropzone
      <4> QED BY <4>1, PlacesNamed
    <3>6. CASE DragDropFails
      <4>1. page = "ready" /\ waiting'["getInfo"] > 0 /\ refused'
            /\ UNCHANGED <<choiceVars, sdkVars, statusVars, dragDropInitialized, zones>>
        BY <2>0, <3>6, PlacesNamed, Counters DEF DragDropFails
      <4> QED BY <4>1, PlacesNamed
    <3>7. CASE RefreshStatusDisplay
      <4>1. /\ page = "ready" /\ (shown' = sdk \/ current = "connect")
            /\ \A w \in {"timer", "initDragDrop", "createDropzone"} : waiting'[w] = waiting[w]
            /\ UNCHANGED <<choiceVars, sdkVars, dropVars>>
        BY <2>0, <3>7, PlacesNamed, Counters DEF RefreshStatusDisplay
      <4> QED BY <4>1
    <3>8. ASSUME NEW k \in Calls, Authorized(k) \/ TransferFails(k)
          PROVE StatusInv' /\ DropInv'
      <4>1. page = "ready"
        BY <3>8 DEF Authorized, TransferFails
      <4> QED BY <2>2, <3>8, <4>1 DEF Authorized, TransferFails
    <3>9. ASSUME NEW k \in Calls, TransferStarted(k) PROVE StatusInv' /\ DropInv'
      <4>1. page = "ready"
        BY <3>9 DEF TransferStarted
      <4> QED BY <2>1, <3>9, <4>1 DEF TransferStarted
    <3> QED BY <2>4, <3>1, <3>2, <3>3, <3>4, <3>5, <3>6, <3>7, <3>8, <3>9 DEF Page
  <2>5. CASE StatusEvent
    <3>1. PICK s \in Statuses \ {sdk}, q \in Places :
             /\ sdk' = s /\ Suspend(q) /\ (s = "RUNNING" => q = "timer")
             /\ refused' = (refused /\ s # "RUNNING")
      BY <2>5, PlacesNamed DEF StatusEvent
    <3>2. waiting'[q] > 0 /\ \A w \in Places : waiting[w] > 0 => waiting'[w] > 0
      BY <2>0, <3>1, Suspended
    <3>3. page = "ready" /\ UNCHANGED <<choiceVars, statusVars, dragDropInitialized, zones>>
      BY <2>5 DEF StatusEvent
    <3> QED BY <3>1, <3>2, <3>3
  <2>6. CASE TransferEvent BY <2>1, <2>6 DEF TransferEvent
  <2>7. CASE ServerStops BY <2>2, <2>7 DEF ServerStops, uploadVars
  <2>8. CASE UNCHANGED vars BY <2>2, <2>8 DEF vars, uploadVars
  <2> QED BY <2>3, <2>4, <2>5, <2>6, <2>7, <2>8 DEF Next
<1> QED BY <1>1, <1>2, WebTyping, PTL DEF Spec

(* A page with nothing left to do shows the status of the SDK, however its *)
(* changes and the activities of the page were interleaved.                *)
THEOREM StatusIsCurrent == Spec => []ShowsCurrentStatus
<1>1. ShownInv => ShowsCurrentStatus
  BY DEF ShownInv, StatusInv, ShowsCurrentStatus, Quiet, Busy, TypeOK
<1> QED BY <1>1, ShownInductive, PTL

(* A page with nothing left to do has a drop area when the SDK runs and    *)
(* has not refused one.                                                    *)
THEOREM DropAreaThere == Spec => []DropAreaReady
<1>1. ShownInv => DropAreaReady
  BY PlacesNamed DEF ShownInv, DropInv, DropAreaReady, Quiet, OnItsWay, TypeOK
<1> QED BY <1>1, ShownInductive, PTL
=============================================================================
