---------------------------- MODULE ExamplePrograms ----------------------------
(***************************************************************************)
(* Instance for TLC: the example programs.  A behaviour is about one that  *)
(* sends a package, or about the one that keeps a session open.            *)
(***************************************************************************)
EXTENDS PackageExamples, PersistentUpload, TLC

(* Workspaces are only compared, and so are deliveries.                    *)
Symmetry == Permutations(Workspaces) \cup Permutations(Deliveries)

NoPackage ==
    /\ example = CHOOSE e \in Examples : TRUE
    /\ todo = <<>> /\ outcome = "success"
    /\ missing = None /\ named = {} /\ inboxes = {}
    /\ ws = None /\ box = None /\ job = None /\ files = 0
    /\ made = [d \in Deliveries |-> None] /\ mine = {} /\ unlucky = FALSE
    /\ Jobs!Init

NoUpload ==
    /\ persist_max = 0 /\ main = "gone" /\ verdict = "none"
    /\ timer = "off" /\ sequenceIndex = 0
    /\ disk = [f \in Files |-> "absent"] /\ unwritten = {}
    /\ daemon = FALSE /\ session = "none" /\ queue = {} /\ locked = FALSE
    /\ sent = [f \in Files |-> "absent"]

MCInit == (Init /\ NoUpload) \/ (NoPackage /\ UploadInit)

MCNext == (Next /\ UNCHANGED uploadVars) \/ (UploadNext /\ UNCHANGED vars)

MCSpec == MCInit /\ [][MCNext]_<<vars, uploadVars>>
=============================================================================
