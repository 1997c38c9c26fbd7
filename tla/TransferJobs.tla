---------------------------- MODULE TransferJobs ----------------------------
(***************************************************************************)
(* The promise a TransferClient is measured by, whatever its language: the *)
(* verdict that the caller is given on a transfer is the one of the daemon *)
(* that ran it.  Success is only ever announced for a transfer that        *)
(* completed; failure for one that failed, or whose daemon is gone.        *)
(***************************************************************************)
CONSTANT Transfers

VARIABLES
    status,     \* what the daemon knows of each transfer
    up,         \* the transfers whose daemon still runs
    told        \* last verdict the caller of a waiting method was given

vars == <<status, up, told>>

Init ==
    /\ status = [t \in Transfers |-> "absent"]
    /\ up = {}
    /\ told = [t \in Transfers |-> "nothing"]

(* A daemon takes a transfer on, or rejects its specification.             *)
Submit(t) ==
    /\ status[t] = "absent"
    /\ \E s \in {"queued", "failed"} : status' = [status EXCEPT ![t] = s]
    /\ up' = up \cup {t}
    /\ UNCHANGED told

Advance(t) ==
    /\ t \in up
    /\ \E s \in {"running", "completed", "failed"} :
          /\ <<status[t], s>> \in {<<"queued", "running">>, <<"queued", "failed">>,
                                  <<"running", "completed">>, <<"running", "failed">>}
          /\ status' = [status EXCEPT ![t] = s]
    /\ UNCHANGED <<up, told>>

(* A daemon stops: everything it ran is lost.                              *)
Lose ==
    /\ up' \in SUBSET up
    /\ UNCHANGED <<status, told>>

TellSuccess(t) ==
    /\ status[t] = "completed"
    /\ told' = [told EXCEPT ![t] = "success"]
    /\ UNCHANGED <<status, up>>

TellFailure(t) ==
    /\ status[t] = "failed" \/ (status[t] # "absent" /\ t \notin up)
    /\ told' = [told EXCEPT ![t] = "failure"]
    /\ UNCHANGED <<status, up>>

Next ==
    \/ Lose
    \/ \E t \in Transfers :
          Submit(t) \/ Advance(t) \/ TellSuccess(t) \/ TellFailure(t)

Spec == Init /\ [][Next]_vars
=============================================================================
