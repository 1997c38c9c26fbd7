--------------------------- MODULE MCTransferClient ---------------------------
(* Instances of TransferClient for TLC.                                       *)
EXTENDS TransferClient, TLC

(* Nothing tells two daemons, two transfers, two ports or two programs apart. *)
MCSymmetry ==
    Permutations(Daemons) \cup Permutations(Transfers) \cup Permutations(Clients)
        \cup Permutations(Ports)
=============================================================================
