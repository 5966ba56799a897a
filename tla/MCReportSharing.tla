--------------------------- MODULE MCReportSharing ---------------------------
(***************************************************************************)
(* One workspace with one project, the owner and a reader.                 *)
(***************************************************************************)
EXTENDS ReportSharing, TLC

CONSTANTS w1

MCHome == [p \in Projects |-> w1]
Swaps == Permutations(Requests)

(* The owner's own copy, which a reader's can stand for, and what is left   *)
(* of a report that is gone are checked but not followed further.           *)
Telling ==
    /\ \A d \in deliveries : d.to # Owner
    /\ report.state # "gone" \/ \E r \in Requests : request[r] # Idle
============================================================================
