--------------------------- MODULE SessionLedger ---------------------------
(***************************************************************************)
(* What event ingestion promises its clients, without handlers, statements *)
(* or rows: a message is recorded once, in one session, and never leaves;  *)
(* the report of a session only grows and only holds recorded messages;    *)
(* what an answer has promised is in the report.                           *)
(***************************************************************************)
CONSTANTS Sessions, Messages

VARIABLES recorded, reported, promised

ledger == <<recorded, reported, promised>>

Init ==
    /\ recorded = [s \in Sessions |-> {}]
    /\ reported = [s \in Sessions |-> {}]
    /\ promised = [s \in Sessions |-> {}]

(* Messages no session holds become messages of s.                         *)
Record(s, E) ==
    /\ \A t \in Sessions : E \cap recorded[t] = {}
    /\ recorded' = [recorded EXCEPT ![s] = @ \cup E]
    /\ UNCHANGED <<reported, promised>>

(* The report of s grows to B, and messages of B are promised.             *)
Report(s, B, E) ==
    /\ reported[s] \subseteq B
    /\ B \subseteq recorded[s]
    /\ E \subseteq B
    /\ reported' = [reported EXCEPT ![s] = B]
    /\ promised' = [promised EXCEPT ![s] = @ \cup E]
    /\ UNCHANGED recorded

Next ==
    \E s \in Sessions :
        \/ \E E \in SUBSET Messages : Record(s, E)
        \/ \E B, E \in SUBSET Messages : Report(s, B, E)

Spec == Init /\ [][Next]_ledger
============================================================================
