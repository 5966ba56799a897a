-------------------------- MODULE MCSessionRollup --------------------------
(***************************************************************************)
(* Small instances of SessionRollup.  Instants in ms: m2 follows m1 by 4.5 *)
(* minutes; m3 lies past the idle cutoff.  The two finalized ends fall     *)
(* inside the cutoff of m2 and past every event.                           *)
(***************************************************************************)
EXTENDS SessionRollup, TLC

CONSTANTS m1, m2, m3

MCTimestamp == [e \in Messages |->
    IF e = m1 THEN 60000 ELSE IF e = m2 THEN 330000 ELSE 1530000]
MCTokens == [e \in Messages |-> IF e = m1 THEN 2 ELSE IF e = m2 THEN 0 ELSE 1]

Active == INSTANCE ActiveTime
FSE == INSTANCE FiniteSetsExt

MCTotalTokens == [S \in SUBSET Messages |-> FSE!MapThenSumSet(LAMBDA e : MCTokens[e], S)]
MCGapMs == [S \in SUBSET Messages |->
    IF S = {} THEN 0 ELSE Active!EventGapActiveMs({MCTimestamp[e] : e \in S}, 900000)]

MCEnds == {480000, 1800000}
OneEnd == {480000}

MCSummaries == {[startedAt |-> 30000, endedAt |-> 90000, duration |-> 1,
                 tokens |-> 2, note |-> Null],
                [startedAt |-> 30000, endedAt |-> Null, duration |-> 0,
                 tokens |-> Null, note |-> Null]}
OneSummary == {[startedAt |-> 30000, endedAt |-> 90000, duration |-> 1,
                tokens |-> 1, note |-> Null]}

(* Bound: a behaviour is followed while at most one session is disturbed   *)
(* and a workspace is left.                                                *)
FewLosses == Cardinality(disturbed) <= 1 /\ live # {}

(* The removal run compares sets of messages only, so its messages carry   *)
(* the same facts and are interchangeable, like sessions and workspaces.   *)
EqualTimestamp == [e \in Messages |-> 60000]
EqualTokens == [S \in SUBSET Messages |-> Cardinality(S)]
EqualGapMs == [S \in SUBSET Messages |-> 0]
Swaps == Permutations(Sessions) \cup Permutations(Workspaces) \cup Permutations(Messages)
============================================================================
