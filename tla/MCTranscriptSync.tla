------------------------- MODULE MCTranscriptSync -------------------------
(***************************************************************************)
(* Two messages, the second without tokens, and two concurrent handlers.   *)
(***************************************************************************)
EXTENDS TranscriptSync, TLC

CONSTANTS m1, m2

MCTimestamp == [e \in Messages |-> IF e = m1 THEN 60000 ELSE 330000]
MCTotalTokens == [S \in SUBSET Messages |-> IF m1 \in S THEN 2 ELSE 0]
MCGapMs == [S \in SUBSET Messages |-> 0]
MCEnds == {480000}
============================================================================
