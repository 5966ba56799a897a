------------------------- MODULE AgentSessionProofs -------------------------
(***************************************************************************)
(* Proofs about SessionRollup, for every set of sessions, messages,        *)
(* workspaces and concurrent handlers, and then about TranscriptSync, the  *)
(* hooks that drive it, for every number of workers, messages and turns.   *)
(***************************************************************************)
EXTENDS TranscriptSync, FiniteSetTheorems, WellFoundedInduction, TLAPS

(***************************************************************************)
(* Bounds of a set of events.                                              *)
(***************************************************************************)

(* A non-empty set of naturals has a least element.                        *)
LEMMA LeastNatural ==
    ASSUME NEW T \in SUBSET Nat, T # {}
    PROVE  \E m \in T : \A u \in T : m <= u
<1> DEFINE R == OpToRel(<, Nat)
<1>1. IsWellFoundedOn(R, Nat)
  BY NatLessThanWellFounded
<1>2. PICK m \in T : \A u \in T : ~ (<<u, m>> \in R)
  <2> HIDE DEF R
  <2> QED BY <1>1, WFMin, Zenon
<1>3. ASSUME NEW u \in T PROVE m <= u
  <2>1. m \in Nat /\ u \in Nat
    OBVIOUS
  <2>2. ~ (u < m)
    BY <1>2, <2>1 DEF OpToRel
  <2> QED BY <2>1, <2>2
<1> QED BY <1>3

LEMMA TimesType ==
    ASSUME NEW S \in SUBSET Messages, S # {}
    PROVE  Times(S) \in SUBSET (0 .. MaxTimestamp) /\ Times(S) # {}
BY TimestampAssumption DEF Times

(* The bounds of a non-empty set of events are instants of its events.     *)
LEMMA Bounds ==
    ASSUME NEW S \in SUBSET Messages, S # {}
    PROVE  /\ MinTs(S) \in Nat /\ MinTs(S) \in Times(S)
           /\ MaxTs(S) \in Nat /\ MaxTs(S) \in Times(S)
           /\ \A u \in Times(S) : MinTs(S) <= u /\ u <= MaxTs(S)
           /\ MinTs(S) <= MaxTs(S)
<1>1. Times(S) \in SUBSET (0 .. MaxTimestamp) /\ Times(S) # {} /\ MaxTimestamp \in Nat
  BY TimesType, TimestampAssumption
<1>2. \E m \in Times(S) : \A u \in Times(S) : m <= u
  BY <1>1, LeastNatural
<1>3. \E m \in Times(S) : \A u \in Times(S) : m >= u
  <2> DEFINE D == {MaxTimestamp - t : t \in Times(S)}
  <2>1. D \in SUBSET Nat /\ D # {}
    BY <1>1
  <2>2. PICK d \in D : \A u \in D : d <= u
    BY <2>1, LeastNatural
  <2>3. PICK m \in Times(S) : d = MaxTimestamp - m
    OBVIOUS
  <2>4. ASSUME NEW u \in Times(S) PROVE m >= u
    <3>1. MaxTimestamp - u \in D
      OBVIOUS
    <3>2. d <= MaxTimestamp - u
      BY <2>2, <3>1
    <3> QED BY <1>1, <2>3, <3>2
  <2> QED BY <2>4
<1>4. MinTs(S) \in Times(S) /\ \A u \in Times(S) : MinTs(S) <= u
  BY <1>2 DEF MinTs
<1>5. MaxTs(S) \in Times(S) /\ \A u \in Times(S) : MaxTs(S) >= u
  BY <1>3 DEF MaxTs
<1> QED BY <1>1, <1>4, <1>5

(* More events never move the start later or the end earlier.              *)
LEMMA BoundsMonotone ==
    ASSUME NEW S \in SUBSET Messages, NEW T \in SUBSET Messages, S # {}, S \subseteq T
    PROVE  MinTs(T) <= MinTs(S) /\ MaxTs(S) <= MaxTs(T)
<1>1. T # {} /\ Times(S) \subseteq Times(T)
  BY DEF Times
<1>2. MinTs(S) \in Times(T) /\ MaxTs(S) \in Times(T)
  BY <1>1, Bounds
<1> QED BY <1>1, <1>2, Bounds

(***************************************************************************)
(* Types of the operators the rows are built from.                         *)
(***************************************************************************)
LEMMA RoundMinutesNat ==
    /\ \A a \in Nat : RoundMinutes(a) \in Nat
    /\ \A a, b \in Nat : a <= b => RoundMinutes(a) <= RoundMinutes(b)
BY DEF RoundMinutes

LEMMA LargerNat ==
    \A a, b \in Nat : /\ Larger(a, b) \in Nat
                      /\ a <= Larger(a, b) /\ b <= Larger(a, b)
                      /\ Larger(a, b) = a \/ Larger(a, b) = b
BY DEF Larger

LEMMA CoalesceNat ==
    \A x \in Nat \cup {Null} : Coalesce(x, 0) \in Nat /\ (x # Null => Coalesce(x, 0) = x)
BY NullAssumption DEF Coalesce

LEMMA ActiveMinutesNat ==
    ASSUME NEW S \in SUBSET Messages, NEW end \in Nat, NEW startedAt \in Nat
    PROVE  ActiveMinutes(S, end, startedAt) \in Nat
<1>1. TailMs(S, end, startedAt) \in Nat
  <2> DEFINE tail == end - (IF S = {} THEN startedAt ELSE MaxTs(S))
  <2>1. AGENT_ACTIVE_IDLE_GAP_MS \in Nat
    BY DEF AGENT_ACTIVE_IDLE_GAP_MS
  <2>2. TailMs(S, end, startedAt) = IF tail \in 1 .. AGENT_ACTIVE_IDLE_GAP_MS THEN tail ELSE 0
    BY DEF TailMs
  <2> HIDE DEF tail
  <2> QED BY <2>1, <2>2
<1>2. GapMs[S] \in Nat
  BY UsageAssumption
<1> QED BY <1>1, <1>2, RoundMinutesNat DEF ActiveMinutes

LEMMA CardinalityNat ==
    ASSUME NEW S \in SUBSET Messages
    PROVE  Cardinality(S) \in Nat
BY InputAssumption, FS_Subset, FS_CardinalityType

(***************************************************************************)
(* Type correctness.  A handler that is working names a session and a      *)
(* workspace, and past the aggregates it holds at least one event: without *)
(* the second part the bounds of a row would be undefined.                 *)
(***************************************************************************)
PastAggregates == {"gaps", "materialize", "reselect"}

HandlersOK ==
    \A i \in Ingests :
        /\ ingest[i].step # "idle" => /\ ingest[i].session \in Sessions
                                      /\ ingest[i].workspace \in Workspaces
        /\ ingest[i].step \in PastAggregates => ingest[i].basis # {}

TypeInv == TypeOK /\ HandlersOK

LEMMA TypeInvInit == Init => TypeInv
BY NullAssumption DEF Init, TypeInv, TypeOK, HandlersOK, IngestState, IngestSteps, PurgeState,
    IdleIngest, IdlePurge, PastAggregates

(* The rows an ingest writes are entries.                                  *)
LEMMA RowTypes ==
    ASSUME TypeInv, NEW i \in Ingests, ingest[i].step = "materialize"
    PROVE  /\ InsertedRow(ingest[i]) \in Entry
           /\ \A row \in Entry : UpdatedRow(ingest[i], row) \in Entry
<1> DEFINE r == ingest[i]
<1>1. /\ r \in IngestState /\ r.workspace \in Workspaces /\ r.session \in Sessions
      /\ r.basis \in SUBSET Messages /\ r.basis # {} /\ r.active \in Nat
  BY DEF TypeInv, TypeOK, HandlersOK, IngestState, PastAggregates
<1> HIDE DEF r
<1>2. /\ MinTs(r.basis) \in Nat /\ MaxTs(r.basis) \in Nat /\ MinTs(r.basis) <= MaxTs(r.basis)
  BY <1>1, Bounds
<1>3. Cardinality(r.basis) \in Nat /\ TotalTokens[r.basis] \in Nat
  BY <1>1, CardinalityNat, UsageAssumption
<1>4. RoundMinutes(MaxTs(r.basis) - MinTs(r.basis)) \in Nat
  BY <1>2, RoundMinutesNat
<1>5. InsertedRow(r) \in Entry
  BY <1>1, <1>2, <1>3, <1>4 DEF InsertedRow, Entry
<1>6. ASSUME NEW row \in Entry PROVE UpdatedRow(r, row) \in Entry
  <2> DEFINE end == Larger(MaxTs(r.basis), Coalesce(row.endedAt, 0))
  <2>1. end \in Nat /\ MaxTs(r.basis) <= end
    BY <1>2, CoalesceNat, LargerNat DEF Entry
  <2>2. Stored(r.session) \in SUBSET Messages
    BY DEF Stored
  <2>3. row.startedAt \in Nat /\ row.note \in Notes \cup {Null}
    BY DEF Entry
  <2>4. ActiveMinutes(Stored(r.session), end, row.startedAt) \in Nat
    <3> HIDE DEF end
    <3> QED BY <2>1, <2>2, <2>3, ActiveMinutesNat
  <2>5. RoundMinutes(end - MinTs(r.basis)) \in Nat
    <3> HIDE DEF end
    <3> QED BY <1>2, <2>1, RoundMinutesNat
  <2>6. UpdatedRow(r, row) = [InsertedRow(r) EXCEPT
            !.active = ActiveMinutes(Stored(r.session), end, row.startedAt),
            !.duration = RoundMinutes(end - MinTs(r.basis)), !.endedAt = end, !.note = row.note]
    BY DEF UpdatedRow
  <2> HIDE DEF end
  <2> QED BY <1>5, <2>1, <2>3, <2>4, <2>5, <2>6 DEF Entry
<1> QED BY <1>5, <1>6 DEF r

LEMMA FinalizedRowType ==
    ASSUME TypeOK, NEW s \in Sessions, NEW row \in Entry,
           NEW end \in Ends \cup {Null}, NEW note \in Notes \cup {Null}
    PROVE  FinalizedRow(s, row, end, note) \in Entry
<1> DEFINE closed == ClampedEnd(end, row)
           noted == [row EXCEPT !.note = IF note = Null THEN @ ELSE note]
<1>1. noted \in Entry /\ noted.active = row.active /\ noted.duration = row.duration
  BY DEF Entry
<1>2. CASE end = Null
  BY <1>1, <1>2 DEF FinalizedRow
<1>3. CASE end # Null
  <2>1. end \in Nat /\ row.startedAt \in Nat /\ row.duration \in Nat /\ Coalesce(row.endedAt, 0) \in Nat
    BY <1>3, InputAssumption, CoalesceNat DEF Entry
  <2>2. closed \in Nat /\ row.startedAt <= closed
    <3> DEFINE floor == Larger(Coalesce(row.endedAt, 0), row.startedAt)
    <3>1. floor \in Nat /\ row.startedAt <= floor
      BY <2>1, LargerNat
    <3>2. closed = Larger(end, floor)
      BY DEF ClampedEnd
    <3> HIDE DEF floor, closed
    <3>3. closed \in Nat /\ floor <= closed
      BY <2>1, <3>1, <3>2 DEF Larger
    <3> QED BY <2>1, <3>1, <3>3
  <2>3. RoundMinutes(closed - row.startedAt) \in Nat
    <3> HIDE DEF closed
    <3> QED BY <2>1, <2>2, RoundMinutesNat
  <2>4. Larger(row.duration, RoundMinutes(closed - row.startedAt)) \in Nat
    <3> HIDE DEF closed
    <3> QED BY <2>1, <2>3, LargerNat
  <2>5. ActiveMinutes(Stored(s), closed, row.startedAt) \in Nat
    <3>1. Stored(s) \in SUBSET Messages
      BY DEF Stored
    <3> HIDE DEF closed
    <3> QED BY <2>1, <2>2, <3>1, ActiveMinutesNat
  <2> DEFINE active == IF row.count = Null THEN noted.active
                       ELSE ActiveMinutes(Stored(s), closed, row.startedAt)
             duration == Larger(noted.duration, RoundMinutes(closed - row.startedAt))
  <2>6. FinalizedRow(s, row, end, note) =
            [noted EXCEPT !.endedAt = closed, !.duration = duration, !.active = active]
    BY <1>3 DEF FinalizedRow
  <2>7. active \in Nat \cup {Null} /\ duration \in Nat
    BY <1>1, <2>4, <2>5 DEF Entry
  <2> HIDE DEF closed, noted, active, duration
  <2> QED BY <1>1, <2>2, <2>6, <2>7 DEF Entry
<1> QED BY <1>2, <1>3

(* A handler that becomes r keeps the type of all handlers.                *)
LEMMA HandlerBecomes ==
    ASSUME TypeInv, NEW i \in Ingests, NEW r \in IngestState,
           ingest' = [ingest EXCEPT ![i] = r],
           r.step # "idle" => r.session \in Sessions /\ r.workspace \in Workspaces,
           r.step \in PastAggregates => r.basis # {}
    PROVE  ingest' \in [Ingests -> IngestState] /\ HandlersOK'
BY DEF TypeInv, TypeOK, HandlersOK

LEMMA IdleIngestType ==
    IdleIngest \in IngestState /\ IdleIngest.step = "idle" /\ IdleIngest.step \notin PastAggregates
BY DEF IdleIngest, IngestState, IngestSteps, PastAggregates

(* An ingest step only touches the tables it names and its own record.     *)
LEMMA TypeInvIngest ==
    ASSUME TypeInv, NEW i \in Ingests,
           \/ \E s \in Sessions, w \in Workspaces, batch \in SUBSET Messages :
                PostEvents(i, s, w, batch)
           \/ IngestStep(i)
           \/ Abort(i)
    PROVE  TypeInv'
<1> USE DEF TypeInv, TypeOK, HandlersOK
<1>1. ingest[i] \in IngestState /\ IdleIngest \in IngestState /\ IdleIngest.step = "idle"
  BY DEF IdleIngest, IngestState, IngestSteps
<1>2. ASSUME NEW s \in Sessions, NEW w \in Workspaces, NEW batch \in SUBSET Messages,
             PostEvents(i, s, w, batch)
      PROVE  TypeInv'
  BY <1>1, <1>2 DEF PostEvents, historyVars, IngestState, IngestSteps, IdleIngest, PastAggregates
<1>3. ASSUME InsertChunk(i) PROVE TypeInv'
  <2> DEFINE r == ingest[i]
  <2>1. PICK chunk \in SUBSET r.todo :
            /\ eventSession' = [e \in Messages |->
                    IF e \in Inserted(chunk) THEN r.session ELSE eventSession[e]]
            /\ eventWorkspace' = [e \in Messages |->
                    IF e \in Inserted(chunk) THEN r.workspace ELSE eventWorkspace[e]]
            /\ ingest' = [ingest EXCEPT ![i] = [r EXCEPT
                    !.todo = @ \ chunk,
                    !.own = @ \cup {e \in chunk : eventSession'[e] = r.session},
                    !.step = IF chunk = r.todo THEN "aggregate" ELSE "insert"]]
            /\ erased' = erased \ chunk
    BY <1>3 DEF InsertChunk
  <2>2. r \in IngestState /\ r.session \in Sessions /\ r.workspace \in Workspaces
    BY <1>1, <1>3 DEF InsertChunk
  <2>3. eventSession' \in [Messages -> Sessions \cup {Null}]
    BY <2>1, <2>2
  <2>4. eventWorkspace' \in [Messages -> Workspaces \cup {Null}]
    BY <2>1, <2>2
  <2> DEFINE own == r.own \cup {e \in chunk : eventSession'[e] = r.session}
             step == IF chunk = r.todo THEN "aggregate" ELSE "insert"
             next == [r EXCEPT !.todo = @ \ chunk, !.own = own, !.step = step]
  <2>5. own \in SUBSET Messages /\ step \in IngestSteps /\ step \notin PastAggregates
    BY <2>2 DEF IngestState, IngestSteps, PastAggregates
  <2>6. next \in IngestState /\ next.step = step /\ next.session \in Sessions
            /\ next.workspace \in Workspaces
    <3> HIDE DEF own, step
    <3> QED BY <2>2, <2>5 DEF IngestState
  <2>7. ingest' = [ingest EXCEPT ![i] = next]
    BY <2>1
  <2>8. ingest' \in [Ingests -> IngestState] /\ HandlersOK'
    <3> HIDE DEF next, step
    <3> QED BY <2>5, <2>6, <2>7, HandlerBecomes
  <2> QED BY <1>3, <2>1, <2>3, <2>4, <2>8 DEF InsertChunk
<1>4. ASSUME ReadAggregates(i) PROVE TypeInv'
  BY <1>1, <1>4 DEF ReadAggregates, historyVars, IngestState, IngestSteps, PastAggregates, Stored
<1>5. ASSUME ReadGaps(i) PROVE TypeInv'
  <2>1. RoundMinutes(GapMs[Stored(ingest[i].session)]) \in Nat
    BY RoundMinutesNat, UsageAssumption DEF Stored
  <2> QED BY <1>1, <1>5, <2>1 DEF ReadGaps, historyVars, IngestState, IngestSteps, PastAggregates
<1>6. ASSUME Materialize(i) PROVE TypeInv'
  <2> DEFINE s == ingest[i].session
  <2>1. s \in Sessions /\ ingest[i].own \in SUBSET Messages
    BY <1>1, <1>6 DEF Materialize, IngestState, PastAggregates
  <2>2. InsertedRow(ingest[i]) \in Entry /\ \A row \in Entry : UpdatedRow(ingest[i], row) \in Entry
    BY <1>6, RowTypes DEF Materialize
  <2>3. agentEntries' \in [Sessions -> Entry \cup {Null}]
    BY <1>6, <2>1, <2>2 DEF Materialize, Acknowledge
  <2>4. acked' \in [Sessions -> SUBSET Messages]
    BY <1>6, <2>1 DEF Materialize, Acknowledge
  <2>5. ingest' \in [Ingests -> IngestState] /\ HandlersOK'
    <3>1. CASE ingest' = [ingest EXCEPT ![i] = IdleIngest]
      BY <3>1, IdleIngestType, HandlerBecomes
    <3>2. CASE ingest' = [ingest EXCEPT ![i].step = "reselect"]
      <4> DEFINE next == [ingest[i] EXCEPT !.step = "reselect"]
      <4>1. ingest' = [ingest EXCEPT ![i] = next]
        BY <3>2
      <4>2. /\ next \in IngestState /\ next.session \in Sessions
            /\ next.workspace \in Workspaces /\ next.basis # {}
        BY <1>1, <1>6 DEF Materialize, IngestState, IngestSteps, PastAggregates
      <4> HIDE DEF next
      <4> QED BY <4>1, <4>2, HandlerBecomes
    <3> QED BY <1>6, <3>1, <3>2 DEF Materialize, Acknowledge
  <2> QED BY <1>6, <2>3, <2>4, <2>5 DEF Materialize
<1>7. ASSUME Reselect(i) PROVE TypeInv'
  <2>1. acked' \in [Sessions -> SUBSET Messages]
    BY <1>1, <1>7 DEF Reselect, Acknowledge, IngestState
  <2>2. ingest' \in [Ingests -> IngestState] /\ HandlersOK'
    BY <1>1, <1>7 DEF Reselect, Acknowledge, IngestState, IngestSteps, PastAggregates
  <2> QED BY <1>7, <2>1, <2>2 DEF Reselect
<1>8. ASSUME Abort(i) PROVE TypeInv'
  BY <1>1, <1>8 DEF Abort, historyVars, PastAggregates
<1> QED BY <1>2, <1>3, <1>4, <1>5, <1>6, <1>7, <1>8 DEF IngestStep

LEMMA TypeInvFinalize ==
    ASSUME TypeInv, NEW s \in Sessions, NEW w \in Workspaces,
           NEW end \in Ends \cup {Null}, NEW note \in Notes \cup {Null},
           Finalize(s, w, end, note)
    PROVE  TypeInv'
<1> USE DEF TypeInv, TypeOK
<1>1. agentEntries[s] \in Entry
  BY DEF Finalize
<1>2. agentEntries' \in [Sessions -> Entry \cup {Null}]
  BY <1>1, FinalizedRowType DEF Finalize
<1>3. finalEnd' \in [Sessions -> Nat]
  <2>1. end # Null => Larger(finalEnd[s], Larger(end, agentEntries[s].startedAt)) \in Nat
    <3>1. agentEntries[s].startedAt \in Nat /\ finalEnd[s] \in Nat
      BY <1>1 DEF Entry
    <3>2. end # Null => end \in Nat
      BY InputAssumption
    <3> QED BY <3>1, <3>2 DEF Larger
  <2>2. finalEnd' = [finalEnd EXCEPT ![s] =
            IF end = Null THEN @ ELSE Larger(@, Larger(end, agentEntries[s].startedAt))]
    BY DEF Finalize
  <2> QED BY <2>1, <2>2
<1>4. HandlersOK'
  BY DEF Finalize, HandlersOK
<1> QED BY <1>2, <1>3, <1>4 DEF Finalize

LEMMA TypeInvSummary ==
    ASSUME TypeInv, NEW s \in Sessions, NEW w \in Workspaces, NEW input \in Summaries,
           UpsertSummary(s, w, input)
    PROVE  TypeInv'
<1> USE DEF TypeInv, TypeOK
<1>1. input \in [startedAt : Nat, endedAt : Nat \cup {Null}, duration : Nat,
                 tokens : Nat \cup {Null}, note : Notes \cup {Null}]
  BY InputAssumption
<1>2. agentEntries' \in [Sessions -> Entry \cup {Null}]
  BY <1>1 DEF UpsertSummary, Entry
<1>3. finalEnd' \in [Sessions -> Nat]
  BY <1>1, CoalesceNat DEF UpsertSummary
<1>4. HandlersOK'
  BY DEF UpsertSummary, HandlersOK
<1> QED BY <1>2, <1>3, <1>4 DEF UpsertSummary

LEMMA TypeInvRemove ==
    ASSUME TypeInv, NEW rows \in SUBSET Sessions, NEW gone \in SUBSET Messages,
           NEW late \in SUBSET Sessions, Remove(rows, gone, late),
           live' \subseteq live, purge' \in [Deletes -> PurgeState],
           erased' \subseteq Messages, UNCHANGED ingest
    PROVE  TypeInv'
<1> USE DEF TypeInv, TypeOK
<1>1. agentEntries' \in [Sessions -> Entry \cup {Null}]
  BY DEF Remove
<1>2. /\ eventSession' \in [Messages -> Sessions \cup {Null}]
      /\ eventWorkspace' \in [Messages -> Workspaces \cup {Null}]
  BY DEF Remove
<1>3. acked' \in [Sessions -> SUBSET Messages] /\ finalEnd' \in [Sessions -> Nat]
  BY DEF Remove
<1>4. disturbed' \subseteq Sessions
  BY DEF Remove
<1>5. HandlersOK'
  BY DEF HandlersOK
<1> QED BY <1>1, <1>2, <1>3, <1>4, <1>5

LEMMA TypeInvDelete ==
    ASSUME TypeInv, NEW d \in Deletes,
           \/ \E w \in Workspaces, targets \in SUBSET Sessions : RequestDelete(d, w, targets)
           \/ SelectDeleteKeys(d)
           \/ DeleteBatch(d)
    PROVE  TypeInv'
<1> USE DEF TypeInv, TypeOK
<1>1. purge[d] \in PurgeState /\ IdlePurge \in PurgeState
  BY DEF IdlePurge, PurgeState
<1>2. ASSUME NEW w \in Workspaces, NEW targets \in SUBSET Sessions, RequestDelete(d, w, targets)
      PROVE  TypeInv'
  <2>1. purge' \in [Deletes -> PurgeState]
    BY <1>2 DEF RequestDelete, PurgeState
  <2>2. HandlersOK'
    BY <1>2 DEF RequestDelete, HandlersOK
  <2> QED BY <1>2, <2>1, <2>2 DEF RequestDelete, historyVars
<1>3. ASSUME SelectDeleteKeys(d) PROVE TypeInv'
  <2>1. InScope(purge[d]) \in SUBSET Sessions
    BY <1>1 DEF InScope, PurgeState
  <2>2. purge' \in [Deletes -> PurgeState]
    BY <1>1, <1>3, <2>1 DEF SelectDeleteKeys, PurgeState
  <2>3. HandlersOK'
    BY <1>3 DEF SelectDeleteKeys, HandlersOK
  <2> QED BY <1>3, <2>2, <2>3 DEF SelectDeleteKeys, historyVars
<1>4. ASSUME DeleteBatch(d) PROVE TypeInv'
  <2> DEFINE rows == InScope(purge[d])
             gone == {e \in Messages : eventSession[e] \in purge[d].keys}
  <2>1. rows \in SUBSET Sessions /\ gone \in SUBSET Messages
    BY <1>1 DEF InScope, PurgeState
  <2>2. \A x \in Deletes : WithoutTargets(purge[x], rows) \in PurgeState
    BY DEF WithoutTargets, PurgeState
  <2>3. /\ Remove(rows, gone, rows \ purge[d].keys)
        /\ purge' \in [Deletes -> PurgeState]
        /\ erased' \subseteq Messages
        /\ live' \subseteq live /\ UNCHANGED ingest
    BY <1>1, <1>4, <2>1, <2>2 DEF DeleteBatch
  <2> HIDE DEF rows, gone
  <2> QED BY <2>1, <2>3, TypeInvRemove
<1> QED BY <1>2, <1>3, <1>4

LEMMA TypeInvDrop ==
    ASSUME TypeInv, NEW w \in Workspaces, DropWorkspace(w)
    PROVE  TypeInv'
<1> DEFINE rows == {s \in Sessions : agentEntries[s] # Null /\ agentEntries[s].workspace = w}
           gone == {e \in Messages : eventWorkspace[e] = w}
<1>1. rows \in SUBSET Sessions /\ gone \in SUBSET Messages
  OBVIOUS
<1>2. \A x \in Deletes : WithoutTargets(purge[x], rows) \in PurgeState
  BY DEF WithoutTargets, PurgeState, TypeInv, TypeOK
<1>3. /\ Remove(rows, gone, {})
      /\ purge' \in [Deletes -> PurgeState]
      /\ erased' \subseteq Messages
      /\ live' \subseteq live /\ UNCHANGED ingest
  BY <1>2 DEF DropWorkspace, TypeInv, TypeOK
<1> HIDE DEF rows, gone
<1> QED BY <1>1, <1>3, TypeInvRemove

LEMMA TypeInvStep == TypeInv /\ [Next]_vars => TypeInv'
<1> SUFFICES ASSUME TypeInv, [Next]_vars PROVE TypeInv'
  OBVIOUS
<1>1. CASE EventNext
  BY <1>1, TypeInvIngest, TypeInvFinalize DEF EventNext
<1>2. CASE DeleteStep
  BY <1>2, TypeInvDelete DEF DeleteStep
<1>3. CASE SummaryStep
  BY <1>3, TypeInvSummary DEF SummaryStep
<1>4. CASE \E w \in Workspaces : DropWorkspace(w)
  BY <1>4, TypeInvDrop
<1>5. CASE UNCHANGED vars
  BY <1>5 DEF vars, TypeInv, TypeOK, HandlersOK
<1> QED BY <1>1, <1>2, <1>3, <1>4, <1>5 DEF Next

(* Every reachable state is well-typed: in particular no duration a row    *)
(* stores is negative and no aggregate is taken over no events, whatever   *)
(* handlers interleave, die or are overtaken by deletions.                 *)
THEOREM TypeCorrect == Spec => []TypeOK
<1>1. Spec => []TypeInv
  BY TypeInvInit, TypeInvStep, PTL DEF Spec
<1>2. TypeInv => TypeOK
  BY DEF TypeInv
<1> QED BY <1>1, <1>2, PTL

(***************************************************************************)
(* What an undisturbed session counts.  AckedCounted is not inductive: an  *)
(* update that passes the guard must be shown to keep every counted event, *)
(* which holds because all event sets ever computed for a session form a   *)
(* chain of subsets of what is stored, so that a count at least as large   *)
(* means a superset; and a skipped update must leave the handler's own     *)
(* events in the row that won.                                             *)
(***************************************************************************)
Comparable(A, B) == A \subseteq B \/ B \subseteq A

RowCounts(s) ==
    LET row == agentEntries[s] IN
    row # Null => /\ row.basis # {} /\ row.basis \subseteq Stored(s)
                  /\ row.count = Cardinality(row.basis)
                  /\ row.tokens = TotalTokens[row.basis]

WorksOn(i, s) == ingest[i].step # "idle" /\ ingest[i].session = s
Summed(i, s) == WorksOn(i, s) /\ ingest[i].step \in PastAggregates

HandlerCounts(i, s) ==
    /\ WorksOn(i, s) => ingest[i].own \subseteq Stored(s)
    /\ Summed(i, s) => /\ ingest[i].own \subseteq ingest[i].basis
                       /\ ingest[i].basis \subseteq Stored(s)
                       /\ Comparable(ingest[i].basis, Basis(s))
    /\ WorksOn(i, s) /\ ingest[i].step = "reselect" =>
            agentEntries[s] # Null /\ ingest[i].own \subseteq Basis(s)

Counting(s) ==
    /\ RowCounts(s)
    /\ acked[s] \subseteq Basis(s)
    /\ \A i \in Ingests : HandlerCounts(i, s)
    /\ \A i, j \in Ingests : Summed(i, s) /\ Summed(j, s) =>
            Comparable(ingest[i].basis, ingest[j].basis)

ErasedGone == \A e \in erased : eventSession[e] \in disturbed \cup {Null}

CountingInv == ErasedGone /\ \A s \in Undisturbed : Counting(s)

LEMMA CountingInit == Init => CountingInv
BY DEF Init, CountingInv, ErasedGone, Counting, RowCounts, HandlerCounts, WorksOn, Summed,
    Basis, Stored, Undisturbed, IdleIngest, PastAggregates

(* A guard that passes means a superset.                                   *)
LEMMA SupersedingContains ==
    ASSUME NEW A \in SUBSET Messages, NEW B \in SUBSET Messages, Comparable(A, B),
           NEW row, row.tokens = TotalTokens[B], row.count = Cardinality(B)
    PROVE  IF Supersedes(A, row) THEN B \subseteq A ELSE A \subseteq B
<1>1. /\ IsFiniteSet(A) /\ IsFiniteSet(B)
      /\ Cardinality(A) \in Nat /\ Cardinality(B) \in Nat
      /\ TotalTokens[A] \in Nat /\ TotalTokens[B] \in Nat
  BY InputAssumption, FS_Subset, CardinalityNat, UsageAssumption
<1>2. Supersedes(A, row) <=>
        Cardinality(A) >= Cardinality(B) /\ TotalTokens[A] >= TotalTokens[B]
  BY <1>1, NullAssumption DEF Supersedes, Coalesce
<1>3. CASE A \subseteq B
  <2>1. Cardinality(A) <= Cardinality(B) /\ (Cardinality(A) = Cardinality(B) => A = B)
    BY <1>1, <1>3, FS_Subset
  <2> QED BY <1>1, <1>2, <1>3, <2>1
<1>4. CASE B \subseteq A
  <2>1. Cardinality(B) <= Cardinality(A) /\ TotalTokens[B] <= TotalTokens[A]
    BY <1>1, <1>4, FS_Subset, UsageAssumption
  <2> QED BY <1>1, <1>2, <1>4, <2>1
<1> QED BY <1>3, <1>4 DEF Comparable

(* A session whose row, answers and handlers stay keeps its counting while *)
(* events are added.                                                       *)
LEMMA CountingKept ==
    ASSUME NEW s \in Sessions, Counting(s), Stored(s) \subseteq Stored(s)',
           acked'[s] = acked[s], Basis(s)' = Basis(s),
           agentEntries'[s] = Null <=> agentEntries[s] = Null,
           agentEntries[s] # Null => /\ agentEntries'[s].basis = agentEntries[s].basis
                                     /\ agentEntries'[s].count = agentEntries[s].count
                                     /\ agentEntries'[s].tokens = agentEntries[s].tokens,
           \A i \in Ingests : ingest'[i] = ingest[i] \/ ~ WorksOn(i, s)'
    PROVE  Counting(s)'
<1>1. RowCounts(s)'
  BY DEF Counting, RowCounts
<1>2. \A i \in Ingests : WorksOn(i, s)' => WorksOn(i, s) /\ ingest'[i] = ingest[i]
  BY DEF WorksOn
<1>3. \A i \in Ingests : Summed(i, s)' => Summed(i, s) /\ ingest'[i] = ingest[i]
  BY <1>2 DEF Summed
<1>4. ASSUME NEW i \in Ingests PROVE HandlerCounts(i, s)'
  BY <1>2, <1>3 DEF Counting, HandlerCounts
<1>5. ASSUME NEW i \in Ingests, NEW j \in Ingests, Summed(i, s)', Summed(j, s)'
      PROVE  Comparable(ingest[i].basis, ingest[j].basis)'
  BY <1>3, <1>5 DEF Counting, Comparable
<1> QED BY <1>1, <1>4, <1>5 DEF Counting

(* The same, when handler i works on the session and moves on: its new     *)
(* record and the row are what has to be checked again.                    *)
LEMMA CountingMoves ==
    ASSUME NEW s \in Sessions, Counting(s), Stored(s) \subseteq Stored(s)',
           NEW i \in Ingests, \A j \in Ingests \ {i} : ingest'[j] = ingest[j],
           RowCounts(s)', acked'[s] \subseteq Basis(s)', HandlerCounts(i, s)',
           agentEntries[s] # Null => agentEntries'[s] # Null,
           Basis(s) \subseteq Basis(s)',
           \A j \in Ingests \ {i} : Summed(j, s) => Comparable(ingest[j].basis, Basis(s)'),
           \A j \in Ingests \ {i} : Summed(i, s)' /\ Summed(j, s) =>
                Comparable(ingest[j].basis, ingest'[i].basis)
    PROVE  Counting(s)'
<1>1. ASSUME NEW j \in Ingests \ {i}
      PROVE  (WorksOn(j, s)' <=> WorksOn(j, s)) /\ (Summed(j, s)' <=> Summed(j, s))
  BY DEF WorksOn, Summed
<1>2. ASSUME NEW j \in Ingests PROVE HandlerCounts(j, s)'
  BY <1>1 DEF Counting, HandlerCounts
<1>3. ASSUME NEW j \in Ingests, NEW k \in Ingests, Summed(j, s)', Summed(k, s)'
      PROVE  Comparable(ingest[j].basis, ingest[k].basis)'
  <2>1. CASE j # i /\ k # i
    BY <1>1, <1>3, <2>1 DEF Counting, Comparable
  <2>2. CASE j = i \/ k = i
    BY <1>1, <1>3, <2>2 DEF Comparable
  <2> QED BY <2>1, <2>2
<1> QED BY <1>2, <1>3 DEF Counting

(* An ingest step of i keeps the counting of every undisturbed session.    *)
LEMMA CountingIngest ==
    ASSUME TypeInv, NEW s \in Sessions, Counting(s), NEW i \in Ingests,
           \/ \E t \in Sessions, w \in Workspaces, batch \in SUBSET Messages :
                PostEvents(i, t, w, batch)
           \/ IngestStep(i)
           \/ Abort(i)
    PROVE  Counting(s)'
<1> DEFINE r == ingest[i]
<1>1. r \in IngestState /\ ingest \in [Ingests -> IngestState]
  BY DEF TypeInv, TypeOK
<1>2. r.step # "idle" => r.session \in Sessions
  BY DEF TypeInv, HandlersOK
<1>3. IdleIngest.step = "idle"
  BY DEF IdleIngest
<1>4. ASSUME NEW t \in Sessions, NEW w \in Workspaces, NEW batch \in SUBSET Messages,
             PostEvents(i, t, w, batch)
      PROVE  Counting(s)'
  <2>1. /\ \A j \in Ingests \ {i} : ingest'[j] = ingest[j]
        /\ ingest'[i].own = {} /\ ingest'[i].step = "insert"
    BY <1>1, <1>4 DEF PostEvents, IdleIngest
  <2>2. /\ Stored(s)' = Stored(s) /\ Basis(s)' = Basis(s) /\ acked' = acked
        /\ agentEntries' = agentEntries
    BY <1>4 DEF PostEvents, historyVars, Stored, Basis
  <2>3. HandlerCounts(i, s)' /\ ~ Summed(i, s)'
    BY <2>1 DEF HandlerCounts, Summed, PastAggregates
  <2>4. RowCounts(s)'
    BY <2>2 DEF Counting, RowCounts
  <2>5. \A j \in Ingests \ {i} : Summed(j, s) => Comparable(ingest[j].basis, Basis(s)')
    BY <2>2 DEF Counting, HandlerCounts
  <2> QED BY <2>1, <2>2, <2>3, <2>4, <2>5, CountingMoves DEF Counting
<1>5. ASSUME InsertChunk(i) PROVE Counting(s)'
  <2>1. PICK chunk \in SUBSET r.todo :
            /\ eventSession' = [e \in Messages |->
                    IF e \in Inserted(chunk) THEN r.session ELSE eventSession[e]]
            /\ ingest' = [ingest EXCEPT ![i] = [r EXCEPT
                    !.todo = @ \ chunk,
                    !.own = @ \cup {e \in chunk : eventSession'[e] = r.session},
                    !.step = IF chunk = r.todo THEN "aggregate" ELSE "insert"]]
    BY <1>5 DEF InsertChunk
  <2>2. chunk \subseteq Messages
    BY <1>1, <2>1 DEF IngestState
  <2>3. Stored(s) \subseteq Stored(s)'
    BY <2>1, NullAssumption DEF Stored, Inserted
  <2>4. agentEntries' = agentEntries /\ acked' = acked /\ Basis(s)' = Basis(s)
    BY <1>5 DEF InsertChunk, Basis
  <2>5. /\ \A j \in Ingests \ {i} : ingest'[j] = ingest[j]
        /\ ingest'[i].session = r.session
        /\ ingest'[i].own = r.own \cup {e \in chunk : eventSession'[e] = r.session}
        /\ ingest'[i].step \in {"insert", "aggregate"}
    BY <1>1, <2>1 DEF IngestState
  <2>6. r.session = s => r.own \subseteq Stored(s)
    BY <1>5 DEF Counting, HandlerCounts, WorksOn, InsertChunk
  <2>7. ingest'[i].session = s => ingest'[i].own \subseteq Stored(s)'
    BY <2>2, <2>3, <2>5, <2>6 DEF Stored
  <2>8. HandlerCounts(i, s)' /\ ~ Summed(i, s)'
    BY <2>5, <2>7 DEF HandlerCounts, WorksOn, Summed, PastAggregates
  <2>9. RowCounts(s)'
    BY <2>3, <2>4 DEF Counting, RowCounts
  <2>10. \A j \in Ingests \ {i} : Summed(j, s) => Comparable(ingest[j].basis, Basis(s)')
    BY <2>4 DEF Counting, HandlerCounts
  <2> QED BY <2>3, <2>4, <2>5, <2>8, <2>9, <2>10, CountingMoves DEF Counting
<1>6. ASSUME ReadAggregates(i) PROVE Counting(s)'
  <2>1. /\ Stored(s)' = Stored(s) /\ Basis(s)' = Basis(s) /\ acked' = acked
        /\ agentEntries' = agentEntries /\ r.step = "aggregate"
        /\ \A j \in Ingests \ {i} : ingest'[j] = ingest[j]
        /\ \/ ingest'[i] = IdleIngest
           \/ ingest'[i] = [r EXCEPT !.step = "gaps", !.basis = Stored(r.session)]
    BY <1>1, <1>6 DEF ReadAggregates, historyVars, Stored, Basis
  <2>2. RowCounts(s)' /\ Basis(s) \subseteq Stored(s)
    BY <2>1 DEF Counting, RowCounts, Basis
  <2>3. \A j \in Ingests \ {i} : Summed(j, s) =>
            Comparable(ingest[j].basis, Basis(s)') /\ ingest[j].basis \subseteq Stored(s)
    BY <2>1 DEF Counting, HandlerCounts
  <2>4. CASE ingest'[i] = IdleIngest
    <3>1. HandlerCounts(i, s)' /\ ~ Summed(i, s)'
      BY <1>3, <2>4 DEF HandlerCounts, Summed, WorksOn
    <3> QED BY <2>1, <2>2, <2>3, <3>1, CountingMoves DEF Counting
  <2>5. CASE ingest'[i] = [r EXCEPT !.step = "gaps", !.basis = Stored(r.session)]
    <3>1. /\ ingest'[i].session = r.session /\ ingest'[i].own = r.own
          /\ ingest'[i].step = "gaps" /\ ingest'[i].basis = Stored(r.session)
      BY <1>1, <2>5 DEF IngestState
    <3>2. r.session = s => r.own \subseteq Stored(s)
      BY <2>1 DEF Counting, HandlerCounts, WorksOn
    <3>3. HandlerCounts(i, s)'
      BY <2>1, <2>2, <3>1, <3>2 DEF HandlerCounts, WorksOn, Summed, Comparable
    <3>4. Summed(i, s)' => ingest'[i].basis = Stored(s)
      BY <3>1 DEF Summed, WorksOn
    <3> QED BY <2>1, <2>2, <2>3, <3>3, <3>4, CountingMoves DEF Counting, Comparable
  <2> QED BY <2>1, <2>4, <2>5
<1>7. ASSUME ReadGaps(i) PROVE Counting(s)'
  <2>1. /\ Stored(s)' = Stored(s) /\ Basis(s)' = Basis(s) /\ acked' = acked
        /\ agentEntries' = agentEntries /\ r.step = "gaps"
        /\ \A j \in Ingests \ {i} : ingest'[j] = ingest[j]
    BY <1>1, <1>7 DEF ReadGaps, historyVars, Stored, Basis
  <2>2. /\ ingest'[i].session = r.session /\ ingest'[i].own = r.own
        /\ ingest'[i].step = "materialize" /\ ingest'[i].basis = r.basis
    BY <1>1, <1>7 DEF ReadGaps, IngestState
  <2>3. Summed(i, s)' => Summed(i, s)
    BY <2>1, <2>2 DEF Summed, WorksOn, PastAggregates
  <2>4. HandlerCounts(i, s)'
    BY <2>1, <2>2, <2>3 DEF Counting, HandlerCounts, WorksOn, Summed
  <2>5. RowCounts(s)'
    BY <2>1 DEF Counting, RowCounts
  <2>6. \A j \in Ingests \ {i} : Summed(j, s) => Comparable(ingest[j].basis, Basis(s)')
    BY <2>1 DEF Counting, HandlerCounts
  <2>7. \A j \in Ingests \ {i} : Summed(i, s)' /\ Summed(j, s) =>
            Comparable(ingest[j].basis, ingest'[i].basis)
    BY <2>2, <2>3 DEF Counting
  <2> QED BY <2>1, <2>4, <2>5, <2>6, <2>7, CountingMoves DEF Counting
<1>8. ASSUME Abort(i) \/ Reselect(i) PROVE Counting(s)'
  <2>1. /\ Stored(s)' = Stored(s) /\ Basis(s)' = Basis(s)
        /\ agentEntries' = agentEntries /\ r.step # "idle"
        /\ \A j \in Ingests \ {i} : ingest'[j] = ingest[j]
        /\ ingest'[i] = IdleIngest
    BY <1>1, <1>8 DEF Abort, Reselect, Acknowledge, historyVars, Stored, Basis
  <2>2. acked'[s] \subseteq Basis(s)
    <3>1. acked'[s] = acked[s] \/ (r.step = "reselect" /\ r.session = s /\ acked'[s] = acked[s] \cup r.own)
      BY <1>2, <1>8, <2>1 DEF Abort, Reselect, Acknowledge, historyVars, TypeInv, TypeOK
    <3> QED BY <2>1, <3>1 DEF Counting, HandlerCounts, WorksOn
  <2>3. HandlerCounts(i, s)' /\ ~ Summed(i, s)'
    BY <1>3, <2>1 DEF HandlerCounts, Summed, WorksOn
  <2>4. RowCounts(s)'
    BY <2>1 DEF Counting, RowCounts
  <2>5. \A j \in Ingests \ {i} : Summed(j, s) => Comparable(ingest[j].basis, Basis(s)')
    BY <2>1 DEF Counting, HandlerCounts
  <2> QED BY <2>1, <2>2, <2>3, <2>4, <2>5, CountingMoves DEF Counting
<1>9. ASSUME Materialize(i) PROVE Counting(s)'
  <2> DEFINE row == agentEntries[r.session]
  <2>1. /\ Stored(s)' = Stored(s) /\ r.step = "materialize" /\ r.session \in Sessions
        /\ r.own \in SUBSET Messages /\ r.basis \in SUBSET Messages /\ r.basis # {}
        /\ agentEntries \in [Sessions -> Entry \cup {Null}]
        /\ acked \in [Sessions -> SUBSET Messages]
    BY <1>1, <1>2, <1>9 DEF Materialize, Stored, IngestState, TypeInv, TypeOK, HandlersOK,
        PastAggregates
  <2>2. CASE r.session # s
    <3>1. /\ acked'[s] = acked[s] /\ agentEntries'[s] = agentEntries[s]
          /\ \A j \in Ingests \ {i} : ingest'[j] = ingest[j]
          /\ ~ WorksOn(i, s)'
      BY <1>1, <1>3, <1>9, <2>1, <2>2 DEF Materialize, Acknowledge, WorksOn, IngestState
    <3>2. Basis(s)' = Basis(s)
      BY <3>1 DEF Basis
    <3> QED BY <2>1, <3>1, <3>2, CountingKept
  <2>3. CASE r.session = s
    <3>1. /\ WorksOn(i, s) /\ Summed(i, s)
          /\ r.own \subseteq r.basis /\ r.basis \subseteq Stored(s)
          /\ Comparable(r.basis, Basis(s))
      BY <2>1, <2>3 DEF Counting, HandlerCounts, WorksOn, Summed, PastAggregates
    <3>2. \A j \in Ingests : Summed(j, s) => /\ Comparable(ingest[j].basis, r.basis)
                                             /\ Comparable(ingest[j].basis, Basis(s))
      BY <3>1 DEF Counting, HandlerCounts
    <3>3. CASE /\ row = Null \/ Supersedes(r.basis, row)
               /\ \E new : /\ agentEntries' = [agentEntries EXCEPT ![s] = new]
                           /\ new \in Entry /\ new.basis = r.basis
                           /\ new.count = Cardinality(r.basis)
                           /\ new.tokens = TotalTokens[r.basis]
               /\ Acknowledge(i)
      <4>1. PICK new \in Entry : /\ agentEntries' = [agentEntries EXCEPT ![s] = new]
                                 /\ new.basis = r.basis
                                 /\ new.count = Cardinality(r.basis)
                                 /\ new.tokens = TotalTokens[r.basis]
        BY <3>3
      <4>2. agentEntries'[s] = new /\ new # Null /\ Basis(s)' = r.basis
        BY <2>1, <4>1, EntryAssumption DEF Basis
      <4>3. Basis(s) \subseteq r.basis
        <5>1. CASE row = Null
          BY <2>3, <5>1 DEF Basis
        <5>2. CASE row # Null /\ Supersedes(r.basis, row)
          <6>1. row.tokens = TotalTokens[row.basis] /\ row.count = Cardinality(row.basis)
                  /\ Basis(s) = row.basis /\ row.basis \in SUBSET Messages
            BY <2>1, <2>3, <5>2 DEF Counting, RowCounts, Basis, Entry
          <6> QED BY <2>1, <3>1, <5>2, <6>1, SupersedingContains
        <5> QED BY <3>3, <5>1, <5>2
      <4>4. RowCounts(s)'
        BY <2>1, <3>1, <4>1, <4>2 DEF RowCounts
      <4>5. acked'[s] = acked[s] \cup r.own /\ ingest'[i] = IdleIngest
              /\ \A j \in Ingests \ {i} : ingest'[j] = ingest[j]
        BY <1>1, <2>1, <2>3, <3>3 DEF Acknowledge
      <4>6. acked'[s] \subseteq Basis(s)'
        BY <3>1, <4>2, <4>3, <4>5 DEF Counting
      <4>7. HandlerCounts(i, s)' /\ ~ Summed(i, s)'
        BY <1>3, <4>5 DEF HandlerCounts, Summed, WorksOn
      <4> HIDE DEF r, row
      <4> QED BY <2>1, <3>2, <4>2, <4>3, <4>4, <4>5, <4>6, <4>7, CountingMoves
    <3>4. CASE /\ row # Null /\ ~ Supersedes(r.basis, row)
               /\ ingest' = [ingest EXCEPT ![i].step = "reselect"]
               /\ UNCHANGED <<agentEntries, acked>>
      <4>1. row.tokens = TotalTokens[row.basis] /\ row.count = Cardinality(row.basis)
              /\ Basis(s) = row.basis /\ row.basis \in SUBSET Messages
        BY <2>1, <2>3, <3>4 DEF Counting, RowCounts, Basis, Entry
      <4>2. r.basis \subseteq Basis(s)
        BY <2>1, <3>1, <3>4, <4>1, SupersedingContains
      <4>3. /\ \A j \in Ingests \ {i} : ingest'[j] = ingest[j]
            /\ ingest'[i].own = r.own /\ ingest'[i].basis = r.basis
            /\ Basis(s)' = Basis(s) /\ agentEntries' = agentEntries /\ acked' = acked
        BY <1>1, <3>4 DEF Basis, IngestState
      <4>4. HandlerCounts(i, s)'
        BY <2>1, <2>3, <3>1, <3>4, <4>2, <4>3 DEF HandlerCounts
      <4>5. RowCounts(s)'
        BY <2>1, <4>3 DEF Counting, RowCounts
      <4> QED BY <2>1, <3>2, <4>3, <4>4, <4>5, CountingMoves DEF Counting
    <3>5. InsertedRow(r) \in Entry /\ (row # Null => UpdatedRow(r, row) \in Entry)
      BY <2>1, RowTypes
    <3>6. /\ InsertedRow(r).basis = r.basis /\ InsertedRow(r).count = Cardinality(r.basis)
          /\ InsertedRow(r).tokens = TotalTokens[r.basis]
      BY DEF InsertedRow
    <3>7. /\ UpdatedRow(r, row).basis = r.basis /\ UpdatedRow(r, row).count = Cardinality(r.basis)
          /\ UpdatedRow(r, row).tokens = TotalTokens[r.basis]
      BY DEF UpdatedRow, InsertedRow
    <3> QED BY <1>9, <2>3, <3>3, <3>4, <3>5, <3>6, <3>7 DEF Materialize
  <2> QED BY <2>2, <2>3
<1> QED BY <1>4, <1>5, <1>6, <1>7, <1>8, <1>9 DEF IngestStep

(* A removal that leaves s undisturbed either found no ingest of s at      *)
(* work, or touched neither its row nor its events.                        *)
LEMMA CountingRemove ==
    ASSUME TypeInv, NEW s \in Sessions, Counting(s),
           NEW rows \in SUBSET Sessions, NEW gone \in SUBSET Messages,
           NEW late, Remove(rows, gone, late), UNCHANGED ingest, s \notin disturbed'
    PROVE  Counting(s)'
<1>1. /\ agentEntries' = [t \in Sessions |-> IF t \in rows THEN Null ELSE agentEntries[t]]
      /\ eventSession' = [e \in Messages |-> IF e \in gone THEN Null ELSE eventSession[e]]
      /\ acked' = [t \in Sessions |-> IF t \in rows THEN {} ELSE acked[t]]
  BY DEF Remove
<1>2. ~ (Touches(s, rows, gone) /\ (InFlight(s) \/ Outlives(s, rows)))
  BY DEF Remove
<1>3. CASE InFlight(s)
  <2>1. s \notin rows /\ \A e \in gone : eventSession[e] # s
    BY <1>2, <1>3 DEF Touches
  <2>2. Stored(s) \subseteq Stored(s)'
    BY <1>1, <2>1 DEF Stored
  <2>3. /\ agentEntries'[s] = agentEntries[s] /\ acked'[s] = acked[s]
        /\ Basis(s)' = Basis(s)
    BY <1>1, <2>1 DEF Basis
  <2> QED BY <2>2, <2>3, CountingKept
<1>4. CASE ~ InFlight(s)
  <2>1. \A i \in Ingests : ~ WorksOn(i, s)'
    BY <1>4 DEF InFlight, WorksOn
  <2>2. \A i \in Ingests : HandlerCounts(i, s)' /\ ~ Summed(i, s)'
    BY <2>1 DEF HandlerCounts, Summed
  <2>3. RowCounts(s)' /\ acked'[s] \subseteq Basis(s)'
    <3>1. CASE s \in rows
      BY <1>1, <3>1 DEF RowCounts, Basis
    <3>2. CASE s \notin rows
      <4>1. agentEntries'[s] = agentEntries[s] /\ acked'[s] = acked[s] /\ Basis(s)' = Basis(s)
        BY <1>1, <3>2 DEF Basis
      <4>2. Basis(s) \subseteq Stored(s)
        BY DEF Counting, RowCounts, Basis
      <4>3. Basis(s) \subseteq Stored(s)'
        <5>1. CASE Touches(s, rows, gone)
          BY <1>2, <3>2, <5>1 DEF Outlives, Basis
        <5>2. CASE ~ Touches(s, rows, gone)
          BY <1>1, <4>2, <5>2 DEF Stored, Touches
        <5> QED BY <5>1, <5>2
      <4> QED BY <4>1, <4>3 DEF Counting, RowCounts, Basis
    <3> QED BY <3>1, <3>2
  <2> QED BY <2>2, <2>3 DEF Counting
<1> QED BY <1>3, <1>4

(* A finalize leaves what was counted alone.                               *)
LEMMA FinalizedRowBasis ==
    ASSUME NEW s \in Sessions, NEW row \in Entry, NEW end, NEW note
    PROVE  LET new == FinalizedRow(s, row, end, note) IN
           new.basis = row.basis /\ new.count = row.count /\ new.tokens = row.tokens
<1> DEFINE new == FinalizedRow(s, row, end, note)
           noted == [row EXCEPT !.note = IF note = Null THEN @ ELSE note]
<1>1. /\ noted.basis = row.basis /\ noted.count = row.count /\ noted.tokens = row.tokens
      /\ \A a, b, c : LET x == [noted EXCEPT !.endedAt = a, !.duration = b, !.active = c] IN
            x.basis = row.basis /\ x.count = row.count /\ x.tokens = row.tokens
  BY DEF Entry
<1>2. CASE end = Null
  BY <1>1, <1>2 DEF FinalizedRow
<1>3. CASE end # Null
  <2>1. \E a, b, c : new = [noted EXCEPT !.endedAt = a, !.duration = b, !.active = c]
    BY <1>3 DEF FinalizedRow
  <2> HIDE DEF noted, new
  <2>2. new.basis = row.basis /\ new.count = row.count /\ new.tokens = row.tokens
    BY <1>1, <2>1
  <2> QED BY <2>2 DEF new
<1> QED BY <1>2, <1>3

LEMMA CountingFinalize ==
    ASSUME TypeInv, NEW t \in Sessions, NEW w \in Workspaces,
           NEW end \in Ends \cup {Null}, NEW note \in Notes \cup {Null},
           Finalize(t, w, end, note), NEW s \in Sessions, Counting(s)
    PROVE  Counting(s)'
<1> DEFINE row == agentEntries[t]
           new == FinalizedRow(t, row, end, note)
<1>1. row \in Entry /\ row # Null /\ agentEntries \in [Sessions -> Entry \cup {Null}]
  BY DEF Finalize, TypeInv, TypeOK
<1>2. new \in Entry
  BY <1>1, FinalizedRowType DEF TypeInv
<1>3. new.basis = row.basis /\ new.count = row.count /\ new.tokens = row.tokens
  BY <1>1, FinalizedRowBasis
<1>4. /\ agentEntries' = [agentEntries EXCEPT ![t] = new]
      /\ UNCHANGED <<eventSession, ingest, acked>>
  BY DEF Finalize
<1> HIDE DEF new
<1>5. Stored(s)' = Stored(s)
  BY <1>4 DEF Stored
<1>6. CASE s = t
  <2>1. agentEntries'[s] = new /\ new # Null /\ agentEntries[s] = row
    BY <1>1, <1>2, <1>4, <1>6, EntryAssumption
  <2>2. Basis(s)' = Basis(s)
    BY <1>1, <1>3, <2>1 DEF Basis
  <2> HIDE DEF row
  <2> QED BY <1>1, <1>3, <1>4, <1>5, <2>1, <2>2, CountingKept
<1>7. CASE s # t
  <2>1. agentEntries'[s] = agentEntries[s]
    BY <1>1, <1>4, <1>7
  <2>2. Basis(s)' = Basis(s)
    BY <2>1 DEF Basis
  <2> QED BY <1>4, <1>5, <2>1, <2>2, CountingKept
<1> QED BY <1>6, <1>7

LEMMA DisturbedGrows == [Next]_vars /\ TypeInv => disturbed \subseteq disturbed'
<1> SUFFICES ASSUME [Next]_vars, TypeInv PROVE disturbed \subseteq disturbed'
  OBVIOUS
<1>1. CASE EventNext
  BY <1>1 DEF EventNext, IngestStep, PostEvents, InsertChunk, ReadAggregates, ReadGaps,
    Materialize, Reselect, Abort, Finalize, historyVars
<1>2. CASE DeleteStep
  BY <1>2 DEF DeleteStep, RequestDelete, SelectDeleteKeys, DeleteBatch, Remove, historyVars
<1>3. CASE SummaryStep
  BY <1>3 DEF SummaryStep, UpsertSummary
<1>4. CASE \E w \in Workspaces : DropWorkspace(w)
  BY <1>4 DEF DropWorkspace, Remove
<1>5. CASE UNCHANGED vars
  BY <1>5 DEF vars
<1> QED BY <1>1, <1>2, <1>3, <1>4, <1>5 DEF Next

(* Every step keeps the counting of a session it leaves undisturbed.       *)
LEMMA CountingStep ==
    ASSUME TypeInv, [Next]_vars, NEW s \in Sessions, Counting(s), s \notin disturbed'
    PROVE  Counting(s)'
<1>1. CASE EventNext
  BY <1>1, CountingIngest, CountingFinalize DEF EventNext
<1>2. CASE DeleteStep
  <2>1. PICK d \in Deletes :
            \/ \E w \in Workspaces, targets \in SUBSET Sessions : RequestDelete(d, w, targets)
            \/ SelectDeleteKeys(d)
            \/ DeleteBatch(d)
    BY <1>2 DEF DeleteStep
  <2>2. CASE \/ \E w \in Workspaces, targets \in SUBSET Sessions : RequestDelete(d, w, targets)
             \/ SelectDeleteKeys(d)
    <3>1. UNCHANGED <<eventSession, agentEntries, ingest, acked>>
      BY <2>2 DEF RequestDelete, SelectDeleteKeys, historyVars
    <3>2. Stored(s)' = Stored(s) /\ Basis(s)' = Basis(s)
      BY <3>1 DEF Stored, Basis
    <3> QED BY <3>1, <3>2, CountingKept
  <2>3. CASE DeleteBatch(d)
    <3> DEFINE rows == InScope(purge[d])
               gone == {e \in Messages : eventSession[e] \in purge[d].keys}
    <3>1. purge[d].targets \in SUBSET Sessions
      BY DEF TypeInv, TypeOK, PurgeState
    <3>2. rows \in SUBSET Sessions /\ gone \in SUBSET Messages
      BY <3>1 DEF InScope
    <3>3. Remove(rows, gone, rows \ purge[d].keys) /\ UNCHANGED ingest
      BY <2>3 DEF DeleteBatch
    <3> HIDE DEF rows, gone
    <3> QED BY <3>2, <3>3, CountingRemove
  <2> QED BY <2>1, <2>2, <2>3
<1>3. CASE SummaryStep
  <2>1. PICK t \in Sessions, w \in Workspaces, input \in Summaries : UpsertSummary(t, w, input)
    BY <1>3 DEF SummaryStep
  <2>2. s # t
    BY <2>1 DEF UpsertSummary
  <2>3. /\ agentEntries'[s] = agentEntries[s] /\ acked'[s] = acked[s]
        /\ UNCHANGED <<eventSession, ingest>>
    BY <2>1, <2>2 DEF UpsertSummary, TypeInv, TypeOK
  <2>4. Stored(s)' = Stored(s) /\ Basis(s)' = Basis(s)
    BY <2>3 DEF Stored, Basis
  <2> QED BY <2>3, <2>4, CountingKept
<1>4. CASE \E w \in Workspaces : DropWorkspace(w)
  <2>1. PICK w \in Workspaces : DropWorkspace(w)
    BY <1>4
  <2> DEFINE rows == {t \in Sessions : agentEntries[t] # Null /\ agentEntries[t].workspace = w}
             gone == {e \in Messages : eventWorkspace[e] = w}
  <2>2. rows \in SUBSET Sessions /\ gone \in SUBSET Messages
    OBVIOUS
  <2>3. Remove(rows, gone, {}) /\ UNCHANGED ingest
    BY <2>1 DEF DropWorkspace
  <2> HIDE DEF rows, gone
  <2> QED BY <2>2, <2>3, CountingRemove
<1>5. CASE UNCHANGED vars
  <2>1. UNCHANGED <<eventSession, agentEntries, ingest, acked>>
    BY <1>5 DEF vars
  <2>2. Stored(s)' = Stored(s) /\ Basis(s)' = Basis(s)
    BY <2>1 DEF Stored, Basis
  <2> QED BY <2>1, <2>2, CountingKept
<1> QED BY <1>1, <1>2, <1>3, <1>4, <1>5 DEF Next

(* A message a delete removed stays without event until it is posted again,*)
(* unless its row was deleted after the keys were read.                    *)
LEMMA ErasedStep == TypeInv /\ ErasedGone /\ [Next]_vars => ErasedGone'
<1> SUFFICES ASSUME TypeInv, ErasedGone, [Next]_vars PROVE ErasedGone'
  OBVIOUS
<1> USE DEF ErasedGone
<1>1. erased \subseteq Messages /\ eventSession \in [Messages -> Sessions \cup {Null}]
  BY DEF TypeInv, TypeOK
<1>2. ASSUME NEW i \in Ingests, InsertChunk(i) PROVE ErasedGone'
  BY <1>1, <1>2 DEF InsertChunk, Inserted
<1>3. ASSUME NEW d \in Deletes, DeleteBatch(d) PROVE ErasedGone'
  <2> DEFINE rows == InScope(purge[d])
             gone == {e \in Messages : eventSession[e] \in purge[d].keys}
  <2>1. /\ eventSession' = [e \in Messages |-> IF e \in gone THEN Null ELSE eventSession[e]]
        /\ disturbed \subseteq disturbed' /\ rows \ purge[d].keys \subseteq disturbed'
        /\ erased' = erased \cup {e \in Messages : eventSession[e] \in rows}
    BY <1>3 DEF DeleteBatch, Remove
  <2>2. ASSUME NEW e \in erased' PROVE eventSession'[e] \in disturbed' \cup {Null}
    <3>1. e \in Messages
      BY <1>1, <2>1
    <3>2. CASE e \in gone
      BY <2>1, <3>1, <3>2
    <3>3. CASE e \notin gone
      <4>1. eventSession'[e] = eventSession[e] /\ eventSession[e] \notin purge[d].keys
        BY <2>1, <3>1, <3>3
      <4> HIDE DEF rows, gone
      <4> QED BY <2>1, <4>1
    <3> QED BY <3>2, <3>3
  <2> QED BY <2>2
<1>4. ASSUME NEW w \in Workspaces, DropWorkspace(w) PROVE ErasedGone'
  <2> DEFINE gone == {e \in Messages : eventWorkspace[e] = w}
  <2>1. /\ eventSession' = [e \in Messages |-> IF e \in gone THEN Null ELSE eventSession[e]]
        /\ disturbed \subseteq disturbed' /\ erased' = erased
    BY <1>4 DEF DropWorkspace, Remove
  <2> QED BY <1>1, <2>1
<1>5. CASE UNCHANGED <<eventSession, erased>> /\ disturbed \subseteq disturbed'
  BY <1>5
<1>6. CASE EventNext
  <2>1. (\E i \in Ingests : InsertChunk(i)) \/ UNCHANGED <<eventSession, erased>>
    BY <1>6 DEF EventNext, IngestStep, PostEvents, ReadAggregates, ReadGaps, Materialize,
        Reselect, Abort, Finalize, historyVars
  <2> QED BY <1>2, <1>5, <2>1, DisturbedGrows
<1>7. CASE DeleteStep
  <2>1. (\E d \in Deletes : DeleteBatch(d)) \/ UNCHANGED <<eventSession, erased>>
    BY <1>7 DEF DeleteStep, RequestDelete, SelectDeleteKeys, historyVars
  <2> QED BY <1>3, <1>5, <2>1, DisturbedGrows
<1>8. CASE SummaryStep
  <2>1. UNCHANGED <<eventSession, erased>>
    BY <1>8 DEF SummaryStep, UpsertSummary
  <2> QED BY <1>5, <2>1, DisturbedGrows
<1>9. CASE UNCHANGED vars
  BY <1>9 DEF vars
<1> QED BY <1>4, <1>6, <1>7, <1>8, <1>9 DEF Next

LEMMA CountingAlways == Spec => [](TypeInv /\ CountingInv)
<1>1. Init => TypeInv /\ CountingInv
  BY TypeInvInit, CountingInit
<1>2. TypeInv /\ CountingInv /\ [Next]_vars => (TypeInv /\ CountingInv)'
  <2> SUFFICES ASSUME TypeInv, CountingInv, [Next]_vars PROVE TypeInv' /\ CountingInv'
    OBVIOUS
  <2>1. TypeInv' /\ ErasedGone'
    BY TypeInvStep, ErasedStep DEF CountingInv
  <2>2. ASSUME NEW s \in Undisturbed' PROVE Counting(s)'
    <3>1. s \in Sessions /\ s \notin disturbed' /\ s \in Undisturbed
      BY DisturbedGrows DEF Undisturbed
    <3> QED BY <3>1, CountingStep DEF CountingInv
  <2> QED BY <2>1, <2>2 DEF CountingInv
<1> QED BY <1>1, <1>2, PTL DEF Spec

(* What a 200 promised is counted, for any number of ingests of a session  *)
(* interleaved statement by statement with deaths, finalizes and removals. *)
THEOREM AckedAlwaysCounted == Spec => []AckedCounted
<1>1. CountingInv => AckedCounted
  BY DEF CountingInv, Counting, AckedCounted
<1> QED BY <1>1, CountingAlways, PTL

(* No undisturbed row counts an event that is not stored, or one a delete  *)
(* removed and nobody posted again.                                        *)
THEOREM RemovalAlwaysForgets == Spec => []RemovalForgets
<1>1. TypeInv /\ CountingInv => RemovalForgets
  <2> SUFFICES ASSUME TypeInv, CountingInv, NEW s \in Undisturbed
               PROVE  Basis(s) \subseteq Stored(s) /\ Basis(s) \cap erased = {}
    BY DEF RemovalForgets
  <2>1. Basis(s) \subseteq Stored(s)
    BY DEF CountingInv, Counting, RowCounts, Basis
  <2>2. s \in Sessions /\ s \notin disturbed /\ s # Null
    BY NullAssumption DEF Undisturbed
  <2> QED BY <2>1, <2>2 DEF Stored, CountingInv, ErasedGone
<1> QED BY <1>1, CountingAlways, PTL

(* No message is summed into two sessions.                                 *)
THEOREM MessagesCountedOnce == Spec => []MessageCountedOnce
<1>1. CountingInv => MessageCountedOnce
  <2> SUFFICES ASSUME CountingInv, NEW s \in Undisturbed, NEW t \in Undisturbed, s # t
               PROVE  Basis(s) \cap Basis(t) = {}
    BY DEF MessageCountedOnce
  <2>1. Basis(s) \subseteq Stored(s) /\ Basis(t) \subseteq Stored(t)
    BY DEF CountingInv, Counting, RowCounts, Basis
  <2> QED BY <2>1 DEF Stored
<1> QED BY <1>1, CountingAlways, PTL

(***************************************************************************)
(* What the row of an undisturbed session says.  The active time a handler *)
(* carries was summed over at least the events of its basis, so it is the  *)
(* one of the basis whenever the basis is everything stored.               *)
(***************************************************************************)
RowFacts(s) ==
    LET row == agentEntries[s] IN
    IF row = Null THEN finalEnd[s] = 0
    ELSE /\ row.startedAt = MinTs(row.basis)
         /\ row.endedAt = Larger(MaxTs(row.basis), finalEnd[s])
         /\ row.duration = RoundMinutes(row.endedAt - row.startedAt)
         /\ row.basis = Stored(s) =>
                row.active = ActiveMinutes(row.basis, row.endedAt, row.startedAt)

HandlerFacts(i, s) ==
    WorksOn(i, s) /\ ingest[i].step = "materialize" /\ ingest[i].basis = Stored(s) =>
        ingest[i].active = RoundMinutes(GapMs[ingest[i].basis])

Facts(s) == RowFacts(s) /\ \A i \in Ingests : HandlerFacts(i, s)

(* StaleRecomputeNeverWins, for one session.                               *)
RowGrows(s) ==
    agentEntries[s] # Null /\ agentEntries'[s] # Null =>
        /\ agentEntries[s].basis \subseteq agentEntries'[s].basis
        /\ agentEntries'[s].startedAt <= agentEntries[s].startedAt
        /\ agentEntries[s].endedAt <= agentEntries'[s].endedAt
        /\ agentEntries[s].duration <= agentEntries'[s].duration

LEMMA FactsInit == Init => \A s \in Sessions : Facts(s)
BY DEF Init, Facts, RowFacts, HandlerFacts, WorksOn, IdleIngest

(* The start of a session only matters to a tail without events, and a     *)
(* session that ends with its last event has none.                         *)
LEMMA ActiveOfEvents ==
    ASSUME NEW S \in SUBSET Messages, S # {}, NEW end \in Nat, NEW a \in Nat, NEW b \in Nat
    PROVE  /\ ActiveMinutes(S, end, a) = ActiveMinutes(S, end, b)
           /\ ActiveMinutes(S, MaxTs(S), a) = RoundMinutes(GapMs[S])
<1>1. TailMs(S, end, a) = TailMs(S, end, b)
  BY DEF TailMs
<1>2. MaxTs(S) \in Nat /\ GapMs[S] \in Nat /\ AGENT_ACTIVE_IDLE_GAP_MS \in Nat
  BY Bounds, UsageAssumption DEF AGENT_ACTIVE_IDLE_GAP_MS
<1>3. MaxTs(S) - MaxTs(S) = 0 /\ 0 \notin 1 .. AGENT_ACTIVE_IDLE_GAP_MS
  BY <1>2
<1>4. TailMs(S, MaxTs(S), a) = 0
  BY <1>3 DEF TailMs
<1>5. GapMs[S] + 0 = GapMs[S]
  BY <1>2
<1> QED BY <1>1, <1>4, <1>5 DEF ActiveMinutes

(* A row that stays keeps its facts while events are added.                *)
LEMMA FactsKept ==
    ASSUME TypeInv, NEW s \in Sessions, Counting(s), Facts(s),
           Stored(s) \subseteq Stored(s)',
           agentEntries'[s] = agentEntries[s], finalEnd'[s] = finalEnd[s],
           \A i \in Ingests : \/ ingest'[i] = ingest[i]
                              \/ HandlerFacts(i, s)'
    PROVE  Facts(s)' /\ RowGrows(s)
<1>1. agentEntries[s] # Null =>
        /\ agentEntries[s] \in Entry
        /\ agentEntries[s].basis \subseteq Stored(s)
  BY DEF TypeInv, TypeOK, Counting, RowCounts
<1>2. RowFacts(s)'
  <2>1. CASE agentEntries[s] = Null
    BY <2>1 DEF Facts, RowFacts
  <2>2. CASE agentEntries[s] # Null
    <3>1. agentEntries'[s].basis = Stored(s)' => agentEntries[s].basis = Stored(s)
      BY <1>1, <2>2
    <3> QED BY <2>2, <3>1 DEF Facts, RowFacts
  <2> QED BY <2>1, <2>2
<1>3. ASSUME NEW i \in Ingests PROVE HandlerFacts(i, s)'
  <2>1. CASE ingest'[i] = ingest[i]
    <3>1. WorksOn(i, s)' /\ ingest'[i].step = "materialize" =>
            /\ WorksOn(i, s) /\ ingest[i].step = "materialize"
            /\ ingest[i].basis \subseteq Stored(s)
      BY <2>1 DEF WorksOn, Counting, HandlerCounts, Summed, PastAggregates
    <3>2. ingest[i].basis \subseteq Stored(s) /\ ingest[i].basis = Stored(s)' =>
            ingest[i].basis = Stored(s)
      OBVIOUS
    <3>3. HandlerFacts(i, s)
      BY DEF Facts
    <3> QED BY <2>1, <3>1, <3>2, <3>3 DEF HandlerFacts
  <2>2. CASE HandlerFacts(i, s)'
    BY <2>2
  <2> QED BY <2>1, <2>2
<1>4. RowGrows(s)
  <2>1. CASE agentEntries[s] # Null
    <3>1. /\ agentEntries[s].endedAt \in Nat /\ agentEntries[s].startedAt \in Nat
          /\ agentEntries[s].duration \in Nat
      <4>1. MaxTs(agentEntries[s].basis) \in Nat /\ finalEnd[s] \in Nat
        BY <1>1, <2>1, Bounds DEF Counting, RowCounts, Entry, TypeInv, TypeOK
      <4> QED BY <1>1, <2>1, <4>1 DEF Facts, RowFacts, Entry, Larger
    <3> QED BY <3>1 DEF RowGrows
  <2> QED BY <2>1 DEF RowGrows
<1> QED BY <1>2, <1>3, <1>4 DEF Facts

(* The row an ingest inserts states the facts of its basis.                *)
LEMMA FactsInserted ==
    ASSUME TypeInv, NEW s \in Sessions, Counting(s), Facts(s),
           NEW i \in Ingests, WorksOn(i, s), ingest[i].step = "materialize",
           agentEntries[s] = Null, Stored(s)' = Stored(s),
           agentEntries'[s] = InsertedRow(ingest[i]), finalEnd'[s] = finalEnd[s]
    PROVE  RowFacts(s)' /\ RowGrows(s)
<1> DEFINE r == ingest[i]
           row == InsertedRow(r)
<1>1. /\ r.basis \in SUBSET Messages /\ r.basis # {} /\ r.active \in Nat
      /\ finalEnd[s] = 0
  BY DEF TypeInv, TypeOK, HandlersOK, IngestState, PastAggregates, Facts, RowFacts
<1>2. /\ row.basis = r.basis /\ row.startedAt = MinTs(r.basis) /\ row.endedAt = MaxTs(r.basis)
      /\ row.duration = RoundMinutes(MaxTs(r.basis) - MinTs(r.basis)) /\ row.active = r.active
  BY DEF InsertedRow
<1>3. MinTs(r.basis) \in Nat /\ MaxTs(r.basis) \in Nat
  BY <1>1, Bounds
<1>4. Larger(MaxTs(r.basis), 0) = MaxTs(r.basis)
  BY <1>3 DEF Larger
<1>5. r.basis = Stored(s) => r.active = ActiveMinutes(r.basis, MaxTs(r.basis), MinTs(r.basis))
  <2>1. r.basis = Stored(s) => r.active = RoundMinutes(GapMs[r.basis])
    BY DEF Facts, HandlerFacts
  <2> HIDE DEF r
  <2> QED BY <1>1, <1>3, <2>1, ActiveOfEvents
<1>6. row # Null
  BY RowTypes, EntryAssumption
<1> HIDE DEF row, r
<1>7. agentEntries'[s] = row
  BY DEF row, r
<1>8. RowFacts(s)'
  BY <1>1, <1>2, <1>4, <1>5, <1>6, <1>7 DEF RowFacts
<1> QED BY <1>8 DEF RowGrows

(* The row an ingest updates: the end covers both event sets and the       *)
(* finalized end, and active time is derived from everything stored.       *)
LEMMA FactsUpdated ==
    ASSUME TypeInv, NEW s \in Sessions, Counting(s), Facts(s),
           NEW i \in Ingests, WorksOn(i, s), ingest[i].step = "materialize",
           agentEntries[s] # Null, agentEntries[s].basis \subseteq ingest[i].basis,
           Stored(s)' = Stored(s), finalEnd'[s] = finalEnd[s],
           agentEntries'[s] = UpdatedRow(ingest[i], agentEntries[s])
    PROVE  RowFacts(s)' /\ RowGrows(s)
<1> DEFINE r == ingest[i]
           row == agentEntries[s]
           new == UpdatedRow(r, row)
           end == Larger(MaxTs(r.basis), Coalesce(row.endedAt, 0))
<1>1. /\ r.basis \in SUBSET Messages /\ r.basis # {} /\ r.session = s
      /\ row \in Entry /\ row.basis # {} /\ row.basis \in SUBSET Messages
      /\ row.basis \subseteq r.basis /\ finalEnd[s] \in Nat /\ row.startedAt \in Nat
  BY DEF TypeInv, TypeOK, HandlersOK, IngestState, PastAggregates, Counting, RowCounts,
    Entry, WorksOn
<1>2. /\ row.startedAt = MinTs(row.basis)
      /\ row.endedAt = Larger(MaxTs(row.basis), finalEnd[s])
      /\ row.duration = RoundMinutes(row.endedAt - row.startedAt)
  BY DEF Facts, RowFacts
<1>3. /\ new.basis = r.basis /\ new.startedAt = MinTs(r.basis) /\ new.endedAt = end
      /\ new.duration = RoundMinutes(end - MinTs(r.basis))
      /\ new.active = ActiveMinutes(Stored(s), end, row.startedAt)
  BY <1>1 DEF UpdatedRow, InsertedRow
<1>4. /\ MinTs(r.basis) \in Nat /\ MaxTs(r.basis) \in Nat /\ MinTs(r.basis) <= MaxTs(r.basis)
      /\ MinTs(row.basis) \in Nat /\ MaxTs(row.basis) \in Nat
      /\ MinTs(row.basis) <= MaxTs(row.basis)
      /\ MinTs(r.basis) <= MinTs(row.basis) /\ MaxTs(row.basis) <= MaxTs(r.basis)
  <2> HIDE DEF r, row
  <2> QED BY <1>1, Bounds, BoundsMonotone
<1>5. agentEntries'[s] = new /\ new # Null /\ new \in Entry
  BY <1>1, RowTypes, EntryAssumption
<1> HIDE DEF r, row, new
<1>6. /\ row.endedAt \in Nat /\ Coalesce(row.endedAt, 0) = row.endedAt
      /\ end \in Nat /\ end = Larger(MaxTs(r.basis), finalEnd[s])
      /\ row.endedAt <= end /\ MaxTs(row.basis) <= row.endedAt
  <2>1. row.endedAt \in Nat /\ MaxTs(row.basis) <= row.endedAt
    BY <1>1, <1>2, <1>4 DEF Larger
  <2>2. Coalesce(row.endedAt, 0) = row.endedAt
    BY <2>1, CoalesceNat, NullAssumption
  <2> QED BY <1>1, <1>2, <1>4, <2>1, <2>2 DEF Larger
<1> HIDE DEF end
<1>7. r.basis = Stored(s) => new.active = ActiveMinutes(r.basis, end, MinTs(r.basis))
  BY <1>1, <1>3, <1>4, <1>6, ActiveOfEvents
<1>8. RowFacts(s)'
  BY <1>3, <1>5, <1>6, <1>7 DEF RowFacts
<1>9. row.duration <= new.duration
  <2>1. /\ row.endedAt - row.startedAt \in Nat /\ end - MinTs(r.basis) \in Nat
        /\ row.endedAt - row.startedAt <= end - MinTs(r.basis)
    BY <1>2, <1>4, <1>6
  <2> QED BY <1>2, <1>3, <2>1, RoundMinutesNat
<1>10. RowGrows(s)
  <2>1. agentEntries[s] = row
    BY DEF row
  <2> QED BY <1>1, <1>2, <1>3, <1>4, <1>5, <1>6, <1>9, <2>1 DEF RowGrows
<1> QED BY <1>8, <1>10

LEMMA FactsIngest ==
    ASSUME TypeInv, NEW s \in Sessions, Counting(s), Facts(s), NEW i \in Ingests,
           \/ \E t \in Sessions, w \in Workspaces, batch \in SUBSET Messages :
                PostEvents(i, t, w, batch)
           \/ IngestStep(i)
           \/ Abort(i)
    PROVE  Facts(s)' /\ RowGrows(s)
<1> DEFINE r == ingest[i]
<1>1. r \in IngestState /\ ingest \in [Ingests -> IngestState]
  BY DEF TypeInv, TypeOK
<1>2. CASE \/ \E t \in Sessions, w \in Workspaces, batch \in SUBSET Messages :
                PostEvents(i, t, w, batch)
           \/ ReadAggregates(i) \/ Reselect(i) \/ Abort(i)
  <2>1. /\ UNCHANGED <<eventSession, agentEntries, finalEnd>>
        /\ \A j \in Ingests \ {i} : ingest'[j] = ingest[j]
        /\ ingest'[i].step \in {"idle", "insert", "gaps"}
    <3>1. CASE \E t \in Sessions, w \in Workspaces, batch \in SUBSET Messages :
                    PostEvents(i, t, w, batch)
      BY <1>1, <3>1 DEF PostEvents, historyVars, IdleIngest
    <3>2. CASE ReadAggregates(i)
      BY <1>1, <3>2 DEF ReadAggregates, historyVars, IdleIngest, IngestState
    <3>3. CASE Reselect(i) \/ Abort(i)
      BY <1>1, <3>3 DEF Reselect, Abort, Acknowledge, historyVars, IdleIngest
    <3> QED BY <1>2, <3>1, <3>2, <3>3
  <2>2. Stored(s)' = Stored(s) /\ HandlerFacts(i, s)'
    BY <2>1 DEF Stored, HandlerFacts
  <2> QED BY <2>1, <2>2, FactsKept
<1>3. CASE InsertChunk(i)
  <2>1. PICK chunk \in SUBSET r.todo :
            /\ eventSession' = [e \in Messages |->
                    IF e \in Inserted(chunk) THEN r.session ELSE eventSession[e]]
            /\ ingest' = [ingest EXCEPT ![i] = [r EXCEPT
                    !.todo = @ \ chunk,
                    !.own = @ \cup {e \in chunk : eventSession'[e] = r.session},
                    !.step = IF chunk = r.todo THEN "aggregate" ELSE "insert"]]
    BY <1>3 DEF InsertChunk
  <2>2. /\ \A j \in Ingests \ {i} : ingest'[j] = ingest[j]
        /\ ingest'[i].step \in {"insert", "aggregate"}
        /\ UNCHANGED <<agentEntries, finalEnd>>
    BY <1>1, <1>3, <2>1 DEF IngestState, InsertChunk
  <2>3. Stored(s) \subseteq Stored(s)'
    BY <2>1, NullAssumption DEF Stored, Inserted
  <2>4. HandlerFacts(i, s)'
    BY <2>2 DEF HandlerFacts
  <2> QED BY <2>2, <2>3, <2>4, FactsKept
<1>4. CASE ReadGaps(i)
  <2>1. /\ UNCHANGED <<eventSession, agentEntries, finalEnd>>
        /\ \A j \in Ingests \ {i} : ingest'[j] = ingest[j]
        /\ ingest'[i].session = r.session
        /\ ingest'[i].active = RoundMinutes(GapMs[Stored(r.session)])
    BY <1>1, <1>4 DEF ReadGaps, historyVars, IngestState
  <2>2. Stored(s)' = Stored(s)
    BY <2>1 DEF Stored
  <2>3. HandlerFacts(i, s)'
    BY <2>1, <2>2 DEF HandlerFacts, WorksOn
  <2> QED BY <2>1, <2>2, <2>3, FactsKept
<1>5. CASE Materialize(i)
  <2>1. /\ r.step = "materialize" /\ WorksOn(i, r.session) /\ r.session \in Sessions
        /\ UNCHANGED <<eventSession, finalEnd>>
    BY <1>5 DEF Materialize, WorksOn, TypeInv, HandlersOK
  <2>2. Stored(s)' = Stored(s)
    BY <2>1 DEF Stored
  <2>3. \/ ingest' = [ingest EXCEPT ![i] = IdleIngest]
        \/ ingest' = [ingest EXCEPT ![i].step = "reselect"] /\ UNCHANGED agentEntries
    BY <1>5 DEF Materialize, Acknowledge
  <2>4. /\ \A j \in Ingests \ {i} : ingest'[j] = ingest[j]
        /\ ingest'[i].step \in {"idle", "reselect"}
    BY <1>1, <2>3 DEF IdleIngest, IngestState
  <2>5. HandlerFacts(i, s)'
    BY <2>4 DEF HandlerFacts
  <2>6. CASE r.session # s \/ UNCHANGED agentEntries
    <3>1. agentEntries'[s] = agentEntries[s]
      BY <1>5, <2>1, <2>6 DEF Materialize, TypeInv, TypeOK
    <3> QED BY <2>1, <2>2, <2>4, <2>5, <3>1, FactsKept
  <2>7. CASE r.session = s /\ agentEntries' # agentEntries
    <3>1. \A j \in Ingests : HandlerFacts(j, s)'
      BY <2>2, <2>4, <2>5 DEF Facts, HandlerFacts, WorksOn
    <3>2. agentEntries \in [Sessions -> Entry \cup {Null}]
      BY DEF TypeInv, TypeOK
    <3>3. CASE agentEntries[s] = Null
      <4>1. agentEntries'[s] = InsertedRow(r)
        BY <1>5, <2>7, <3>2, <3>3 DEF Materialize
      <4>2. RowFacts(s)' /\ RowGrows(s)
        BY <2>1, <2>2, <2>7, <3>3, <4>1, FactsInserted
      <4> QED BY <3>1, <4>2 DEF Facts
    <3>4. CASE agentEntries[s] # Null
      <4>1. agentEntries'[s] = UpdatedRow(r, agentEntries[s])
              /\ Supersedes(r.basis, agentEntries[s])
        BY <1>5, <2>7, <3>2, <3>4 DEF Materialize
      <4>2. agentEntries[s].basis \subseteq r.basis
        <5>1. /\ agentEntries[s].basis \in SUBSET Messages /\ r.basis \in SUBSET Messages
              /\ agentEntries[s].tokens = TotalTokens[agentEntries[s].basis]
              /\ agentEntries[s].count = Cardinality(agentEntries[s].basis)
          BY <1>1, <3>2, <3>4 DEF IngestState, Entry, Counting, RowCounts
        <5>2. Summed(i, s)
          BY <2>1, <2>7 DEF Summed, PastAggregates
        <5>3. Comparable(r.basis, agentEntries[s].basis)
          BY <3>4, <5>2 DEF Counting, HandlerCounts, Basis
        <5> QED BY <4>1, <5>1, <5>3, SupersedingContains
      <4>3. RowFacts(s)' /\ RowGrows(s)
        BY <2>1, <2>2, <2>7, <3>4, <4>1, <4>2, FactsUpdated
      <4> QED BY <3>1, <4>3 DEF Facts
    <3> QED BY <3>3, <3>4
  <2> QED BY <2>6, <2>7
<1> QED BY <1>2, <1>3, <1>4, <1>5 DEF IngestStep

(* A finalize moves the end to the latest wall-clock end and derives       *)
(* duration and active time again.                                         *)
LEMMA FactsFinalize ==
    ASSUME TypeInv, NEW t \in Sessions, NEW w \in Workspaces,
           NEW end \in Ends \cup {Null}, NEW note \in Notes \cup {Null},
           Finalize(t, w, end, note), NEW s \in Sessions, Counting(s), Facts(s)
    PROVE  Facts(s)' /\ RowGrows(s)
<1> DEFINE row == agentEntries[t]
           new == FinalizedRow(t, row, end, note)
           noted == [row EXCEPT !.note = IF note = Null THEN @ ELSE note]
           closed == ClampedEnd(end, row)
<1>1. /\ row \in Entry /\ row # Null /\ agentEntries \in [Sessions -> Entry \cup {Null}]
      /\ finalEnd \in [Sessions -> Nat]
  BY DEF Finalize, TypeInv, TypeOK
<1>2. /\ agentEntries' = [agentEntries EXCEPT ![t] = new]
      /\ finalEnd' = [finalEnd EXCEPT ![t] =
            IF end = Null THEN @ ELSE Larger(@, Larger(end, row.startedAt))]
      /\ UNCHANGED <<eventSession, ingest>>
  BY DEF Finalize
<1>3. Stored(s)' = Stored(s)
  BY <1>2 DEF Stored
<1>4. CASE s # t
  <2>1. agentEntries'[s] = agentEntries[s] /\ finalEnd'[s] = finalEnd[s]
    BY <1>1, <1>2, <1>4
  <2> QED BY <1>2, <1>3, <2>1, FactsKept
<1>5. CASE s = t
  <2>1. /\ row.basis \in SUBSET Messages /\ row.basis # {} /\ row.count # Null
        /\ row.duration \in Nat /\ row.startedAt \in Nat
    <3>1. row.basis \in SUBSET Messages /\ row.basis # {} /\ row.count = Cardinality(row.basis)
      BY <1>1, <1>5 DEF Counting, RowCounts, Entry
    <3>2. Cardinality(row.basis) # Null
      BY <3>1, CardinalityNat, NullAssumption
    <3> QED BY <1>1, <3>1, <3>2 DEF Entry
  <2>2. /\ MinTs(row.basis) \in Nat /\ MaxTs(row.basis) \in Nat
        /\ MinTs(row.basis) <= MaxTs(row.basis)
    BY <2>1, Bounds
  <2>3. /\ row.startedAt = MinTs(row.basis)
        /\ row.endedAt = Larger(MaxTs(row.basis), finalEnd[s])
        /\ row.duration = RoundMinutes(row.endedAt - row.startedAt)
        /\ row.basis = Stored(s) =>
                row.active = ActiveMinutes(row.basis, row.endedAt, row.startedAt)
    BY <1>1, <1>5 DEF Facts, RowFacts
  <2>4. /\ noted \in Entry /\ noted.basis = row.basis /\ noted.startedAt = row.startedAt
        /\ noted.endedAt = row.endedAt /\ noted.duration = row.duration
        /\ noted.active = row.active
    BY <1>1 DEF Entry
  <2>5. new \in Entry /\ new # Null /\ agentEntries'[s] = new /\ agentEntries[s] = row
    BY <1>1, <1>2, <1>5, FinalizedRowType, EntryAssumption DEF TypeInv
  <2>6. \A j \in Ingests : HandlerFacts(j, s)'
    BY <1>2, <1>3 DEF Facts, HandlerFacts, WorksOn
  <2>7. row.endedAt \in Nat /\ row.startedAt <= row.endedAt /\ finalEnd[s] \in Nat
    BY <1>1, <2>2, <2>3 DEF Larger
  <2>8. CASE end = Null
    <3>1. new = noted /\ finalEnd'[s] = finalEnd[s]
      BY <1>1, <1>2, <1>5, <2>8 DEF FinalizedRow
    <3> HIDE DEF row, new, noted
    <3>2. RowFacts(s)'
      BY <1>3, <2>3, <2>4, <2>5, <3>1 DEF RowFacts
    <3>3. RowGrows(s)
      BY <2>1, <2>4, <2>5, <2>7, <3>1 DEF RowGrows
    <3> QED BY <2>6, <3>2, <3>3 DEF Facts
  <2>9. CASE end # Null
    <3>1. end \in Nat /\ finalEnd'[s] = Larger(finalEnd[s], Larger(end, row.startedAt))
      BY <1>1, <1>2, <1>5, <2>9, InputAssumption
    <3>2. new = [noted EXCEPT
                    !.endedAt = closed,
                    !.duration = Larger(@, RoundMinutes(closed - row.startedAt)),
                    !.active = IF row.count = Null THEN @
                               ELSE ActiveMinutes(Stored(t), closed, row.startedAt)]
      BY <2>9 DEF FinalizedRow
    <3>3. closed = Larger(end, Larger(row.endedAt, row.startedAt))
      <4>1. Coalesce(row.endedAt, 0) = row.endedAt
        BY <2>7, NullAssumption DEF Coalesce
      <4> QED BY <4>1 DEF ClampedEnd
    <3>4. /\ closed \in Nat /\ row.endedAt <= closed /\ row.startedAt <= closed
          /\ closed = Larger(MaxTs(row.basis), finalEnd'[s])
      <4> HIDE DEF row, closed
      <4> QED BY <2>1, <2>2, <2>3, <2>7, <3>1, <3>3 DEF Larger
    <3> HIDE DEF closed
    <3>5. /\ RoundMinutes(closed - row.startedAt) \in Nat
          /\ row.duration <= RoundMinutes(closed - row.startedAt)
      <4>1. /\ row.endedAt - row.startedAt \in Nat /\ closed - row.startedAt \in Nat
            /\ row.endedAt - row.startedAt <= closed - row.startedAt
        BY <2>1, <2>7, <3>4
      <4> HIDE DEF row
      <4> QED BY <2>3, <4>1, RoundMinutesNat
    <3>6. Larger(row.duration, RoundMinutes(closed - row.startedAt))
            = RoundMinutes(closed - row.startedAt)
      <4> HIDE DEF row
      <4> QED BY <2>1, <3>5 DEF Larger
    <3> HIDE DEF noted
    <3>7. /\ new.basis = row.basis /\ new.startedAt = row.startedAt /\ new.endedAt = closed
          /\ new.duration = RoundMinutes(closed - row.startedAt)
          /\ new.active = ActiveMinutes(Stored(s), closed, row.startedAt)
      <4> HIDE DEF row, new
      <4> QED BY <1>5, <2>1, <2>4, <3>2, <3>6 DEF Entry
    <3> HIDE DEF row, new
    <3>8. RowFacts(s)'
      BY <1>3, <2>3, <2>5, <3>4, <3>7 DEF RowFacts
    <3>9. RowGrows(s)
      BY <2>1, <2>5, <3>4, <3>5, <3>7 DEF RowGrows
    <3> QED BY <2>6, <3>8, <3>9 DEF Facts
  <2> QED BY <2>8, <2>9
<1> QED BY <1>4, <1>5

LEMMA FactsRemove ==
    ASSUME TypeInv, NEW s \in Sessions, Counting(s), Facts(s),
           NEW rows \in SUBSET Sessions, NEW gone \in SUBSET Messages,
           NEW late, Remove(rows, gone, late), UNCHANGED ingest, s \notin disturbed'
    PROVE  Facts(s)' /\ RowGrows(s)
<1>1. /\ agentEntries' = [t \in Sessions |-> IF t \in rows THEN Null ELSE agentEntries[t]]
      /\ eventSession' = [e \in Messages |-> IF e \in gone THEN Null ELSE eventSession[e]]
      /\ finalEnd' = [t \in Sessions |-> IF t \in rows THEN 0 ELSE finalEnd[t]]
      /\ ~ (Touches(s, rows, gone) /\ (InFlight(s) \/ Outlives(s, rows)))
  BY DEF Remove
<1>2. CASE ~ Touches(s, rows, gone)
  <2>1. agentEntries'[s] = agentEntries[s] /\ finalEnd'[s] = finalEnd[s]
    BY <1>1, <1>2 DEF Touches
  <2>2. Stored(s) \subseteq Stored(s)'
    BY <1>1, <1>2 DEF Touches, Stored
  <2> QED BY <2>1, <2>2, FactsKept
<1>3. CASE Touches(s, rows, gone)
  <2>1. agentEntries'[s] = Null /\ finalEnd'[s] = 0
    BY <1>1, <1>3 DEF Outlives, Facts, RowFacts
  <2>2. \A i \in Ingests : HandlerFacts(i, s)'
    BY <1>1, <1>3 DEF InFlight, HandlerFacts, WorksOn
  <2> QED BY <2>1, <2>2 DEF Facts, RowFacts, RowGrows
<1> QED BY <1>2, <1>3

LEMMA FactsStep ==
    ASSUME TypeInv, [Next]_vars, NEW s \in Sessions, Counting(s), Facts(s), s \notin disturbed'
    PROVE  Facts(s)' /\ RowGrows(s)
<1>1. CASE EventNext
  BY <1>1, FactsIngest, FactsFinalize DEF EventNext
<1>2. CASE \/ \E d \in Deletes : \/ \E w \in Workspaces, targets \in SUBSET Sessions :
                                        RequestDelete(d, w, targets)
                                 \/ SelectDeleteKeys(d)
           \/ UNCHANGED vars
  <2>1. UNCHANGED <<eventSession, agentEntries, ingest, finalEnd>>
    BY <1>2 DEF RequestDelete, SelectDeleteKeys, historyVars, vars
  <2>2. Stored(s)' = Stored(s)
    BY <2>1 DEF Stored
  <2> QED BY <2>1, <2>2, FactsKept
<1>3. CASE \E d \in Deletes : DeleteBatch(d)
  <2>1. PICK d \in Deletes : DeleteBatch(d)
    BY <1>3
  <2> DEFINE rows == InScope(purge[d])
             gone == {e \in Messages : eventSession[e] \in purge[d].keys}
  <2>2. purge[d].targets \in SUBSET Sessions
    BY DEF TypeInv, TypeOK, PurgeState
  <2>3. rows \in SUBSET Sessions /\ gone \in SUBSET Messages
    BY <2>2 DEF InScope
  <2>4. Remove(rows, gone, rows \ purge[d].keys) /\ UNCHANGED ingest
    BY <2>1 DEF DeleteBatch
  <2> HIDE DEF rows, gone
  <2> QED BY <2>3, <2>4, FactsRemove
<1>4. CASE SummaryStep
  <2>1. PICK t \in Sessions, w \in Workspaces, input \in Summaries : UpsertSummary(t, w, input)
    BY <1>4 DEF SummaryStep
  <2>2. s # t
    BY <2>1 DEF UpsertSummary
  <2>3. /\ agentEntries'[s] = agentEntries[s] /\ finalEnd'[s] = finalEnd[s]
        /\ UNCHANGED <<eventSession, ingest>>
    BY <2>1, <2>2 DEF UpsertSummary, TypeInv, TypeOK
  <2>4. Stored(s)' = Stored(s)
    BY <2>3 DEF Stored
  <2> QED BY <2>3, <2>4, FactsKept
<1>5. CASE \E w \in Workspaces : DropWorkspace(w)
  <2>1. PICK w \in Workspaces : DropWorkspace(w)
    BY <1>5
  <2> DEFINE rows == {t \in Sessions : agentEntries[t] # Null /\ agentEntries[t].workspace = w}
             gone == {e \in Messages : eventWorkspace[e] = w}
  <2>2. rows \in SUBSET Sessions /\ gone \in SUBSET Messages
    OBVIOUS
  <2>3. Remove(rows, gone, {}) /\ UNCHANGED ingest
    BY <2>1 DEF DropWorkspace
  <2> HIDE DEF rows, gone
  <2> QED BY <2>2, <2>3, FactsRemove
<1> QED BY <1>1, <1>2, <1>3, <1>4, <1>5 DEF Next, DeleteStep

RollupInv == TypeInv /\ CountingInv /\ \A s \in Undisturbed : Facts(s)

LEMMA RollupStep ==
    RollupInv /\ [Next]_vars => RollupInv' /\ \A s \in Sessions \ disturbed' : RowGrows(s)
<1> SUFFICES ASSUME RollupInv, [Next]_vars
             PROVE  RollupInv' /\ \A s \in Sessions \ disturbed' : RowGrows(s)
  OBVIOUS
<1>1. TypeInv' /\ ErasedGone'
  BY TypeInvStep, ErasedStep DEF RollupInv, CountingInv
<1>2. ASSUME NEW s \in Sessions \ disturbed' PROVE Counting(s)' /\ Facts(s)' /\ RowGrows(s)
  <2>1. s \in Undisturbed /\ TypeInv /\ Counting(s) /\ Facts(s)
    BY DisturbedGrows DEF Undisturbed, RollupInv, CountingInv
  <2> QED BY <2>1, CountingStep, FactsStep
<1>3. \A s \in Undisturbed' : s \in Sessions \ disturbed'
  BY DEF Undisturbed
<1> QED BY <1>1, <1>2, <1>3 DEF RollupInv, CountingInv

LEMMA RollupAlways == Spec => []RollupInv
<1>1. Init => RollupInv
  BY TypeInvInit, CountingInit, FactsInit DEF RollupInv, Undisturbed
<1> QED BY <1>1, RollupStep, PTL DEF Spec

(* Bounds and duration of a row are those of its events and of the latest  *)
(* finalized end, in whatever order ingests and finalizes ran.             *)
THEOREM RowAlwaysFunctionOfFacts == Spec => []RowIsFunctionOfFacts
<1>1. RollupInv => RowIsFunctionOfFacts
  BY DEF RollupInv, RowIsFunctionOfFacts, Facts, RowFacts
<1> QED BY <1>1, RollupAlways, PTL

(* Active time is exact as soon as the row counts every stored event.      *)
THEOREM FreshRowAlwaysExact == Spec => []FreshRowIsExact
<1>1. RollupInv => FreshRowIsExact
  BY DEF RollupInv, FreshRowIsExact, Facts, RowFacts
<1> QED BY <1>1, RollupAlways, PTL

(* No step of any handler makes a living row of an undisturbed session     *)
(* count less, start later, end earlier or last shorter.                   *)
THEOREM StaleNeverWins == Spec => StaleRecomputeNeverWins
<1>1. RollupInv /\ [Next]_vars =>
        [\A s \in Sessions \ disturbed' :
            LET row == agentEntries[s]
                new == agentEntries'[s] IN
            row # Null /\ new # Null =>
                /\ row.basis \subseteq new.basis
                /\ new.startedAt <= row.startedAt
                /\ row.endedAt <= new.endedAt
                /\ row.duration <= new.duration]_vars
  BY RollupStep DEF RowGrows
<1> QED BY <1>1, RollupAlways, PTL DEF Spec, StaleRecomputeNeverWins

(***************************************************************************)
(* The event path implements SessionLedger: a chunk is a Record, a written *)
(* or confirmed row is a Report, every other step is invisible.            *)
(***************************************************************************)
EventInv == RollupInv /\ disturbed = {}

LEMMA EventInvInit == Init => EventInv
BY TypeInvInit, CountingInit, FactsInit DEF EventInv, RollupInv, Undisturbed, Init

LEMMA EventInvStep == EventInv /\ [EventNext]_vars => EventInv'
<1> SUFFICES ASSUME EventInv, [EventNext]_vars PROVE EventInv'
  OBVIOUS
<1>1. RollupInv'
  BY RollupStep DEF EventInv, Next
<1>2. disturbed' = disturbed
  BY DEF EventNext, IngestStep, PostEvents, InsertChunk, ReadAggregates, ReadGaps,
      Materialize, Reselect, Abort, Finalize, historyVars, vars
<1> QED BY <1>1, <1>2 DEF EventInv

LEMMA EventAlways == EventSpec => []EventInv
BY EventInvInit, EventInvStep, PTL DEF EventSpec

LEMMA LedgerRecord ==
    ASSUME EventInv, NEW i \in Ingests, InsertChunk(i)
    PROVE  Ledger!Next
<1> DEFINE r == ingest[i]
<1>1. PICK chunk \in SUBSET r.todo :
            eventSession' = [e \in Messages |->
                    IF e \in Inserted(chunk) THEN r.session ELSE eventSession[e]]
  BY DEF InsertChunk
<1>2. r.session \in Sessions /\ r.todo \in SUBSET Messages
  BY DEF InsertChunk, EventInv, RollupInv, TypeInv, TypeOK, HandlersOK, IngestState
<1>3. Inserted(chunk) \in SUBSET Messages /\ \A e \in Inserted(chunk) : eventSession[e] = Null
  BY <1>2 DEF Inserted
<1>4. \A t \in Sessions : Inserted(chunk) \cap Stored(t) = {}
  BY <1>3, NullAssumption DEF Stored
<1>5. \A t \in Sessions : Stored(t)' = IF t = r.session THEN Stored(t) \cup Inserted(chunk)
                                       ELSE Stored(t)
  BY <1>1, <1>2, <1>3, NullAssumption DEF Stored
<1>6. [t \in Sessions |-> Stored(t)]' =
        [[t \in Sessions |-> Stored(t)] EXCEPT ![r.session] = @ \cup Inserted(chunk)]
  BY <1>2, <1>5
<1>7. acked' = acked /\ [t \in Sessions |-> Basis(t)]' = [t \in Sessions |-> Basis(t)]
  BY DEF InsertChunk, Basis
<1>8. Ledger!Record(r.session, Inserted(chunk))
  BY <1>4, <1>6, <1>7 DEF Ledger!Record
<1> QED BY <1>2, <1>3, <1>8 DEF Ledger!Next

(* A step that grows the row of s to B and promises E, both of s's events. *)
LEMMA LedgerReport ==
    ASSUME EventInv, NEW s \in Sessions, NEW E \in SUBSET Messages,
           UNCHANGED eventSession, Basis(s) \subseteq Basis(s)',
           Basis(s)' \in SUBSET Stored(s), E \subseteq Basis(s)',
           \A t \in Sessions \ {s} : Basis(t)' = Basis(t),
           acked' = [acked EXCEPT ![s] = @ \cup E]
    PROVE  Ledger!Next
<1>1. /\ [t \in Sessions |-> Basis(t)]' = [[t \in Sessions |-> Basis(t)] EXCEPT ![s] = Basis(s)']
      /\ [t \in Sessions |-> Stored(t)]' = [t \in Sessions |-> Stored(t)]
  BY DEF Stored
<1>2. Ledger!Report(s, Basis(s)', E)
  BY <1>1 DEF Ledger!Report
<1>3. Basis(s)' \in SUBSET Messages
  BY DEF Stored
<1> QED BY <1>2, <1>3 DEF Ledger!Next

LEMMA LedgerStep == EventInv /\ [EventNext]_vars => [Ledger!Next]_(Ledger!ledger)
<1> SUFFICES ASSUME EventInv, [EventNext]_vars PROVE Ledger!Next \/ UNCHANGED Ledger!ledger
  OBVIOUS
<1> USE DEF EventInv, RollupInv
<1>1. \A s \in Sessions : Counting(s) /\ RowCounts(s) /\ s \in Undisturbed
  BY DEF CountingInv, Undisturbed, Counting
<1>2. ingest \in [Ingests -> IngestState] /\ agentEntries \in [Sessions -> Entry \cup {Null}]
  BY DEF TypeInv, TypeOK
<1>3. ASSUME UNCHANGED <<eventSession, agentEntries, acked>> PROVE UNCHANGED Ledger!ledger
  BY <1>3 DEF Ledger!ledger, Stored, Basis
<1>4. ASSUME NEW i \in Ingests, InsertChunk(i) PROVE Ledger!Next
  BY <1>4, LedgerRecord
<1>5. ASSUME NEW i \in Ingests, Materialize(i) PROVE Ledger!Next \/ UNCHANGED Ledger!ledger
  <2> DEFINE r == ingest[i]
  <2>0. PICK s \in Sessions, own \in SUBSET Messages, basis \in SUBSET Messages :
            s = r.session /\ own = r.own /\ basis = r.basis
    BY <1>2, <1>5 DEF Materialize, IngestState, TypeInv, HandlersOK
  <2>1. Summed(i, s) /\ UNCHANGED eventSession
    BY <1>5, <2>0 DEF Materialize, Summed, WorksOn, PastAggregates
  <2>2. own \subseteq basis /\ basis \subseteq Stored(s)
    BY <1>1, <2>0, <2>1 DEF Counting, HandlerCounts
  <2>3. CASE Acknowledge(i)
    <3>1. acked' = [acked EXCEPT ![s] = @ \cup own]
      BY <2>0, <2>3 DEF Acknowledge
    <3>2. \E new \in Entry : agentEntries' = [agentEntries EXCEPT ![s] = new]
                                /\ new.basis = basis
      <4>1. /\ InsertedRow(r) \in Entry /\ InsertedRow(r).basis = r.basis
            /\ agentEntries[s] # Null => /\ UpdatedRow(r, agentEntries[s]) \in Entry
                                         /\ UpdatedRow(r, agentEntries[s]).basis = r.basis
        <5>1. InsertedRow(r).basis = r.basis /\ UpdatedRow(r, agentEntries[s]).basis = r.basis
          BY DEF InsertedRow, UpdatedRow
        <5>2. r.step = "materialize"
          BY <1>5 DEF Materialize
        <5> QED BY <1>2, <2>1, <5>1, <5>2, RowTypes
      <4>2. \/ agentEntries' = [agentEntries EXCEPT ![s] = InsertedRow(r)]
            \/ /\ agentEntries[s] # Null
               /\ agentEntries' = [agentEntries EXCEPT ![s] = UpdatedRow(r, agentEntries[s])]
            \/ ingest' = [ingest EXCEPT ![i].step = "reselect"]
        BY <1>5, <2>0 DEF Materialize
      <4>3. ingest' # [ingest EXCEPT ![i].step = "reselect"]
        BY <1>2, <2>3 DEF Acknowledge, IdleIngest, IngestState
      <4> QED BY <2>0, <4>1, <4>2, <4>3
    <3>3. PICK new \in Entry : agentEntries' = [agentEntries EXCEPT ![s] = new]
                                /\ new.basis = basis
      BY <3>2
    <3>4. Basis(s)' = basis /\ \A t \in Sessions \ {s} : Basis(t)' = Basis(t)
      BY <1>2, <2>1, <3>3, EntryAssumption DEF Basis
    <3>5. Basis(s) \subseteq Basis(s)'
      <4>1. RowGrows(s)
        BY <2>1, RollupStep, <1>5 DEF Next, EventNext, Materialize
      <4>2. agentEntries'[s] # Null /\ agentEntries'[s].basis = basis
        BY <1>2, <3>3, EntryAssumption
      <4> QED BY <3>4, <4>1, <4>2 DEF RowGrows, Basis
    <3> QED BY <2>1, <2>2, <3>1, <3>4, <3>5, LedgerReport
  <2>4. CASE UNCHANGED <<agentEntries, acked>>
    BY <1>3, <2>1, <2>4
  <2> QED BY <1>5, <2>3, <2>4 DEF Materialize
<1>6. ASSUME NEW i \in Ingests, Reselect(i) PROVE Ledger!Next \/ UNCHANGED Ledger!ledger
  <2>0. PICK s \in Sessions, own \in SUBSET Messages :
            s = ingest[i].session /\ own = ingest[i].own
    BY <1>2, <1>6 DEF Reselect, IngestState, TypeInv, HandlersOK
  <2>1. WorksOn(i, s) /\ UNCHANGED <<eventSession, agentEntries>>
    BY <1>6, <2>0 DEF Reselect, WorksOn
  <2>2. own \subseteq Basis(s) /\ Basis(s) \subseteq Stored(s) /\ agentEntries[s] # Null
    BY <1>1, <1>6, <2>0, <2>1 DEF Counting, HandlerCounts, RowCounts, Basis, Reselect
  <2>3. acked' = [acked EXCEPT ![s] = @ \cup own]
    BY <1>6, <2>0, <2>2 DEF Reselect, Acknowledge
  <2>4. \A t \in Sessions : Basis(t)' = Basis(t)
    BY <2>1 DEF Basis
  <2>5. Basis(s) \subseteq Basis(s)' /\ Basis(s)' \in SUBSET Stored(s) /\ own \subseteq Basis(s)'
    BY <2>2, <2>4
  <2>6. Ledger!Next
    BY <2>1, <2>3, <2>4, <2>5, LedgerReport
  <2> QED BY <2>6
<1>7. ASSUME NEW i \in Ingests,
             \/ \E s \in Sessions, w \in Workspaces, batch \in SUBSET Messages :
                    PostEvents(i, s, w, batch)
             \/ ReadAggregates(i) \/ ReadGaps(i) \/ Abort(i)
      PROVE  UNCHANGED Ledger!ledger
  <2>1. UNCHANGED <<eventSession, agentEntries, acked>>
    BY <1>7 DEF PostEvents, ReadAggregates, ReadGaps, Abort, historyVars
  <2> QED BY <1>3, <2>1
<1>8. ASSUME NEW s \in Sessions, NEW w \in Workspaces, NEW end \in Ends \cup {Null},
             NEW note \in Notes \cup {Null}, Finalize(s, w, end, note)
      PROVE  UNCHANGED Ledger!ledger
  <2>1. \A t \in Sessions : Basis(t)' = Basis(t)
    <3> SUFFICES ASSUME NEW t \in Sessions PROVE Basis(t)' = Basis(t)
      OBVIOUS
    <3>1. CASE t # s
      BY <1>2, <1>8, <3>1 DEF Finalize, Basis
    <3>2. CASE t = s
      <4>1. agentEntries[s] \in Entry /\ agentEntries[s] # Null
        BY <1>2, <1>8 DEF Finalize
      <4>2. FinalizedRow(s, agentEntries[s], end, note) # Null
        BY <4>1, FinalizedRowType, EntryAssumption DEF TypeInv
      <4>3. FinalizedRow(s, agentEntries[s], end, note).basis = agentEntries[s].basis
        BY <4>1, FinalizedRowBasis
      <4> QED BY <1>2, <1>8, <3>2, <4>1, <4>2, <4>3 DEF Finalize, Basis
    <3> QED BY <3>1, <3>2
  <2>2. UNCHANGED <<eventSession, acked>>
    BY <1>8 DEF Finalize
  <2>3. [t \in Sessions |-> Basis(t)]' = [t \in Sessions |-> Basis(t)]
    BY <2>1
  <2>4. [t \in Sessions |-> Stored(t)]' = [t \in Sessions |-> Stored(t)]
    BY <2>2 DEF Stored
  <2> QED BY <2>2, <2>3, <2>4 DEF Ledger!ledger
<1>9. ASSUME UNCHANGED vars PROVE UNCHANGED Ledger!ledger
  BY <1>3, <1>9 DEF vars
<1> QED BY <1>4, <1>5, <1>6, <1>7, <1>8, <1>9 DEF EventNext, IngestStep

(* Ingests interleaved statement by statement, with deaths, retries and    *)
(* finalizes, behave like the atomic ledger of what clients were promised. *)
THEOREM EventPathImplementsLedger == EventSpec => LedgerSpec
<1>1. Init => Ledger!Init
  <2> SUFFICES ASSUME Init PROVE Ledger!Init
    OBVIOUS
  <2>1. \A s \in Sessions : Stored(s) = {} /\ Basis(s) = {} /\ acked[s] = {}
    BY NullAssumption DEF Init, Stored, Basis
  <2> QED BY <2>1 DEF Ledger!Init, Init
<1>2. EventInv /\ [EventNext]_vars => [Ledger!Next]_(Ledger!ledger)
  BY LedgerStep
<1> QED BY <1>1, <1>2, EventAlways, PTL DEF EventSpec, LedgerSpec, Ledger!Spec

(***************************************************************************)
(* The hooks drive the server through its handlers only, so what is shown  *)
(* of the event path above holds here; the invariant below follows the one *)
(* request SessionEnd waits for.                                           *)
(***************************************************************************)

(* A handler works for the session; the one SessionEnd waits for holds the *)
(* whole transcript between what it inserted and what it still has to do.  *)
Holds(r) == /\ r.step # "idle"
            /\ transcript = r.own \cup r.todo
            /\ r.step # "insert" => r.todo = {}

SlotInv(i) ==
    /\ ingest[i].step # "idle" => ingest[i].session = Session /\ ingest[i].workspace = Workspace
    /\ worker[i] = "hook" => phase = "await" /\ transcript # {}
    /\ worker[i] = "hook" /\ ~ troubled => Holds(ingest[i])

ServerInv ==
    /\ EventInv
    /\ \A e \in Messages : eventSession[e] \in {Null, Session}
    /\ agentEntries[Session] # Null => agentEntries[Session].workspace = Workspace

HookTypes ==
    /\ transcript \subseteq Messages /\ phase \in Phases
    /\ worker \in [Ingests -> WorkerStates]
    /\ healthy \in BOOLEAN /\ troubled \in BOOLEAN

Answered == transcript \subseteq acked[Session]

HookInv ==
    /\ HookTypes
    /\ ServerInv
    /\ \A i \in Ingests : SlotInv(i)
    /\ \A i, j \in Ingests : worker[i] = "hook" /\ worker[j] = "hook" => i = j
    /\ phase # "open" /\ ~ troubled => healthy
    /\ phase \in {"finalize", "closed"} /\ ~ troubled /\ Accepted(transcript) => Answered
    /\ ClosingFactsArrive

(***************************************************************************)
(* What one statement of a handler does to its record and to the tables.   *)
(***************************************************************************)
SameRequest(i) ==
    ingest'[i].session = ingest[i].session /\ ingest'[i].workspace = ingest[i].workspace

LEMMA HandlerStep ==
    ASSUME HookTypes, ServerInv, NEW i \in Ingests, SlotInv(i), IngestStep(i)
    PROVE  /\ ingest[i].step # "idle"
           /\ \A j \in Ingests : j # i => ingest'[j] = ingest[j]
           /\ ingest'[i].step # "idle" => SameRequest(i)
           /\ \A e \in Messages : eventSession'[e] \in {Null, Session}
           /\ agentEntries'[Session] # Null => agentEntries'[Session].workspace = Workspace
           /\ acked[Session] \subseteq acked'[Session]
           /\ Holds(ingest[i]) /\ ingest'[i].step # "idle" =>
                    /\ ingest'[i].own \cup ingest'[i].todo = transcript
                    /\ ingest'[i].step # "insert" => ingest'[i].todo = {}
           /\ Holds(ingest[i]) /\ ingest'[i].step = "idle" /\ transcript # {} =>
                    transcript \subseteq acked'[Session]
<1> DEFINE r == ingest[i]
<1> USE LinkAssumption, NullAssumption
<1>1. /\ ingest \in [Ingests -> IngestState] /\ r \in IngestState
      /\ eventSession \in [Messages -> Sessions \cup {Null}]
      /\ agentEntries \in [Sessions -> Entry \cup {Null}]
      /\ acked \in [Sessions -> SUBSET Messages]
      /\ r.own \subseteq Messages /\ r.todo \subseteq Messages
  BY DEF ServerInv, EventInv, RollupInv, TypeInv, TypeOK, IngestState
<1>2. Counting(Session) /\ \A e \in Messages : eventSession[e] \in {Null, Session}
  BY DEF ServerInv, EventInv, RollupInv, CountingInv, Undisturbed
<1>3. r.step # "idle" /\ r.session = Session /\ r.workspace = Workspace
  BY DEF IngestStep, InsertChunk, ReadAggregates, ReadGaps, Materialize, Reselect, SlotInv
<1>4. IdleIngest.step = "idle"
  BY DEF IdleIngest
<1>5. CASE InsertChunk(i)
  <2>1. PICK chunk \in SUBSET r.todo :
            /\ eventSession' = [e \in Messages |->
                    IF e \in Inserted(chunk) THEN r.session ELSE eventSession[e]]
            /\ ingest' = [ingest EXCEPT ![i] = [r EXCEPT
                    !.todo = @ \ chunk,
                    !.own = @ \cup {e \in chunk : eventSession'[e] = r.session},
                    !.step = IF chunk = r.todo THEN "aggregate" ELSE "insert"]]
    BY <1>5 DEF InsertChunk
  <2>2. \A e \in chunk : e \in Messages /\ eventSession'[e] = Session
    BY <1>1, <1>2, <1>3, <2>1 DEF Inserted
  <2>3. /\ ingest'[i].todo = r.todo \ chunk
        /\ ingest'[i].own = r.own \cup chunk
        /\ ingest'[i].step = IF chunk = r.todo THEN "aggregate" ELSE "insert"
        /\ SameRequest(i)
        /\ \A j \in Ingests : j # i => ingest'[j] = ingest[j]
    BY <1>1, <1>3, <2>1, <2>2 DEF SameRequest, IngestState
  <2>4. \A e \in Messages : eventSession'[e] \in {Null, Session}
    BY <1>2, <1>3, <2>1
  <2>5. UNCHANGED <<agentEntries, acked>>
    BY <1>5 DEF InsertChunk
  <2>6. (r.own \cup chunk) \cup (r.todo \ chunk) = r.own \cup r.todo
    OBVIOUS
  <2> QED BY <1>3, <2>3, <2>4, <2>5, <2>6 DEF Holds, ServerInv
<1>6. CASE ReadAggregates(i)
  <2>1. UNCHANGED <<eventSession, agentEntries, acked>> /\ r.step = "aggregate"
    BY <1>6 DEF ReadAggregates, historyVars
  <2>2. CASE Stored(Session) = {}
    <3>1. ingest' = [ingest EXCEPT ![i] = IdleIngest]
      BY <1>3, <1>6, <2>2 DEF ReadAggregates
    <3>2. ingest'[i].step = "idle" /\ \A j \in Ingests : j # i => ingest'[j] = ingest[j]
      BY <1>1, <1>4, <3>1
    <3>3. r.own = {}
      BY <1>2, <1>3, <2>2 DEF Counting, HandlerCounts, WorksOn
    <3> QED BY <1>2, <1>3, <2>1, <3>2, <3>3 DEF Holds, ServerInv
  <2>3. CASE Stored(Session) # {}
    <3>1. ingest' = [ingest EXCEPT ![i] = [r EXCEPT !.step = "gaps", !.basis = Stored(Session)]]
      BY <1>3, <1>6, <2>3 DEF ReadAggregates
    <3>2. /\ \A j \in Ingests : j # i => ingest'[j] = ingest[j]
          /\ SameRequest(i) /\ ingest'[i].own = r.own /\ ingest'[i].todo = r.todo
          /\ ingest'[i].step = "gaps"
      BY <1>1, <3>1 DEF SameRequest, IngestState
    <3> QED BY <1>2, <1>3, <2>1, <3>2 DEF Holds, ServerInv
  <2> QED BY <2>2, <2>3
<1>10. CASE ReadGaps(i)
  <2>1. UNCHANGED <<eventSession, agentEntries, acked>> /\ r.step = "gaps"
    BY <1>10 DEF ReadGaps, historyVars
  <2>2. /\ \A j \in Ingests : j # i => ingest'[j] = ingest[j]
        /\ SameRequest(i) /\ ingest'[i].own = r.own /\ ingest'[i].todo = r.todo
        /\ ingest'[i].step = "materialize"
    BY <1>1, <1>10 DEF ReadGaps, SameRequest, IngestState
  <2> QED BY <1>2, <1>3, <2>1, <2>2 DEF Holds, ServerInv
<1>7. ASSUME Acknowledge(i)
      PROVE  /\ \A j \in Ingests : j # i => ingest'[j] = ingest[j]
             /\ ingest'[i].step = "idle"
             /\ acked'[Session] = acked[Session] \cup r.own
  BY <1>1, <1>3, <1>4, <1>7 DEF Acknowledge
<1>8. CASE Materialize(i)
  <2>1. UNCHANGED eventSession /\ r.step = "materialize"
    BY <1>8 DEF Materialize
  <2>2. CASE Acknowledge(i)
    <3>1. /\ InsertedRow(r).workspace = r.workspace
          /\ UpdatedRow(r, agentEntries[Session]).workspace = r.workspace
      BY DEF InsertedRow, UpdatedRow
    <3>2. \/ UNCHANGED agentEntries
          \/ agentEntries' = [agentEntries EXCEPT ![Session] = InsertedRow(r)]
          \/ agentEntries' = [agentEntries EXCEPT ![Session] =
                                    UpdatedRow(r, agentEntries[Session])]
      BY <1>3, <1>8 DEF Materialize
    <3>3. agentEntries'[Session] # Null => agentEntries'[Session].workspace = Workspace
      BY <1>1, <1>3, <3>1, <3>2 DEF ServerInv
    <3> QED BY <1>2, <1>3, <1>7, <2>1, <2>2, <3>3 DEF Holds
  <2>3. CASE ingest' = [ingest EXCEPT ![i].step = "reselect"] /\ UNCHANGED <<agentEntries, acked>>
    <3>1. /\ \A j \in Ingests : j # i => ingest'[j] = ingest[j]
          /\ SameRequest(i) /\ ingest'[i].own = r.own /\ ingest'[i].todo = r.todo
          /\ ingest'[i].step = "reselect"
      BY <1>1, <2>3 DEF SameRequest, IngestState
    <3> QED BY <1>2, <1>3, <2>1, <2>3, <3>1 DEF Holds, ServerInv
  <2> QED BY <1>8, <2>2, <2>3 DEF Materialize
<1>9. CASE Reselect(i)
  <2>1. agentEntries[Session] # Null
    BY <1>2, <1>3, <1>9 DEF Reselect, Counting, HandlerCounts, WorksOn
  <2>2. Acknowledge(i) /\ r.step = "reselect" /\ UNCHANGED <<eventSession, agentEntries>>
    BY <1>3, <1>9, <2>1 DEF Reselect
  <2> QED BY <1>2, <1>3, <1>7, <2>2 DEF Holds, ServerInv
<1> QED BY <1>5, <1>6, <1>8, <1>9, <1>10 DEF IngestStep

(***************************************************************************)
(* The hooks reach the tables through the event path only.                 *)
(***************************************************************************)
LEMMA HooksDriveEvents == HookTypes /\ [SyncNext]_syncVars => [EventNext]_vars
<1> SUFFICES ASSUME HookTypes, [SyncNext]_syncVars PROVE EventNext \/ UNCHANGED vars
  OBVIOUS
<1> USE LinkAssumption
<1>1. \A i \in Ingests : Posts(i) => EventNext
  BY DEF Posts, HookTypes, EventNext
<1>2. ASSUME NEW i \in Ingests, Serve(i) \/ HandlerDies(i) PROVE EventNext
  BY <1>2 DEF Serve, HandlerDies, EventNext
<1>3. CASE CloseSession
  BY <1>3 DEF CloseSession, EventNext
<1>4. CASE Reconcile
  BY <1>1, <1>4 DEF Reconcile, PostsNothing
<1>5. ASSUME NEW i \in Ingests, Stop(i) \/ WorkerPosts(i) \/ GiveUp(i)
      PROVE  EventNext \/ UNCHANGED vars
  BY <1>1, <1>5 DEF Stop, WorkerPosts, PostsNothing, GiveUp
<1>6. ASSUME \/ \E e \in Messages : AppendMessage(e)
             \/ SessionEnd \/ Resume \/ HealthChanges \/ UNCHANGED syncVars
      PROVE  UNCHANGED vars
  BY <1>6 DEF AppendMessage, SessionEnd, Resume, HealthChanges, syncVars
<1> QED BY <1>2, <1>3, <1>4, <1>5, <1>6 DEF SyncNext

(* The tables and the handlers keep their invariant when no handler moves, *)
(* and when one is started.                                                *)
Settled == ServerInv' /\ acked' = acked

LEMMA QuietStep ==
    ASSUME ServerInv, UNCHANGED vars
    PROVE  Settled /\ ingest' = ingest
<1>1. EventInv'
  BY EventInvStep DEF ServerInv
<1> QED BY <1>1 DEF ServerInv, Settled, vars

LEMMA PostStep ==
    ASSUME HookTypes, ServerInv, NEW i \in Ingests, Posts(i)
    PROVE  /\ Settled
           /\ ingest[i].step = "idle"
           /\ \A j \in Ingests : j # i => ingest'[j] = ingest[j]
           /\ ingest'[i] = [IdleIngest EXCEPT !.step = "insert", !.session = Session,
                                              !.workspace = Workspace, !.todo = transcript]
<1>1. PostEvents(i, Session, Workspace, transcript)
  BY DEF Posts
<1>2. EventInv'
  BY <1>1, LinkAssumption, EventInvStep DEF ServerInv, EventNext, HookTypes
<1>3. ingest \in [Ingests -> IngestState]
  BY DEF ServerInv, EventInv, RollupInv, TypeInv, TypeOK
<1> QED BY <1>1, <1>2, <1>3 DEF ServerInv, PostEvents, Settled, historyVars

(* The row of an answered transcript exists, in the session's workspace.   *)
LEMMA AnsweredHasEntry ==
    ASSUME ServerInv, Answered, transcript # {}
    PROVE  HasEntry
<1>1. Session \in Undisturbed /\ Counting(Session)
  BY LinkAssumption DEF ServerInv, EventInv, RollupInv, CountingInv, Undisturbed
<1>2. transcript \subseteq Basis(Session)
  BY <1>1 DEF Answered, Counting
<1>3. agentEntries[Session] # Null
  BY <1>2 DEF Basis
<1> QED BY <1>3 DEF ServerInv, HasEntry

(***************************************************************************)
(* Each action keeps the invariant.                                        *)
(***************************************************************************)
LEMMA SessionActions ==
    ASSUME HookInv,
           \/ \E e \in Messages : AppendMessage(e)
           \/ SessionEnd \/ Resume \/ HealthChanges \/ UNCHANGED syncVars
           \/ \E i \in Ingests : Stop(i)
    PROVE  HookInv'
<1> USE DEF HookInv, HookTypes, SlotInv, Holds, Answered, Accepted, ClosingFactsArrive,
        Phases, WorkerStates
<1>1. UNCHANGED vars
  BY DEF AppendMessage, SessionEnd, Resume, HealthChanges, Stop, syncVars
<1>2. ServerInv' /\ acked' = acked /\ ingest' = ingest
  BY <1>1, QuietStep DEF Settled
<1>3. ASSUME NEW e \in Messages, AppendMessage(e) PROVE HookInv'
  BY <1>2, <1>3 DEF AppendMessage
<1>4. CASE SessionEnd
  BY <1>2, <1>4 DEF SessionEnd
<1>5. CASE Resume
  BY <1>2, <1>5 DEF Resume
<1>6. CASE HealthChanges
  BY <1>2, <1>6 DEF HealthChanges
<1>7. ASSUME NEW i \in Ingests, Stop(i) PROVE HookInv'
  <2>1. \A j \in Ingests : worker'[j] = "hook" => worker[j] = "hook"
    BY <1>7 DEF Stop
  <2>2. worker' \in [Ingests -> WorkerStates]
    BY <1>7 DEF Stop
  <2> QED BY <1>2, <1>7, <2>1, <2>2 DEF Stop
<1>8. CASE UNCHANGED syncVars
  BY <1>2, <1>8 DEF syncVars, hookVars
<1> QED BY <1>3, <1>4, <1>5, <1>6, <1>7, <1>8

LEMMA PostActions ==
    ASSUME HookInv, Reconcile \/ \E i \in Ingests : WorkerPosts(i)
    PROVE  HookInv'
<1> USE DEF HookInv, HookTypes, SlotInv, Holds, Answered, Accepted, ClosingFactsArrive,
        Phases, WorkerStates
<1>1. ASSUME PostsNothing PROVE ServerInv' /\ acked' = acked /\ ingest' = ingest
  BY <1>1, QuietStep DEF PostsNothing, Settled
<1>2. ASSUME NEW i \in Ingests, Posts(i)
      PROVE  /\ ServerInv' /\ acked' = acked /\ ingest[i].step = "idle"
             /\ \A j \in Ingests : j # i => ingest'[j] = ingest[j]
             /\ ingest'[i].step = "insert"
             /\ ingest'[i].session = Session /\ ingest'[i].workspace = Workspace
             /\ ingest'[i].own = {} /\ ingest'[i].todo = transcript
  <2>1. ingest'[i] = [IdleIngest EXCEPT !.step = "insert", !.session = Session,
                                       !.workspace = Workspace, !.todo = transcript]
    BY <1>2, PostStep
  <2>2. /\ ingest'[i].step = "insert"
        /\ ingest'[i].session = Session /\ ingest'[i].workspace = Workspace
        /\ ingest'[i].own = {} /\ ingest'[i].todo = transcript
    BY <2>1 DEF IdleIngest
  <2> QED BY <1>2, <2>2, PostStep DEF Settled
<1>3. ASSUME NEW i \in Ingests, FreeSlot(i), Posts(i), worker' = [worker EXCEPT ![i] = "hook"],
             phase = "reconcile", phase' = "await",
             UNCHANGED <<transcript, healthy, troubled, missed>>
      PROVE  HookInv'
  <2>1. worker' \in [Ingests -> WorkerStates] /\ transcript # {}
    BY <1>3 DEF Posts
  <2>2. \A j \in Ingests : worker[j] # "hook" /\ (j # i => worker'[j] # "hook")
    BY <1>3
  <2>3. \A j \in Ingests : SlotInv(j)'
    BY <1>2, <1>3, <2>1, <2>2
  <2> QED BY <1>2, <1>3, <2>1, <2>2, <2>3
<1>4. ASSUME phase = "reconcile", PostsNothing, phase' = "finalize", UNCHANGED worker,
             UNCHANGED <<transcript, healthy, troubled, missed>>
      PROVE  HookInv'
  <2>1. ~ troubled /\ Accepted(transcript) => transcript = {}
    BY <1>4 DEF PostsNothing
  <2> QED BY <1>1, <1>4, <2>1
<1>5. ASSUME NEW i \in Ingests, WorkerPosts(i) PROVE HookInv'
  <2>1. worker' \in [Ingests -> WorkerStates] /\ worker[i] # "hook"
        /\ \A j \in Ingests : worker'[j] = "hook" <=> worker[j] = "hook"
    BY <1>5 DEF WorkerPosts
  <2>2. CASE Posts(i)
    <3>1. \A j \in Ingests : SlotInv(j)'
      BY <1>2, <1>5, <2>1, <2>2 DEF WorkerPosts
    <3> QED BY <1>2, <1>5, <2>1, <2>2, <3>1 DEF WorkerPosts
  <2>3. CASE PostsNothing
    <3>1. \A j \in Ingests : SlotInv(j)'
      BY <1>1, <1>5, <2>1, <2>3 DEF WorkerPosts
    <3> QED BY <1>1, <1>5, <2>1, <2>3, <3>1 DEF WorkerPosts
  <2> QED BY <1>5, <2>2, <2>3 DEF WorkerPosts
<1> QED BY <1>3, <1>4, <1>5 DEF Reconcile

LEMMA CloseStep ==
    ASSUME HookInv, CloseSession
    PROVE  HookInv'
<1> USE DEF HookInv, HookTypes, SlotInv, Holds, Answered, Accepted, Phases, WorkerStates
<1>1. CASE missed' = TRUE /\ UNCHANGED vars /\ (~ HasEntry \/ ~ healthy)
  <2>1. ServerInv' /\ acked' = acked /\ ingest' = ingest
    BY <1>1, QuietStep DEF Settled
  <2>2. ClosingFactsArrive'
    BY <1>1, AnsweredHasEntry DEF CloseSession, ClosingFactsArrive
  <2> QED BY <1>1, <2>1, <2>2 DEF CloseSession
<1>2. CASE missed' = FALSE /\ \E end \in Ends, note \in Notes \cup {Null} :
                                    Finalize(Session, Workspace, end, note)
  <2>1. PICK end \in Ends, note \in Notes \cup {Null} : Finalize(Session, Workspace, end, note)
    BY <1>2
  <2>2. UNCHANGED <<eventSession, ingest, acked>>
        /\ agentEntries' = [agentEntries EXCEPT
                ![Session] = FinalizedRow(Session, agentEntries[Session], end, note)]
        /\ agentEntries[Session] # Null
    BY <2>1 DEF Finalize
  <2>3. agentEntries \in [Sessions -> Entry \cup {Null}] /\ agentEntries[Session] \in Entry
    BY <2>2, LinkAssumption DEF ServerInv, EventInv, RollupInv, TypeInv, TypeOK
  <2>4. FinalizedRow(Session, agentEntries[Session], end, note).workspace
            = agentEntries[Session].workspace
    BY <2>3 DEF FinalizedRow, Entry
  <2>5. EventInv'
    BY <2>1, LinkAssumption, EventInvStep DEF ServerInv, EventNext
  <2>6. ServerInv'
    BY <2>2, <2>3, <2>4, <2>5, LinkAssumption DEF ServerInv
  <2>7. ClosingFactsArrive'
    BY <1>2 DEF ClosingFactsArrive
  <2> QED BY <1>2, <2>2, <2>6, <2>7 DEF CloseSession
<1> QED BY <1>1, <1>2 DEF CloseSession

LEMMA ServeStep ==
    ASSUME HookInv, NEW i \in Ingests, Serve(i)
    PROVE  HookInv'
<1> USE DEF HookInv, HookTypes, SlotInv, Answered, Accepted, ClosingFactsArrive,
        Phases, WorkerStates
<1>1. /\ ingest[i].step # "idle"
      /\ \A j \in Ingests : j # i => ingest'[j] = ingest[j]
      /\ ingest'[i].step # "idle" =>
            ingest'[i].session = Session /\ ingest'[i].workspace = Workspace
      /\ \A e \in Messages : eventSession'[e] \in {Null, Session}
      /\ agentEntries'[Session] # Null => agentEntries'[Session].workspace = Workspace
      /\ acked[Session] \subseteq acked'[Session]
      /\ Holds(ingest[i]) /\ ingest'[i].step # "idle" =>
            /\ ingest'[i].own \cup ingest'[i].todo = transcript
            /\ ingest'[i].step # "insert" => ingest'[i].todo = {}
      /\ Holds(ingest[i]) /\ ingest'[i].step = "idle" /\ transcript # {} =>
            transcript \subseteq acked'[Session]
  BY HandlerStep DEF Serve, SameRequest
<1>2. ServerInv'
  <2>1. EventInv'
    BY EventInvStep DEF Serve, EventNext, ServerInv
  <2> QED BY <1>1, <2>1 DEF ServerInv
<1>3. UNCHANGED <<transcript, healthy, troubled, missed>>
  BY DEF Serve
<1>4. ASSUME UNCHANGED <<worker, phase>>, ingest'[i].step # "idle" \/ ~ healthy
      PROVE  HookInv'
  <2>1. SlotInv(i)'
    BY <1>1, <1>3, <1>4 DEF Holds
  <2>2. \A j \in Ingests : SlotInv(j)'
    BY <1>1, <1>3, <1>4, <2>1 DEF Holds
  <2> QED BY <1>1, <1>2, <1>3, <1>4, <2>2
<1>5. ASSUME ingest'[i].step = "idle", ClientReturns(i)
      PROVE  HookInv'
  <2>1. /\ worker' \in [Ingests -> WorkerStates]
        /\ \A j \in Ingests : worker'[j] = "hook" => worker[j] = "hook" /\ j # i
        /\ phase' = IF worker[i] = "hook" THEN "finalize" ELSE phase
    BY <1>5 DEF ClientReturns
  <2>2. \A j \in Ingests : SlotInv(j)'
    BY <1>1, <1>3, <1>5, <2>1 DEF Holds
  <2>3. worker[i] = "hook" /\ ~ troubled => Answered'
    BY <1>1, <1>3, <1>5
  <2> QED BY <1>1, <1>2, <1>3, <2>1, <2>2, <2>3
<1> QED BY <1>4, <1>5 DEF Serve

(* A client stops waiting for slot i because its handler died, or because  *)
(* it gave up: something failed, or there was nothing left to wait for.    *)
LEMMA ReturnActions ==
    ASSUME HookInv, NEW i \in Ingests, HandlerDies(i) \/ GiveUp(i)
    PROVE  HookInv'
<1> USE DEF HookInv, HookTypes, SlotInv, Answered, Accepted, ClosingFactsArrive,
        Phases, WorkerStates
<1>1. /\ worker' \in [Ingests -> WorkerStates]
      /\ \A j \in Ingests : worker'[j] = "hook" => worker[j] = "hook" /\ j # i
      /\ phase' = IF worker[i] = "hook" THEN "finalize" ELSE phase
      /\ UNCHANGED <<transcript, healthy, troubled, missed>>
  BY DEF ClientReturns, HandlerDies, GiveUp
<1>2. worker[i] = "hook" => troubled
  BY DEF HandlerDies, GiveUp, Holds
<1>3. ServerInv' /\ acked' = acked
      /\ (ingest' = ingest \/ ingest' = [ingest EXCEPT ![i] = IdleIngest])
  <2>1. CASE HandlerDies(i)
    <3>1. EventInv'
      BY <2>1, EventInvStep DEF HandlerDies, EventNext, ServerInv
    <3> QED BY <2>1, <3>1 DEF HandlerDies, Abort, ServerInv, historyVars
  <2>2. CASE GiveUp(i)
    BY <2>2, QuietStep DEF GiveUp, Settled
  <2> QED BY <2>1, <2>2
<1>4. ingest \in [Ingests -> IngestState]
  BY DEF ServerInv, EventInv, RollupInv, TypeInv, TypeOK
<1>5. /\ \A j \in Ingests : j # i => ingest'[j] = ingest[j]
      /\ ingest'[i] = ingest[i] \/ ingest'[i].step = "idle"
  BY <1>3, <1>4 DEF IdleIngest
<1>6. \A j \in Ingests : SlotInv(j)'
  BY <1>1, <1>5 DEF Holds
<1> QED BY <1>1, <1>2, <1>3, <1>6

LEMMA HookStep == HookInv /\ [SyncNext]_syncVars => HookInv'
BY SessionActions, PostActions, CloseStep, ServeStep, ReturnActions DEF SyncNext

LEMMA HookInit == SyncInit => HookInv
<1> SUFFICES ASSUME SyncInit PROVE HookInv
  OBVIOUS
<1>1. EventInv
  BY EventInvInit DEF SyncInit
<1>2. ServerInv /\ \A i \in Ingests : ingest[i].step = "idle"
  BY <1>1, LinkAssumption DEF SyncInit, Init, ServerInv, IdleIngest
<1> QED BY <1>2 DEF SyncInit, HookInv, HookTypes, SlotInv, ClosingFactsArrive, Phases, WorkerStates

LEMMA HookAlways == SyncSpec => []HookInv
BY HookInit, HookStep, PTL DEF SyncSpec, SyncSafety

(***************************************************************************)
(* The theorems.                                                           *)
(***************************************************************************)

MissedOK == missed \in BOOLEAN

LEMMA MissedType == MissedOK /\ [SyncNext]_syncVars => MissedOK'
<1> SUFFICES ASSUME MissedOK, [SyncNext]_syncVars PROVE missed' \in BOOLEAN
  BY DEF MissedOK
<1>1. ASSUME NEW i \in Ingests, Stop(i) \/ WorkerPosts(i) \/ Serve(i) \/ GiveUp(i) \/ HandlerDies(i)
      PROVE  missed' = missed
  BY <1>1 DEF Stop, WorkerPosts, Serve, GiveUp, HandlerDies
<1>2. ASSUME \/ \E e \in Messages : AppendMessage(e)
             \/ SessionEnd \/ Resume \/ HealthChanges \/ Reconcile \/ CloseSession
      PROVE  missed' \in {missed, TRUE, FALSE}
  BY <1>2 DEF AppendMessage, SessionEnd, Resume, HealthChanges, Reconcile, CloseSession
<1>3. UNCHANGED syncVars => missed' = missed
  BY DEF syncVars, hookVars
<1> QED BY <1>1, <1>2, <1>3 DEF SyncNext, MissedOK

(* The hooks' own state and the tables they drive stay of their types.     *)
THEOREM SyncTypeCorrect == SyncSpec => []SyncTypeOK
<1>1. SyncInit => MissedOK
  BY DEF SyncInit, MissedOK
<1>2. HookInv /\ MissedOK => SyncTypeOK
  BY DEF HookInv, HookTypes, ServerInv, EventInv, RollupInv, TypeInv, SyncTypeOK, MissedOK
<1> QED BY <1>1, <1>2, MissedType, HookAlways, PTL DEF SyncSpec, SyncSafety

(* With any number of workers still posting, a session that ended without  *)
(* trouble is counted to its last message.                                 *)
THEOREM ClosedAlwaysCounted == SyncSpec => []ClosedIsCounted
<1>1. HookInv => ClosedIsCounted
  <2> SUFFICES ASSUME HookInv, phase = "closed", ~ troubled, Accepted(transcript)
               PROVE  transcript \subseteq Basis(Session)
    BY DEF ClosedIsCounted
  <2>1. Answered
    BY DEF HookInv
  <2>2. Session \in Undisturbed /\ Counting(Session)
    BY LinkAssumption
    DEF HookInv, ServerInv, EventInv, RollupInv, CountingInv, Undisturbed
  <2> QED BY <2>1, <2>2 DEF Answered, Counting
<1> QED BY <1>1, HookAlways, PTL

(* The closing facts of a session with messages find its entry.            *)
THEOREM ClosingFactsAlwaysArrive == SyncSpec => []ClosingFactsArrive
<1>1. HookInv => ClosingFactsArrive
  BY DEF HookInv
<1> QED BY <1>1, HookAlways, PTL

(* The hooks only ever take the server's event path: every promise proved  *)
(* of it holds of a server driven by the plugin.                           *)
THEOREM HooksImplementEventPath == SyncSpec => EventSpec
<1>1. SyncInit => Init
  BY DEF SyncInit
<1>2. HookInv => HookTypes
  BY DEF HookInv
<1> QED BY <1>1, <1>2, HooksDriveEvents, HookAlways, PTL DEF SyncSpec, SyncSafety, EventSpec
=============================================================================
