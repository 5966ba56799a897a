--------------------------- MODULE SessionRollup ---------------------------
(***************************************************************************)
(* The telemetry of one coding agent: raw events (table agent_events), one *)
(* materialized row per session (table agent_entries), and the handlers    *)
(* that write them: POST /agent-events, POST /agent-events/finalize, POST  *)
(* /agent-entries and POST /agent-entries/delete.                          *)
(*                                                                         *)
(* D1 has no interactive transactions.  A statement, or a db.batch, is     *)
(* atomic; everything else interleaves at each await, so a handler is a    *)
(* process with one step per statement.  A message stands for one          *)
(* transcript assistant message: its sourceId, with the timestamp and the  *)
(* usage it carries.                                                       *)
(***************************************************************************)
EXTENDS Integers, FiniteSets

CONSTANTS
    Sessions,       \* external session ids of the agent
    Messages,       \* transcript message ids: agent_events.source_id
    Workspaces,
    Ingests,        \* concurrent POST /agent-events handlers
    Deletes,        \* concurrent POST /agent-entries/delete handlers
    Null,           \* SQL null
    Timestamp,      \* [Messages -> Nat], in ms
    MaxTimestamp,   \* isTimestampInRange bounds every accepted timestamp
    TotalTokens,    \* summed token buckets of a set of events
    GapMs,          \* eventGapActiveMs of a set of events
    Chunk,          \* EVENT_INSERT_CHUNK
    Ends,           \* wall-clock ends a finalize may carry
    Notes,          \* the client-owned facts of a finalize: description, refs
    Summaries       \* payloads of the summary path

(* Timestamps lie in the range isTimestampInRange accepts.                 *)
ASSUME TimestampAssumption ==
    /\ MaxTimestamp \in Nat
    /\ Timestamp \in [Messages -> 0 .. MaxTimestamp]

(* Token buckets are counts: more events never sum to fewer tokens.        *)
ASSUME UsageAssumption ==
    /\ TotalTokens \in [SUBSET Messages -> Nat]
    /\ \A S, T \in SUBSET Messages : S \subseteq T => TotalTokens[S] <= TotalTokens[T]
    /\ GapMs \in [SUBSET Messages -> Nat]

ASSUME InputAssumption ==
    /\ IsFiniteSet(Messages)
    /\ Chunk \in Nat \ {0}
    /\ Ends \subseteq Nat
    /\ Summaries \subseteq [startedAt : Nat, endedAt : Nat \cup {Null},
                            duration : Nat, tokens : Nat \cup {Null},
                            note : Notes \cup {Null}]

ASSUME NullAssumption ==
    /\ Null \notin Sessions \cup Workspaces \cup Notes
    /\ Null \notin Int

VARIABLES
    live,           \* workspaces that exist
    eventSession,   \* agent_events: the session a stored message belongs to
    eventWorkspace, \* agent_events: the workspace it was ingested into
    agentEntries,   \* agent_entries: the row of a session, or Null
    ingest,         \* in-flight POST /agent-events handlers
    purge,          \* in-flight POST /agent-entries/delete handlers
    \* History variables: they record what happened and guard nothing.
    acked,          \* messages a 200 response has promised to the client
    finalEnd,       \* latest wall-clock end accepted for a session
    disturbed,      \* sessions whose event history was not append-only
    erased          \* messages a delete request removed, not posted again

implVars == <<live, eventSession, eventWorkspace, agentEntries, ingest, purge>>
historyVars == <<acked, finalEnd, disturbed, erased>>
vars == <<live, eventSession, eventWorkspace, agentEntries, ingest, purge,
          acked, finalEnd, disturbed, erased>>

(***************************************************************************)
(* Rows and handlers.  basis is the set of events usage and context were   *)
(* summed from; count and tokens are the two columns the guard reads.      *)
(***************************************************************************)
Entry == [workspace : Workspaces, basis : SUBSET Messages,
          count : Nat \cup {Null}, tokens : Nat \cup {Null},
          active : Nat \cup {Null}, duration : Nat,
          startedAt : Nat, endedAt : Nat \cup {Null}, note : Notes \cup {Null}]

(* A row is never the absence of one.                                      *)
ASSUME EntryAssumption == Null \notin Entry

IngestSteps == {"idle", "insert", "aggregate", "gaps", "materialize", "reselect"}
IngestState == [step : IngestSteps, session : Sessions \cup {Null},
                workspace : Workspaces \cup {Null}, todo : SUBSET Messages,
                own : SUBSET Messages, basis : SUBSET Messages, active : Nat]

PurgeState == [step : {"idle", "keys", "batch"}, workspace : Workspaces \cup {Null},
               targets : SUBSET Sessions, keys : SUBSET Sessions]

IdleIngest == [step |-> "idle", session |-> Null, workspace |-> Null,
               todo |-> {}, own |-> {}, basis |-> {}, active |-> 0]
IdlePurge == [step |-> "idle", workspace |-> Null, targets |-> {}, keys |-> {}]

TypeOK ==
    /\ live \subseteq Workspaces
    /\ eventSession \in [Messages -> Sessions \cup {Null}]
    /\ eventWorkspace \in [Messages -> Workspaces \cup {Null}]
    /\ agentEntries \in [Sessions -> Entry \cup {Null}]
    /\ ingest \in [Ingests -> IngestState]
    /\ purge \in [Deletes -> PurgeState]
    /\ acked \in [Sessions -> SUBSET Messages]
    /\ finalEnd \in [Sessions -> Nat]
    /\ disturbed \subseteq Sessions
    /\ erased \subseteq Messages

(***************************************************************************)
(* Aggregates over a session's events.                                     *)
(***************************************************************************)
AGENT_ACTIVE_IDLE_GAP_MS == 15 * 60000

Larger(a, b) == IF a >= b THEN a ELSE b
Coalesce(x, default) == IF x = Null THEN default ELSE x

Stored(s) == {e \in Messages : eventSession[e] = s}
Basis(s) == IF agentEntries[s] = Null THEN {} ELSE agentEntries[s].basis
Times(S) == {Timestamp[e] : e \in S}
MinTs(S) == CHOOSE t \in Times(S) : \A u \in Times(S) : t <= u
MaxTs(S) == CHOOSE t \in Times(S) : \A u \in Times(S) : t >= u

(* Math.round and SQLite round() of a duration in ms to whole minutes.     *)
RoundMinutes(ms) == (ms + 30000) \div 60000

(* The stretch from the last event to a finalized end, if within the cutoff. *)
TailMs(S, end, startedAt) ==
    LET tail == end - (IF S = {} THEN startedAt ELSE MaxTs(S))
    IN  IF tail \in 1 .. AGENT_ACTIVE_IDLE_GAP_MS THEN tail ELSE 0

ActiveMinutes(S, end, startedAt) == RoundMinutes(GapMs[S] + TailMs(S, end, startedAt))

InFlight(s) == \E i \in Ingests : ingest[i].step # "idle" /\ ingest[i].session = s

(***************************************************************************)
(* Init and the ingest handler.                                            *)
(***************************************************************************)
Init ==
    /\ live = Workspaces
    /\ eventSession = [e \in Messages |-> Null]
    /\ eventWorkspace = [e \in Messages |-> Null]
    /\ agentEntries = [s \in Sessions |-> Null]
    /\ ingest = [i \in Ingests |-> IdleIngest]
    /\ purge = [d \in Deletes |-> IdlePurge]
    /\ acked = [s \in Sessions |-> {}]
    /\ finalEnd = [s \in Sessions |-> 0]
    /\ disturbed = {}
    /\ erased = {}

(* A request past requireAgentIngestWorkspace and the project checks; one  *)
(* they refuse changes nothing.                                            *)
PostEvents(i, s, w, batch) ==
    /\ ingest[i].step = "idle"
    /\ w \in live
    /\ batch # {}
    /\ ingest' = [ingest EXCEPT ![i] =
            [IdleIngest EXCEPT !.step = "insert", !.session = s,
                               !.workspace = w, !.todo = batch]]
    /\ UNCHANGED <<live, eventSession, eventWorkspace, agentEntries, purge, historyVars>>

(* Mutant: ON CONFLICT DO UPDATE, which moves a message to the last session *)
(* that posted it.                                                         *)
InsertedOrMoved(chunk) == chunk

(* Rows the statement really inserts: a source id the agent already stored,*)
(* in this session or another, is left alone (ON CONFLICT DO NOTHING).     *)
Inserted(chunk) == {e \in chunk : eventSession[e] = Null}

(* One statement of insertAgentEventsIgnoreConflicts.  The batch comes in  *)
(* any order, so the next chunk is any Chunk messages still to do.  The    *)
(* foreign key fails once the workspace is gone.                           *)
InsertChunk(i) ==
    LET r == ingest[i] IN
    /\ r.step = "insert"
    /\ r.workspace \in live
    /\ \E chunk \in SUBSET r.todo :
        /\ \/ Cardinality(chunk) = Chunk
           \/ Cardinality(chunk) < Chunk /\ chunk = r.todo
        /\ eventSession' = [e \in Messages |->
                IF e \in Inserted(chunk) THEN r.session ELSE eventSession[e]]
        /\ eventWorkspace' = [e \in Messages |->
                IF e \in Inserted(chunk) THEN r.workspace ELSE eventWorkspace[e]]
        /\ ingest' = [ingest EXCEPT ![i] = [r EXCEPT
                !.todo = @ \ chunk,
                !.own = @ \cup {e \in chunk : eventSession'[e] = r.session},
                !.step = IF chunk = r.todo THEN "aggregate" ELSE "insert"]]
        /\ erased' = erased \ chunk
    /\ UNCHANGED <<live, agentEntries, purge, acked, finalEnd, disturbed>>

(* computeSessionRollup, first statement: sums, bounds and count.  Without *)
(* an event the handler answers 400.                                       *)
ReadAggregates(i) ==
    LET r == ingest[i] IN
    /\ r.step = "aggregate"
    /\ ingest' = [ingest EXCEPT ![i] =
            IF Stored(r.session) = {} THEN IdleIngest
            ELSE [r EXCEPT !.step = "gaps", !.basis = Stored(r.session)]]
    /\ UNCHANGED <<live, eventSession, eventWorkspace, agentEntries, purge, historyVars>>

(* computeSessionRollup, second statement: the gap sum, read after the     *)
(* aggregates and so possibly over more events.  The facets follow it.     *)
ReadGaps(i) ==
    LET r == ingest[i] IN
    /\ r.step = "gaps"
    /\ ingest' = [ingest EXCEPT
            ![i].step = "materialize",
            ![i].active = RoundMinutes(GapMs[Stored(r.session)])]
    /\ UNCHANGED <<live, eventSession, eventWorkspace, agentEntries, purge, historyVars>>

(* Mutants of the guard: the token sum alone, as for rows written before   *)
(* the count existed; and no guard at all.                                 *)
SupersedesByTokens(basis, row) ==
    row.tokens # Null => TotalTokens[basis] >= row.tokens
SupersedesAlways(basis, row) == TRUE

(* setWhere of materializeAgentSessionRollup: may this recompute overwrite *)
(* the row?                                                                *)
Supersedes(basis, row) ==
    row.tokens # Null =>
        /\ Cardinality(basis) >= Coalesce(row.count, 0)
        /\ TotalTokens[basis] >= row.tokens

(* The row an ingest inserts: the values as the handler computed them.     *)
InsertedRow(r) ==
    [workspace |-> r.workspace, basis |-> r.basis,
     count |-> Cardinality(r.basis), tokens |-> TotalTokens[r.basis],
     active |-> r.active,
     duration |-> RoundMinutes(MaxTs(r.basis) - MinTs(r.basis)),
     startedAt |-> MinTs(r.basis), endedAt |-> MaxTs(r.basis), note |-> Null]

(* Mutants of the update: the stored duration or active time kept as a     *)
(* maximum, instead of derived again.                                      *)
UpdatedRowMaxDuration(r, row) ==
    LET end == Larger(MaxTs(r.basis), Coalesce(row.endedAt, 0)) IN
    [InsertedRow(r) EXCEPT
        !.active = ActiveMinutes(Stored(r.session), end, row.startedAt),
        !.duration = Larger(@, row.duration), !.endedAt = end, !.note = row.note]
UpdatedRowMaxActive(r, row) ==
    LET end == Larger(MaxTs(r.basis), Coalesce(row.endedAt, 0)) IN
    [InsertedRow(r) EXCEPT
        !.active = Larger(@, Coalesce(row.active, 0)),
        !.duration = RoundMinutes(end - MinTs(r.basis)), !.endedAt = end, !.note = row.note]

(* The row an ingest updates: the end only grows, the duration follows the *)
(* new bounds, active time is derived again from the current events.       *)
UpdatedRow(r, row) ==
    LET end == Larger(MaxTs(r.basis), Coalesce(row.endedAt, 0)) IN
    [InsertedRow(r) EXCEPT
        !.active = ActiveMinutes(Stored(r.session), end, row.startedAt),
        !.duration = RoundMinutes(end - MinTs(r.basis)), !.endedAt = end, !.note = row.note]

(* A 200 response: the client may now forget these messages.               *)
Acknowledge(i) ==
    /\ ingest' = [ingest EXCEPT ![i] = IdleIngest]
    /\ acked' = [acked EXCEPT ![ingest[i].session] = @ \cup ingest[i].own]

(* materializeAgentSessionRollup.  A skipped update returns no row, and    *)
(* the handler reads the current one in a statement of its own.            *)
Materialize(i) ==
    LET r == ingest[i]
        row == agentEntries[r.session] IN
    /\ r.step = "materialize"
    /\ \/ /\ row = Null
          /\ r.workspace \in live
          /\ agentEntries' = [agentEntries EXCEPT ![r.session] = InsertedRow(r)]
          /\ Acknowledge(i)
       \/ /\ row # Null /\ Supersedes(r.basis, row)
          /\ r.workspace \in live
          /\ agentEntries' = [agentEntries EXCEPT ![r.session] = UpdatedRow(r, row)]
          /\ Acknowledge(i)
       \/ /\ row # Null /\ ~ Supersedes(r.basis, row)
          /\ ingest' = [ingest EXCEPT ![i].step = "reselect"]
          /\ UNCHANGED <<agentEntries, acked>>
    /\ UNCHANGED <<live, eventSession, eventWorkspace, purge, finalEnd,
                   disturbed, erased>>

(* The row the guard kept is returned; if it is gone by now, the handler   *)
(* throws.                                                                 *)
Reselect(i) ==
    /\ ingest[i].step = "reselect"
    /\ IF agentEntries[ingest[i].session] # Null
       THEN Acknowledge(i)
       ELSE ingest' = [ingest EXCEPT ![i] = IdleIngest] /\ UNCHANGED acked
    /\ UNCHANGED <<live, eventSession, eventWorkspace, agentEntries, purge,
                   finalEnd, disturbed, erased>>

(* The worker dies, or a statement fails, between two steps.               *)
Abort(i) ==
    /\ ingest[i].step # "idle"
    /\ ingest' = [ingest EXCEPT ![i] = IdleIngest]
    /\ UNCHANGED <<live, eventSession, eventWorkspace, agentEntries, purge, historyVars>>

(***************************************************************************)
(* POST /agent-events/finalize: one UPDATE, scoped by workspace.           *)
(***************************************************************************)

(* Mutant: the client's end is believed as soon as it follows the start.   *)
ClampedToStart(end, row) == Larger(end, row.startedAt)

(* A finalized end never precedes the stored end or the start.             *)
ClampedEnd(end, row) == Larger(end, Larger(Coalesce(row.endedAt, 0), row.startedAt))

FinalizedRow(s, row, end, note) ==
    LET closed == ClampedEnd(end, row)
        noted == [row EXCEPT !.note = IF note = Null THEN @ ELSE note] IN
    IF end = Null THEN noted
    ELSE [noted EXCEPT
            !.endedAt = closed,
            !.duration = Larger(@, RoundMinutes(closed - row.startedAt)),
            !.active = IF row.count = Null THEN @
                       ELSE ActiveMinutes(Stored(s), closed, row.startedAt)]

Finalize(s, w, end, note) ==
    LET row == agentEntries[s] IN
    /\ w \in live
    /\ row # Null
    /\ row.workspace = w
    /\ agentEntries' = [agentEntries EXCEPT ![s] = FinalizedRow(s, row, end, note)]
    /\ finalEnd' = [finalEnd EXCEPT ![s] =
            IF end = Null THEN @ ELSE Larger(@, Larger(end, row.startedAt))]
    /\ UNCHANGED <<live, eventSession, eventWorkspace, ingest, purge, acked,
                   disturbed, erased>>

(***************************************************************************)
(* POST /agent-entries, the summary path: upsertAgentEntry replaces the    *)
(* row and clears what was derived from events.                            *)
(***************************************************************************)
UpsertSummary(s, w, input) ==
    /\ w \in live
    /\ agentEntries' = [agentEntries EXCEPT ![s] =
            [workspace |-> w, basis |-> {}, count |-> Null, tokens |-> input.tokens,
             active |-> Null, duration |-> input.duration,
             startedAt |-> input.startedAt, endedAt |-> input.endedAt,
             note |-> input.note]]
    /\ acked' = [acked EXCEPT ![s] = {}]
    /\ finalEnd' = [finalEnd EXCEPT ![s] = Coalesce(input.endedAt, 0)]
    /\ disturbed' = disturbed \cup {s}
    /\ UNCHANGED <<live, eventSession, eventWorkspace, ingest, purge, erased>>

(***************************************************************************)
(* Removals.  rows are the sessions whose row goes, gone the messages      *)
(* whose event goes, late the rows whose events nobody selected.  The      *)
(* removal disturbs those, the sessions an ingest is in flight for, and    *)
(* those whose row outlives some of their events.  A pre-checked entry id  *)
(* dies with its row: it leaves the targets of other deletes.              *)
(***************************************************************************)
Touches(s, rows, gone) == s \in rows \/ \E e \in gone : eventSession[e] = s
Outlives(s, rows) == s \notin rows /\ agentEntries[s] # Null

Remove(rows, gone, late) ==
    /\ agentEntries' = [s \in Sessions |-> IF s \in rows THEN Null ELSE agentEntries[s]]
    /\ eventSession' = [e \in Messages |-> IF e \in gone THEN Null ELSE eventSession[e]]
    /\ eventWorkspace' = [e \in Messages |-> IF e \in gone THEN Null ELSE eventWorkspace[e]]
    /\ acked' = [s \in Sessions |-> IF s \in rows THEN {} ELSE acked[s]]
    /\ finalEnd' = [s \in Sessions |-> IF s \in rows THEN 0 ELSE finalEnd[s]]
    /\ disturbed' = disturbed \cup late \cup
            {s \in Sessions : /\ Touches(s, rows, gone)
                              /\ InFlight(s) \/ Outlives(s, rows)}

WithoutTargets(p, rows) == [p EXCEPT !.targets = @ \ rows]

(* POST /agent-entries/delete: all ids must be the caller's rows of this   *)
(* workspace, or nothing is deleted.                                       *)
RequestDelete(d, w, targets) ==
    /\ purge[d].step = "idle"
    /\ w \in live
    /\ targets # {}
    /\ \A s \in targets : agentEntries[s] # Null /\ agentEntries[s].workspace = w
    /\ purge' = [purge EXCEPT ![d] =
            [step |-> "keys", workspace |-> w, targets |-> targets, keys |-> {}]]
    /\ UNCHANGED <<live, eventSession, eventWorkspace, agentEntries, ingest, historyVars>>

(* The rows a scoped delete statement matches now.                         *)
InScope(p) == {s \in p.targets : agentEntries[s] # Null /\ agentEntries[s].workspace = p.workspace}

(* deleteAgentEntries, first statement: the natural keys of the rows still *)
(* in scope; without one it returns 0.                                     *)
SelectDeleteKeys(d) ==
    LET keys == InScope(purge[d]) IN
    /\ purge[d].step = "keys"
    /\ purge' = [purge EXCEPT ![d] =
            IF keys = {} THEN IdlePurge ELSE [@ EXCEPT !.step = "batch", !.keys = keys]]
    /\ UNCHANGED <<live, eventSession, eventWorkspace, agentEntries, ingest, historyVars>>

(* Mutant: the event delete filtered by workspace like the row delete.     *)
DeleteBatchOfWorkspace(d) ==
    LET p == purge[d]
        rows == InScope(p)
        gone == {e \in Messages : eventSession[e] \in p.keys /\ eventWorkspace[e] = p.workspace} IN
    /\ p.step = "batch"
    /\ Remove(rows, gone, rows \ p.keys)
    /\ erased' = erased \cup {e \in Messages : eventSession[e] \in rows}
    /\ purge' = [[x \in Deletes |-> WithoutTargets(purge[x], rows)] EXCEPT ![d] = IdlePurge]
    /\ UNCHANGED <<live, ingest>>

(* deleteAgentEntries, the batch: the rows in scope, and the events of     *)
(* every selected key whatever their workspace.                            *)
DeleteBatch(d) ==
    LET p == purge[d]
        rows == InScope(p)
        gone == {e \in Messages : eventSession[e] \in p.keys} IN
    /\ p.step = "batch"
    /\ Remove(rows, gone, rows \ p.keys)
    /\ erased' = erased \cup {e \in Messages : eventSession[e] \in rows}
    /\ purge' = [[x \in Deletes |-> WithoutTargets(purge[x], rows)] EXCEPT ![d] = IdlePurge]
    /\ UNCHANGED <<live, ingest>>

(* A workspace is deleted: its rows and its events cascade away, which     *)
(* need not be the same sessions.                                          *)
DropWorkspace(w) ==
    LET rows == {s \in Sessions : agentEntries[s] # Null /\ agentEntries[s].workspace = w}
        gone == {e \in Messages : eventWorkspace[e] = w} IN
    /\ w \in live
    /\ live' = live \ {w}
    /\ Remove(rows, gone, {})
    /\ purge' = [d \in Deletes |-> WithoutTargets(purge[d], rows)]
    /\ UNCHANGED <<ingest, erased>>

(***************************************************************************)
(* Specifications.  EventNext is the path Claude Code sessions take;       *)
(* DeleteNext adds deletions, MixedNext the summary path, Next everything. *)
(***************************************************************************)
IngestStep(i) ==
    InsertChunk(i) \/ ReadAggregates(i) \/ ReadGaps(i) \/ Materialize(i) \/ Reselect(i)

EventNext ==
    \/ \E i \in Ingests :
        \/ \E s \in Sessions, w \in Workspaces, batch \in SUBSET Messages :
                PostEvents(i, s, w, batch)
        \/ IngestStep(i)
        \/ Abort(i)
    \/ \E s \in Sessions, w \in Workspaces, end \in Ends \cup {Null},
          note \in Notes \cup {Null} : Finalize(s, w, end, note)

DeleteStep ==
    \E d \in Deletes :
        \/ \E w \in Workspaces, targets \in SUBSET Sessions : RequestDelete(d, w, targets)
        \/ SelectDeleteKeys(d)
        \/ DeleteBatch(d)

SummaryStep ==
    \E s \in Sessions, w \in Workspaces, input \in Summaries : UpsertSummary(s, w, input)

Next ==
    \/ EventNext
    \/ DeleteStep
    \/ SummaryStep
    \/ \E w \in Workspaces : DropWorkspace(w)

Spec == Init /\ [][Next]_vars
EventSpec == Init /\ [][EventNext]_vars
DeleteSpec == Init /\ [][EventNext \/ DeleteStep]_vars
MixedSpec == Init /\ [][EventNext \/ SummaryStep]_vars

(***************************************************************************)
(* Properties.                                                             *)
(***************************************************************************)
Undisturbed == Sessions \ disturbed

(* A 200 answer is kept: whatever order the handlers ran in, and however   *)
(* many died, the row counts every message an answered ingest inserted.    *)
AckedCounted == \A s \in Undisturbed : acked[s] \subseteq Basis(s)

(* A row is a function of facts, not of the order they arrived in: its     *)
(* bounds come from the counted events and the latest finalized end, and   *)
(* its duration from its bounds, whether the finalize ran before, between  *)
(* or after racing ingests.                                                *)
RowIsFunctionOfFacts ==
    \A s \in Undisturbed :
        LET row == agentEntries[s] IN
        row # Null =>
            /\ row.startedAt = MinTs(row.basis)
            /\ row.endedAt = Larger(MaxTs(row.basis), finalEnd[s])
            /\ row.duration = RoundMinutes(row.endedAt - row.startedAt)

(* Once the row counts every stored event, its active time is the one sum  *)
(* over those events and the finalize tail, rounded once, although gaps,   *)
(* bounds and rows were read by different statements.                      *)
FreshRowIsExact ==
    \A s \in Undisturbed :
        LET row == agentEntries[s] IN
        row # Null /\ row.basis = Stored(s) =>
            row.active = ActiveMinutes(row.basis, row.endedAt, row.startedAt)

(* A transcript message is summed into at most one session, even when a    *)
(* resumed session posts the messages of the one it was forked from.       *)
MessageCountedOnce ==
    \A s, t \in Undisturbed : s # t => Basis(s) \cap Basis(t) = {}

(* Removal forgets: unless an ingest was in flight or the row outlived its *)
(* events, no row counts an event that is no longer stored, and what a     *)
(* delete removed is counted again only after a client posts it again.     *)
RemovalForgets ==
    \A s \in Undisturbed : Basis(s) \subseteq Stored(s) /\ Basis(s) \cap erased = {}

(* A stale recompute never wins: while a row lives, its event set grows,   *)
(* its start moves only earlier, its end and duration only later.          *)
StaleRecomputeNeverWins ==
    [][\A s \in Sessions \ disturbed' :
        LET row == agentEntries[s]
            new == agentEntries'[s] IN
        row # Null /\ new # Null =>
            /\ row.basis \subseteq new.basis
            /\ new.startedAt <= row.startedAt
            /\ row.endedAt <= new.endedAt
            /\ row.duration <= new.duration]_vars

(* The promises of SessionLedger hold of the tables on the event path.     *)
Ledger == INSTANCE SessionLedger WITH
    recorded <- [s \in Sessions |-> Stored(s)],
    reported <- [s \in Sessions |-> Basis(s)],
    promised <- acked
LedgerSpec == Ledger!Spec

(* What the comments of the code say without exceptions (runs that expect  *)
(* a violation).  agents.ts:428: events go with the row, so a deleted      *)
(* session is not resurrected from its history.                            *)
DeletedHistoryStaysGone == \A s \in Sessions : Basis(s) \cap erased = {}

(* agents.ts:334: after a summary took the row, a later events ingest      *)
(* recomputes what the summary cleared.                                    *)
IngestRetakesRow ==
    \A s \in Sessions : acked[s] # {} => agentEntries[s].count # Null
============================================================================
