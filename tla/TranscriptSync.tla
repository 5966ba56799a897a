-------------------------- MODULE TranscriptSync --------------------------
(***************************************************************************)
(* The Claude Code plugin's hooks, feeding one session to SessionRollup.   *)
(* Each turn appends messages to the transcript and fires the Stop hook,   *)
(* which detaches a worker that later posts the whole transcript.          *)
(* SessionEnd posts it once more, waits for the answer, then finalizes.    *)
(* Every request is made once, with a timeout, and no failure is retried.  *)
(***************************************************************************)
EXTENDS SessionRollup

CONSTANTS
    Session,      \* the session the hooks run for
    Workspace,    \* the workspace its repository is linked to
    MaxEvents     \* events an ingest payload may hold

ASSUME LinkAssumption == Session \in Sessions /\ Workspace \in Workspaces

VARIABLES
    transcript,   \* messages in the transcript file
    phase,        \* of the session: "open", then the steps of SessionEnd
    worker,       \* who waits for which request: one slot per handler
    healthy,      \* no process is killed, no request lost, no answer late
    \* History variables.
    troubled,     \* healthy was false at some time since SessionEnd fired
    missed        \* the last SessionEnd finalized nothing

hookVars == <<transcript, phase, worker, healthy, troubled, missed>>
syncVars == <<vars, hookVars>>

Phases == {"open", "reconcile", "await", "finalize", "closed"}
WorkerStates == {"none", "detached", "waiting", "hook"}

SyncTypeOK ==
    /\ TypeOK
    /\ transcript \subseteq Messages
    /\ phase \in Phases
    /\ worker \in [Ingests -> WorkerStates]
    /\ healthy \in BOOLEAN /\ troubled \in BOOLEAN /\ missed \in BOOLEAN

SyncInit ==
    /\ Init
    /\ transcript = {}
    /\ phase = "open"
    /\ worker = [i \in Ingests |-> "none"]
    /\ healthy = TRUE
    /\ troubled = FALSE
    /\ missed = FALSE

(***************************************************************************)
(* The session: messages, the end of a turn, the end, a resume.            *)
(***************************************************************************)
AppendMessage(e) ==
    /\ phase = "open"
    /\ e \notin transcript
    /\ transcript' = transcript \cup {e}
    /\ UNCHANGED <<vars, phase, worker, healthy, troubled, missed>>

FreeSlot(i) == worker[i] = "none" /\ ingest[i].step = "idle"

(* The Stop hook returns as soon as its worker is detached.                *)
Stop(i) ==
    /\ phase = "open"
    /\ FreeSlot(i)
    /\ worker' = [worker EXCEPT ![i] = "detached"]
    /\ UNCHANGED <<vars, transcript, phase, healthy, troubled, missed>>

SessionEnd ==
    /\ phase = "open"
    /\ phase' = "reconcile"
    /\ troubled' = ~healthy
    /\ missed' = FALSE
    /\ UNCHANGED <<vars, transcript, worker, healthy>>

(* The session is resumed under its id.                                    *)
Resume ==
    /\ phase = "closed"
    /\ phase' = "open"
    /\ UNCHANGED <<vars, transcript, worker, healthy, troubled, missed>>

(***************************************************************************)
(* Posting the transcript.                                                 *)
(***************************************************************************)

(* Mutant: the limit is one too low.                                       *)
AcceptedBelowLimit(payload) == Cardinality(payload) < MaxEvents

(* The server validates the whole payload before it stores anything.       *)
Accepted(payload) == Cardinality(payload) <= MaxEvents

(* The hook reads the transcript when it gets to run.  Nothing is posted   *)
(* before the first message; a refused or lost post is not repeated.       *)
Posts(i) ==
    /\ transcript # {}
    /\ Accepted(transcript)
    /\ PostEvents(i, Session, Workspace, transcript)
PostsNothing ==
    /\ transcript = {} \/ ~ Accepted(transcript) \/ ~ healthy
    /\ UNCHANGED vars

WorkerPosts(i) ==
    /\ worker[i] = "detached"
    /\ \/ Posts(i) /\ worker' = [worker EXCEPT ![i] = "waiting"]
       \/ PostsNothing /\ worker' = [worker EXCEPT ![i] = "none"]
    /\ UNCHANGED <<transcript, phase, healthy, troubled, missed>>

(* Mutant: the reconcile is detached like a Stop.                          *)
ReconcileDetached ==
    /\ phase = "reconcile"
    /\ phase' = "finalize"
    /\ \/ \E i \in Ingests :
            FreeSlot(i) /\ Posts(i) /\ worker' = [worker EXCEPT ![i] = "waiting"]
       \/ PostsNothing /\ UNCHANGED worker
    /\ UNCHANGED <<transcript, healthy, troubled, missed>>

(* SessionEnd, step 1: the Stop hook again, with --sync.                   *)
Reconcile ==
    /\ phase = "reconcile"
    /\ \/ \E i \in Ingests :
            /\ FreeSlot(i)
            /\ Posts(i)
            /\ worker' = [worker EXCEPT ![i] = "hook"]
            /\ phase' = "await"
       \/ PostsNothing /\ phase' = "finalize" /\ UNCHANGED worker
    /\ UNCHANGED <<transcript, healthy, troubled, missed>>

(* The request in slot i is over for its client, whatever the answer.      *)
ClientReturns(i) ==
    /\ worker' = [worker EXCEPT ![i] = "none"]
    /\ phase' = IF worker[i] = "hook" THEN "finalize" ELSE phase

(* The server runs one statement of the handler in slot i; with the last   *)
(* the answer reaches the client, or is lost.                              *)
Serve(i) ==
    /\ IngestStep(i)
    /\ \/ ingest'[i].step = "idle" /\ ClientReturns(i)
       \/ ingest'[i].step # "idle" /\ UNCHANGED <<worker, phase>>
       \/ ~ healthy /\ UNCHANGED <<worker, phase>>
    /\ UNCHANGED <<transcript, healthy, troubled, missed>>

HandlerDies(i) ==
    /\ ~ healthy
    /\ Abort(i)
    /\ ClientReturns(i)
    /\ UNCHANGED <<transcript, healthy, troubled, missed>>

(* Mutant: the synchronous request has no time limit.                      *)
GiveUpDetached(i) ==
    /\ ~ healthy \/ ingest[i].step = "idle"
    /\ worker[i] = "waiting"
    /\ ClientReturns(i)
    /\ UNCHANGED <<vars, transcript, healthy, troubled, missed>>

(* curl --max-time passes, or the client is killed: the handler runs on.   *)
GiveUp(i) ==
    /\ ~ healthy \/ ingest[i].step = "idle"
    /\ worker[i] \in {"waiting", "hook"}
    /\ ClientReturns(i)
    /\ UNCHANGED <<vars, transcript, healthy, troubled, missed>>

HasEntry == agentEntries[Session] # Null /\ agentEntries[Session].workspace = Workspace

(* SessionEnd, step 2: the closing facts; the end is the last instant of   *)
(* any record of the transcript.  Without a row the server answers 404.    *)
CloseSession ==
    /\ phase = "finalize"
    /\ \/ /\ \E end \in Ends, note \in Notes \cup {Null} :
                /\ \A e \in transcript : Timestamp[e] <= end
                /\ Finalize(Session, Workspace, end, note)
          /\ missed' = FALSE
       \/ /\ ~ HasEntry \/ ~ healthy
          /\ missed' = TRUE
          /\ UNCHANGED vars
    /\ phase' = "closed"
    /\ UNCHANGED <<transcript, worker, healthy, troubled>>

(* The network, the host and the service fail and recover.                 *)
HealthChanges ==
    /\ healthy' = ~ healthy
    /\ troubled' = (troubled \/ healthy)
    /\ UNCHANGED <<vars, transcript, phase, worker, missed>>

SyncNext ==
    \/ \E e \in Messages : AppendMessage(e)
    \/ SessionEnd \/ Resume \/ Reconcile \/ CloseSession \/ HealthChanges
    \/ \E i \in Ingests :
        Stop(i) \/ WorkerPosts(i) \/ Serve(i) \/ HandlerDies(i) \/ GiveUp(i)

(* A started process gets to run, a handler the service has accepted runs  *)
(* on or dies, and curl's clock passes.  Turns, ends, resumes and the      *)
(* weather are not fair.                                                   *)
Fairness ==
    /\ WF_syncVars(Reconcile)
    /\ WF_syncVars(CloseSession)
    /\ \A i \in Ingests :
        /\ WF_syncVars(WorkerPosts(i))
        /\ WF_syncVars(Serve(i) \/ HandlerDies(i))
        /\ WF_syncVars(GiveUp(i))

SyncSafety == SyncInit /\ [][SyncNext]_syncVars
SyncSpec == SyncSafety /\ Fairness

(***************************************************************************)
(* Properties.                                                             *)
(***************************************************************************)

(* spantail-agent-stop.sh:8, agent-events.ts:31: re-posting the transcript *)
(* makes up for what was lost.  Once nothing fails any more, a fired Stop  *)
(* or SessionEnd gets every message so far counted, for good.              *)
Fired == phase = "reconcile" \/ \E i \in Ingests : worker[i] = "detached"
TurnsAreCounted ==
    \A e \in Messages :
        [](Fired /\ e \in transcript /\ []healthy => <>[](e \in Basis(Session)))

(* The hooks never keep a session from ending, whatever fails.             *)
SessionEnds == phase = "reconcile" ~> phase = "closed"

(* A session that ended without trouble is counted to its last message,    *)
(* whatever its detached workers and their handlers are still doing.       *)
ClosedIsCounted ==
    phase = "closed" /\ ~ troubled /\ Accepted(transcript) =>
        transcript \subseteq Basis(Session)

(* The closing facts of a session with messages are not answered 404       *)
(* unless something failed: the reconcile has created the entry.           *)
ClosingFactsArrive ==
    phase = "closed" /\ missed /\ transcript # {} /\ Accepted(transcript) => troubled
============================================================================
