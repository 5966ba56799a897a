----------------------------- MODULE RealtimeSync -----------------------------
(***************************************************************************)
(* Live updates of the data of one workspace.  A write starts a background *)
(* task that signals the hubs of the members it finds; a hub relays the    *)
(* signal to the open streams of its user's tabs; a tab that hears one, or *)
(* that reconnects, fetches again.  Signals carry no data and may be lost  *)
(* at every step.                                                          *)
(***************************************************************************)
EXTENDS Naturals

CONSTANTS
    Users,
    Tabs,
    UserOf,         \* the user of a tab
    MaxWrites       \* changes are cut off here

ASSUME UserOfAssumption == UserOf \in [Tabs -> Users]
ASSUME WritesAssumption == MaxWrites \in Nat

VARIABLES
    enabled,        \* instance_settings.realtimeEnabled
    members,        \* workspace_members
    version,        \* the data: how many changes were written
    task,           \* change -> the background task that publishes it
    page,           \* tab -> what its page knows of the switch
    stream,         \* tab -> its EventSource
    reconnected,    \* tabs whose stream was open before
    frames,         \* tab -> signals its stream holds
    fetch,          \* tab -> the query of the data
    filled,         \* tabs whose query has data
    shown,          \* tab -> the version it shows
    \* History variables, until the tab fetches again.
    dropped,        \* tabs that a signal, or a fetch, was lost for
    early,          \* tabs that may have been signalled before their stream first opened
    swallowed       \* tabs that were signalled when their first fetch had been served

server == <<enabled, members, version, task>>
tab == <<page, stream, reconnected, frames, fetch, filled, shown>>
hubHistory == <<dropped, early, swallowed>>
hubVars == <<server, tab, hubHistory>>

Changes == 1 .. MaxWrites
NoTask == [step |-> "none", to |-> {}]
NoFetch == [step |-> "idle", got |-> 0]
Wanted == [step |-> "wanted", got |-> 0]

HubTypeOK ==
    /\ enabled \in BOOLEAN
    /\ members \subseteq Users
    /\ version \in 0 .. MaxWrites
    /\ task \in [Changes -> [step : {"none", "flag", "lookup", "send"}, to : SUBSET Users]]
    /\ page \in [Tabs -> {"closed", "loaded", "on", "off"}]
    /\ stream \in [Tabs -> {"none", "accepted", "open", "down", "refused"}]
    /\ reconnected \cup filled \subseteq Tabs
    /\ frames \in [Tabs -> Nat]
    /\ fetch \in [Tabs -> [step : {"idle", "wanted", "reading"}, got : 0 .. MaxWrites]]
    /\ shown \in [Tabs -> 0 .. MaxWrites]
    /\ dropped \cup early \cup swallowed \subseteq Tabs

HubInit ==
    /\ enabled \in BOOLEAN
    /\ members \in SUBSET Users
    /\ version = 0
    /\ task = [w \in Changes |-> NoTask]
    /\ page = [t \in Tabs |-> "closed"]
    /\ stream = [t \in Tabs |-> "none"]
    /\ reconnected = {} /\ filled = {}
    /\ frames = [t \in Tabs |-> 0]
    /\ fetch = [t \in Tabs |-> NoFetch]
    /\ shown = [t \in Tabs |-> 0]
    /\ dropped = {} /\ early = {} /\ swallowed = {}

Loaded == {t \in Tabs : page[t] # "closed"}
Held(t) == stream[t] \in {"accepted", "open"}
Outside == {t \in Loaded : UserOf[t] \notin members}

(***************************************************************************)
(* Server.                                                                 *)
(***************************************************************************)
Toggle ==
    /\ enabled' = ~ enabled
    /\ UNCHANGED <<members, version, task, tab, hubHistory>>

AddMember(u) ==
    /\ u \notin members
    /\ members' = members \cup {u}
    /\ UNCHANGED <<enabled, version, task, tab, hubHistory>>

RemoveMember(u) ==
    /\ u \in members
    /\ members' = members \ {u}
    /\ UNCHANGED <<enabled, version, task, tab, hubHistory>>

(* A route that publishes what it wrote.                                   *)
Write ==
    /\ version < MaxWrites
    /\ version' = version + 1
    /\ task' = [task EXCEPT ![version'] = [step |-> "flag", to |-> {}]]
    /\ UNCHANGED <<enabled, members, tab, hubHistory>>

(* One that does not: the entry a GitHub comment logs, say.                *)
WriteSilently ==
    /\ version < MaxWrites
    /\ version' = version + 1
    /\ dropped' = dropped \cup Loaded
    /\ UNCHANGED <<enabled, members, task, tab, early, swallowed>>

(* deliver: nothing is published while the switch is off.                  *)
ReadSwitch(w) ==
    /\ task[w].step = "flag"
    /\ IF enabled
       THEN task' = [task EXCEPT ![w] = [step |-> "lookup", to |-> {}]] /\ UNCHANGED dropped
       ELSE task' = [task EXCEPT ![w] = NoTask] /\ dropped' = dropped \cup Loaded
    /\ UNCHANGED <<enabled, members, version, tab, early, swallowed>>

(* listWorkspaceMemberIds: who is not a member at this moment is not told. *)
LookUpMembers(w) ==
    /\ task[w].step = "lookup"
    /\ task' = [task EXCEPT ![w] = IF members = {} THEN NoTask ELSE [step |-> "send", to |-> members]]
    /\ dropped' = dropped \cup Outside
    /\ UNCHANGED <<enabled, members, version, tab, early, swallowed>>

(* fanOut: the hub of one user, and every stream it holds.                 *)
Publish(w, u) ==
    LET mine == {t \in Loaded : UserOf[t] = u}
        left == task[w].to \ {u} IN
    /\ task[w].step = "send" /\ u \in task[w].to
    /\ task' = [task EXCEPT ![w] = IF left = {} THEN NoTask ELSE [step |-> "send", to |-> left]]
    /\ frames' = [t \in Tabs |-> IF t \in mine /\ Held(t) THEN frames[t] + 1 ELSE frames[t]]
    /\ early' = early \cup {t \in mine : stream[t] \in {"none", "down"} /\ t \notin reconnected}
    /\ dropped' = dropped \cup {t \in mine : stream[t] = "refused"}
    /\ UNCHANGED <<enabled, members, version, page, stream, reconnected, fetch, filled, shown, swallowed>>

(* The task may still signal the user.                                     *)
Awaits(w, u) == task[w].step \in {"flag", "lookup"} \/ u \in task[w].to

(* The task is evicted or a lookup fails: errors are swallowed.            *)
Die(w) ==
    /\ task[w] # NoTask
    /\ task' = [task EXCEPT ![w] = NoTask]
    /\ dropped' = dropped \cup {t \in Loaded : Awaits(w, UserOf[t])}
    /\ UNCHANGED <<enabled, members, version, tab, early, swallowed>>

(***************************************************************************)
(* Tabs.                                                                   *)
(***************************************************************************)
Refetches(t) == fetch' = [fetch EXCEPT ![t] = Wanted]

(* History: the signal comes after the server has read the data that the   *)
(* first fetch of the page brings.                                         *)
MissesFirst(t) ==
    swallowed' = IF t \notin filled /\ fetch[t].step = "reading" THEN swallowed \cup {t} ELSE swallowed

(* Mutant: a refetch that is under way counts for the signal as well       *)
(* (cancelRefetch: false).                                                 *)
InvalidatesIdle(t) ==
    /\ IF fetch[t] = NoFetch THEN Refetches(t) ELSE UNCHANGED fetch
    /\ MissesFirst(t)

(* Invalidating cancels a refetch that is under way and starts another;    *)
(* the first fetch of a query is left to end, and what it brings counts as *)
(* fresh.                                                                  *)
Invalidates(t) ==
    /\ IF t \in filled \/ fetch[t] = NoFetch THEN Refetches(t) ELSE UNCHANGED fetch
    /\ MissesFirst(t)

(* A page load, or a reload: everything is fetched, the switch as well.    *)
Load(t) ==
    /\ page' = [page EXCEPT ![t] = "loaded"]
    /\ stream' = [stream EXCEPT ![t] = "none"]
    /\ reconnected' = reconnected \ {t}
    /\ frames' = [frames EXCEPT ![t] = 0]
    /\ filled' = filled \ {t}
    /\ Refetches(t)
    /\ UNCHANGED <<server, shown, hubHistory>>

(* The query of the switch: at the load, and again in the tab where an     *)
(* admin turned it, which then closes its stream or opens a new one.       *)
LearnSwitch(t) ==
    LET now == IF enabled THEN "on" ELSE "off" IN
    /\ page[t] \notin {"closed", now}
    /\ page' = [page EXCEPT ![t] = now]
    /\ stream' = [stream EXCEPT ![t] = "none"]
    /\ reconnected' = reconnected \ {t}
    /\ frames' = [frames EXCEPT ![t] = 0]
    /\ early' = IF stream[t] \in {"accepted", "down"} \/ frames[t] > 0 THEN early \cup {t} ELSE early
    /\ UNCHANGED <<server, fetch, filled, shown, dropped, swallowed>>

(* GET /realtime, at first or again: an answer other than 200 is final.    *)
Connect(t) ==
    /\ page[t] = "on" /\ stream[t] \in {"none", "down"}
    /\ stream' = [stream EXCEPT ![t] = IF enabled THEN "accepted" ELSE "refused"]
    /\ dropped' = IF enabled THEN dropped ELSE dropped \cup {t}
    /\ UNCHANGED <<server, page, reconnected, frames, fetch, filled, shown, early, swallowed>>

(* Mutant: no open stream makes the tab fetch.                             *)
OnOpenOnly(t) ==
    /\ stream[t] = "accepted"
    /\ stream' = [stream EXCEPT ![t] = "open"]
    /\ reconnected' = reconnected \cup {t}
    /\ IF t \in reconnected THEN MissesFirst(t) ELSE UNCHANGED swallowed
    /\ UNCHANGED <<server, page, frames, fetch, filled, shown, dropped, early>>

(* onopen: what was missed while the stream was down is fetched, but not   *)
(* at the first open.                                                      *)
OnOpen(t) ==
    /\ stream[t] = "accepted"
    /\ stream' = [stream EXCEPT ![t] = "open"]
    /\ reconnected' = reconnected \cup {t}
    /\ IF t \in reconnected THEN Invalidates(t) ELSE UNCHANGED <<fetch, swallowed>>
    /\ UNCHANGED <<server, page, frames, filled, shown, dropped, early>>

(* onmessage.                                                              *)
Hear(t) ==
    /\ stream[t] = "open" /\ frames[t] > 0
    /\ frames' = [frames EXCEPT ![t] = @ - 1]
    /\ Invalidates(t)
    /\ UNCHANGED <<server, page, stream, reconnected, filled, shown, dropped, early>>

(* The connection breaks, with what it held.                               *)
Break(t) ==
    /\ Held(t)
    /\ stream' = [stream EXCEPT ![t] = "down"]
    /\ frames' = [frames EXCEPT ![t] = 0]
    /\ early' = IF t \notin reconnected /\ frames[t] > 0 THEN early \cup {t} ELSE early
    /\ UNCHANGED <<server, page, reconnected, fetch, filled, shown, dropped, swallowed>>

(* Refetch on focus.                                                       *)
Focus(t) ==
    /\ t \in Loaded /\ fetch[t] = NoFetch
    /\ Refetches(t)
    /\ UNCHANGED <<server, page, stream, reconnected, frames, filled, shown, hubHistory>>

(* The route reads the data, for a member ...                              *)
ServeFetch(t) ==
    /\ fetch[t].step = "wanted" /\ UserOf[t] \in members
    /\ fetch' = [fetch EXCEPT ![t] = [step |-> "reading", got |-> version]]
    /\ dropped' = dropped \ {t} /\ early' = early \ {t} /\ swallowed' = swallowed \ {t}
    /\ UNCHANGED <<server, page, stream, reconnected, frames, filled, shown>>

NoAnswer(t) ==
    /\ fetch' = [fetch EXCEPT ![t] = NoFetch]
    /\ dropped' = dropped \cup {t}
    /\ UNCHANGED <<server, page, stream, reconnected, frames, filled, shown, early, swallowed>>

RefuseFetch(t) ==
    /\ fetch[t].step = "wanted" /\ UserOf[t] \notin members
    /\ NoAnswer(t)

(* ... and the tab shows it.                                               *)
EndFetch(t) ==
    /\ fetch[t].step = "reading"
    /\ fetch' = [fetch EXCEPT ![t] = NoFetch]
    /\ filled' = filled \cup {t}
    /\ shown' = [shown EXCEPT ![t] = fetch[t].got]
    /\ UNCHANGED <<server, page, stream, reconnected, frames, hubHistory>>

FailFetch(t) ==
    /\ fetch[t] # NoFetch
    /\ NoAnswer(t)

Tasks == \E w \in Changes : ReadSwitch(w) \/ LookUpMembers(w) \/ \E u \in Users : Publish(w, u)

HubNext ==
    \/ Toggle \/ Write \/ WriteSilently
    \/ \E u \in Users : AddMember(u) \/ RemoveMember(u)
    \/ Tasks \/ \E w \in Changes : Die(w)
    \/ \E t \in Tabs :
          \/ Load(t) \/ LearnSwitch(t) \/ Connect(t) \/ OnOpen(t) \/ Hear(t) \/ Break(t)
          \/ Focus(t) \/ ServeFetch(t) \/ RefuseFetch(t) \/ EndFetch(t) \/ FailFetch(t)

(* Tasks run, streams deliver and fetches are answered; nothing makes a    *)
(* page load, a switch turn or a stream reconnect.                         *)
Fairness ==
    /\ WF_hubVars(Tasks)
    /\ \A t \in Tabs : /\ WF_hubVars(Hear(t)) /\ WF_hubVars(EndFetch(t))
                       /\ WF_hubVars(ServeFetch(t) \/ RefuseFetch(t))

HubSpec == HubInit /\ [][HubNext]_hubVars /\ Fairness

(***************************************************************************)
(* Properties.                                                             *)
(***************************************************************************)

(* Nothing is on its way to a tab any more.                                *)
Signalled(t) == \A w \in Changes : ~ Awaits(w, UserOf[t])
Settled(t) == stream[t] = "open" /\ Signalled(t) /\ frames[t] = 0 /\ fetch[t] = NoFetch

(* A tab with an open stream that waits for nothing shows the data as it   *)
(* is, however fetches, signals, losses of the connection, changes of the  *)
(* members and writes interleave: only what was lost on the way, or        *)
(* signalled before the stream first opened or during the first fetch of   *)
(* the page, can leave it behind.  Once the page has its data, a signal    *)
(* that meets a fetch under way is not among that.                         *)
SettledIsCurrent ==
    \A t \in Tabs : Settled(t) => shown[t] = version \/ t \in dropped \cup early \cup swallowed

(* A tab whose stream stays open comes to show the data as it is, again    *)
(* and again, with no focus and no reload, but for what was lost.          *)
OpenTabsCatchUp ==
    \A t \in Tabs : <>[](stream[t] = "open") =>
        []<>(shown[t] = version \/ t \in dropped \cup early \cup swallowed)

(* "open browser tabs receive changes the moment they happen"              *)
(* (system-settings.md): only losses leave an open tab behind.             *)
OpenTabsReceiveChanges ==
    \A t \in Tabs : Settled(t) => shown[t] = version \/ t \in dropped \cup swallowed

(* "applies each invalidation signal to the query cache" (realtime.ts:59): *)
(* so does a tab that still fetches its data for the first time.           *)
EverySignalIsApplied ==
    \A t \in Tabs : Settled(t) => shown[t] = version \/ t \in dropped \cup early
===============================================================================
