----------------------------- MODULE WorkEntries -----------------------------
(***************************************************************************)
(* Work entries: the table, the links from entries to the agent sessions   *)
(* they were logged from, and the requests that write them: one entry at a *)
(* time, a batch under ids the client chose, edits and deletes.  Reads     *)
(* that one check compares are one step; what was checked and what is      *)
(* written are apart.                                                      *)
(***************************************************************************)
EXTENDS Naturals

CONSTANTS
    Users,
    InstanceAdmins,
    Workspaces,
    Projects,
    Home,           \* the workspace of a project
    External,       \* ids a client may make up (externalId)
    MaxIssued,      \* ids the server generates are cut off here
    Sessions,       \* agent entries
    SessionOwner,
    SessionHome,
    Requests,       \* concurrent requests
    None

ASSUME AdminsAssumption == InstanceAdmins \subseteq Users
ASSUME HomeAssumption == Home \in [Projects -> Workspaces]
ASSUME SessionAssumption == /\ SessionOwner \in [Sessions -> Users]
                            /\ SessionHome \in [Sessions -> Workspaces]
ASSUME IssuedAssumption == MaxIssued \in Nat
ASSUME NoneAssumption == None \notin Users \cup Workspaces \cup Projects \cup External \cup Nat
ASSUME IdAssumption == External \cap Nat = {}

VARIABLES
    members,        \* workspace -> its members
    readers,        \* project -> who may log to it: its members, its workspace's admins
    projects,       \* projects that exist
    sessions,       \* agent entries that exist
    entries,        \* work_entries
    links,          \* work_entry_agent_entries
    issued,         \* ids generated so far
    request,        \* requests in flight
    \* History variables.
    overtaken,      \* edits and deletes whose entry was deleted since they read it
    crossed,        \* entries written by such an edit
    ever            \* ids that ever were an entry, which is when clients come to know them

place == <<members, readers, projects, sessions>>
table == <<entries, links>>
history == <<overtaken, crossed, ever>>
vars == <<place, table, issued, request, history>>

Generated == 1 .. MaxIssued
Ids == External \cup Generated

(* hand: the user whose request wrote the content.                         *)
Entry == [workspace : Workspaces, project : Projects \cup {None}, author : Users, hand : Users]
Absent == [workspace |-> None, project |-> None, author |-> None, hand |-> None]
Existing == {i \in Ids : entries[i] # Absent}
Link == [entry : Existing, session : sessions]

Row == [id : Ids, project : Projects, author : Users]

(* id, project: of an edit, where its own id stands for keeping the        *)
(* project; rows, sessions: what a creation or a batch will insert.        *)
RequestState == [op : {"idle", "log", "batch", "edit", "delete"}, step : {"idle", "owners", "write"},
                 actor : Users \cup {None}, workspace : Workspaces \cup {None}, id : Ids \cup {None},
                 project : Projects \cup Ids \cup {None}, rows : SUBSET Row, sessions : SUBSET Sessions]
Asked(op, step, u, w, i, p, rows, S) ==
    [op |-> op, step |-> step, actor |-> u, workspace |-> w, id |-> i, project |-> p,
     rows |-> rows, sessions |-> S]
Idle == Asked("idle", "idle", None, None, None, None, {}, {})

(* With the foreign keys of the links.                                     *)
TypeOK ==
    /\ members \in [Workspaces -> SUBSET Users]
    /\ readers \in [Projects -> SUBSET Users]
    /\ projects \subseteq Projects
    /\ sessions \subseteq Sessions
    /\ entries \in [Ids -> Entry \cup {Absent}]
    /\ links \subseteq Link
    /\ issued \in 0 .. MaxIssued
    /\ request \in [Requests -> RequestState]
    /\ overtaken \subseteq Requests /\ crossed \cup ever \subseteq Ids

Init ==
    /\ members = [w \in Workspaces |-> Users]
    /\ readers \in [Projects -> SUBSET Users]
    /\ projects = Projects
    /\ sessions = Sessions
    /\ entries = [i \in Ids |-> Absent]
    /\ links = {}
    /\ issued = 0
    /\ request = [r \in Requests |-> Idle]
    /\ overtaken = {} /\ crossed = {} /\ ever = {}

(***************************************************************************)
(* Requests.                                                               *)
(***************************************************************************)
Goes(r, q) == request' = [request EXCEPT ![r] = q]
Start(r, q) == request[r] = Idle /\ Goes(r, q) /\ UNCHANGED <<place, table>>

(* requireWorkspaceAccess, which instance admins pass as workspace admins; *)
(* requireProjectInWorkspace and requireProjectAccess.                     *)
Enters(u, w) == u \in members[w] \cup InstanceAdmins
MayLog(u, w, p) == /\ Enters(u, w) /\ p \in projects /\ Home[p] = w
                   /\ u \in readers[p] \cup InstanceAdmins

(* Agent entries a new entry may be linked to: the caller's own.           *)
Linkable(u, w) == {s \in sessions : SessionOwner[s] = u /\ SessionHome[s] = w}

(* POST /work-entries.                                                     *)
BeginLog(r, u, w, p, S) ==
    /\ MayLog(u, w, p) /\ issued < MaxIssued
    /\ S \subseteq Linkable(u, w)
    /\ Start(r, Asked("log", "write", u, w, None, None,
                      {[id |-> issued + 1, project |-> p, author |-> u]}, S))
    /\ issued' = issued + 1

(* Only an instance admin may name another author, a member.               *)
MayName(u, w, author) == author = u \/ (u \in InstanceAdmins /\ author \in members[w])

(* POST /work-entries/batch: every row is checked before any is written;   *)
(* fresh: how many rows the server names.  The others have externalIds, all *)
(* distinct, which may be ids the server gave to entries before.           *)
BeginBatch(r, u, w, rows, fresh) ==
    /\ rows # {}
    /\ \A row \in rows : MayLog(u, w, row.project) /\ MayName(u, w, row.author)
    /\ \A row, other \in rows : row.id = other.id => row = other
    /\ {row.id : row \in rows} \subseteq External \cup ever \cup (issued + 1 .. issued + fresh)
    /\ issued' = issued + fresh
    /\ Start(r, Asked("batch", "owners", u, w, None, None, rows, {}))

(* Mutant: whoever may see the entry may change it.                        *)
OwnByMembership(u, i) == i \in Existing /\ Enters(u, entries[i].workspace)

(* requireEntryAccess and requireAuthor: an author needs no project access. *)
Own(u, i) == /\ i \in Existing
             /\ Enters(u, entries[i].workspace) /\ entries[i].author = u

(* PATCH /work-entries/:id: keeps the project, moves the entry to another, *)
(* or sends the null of an entry whose project is gone.                    *)
BeginEdit(r, u, i, p) ==
    /\ Own(u, i)
    /\ \/ p = i
       \/ p = None /\ entries[i].project = None
       \/ p \in Projects /\ (p = entries[i].project \/ MayLog(u, entries[i].workspace, p))
    /\ Start(r, Asked("edit", "write", u, None, i, p, {}, {}))
    /\ UNCHANGED issued

(* DELETE /work-entries/:id.                                               *)
BeginDelete(r, u, i) ==
    /\ Own(u, i)
    /\ Start(r, Asked("delete", "write", u, None, i, None, {}, {}))
    /\ UNCHANGED issued

(***************************************************************************)
(* Writes.                                                                 *)
(***************************************************************************)
Refuse(r) == Goes(r, Idle) /\ UNCHANGED table

(* Mutant: the workspace of a conflicting row is not compared.             *)
SameAuthor(row, w) == entries[row.id] # Absent => entries[row.id].author = row.author

(* Mutant: the author of a conflicting row is not compared.                *)
SameWorkspace(row, w) == entries[row.id] # Absent => entries[row.id].workspace = w

(* An id conflict may only be the same author's entry in the same workspace. *)
SameOwner(row, w) ==
    entries[row.id] # Absent =>
        entries[row.id].author = row.author /\ entries[row.id].workspace = w

(* getWorkEntryOwnersByIds: a foreign id is refused with 409.              *)
CheckOwners(r) ==
    LET q == request[r] IN
    /\ q.step = "owners"
    /\ \/ /\ \A row \in q.rows : SameOwner(row, q.workspace)
          /\ Goes(r, [q EXCEPT !.step = "write"]) /\ UNCHANGED table
       \/ (\E row \in q.rows : ~ SameOwner(row, q.workspace)) /\ Refuse(r)
    /\ UNCHANGED <<place, issued>>

(* Mutant: the upsert writes the author it was given.                      *)
UpsertedAsGiven(row, w, u) ==
    IF entries[row.id] = Absent
    THEN [workspace |-> w, project |-> row.project, author |-> row.author, hand |-> u]
    ELSE [entries[row.id] EXCEPT !.project = row.project, !.author = row.author, !.hand = u]

(* The upsert leaves the workspace alone and, where the conflicting row is *)
(* foreign, sets its author to NULL.                                       *)
Upserted(row, w, u) ==
    IF entries[row.id] = Absent
    THEN [workspace |-> w, project |-> row.project, author |-> row.author, hand |-> u]
    ELSE [entries[row.id] EXCEPT !.project = row.project, !.hand = u,
              !.author = IF SameOwner(row, w) THEN row.author ELSE None]

Inserts(q) ==
    entries' = [i \in Ids |->
        IF \E row \in q.rows : row.id = i
        THEN Upserted(CHOOSE row \in q.rows : row.id = i, q.workspace, q.actor)
        ELSE entries[i]]

(* What the statements must not violate: the foreign keys, and NOT NULL of *)
(* the author.                                                             *)
Acceptable(q) ==
    /\ \A row \in q.rows :
          row.project \in projects /\ Upserted(row, q.workspace, q.actor).author # None
    /\ q.sessions \subseteq sessions

(* createWorkEntry and createWorkEntriesBatch: one implicit transaction.   *)
WriteRows(r) ==
    LET q == request[r] IN
    /\ q.op \in {"log", "batch"} /\ q.step = "write"
    /\ \/ /\ Acceptable(q)
          /\ Inserts(q)
          /\ links' = links \cup [entry : {row.id : row \in q.rows}, session : q.sessions]
          /\ Goes(r, Idle)
       \/ ~ Acceptable(q) /\ Refuse(r)
    /\ UNCHANGED <<place, issued>>

Keeps(q) == q.project = q.id
Edited(entry, q) ==
    [entry EXCEPT !.project = IF Keeps(q) THEN entry.project ELSE q.project, !.hand = q.actor]

(* updateWorkEntry: by id alone.                                           *)
WriteEdit(r) ==
    LET q == request[r] IN
    /\ q.op = "edit"
    /\ \/ /\ q.id \in Existing /\ (Keeps(q) \/ q.project \in projects \cup {None})
          /\ entries' = [entries EXCEPT ![q.id] = Edited(@, q)]
          /\ Goes(r, Idle) /\ UNCHANGED links
       \/ ~ (q.id \in Existing /\ (Keeps(q) \/ q.project \in projects \cup {None})) /\ Refuse(r)
    /\ UNCHANGED <<place, issued>>

(* deleteWorkEntry: by id alone, with its links.                           *)
WriteDelete(r) ==
    LET q == request[r] IN
    /\ q.op = "delete"
    /\ entries' = [entries EXCEPT ![q.id] = Absent]
    /\ links' = {l \in links : l.entry # q.id}
    /\ Goes(r, Idle)
    /\ UNCHANGED <<place, issued>>

(* A worker dies, or a statement fails: nothing of it was written.         *)
Crash(r) ==
    /\ request[r] # Idle
    /\ Refuse(r)
    /\ UNCHANGED <<place, issued>>

(***************************************************************************)
(* Around the requests.                                                    *)
(***************************************************************************)
Leave(u, w) ==
    /\ u \in members[w]
    /\ members' = [members EXCEPT ![w] = @ \ {u}]
    /\ readers' = [p \in Projects |-> IF Home[p] = w THEN readers[p] \ {u} ELSE readers[p]]
    /\ UNCHANGED <<projects, sessions, table, issued, request>>

(* ON DELETE SET NULL.                                                     *)
DeleteProject(p) ==
    /\ p \in projects
    /\ projects' = projects \ {p}
    /\ entries' = [i \in Ids |-> IF entries[i].project = p THEN [entries[i] EXCEPT !.project = None]
                                                           ELSE entries[i]]
    /\ UNCHANGED <<members, readers, sessions, links, issued, request>>

(* ON DELETE CASCADE of the links.                                         *)
RemoveSession(s) ==
    /\ s \in sessions
    /\ sessions' = sessions \ {s}
    /\ links' = {l \in links : l.session # s}
    /\ UNCHANGED <<members, readers, projects, entries, issued, request>>

Asks(r) ==
    \/ \E u \in Users, w \in Workspaces, p \in Projects, S \in SUBSET Sessions : BeginLog(r, u, w, p, S)
    \/ \E u \in Users, w \in Workspaces, p \in Projects, i \in Ids, a \in Users :
          BeginBatch(r, u, w, {[id |-> i, project |-> p, author |-> a]}, 0)
    \/ \E u \in Users, i \in Ids, p \in Projects \cup Ids \cup {None} : BeginEdit(r, u, i, p)
    \/ \E u \in Users, i \in Ids : BeginDelete(r, u, i)

Around ==
    \/ \E u \in Users, w \in Workspaces : Leave(u, w)
    \/ \E p \in Projects : DeleteProject(p)
    \/ \E s \in Sessions : RemoveSession(s)

(* History: an edit or a delete is overtaken when its entry goes before it *)
(* lands; what it then writes under that id is crossed.                    *)
Gone(i) == i \in Existing /\ entries'[i] = Absent
Observe ==
    /\ overtaken' = {r \in Requests : request'[r] = request[r] /\ request[r].op \in {"edit", "delete"}
                                      /\ (r \in overtaken \/ Gone(request[r].id))}
    /\ crossed' = {i \in Ids : entries'[i] # Absent
                       /\ (i \in crossed \/ \E r \in overtaken :
                               request[r].id = i /\ request'[r] = Idle /\ entries'[i] # entries[i])}
    /\ ever' = ever \cup {i \in Ids : entries'[i] # Absent}

Fails(r) == CheckOwners(r) \/ Crash(r)
Lands(r) == WriteEdit(r) \/ WriteDelete(r)

Next == /\ Around \/ \E r \in Requests : Asks(r) \/ Fails(r) \/ WriteRows(r) \/ Lands(r)
        /\ Observe

Spec == Init /\ [][Next]_vars

(***************************************************************************)
(* Properties.                                                             *)
(***************************************************************************)

(* What an entry says was written by its author, or imported for them by   *)
(* an instance admin, however edits, deletes and imports under the same id *)
(* interleave; an edit whose entry was deleted and its id imported again   *)
(* before it landed is the exception.                                      *)
OnlyTheAuthorWrites ==
    \A i \in Existing \ crossed : entries[i].hand = entries[i].author \/ entries[i].hand \in InstanceAdmins

(* An entry's project exists and belongs to the entry's workspace, which   *)
(* every report and every access check relies on and no key states.        *)
ProjectOfItsWorkspace ==
    \A i \in Existing \ crossed :
        entries[i].project # None => entries[i].project \in projects /\ Home[entries[i].project] = entries[i].workspace

(* An entry is only linked to sessions of its author in its workspace:     *)
(* also after the session went while the entry was being logged, and after *)
(* batches that name the entry's id, by its author or by an admin for      *)
(* another.                                                                *)
LinksAreOwn ==
    \A l \in links : /\ SessionOwner[l.session] = entries[l.entry].author
                     /\ SessionHome[l.session] = entries[l.entry].workspace

(* No batch, even one racing past the ownership pre-check, makes an entry  *)
(* another author's or another workspace's.                                *)
EntriesKeepTheirOwner ==
    [][\A i \in Existing : entries'[i] # Absent =>
           entries'[i].author = entries[i].author /\ entries'[i].workspace = entries[i].workspace]_vars

=============================================================================
