---------------------------- MODULE ReportSharing ----------------------------
(***************************************************************************)
(* One report of one owner: a mutable header over immutable content        *)
(* versions, the deliveries and public links that reference a version, and *)
(* the requests that write them.  Rendering is abstracted to the scope it  *)
(* froze: the workspaces it covered and the projects whose entries it      *)
(* shows.  Reads that one check compares are one step; what was checked    *)
(* and what is written are always apart.                                   *)
(***************************************************************************)
EXTENDS Naturals

CONSTANTS
    Users,
    Owner,
    Workspaces,
    Projects,
    Home,          \* the workspace of a project
    Links,         \* ids, one per public link ever minted
    MaxVersion,    \* edits are cut off at this version
    Requests,      \* concurrent requests
    None

ASSUME OwnerAssumption == Owner \in Users
ASSUME HomeAssumption == Home \in [Projects -> Workspaces]
ASSUME VersionAssumption == MaxVersion \in Nat \ {0}
ASSUME NoneAssumption == None \notin Users \cup Links

VARIABLES
    registered,    \* accounts that exist
    members,       \* workspace -> its members
    readers,       \* project -> who else reads it: its members, its workspace's admins
    report,        \* reports: the header
    content,       \* report_content: the scope each version was rendered in
    deliveries,    \* report_deliveries
    link,          \* report_shares
    request,       \* requests in flight
    \* History variables.
    fit,           \* requests whose readers cover the version they carry
    overtaken      \* requests that an edit overtook after their check

people == <<registered, members, readers>>
documents == <<report, content, deliveries, link>>
history == <<fit, overtaken>>
vars == <<people, documents, request, history>>

Versions == 1 .. MaxVersion
Scope == [workspaces : SUBSET Workspaces, projects : SUBSET Projects]
NoScope == [workspaces |-> {}, projects |-> {}]
Delivery == [version : Versions, to : Users]

Ops == {"idle", "create", "edit", "delete", "send", "share", "reshare", "revoke", "view"}
Steps == {"idle", "render", "bind", "write"}

(* version: the one read, appended or bound; to: recipients.               *)
RequestState == [op : Ops, step : Steps, actor : Users \cup {None}, version : 0 .. MaxVersion,
                 scope : Scope, to : SUBSET Users, link : Links \cup {None}]
Asked(op, step, u, v, scope, to, l) ==
    [op |-> op, step |-> step, actor |-> u, version |-> v, scope |-> scope, to |-> to, link |-> l]
Idle == Asked("idle", "idle", None, 0, NoScope, {}, None)

Alive == {"live", "revoked", "expired"}
LinkState == [state : {"absent", "gone"} \cup Alive, version : 0 .. MaxVersion,
              by : Users \cup {None}]

Stored == {v \in Versions : content[v] # NoScope}

(* With the foreign keys.                                                  *)
TypeOK ==
    /\ registered \subseteq Users
    /\ members \in [Workspaces -> SUBSET registered]
    /\ readers \in [Projects -> SUBSET (registered \ {Owner})]
    /\ report \in [state : {"absent", "present", "gone"}, version : 0 .. MaxVersion, scope : Scope]
    /\ content \in [Versions -> Scope]
    /\ deliveries \subseteq [version : Stored, to : registered]
    /\ link \in [Links -> LinkState]
    /\ \A l \in Links : link[l].state \in Alive => link[l].version \in Stored /\ link[l].by \in registered
    /\ request \in [Requests -> RequestState]
    /\ fit \cup overtaken \subseteq Requests

Init ==
    /\ registered = Users
    /\ members \in [Workspaces -> SUBSET Users]
    /\ readers \in [Projects -> SUBSET (Users \ {Owner})]
    /\ report = [state |-> "absent", version |-> 0, scope |-> NoScope]
    /\ content = [v \in Versions |-> NoScope]
    /\ deliveries = {}
    /\ link = [l \in Links |-> [state |-> "absent", version |-> 0, by |-> None]]
    /\ request = [r \in Requests |-> Idle]
    /\ fit = {} /\ overtaken = {}

(***************************************************************************)
(* Who may read what.                                                      *)
(***************************************************************************)
Present == report.state = "present"

(* requireScopeWorkspaces.                                                 *)
Covers(u, W) == u \in registered /\ \A w \in W : u \in members[w]

(* Mutant: the projects of the snapshot are not looked at.                 *)
CandidatesByWorkspace(scope) ==
    {u \in Users \ {Owner} : Covers(u, scope.workspaces)}

(* reportRecipientCandidates: members of every workspace of the snapshot   *)
(* who read every project in it.                                           *)
Candidates(scope) ==
    {u \in Users \ {Owner} :
        Covers(u, scope.workspaces) /\ \A p \in scope.projects : u \in readers[p]}

(* What a render may produce: the scope's workspaces are checked against   *)
(* the caller's memberships; its projects are those of the entries found.  *)
Renderings(W) == {scope \in Scope :
    scope.workspaces = W /\ \A p \in scope.projects : Home[p] \in W}

(***************************************************************************)
(* Requests.                                                               *)
(***************************************************************************)
Goes(r, q) == request' = [request EXCEPT ![r] = q]
Start(r, q) == request[r] = Idle /\ Goes(r, q) /\ UNCHANGED <<people, documents>>
Owned == Present /\ Owner \in registered
Wanted(W) == [workspaces |-> W, projects |-> {}]

(* POST /reports: the scope must be within the caller's memberships.       *)
BeginCreate(r, W) ==
    /\ W # {} /\ Covers(Owner, W)
    /\ report.state = "absent"
    /\ Start(r, Asked("create", "write", Owner, 1, Wanted(W), {}, None))

(* PATCH /reports/:id: the frozen scope first, the new one when rendering. *)
BeginEdit(r, W) ==
    /\ Owned /\ report.version < MaxVersion
    /\ Covers(Owner, report.scope.workspaces)
    /\ Start(r, Asked("edit", "render", Owner, report.version + 1, Wanted(W), {}, None))

(* DELETE /reports/:id.                                                    *)
BeginDelete(r) ==
    /\ Owned
    /\ Start(r, Asked("delete", "write", Owner, 0, NoScope, {}, None))

(* POST /reports/:id/shares.                                               *)
BeginShare(r) ==
    /\ Owned
    /\ Covers(Owner, report.scope.workspaces)
    /\ Start(r, Asked("share", "bind", Owner, report.version, NoScope, {}, None))

(* POST /reports/:id/send; with sendToSelf the owner is one of them, or    *)
(* the only one.                                                           *)
BeginSend(r, to) ==
    /\ Owned
    /\ Covers(Owner, report.scope.workspaces)
    /\ to # {} /\ to \ {Owner} \subseteq Candidates(report.scope)
    /\ Start(r, Asked("send", "bind", Owner, report.version, NoScope, to, None))

(* Mutant: the link is minted on the current version, not the received one. *)
BeginReshareCurrent(r, d) ==
    /\ d \in deliveries
    /\ Start(r, Asked("reshare", "write", d.to, report.version, NoScope, {}, None))

(* POST /inbox/:id/shares: the received copy is the recipient's.           *)
BeginReshare(r, d) ==
    /\ d \in deliveries
    /\ Start(r, Asked("reshare", "write", d.to, d.version, NoScope, {}, None))

(* POST /report-shares/:id/revoke, by whoever minted the link.             *)
BeginRevoke(r, l) ==
    /\ link[l].state \in Alive
    /\ Start(r, Asked("revoke", "write", link[l].by, 0, NoScope, {}, l))

(* Mutant: only expiry closes a link.                                      *)
UsableUntilExpiry(l) == link[l].state \in {"live", "revoked"}

Usable(l) == link[l].state = "live"

(* GET /share/:token.                                                      *)
BeginView(r, l) ==
    /\ Usable(l)
    /\ Start(r, Asked("view", "write", None, 0, NoScope, {}, l))

Render(r) ==
    LET q == request[r] IN
    /\ q.step = "render"
    /\ \/ /\ q.scope.workspaces # {} /\ Covers(Owner, q.scope.workspaces)
          /\ Goes(r, [q EXCEPT !.step = "write"])
       \/ /\ ~ (q.scope.workspaces # {} /\ Covers(Owner, q.scope.workspaces))
          /\ Goes(r, Idle)
    /\ UNCHANGED <<people, documents>>

(* getCurrentReportContent: the latest version, whatever the header said.  *)
Bind(r) ==
    LET q == request[r] IN
    /\ q.step = "bind"
    /\ IF Stored = {} THEN Goes(r, Idle)
       ELSE \E v \in Stored :
            /\ \A k \in Stored : k <= v
            /\ Goes(r, [q EXCEPT !.step = "write", !.version = v])
    /\ UNCHANGED <<people, documents>>

(***************************************************************************)
(* Writes.                                                                 *)
(***************************************************************************)
Fails(r) == Goes(r, Idle) /\ UNCHANGED documents

(* createReport: header and first version in one batch.                    *)
CreateReport(r) ==
    LET q == request[r] IN
    /\ q.op = "create" /\ q.step = "write"
    /\ \/ /\ report.state = "absent" /\ Owner \in registered
          /\ \E scope \in Renderings(q.scope.workspaces) :
                /\ report' = [state |-> "present", version |-> 1, scope |-> scope]
                /\ content' = [content EXCEPT ![1] = scope]
          /\ Goes(r, Idle)
          /\ UNCHANGED <<deliveries, link>>
       \/ (report.state # "absent" \/ Owner \notin registered) /\ Fails(r)
    /\ UNCHANGED people

(* Mutant: the header keeps the scope of the version before.               *)
HeaderKeepingScope(version, scope) == [report EXCEPT !.version = version]

HeaderFor(version, scope) == [report EXCEPT !.version = version, !.scope = scope]

(* Mutant: an edit of the same base replaces the version.                  *)
WriteVersionAgain(r) ==
    LET q == request[r] IN
    /\ q.op = "edit" /\ q.step = "write"
    /\ \/ /\ Present
          /\ \E scope \in Renderings(q.scope.workspaces) :
                /\ report' = HeaderFor(q.version, scope)
                /\ content' = [content EXCEPT ![q.version] = scope]
          /\ Goes(r, Idle)
          /\ UNCHANGED <<deliveries, link>>
       \/ ~ Present /\ Fails(r)
    /\ UNCHANGED people

(* updateReportWithNewVersion: the key on (report, version) fails the      *)
(* batch, header and all, when another edit has appended that version.     *)
WriteVersion(r) ==
    LET q == request[r] IN
    /\ q.op = "edit" /\ q.step = "write"
    /\ \/ /\ Present /\ q.version \notin Stored
          /\ \E scope \in Renderings(q.scope.workspaces) :
                /\ report' = HeaderFor(q.version, scope)
                /\ content' = [content EXCEPT ![q.version] = scope]
          /\ Goes(r, Idle)
          /\ UNCHANGED <<deliveries, link>>
       \/ (~ Present \/ q.version \in Stored) /\ Fails(r)
    /\ UNCHANGED people

Bury(l) == IF l.state \in Alive THEN [l EXCEPT !.state = "gone"] ELSE l

(* Versions, deliveries and links cascade away with the header.            *)
DropReport ==
    /\ report' = [report EXCEPT !.state = "gone"]
    /\ content' = [v \in Versions |-> NoScope]
    /\ deliveries' = {}
    /\ link' = [l \in Links |-> Bury(link[l])]

DeleteReport(r) ==
    /\ request[r].op = "delete" /\ request[r].step = "write"
    /\ \/ Present /\ DropReport /\ Goes(r, Idle)
       \/ ~ Present /\ Fails(r)
    /\ UNCHANGED people

(* createReportDeliveries: one statement for all recipients.               *)
Deliver(r) ==
    LET q == request[r] IN
    /\ q.op = "send" /\ q.step = "write"
    /\ \/ /\ q.version \in Stored /\ q.to \subseteq registered
          /\ deliveries' = deliveries \cup {[version |-> q.version, to |-> u] : u \in q.to}
          /\ Goes(r, Idle)
          /\ UNCHANGED <<report, content, link>>
       \/ (q.version \notin Stored \/ ~ q.to \subseteq registered) /\ Fails(r)
    /\ UNCHANGED people

(* createReportShare.                                                      *)
MintLink(r) ==
    LET q == request[r] IN
    /\ q.op \in {"share", "reshare"} /\ q.step = "write"
    /\ \/ /\ q.version \in Stored /\ q.actor \in registered
          /\ \E l \in Links :
                /\ link[l].state = "absent"
                /\ link' = [link EXCEPT ![l] =
                        [state |-> "live", version |-> q.version, by |-> q.actor]]
          /\ Goes(r, Idle)
          /\ UNCHANGED <<report, content, deliveries>>
       \/ (q.version \notin Stored \/ q.actor \notin registered) /\ Fails(r)
    /\ UNCHANGED people

(* revokeReportShare.                                                      *)
RevokeLink(r) ==
    LET l == request[r].link IN
    /\ request[r].op = "revoke" /\ request[r].step = "write"
    /\ link' = [link EXCEPT ![l].state = IF @ \in Alive THEN "revoked" ELSE @]
    /\ Goes(r, Idle)
    /\ UNCHANGED <<people, report, content, deliveries>>

(* respondWithContent: the view is counted, the page answered.             *)
ServeView(r) ==
    /\ request[r].op = "view" /\ request[r].step = "write"
    /\ Goes(r, Idle)
    /\ UNCHANGED <<people, documents>>

(* The worker dies, or a statement fails.                                  *)
HandlerDies(r) ==
    /\ request[r] # Idle
    /\ Goes(r, Idle)
    /\ UNCHANGED <<people, documents>>

(***************************************************************************)
(* The world around the report.                                            *)
(***************************************************************************)
Expire(l) ==
    /\ link[l].state = "live"
    /\ link' = [link EXCEPT ![l].state = "expired"]
    /\ UNCHANGED <<people, report, content, deliveries, request>>

(* Memberships and roles change; WorkspaceAccess models how.               *)
AccessChanges ==
    /\ \/ \E w \in Workspaces, U \in SUBSET registered :
            members' = [members EXCEPT ![w] = U] /\ UNCHANGED readers
       \/ \E p \in Projects, U \in SUBSET (registered \ {Owner}) :
            readers' = [readers EXCEPT ![p] = U] /\ UNCHANGED members
    /\ UNCHANGED <<registered, documents, request>>

(* An account goes, and with it its memberships, report, copies and links. *)
DeleteAccount(u) ==
    /\ u \in registered
    /\ registered' = registered \ {u}
    /\ members' = [w \in Workspaces |-> members[w] \ {u}]
    /\ readers' = [p \in Projects |-> readers[p] \ {u}]
    /\ IF u = Owner /\ Present THEN DropReport
       ELSE /\ deliveries' = {d \in deliveries : d.to # u}
            /\ link' = [l \in Links |-> IF link[l].by = u THEN Bury(link[l]) ELSE link[l]]
            /\ UNCHANGED <<report, content>>
    /\ UNCHANGED request

(***************************************************************************)
(* What the history variables observe of a step.                           *)
(***************************************************************************)
MayRead(u, scope) ==
    (\A w \in scope.workspaces : u \in members[w]) /\ (\A p \in scope.projects : u \in readers[p])

(* Whoever the request opens a version to may read it: the recipients all  *)
(* of it, its owner its workspaces.                                        *)
Fit(q, scope) ==
    /\ Covers(Owner, scope.workspaces)
    /\ \A u \in q.to \ {Owner} : MayRead(u, scope)

Disseminates(q) == q.op \in {"send", "share"}
Carries(r) == Disseminates(request'[r]) /\ request'[r].step \in {"bind", "write"}

Observe ==
    /\ fit' = {r \in Requests :
            /\ Carries(r)
            /\ IF request[r] = Idle THEN Fit(request'[r], report.scope)
               ELSE IF request'[r].version # request[r].version
               THEN Fit(request'[r], content[request'[r].version])
               ELSE r \in fit}
    /\ overtaken' = {r \in Requests :
            /\ Carries(r)
            /\ \/ r \in overtaken
               \/ request[r] # Idle /\ report'.version # report.version}

Begin(r) ==
    \/ \E W \in SUBSET Workspaces : BeginCreate(r, W) \/ BeginEdit(r, W)
    \/ \E to \in SUBSET Users : BeginSend(r, to)
    \/ \E d \in Delivery : BeginReshare(r, d)
    \/ \E l \in Links : BeginRevoke(r, l) \/ BeginView(r, l)
    \/ BeginDelete(r) \/ BeginShare(r)

Proceed(r) ==
    \/ Render(r) \/ Bind(r)
    \/ CreateReport(r) \/ WriteVersion(r) \/ DeleteReport(r)
    \/ Deliver(r) \/ MintLink(r) \/ RevokeLink(r) \/ ServeView(r)

Next ==
    /\ \/ \E r \in Requests : Begin(r) \/ Proceed(r) \/ HandlerDies(r)
       \/ \E l \in Links : Expire(l)
       \/ \E u \in Users : DeleteAccount(u)
       \/ AccessChanges
    /\ Observe

Spec == Init /\ [][Next]_vars

(***************************************************************************)
(* Properties.                                                             *)
(***************************************************************************)

(* reports.ts (schema):67: the header is the current state and points at   *)
(* the latest version; its scope, which send and share are checked         *)
(* against, is the one that version was rendered in.                       *)
HeaderIsLatest ==
    /\ Present => report.version \in Stored /\ report.scope = content[report.version]
    /\ Stored = IF Present THEN 1 .. report.version ELSE {}

(* Two edits of one version never both land, and a version once written    *)
(* stays as it is: the only edit that lands is one that has read the       *)
(* latest version, and it appends the next.  BookSpec, which the run       *)
(* checks, contains this given HeaderIsLatest.                             *)
VersionsOnlyAppend ==
    [][Present /\ report'.state = "present" =>
        /\ report' # report => report'.version = report.version + 1
        /\ \A v \in Stored : content'[v] = content[v]]_vars

(* reports.ts:761: a send does not widen who sees the data.  Whoever is    *)
(* about to receive a version could read all of it when it was checked or  *)
(* read, and a link is minted only on a version whose workspaces its owner *)
(* covered; unless an edit overtook the request after its check.           *)
OpenedToReaders ==
    \A r \in Requests :
        Disseminates(request[r]) /\ request[r].step = "write" => r \in fit \cup overtaken

(* inbox.ts:188: a recipient re-shares exactly what was received.          *)
ResharesWhatWasReceived ==
    \A l \in Links :
        link[l].state \in Alive /\ link[l].by # Owner =>
            [version |-> link[l].version, to |-> link[l].by] \in deliveries

(* share.ts:20 and report-shares.ts:32: once revoked, expired or deleted   *)
(* with its version, a link stays so whatever else is in flight, and no    *)
(* view that loads it from then on is served.                              *)
DeadLinksStayDead ==
    [][\A l \in Links : link[l].state \notin {"absent", "live"} =>
        /\ link'[l].state \notin {"absent", "live"}
        /\ \A r \in Requests : request'[r].op = "view" /\ request'[r].link = l =>
                request[r] = request'[r]]_vars

(* The tables keep the promises of PublishedReport: the header and its     *)
(* version rows are one list that is only appended to, deliveries are      *)
(* copies of its members, and a link is opened once, on a version its      *)
(* opener has, and stays shut.                                             *)
Editions == IF Present THEN [v \in 1 .. report.version |-> content[v]] ELSE <<>>
Doors == {[link |-> l, version |-> link[l].version, by |-> link[l].by] :
             l \in {k \in Links : link[k].state = "live"}}
Spent == {l \in Links : link[l].state # "absent"}
Book == INSTANCE PublishedReport WITH
    Scopes <- Scope, editions <- Editions, withdrawn <- (report.state = "gone"),
    copies <- deliveries, doors <- Doors, spent <- Spent
BookSpec == Book!Spec

(* reports.ts:761 without the exception (a run that expects a violation).  *)
SendNeverWidens ==
    [][\A r \in Requests :
        request[r].op = "send" /\ deliveries' # deliveries /\ request'[r] # request[r] => r \in fit]_vars
============================================================================
