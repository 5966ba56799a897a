-------------------------- MODULE WorkspaceAccess --------------------------
(***************************************************************************)
(* Who belongs where: workspaces, their members and roles, projects, and   *)
(* project members, under the routes that change them.  The routes check   *)
(* first and write later, in statements of their own: requireAuth and      *)
(* requireWorkspaceAccess are one step here, the checks of the target a    *)
(* second, and every write that follows one more.  Foreign keys and unique *)
(* keys hold at each write; nothing else re-checks.                        *)
(***************************************************************************)
EXTENDS Naturals, FiniteSets

CONSTANTS
    Users,            \* accounts that exist at first
    InstanceAdmins,   \* those whose row says isAdmin
    Workspaces,       \* workspace ids
    Projects,         \* project ids
    Home,             \* the workspace a project id belongs to once created
    Requests,         \* concurrent requests
    None

ASSUME HomeAssumption == Home \in [Projects -> Workspaces]
ASSUME AdminAssumption == InstanceAdmins \subseteq Users
ASSUME NoneAssumption == None \notin Workspaces

VARIABLES
    registered,       \* users with a row
    workspaceState,   \* "absent" until created, then live, archived, deleted
    role,             \* workspace_members: a role, or "none" without a row
    projectState,     \* "absent" until created, then active, archived, deleted
    projectMembers,   \* project_members
    request,          \* requests past their first check
    \* History variables.
    crossed,          \* pairs whose removal overlapped a grant to a project
    contested,        \* workspaces created while their creator was being deleted
    grace             \* requests already in flight when a workspace was archived

tables == <<registered, workspaceState, role, projectState, projectMembers>>
vars == <<tables, request, crossed, contested, grace>>

Roles == {"none", "member", "admin", "owner"}
Ops == {"idle", "addMember", "removeMember", "createProject", "patchProject",
        "deleteProject", "addProjectMember", "removeProjectMember",
        "patchWorkspace", "deleteWorkspace", "createWorkspace", "deleteUser"}
Steps == {"idle", "target", "write", "members", "finish"}

(* users holds the accounts a request is about; value the role, or whether *)
(* to archive.                                                             *)
RequestState == [op : Ops, step : Steps, workspace : Workspaces \cup {None},
                 projects : SUBSET Projects, users : SUBSET Users,
                 value : Roles \cup {"archive", "unarchive"}]
Idle == [op |-> "idle", step |-> "idle", workspace |-> None, projects |-> {},
         users |-> {}, value |-> "none"]

TypeOK ==
    /\ registered \subseteq Users
    /\ workspaceState \in [Workspaces -> {"absent", "live", "archived", "deleted"}]
    /\ role \in [Workspaces -> [Users -> Roles]]
    /\ projectState \in [Projects -> {"absent", "active", "archived", "deleted"}]
    /\ projectMembers \in [Projects -> SUBSET Users]
    /\ request \in [Requests -> RequestState]
    /\ crossed \subseteq Workspaces \X Users
    /\ contested \subseteq Workspaces
    /\ grace \subseteq Requests

Init ==
    /\ registered = Users
    /\ workspaceState = [w \in Workspaces |-> "absent"]
    /\ role = [w \in Workspaces |-> [u \in Users |-> "none"]]
    /\ projectState = [p \in Projects |-> "absent"]
    /\ projectMembers = [p \in Projects |-> {}]
    /\ request = [r \in Requests |-> Idle]
    /\ crossed = {}
    /\ contested = {}
    /\ grace = {}

(***************************************************************************)
(* What the checks read.                                                   *)
(***************************************************************************)
Exists(w) == workspaceState[w] \in {"live", "archived"}
ProjectExists(p) == projectState[p] \in {"active", "archived"}
MembersOf(w) == {u \in Users : role[w][u] # "none"}

ROLE_RANK == [none |-> 0, member |-> 1, admin |-> 2, owner |-> 3]
MinRole(op) == IF op = "deleteWorkspace" THEN "owner" ELSE "admin"

(* Mutant: creating a project forgets { write: true }.                     *)
WritesButCreate(op) == op \notin {"patchWorkspace", "deleteWorkspace", "createProject"}

(* Routes that call requireWorkspaceAccess with { write: true }.           *)
Writes(op) == op \notin {"patchWorkspace", "deleteWorkspace"}

(* requireWorkspaceAccess; an instance admin passes for any workspace.     *)
HasAccess(a, w, op) ==
    /\ Exists(w)
    /\ a \in InstanceAdmins \/ ROLE_RANK[role[w][a]] >= ROLE_RANK[MinRole(op)]
    /\ Writes(op) => workspaceState[w] # "archived"

(***************************************************************************)
(* The start of a request; one that is refused changes nothing.            *)
(***************************************************************************)
Start(r, q) ==
    /\ request[r] = Idle
    /\ request' = [request EXCEPT ![r] = q]
    /\ UNCHANGED <<tables, contested>>

Asked(op, step, w, P, U, value) ==
    [op |-> op, step |-> step, workspace |-> w, projects |-> P, users |-> U, value |-> value]

(* POST /workspaces: instance admins only, who become owners.              *)
BeginCreateWorkspace(r, a) ==
    /\ a \in registered \cap InstanceAdmins
    /\ Start(r, Asked("createWorkspace", "write", None, {}, {a}, "owner"))

(* DELETE /users/:id: never oneself, never the last instance admin.        *)
BeginDeleteUser(r, a, u) ==
    /\ a \in registered \cap InstanceAdmins
    /\ u \in registered \ {a}
    /\ u \in InstanceAdmins => Cardinality(InstanceAdmins \cap registered) > 1
    /\ Start(r, Asked("deleteUser", "target", None, {}, {u}, "none"))

(* PATCH and DELETE /workspaces/:id.                                       *)
BeginWorkspace(r, a, w) ==
    \/ /\ HasAccess(a, w, "patchWorkspace")
       /\ \E value \in {"archive", "unarchive"} :
            Start(r, Asked("patchWorkspace", "write", w, {}, {}, value))
    \/ /\ HasAccess(a, w, "deleteWorkspace")
       /\ Start(r, Asked("deleteWorkspace", "write", w, {}, {}, "none"))

(* POST and DELETE /workspaces/:id/members.                                *)
BeginMember(r, a, w, u) ==
    \/ /\ HasAccess(a, w, "addMember")
       /\ \E value \in {"member", "admin"} :
            Start(r, Asked("addMember", "target", w, {}, {u}, value))
    \/ /\ HasAccess(a, w, "removeMember")
       /\ Start(r, Asked("removeMember", "target", w, {}, {u}, "none"))

(* POST /workspaces/:id/projects with its initial members.                 *)
BeginCreateProject(r, a, w, U) ==
    /\ HasAccess(a, w, "createProject")
    /\ Start(r, Asked("createProject", "target", w, {}, U, "none"))

(* PATCH and DELETE /projects/:id.  The row, with its status, is read      *)
(* before access is checked.                                               *)
BeginProject(r, a, p) ==
    /\ ProjectExists(p)
    /\ \/ /\ HasAccess(a, Home[p], "patchProject")
          /\ \E value \in {"archive", "unarchive"} :
                Start(r, Asked("patchProject", "write", Home[p], {p}, {}, value))
       \/ /\ HasAccess(a, Home[p], "deleteProject")
          /\ projectState[p] = "archived"
          /\ Start(r, Asked("deleteProject", "write", Home[p], {p}, {}, "none"))

(* POST and DELETE /projects/:id/members.                                  *)
BeginProjectMember(r, a, p, u) ==
    /\ ProjectExists(p)
    /\ \/ /\ HasAccess(a, Home[p], "addProjectMember")
          /\ Start(r, Asked("addProjectMember", "target", Home[p], {p}, {u}, "none"))
       \/ /\ HasAccess(a, Home[p], "removeProjectMember")
          /\ Start(r, Asked("removeProjectMember", "write", Home[p], {p}, {u}, "none"))

(***************************************************************************)
(* The checks of the target.                                               *)
(***************************************************************************)

(* Mutant: anybody's membership can be removed.                            *)
RemovableMember(x) == x # "none"

Removable(x) == x \in {"member", "admin"}

(* Mutant: ownership of an archived workspace is overlooked.               *)
OwnsLiveWorkspace(u) ==
    \E w \in Workspaces : workspaceState[w] = "live" /\ role[w][u] = "owner"

(* userOwnsAnyWorkspace.                                                   *)
OwnsAnyWorkspace(u) == \E w \in Workspaces : role[w][u] = "owner"

Accepted(q) ==
    \A u \in q.users :
        CASE q.op = "addMember" -> u \in registered /\ role[q.workspace][u] = "none"
          [] q.op = "removeMember" -> Removable(role[q.workspace][u])
          [] q.op = "deleteUser" -> ~ OwnsAnyWorkspace(u)
          [] OTHER -> role[q.workspace][u] # "none"

AfterCheck(q) == [q EXCEPT !.step = IF q.op = "addProjectMember" THEN "members" ELSE "write"]

CheckTarget(r) ==
    LET q == request[r] IN
    /\ q.step = "target"
    /\ request' = [request EXCEPT ![r] = IF Accepted(q) THEN AfterCheck(q) ELSE Idle]
    /\ UNCHANGED <<tables, contested>>

(***************************************************************************)
(* The writes, one statement or batch each.  A violated key answers an     *)
(* error and leaves the tables alone.                                      *)
(***************************************************************************)
Writing(r, op, step) == request[r].op = op /\ request[r].step = step
Goes(r, q) == request' = [request EXCEPT ![r] = q]

(* addMember.                                                              *)
InsertMember(r) ==
    LET q == request[r] IN
    /\ Writing(r, "addMember", "write")
    /\ role' = [role EXCEPT ![q.workspace] = [u \in Users |->
            IF u \in q.users \cap registered /\ @[u] = "none" /\ Exists(q.workspace)
            THEN q.value ELSE @[u]]]
    /\ Goes(r, Idle)
    /\ UNCHANGED <<registered, workspaceState, projectState, projectMembers, contested>>

(* Mutant: archived projects keep their members.                           *)
UnarchivedProjectsOf(w) == {p \in Projects : Home[p] = w /\ projectState[p] # "archived"}

ProjectsOf(w) == {p \in Projects : Home[p] = w}

(* removeMemberFromWorkspaceProjects.                                      *)
RemoveFromProjects(r) ==
    LET q == request[r] IN
    /\ Writing(r, "removeMember", "write")
    /\ projectMembers' = [p \in Projects |->
            IF p \in ProjectsOf(q.workspace) THEN projectMembers[p] \ q.users ELSE projectMembers[p]]
    /\ Goes(r, [q EXCEPT !.step = "finish"])
    /\ UNCHANGED <<registered, workspaceState, role, projectState, contested>>

(* removeMember: by key, whatever the role has become.                     *)
DeleteMembership(r) ==
    LET q == request[r] IN
    /\ Writing(r, "removeMember", "finish")
    /\ role' = [role EXCEPT ![q.workspace] = [u \in Users |->
            IF u \in q.users THEN "none" ELSE @[u]]]
    /\ Goes(r, Idle)
    /\ UNCHANGED <<registered, workspaceState, projectState, projectMembers, contested>>

(* createProject; its members follow one by one.                           *)
InsertProject(r) ==
    LET q == request[r] IN
    /\ Writing(r, "createProject", "write")
    /\ \/ \E p \in ProjectsOf(q.workspace) :
            /\ Exists(q.workspace)
            /\ projectState[p] = "absent"
            /\ projectState' = [projectState EXCEPT ![p] = "active"]
            /\ Goes(r, IF q.users = {} THEN Idle ELSE [q EXCEPT !.step = "members", !.projects = {p}])
       \/ ~ Exists(q.workspace) /\ Goes(r, Idle) /\ UNCHANGED projectState
    /\ UNCHANGED <<registered, workspaceState, role, projectMembers, contested>>

(* addProjectMember, for the next user to add.                             *)
InsertProjectMember(r) ==
    LET q == request[r] IN
    /\ q.step = "members"
    /\ \E u \in q.users, p \in q.projects :
        \/ /\ u \in registered /\ ProjectExists(p)
           /\ projectMembers' = [projectMembers EXCEPT ![p] = @ \cup {u}]
           /\ Goes(r, IF q.users = {u} THEN Idle ELSE [q EXCEPT !.users = @ \ {u}])
        \/ /\ u \notin registered \/ ~ ProjectExists(p)
           /\ Goes(r, Idle) /\ UNCHANGED projectMembers
    /\ UNCHANGED <<registered, workspaceState, role, projectState, contested>>

(* removeProjectMember.                                                    *)
DeleteProjectMember(r) ==
    LET q == request[r] IN
    /\ Writing(r, "removeProjectMember", "write")
    /\ projectMembers' = [p \in Projects |->
            IF p \in q.projects THEN projectMembers[p] \ q.users ELSE projectMembers[p]]
    /\ Goes(r, Idle)
    /\ UNCHANGED <<registered, workspaceState, role, projectState, contested>>

(* updateProject.                                                          *)
UpdateProject(r) ==
    LET q == request[r] IN
    /\ Writing(r, "patchProject", "write")
    /\ projectState' = [p \in Projects |->
            IF p \in q.projects /\ ProjectExists(p)
            THEN IF q.value = "archive" THEN "archived" ELSE "active"
            ELSE projectState[p]]
    /\ Goes(r, Idle)
    /\ UNCHANGED <<registered, workspaceState, role, projectMembers, contested>>

(* Deleting rows of projects cascades to their members.                    *)
DropProjects(P) ==
    /\ projectState' = [p \in Projects |->
            IF p \in P /\ ProjectExists(p) THEN "deleted" ELSE projectState[p]]
    /\ projectMembers' = [p \in Projects |-> IF p \in P THEN {} ELSE projectMembers[p]]

DeleteProject(r) ==
    /\ Writing(r, "deleteProject", "write")
    /\ DropProjects(request[r].projects)
    /\ Goes(r, Idle)
    /\ UNCHANGED <<registered, workspaceState, role, contested>>

(* updateWorkspace with archivedAt.                                        *)
UpdateWorkspace(r) ==
    LET q == request[r] IN
    /\ Writing(r, "patchWorkspace", "write")
    /\ workspaceState' = IF Exists(q.workspace)
            THEN [workspaceState EXCEPT ![q.workspace] =
                    IF q.value = "archive" THEN "archived" ELSE "live"]
            ELSE workspaceState
    /\ Goes(r, Idle)
    /\ UNCHANGED <<registered, role, projectState, projectMembers, contested>>

(* deleteWorkspace and its cascades.                                       *)
DeleteWorkspace(r) ==
    LET w == request[r].workspace IN
    /\ Writing(r, "deleteWorkspace", "write")
    /\ workspaceState' = [workspaceState EXCEPT ![w] = "deleted"]
    /\ role' = [role EXCEPT ![w] = [u \in Users |-> "none"]]
    /\ DropProjects(ProjectsOf(w))
    /\ Goes(r, Idle)
    /\ UNCHANGED <<registered, contested>>

BeingDeleted(u) == \E r \in Requests : request[r].op = "deleteUser" /\ u \in request[r].users

(* createWorkspace: the row and its owner in one batch, or neither.        *)
InsertWorkspace(r) ==
    /\ Writing(r, "createWorkspace", "write")
    /\ \/ \E w \in Workspaces, u \in request[r].users \cap registered :
            /\ workspaceState[w] = "absent"
            /\ workspaceState' = [workspaceState EXCEPT ![w] = "live"]
            /\ role' = [role EXCEPT ![w][u] = "owner"]
            /\ contested' = IF BeingDeleted(u) THEN contested \cup {w} ELSE contested
       \/ /\ request[r].users \cap registered = {}
          /\ UNCHANGED <<workspaceState, role, contested>>
    /\ Goes(r, Idle)
    /\ UNCHANGED <<registered, projectState, projectMembers>>

(* deleteUser: memberships cascade.                                        *)
DeleteUser(r) ==
    LET gone == request[r].users IN
    /\ Writing(r, "deleteUser", "write")
    /\ registered' = registered \ gone
    /\ role' = [w \in Workspaces |-> [u \in Users |-> IF u \in gone THEN "none" ELSE role[w][u]]]
    /\ projectMembers' = [p \in Projects |-> projectMembers[p] \ gone]
    /\ Goes(r, Idle)
    /\ UNCHANGED <<workspaceState, projectState, contested>>

(* The worker dies, or a statement fails, between two steps.               *)
HandlerDies(r) ==
    /\ request[r] # Idle
    /\ Goes(r, Idle)
    /\ UNCHANGED <<tables, contested>>

(***************************************************************************)
(* What the history variables observe of a step.                           *)
(***************************************************************************)
Removes(q, w, u) == q.op = "removeMember" /\ q.workspace = w /\ u \in q.users
Grants(q, w, u) ==
    q.op \in {"createProject", "addProjectMember"} /\ q.workspace = w /\ u \in q.users
Overlap(w, u) ==
    \E q, r \in Requests : Removes(request[q], w, u) /\ Grants(request[r], w, u)

(* A removal that nothing overlaps puts an earlier crossing right.         *)
Repairs(r, w, u) ==
    Removes(request[r], w, u) /\ request[r].step = "write" /\ request'[r].step = "finish"

Observe ==
    /\ crossed' = {c \in Workspaces \X Users :
            \/ Overlap(c[1], c[2])'
            \/ c \in crossed /\ ~ \E r \in Requests : Repairs(r, c[1], c[2])}
    /\ grace' = {r \in Requests :
            /\ request'[r] # Idle
            /\ r \in grace \/ \E w \in Workspaces :
                    workspaceState[w] # "archived" /\ workspaceState'[w] = "archived"}

Begin(r) ==
    \E a \in registered :
        \/ BeginCreateWorkspace(r, a)
        \/ \E u \in Users : BeginDeleteUser(r, a, u)
        \/ \E w \in Workspaces :
            \/ BeginWorkspace(r, a, w)
            \/ \E u \in Users : BeginMember(r, a, w, u)
            \/ \E U \in SUBSET Users : BeginCreateProject(r, a, w, U)
        \/ \E p \in Projects :
            \/ BeginProject(r, a, p)
            \/ \E u \in Users : BeginProjectMember(r, a, p, u)

Write(r) ==
    \/ InsertMember(r) \/ RemoveFromProjects(r) \/ DeleteMembership(r)
    \/ InsertProject(r) \/ InsertProjectMember(r) \/ DeleteProjectMember(r)
    \/ UpdateProject(r) \/ DeleteProject(r)
    \/ InsertWorkspace(r) \/ UpdateWorkspace(r) \/ DeleteWorkspace(r)
    \/ DeleteUser(r)

Next ==
    /\ \E r \in Requests : Begin(r) \/ CheckTarget(r) \/ Write(r) \/ HandlerDies(r)
    /\ Observe

Spec == Init /\ [][Next]_vars

(***************************************************************************)
(* Properties.                                                             *)
(***************************************************************************)

(* domain.ts:84: a project member is always also a workspace member, even  *)
(* when a worker dies half way through a removal; unless a removal and a   *)
(* grant for the same user overlapped, and until the next removal.         *)
MembershipHolds ==
    \A p \in Projects : \A u \in projectMembers[p] :
        role[Home[p]][u] # "none" \/ <<Home[p], u>> \in crossed

(* users.ts:165: a workspace has exactly one owner as long as it exists,   *)
(* unless its creator was being deleted while it was created.              *)
OneOwner ==
    \A w \in Workspaces \ contested :
        Exists(w) => \E u \in registered : {v \in Users : role[w][v] = "owner"} = {u}

(* permissions.md, principle 8: an archived workspace is read-only.  What  *)
(* still changes in one was requested before it was archived, or goes with *)
(* an account or with the workspace itself.                                *)
Contents(w) ==
    <<role[w], [p \in ProjectsOf(w) |-> projectState[p]], [p \in ProjectsOf(w) |-> projectMembers[p]]>>
ArchivedIsReadOnly ==
    [][\A w \in Workspaces :
        workspaceState[w] = "archived" /\ Contents(w)' # Contents(w) =>
            \/ workspaceState'[w] = "deleted"
            \/ registered' # registered
            \/ \E r \in grace : request'[r] # request[r]]_vars

(* permissions.md: the owner cannot be removed.  Ownership ends only with  *)
(* the workspace or the account, whatever requests race.                   *)
OwnerStays ==
    [][\A w \in Workspaces, u \in Users :
        role[w][u] = "owner" /\ role'[w][u] # "owner" =>
            workspaceState'[w] = "deleted" \/ u \notin registered']_vars

(* project-members.ts:129 without exceptions (a run that expects a         *)
(* violation): a project member must always be a workspace member.         *)
ProjectMembersBelong ==
    \A p \in Projects : projectMembers[p] \subseteq MembersOf(Home[p])
============================================================================
