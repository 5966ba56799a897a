----------------------- MODULE WorkspaceAccessProofs -----------------------
(***************************************************************************)
(* What holds of WorkspaceAccess for any number of users, workspaces,      *)
(* projects and concurrent requests.                                       *)
(***************************************************************************)
EXTENDS WorkspaceAccess, TLAPS

(***************************************************************************)
(* The inductive invariant.                                                *)
(***************************************************************************)
GlobalOps == {"idle", "createWorkspace", "deleteUser"}
GrantOps == {"createProject", "addProjectMember"}

(* What a request carries fits its operation, and the workspace it was     *)
(* checked against has existed.                                            *)
RequestOK(q) ==
    /\ q.op \notin GlobalOps =>
            q.workspace \in Workspaces /\ workspaceState[q.workspace] # "absent"
    /\ q.projects \subseteq ProjectsOf(q.workspace)
    /\ q.step = "finish" => q.op = "removeMember"
    /\ q.step = "members" => q.op \in GrantOps
    /\ q.op = "addMember" => q.value \in {"member", "admin"}

RequestsOK == \A r \in Requests : RequestOK(request[r])

(* The foreign keys of the tables.                                         *)
KeysHold ==
    /\ \A w \in Workspaces, u \in Users :
            role[w][u] # "none" => Exists(w) /\ u \in registered
    /\ \A p \in Projects : ProjectExists(p) => Exists(Home[p])

(* A removal and a grant in flight for the same user are crossed.          *)
OverlapsNoted ==
    \A w \in Workspaces, u \in Users : Overlap(w, u) => <<w, u>> \in crossed

Belongs(w, u) == role[w][u] # "none" \/ <<w, u>> \in crossed

(* A grant past its check is for a member, unless crossed.                 *)
GrantsChecked ==
    \A r \in Requests : LET q == request[r] IN
        q.op \in GrantOps /\ q.step \in {"write", "members"} =>
            \A u \in q.users \cap registered :
                Exists(q.workspace) => Belongs(q.workspace, u)

(* A removal half way through has left no project membership, unless       *)
(* crossed.                                                                *)
RemovalsClean ==
    \A r \in Requests : LET q == request[r] IN
        q.step = "finish" =>
            \A u \in q.users, p \in ProjectsOf(q.workspace) :
                u \in projectMembers[p] => <<q.workspace, u>> \in crossed

(* A removal past its check is not for an owner, a deletion of an account  *)
(* not for the owner of an uncontested workspace.                          *)
OwnersSafe ==
    \A r \in Requests : LET q == request[r] IN
        q.step \in {"write", "finish"} =>
            /\ q.op = "removeMember" => \A u \in q.users : role[q.workspace][u] # "owner"
            /\ q.op = "deleteUser" => \A u \in q.users, w \in Workspaces :
                    role[w][u] = "owner" => w \in contested

BaseInv == TypeOK /\ RequestsOK /\ KeysHold
MemberInv == BaseInv /\ OverlapsNoted /\ GrantsChecked /\ RemovalsClean /\ MembershipHolds
OwnerInv == BaseInv /\ OwnersSafe /\ OneOwner

StepOf(r) == Begin(r) \/ CheckTarget(r) \/ Write(r) \/ HandlerDies(r)

(***************************************************************************)
(* What the history variables observe.                                     *)
(***************************************************************************)

(* The history variables keep their types.                                 *)
LEMMA ObserveTypes ==
    ASSUME Observe
    PROVE  crossed' \subseteq Workspaces \X Users /\ grace' \subseteq Requests
BY DEF Observe

(* Overlaps are noted as they arise.                                       *)
LEMMA ObserveOverlap ==
    ASSUME Observe
    PROVE  OverlapsNoted'
BY DEF Observe, OverlapsNoted

(* A crossing is only forgotten when a removal repairs it.                 *)
LEMMA CrossedStays ==
    ASSUME Observe, NEW w \in Workspaces, NEW u \in Users, <<w, u>> \in crossed,
           \A r \in Requests : ~ Repairs(r, w, u)
    PROVE  <<w, u>> \in crossed'
BY DEF Observe

(***************************************************************************)
(* Types and keys.                                                         *)
(***************************************************************************)

(* The start of a request leaves the tables alone, and the checks of its   *)
(* target lie ahead where the route has them.                              *)
Opens(r, q) ==
    /\ request' = [request EXCEPT ![r] = q]
    /\ UNCHANGED <<tables, contested>>
    /\ q \in RequestState
    /\ RequestOK(q)
    /\ q.step \in {"target", "write"}
    /\ q.op \in GrantOps \cup {"removeMember", "deleteUser"} => q.step = "target"

LEMMA StartOpens ==
    ASSUME NEW r \in Requests, NEW op \in Ops, NEW step \in {"target", "write"},
           NEW w \in Workspaces, workspaceState[w] # "absent",
           NEW P \in SUBSET ProjectsOf(w), NEW U \in SUBSET Users,
           NEW value \in Roles \cup {"archive", "unarchive"},
           op = "addMember" => value \in {"member", "admin"},
           op \in GrantOps \cup {"removeMember", "deleteUser"} => step = "target",
           Start(r, Asked(op, step, w, P, U, value))
    PROVE  \E q : Opens(r, q)
<1> DEFINE q == Asked(op, step, w, P, U, value)
<1>1. P \subseteq Projects
  BY DEF ProjectsOf
<1>2. q \in RequestState
  BY <1>1 DEF Asked, RequestState, Steps
<1>3. RequestOK(q) /\ q.step = step /\ q.op = op
  BY DEF Asked, RequestOK
<1> QED
  BY <1>2, <1>3 DEF Start, Opens

LEMMA BeginStep ==
    ASSUME BaseInv, NEW r \in Requests, Begin(r)
    PROVE  \E q : Opens(r, q)
<1> USE HomeAssumption
<1>1. PICK a \in registered :
        \/ BeginCreateWorkspace(r, a)
        \/ \E u \in Users : BeginDeleteUser(r, a, u)
        \/ \E w \in Workspaces : BeginWorkspace(r, a, w)
        \/ \E w \in Workspaces, u \in Users : BeginMember(r, a, w, u)
        \/ \E w \in Workspaces, U \in SUBSET Users : BeginCreateProject(r, a, w, U)
        \/ \E p \in Projects : BeginProject(r, a, p)
        \/ \E p \in Projects, u \in Users : BeginProjectMember(r, a, p, u)
  BY DEF Begin
<1>2. a \in Users
  BY DEF BaseInv, TypeOK
<1>3. ASSUME NEW w \in Workspaces, NEW op \in Ops, HasAccess(a, w, op)
      PROVE  workspaceState[w] # "absent"
  BY <1>3 DEF HasAccess, Exists
<1>4. \A p \in Projects : Home[p] \in Workspaces /\ {p} \subseteq ProjectsOf(Home[p])
  BY DEF ProjectsOf
<1> USE DEF Ops, GrantOps, Roles
<1>5. CASE BeginCreateWorkspace(r, a)
  <2> DEFINE q == Asked("createWorkspace", "write", None, {}, {a}, "owner")
  <2>1. q \in RequestState /\ RequestOK(q) /\ q.step = "write" /\ q.op = "createWorkspace"
    BY <1>2 DEF Asked, RequestState, RequestOK, Steps, GlobalOps
  <2> QED
    BY <1>5, <2>1 DEF BeginCreateWorkspace, Start, Opens
<1>6. CASE \E u \in Users : BeginDeleteUser(r, a, u)
  <2>1. PICK u \in Users : BeginDeleteUser(r, a, u)
    BY <1>6
  <2> DEFINE q == Asked("deleteUser", "target", None, {}, {u}, "none")
  <2>2. q \in RequestState /\ RequestOK(q) /\ q.step = "target"
    BY DEF Asked, RequestState, RequestOK, Steps, GlobalOps
  <2> QED
    BY <2>1, <2>2 DEF BeginDeleteUser, Start, Opens
<1>7. CASE \E w \in Workspaces : BeginWorkspace(r, a, w)
  <2>1. PICK w \in Workspaces : BeginWorkspace(r, a, w)
    BY <1>7
  <2> QED
    BY <2>1, <1>3, StartOpens DEF BeginWorkspace
<1>8. CASE \E w \in Workspaces, u \in Users : BeginMember(r, a, w, u)
  <2>1. PICK w \in Workspaces, u \in Users : BeginMember(r, a, w, u)
    BY <1>8
  <2> QED
    BY <2>1, <1>3, StartOpens DEF BeginMember
<1>9. CASE \E w \in Workspaces, U \in SUBSET Users : BeginCreateProject(r, a, w, U)
  <2>1. PICK w \in Workspaces, U \in SUBSET Users : BeginCreateProject(r, a, w, U)
    BY <1>9
  <2> QED
    BY <2>1, <1>3, StartOpens DEF BeginCreateProject
<1>10. CASE \E p \in Projects : BeginProject(r, a, p)
  <2>1. PICK p \in Projects : BeginProject(r, a, p)
    BY <1>10
  <2> QED
    BY <2>1, <1>3, <1>4, StartOpens DEF BeginProject
<1>11. CASE \E p \in Projects, u \in Users : BeginProjectMember(r, a, p, u)
  <2>1. PICK p \in Projects, u \in Users : BeginProjectMember(r, a, p, u)
    BY <1>11
  <2> QED
    BY <2>1, <1>3, <1>4, StartOpens DEF BeginProjectMember
<1> QED
  BY <1>1, <1>5, <1>6, <1>7, <1>8, <1>9, <1>10, <1>11

(* What every step does to the record of the request it serves.            *)
Advances(r, q) ==
    /\ request' = [request EXCEPT ![r] = q]
    /\ q \in RequestState
    /\ RequestOK(q)

LEMMA IdleOK == Idle \in RequestState /\ RequestOK(Idle) /\ Idle.op = "idle" /\ Idle.step = "idle"
BY DEF Idle, RequestState, RequestOK, Ops, Steps, Roles, GlobalOps

LEMMA CheckStep ==
    ASSUME BaseInv, NEW r \in Requests, CheckTarget(r)
    PROVE  \E q : Advances(r, q) /\ UNCHANGED <<tables, contested>>
<1>1. request[r] \in RequestState /\ RequestOK(request[r])
  BY DEF BaseInv, TypeOK, RequestsOK
<1>2. AfterCheck(request[r]) \in RequestState /\ RequestOK(AfterCheck(request[r]))
  BY <1>1 DEF AfterCheck, RequestState, RequestOK, Steps, GrantOps, CheckTarget
<1> QED
  BY <1>1, <1>2, IdleOK DEF CheckTarget, Advances

(* The tables of a well-typed state, and their foreign keys.               *)
TablesOK ==
    /\ registered \subseteq Users
    /\ workspaceState \in [Workspaces -> {"absent", "live", "archived", "deleted"}]
    /\ role \in [Workspaces -> [Users -> Roles]]
    /\ projectState \in [Projects -> {"absent", "active", "archived", "deleted"}]
    /\ projectMembers \in [Projects -> SUBSET Users]
    /\ contested \subseteq Workspaces
    /\ KeysHold

NoneReturns ==
    \A w \in Workspaces : workspaceState[w] # "absent" => workspaceState'[w] # "absent"

LEMMA WriteStep ==
    ASSUME BaseInv, NEW r \in Requests, Write(r)
    PROVE  TablesOK' /\ NoneReturns /\ \E q : Advances(r, q)
<1> DEFINE q == request[r]
<1>1. TablesOK /\ q \in RequestState /\ RequestOK(q)
  BY DEF BaseInv, TypeOK, RequestsOK, TablesOK
<1>2. /\ q.users \subseteq Users /\ q.projects \subseteq Projects
      /\ q.op \notin GlobalOps => q.workspace \in Workspaces /\ workspaceState[q.workspace] # "absent"
      /\ q.projects \subseteq ProjectsOf(q.workspace)
      /\ q.op = "addMember" => q.value \in {"member", "admin"}
  BY <1>1 DEF RequestState, RequestOK
<1> USE DEF TablesOK, KeysHold, NoneReturns, Writing, Goes, Exists, ProjectExists
<1>3. CASE InsertMember(r)
  <2>1. q.workspace \in Workspaces /\ q.value \in Roles \ {"none"}
    BY <1>2, <1>3 DEF InsertMember, GlobalOps, Roles
  <2>2. TablesOK' /\ NoneReturns
    BY <1>1, <1>2, <1>3, <2>1 DEF InsertMember
  <2> QED
    BY <2>2, <1>3, IdleOK DEF InsertMember, Advances
<1>4. CASE RemoveFromProjects(r)
  <2>1. TablesOK' /\ NoneReturns
    BY <1>1, <1>2, <1>4 DEF RemoveFromProjects
  <2>2. [q EXCEPT !.step = "finish"] \in RequestState /\ RequestOK([q EXCEPT !.step = "finish"])
    BY <1>1, <1>4 DEF RemoveFromProjects, RequestState, RequestOK, Steps
  <2> QED
    BY <2>1, <2>2, <1>4 DEF RemoveFromProjects, Advances
<1>5. CASE DeleteMembership(r)
  <2>1. TablesOK' /\ NoneReturns
    <3>1. q.workspace \in Workspaces
      BY <1>2, <1>5 DEF DeleteMembership, GlobalOps
    <3>2. role' \in [Workspaces -> [Users -> Roles]]
      BY <1>1, <1>5, <3>1 DEF DeleteMembership, Roles
    <3> QED
      BY <1>1, <1>5, <3>1, <3>2 DEF DeleteMembership
  <2> QED
    BY <2>1, <1>5, IdleOK DEF DeleteMembership, Advances
<1>6. CASE InsertProject(r)
  <2>1. CASE Goes(r, Idle) /\ UNCHANGED projectState
    BY <1>1, <1>6, <2>1, IdleOK DEF InsertProject, Advances
  <2>2. ASSUME NEW p \in ProjectsOf(q.workspace), Exists(q.workspace),
               projectState' = [projectState EXCEPT ![p] = "active"],
               Goes(r, IF q.users = {} THEN Idle
                       ELSE [q EXCEPT !.step = "members", !.projects = {p}])
        PROVE  TablesOK' /\ NoneReturns /\ \E n : Advances(r, n)
    <3>1. p \in Projects /\ Home[p] = q.workspace
      BY DEF ProjectsOf
    <3>2. TablesOK' /\ NoneReturns
      BY <1>1, <1>6, <2>2, <3>1 DEF InsertProject
    <3> DEFINE n == [q EXCEPT !.step = "members", !.projects = {p}]
    <3>3. n \in RequestState
      BY <1>1, <3>1 DEF RequestState, Steps
    <3>4. n.op = "createProject" /\ n.workspace = q.workspace /\ n.step = "members" /\ n.projects = {p}
      BY <1>1, <1>6 DEF InsertProject, RequestState
    <3>5. RequestOK(n)
      BY <1>1, <1>6, <3>4 DEF InsertProject, RequestOK, GrantOps
    <3> QED
      BY <2>2, <3>2, <3>3, <3>5, IdleOK DEF Advances
  <2> QED
    BY <1>6, <2>1, <2>2 DEF InsertProject
<1>7. CASE InsertProjectMember(r)
  <2>1. TablesOK' /\ NoneReturns
    BY <1>1, <1>2, <1>7 DEF InsertProjectMember
  <2>2. \A u \in q.users : LET n == [q EXCEPT !.users = @ \ {u}] IN
            n \in RequestState /\ RequestOK(n)
    BY <1>1, <1>2 DEF RequestState, RequestOK
  <2> QED
    BY <1>7, <2>1, <2>2, IdleOK DEF InsertProjectMember, Advances
<1>8. CASE DeleteProjectMember(r)
  BY <1>1, <1>2, <1>8, IdleOK DEF DeleteProjectMember, Advances
<1>9. CASE UpdateProject(r)
  <2>1. TablesOK' /\ NoneReturns
    BY <1>1, <1>2, <1>9 DEF UpdateProject
  <2> QED
    BY <2>1, <1>9, IdleOK DEF UpdateProject, Advances
<1>10. CASE DeleteProject(r)
  <2>1. TablesOK' /\ NoneReturns
    BY <1>1, <1>2, <1>10 DEF DeleteProject, DropProjects
  <2> QED
    BY <2>1, <1>10, IdleOK DEF DeleteProject, Advances
<1>11. CASE InsertWorkspace(r)
  <2>1. TablesOK' /\ NoneReturns
    <3>1. CASE UNCHANGED <<workspaceState, role, contested>>
      BY <1>1, <1>11, <3>1 DEF InsertWorkspace
    <3>2. ASSUME NEW w \in Workspaces, NEW u \in q.users \cap registered,
                 workspaceState[w] = "absent",
                 workspaceState' = [workspaceState EXCEPT ![w] = "live"],
                 role' = [role EXCEPT ![w][u] = "owner"],
                 contested' = IF BeingDeleted(u) THEN contested \cup {w} ELSE contested
          PROVE  TablesOK' /\ NoneReturns
      <4>1. role' \in [Workspaces -> [Users -> Roles]]
        BY <1>1, <1>2, <3>2 DEF Roles
      <4>2. KeysHold'
        BY <1>1, <1>2, <1>11, <3>2, <4>1 DEF InsertWorkspace
      <4> QED
        BY <1>1, <1>11, <3>2, <4>1, <4>2 DEF InsertWorkspace
    <3> QED
      BY <1>11, <3>1, <3>2 DEF InsertWorkspace
  <2> QED
    BY <2>1, <1>11, IdleOK DEF InsertWorkspace, Advances
<1>12. CASE UpdateWorkspace(r)
  <2>1. TablesOK' /\ NoneReturns
    BY <1>1, <1>2, <1>12 DEF UpdateWorkspace, GlobalOps
  <2> QED
    BY <2>1, <1>12, IdleOK DEF UpdateWorkspace, Advances
<1>13. CASE DeleteWorkspace(r)
  <2>1. TablesOK' /\ NoneReturns
    BY <1>1, <1>2, <1>13, HomeAssumption DEF DeleteWorkspace, DropProjects, ProjectsOf, Roles, GlobalOps
  <2> QED
    BY <2>1, <1>13, IdleOK DEF DeleteWorkspace, Advances
<1>14. CASE DeleteUser(r)
  <2>1. TablesOK' /\ NoneReturns
    BY <1>1, <1>2, <1>14 DEF DeleteUser, Roles
  <2> QED
    BY <2>1, <1>14, IdleOK DEF DeleteUser, Advances
<1> QED
  BY <1>3, <1>4, <1>5, <1>6, <1>7, <1>8, <1>9, <1>10, <1>11, <1>12, <1>13, <1>14 DEF Write

LEMMA BaseStep ==
    ASSUME BaseInv, [Next]_vars
    PROVE  BaseInv'
<1>1. CASE UNCHANGED vars
  <2>1. \A r \in Requests : RequestOK(request[r])'
    BY <1>1 DEF vars, tables, BaseInv, RequestsOK, RequestOK, ProjectsOf
  <2> QED
    BY <1>1, <2>1 DEF vars, tables, BaseInv, TypeOK, RequestsOK, KeysHold, Exists, ProjectExists
<1>2. CASE Next
  <2>1. PICK r \in Requests : StepOf(r)
    BY <1>2 DEF Next, StepOf
  <2>2. TablesOK' /\ NoneReturns /\ \E q : Advances(r, q)
    <3>1. CASE Begin(r)
      BY <3>1, BeginStep DEF BaseInv, TypeOK, TablesOK, NoneReturns, Opens, Advances, tables,
                             KeysHold, Exists, ProjectExists
    <3>2. CASE CheckTarget(r)
      BY <3>2, CheckStep DEF BaseInv, TypeOK, TablesOK, NoneReturns, tables,
                             KeysHold, Exists, ProjectExists
    <3>3. CASE HandlerDies(r)
      BY <3>3, IdleOK DEF HandlerDies, Goes, BaseInv, TypeOK, TablesOK, NoneReturns, Advances,
                          tables, KeysHold, Exists, ProjectExists
    <3> QED
      BY <2>1, <3>1, <3>2, <3>3, WriteStep DEF StepOf
  <2>3. PICK q : Advances(r, q)
    BY <2>2
  <2>4. TypeOK'
    BY <1>2, <2>2, <2>3, ObserveTypes DEF Next, TablesOK, Advances, BaseInv, TypeOK
  <2>5. ASSUME NEW x \in Requests PROVE RequestOK(request[x])'
    <3>1. RequestOK(request'[x]) /\ request'[x] \in RequestState
      BY <2>3 DEF Advances, BaseInv, TypeOK, RequestsOK
    <3> QED
      BY <2>2, <3>1 DEF RequestOK, NoneReturns, ProjectsOf
  <2> QED
    BY <2>2, <2>4, <2>5 DEF BaseInv, RequestsOK, TablesOK
<1> QED
  BY <1>1, <1>2

(* Type correctness: every reachable state is well typed, every request    *)
(* record fits its operation, and the foreign keys hold.                   *)
LEMMA BaseInit == Init => BaseInv
BY IdleOK DEF Init, BaseInv, TypeOK, RequestsOK, KeysHold, ProjectExists, Roles

THEOREM TypeCorrect == Spec => []TypeOK
<1>1. BaseInv => TypeOK
  BY DEF BaseInv
<1> QED
  BY <1>1, BaseInit, BaseStep, PTL DEF Spec

(***************************************************************************)
(* Project members are workspace members.                                  *)
(***************************************************************************)

(* Steps that leave the tables alone.                                      *)
LEMMA QuietSteps ==
    ASSUME BaseInv, NEW r \in Requests, Begin(r) \/ CheckTarget(r) \/ HandlerDies(r)
    PROVE  UNCHANGED <<tables, contested>>
BY BeginStep, CheckStep DEF HandlerDies, Opens

(* A deleted workspace or account does not come back.                      *)
LEMMA NothingReturns ==
    ASSUME BaseInv, NEW r \in Requests, StepOf(r)
    PROVE  /\ registered' \subseteq registered
           /\ \A w \in Workspaces : workspaceState[w] # "absent" /\ Exists(w)' => Exists(w)
<1>1. CASE Write(r)
  BY <1>1 DEF Write, InsertMember, RemoveFromProjects, DeleteMembership, InsertProject,
      InsertProjectMember, DeleteProjectMember, UpdateProject, DeleteProject, InsertWorkspace,
      UpdateWorkspace, DeleteWorkspace, DeleteUser, Exists, BaseInv, TypeOK
<1> QED
  BY <1>1, QuietSteps DEF StepOf, tables, Exists

(* A membership ends with its removal, its account or its workspace; the   *)
(* last two end the project memberships with it.                           *)
LEMMA RoleKept ==
    ASSUME BaseInv, NEW r \in Requests, StepOf(r), NEW w \in Workspaces, NEW u \in Users,
           role[w][u] # "none"
    PROVE  \/ role'[w][u] # "none"
           \/ DeleteMembership(r) /\ Removes(request[r], w, u)
           \/ /\ u \notin registered' \/ ~ Exists(w)'
              /\ \A p \in ProjectsOf(w) : u \notin projectMembers'[p]
<1>1. /\ role \in [Workspaces -> [Users -> Roles]]
      /\ workspaceState \in [Workspaces -> {"absent", "live", "archived", "deleted"}]
      /\ projectMembers \in [Projects -> SUBSET Users]
      /\ request[r] \in RequestState
      /\ \A p \in ProjectsOf(w) : p \in Projects
  BY DEF BaseInv, TypeOK, ProjectsOf
<1>2. CASE Write(r) /\ UNCHANGED role
  BY <1>2
<1>3. CASE InsertMember(r)
  BY <1>1, <1>3 DEF InsertMember
<1>4. CASE DeleteMembership(r)
  BY <1>1, <1>4 DEF DeleteMembership, Removes, Writing
<1>5. CASE DeleteWorkspace(r)
  BY <1>1, <1>5 DEF DeleteWorkspace, DropProjects, Exists
<1>6. CASE InsertWorkspace(r)
  BY <1>1, <1>6 DEF InsertWorkspace
<1>7. CASE DeleteUser(r)
  BY <1>1, <1>7 DEF DeleteUser
<1> QED
  BY <1>2, <1>3, <1>4, <1>5, <1>6, <1>7, QuietSteps DEF StepOf, Write, RemoveFromProjects,
     InsertProject, InsertProjectMember, DeleteProjectMember, UpdateProject, DeleteProject,
     UpdateWorkspace, DropProjects, tables

(* A project membership begins with the statement of a grant.              *)
LEMMA MembersGrow ==
    ASSUME BaseInv, NEW r \in Requests, StepOf(r), NEW p \in Projects, NEW u \in Users,
           u \in projectMembers'[p], u \notin projectMembers[p]
    PROVE  /\ InsertProjectMember(r)
           /\ u \in request[r].users \cap registered
           /\ p \in request[r].projects /\ ProjectExists(p)
           /\ UNCHANGED <<role, workspaceState>>
<1>1. projectMembers \in [Projects -> SUBSET Users]
  BY DEF BaseInv, TypeOK
<1>2. CASE InsertProjectMember(r)
  BY <1>1, <1>2 DEF InsertProjectMember
<1>3. ~ RemoveFromProjects(r) /\ ~ DeleteProjectMember(r) /\ ~ DeleteUser(r)
  BY <1>1 DEF RemoveFromProjects, DeleteProjectMember, DeleteUser
<1>4. ~ DeleteWorkspace(r) /\ ~ DeleteProject(r)
  BY <1>1 DEF DeleteWorkspace, DeleteProject, DropProjects
<1> QED
  BY <1>2, <1>3, <1>4, QuietSteps DEF StepOf, Write, InsertMember, DeleteMembership,
     InsertProject, UpdateProject, InsertWorkspace, UpdateWorkspace, tables

(* Only the first statement of a removal forgets a crossing, and it clears *)
(* the project memberships.                                                *)
LEMMA CrossedKept ==
    ASSUME BaseInv, NEW r \in Requests, StepOf(r), Observe,
           NEW w \in Workspaces, NEW u \in Users, <<w, u>> \in crossed, <<w, u>> \notin crossed'
    PROVE  /\ RemoveFromProjects(r) /\ Removes(request[r], w, u)
           /\ \A p \in ProjectsOf(w) : u \notin projectMembers'[p]
<1>1. PICK x \in Requests : Repairs(x, w, u)
  BY CrossedStays
<1>2. \E q : request' = [request EXCEPT ![r] = q]
  BY BeginStep, CheckStep, WriteStep DEF StepOf, HandlerDies, Goes, Opens, Advances
<1>3. request \in [Requests -> RequestState]
  BY DEF BaseInv, TypeOK
<1>4. x = r
  BY <1>1, <1>2, <1>3 DEF Repairs
<1>5. /\ request[r].op = "removeMember" /\ request[r].step = "write" /\ request'[r].step = "finish"
      /\ request[r].workspace = w /\ u \in request[r].users
  BY <1>1, <1>4 DEF Repairs, Removes
<1>6. ~ Begin(r) /\ ~ CheckTarget(r) /\ ~ HandlerDies(r)
  <2>1. ~ Begin(r)
    BY <1>3, <1>5, BeginStep DEF Opens
  <2> QED
    BY <1>3, <1>5, <2>1, IdleOK DEF CheckTarget, HandlerDies, Goes
<1>7. RemoveFromProjects(r)
  BY <1>5, <1>6 DEF StepOf, Write, Writing, InsertMember, DeleteMembership, InsertProject,
      InsertProjectMember, DeleteProjectMember, UpdateProject, DeleteProject, InsertWorkspace,
      UpdateWorkspace, DeleteWorkspace, DeleteUser
<1>8. \A p \in ProjectsOf(w) : p \in Projects /\ u \notin projectMembers'[p]
  BY <1>5, <1>7 DEF RemoveFromProjects, ProjectsOf
<1> QED
  BY <1>5, <1>7, <1>8 DEF Removes

(* A grant gets past its check by the check, and then works off its users. *)
LEMMA GrantPast ==
    ASSUME BaseInv, NEW r \in Requests, StepOf(r), request'[r].op \in GrantOps,
           request'[r].step \in {"write", "members"}
    PROVE  /\ request[r].op = request'[r].op
           /\ request[r].workspace = request'[r].workspace
           /\ request'[r].users \subseteq request[r].users
           /\ \/ CheckTarget(r) /\ Accepted(request[r])
              \/ request[r].step \in {"write", "members"}
<1>1. request \in [Requests -> RequestState] /\ request[r] \in RequestState
  BY DEF BaseInv, TypeOK
<1>2. request'[r] # Idle
  BY IdleOK DEF GrantOps
<1>3. ~ Begin(r)
  BY <1>1, BeginStep DEF Opens
<1>4. CASE CheckTarget(r)
  BY <1>1, <1>2, <1>4 DEF CheckTarget, AfterCheck, RequestState
<1>5. CASE InsertProject(r)
  <2>1. request[r].op = "createProject" /\ request[r].step = "write"
    BY <1>5 DEF InsertProject, Writing
  <2>2. PICK p \in Projects :
            request' = [request EXCEPT ![r] = [request[r] EXCEPT !.step = "members", !.projects = {p}]]
    BY <1>1, <1>2, <1>5 DEF InsertProject, Goes, ProjectsOf
  <2> QED
    BY <1>1, <2>1, <2>2 DEF RequestState
<1>6. CASE InsertProjectMember(r)
  <2>1. PICK u \in request[r].users :
            request' = [request EXCEPT ![r] = [request[r] EXCEPT !.users = @ \ {u}]]
    BY <1>1, <1>2, <1>6 DEF InsertProjectMember, Goes
  <2>2. request[r].step = "members"
    BY <1>6 DEF InsertProjectMember
  <2> QED
    BY <1>1, <2>1, <2>2 DEF RequestState
<1>7. ~ RemoveFromProjects(r)
  <2> SUFFICES ASSUME RemoveFromProjects(r) PROVE FALSE
    OBVIOUS
  <2>1. request'[r].op = "removeMember"
    BY <1>1 DEF RemoveFromProjects, Goes, Writing, RequestState
  <2> QED
    BY <2>1 DEF GrantOps
<1> QED
  BY <1>1, <1>2, <1>3, <1>4, <1>5, <1>6, <1>7 DEF StepOf, Write, HandlerDies, Goes, InsertMember,
     DeleteMembership, DeleteProjectMember, UpdateProject, DeleteProject, InsertWorkspace,
     UpdateWorkspace, DeleteWorkspace, DeleteUser

(* A removal reaches its second statement through its first.               *)
LEMMA RemovalHalfway ==
    ASSUME BaseInv, NEW r \in Requests, StepOf(r), request'[r].step = "finish"
    PROVE  /\ RemoveFromProjects(r)
           /\ request'[r].workspace = request[r].workspace
           /\ request'[r].users = request[r].users
<1>1. request \in [Requests -> RequestState] /\ request[r] \in RequestState
  BY DEF BaseInv, TypeOK
<1>2. request'[r] # Idle
  BY IdleOK
<1>3. ~ Begin(r)
  BY <1>1, BeginStep DEF Opens
<1>4. ~ CheckTarget(r)
  BY <1>1, <1>2 DEF CheckTarget, AfterCheck, RequestState
<1>5. ~ InsertProject(r) /\ ~ InsertProjectMember(r)
  BY <1>1, <1>2 DEF InsertProject, InsertProjectMember, Goes, RequestState
<1> QED
  BY <1>1, <1>2, <1>3, <1>4, <1>5 DEF StepOf, Write, HandlerDies, Goes, InsertMember, RemoveFromProjects,
     DeleteMembership, DeleteProjectMember, UpdateProject, DeleteProject, InsertWorkspace,
     UpdateWorkspace, DeleteWorkspace, DeleteUser, RequestState

LEMMA MemberStep ==
    ASSUME MemberInv, Next
    PROVE  MemberInv'
<1>1. PICK r \in Requests : StepOf(r)
  BY DEF Next, StepOf
<1>2. Observe /\ BaseInv /\ BaseInv' /\ OverlapsNoted'
  BY BaseStep, ObserveOverlap DEF Next, MemberInv
<1>3. /\ request \in [Requests -> RequestState]
      /\ \A x \in Requests : x # r => request'[x] = request[x]
  BY <1>1, BeginStep, CheckStep, WriteStep
  DEF MemberInv, BaseInv, TypeOK, StepOf, HandlerDies, Goes, Opens, Advances
<1>4. \A x \in Requests : /\ request[x].users \subseteq Users /\ RequestOK(request[x])
                          /\ request[x].op \notin GlobalOps => request[x].workspace \in Workspaces
  BY <1>2 DEF BaseInv, TypeOK, RequestsOK, RequestOK, RequestState
<1>5. GrantsChecked'
  <2> SUFFICES ASSUME NEW x \in Requests, request'[x].op \in GrantOps,
                      request'[x].step \in {"write", "members"},
                      NEW u \in request'[x].users, u \in registered',
                      NEW w, w = request'[x].workspace, Exists(w)', role'[w][u] = "none"
               PROVE  <<w, u>> \in crossed'
    BY DEF GrantsChecked, Belongs, Exists
  <2>1. /\ request[x].op \in GrantOps /\ request[x].workspace = w /\ u \in request[x].users
        /\ \/ x = r /\ CheckTarget(r) /\ Accepted(request[x])
           \/ request[x].step \in {"write", "members"}
    BY <1>1, <1>2, <1>3, GrantPast
  <2>2. w \in Workspaces /\ u \in Users /\ workspaceState[w] # "absent"
    BY <1>4, <2>1 DEF RequestOK, GrantOps, GlobalOps
  <2>3. u \in registered /\ Exists(w)
    BY <1>1, <1>2, <2>2, NothingReturns
  <2>4. Belongs(w, u)
    <3>1. CASE x = r /\ CheckTarget(r) /\ Accepted(request[x])
      BY <2>1, <3>1 DEF Accepted, GrantOps, Belongs
    <3> QED
      BY <2>1, <2>3, <3>1 DEF MemberInv, GrantsChecked
  <2>5. CASE <<w, u>> \in crossed
    <3> SUFFICES ASSUME <<w, u>> \notin crossed' PROVE FALSE
      OBVIOUS
    <3>1. RemoveFromProjects(r) /\ Removes(request[r], w, u)
      BY <1>1, <1>2, <2>2, <2>5, CrossedKept
    <3>2. Removes(request'[r], w, u)
      BY <1>3, <1>4, <3>1 DEF RemoveFromProjects, Removes, Goes
    <3>3. Grants(request'[x], w, u)
      BY DEF Grants, GrantOps
    <3>4. \E y, z \in Requests : Removes(request'[y], w, u) /\ Grants(request'[z], w, u)
      BY <3>2, <3>3
    <3> QED
      BY <1>2, <2>2, <3>4 DEF OverlapsNoted, Overlap, Removes, Grants
  <2>6. CASE role[w][u] # "none"
    <3>1. DeleteMembership(r) /\ Removes(request[r], w, u)
      BY <1>1, <1>2, <2>2, <2>6, RoleKept
    <3>2. Grants(request[x], w, u)
      BY <2>1 DEF Grants, GrantOps
    <3>3. <<w, u>> \in crossed
      BY <2>2, <3>1, <3>2 DEF MemberInv, OverlapsNoted, Overlap
    <3> QED
      BY <2>5, <3>3
  <2> QED
    BY <2>4, <2>5, <2>6 DEF Belongs
<1>6. RemovalsClean'
  <2> SUFFICES ASSUME NEW x \in Requests, request'[x].step = "finish",
                      NEW u \in request'[x].users, NEW p \in ProjectsOf(request'[x].workspace),
                      u \in projectMembers'[p]
               PROVE  <<request'[x].workspace, u>> \in crossed'
    BY DEF RemovalsClean, ProjectsOf
  <2> DEFINE w == request'[x].workspace
  <2>1. p \in Projects /\ Home[p] = w /\ w \in Workspaces
    BY HomeAssumption DEF ProjectsOf
  <2>2. ~ RemoveFromProjects(r) \/ x # r
    BY <1>3, <2>1 DEF RemoveFromProjects, Goes, RequestState
  <2>3. request'[x] = request[x]
    BY <1>1, <1>2, <1>3, <2>2, RemovalHalfway
  <2>4. request[x].op = "removeMember" /\ u \in Users
    BY <1>4, <2>3 DEF RequestOK
  <2>5. <<w, u>> \in crossed
    <3>1. CASE u \in projectMembers[p]
      BY <2>3, <3>1 DEF MemberInv, RemovalsClean
    <3>2. CASE u \notin projectMembers[p]
      <4>1. InsertProjectMember(r) /\ u \in request[r].users /\ p \in request[r].projects
        BY <1>1, <1>2, <2>1, <2>4, <3>2, MembersGrow
      <4>2. request[r].workspace = w
        BY <1>4, <2>1, <4>1 DEF RequestOK, ProjectsOf
      <4>3. Grants(request[r], w, u)
        BY <1>4, <4>1, <4>2 DEF Grants, GrantOps, RequestOK, InsertProjectMember
      <4> QED
        BY <2>1, <2>3, <2>4, <4>3 DEF MemberInv, OverlapsNoted, Overlap, Removes
    <3> QED
      BY <3>1, <3>2
  <2> QED
    BY <1>1, <1>2, <2>1, <2>4, <2>5, CrossedKept
<1>7. MembershipHolds'
  <2> SUFFICES ASSUME NEW p \in Projects, NEW u \in projectMembers'[p], role'[Home[p]][u] = "none"
               PROVE  <<Home[p], u>> \in crossed'
    BY DEF MembershipHolds
  <2> DEFINE w == Home[p]
  <2>1. u \in Users /\ w \in Workspaces /\ p \in ProjectsOf(w)
    BY <1>2, HomeAssumption DEF BaseInv, TypeOK, ProjectsOf
  <2>2. Belongs(w, u)
    <3>1. CASE u \in projectMembers[p]
      BY <3>1 DEF MemberInv, MembershipHolds, Belongs
    <3>2. CASE u \notin projectMembers[p]
      <4>1. /\ InsertProjectMember(r) /\ u \in request[r].users \cap registered
            /\ p \in request[r].projects /\ ProjectExists(p)
        BY <1>1, <1>2, <2>1, <3>2, MembersGrow
      <4>2. request[r].workspace = w /\ request[r].op \in GrantOps /\ request[r].step = "members"
        BY <1>4, <4>1 DEF RequestOK, ProjectsOf, InsertProjectMember
      <4>3. Exists(w)
        BY <1>2, <2>1, <4>1 DEF BaseInv, KeysHold
      <4> QED
        BY <4>1, <4>2, <4>3 DEF MemberInv, GrantsChecked
    <3> QED
      BY <3>1, <3>2
  <2>3. CASE role[w][u] # "none"
    <3>1. DeleteMembership(r) /\ Removes(request[r], w, u)
      BY <1>1, <1>2, <2>1, <2>3, RoleKept
    <3>2. u \in projectMembers[p]
      BY <3>1 DEF DeleteMembership
    <3>3. <<w, u>> \in crossed
      BY <2>1, <3>1, <3>2 DEF MemberInv, RemovalsClean, Removes, DeleteMembership, Writing
    <3> QED
      BY <1>1, <1>2, <2>1, <3>3, CrossedKept
  <2>4. CASE <<w, u>> \in crossed
    BY <1>1, <1>2, <2>1, <2>4, CrossedKept
  <2> QED
    BY <2>2, <2>3, <2>4 DEF Belongs
<1> QED
  BY <1>2, <1>5, <1>6, <1>7 DEF MemberInv

(* domain.ts:84: every project member is a workspace member, for any       *)
(* number of requests in flight and wherever they die, but for the users   *)
(* whose removal overlapped a grant.                                       *)
THEOREM MembersAlwaysBelong == Spec => []MembershipHolds
<1>1. Init => MemberInv
  BY BaseInit, IdleOK DEF Init, MemberInv, OverlapsNoted, Overlap, Removes, GrantsChecked,
     RemovalsClean, MembershipHolds, GrantOps
<1>2. MemberInv /\ UNCHANGED vars => MemberInv'
  <2> SUFFICES ASSUME MemberInv, UNCHANGED vars PROVE MemberInv'
    OBVIOUS
  <2>1. BaseInv'
    BY BaseStep DEF MemberInv
  <2>2. (OverlapsNoted /\ GrantsChecked /\ RemovalsClean /\ MembershipHolds)'
    BY DEF vars, tables, MemberInv, OverlapsNoted, Overlap, GrantsChecked, RemovalsClean,
           MembershipHolds, Belongs, Exists, ProjectsOf
  <2> QED
    BY <2>1, <2>2 DEF MemberInv
<1>3. MemberInv => MembershipHolds
  BY DEF MemberInv
<1> QED
  BY <1>1, <1>2, <1>3, MemberStep, PTL DEF Spec

(***************************************************************************)
(* Owners.                                                                 *)
(***************************************************************************)

(* Every step replaces one request's record.                               *)
LEMMA OneMoves ==
    ASSUME BaseInv, NEW r \in Requests, StepOf(r)
    PROVE  /\ request \in [Requests -> RequestState]
           /\ \A x \in Requests : x # r => request'[x] = request[x]
BY BeginStep, CheckStep, WriteStep
DEF BaseInv, TypeOK, StepOf, HandlerDies, Goes, Opens, Advances

(* Ownership begins with the workspace, as its only role, and is contested *)
(* if the account is being deleted.                                        *)
LEMMA OwnerBegins ==
    ASSUME BaseInv, NEW r \in Requests, StepOf(r), NEW w \in Workspaces, NEW u \in Users,
           role'[w][u] = "owner", role[w][u] # "owner"
    PROVE  /\ workspaceState[w] = "absent"
           /\ BeingDeleted(u) => w \in contested'
           /\ \A v \in Users : role'[w][v] = "owner" => v = u
           /\ UNCHANGED registered /\ u \in registered
<1>1. /\ role \in [Workspaces -> [Users -> Roles]]
      /\ workspaceState \in [Workspaces -> {"absent", "live", "archived", "deleted"}]
      /\ request[r] \in RequestState /\ RequestOK(request[r])
      /\ ~ Exists(w) => \A v \in Users : role[w][v] = "none"
  BY DEF BaseInv, TypeOK, RequestsOK, KeysHold
<1>2. ~ UNCHANGED role
  OBVIOUS
<1>3. ~ InsertMember(r)
  BY <1>1 DEF InsertMember, RequestOK, Writing
<1>4. ~ DeleteMembership(r) /\ ~ DeleteWorkspace(r) /\ ~ DeleteUser(r)
  <2>1. ~ DeleteMembership(r)
    BY <1>1 DEF DeleteMembership
  <2>2. ~ DeleteWorkspace(r)
    BY <1>1 DEF DeleteWorkspace
  <2>3. ~ DeleteUser(r)
    BY <1>1 DEF DeleteUser
  <2> QED
    BY <2>1, <2>2, <2>3
<1>5. CASE InsertWorkspace(r)
  <2>1. PICK y \in Workspaces, v \in request[r].users \cap registered :
            /\ workspaceState[y] = "absent"
            /\ role' = [role EXCEPT ![y][v] = "owner"]
            /\ contested' = IF BeingDeleted(v) THEN contested \cup {y} ELSE contested
    BY <1>2, <1>5 DEF InsertWorkspace
  <2>2. y = w /\ v = u
    BY <1>1, <2>1
  <2>3. \A v2 \in Users : v2 # u => role'[w][v2] = "none"
    BY <1>1, <2>1, <2>2 DEF Exists
  <2> QED
    BY <1>5, <2>1, <2>2, <2>3 DEF InsertWorkspace
<1> QED
  BY <1>2, <1>3, <1>4, <1>5, QuietSteps DEF StepOf, Write, RemoveFromProjects,
     InsertProject, InsertProjectMember, DeleteProjectMember, UpdateProject, DeleteProject,
     UpdateWorkspace, DropProjects, tables

(* Ownership ends with the workspace, or with the account, and then the    *)
(* workspace was contested.                                                *)
LEMMA OwnerEnds ==
    ASSUME BaseInv, OwnersSafe, NEW r \in Requests, StepOf(r),
           NEW w \in Workspaces, NEW u \in Users,
           role[w][u] = "owner", role'[w][u] # "owner"
    PROVE  \/ workspaceState'[w] = "deleted"
           \/ u \notin registered' /\ w \in contested
<1>1. /\ role \in [Workspaces -> [Users -> Roles]]
      /\ workspaceState \in [Workspaces -> {"absent", "live", "archived", "deleted"}]
  BY DEF BaseInv, TypeOK
<1>2. ~ UNCHANGED role
  OBVIOUS
<1>3. ~ InsertMember(r) /\ ~ InsertWorkspace(r)
  BY <1>1 DEF InsertMember, InsertWorkspace
<1>4. ~ DeleteMembership(r)
  <2> SUFFICES ASSUME DeleteMembership(r) PROVE FALSE
    OBVIOUS
  <2>1. request[r].workspace = w /\ u \in request[r].users
    BY <1>1 DEF DeleteMembership
  <2> QED
    BY <2>1 DEF DeleteMembership, Writing, OwnersSafe
<1>5. CASE DeleteWorkspace(r)
  BY <1>1, <1>5 DEF DeleteWorkspace
<1>6. CASE DeleteUser(r)
  <2>1. u \in request[r].users
    BY <1>1, <1>6 DEF DeleteUser
  <2> QED
    BY <1>6, <2>1 DEF DeleteUser, Writing, OwnersSafe
<1> QED
  BY <1>2, <1>3, <1>4, <1>5, <1>6, QuietSteps DEF StepOf, Write, RemoveFromProjects,
     InsertProject, InsertProjectMember, DeleteProjectMember, UpdateProject, DeleteProject,
     UpdateWorkspace, DropProjects, tables

(* A removal or the deletion of an account comes to its statements by its  *)
(* check.                                                                  *)
LEMMA RemovalPast ==
    ASSUME BaseInv, NEW r \in Requests, StepOf(r), request'[r].op \in {"removeMember", "deleteUser"},
           request'[r].step \in {"write", "finish"}
    PROVE  /\ request[r].op = request'[r].op
           /\ request[r].workspace = request'[r].workspace
           /\ request[r].users = request'[r].users
           /\ \/ Accepted(request[r]) /\ UNCHANGED <<role, contested>>
              \/ request[r].step \in {"write", "finish"}
<1>1. request \in [Requests -> RequestState] /\ request[r] \in RequestState /\ RequestOK(request[r])
  BY DEF BaseInv, TypeOK, RequestsOK
<1>2. request'[r] # Idle
  BY IdleOK
<1>3. ~ Begin(r)
  BY <1>1, BeginStep DEF Opens
<1>4. CASE CheckTarget(r)
  BY <1>1, <1>2, <1>4 DEF CheckTarget, AfterCheck, RequestState, tables
<1>5. CASE RemoveFromProjects(r)
  BY <1>1, <1>5 DEF RemoveFromProjects, Goes, Writing, RequestState
<1>6. ~ InsertProject(r)
  BY <1>1, <1>2 DEF InsertProject, Goes, Writing, RequestState
<1>7. ~ InsertProjectMember(r)
  BY <1>1, <1>2 DEF InsertProjectMember, Goes, RequestOK, GrantOps, RequestState
<1> QED
  BY <1>1, <1>2, <1>3, <1>4, <1>5, <1>6, <1>7 DEF StepOf, Write, HandlerDies, Goes, InsertMember,
     DeleteMembership, DeleteProjectMember, UpdateProject, DeleteProject, InsertWorkspace,
     UpdateWorkspace, DeleteWorkspace, DeleteUser

LEMMA ContestedStays ==
    ASSUME BaseInv, NEW r \in Requests, StepOf(r)
    PROVE  contested \subseteq contested'
BY QuietSteps DEF StepOf, Write, InsertMember, RemoveFromProjects, DeleteMembership, InsertProject,
   InsertProjectMember, DeleteProjectMember, UpdateProject, DeleteProject, InsertWorkspace,
   UpdateWorkspace, DeleteWorkspace, DeleteUser

LEMMA OwnerStep ==
    ASSUME OwnerInv, NEW r \in Requests, StepOf(r), BaseInv'
    PROVE  OwnerInv'
<1>1. BaseInv /\ OwnersSafe /\ OneOwner
  BY DEF OwnerInv
<1>2. /\ request \in [Requests -> RequestState]
      /\ \A x \in Requests : x # r => request'[x] = request[x]
      /\ contested \subseteq contested'
  BY <1>1, OneMoves, ContestedStays
<1>3. \A x \in Requests : request[x].users \subseteq Users /\ RequestOK(request[x])
  BY <1>1 DEF BaseInv, TypeOK, RequestsOK, RequestState
<1>4. OwnersSafe'
  <2>1. ASSUME NEW x \in Requests, request'[x].op \in {"removeMember", "deleteUser"},
               request'[x].step \in {"write", "finish"}
        PROVE  /\ request[x].op = request'[x].op /\ request[x].workspace = request'[x].workspace
               /\ request[x].users = request'[x].users
               /\ \/ Accepted(request[x]) /\ UNCHANGED <<role, contested>>
                  \/ request[x].step \in {"write", "finish"}
    BY <1>1, <1>2, <2>1, RemovalPast
  <2>2. ASSUME NEW x \in Requests, request'[x].op = "removeMember",
               request'[x].step \in {"write", "finish"}, NEW u \in request'[x].users,
               role'[request'[x].workspace][u] = "owner"
        PROVE  FALSE
    <3>1. u \in Users /\ request[x].op = "removeMember" /\ request[x].workspace \in Workspaces
          /\ workspaceState[request[x].workspace] # "absent"
      BY <1>3, <2>1, <2>2 DEF RequestOK, GlobalOps
    <3>2. role[request[x].workspace][u] = "owner"
      BY <1>1, <2>1, <2>2, <3>1, OwnerBegins
    <3> QED
      BY <1>1, <2>1, <2>2, <3>1, <3>2 DEF Accepted, Removable, OwnersSafe
  <2>3. ASSUME NEW x \in Requests, request'[x].op = "deleteUser",
               request'[x].step \in {"write", "finish"}, NEW u \in request'[x].users,
               NEW w \in Workspaces, role'[w][u] = "owner"
        PROVE  w \in contested'
    <3>1. u \in Users /\ BeingDeleted(u) /\ u \in request[x].users /\ request[x].op = "deleteUser"
      BY <1>3, <2>1, <2>3 DEF BeingDeleted
    <3>2. CASE role[w][u] # "owner"
      BY <1>1, <2>3, <3>1, <3>2, OwnerBegins
    <3>3. CASE role[w][u] = "owner"
      <4>1. ~ Accepted(request[x])
        BY <3>1, <3>3 DEF Accepted, OwnsAnyWorkspace
      <4> QED
        BY <1>1, <1>2, <2>1, <2>3, <3>1, <3>3, <4>1 DEF OwnersSafe
    <3> QED
      BY <3>2, <3>3
  <2> QED
    BY <2>2, <2>3 DEF OwnersSafe
<1>5. OneOwner'
  <2> SUFFICES ASSUME NEW w \in Workspaces, w \notin contested', Exists(w)'
               PROVE  \E u \in registered' : {v \in Users : role'[w][v] = "owner"} = {u}
    BY DEF OneOwner
  <2>1. \A u \in Users : role'[w][u] # "none" => u \in registered'
    BY DEF BaseInv, KeysHold
  <2>2. registered \subseteq Users
    BY <1>1 DEF BaseInv, TypeOK
  <2>3. CASE Exists(w)
    <3>1. PICK u \in registered : {v \in Users : role[w][v] = "owner"} = {u}
      BY <1>1, <1>2, <2>3 DEF OneOwner
    <3>2. \A v \in Users : role[w][v] = "owner" <=> v = u
      BY <3>1
    <3>3. \A v \in Users : role'[w][v] = "owner" => v = u
      BY <1>1, <2>3, <3>2, OwnerBegins DEF Exists
    <3>4. role'[w][u] = "owner"
      BY <1>1, <1>2, <2>2, <3>2, OwnerEnds DEF Exists
    <3> QED
      BY <2>1, <2>2, <3>3, <3>4
  <2>4. CASE ~ Exists(w)
    <3>1. PICK u \in registered : role'[w][u] = "owner" /\ role[w][u] # "owner"
      <4>1. workspaceState[w] = "absent"
        BY <1>1, <2>4, NothingReturns
      <4>2. InsertWorkspace(r)
        BY <1>1, <4>1, QuietSteps DEF StepOf, Write, InsertMember, RemoveFromProjects, DeleteMembership,
           InsertProject, InsertProjectMember, DeleteProjectMember, UpdateProject, DeleteProject,
           UpdateWorkspace, DeleteWorkspace, DeleteUser, DropProjects, Exists, BaseInv, TypeOK,
           RequestsOK, RequestOK, Writing, GlobalOps, tables
      <4>3. PICK y \in Workspaces, u \in request[r].users \cap registered :
                /\ workspaceState' = [workspaceState EXCEPT ![y] = "live"]
                /\ role' = [role EXCEPT ![y][u] = "owner"]
        BY <4>1, <4>2 DEF InsertWorkspace, Exists
      <4>4. y = w
        BY <2>4, <4>3 DEF Exists
      <4>5. role'[w][u] = "owner"
        BY <1>1, <2>2, <4>3, <4>4 DEF BaseInv, TypeOK
      <4> QED
        BY <1>1, <2>2, <2>4, <4>5 DEF BaseInv, KeysHold
    <3>2. \A v \in Users : role'[w][v] = "owner" => v = u
      BY <1>1, <2>2, <3>1, OwnerBegins
    <3> QED
      BY <2>1, <2>2, <3>1, <3>2
  <2> QED
    BY <2>3, <2>4
<1> QED
  BY <1>4, <1>5 DEF OwnerInv

(* Ownership ends with the workspace or the account, in any step.          *)
OwnersKept ==
    \A w \in Workspaces, u \in Users :
        role[w][u] = "owner" /\ role'[w][u] # "owner" =>
            workspaceState'[w] = "deleted" \/ u \notin registered'

LEMMA OwnerNext ==
    ASSUME OwnerInv, [Next]_vars
    PROVE  OwnerInv' /\ OwnersKept
<1>1. CASE UNCHANGED vars
  <2>1. BaseInv'
    BY BaseStep, <1>1 DEF OwnerInv
  <2>2. (OwnersSafe /\ OneOwner)' /\ OwnersKept
    BY <1>1 DEF vars, tables, OwnerInv, OwnersSafe, OneOwner, Exists, OwnersKept
  <2> QED
    BY <2>1, <2>2 DEF OwnerInv
<1>2. CASE Next
  <2>1. PICK r \in Requests : StepOf(r)
    BY <1>2 DEF Next, StepOf
  <2>2. BaseInv'
    BY BaseStep, <1>2 DEF OwnerInv
  <2>3. OwnersKept
    BY <2>1, OwnerEnds DEF OwnerInv, OwnersKept
  <2> QED
    BY <2>1, <2>2, <2>3, OwnerStep
<1> QED
  BY <1>1, <1>2

LEMMA OwnerInit == Init => OwnerInv
BY BaseInit, IdleOK DEF Init, OwnerInv, OwnersSafe, OneOwner, Exists

(* users.ts:165: a workspace has exactly one owner as long as it exists,   *)
(* unless its creator was being deleted while it was created.              *)
THEOREM AlwaysOneOwner == Spec => []OneOwner
<1>1. OwnerInv => OneOwner
  BY DEF OwnerInv
<1> QED
  BY <1>1, OwnerInit, OwnerNext, PTL DEF Spec

(* permissions.md: the owner cannot be removed: ownership ends only with   *)
(* the workspace or the account.                                           *)
THEOREM OwnerAlwaysStays == Spec => OwnerStays
<1>1. OwnersKept => [\A w \in Workspaces, u \in Users :
        role[w][u] = "owner" /\ role'[w][u] # "owner" =>
            workspaceState'[w] = "deleted" \/ u \notin registered']_vars
  BY DEF OwnersKept
<1> QED
  BY <1>1, OwnerInit, OwnerNext, PTL DEF Spec, OwnerStays

(***************************************************************************)
(* Archived workspaces.                                                    *)
(***************************************************************************)
ContentOps == Ops \ (GlobalOps \cup {"patchWorkspace", "deleteWorkspace"})

(* project_members.user_id is a foreign key.                               *)
MembersRegistered == \A p \in Projects : projectMembers[p] \subseteq registered

(* What is in flight for an archived workspace was so when it was archived.*)
GraceNoted ==
    \A r \in Requests :
        request[r].op \in ContentOps /\ workspaceState[request[r].workspace] = "archived" =>
            r \in grace

ArchiveInv == BaseInv /\ MembersRegistered /\ GraceNoted

LEMMA MembersStayRegistered ==
    ASSUME ArchiveInv, NEW r \in Requests, StepOf(r)
    PROVE  MembersRegistered'
<1>1. /\ \A p \in Projects : projectMembers[p] \subseteq Users /\ projectMembers[p] \subseteq registered
      /\ projectMembers \in [Projects -> SUBSET Users]
  BY DEF ArchiveInv, BaseInv, TypeOK, MembersRegistered
<1> USE DEF MembersRegistered
<1>2. CASE InsertProjectMember(r)
  BY <1>1, <1>2 DEF InsertProjectMember
<1>3. CASE DeleteUser(r)
  BY <1>1, <1>3 DEF DeleteUser
<1>4. CASE RemoveFromProjects(r)
  BY <1>1, <1>4 DEF RemoveFromProjects
<1>5. CASE DeleteProjectMember(r)
  BY <1>1, <1>5 DEF DeleteProjectMember
<1>6. CASE DeleteProject(r)
  BY <1>1, <1>6 DEF DeleteProject, DropProjects
<1>7. CASE DeleteWorkspace(r)
  BY <1>1, <1>7 DEF DeleteWorkspace, DropProjects
<1> QED
  BY <1>1, <1>2, <1>3, <1>4, <1>5, <1>6, <1>7, QuietSteps DEF StepOf, Write, InsertMember,
     DeleteMembership, InsertProject, UpdateProject, InsertWorkspace, UpdateWorkspace, tables, ArchiveInv

(* requireWorkspaceAccess refuses to start a write in an archived          *)
(* workspace.                                                              *)
LEMMA ArchivedRefuses ==
    ASSUME BaseInv, NEW r \in Requests, Begin(r), request'[r].op \in ContentOps
    PROVE  workspaceState[request'[r].workspace] # "archived"
<1>1. request \in [Requests -> RequestState]
  BY DEF BaseInv, TypeOK
<1>2. ASSUME NEW a, NEW w \in Workspaces, NEW op \in ContentOps, HasAccess(a, w, op)
      PROVE  workspaceState[w] # "archived"
  BY <1>2 DEF HasAccess, Writes, ContentOps
<1>3. PICK a \in registered :
        \/ BeginCreateWorkspace(r, a)
        \/ \E u \in Users : BeginDeleteUser(r, a, u)
        \/ \E w \in Workspaces : BeginWorkspace(r, a, w)
        \/ \E w \in Workspaces, u \in Users : BeginMember(r, a, w, u)
        \/ \E w \in Workspaces, U \in SUBSET Users : BeginCreateProject(r, a, w, U)
        \/ \E p \in Projects : BeginProject(r, a, p)
        \/ \E p \in Projects, u \in Users : BeginProjectMember(r, a, p, u)
  BY DEF Begin
<1>4. \A p \in Projects : Home[p] \in Workspaces
  BY HomeAssumption
<1>5. {"addMember", "removeMember", "createProject", "patchProject", "deleteProject",
       "addProjectMember", "removeProjectMember"} \subseteq ContentOps
  BY DEF ContentOps, Ops, GlobalOps
<1>6. ~ BeginCreateWorkspace(r, a) /\ \A u \in Users : ~ BeginDeleteUser(r, a, u)
  BY <1>1 DEF BeginCreateWorkspace, BeginDeleteUser, Start, Asked, ContentOps, GlobalOps
<1>7. \A w \in Workspaces : ~ BeginWorkspace(r, a, w)
  BY <1>1 DEF BeginWorkspace, Start, Asked, ContentOps
<1>8. CASE \E w \in Workspaces, u \in Users : BeginMember(r, a, w, u)
  BY <1>1, <1>2, <1>5, <1>8 DEF BeginMember, Start, Asked
<1>9. CASE \E w \in Workspaces, U \in SUBSET Users : BeginCreateProject(r, a, w, U)
  BY <1>1, <1>2, <1>5, <1>9 DEF BeginCreateProject, Start, Asked
<1>10. CASE \E p \in Projects : BeginProject(r, a, p)
  BY <1>1, <1>2, <1>4, <1>5, <1>10 DEF BeginProject, Start, Asked
<1>11. CASE \E p \in Projects, u \in Users : BeginProjectMember(r, a, p, u)
  BY <1>1, <1>2, <1>4, <1>5, <1>11 DEF BeginProjectMember, Start, Asked
<1> QED
  BY <1>3, <1>6, <1>7, <1>8, <1>9, <1>10, <1>11

(* A request keeps its operation, and its workspace unless it ends.        *)
LEMMA SameOperation ==
    ASSUME BaseInv, NEW r \in Requests, CheckTarget(r) \/ Write(r) \/ HandlerDies(r)
    PROVE  \/ request'[r] = Idle
           \/ request'[r].op = request[r].op /\ request'[r].workspace = request[r].workspace
<1>1. request \in [Requests -> RequestState] /\ request[r] \in RequestState
  BY DEF BaseInv, TypeOK
<1>2. CASE CheckTarget(r)
  BY <1>1, <1>2 DEF CheckTarget, AfterCheck, RequestState
<1>3. CASE RemoveFromProjects(r)
  BY <1>1, <1>3 DEF RemoveFromProjects, Goes, RequestState
<1>4. CASE InsertProject(r)
  BY <1>1, <1>4 DEF InsertProject, Goes, RequestState
<1>5. CASE InsertProjectMember(r)
  BY <1>1, <1>5 DEF InsertProjectMember, Goes, RequestState
<1> QED
  BY <1>1, <1>2, <1>3, <1>4, <1>5 DEF Write, HandlerDies, Goes, InsertMember,
     DeleteMembership, DeleteProjectMember, UpdateProject, DeleteProject, InsertWorkspace,
     UpdateWorkspace, DeleteWorkspace, DeleteUser

LEMMA GraceStep ==
    ASSUME ArchiveInv, NEW r \in Requests, StepOf(r), Observe, BaseInv'
    PROVE  GraceNoted'
<1> SUFFICES ASSUME NEW x \in Requests, request'[x].op \in ContentOps,
                    NEW w, w = request'[x].workspace, workspaceState'[w] = "archived"
             PROVE  x \in grace'
  BY DEF GraceNoted
<1>1. BaseInv /\ w \in Workspaces /\ request'[x] # Idle
  BY IdleOK DEF ArchiveInv, BaseInv, RequestsOK, RequestOK, ContentOps, GlobalOps
<1>2. CASE workspaceState[w] # "archived"
  BY <1>1, <1>2 DEF Observe
<1>3. CASE workspaceState[w] = "archived"
  <2>1. request[x].op = request'[x].op /\ request[x].workspace = w
    <3>1. ~ (x = r /\ Begin(r))
      BY <1>1, <1>3, ArchivedRefuses
    <3> QED
      BY <1>1, <3>1, OneMoves, SameOperation DEF StepOf
  <2>2. x \in grace
    BY <1>3, <2>1 DEF ArchiveInv, GraceNoted
  <2> QED
    BY <1>1, <2>2 DEF Observe
<1> QED
  BY <1>2, <1>3

(* Who touches the contents of a workspace.                                *)
LEMMA ContentsTouched ==
    ASSUME ArchiveInv, NEW r \in Requests, StepOf(r), NEW w \in Workspaces,
           workspaceState[w] = "archived", Contents(w)' # Contents(w),
           workspaceState'[w] # "deleted", registered' = registered
    PROVE  /\ request[r].op \in ContentOps /\ request[r].workspace = w
           /\ request'[r] # request[r]
<1>1. /\ role \in [Workspaces -> [Users -> Roles]]
      /\ workspaceState \in [Workspaces -> {"absent", "live", "archived", "deleted"}]
      /\ projectState \in [Projects -> {"absent", "active", "archived", "deleted"}]
      /\ projectMembers \in [Projects -> SUBSET Users]
      /\ request \in [Requests -> RequestState] /\ request[r] \in RequestState
      /\ request[r].projects \subseteq ProjectsOf(request[r].workspace)
      /\ BaseInv
  BY DEF ArchiveInv, BaseInv, TypeOK, RequestsOK, RequestOK
<1>2. \/ role'[w] # role[w]
      \/ \E p \in ProjectsOf(w) :
            projectState'[p] # projectState[p] \/ projectMembers'[p] # projectMembers[p]
  BY DEF Contents
<1>3. Write(r)
  BY <1>1, <1>2, QuietSteps DEF StepOf, tables
<1>4. ~ InsertWorkspace(r) /\ ~ UpdateWorkspace(r)
  BY <1>1, <1>2 DEF InsertWorkspace, UpdateWorkspace
<1>5. ~ DeleteWorkspace(r)
  <2> SUFFICES ASSUME DeleteWorkspace(r) PROVE FALSE
    OBVIOUS
  <2>1. request[r].workspace # w
    BY <1>1 DEF DeleteWorkspace
  <2>2. role'[w] = role[w]
    BY <1>1, <2>1 DEF DeleteWorkspace
  <2>3. \A p \in ProjectsOf(w) : projectState'[p] = projectState[p] /\ projectMembers'[p] = projectMembers[p]
    BY <1>1, <2>1 DEF DeleteWorkspace, DropProjects, ProjectsOf
  <2> QED
    BY <1>2, <2>2, <2>3
<1>6. ~ DeleteUser(r)
  <2> SUFFICES ASSUME DeleteUser(r) PROVE FALSE
    OBVIOUS
  <2>1. request[r].users \cap registered = {}
    BY DEF DeleteUser
  <2>2. \A u \in Users : role'[w][u] = role[w][u]
    BY <1>1, <2>1 DEF DeleteUser, ArchiveInv, BaseInv, KeysHold
  <2>3. role'[w] = role[w]
    BY <1>1, <2>2 DEF DeleteUser
  <2>4. \A p \in ProjectsOf(w) : projectState'[p] = projectState[p] /\ projectMembers'[p] = projectMembers[p]
    BY <1>1, <2>1 DEF DeleteUser, ArchiveInv, MembersRegistered, ProjectsOf
  <2> QED
    BY <1>2, <2>3, <2>4
<1>7. request[r].op \in ContentOps
  BY <1>1, <1>3, <1>4, <1>5, <1>6 DEF Write, InsertMember, RemoveFromProjects, DeleteMembership,
     InsertProject, InsertProjectMember, DeleteProjectMember, UpdateProject, DeleteProject, Writing,
     ContentOps, GlobalOps, Ops, RequestsOK, RequestOK, GrantOps, ArchiveInv, BaseInv
<1>8. request'[r] # request[r]
  <2>1. CASE InsertProjectMember(r)
    BY <1>1, <1>7, <2>1, IdleOK DEF InsertProjectMember, Goes, RequestState, ContentOps, GlobalOps
  <2>2. CASE InsertProject(r) \/ RemoveFromProjects(r)
    <3>1. request[r].step = "write" /\ Idle.step = "idle"
      BY <2>2, IdleOK DEF InsertProject, RemoveFromProjects, Writing
    <3>2. request'[r].step # "write"
      <4>1. CASE InsertProject(r)
        <5>1. CASE request'[r] = Idle
          BY <3>1, <5>1
        <5>2. CASE request'[r] # Idle
          <6>1. PICK p \in Projects :
                request' = [request EXCEPT ![r] = [request[r] EXCEPT !.step = "members", !.projects = {p}]]
            BY <1>1, <4>1, <5>2 DEF InsertProject, Goes, ProjectsOf
          <6> QED
            BY <1>1, <6>1 DEF RequestState
        <5> QED
          BY <5>1, <5>2
      <4>2. CASE RemoveFromProjects(r)
        BY <1>1, <4>2 DEF RemoveFromProjects, Goes, RequestState
      <4> QED
        BY <2>2, <4>1, <4>2
    <3> QED
      BY <3>1, <3>2
  <2>3. CASE request'[r] = Idle
    BY <1>7, <2>3, IdleOK DEF ContentOps, GlobalOps
  <2> QED
    BY <1>1, <1>3, <1>4, <1>5, <1>6, <2>1, <2>2, <2>3 DEF Write, InsertMember, DeleteMembership,
       DeleteProjectMember, UpdateProject, DeleteProject, Goes
<1>9. request[r].workspace = w
  <2>1. CASE InsertMember(r)
    BY <1>1, <1>2, <2>1 DEF InsertMember
  <2>2. CASE DeleteMembership(r)
    BY <1>1, <1>2, <2>2 DEF DeleteMembership
  <2>3. CASE RemoveFromProjects(r)
    BY <1>1, <1>2, <2>3 DEF RemoveFromProjects, ProjectsOf
  <2>4. CASE InsertProject(r)
    BY <1>1, <1>2, <2>4 DEF InsertProject, ProjectsOf
  <2>5. CASE InsertProjectMember(r)
    BY <1>1, <1>2, <2>5 DEF InsertProjectMember, ProjectsOf
  <2>6. CASE DeleteProjectMember(r)
    BY <1>1, <1>2, <2>6 DEF DeleteProjectMember, ProjectsOf
  <2>7. CASE UpdateProject(r)
    BY <1>1, <1>2, <2>7 DEF UpdateProject, ProjectsOf
  <2>8. CASE DeleteProject(r)
    BY <1>1, <1>2, <2>8 DEF DeleteProject, DropProjects, ProjectsOf
  <2> QED
    BY <1>3, <1>4, <1>5, <1>6, <2>1, <2>2, <2>3, <2>4, <2>5, <2>6, <2>7, <2>8 DEF Write
<1> QED
  BY <1>7, <1>8, <1>9

ReadOnlyStep ==
    \A w \in Workspaces :
        workspaceState[w] = "archived" /\ Contents(w)' # Contents(w) =>
            \/ workspaceState'[w] = "deleted"
            \/ registered' # registered
            \/ \E r \in grace : request'[r] # request[r]

LEMMA ArchiveNext ==
    ASSUME ArchiveInv, [Next]_vars
    PROVE  ArchiveInv' /\ ReadOnlyStep
<1>1. BaseInv'
  BY BaseStep DEF ArchiveInv
<1>2. CASE UNCHANGED vars
  BY <1>1, <1>2 DEF vars, tables, ArchiveInv, MembersRegistered, GraceNoted, ReadOnlyStep, Contents
<1>3. CASE Next
  <2>1. PICK r \in Requests : StepOf(r)
    BY <1>3 DEF Next, StepOf
  <2>2. ArchiveInv'
    BY <1>1, <1>3, <2>1, MembersStayRegistered, GraceStep DEF Next, ArchiveInv
  <2>3. ReadOnlyStep
    BY <2>1, ContentsTouched DEF ArchiveInv, GraceNoted, ReadOnlyStep
  <2> QED
    BY <2>2, <2>3
<1> QED
  BY <1>2, <1>3

(* permissions.md, principle 8: an archived workspace is read-only: what   *)
(* changes in one was requested before, or goes with an account or with    *)
(* the workspace itself.                                                   *)
THEOREM ArchivedAlwaysReadOnly == Spec => ArchivedIsReadOnly
<1>1. Init => ArchiveInv
  BY BaseInit, IdleOK DEF Init, ArchiveInv, MembersRegistered, GraceNoted, ContentOps, GlobalOps
<1>2. ReadOnlyStep => [\A w \in Workspaces :
        workspaceState[w] = "archived" /\ Contents(w)' # Contents(w) =>
            \/ workspaceState'[w] = "deleted"
            \/ registered' # registered
            \/ \E r \in grace : request'[r] # request[r]]_vars
  BY DEF ReadOnlyStep
<1> QED
  BY <1>1, <1>2, ArchiveNext, PTL DEF Spec, ArchivedIsReadOnly
============================================================================
