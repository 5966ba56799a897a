------------------------- MODULE ReportSharingProofs -------------------------
(***************************************************************************)
(* What holds of ReportSharing for any number of users, workspaces,        *)
(* projects, links, versions and concurrent requests.                      *)
(***************************************************************************)
EXTENDS ReportSharing, SequenceTheorems, TLAPS

(***************************************************************************)
(* The inductive invariant.                                                *)
(***************************************************************************)

(* What a request carries fits its operation.                              *)
RequestOK(q) ==
    /\ q.op = "idle" => q = Idle
    /\ q.step = "idle" => q = Idle
    /\ q.step = "render" => q.op = "edit"
    /\ q.step = "bind" => Disseminates(q)
    /\ q.op = "create" => q.scope.workspaces # {}
    /\ q.op = "edit" => q.version \in Versions
    /\ q.op = "edit" /\ q.step = "write" => q.scope.workspaces # {}
    /\ q.op = "share" => q.actor = Owner
    /\ Disseminates(q) => q.step \in {"bind", "write"}
    /\ q.op \in {"revoke", "view"} => q.link \in Links

(* An edit will number its version at most one past the header's.          *)
EditOK(q) == q.op = "edit" => q.version <= report.version + 1

(* A re-share is of a copy its actor holds, as long as it can be written.  *)
ReshareOK(q) ==
    q.op = "reshare" =>
        \/ q.actor \notin registered
        \/ report.state = "gone"
        \/ [version |-> q.version, to |-> q.actor] \in deliveries

(* A send or share not overtaken fits its version, and will bind the one   *)
(* it was checked for.                                                     *)
SendOK(r, q) ==
    Disseminates(q) =>
        /\ r \in fit \cup overtaken
        /\ q.step = "bind" => r \in overtaken \/ q.version = report.version

RequestsOK ==
    \A r \in Requests :
        /\ RequestOK(request[r])
        /\ EditOK(request[r])
        /\ ReshareOK(request[r])
        /\ SendOK(r, request[r])

(* The documents alone: types, keys, the header and the links.             *)
DocumentsOK ==
    /\ report \in [state : {"absent", "present", "gone"}, version : 0 .. MaxVersion, scope : Scope]
    /\ report.state = "absent" => report.version = 0
    /\ content \in [Versions -> Scope]
    /\ deliveries \subseteq [version : Stored, to : registered]
    /\ link \in [Links -> LinkState]
    /\ \A l \in Links : link[l].state \in Alive => link[l].version \in Stored /\ link[l].by \in registered
    /\ HeaderIsLatest
    /\ ResharesWhatWasReceived

PeopleOK ==
    /\ registered \subseteq Users
    /\ members \in [Workspaces -> SUBSET registered]
    /\ readers \in [Projects -> SUBSET (registered \ {Owner})]

SharingInv ==
    /\ PeopleOK
    /\ DocumentsOK
    /\ request \in [Requests -> RequestState]
    /\ RequestsOK
    /\ fit \cup overtaken \subseteq Requests

(* What one step may do to the rows that requests in flight rely on.       *)
Grows ==
    /\ registered' \subseteq registered
    /\ report'.version >= report.version
    /\ report.state = "gone" => report'.state = "gone"
    /\ \A d \in deliveries :
            d \in deliveries' \/ d.to \notin registered' \/ report'.state = "gone"

(***************************************************************************)
(* Requests.                                                               *)
(***************************************************************************)

(* The idle record belongs to the requests and carries nothing.            *)
LEMMA IdleFits ==
    /\ Idle \in RequestState /\ RequestOK(Idle)
    /\ Idle.op = "idle" /\ Idle.step = "idle" /\ Idle.version = 0 /\ Idle.to = {}
    /\ ~ Disseminates(Idle)
BY VersionAssumption DEF Idle, Asked, RequestState, RequestOK, Disseminates, Ops, Steps, Scope, NoScope

(* A request that does not move keeps what is promised of it: an edit that *)
(* moves the header marks it overtaken.                                    *)
LEMMA StandingKept ==
    ASSUME SharingInv, Grows, Observe, DocumentsOK', NEW x \in Requests, request'[x] = request[x]
    PROVE  /\ RequestOK(request'[x])
           /\ EditOK(request[x])'
           /\ ReshareOK(request[x])'
           /\ SendOK(x, request[x])'
<1> DEFINE q == request[x]
<1>1. q \in RequestState /\ RequestOK(q) /\ EditOK(q) /\ ReshareOK(q) /\ SendOK(x, q)
  BY DEF SharingInv, RequestsOK
<1>2. /\ report.version \in Nat /\ report'.version \in Nat
      /\ q.version \in Nat /\ q.actor \in Users \cup {None}
  <2>1. report.version \in 0 .. MaxVersion /\ report'.version \in 0 .. MaxVersion
    BY DEF SharingInv, DocumentsOK
  <2>2. q.version \in 0 .. MaxVersion /\ q.actor \in Users \cup {None}
    BY <1>1 DEF RequestState
  <2> QED
    BY <2>1, <2>2, VersionAssumption
<1>3. EditOK(q)'
  BY <1>1, <1>2 DEF EditOK, Grows
<1>4. ReshareOK(q)'
  <2> SUFFICES ASSUME q.op = "reshare", q.actor \in registered', report'.state # "gone"
               PROVE  [version |-> q.version, to |-> q.actor] \in deliveries'
    BY DEF ReshareOK
  <2>1. [version |-> q.version, to |-> q.actor] \in deliveries
    BY <1>1 DEF ReshareOK, Grows
  <2> QED
    BY <2>1 DEF Grows
<1>5. SendOK(x, q)'
  <2> SUFFICES ASSUME Disseminates(q)
               PROVE  /\ x \in fit' \cup overtaken'
                      /\ q.step = "bind" => x \in overtaken' \/ q.version = report'.version
    BY DEF SendOK, Disseminates
  <2>1. Carries(x) /\ q # Idle
    BY <1>1, IdleFits DEF Carries, RequestOK
  <2>2. x \in overtaken \/ report'.version # report.version => x \in overtaken'
    BY <2>1 DEF Observe
  <2>3. x \in fit => x \in fit'
    BY <2>1 DEF Observe
  <2> QED
    BY <1>1, <2>2, <2>3 DEF SendOK
<1> QED
  BY <1>1, <1>3, <1>4, <1>5

(* The history keeps its type.                                             *)
LEMMA HistoryTyped ==
    ASSUME Observe
    PROVE  (fit \cup overtaken \subseteq Requests)'
BY DEF Observe

(* A step that closes a request, whatever it wrote.                        *)
LEMMA ClosingKept ==
    ASSUME SharingInv, Grows, Observe, DocumentsOK', PeopleOK', NEW r \in Requests, Goes(r, Idle)
    PROVE  SharingInv'
<1>1. request' \in [Requests -> RequestState]
  BY IdleFits DEF SharingInv, Goes
<1>2. \A x \in Requests : x # r => request'[x] = request[x]
  BY DEF SharingInv, Goes
<1>3. request'[r] = Idle
  BY DEF SharingInv, Goes
<1>4. ASSUME NEW x \in Requests
      PROVE  RequestOK(request'[x]) /\ EditOK(request[x])' /\ ReshareOK(request[x])' /\ SendOK(x, request[x])'
  <2>1. CASE x # r
    BY <1>2, <2>1, StandingKept
  <2>2. CASE x = r
    BY <1>3, <2>2, IdleFits DEF EditOK, ReshareOK, SendOK, Disseminates
  <2> QED
    BY <2>1, <2>2
<1> QED
  BY <1>1, <1>4, HistoryTyped DEF SharingInv, RequestsOK, RequestOK, EditOK, ReshareOK, SendOK, Disseminates

(* The start of a request: what it read is true of the tables.             *)
Opens(r, q) ==
    /\ request[r] = Idle /\ Goes(r, q)
    /\ UNCHANGED <<people, documents>>
    /\ q \in RequestState /\ RequestOK(q) /\ EditOK(q) /\ ReshareOK(q)
    /\ Disseminates(q) => q.version = report.version /\ Fit(q, report.scope)
    /\ q.op = "view" => Usable(q.link)

(* The tables stand while a request only reads.                            *)
LEMMA ReadingKept ==
    ASSUME SharingInv, UNCHANGED <<people, documents>>
    PROVE  Grows /\ DocumentsOK' /\ PeopleOK'
<1>1. report.version \in Nat
  BY VersionAssumption DEF SharingInv, DocumentsOK
<1>2. /\ UNCHANGED <<registered, members, readers, report, content, deliveries, link>>
      /\ UNCHANGED Stored
  BY DEF people, documents, Stored
<1>3. PeopleOK'
  BY <1>2 DEF SharingInv, PeopleOK
<1>4. DocumentsOK'
  BY <1>2 DEF SharingInv, DocumentsOK, HeaderIsLatest, ResharesWhatWasReceived, Present
<1> QED
  BY <1>1, <1>2, <1>3, <1>4 DEF Grows

LEMMA OpeningKept ==
    ASSUME SharingInv, Observe, NEW r \in Requests, NEW q, Opens(r, q)
    PROVE  SharingInv'
<1>1. Grows /\ DocumentsOK' /\ PeopleOK'
  BY ReadingKept DEF Opens
<1>2. request' \in [Requests -> RequestState]
  BY DEF SharingInv, Opens, Goes
<1>3. request'[r] = q /\ \A x \in Requests : x # r => request'[x] = request[x]
  BY DEF SharingInv, Opens, Goes
<1>4. SendOK(r, request[r])'
  <2> SUFFICES ASSUME Disseminates(q)
               PROVE  r \in fit' /\ q.version = report'.version
    BY <1>3 DEF SendOK, Disseminates
  <2>1. Carries(r) /\ request[r] = Idle /\ Fit(request'[r], report.scope)
    BY <1>3 DEF Opens, Carries, RequestOK
  <2> QED
    BY <2>1 DEF Observe, Opens, documents
<1>5. RequestOK(request'[r]) /\ EditOK(request[r])' /\ ReshareOK(request[r])'
  BY <1>3 DEF Opens, people, documents, EditOK, ReshareOK
<1>6. ASSUME NEW x \in Requests
      PROVE  RequestOK(request'[x]) /\ EditOK(request[x])' /\ ReshareOK(request[x])' /\ SendOK(x, request[x])'
  <2>1. CASE x # r
    BY <1>1, <1>3, <2>1, StandingKept
  <2>2. CASE x = r
    BY <1>4, <1>5, <2>2
  <2> QED
    BY <2>1, <2>2
<1> QED
  BY <1>1, <1>2, <1>6, HistoryTyped
  DEF SharingInv, RequestsOK, RequestOK, EditOK, ReshareOK, SendOK, Disseminates

(* Each operation starts out right.                                        *)
LEMMA BeginOpens ==
    ASSUME SharingInv, NEW r \in Requests, Begin(r)
    PROVE  \E q : Opens(r, q)
<1>1. /\ report.version \in 0 .. MaxVersion /\ report.version \in Nat
      /\ MaxVersion \in Nat \ {0}
      /\ Present => report.version \in Versions
      /\ NoScope \in Scope /\ Owner \in Users
  BY VersionAssumption, OwnerAssumption DEF SharingInv, DocumentsOK, HeaderIsLatest, Stored, Scope, NoScope
<1>2. CASE \E W \in SUBSET Workspaces : BeginCreate(r, W)
  <2>1. PICK W \in SUBSET Workspaces : BeginCreate(r, W)
    BY <1>2
  <2> DEFINE q == Asked("create", "write", Owner, 1, Wanted(W), {}, None)
  <2>2. request[r] = Idle /\ Goes(r, q) /\ UNCHANGED <<people, documents>> /\ W # {}
    BY <2>1 DEF BeginCreate, Start
  <2>3. q \in RequestState
    BY <1>1 DEF Asked, RequestState, Ops, Steps, Wanted, Scope
  <2>4. RequestOK(q) /\ EditOK(q) /\ ReshareOK(q) /\ ~ Disseminates(q)
    BY <2>2 DEF Asked, RequestOK, EditOK, ReshareOK, Disseminates, Wanted
  <2>9. Opens(r, q)
    BY <2>2, <2>3, <2>4 DEF Asked, Opens
  <2> HIDE DEF q
  <2> QED
    BY <2>9
<1>3. CASE \E W \in SUBSET Workspaces : BeginEdit(r, W)
  <2>1. PICK W \in SUBSET Workspaces : BeginEdit(r, W)
    BY <1>3
  <2> DEFINE q == Asked("edit", "render", Owner, report.version + 1, Wanted(W), {}, None)
  <2>2. request[r] = Idle /\ Goes(r, q) /\ UNCHANGED <<people, documents>> /\ report.version < MaxVersion
    BY <2>1 DEF BeginEdit, Start
  <2>3. report.version + 1 \in Versions /\ report.version + 1 \in 0 .. MaxVersion
    BY <1>1, <2>2 DEF Versions
  <2>4. q \in RequestState
    BY <1>1, <2>3 DEF Asked, RequestState, Ops, Steps, Wanted, Scope
  <2>5. RequestOK(q) /\ EditOK(q) /\ ReshareOK(q) /\ ~ Disseminates(q)
    BY <1>1, <2>3 DEF Asked, RequestOK, EditOK, ReshareOK, Disseminates
  <2>9. Opens(r, q)
    BY <2>2, <2>4, <2>5 DEF Asked, Opens
  <2> HIDE DEF q
  <2> QED
    BY <2>9
<1>4. CASE BeginDelete(r)
  <2> DEFINE q == Asked("delete", "write", Owner, 0, NoScope, {}, None)
  <2>1. request[r] = Idle /\ Goes(r, q) /\ UNCHANGED <<people, documents>>
    BY <1>4 DEF BeginDelete, Start
  <2>2. q \in RequestState
    BY <1>1 DEF Asked, RequestState, Ops, Steps
  <2>3. RequestOK(q) /\ EditOK(q) /\ ReshareOK(q) /\ ~ Disseminates(q)
    BY DEF Asked, RequestOK, EditOK, ReshareOK, Disseminates
  <2>9. Opens(r, q)
    BY <2>1, <2>2, <2>3 DEF Asked, Opens
  <2> HIDE DEF q
  <2> QED
    BY <2>9
<1>5. CASE BeginShare(r)
  <2> DEFINE q == Asked("share", "bind", Owner, report.version, NoScope, {}, None)
  <2>1. /\ request[r] = Idle /\ Goes(r, q) /\ UNCHANGED <<people, documents>>
        /\ Covers(Owner, report.scope.workspaces)
    BY <1>5 DEF BeginShare, Start
  <2>2. q \in RequestState
    BY <1>1 DEF Asked, RequestState, Ops, Steps
  <2>3. RequestOK(q) /\ EditOK(q) /\ ReshareOK(q)
    BY DEF Asked, RequestOK, EditOK, ReshareOK, Disseminates
  <2>4. Fit(q, report.scope)
    BY <2>1 DEF Asked, Fit
  <2>9. Opens(r, q)
    BY <2>1, <2>2, <2>3, <2>4 DEF Asked, Opens
  <2> HIDE DEF q
  <2> QED
    BY <2>9
<1>6. CASE \E to \in SUBSET Users : BeginSend(r, to)
  <2>1. PICK to \in SUBSET Users : BeginSend(r, to)
    BY <1>6
  <2> DEFINE q == Asked("send", "bind", Owner, report.version, NoScope, to, None)
  <2>2. /\ request[r] = Idle /\ Goes(r, q) /\ UNCHANGED <<people, documents>>
        /\ Covers(Owner, report.scope.workspaces)
        /\ to \ {Owner} \subseteq Candidates(report.scope)
    BY <2>1 DEF BeginSend, Start
  <2>3. q \in RequestState
    BY <1>1 DEF Asked, RequestState, Ops, Steps
  <2>4. RequestOK(q) /\ EditOK(q) /\ ReshareOK(q)
    BY DEF Asked, RequestOK, EditOK, ReshareOK, Disseminates
  <2>5. \A u \in to \ {Owner} : MayRead(u, report.scope)
    BY <2>2 DEF Candidates, Covers, MayRead
  <2>6. Fit(q, report.scope)
    BY <2>2, <2>5 DEF Asked, Fit
  <2>9. Opens(r, q)
    BY <2>2, <2>3, <2>4, <2>6 DEF Asked, Opens
  <2> HIDE DEF q
  <2> QED
    BY <2>9
<1>7. CASE \E d \in Delivery : BeginReshare(r, d)
  <2>1. PICK d \in Delivery : BeginReshare(r, d)
    BY <1>7
  <2> DEFINE q == Asked("reshare", "write", d.to, d.version, NoScope, {}, None)
  <2>2. request[r] = Idle /\ Goes(r, q) /\ UNCHANGED <<people, documents>> /\ d \in deliveries
    BY <2>1 DEF BeginReshare, Start
  <2>3. d.to \in Users /\ d.version \in 0 .. MaxVersion /\ d = [version |-> d.version, to |-> d.to]
    BY <1>1, <2>1 DEF Delivery, Versions
  <2>4. q \in RequestState
    BY <1>1, <2>3 DEF Asked, RequestState, Ops, Steps
  <2>5. RequestOK(q) /\ EditOK(q) /\ ReshareOK(q) /\ ~ Disseminates(q)
    BY <2>2, <2>3 DEF Asked, RequestOK, EditOK, ReshareOK, Disseminates
  <2>9. Opens(r, q)
    BY <2>2, <2>4, <2>5 DEF Asked, Opens
  <2> HIDE DEF q
  <2> QED
    BY <2>9
<1>8. CASE \E l \in Links : BeginRevoke(r, l)
  <2>1. PICK l \in Links : BeginRevoke(r, l)
    BY <1>8
  <2> DEFINE q == Asked("revoke", "write", link[l].by, 0, NoScope, {}, l)
  <2>2. request[r] = Idle /\ Goes(r, q) /\ UNCHANGED <<people, documents>> /\ link[l].state \in Alive
    BY <2>1 DEF BeginRevoke, Start
  <2>3. link[l].by \in Users
    BY <2>2 DEF SharingInv, DocumentsOK, PeopleOK
  <2>4. q \in RequestState
    BY <1>1, <2>3 DEF Asked, RequestState, Ops, Steps
  <2>5. RequestOK(q) /\ EditOK(q) /\ ReshareOK(q) /\ ~ Disseminates(q)
    BY DEF Asked, RequestOK, EditOK, ReshareOK, Disseminates
  <2>9. Opens(r, q)
    BY <2>2, <2>4, <2>5 DEF Asked, Opens
  <2> HIDE DEF q
  <2> QED
    BY <2>9
<1>9. CASE \E l \in Links : BeginView(r, l)
  <2>1. PICK l \in Links : BeginView(r, l)
    BY <1>9
  <2> DEFINE q == Asked("view", "write", None, 0, NoScope, {}, l)
  <2>2. request[r] = Idle /\ Goes(r, q) /\ UNCHANGED <<people, documents>> /\ Usable(l)
    BY <2>1 DEF BeginView, Start
  <2>4. q \in RequestState
    BY <1>1 DEF Asked, RequestState, Ops, Steps
  <2>5. RequestOK(q) /\ EditOK(q) /\ ReshareOK(q) /\ ~ Disseminates(q)
    BY DEF Asked, RequestOK, EditOK, ReshareOK, Disseminates
  <2>9. Opens(r, q)
    BY <2>2, <2>4, <2>5 DEF Asked, Opens
  <2> HIDE DEF q
  <2> QED
    BY <2>9
<1> QED
  BY <1>2, <1>3, <1>4, <1>5, <1>6, <1>7, <1>8, <1>9 DEF Begin

(***************************************************************************)
(* Steps between the check and the write.                                  *)
(***************************************************************************)

(* A request that goes on with what it carries.                            *)
LEMMA ContinuingKept ==
    ASSUME SharingInv, Observe, UNCHANGED <<people, documents>>,
           NEW r \in Requests, NEW q, Goes(r, q),
           q \in RequestState, RequestOK(q), EditOK(q), ReshareOK(q),
           Disseminates(q) =>
              /\ q.step = "write" /\ Disseminates(request[r])
              /\ r \in overtaken \/ q.version = request[r].version
    PROVE  SharingInv'
<1>1. Grows /\ DocumentsOK' /\ PeopleOK'
  BY ReadingKept
<1>2. request' \in [Requests -> RequestState]
  BY DEF SharingInv, Goes
<1>3. request'[r] = q /\ \A x \in Requests : x # r => request'[x] = request[x]
  BY DEF SharingInv, Goes
<1>4. SendOK(r, request[r])'
  <2> SUFFICES ASSUME Disseminates(q)
               PROVE  r \in fit' \cup overtaken'
    BY <1>3 DEF SendOK, Disseminates
  <2>1. Carries(r) /\ request[r] # Idle
    BY <1>3, IdleFits DEF Carries
  <2>2. r \in fit \cup overtaken
    BY DEF SharingInv, RequestsOK, SendOK
  <2>3. r \in overtaken => r \in overtaken'
    BY <2>1 DEF Observe
  <2>4. r \in fit /\ q.version = request[r].version => r \in fit'
    BY <1>3, <2>1 DEF Observe
  <2> QED
    BY <2>2, <2>3, <2>4
<1>5. RequestOK(request'[r]) /\ EditOK(request[r])' /\ ReshareOK(request[r])'
  BY <1>3 DEF people, documents, EditOK, ReshareOK
<1>6. ASSUME NEW x \in Requests
      PROVE  RequestOK(request'[x]) /\ EditOK(request[x])' /\ ReshareOK(request[x])' /\ SendOK(x, request[x])'
  <2>1. CASE x # r
    BY <1>1, <1>3, <2>1, StandingKept
  <2>2. CASE x = r
    BY <1>4, <1>5, <2>2
  <2> QED
    BY <2>1, <2>2
<1> QED
  BY <1>1, <1>2, <1>6, HistoryTyped
  DEF SharingInv, RequestsOK, RequestOK, EditOK, ReshareOK, SendOK, Disseminates

LEMMA RenderKept ==
    ASSUME SharingInv, Observe, NEW r \in Requests, Render(r)
    PROVE  SharingInv'
<1> DEFINE q == request[r]
           n == [q EXCEPT !.step = "write"]
<1>1. q \in RequestState /\ RequestOK(q) /\ EditOK(q) /\ q.op = "edit"
  BY DEF SharingInv, RequestsOK, Render, RequestOK
<1>2. CASE Goes(r, n) /\ q.scope.workspaces # {}
  <2>1. n \in RequestState /\ RequestOK(n) /\ EditOK(n) /\ ReshareOK(n) /\ ~ Disseminates(n)
    BY <1>1, <1>2 DEF RequestState, RequestOK, EditOK, ReshareOK, Disseminates, Steps
  <2> QED
    BY <1>2, <2>1, ContinuingKept DEF Render
<1>3. CASE Goes(r, Idle)
  BY <1>3, ReadingKept, ClosingKept DEF Render
<1> QED
  BY <1>2, <1>3 DEF Render

(* The latest version is the header's: what a request not overtaken binds. *)
LEMMA BindKept ==
    ASSUME SharingInv, Observe, NEW r \in Requests, Bind(r)
    PROVE  SharingInv'
<1> DEFINE q == request[r]
<1>1. q \in RequestState /\ RequestOK(q) /\ SendOK(r, q) /\ q.step = "bind" /\ Disseminates(q)
  BY DEF SharingInv, RequestsOK, Bind, RequestOK
<1>2. CASE Stored # {}
  <2>1. PICK v \in Stored : (\A k \in Stored : k <= v) /\ Goes(r, [q EXCEPT !.step = "write", !.version = v])
    BY <1>2 DEF Bind
  <2> DEFINE n == [q EXCEPT !.step = "write", !.version = v]
  <2>2. /\ report.version \in Nat /\ MaxVersion \in Nat
        /\ Stored = 1 .. report.version /\ report.version \in Stored
    BY <1>2, VersionAssumption DEF SharingInv, DocumentsOK, HeaderIsLatest
  <2>3. v = report.version /\ v \in 0 .. MaxVersion
    BY <2>1, <2>2 DEF Stored, Versions
  <2>4. /\ n \in RequestState /\ n.version = v /\ n.step = "write"
        /\ n.op = q.op /\ n.actor = q.actor /\ n.link = q.link /\ n.scope = q.scope
    BY <1>1, <2>3 DEF RequestState, Steps
  <2> HIDE DEF n
  <2>5. RequestOK(n) /\ EditOK(n) /\ ReshareOK(n)
    BY <1>1, <2>4, IdleFits DEF RequestOK, EditOK, ReshareOK, Disseminates
  <2>6. Disseminates(n) => r \in overtaken \/ n.version = q.version
    BY <1>1, <2>3, <2>4 DEF SendOK
  <2>7. Goes(r, n) /\ UNCHANGED <<people, documents>>
    BY <2>1 DEF n, Bind
  <2> QED
    BY <1>1, <2>4, <2>5, <2>6, <2>7, ContinuingKept
<1>3. CASE Stored = {}
  BY <1>3, ReadingKept, ClosingKept DEF Bind
<1> QED
  BY <1>2, <1>3

(***************************************************************************)
(* Writes.                                                                 *)
(***************************************************************************)

(* A version appended next to the stored ones, with its header.            *)
LEMMA AppendKept ==
    ASSUME SharingInv, NEW v \in Versions, NEW scope \in Scope, scope.workspaces # {},
           v = IF Present THEN report.version + 1 ELSE 1,
           report.state # "gone",
           report' = [state |-> "present", version |-> v, scope |-> scope],
           content' = [content EXCEPT ![v] = scope],
           UNCHANGED <<people, deliveries, link>>
    PROVE  DocumentsOK' /\ Grows
<1>1. /\ MaxVersion \in Nat /\ v \in Nat /\ v <= MaxVersion /\ v >= 1
      /\ report.version \in Nat
      /\ content \in [Versions -> Scope] /\ report.state \in {"absent", "present", "gone"}
  BY VersionAssumption DEF SharingInv, DocumentsOK, Versions
<1>2. UNCHANGED <<registered, members, readers, deliveries, link>>
  BY DEF people
<1>3. content'[v] = scope /\ \A k \in Versions : k # v => content'[k] = content[k]
  BY <1>1
<1>4. Stored' = Stored \cup {v}
  BY <1>3 DEF Stored, NoScope
<1>5. Stored = 1 .. (v - 1)
  <2>1. CASE Present
    BY <1>1, <2>1 DEF SharingInv, DocumentsOK, HeaderIsLatest
  <2>2. CASE ~ Present
    BY <1>1, <2>2 DEF SharingInv, DocumentsOK, HeaderIsLatest
  <2> QED
    BY <2>1, <2>2
<1>6. Stored' = 1 .. v
  BY <1>1, <1>4, <1>5
<1>7. HeaderIsLatest'
  BY <1>1, <1>3, <1>6 DEF HeaderIsLatest, Present
<1>8. report' \in [state : {"absent", "present", "gone"}, version : 0 .. MaxVersion, scope : Scope]
      /\ content' \in [Versions -> Scope]
  BY <1>1
<1>9. deliveries' \subseteq [version : Stored', to : registered']
  BY <1>2, <1>4 DEF SharingInv, DocumentsOK
<1>10. /\ link' \in [Links -> LinkState]
       /\ \A l \in Links : link'[l].state \in Alive =>
             link'[l].version \in Stored' /\ link'[l].by \in registered'
  BY <1>2, <1>4 DEF SharingInv, DocumentsOK
<1>11. ResharesWhatWasReceived'
  BY <1>2 DEF SharingInv, DocumentsOK, ResharesWhatWasReceived
<1>12. Grows
  BY <1>1, <1>2 DEF Grows, Present, SharingInv, DocumentsOK
<1> QED
  BY <1>7, <1>8, <1>9, <1>10, <1>11, <1>12 DEF DocumentsOK

(* The scope of a rendering is the one asked for.                          *)
LEMMA RenderingsFit ==
    ASSUME NEW W, NEW scope \in Renderings(W)
    PROVE  scope \in Scope /\ scope.workspaces = W
BY DEF Renderings

LEMMA CreateKept ==
    ASSUME SharingInv, NEW r \in Requests, CreateReport(r)
    PROVE  DocumentsOK' /\ Grows
<1> DEFINE q == request[r]
<1>1. q.scope.workspaces # {}
  BY DEF SharingInv, RequestsOK, RequestOK, CreateReport
<1>2. CASE report.state = "absent" /\ Owner \in registered /\ Goes(r, Idle)
           /\ \E scope \in Renderings(q.scope.workspaces) :
                /\ report' = [state |-> "present", version |-> 1, scope |-> scope]
                /\ content' = [content EXCEPT ![1] = scope]
           /\ UNCHANGED <<people, deliveries, link>>
  <2>1. PICK scope \in Renderings(q.scope.workspaces) :
                /\ report' = [state |-> "present", version |-> 1, scope |-> scope]
                /\ content' = [content EXCEPT ![1] = scope]
    BY <1>2
  <2>2. 1 \in Versions /\ report.state # "gone" /\ 1 = IF Present THEN report.version + 1 ELSE 1
    BY <1>2, VersionAssumption DEF Versions, Present
  <2>3. scope \in Scope /\ scope.workspaces # {}
    BY <1>1, RenderingsFit
  <2> HIDE DEF q
  <2> QED
    BY <1>2, <2>1, <2>2, <2>3, AppendKept
<1>3. CASE Fails(r) /\ UNCHANGED people
  BY <1>3, ReadingKept DEF Fails, documents
<1> QED
  BY <1>2, <1>3 DEF CreateReport

(* An edit numbers its version past the header's or finds it taken.        *)
LEMMA WriteKept ==
    ASSUME SharingInv, NEW r \in Requests, WriteVersion(r)
    PROVE  /\ DocumentsOK' /\ Grows
           /\ report' # report => report'.version = report.version + 1
           /\ \A k \in Stored : content'[k] = content[k]
<1> DEFINE q == request[r]
<1>1. /\ q.scope.workspaces # {} /\ q.version \in Versions /\ q.version <= report.version + 1
      /\ report.version \in Nat /\ MaxVersion \in Nat
      /\ report \in [state : {"absent", "present", "gone"}, version : 0 .. MaxVersion, scope : Scope]
      /\ content \in [Versions -> Scope]
      /\ Present => Stored = 1 .. report.version
  BY VersionAssumption
  DEF SharingInv, RequestsOK, RequestOK, EditOK, WriteVersion, DocumentsOK, HeaderIsLatest
<1>2. CASE Present /\ q.version \notin Stored /\ UNCHANGED <<people, deliveries, link>>
           /\ \E scope \in Renderings(q.scope.workspaces) :
                /\ report' = HeaderFor(q.version, scope)
                /\ content' = [content EXCEPT ![q.version] = scope]
  <2>1. PICK scope \in Renderings(q.scope.workspaces) :
                /\ report' = HeaderFor(q.version, scope)
                /\ content' = [content EXCEPT ![q.version] = scope]
    BY <1>2
  <2>2. scope \in Scope /\ scope.workspaces # {}
    BY <1>1, RenderingsFit
  <2>3. q.version = report.version + 1
    BY <1>1, <1>2 DEF Versions
  <2>4. report' = [state |-> "present", version |-> q.version, scope |-> scope]
    BY <1>1, <1>2, <2>1 DEF HeaderFor, Present
  <2>5. report.state # "gone" /\ q.version = IF Present THEN report.version + 1 ELSE 1
    BY <1>2, <2>3 DEF Present
  <2>6. \A k \in Stored : content'[k] = content[k]
    BY <1>1, <1>2, <2>1 DEF Stored
  <2>7. report'.version = report.version + 1
    BY <2>3, <2>4
  <2> HIDE DEF q
  <2>8. DocumentsOK' /\ Grows
    BY <1>1, <1>2, <2>1, <2>2, <2>4, <2>5, AppendKept
  <2> QED
    BY <2>6, <2>7, <2>8
<1>3. CASE Fails(r) /\ UNCHANGED people
  BY <1>3, ReadingKept DEF Fails, documents
<1> QED
  BY <1>2, <1>3 DEF WriteVersion

(* A buried link stays what it was, and is dead.                           *)
LEMMA BuriedLink ==
    ASSUME NEW x \in LinkState
    PROVE  Bury(x) \in LinkState /\ Bury(x).state \notin Alive
BY DEF Bury, LinkState, Alive

(* The cascade leaves nothing that names a version.                        *)
LEMMA DropKept ==
    ASSUME SharingInv, DropReport, Present, registered' \subseteq registered
    PROVE  DocumentsOK' /\ Grows
<1>1. /\ report \in [state : {"absent", "present", "gone"}, version : 0 .. MaxVersion, scope : Scope]
      /\ link \in [Links -> LinkState] /\ report.version \in Nat
  BY VersionAssumption DEF SharingInv, DocumentsOK
<1>2. report' = [state |-> "gone", version |-> report.version, scope |-> report.scope]
  BY <1>1 DEF DropReport
<1>3. content' \in [Versions -> Scope] /\ Stored' = {}
  BY DEF DropReport, Stored, Scope, NoScope
<1>4. /\ link' \in [Links -> LinkState]
      /\ \A l \in Links : link'[l].state \notin Alive
  BY <1>1, BuriedLink DEF DropReport
<1>5. deliveries' = {}
  BY DEF DropReport
<1>6. HeaderIsLatest'
  BY <1>2, <1>3 DEF HeaderIsLatest, Present
<1>7. Grows
  BY <1>1, <1>2 DEF Grows
<1>8. ResharesWhatWasReceived'
  BY <1>4 DEF ResharesWhatWasReceived
<1> QED
  BY <1>1, <1>2, <1>3, <1>4, <1>5, <1>6, <1>7, <1>8 DEF DocumentsOK

LEMMA DeliverKept ==
    ASSUME SharingInv, NEW r \in Requests, Deliver(r)
    PROVE  DocumentsOK' /\ Grows
<1> DEFINE q == request[r]
<1>1. CASE /\ q.version \in Stored /\ q.to \subseteq registered
           /\ deliveries' = deliveries \cup {[version |-> q.version, to |-> u] : u \in q.to}
           /\ UNCHANGED <<people, report, content, link>>
  <2>1. UNCHANGED <<registered, report, content, link, Stored>>
    BY <1>1 DEF people, Stored
  <2>2. deliveries' \subseteq [version : Stored, to : registered] /\ deliveries \subseteq deliveries'
    BY <1>1 DEF SharingInv, DocumentsOK
  <2>3. HeaderIsLatest' /\ ResharesWhatWasReceived'
    BY <2>1, <2>2 DEF SharingInv, DocumentsOK, HeaderIsLatest, Present, ResharesWhatWasReceived
  <2>4. Grows
    BY <2>1, <2>2, VersionAssumption DEF Grows, SharingInv, DocumentsOK
  <2> QED
    BY <2>1, <2>2, <2>3, <2>4 DEF SharingInv, DocumentsOK
<1>2. CASE Fails(r) /\ UNCHANGED people
  BY <1>2, ReadingKept DEF Fails, documents
<1> QED
  BY <1>1, <1>2 DEF Deliver

(* One link changes: to a live one only with its version, its owner and,   *)
(* for a received copy, its delivery in place.                             *)
LEMMA LinkKept ==
    ASSUME SharingInv, NEW l \in Links, NEW x \in LinkState,
           link' = [link EXCEPT ![l] = x],
           UNCHANGED <<people, report, content, deliveries>>,
           x.state \in Alive =>
              /\ x.version \in Stored /\ x.by \in registered
              /\ x.by # Owner => [version |-> x.version, to |-> x.by] \in deliveries
    PROVE  DocumentsOK' /\ Grows
<1>1. UNCHANGED <<registered, report, content, deliveries, Stored>>
  BY DEF people, Stored
<1>2. link' \in [Links -> LinkState] /\ link'[l] = x /\ \A k \in Links : k # l => link'[k] = link[k]
  BY DEF SharingInv, DocumentsOK
<1>3. \A k \in Links : link'[k].state \in Alive =>
          link'[k].version \in Stored' /\ link'[k].by \in registered'
  BY <1>1, <1>2 DEF SharingInv, DocumentsOK
<1>4. HeaderIsLatest'
  BY <1>1 DEF SharingInv, DocumentsOK, HeaderIsLatest, Present
<1>5. ResharesWhatWasReceived'
  BY <1>1, <1>2 DEF SharingInv, DocumentsOK, ResharesWhatWasReceived
<1>6. Grows
  BY <1>1, VersionAssumption DEF Grows, SharingInv, DocumentsOK
<1> QED
  BY <1>1, <1>2, <1>3, <1>4, <1>5, <1>6 DEF SharingInv, DocumentsOK

(* A link is minted by the owner, or on the delivery it was asked for.     *)
LEMMA MintKept ==
    ASSUME SharingInv, NEW r \in Requests, MintLink(r)
    PROVE  DocumentsOK' /\ Grows
<1> DEFINE q == request[r]
<1>1. CASE /\ q.version \in Stored /\ q.actor \in registered
           /\ \E l \in Links : link' = [link EXCEPT ![l] =
                        [state |-> "live", version |-> q.version, by |-> q.actor]]
           /\ UNCHANGED <<people, report, content, deliveries>>
  <2>1. PICK l \in Links : link' = [link EXCEPT ![l] =
                        [state |-> "live", version |-> q.version, by |-> q.actor]]
    BY <1>1
  <2> DEFINE x == [state |-> "live", version |-> q.version, by |-> q.actor]
  <2>2. x \in LinkState
    <3>1. q.version \in 0 .. MaxVersion /\ q.actor \in Users \cup {None}
      BY DEF SharingInv, RequestState
    <3> QED
      BY <3>1 DEF LinkState, Alive
  <2>3. report.state # "gone"
    BY <1>1 DEF SharingInv, DocumentsOK, HeaderIsLatest, Present
  <2>4. q.actor # Owner => [version |-> q.version, to |-> q.actor] \in deliveries
    BY <1>1, <2>3 DEF MintLink, SharingInv, RequestsOK, RequestOK, ReshareOK
  <2>5. /\ x.state = "live" /\ x.version = q.version /\ x.by = q.actor
        /\ link' = [link EXCEPT ![l] = x]
    BY <2>1
  <2> HIDE DEF x, q
  <2> QED
    BY <1>1, <2>2, <2>4, <2>5, LinkKept DEF Alive
<1>2. CASE Fails(r) /\ UNCHANGED people
  BY <1>2, ReadingKept DEF Fails, documents
<1> QED
  BY <1>1, <1>2 DEF MintLink

LEMMA RevokeKept ==
    ASSUME SharingInv, NEW r \in Requests, RevokeLink(r)
    PROVE  DocumentsOK' /\ Grows
<1> DEFINE l == request[r].link
           x == [link[l] EXCEPT !.state = IF link[l].state \in Alive THEN "revoked" ELSE link[l].state]
<1>1. l \in Links /\ link[l] \in LinkState
  BY DEF SharingInv, RequestsOK, RequestOK, RevokeLink, DocumentsOK
<1>2. /\ x \in LinkState /\ x.version = link[l].version /\ x.by = link[l].by
      /\ x.state \in Alive => link[l].state \in Alive
  BY <1>1 DEF LinkState, Alive
<1>3. link' = [link EXCEPT ![l] = x] /\ UNCHANGED <<people, report, content, deliveries>>
  BY <1>1 DEF RevokeLink
<1>4. link[l].state \in Alive =>
        /\ link[l].version \in Stored /\ link[l].by \in registered
        /\ link[l].by # Owner => [version |-> link[l].version, to |-> link[l].by] \in deliveries
  BY <1>1 DEF SharingInv, DocumentsOK, ResharesWhatWasReceived
<1> HIDE DEF x, l
<1> QED
  BY <1>1, <1>2, <1>3, <1>4, LinkKept

LEMMA ExpireKept ==
    ASSUME SharingInv, NEW l \in Links, Expire(l)
    PROVE  DocumentsOK' /\ Grows
<1> DEFINE x == [link[l] EXCEPT !.state = "expired"]
<1>1. link[l] \in LinkState /\ link[l].state \in Alive
  BY DEF SharingInv, DocumentsOK, Expire, Alive
<1>2. x \in LinkState /\ x.version = link[l].version /\ x.by = link[l].by
  BY <1>1 DEF LinkState, Alive
<1>3. link' = [link EXCEPT ![l] = x] /\ UNCHANGED <<people, report, content, deliveries>>
  BY DEF Expire
<1>4. /\ link[l].version \in Stored /\ link[l].by \in registered
      /\ link[l].by # Owner => [version |-> link[l].version, to |-> link[l].by] \in deliveries
  BY <1>1 DEF SharingInv, DocumentsOK, ResharesWhatWasReceived
<1> HIDE DEF x
<1> QED
  BY <1>2, <1>3, <1>4, LinkKept

(* Only what the account owned goes with it.                               *)
LEMMA DeleteAccountKept ==
    ASSUME SharingInv, NEW u \in Users, DeleteAccount(u)
    PROVE  DocumentsOK' /\ PeopleOK' /\ Grows
<1>1. PeopleOK' /\ registered' \subseteq registered
  <2>1. /\ registered \subseteq Users
        /\ members \in [Workspaces -> SUBSET registered]
        /\ readers \in [Projects -> SUBSET (registered \ {Owner})]
    BY DEF SharingInv, PeopleOK
  <2>2. /\ registered' = registered \ {u}
        /\ members' = [w \in Workspaces |-> members[w] \ {u}]
        /\ readers' = [p \in Projects |-> readers[p] \ {u}]
    BY DEF DeleteAccount
  <2>3. \A w \in Workspaces : members[w] \ {u} \in SUBSET (registered \ {u})
    BY <2>1
  <2>4. \A p \in Projects : readers[p] \ {u} \in SUBSET ((registered \ {u}) \ {Owner})
    BY <2>1
  <2>5. registered' \subseteq Users /\ registered' \subseteq registered
    BY <2>1, <2>2
  <2>6. members' \in [Workspaces -> SUBSET registered']
    BY <2>2, <2>3
  <2>7. readers' \in [Projects -> SUBSET (registered' \ {Owner})]
    BY <2>2, <2>4
  <2> QED
    BY <2>5, <2>6, <2>7 DEF PeopleOK
<1>2. CASE u = Owner /\ Present
  BY <1>1, <1>2, DropKept DEF DeleteAccount
<1>3. CASE ~ (u = Owner /\ Present)
  <2>1. /\ registered' = registered \ {u}
        /\ deliveries' = {d \in deliveries : d.to # u}
        /\ link' = [l \in Links |-> IF link[l].by = u THEN Bury(link[l]) ELSE link[l]]
        /\ UNCHANGED <<report, content, Stored>>
    BY <1>3 DEF DeleteAccount, Stored
  <2>2. deliveries' \subseteq [version : Stored, to : registered']
    BY <2>1 DEF SharingInv, DocumentsOK
  <2>3. ASSUME NEW l \in Links
        PROVE  /\ link'[l] \in LinkState
               /\ link'[l].state \in Alive => link'[l] = link[l] /\ link[l].by # u
    <3>1. link[l] \in LinkState
      BY DEF SharingInv, DocumentsOK
    <3> QED
      BY <2>1, <3>1, BuriedLink
  <2>4. link' \in [Links -> LinkState]
    BY <2>1, <2>3
  <2>5. \A l \in Links : link'[l].state \in Alive =>
            link'[l].version \in Stored' /\ link'[l].by \in registered'
    BY <2>1, <2>3 DEF SharingInv, DocumentsOK
  <2>6. ResharesWhatWasReceived'
    <3> SUFFICES ASSUME NEW l \in Links, link'[l].state \in Alive, link'[l].by # Owner
                 PROVE  [version |-> link'[l].version, to |-> link'[l].by] \in deliveries'
      BY DEF ResharesWhatWasReceived
    <3>1. link'[l] = link[l] /\ link[l].by # u
      BY <2>3
    <3>2. [version |-> link[l].version, to |-> link[l].by] \in deliveries
      BY <3>1 DEF SharingInv, DocumentsOK, ResharesWhatWasReceived
    <3> QED
      BY <2>1, <3>1, <3>2
  <2>7. HeaderIsLatest'
    BY <2>1 DEF SharingInv, DocumentsOK, HeaderIsLatest, Present
  <2>8. Grows
    BY <2>1, VersionAssumption DEF Grows, SharingInv, DocumentsOK
  <2> QED
    BY <1>1, <2>1, <2>2, <2>4, <2>5, <2>6, <2>7, <2>8 DEF SharingInv, DocumentsOK
<1> QED
  BY <1>1, <1>2, <1>3

(***************************************************************************)
(* The invariant.                                                          *)
(***************************************************************************)

(* The tables change by one write, a lapse of a link, a change of access or *)
(* the loss of an account.                                                 *)
LEMMA StepKept ==
    ASSUME SharingInv, Observe, NEW r \in Requests, Begin(r) \/ Proceed(r) \/ HandlerDies(r)
    PROVE  SharingInv'
<1>1. CASE Begin(r)
  BY <1>1, BeginOpens, OpeningKept
<1>2. CASE Render(r) \/ Bind(r)
  BY <1>2, RenderKept, BindKept
<1>3. ASSUME Goes(r, Idle), DocumentsOK', Grows, UNCHANGED people
      PROVE  SharingInv'
  <2>1. PeopleOK'
    BY <1>3 DEF SharingInv, PeopleOK, people
  <2> QED
    BY <1>3, <2>1, ClosingKept
<1>4. CASE CreateReport(r)
  <2>1. Goes(r, Idle) /\ UNCHANGED people
    BY <1>4 DEF CreateReport, Fails
  <2> QED
    BY <1>3, <1>4, <2>1, CreateKept
<1>5. CASE WriteVersion(r)
  <2>1. Goes(r, Idle) /\ UNCHANGED people
    BY <1>5 DEF WriteVersion, Fails
  <2> QED
    BY <1>3, <1>5, <2>1, WriteKept
<1>6. CASE DeleteReport(r)
  <2>1. Goes(r, Idle) /\ UNCHANGED people
    BY <1>6 DEF DeleteReport, Fails
  <2>2. CASE Present /\ DropReport
    BY <1>3, <2>1, <2>2, DropKept DEF people
  <2>3. CASE Fails(r)
    BY <1>3, <2>1, <2>3, ReadingKept DEF Fails, documents
  <2> QED
    BY <1>6, <2>2, <2>3 DEF DeleteReport
<1>7. CASE Deliver(r)
  <2>1. Goes(r, Idle) /\ UNCHANGED people
    BY <1>7 DEF Deliver, Fails
  <2> QED
    BY <1>3, <1>7, <2>1, DeliverKept
<1>8. CASE MintLink(r)
  <2>1. Goes(r, Idle) /\ UNCHANGED people
    BY <1>8 DEF MintLink, Fails
  <2> QED
    BY <1>3, <1>8, <2>1, MintKept
<1>9. CASE RevokeLink(r)
  <2>1. Goes(r, Idle) /\ UNCHANGED people
    BY <1>9 DEF RevokeLink
  <2> QED
    BY <1>3, <1>9, <2>1, RevokeKept
<1>10. CASE ServeView(r) \/ HandlerDies(r)
  <2>1. Goes(r, Idle) /\ UNCHANGED <<people, documents>>
    BY <1>10 DEF ServeView, HandlerDies
  <2> QED
    BY <1>3, <2>1, ReadingKept
<1> QED
  BY <1>1, <1>2, <1>4, <1>5, <1>6, <1>7, <1>8, <1>9, <1>10 DEF Proceed

(* No request moves when the world does.                                   *)
LEMMA WorldKept ==
    ASSUME SharingInv, Observe, UNCHANGED request, DocumentsOK', PeopleOK', Grows
    PROVE  SharingInv'
<1>1. ASSUME NEW x \in Requests
      PROVE  RequestOK(request'[x]) /\ EditOK(request[x])' /\ ReshareOK(request[x])' /\ SendOK(x, request[x])'
  BY StandingKept
<1> QED
  BY <1>1, HistoryTyped
  DEF SharingInv, RequestsOK, RequestOK, EditOK, ReshareOK, SendOK, Disseminates

LEMMA AccessKept ==
    ASSUME SharingInv, AccessChanges
    PROVE  DocumentsOK' /\ PeopleOK' /\ Grows
<1>1. UNCHANGED <<registered, report, content, deliveries, link, Stored>>
  BY DEF AccessChanges, documents, Stored
<1>2. PeopleOK'
  BY <1>1 DEF SharingInv, PeopleOK, AccessChanges
<1>3. DocumentsOK'
  BY <1>1 DEF SharingInv, DocumentsOK, HeaderIsLatest, ResharesWhatWasReceived, Present
<1>4. Grows
  BY <1>1, VersionAssumption DEF Grows, SharingInv, DocumentsOK
<1> QED
  BY <1>2, <1>3, <1>4

LEMMA SharingInit == Init => SharingInv
<1> SUFFICES ASSUME Init PROVE SharingInv
  OBVIOUS
<1>1. PeopleOK
  BY DEF Init, PeopleOK
<1>2. Stored = {} /\ ~ Present
  BY DEF Init, Stored, Present
<1>3. DocumentsOK
  BY <1>2, VersionAssumption
  DEF Init, DocumentsOK, HeaderIsLatest, ResharesWhatWasReceived, LinkState, Alive, Scope, NoScope
<1>4. \A r \in Requests : request[r] = Idle
  BY DEF Init
<1>5. RequestsOK
  BY <1>4, IdleFits DEF RequestsOK, EditOK, ReshareOK, SendOK
<1> QED
  BY <1>1, <1>3, <1>5, IdleFits DEF Init, SharingInv

LEMMA SharingNext == SharingInv /\ [Next]_vars => SharingInv'
<1> SUFFICES ASSUME SharingInv, [Next]_vars PROVE SharingInv'
  OBVIOUS
<1>1. CASE UNCHANGED vars
  BY <1>1 DEF vars, people, documents, history, SharingInv, PeopleOK, DocumentsOK, RequestsOK,
     Stored, HeaderIsLatest, Present, ResharesWhatWasReceived, RequestOK, EditOK, ReshareOK, SendOK,
     Disseminates
<1>2. CASE Observe /\ \E r \in Requests : Begin(r) \/ Proceed(r) \/ HandlerDies(r)
  BY <1>2, StepKept
<1>3. CASE Observe /\ \E l \in Links : Expire(l)
  <2>1. PICK l \in Links : Expire(l)
    BY <1>3
  <2>2. DocumentsOK' /\ Grows /\ UNCHANGED <<people, request>>
    BY <2>1, ExpireKept DEF Expire
  <2>3. PeopleOK'
    BY <2>2 DEF SharingInv, PeopleOK, people
  <2> QED
    BY <1>3, <2>2, <2>3, WorldKept
<1>4. CASE Observe /\ \E u \in Users : DeleteAccount(u)
  <2>1. PICK u \in Users : DeleteAccount(u)
    BY <1>4
  <2>2. UNCHANGED request
    BY <2>1 DEF DeleteAccount
  <2> QED
    BY <1>4, <2>1, <2>2, DeleteAccountKept, WorldKept
<1>5. CASE Observe /\ AccessChanges
  <2>1. UNCHANGED request
    BY <1>5 DEF AccessChanges
  <2> QED
    BY <1>5, <2>1, AccessKept, WorldKept
<1> QED
  BY <1>1, <1>2, <1>3, <1>4, <1>5 DEF Next

(***************************************************************************)
(* Theorems.                                                               *)
(***************************************************************************)

(* Every variable keeps its type and every foreign key its row.            *)
THEOREM TypeCorrect == Spec => []TypeOK
<1>1. SharingInv => TypeOK
  BY DEF SharingInv, PeopleOK, DocumentsOK, TypeOK
<1> QED
  BY <1>1, SharingInit, SharingNext, PTL DEF Spec

(* schema/reports.ts:67: the header always names the latest version, and   *)
(* its scope is that version's.                                            *)
THEOREM HeaderAlwaysLatest == Spec => []HeaderIsLatest
<1>1. SharingInv => HeaderIsLatest
  BY DEF SharingInv, DocumentsOK
<1> QED
  BY <1>1, SharingInit, SharingNext, PTL DEF Spec

(* routes/reports.ts:761: what a send or share is about to write was fit   *)
(* for its readers, unless an edit overtook it.                            *)
THEOREM AlwaysOpenedToReaders == Spec => []OpenedToReaders
<1>1. SharingInv => OpenedToReaders
  BY DEF SharingInv, RequestsOK, SendOK, OpenedToReaders
<1> QED
  BY <1>1, SharingInit, SharingNext, PTL DEF Spec

(* routes/inbox.ts:188: a recipient's link serves what was received.       *)
THEOREM AlwaysResharesReceived == Spec => []ResharesWhatWasReceived
<1>1. SharingInv => ResharesWhatWasReceived
  BY DEF SharingInv, DocumentsOK
<1> QED
  BY <1>1, SharingInit, SharingNext, PTL DEF Spec

(***************************************************************************)
(* Steps that may not happen.                                              *)
(***************************************************************************)
AppendsOnly ==
    Present /\ report'.state = "present" =>
        /\ report' # report => report'.version = report.version + 1
        /\ \A v \in Stored : content'[v] = content[v]

(* The one action that touches a present report's versions is an edit's.   *)
LEMMA AppendsNext == SharingInv /\ [Next]_vars => AppendsOnly
<1> SUFFICES ASSUME SharingInv, [Next]_vars, Present, report'.state = "present"
             PROVE  /\ report' # report => report'.version = report.version + 1
                    /\ \A v \in Stored : content'[v] = content[v]
  BY DEF AppendsOnly
<1>1. CASE UNCHANGED <<report, content>>
  BY <1>1
<1>2. CASE UNCHANGED documents
  BY <1>2, <1>1 DEF documents
<1>3. ASSUME NEW r \in Requests, Proceed(r)
      PROVE  UNCHANGED <<report, content>> \/ WriteVersion(r)
  <2>1. CASE Render(r) \/ Bind(r) \/ ServeView(r)
    BY <2>1 DEF Render, Bind, ServeView, documents
  <2>2. CASE CreateReport(r)
    BY <2>2 DEF CreateReport, Present, Fails, documents
  <2>3. CASE DeleteReport(r)
    <3>1. ~ DropReport
      BY DEF DropReport, SharingInv, DocumentsOK
    <3> QED
      BY <2>3, <3>1 DEF DeleteReport, Fails, documents
  <2>4. CASE Deliver(r) \/ MintLink(r) \/ RevokeLink(r)
    BY <2>4 DEF Deliver, MintLink, RevokeLink, Fails, documents
  <2> QED
    BY <1>3, <2>1, <2>2, <2>3, <2>4 DEF Proceed
<1>4. CASE \E r \in Requests : Proceed(r)
  BY <1>1, <1>3, <1>4, WriteKept
<1>5. CASE \E r \in Requests : Begin(r) \/ HandlerDies(r)
  <2>1. UNCHANGED documents
    BY <1>5, BeginOpens DEF HandlerDies, Opens
  <2> QED
    BY <1>2, <2>1
<1>6. CASE \E u \in Users : DeleteAccount(u)
  <2>1. ~ DropReport
    BY DEF DropReport, SharingInv, DocumentsOK
  <2> QED
    BY <1>1, <1>6, <2>1 DEF DeleteAccount
<1>7. CASE (\E l \in Links : Expire(l)) \/ AccessChanges
  BY <1>1, <1>7 DEF Expire, AccessChanges, documents
<1>8. CASE UNCHANGED vars
  BY <1>2, <1>8 DEF vars
<1> QED
  BY <1>4, <1>5, <1>6, <1>7, <1>8 DEF Next

(* queries/reports.ts:206: edits never overwrite a version, nor each other.*)
THEOREM VersionsAlwaysAppend == Spec => VersionsOnlyAppend
<1>1. AppendsOnly => [Present /\ report'.state = "present" =>
        /\ report' # report => report'.version = report.version + 1
        /\ \A v \in Stored : content'[v] = content[v]]_vars
  BY DEF AppendsOnly
<1> QED
  BY <1>1, SharingInit, SharingNext, AppendsNext, PTL DEF Spec, VersionsOnlyAppend

(* Nothing brings a dead link back.                                        *)
LEMMA DeadStays ==
    ASSUME SharingInv, NEW l \in Links, link[l].state \notin {"absent", "live"}, [Next]_vars
    PROVE  link'[l].state \notin {"absent", "live"}
<1> DEFINE Kept == link'[l].state \notin {"absent", "live"}
<1>0. link \in [Links -> LinkState]
  BY DEF SharingInv, DocumentsOK
<1>1. Bury(link[l]).state \notin {"absent", "live"}
  BY <1>0 DEF Bury, LinkState, Alive
<1>2. CASE UNCHANGED link
  BY <1>2
<1>3. CASE DropReport
  BY <1>1, <1>3 DEF DropReport
<1>4. ASSUME NEW r \in Requests, Proceed(r)
      PROVE  Kept
  <2>1. CASE UNCHANGED link
    BY <2>1
  <2>2. CASE Render(r) \/ Bind(r) \/ ServeView(r) \/ CreateReport(r) \/ WriteVersion(r) \/ Deliver(r)
    BY <2>1, <2>2 DEF Render, Bind, ServeView, CreateReport, WriteVersion, Deliver, Fails, documents
  <2>3. CASE DeleteReport(r)
    BY <1>3, <2>1, <2>3 DEF DeleteReport, Fails, documents
  <2>4. CASE MintLink(r)
    <3>1. ASSUME NEW k \in Links, link[k].state = "absent", NEW x, link' = [link EXCEPT ![k] = x]
          PROVE  link'[l] = link[l]
      BY <1>0, <3>1
    <3> QED
      BY <2>1, <2>4, <3>1 DEF MintLink, Fails, documents
  <2>5. CASE RevokeLink(r)
    <3> DEFINE k == request[r].link
    <3>1. link' = [link EXCEPT ![k].state = IF @ \in Alive THEN "revoked" ELSE @]
      BY <2>5 DEF RevokeLink
    <3>2. link'[l].state = IF l = k /\ link[l].state \in Alive THEN "revoked" ELSE link[l].state
      BY <1>0, <3>1 DEF LinkState
    <3> QED
      BY <3>2
  <2> QED
    BY <1>4, <2>2, <2>3, <2>4, <2>5 DEF Proceed
<1>5. CASE \E r \in Requests : Begin(r) \/ HandlerDies(r)
  BY <1>2, <1>5, BeginOpens DEF HandlerDies, Opens, documents
<1>6. CASE \E k \in Links : Expire(k)
  BY <1>0, <1>6 DEF Expire
<1>7. CASE \E u \in Users : DeleteAccount(u)
  BY <1>1, <1>3, <1>7 DEF DeleteAccount
<1>8. CASE AccessChanges \/ UNCHANGED vars
  BY <1>2, <1>8 DEF AccessChanges, documents, vars
<1>9. CASE \E r \in Requests : Proceed(r)
  BY <1>4, <1>9
<1> QED
  BY <1>5, <1>6, <1>7, <1>8, <1>9 DEF Next

(* A view is only begun on a link that is live.                            *)
LEMMA ViewsOfLive ==
    ASSUME SharingInv, [Next]_vars, NEW r \in Requests,
           request'[r].op = "view", request'[r] # request[r]
    PROVE  link[request'[r].link].state = "live"
<1>1. PICK x \in Requests : Begin(x) \/ Proceed(x) \/ HandlerDies(x)
  BY DEF Next, vars, Expire, DeleteAccount, AccessChanges
<1>2. request \in [Requests -> RequestState]
  BY DEF SharingInv
<1>3. CASE Begin(x)
  <2>1. PICK q : Opens(x, q)
    BY <1>3, BeginOpens
  <2>2. x = r /\ request'[r] = q
    BY <1>2, <2>1 DEF Opens, Goes
  <2> QED
    BY <2>1, <2>2 DEF Opens, Usable
<1>4. CASE Goes(x, Idle)
  BY <1>2, <1>4, IdleFits DEF Goes
<1>5. CASE Render(x) \/ Bind(x)
  <2> DEFINE q == request[x]
  <2>1. q \in RequestState /\ q.op # "view"
    BY <1>5 DEF SharingInv, RequestsOK, RequestOK, Render, Bind, Disseminates
  <2>2. \A v : LET n == [q EXCEPT !.step = "write", !.version = v] IN n.op = q.op
    BY <2>1 DEF RequestState
  <2>3. [q EXCEPT !.step = "write"].op = q.op
    BY <2>1 DEF RequestState
  <2>4. ASSUME NEW n, Goes(x, n), n.op # "view"
        PROVE  FALSE
    BY <1>2, <2>4 DEF Goes
  <2> QED
    BY <1>4, <1>5, <2>1, <2>2, <2>3, <2>4 DEF Render, Bind
<1>6. CASE Proceed(x) /\ ~ Render(x) /\ ~ Bind(x)
  <2>1. Goes(x, Idle)
    BY <1>6 DEF Proceed, CreateReport, WriteVersion, DeleteReport, Deliver, MintLink, RevokeLink,
       ServeView, Fails
  <2> QED
    BY <1>4, <2>1
<1>7. CASE HandlerDies(x)
  BY <1>4, <1>7 DEF HandlerDies
<1> QED
  BY <1>1, <1>3, <1>5, <1>6, <1>7

DeadLinksStep ==
    \A l \in Links : link[l].state \notin {"absent", "live"} =>
        /\ link'[l].state \notin {"absent", "live"}
        /\ \A r \in Requests : request'[r].op = "view" /\ request'[r].link = l =>
                request[r] = request'[r]

(* share.ts:20: a link once dead is dead to every view that comes after.   *)
THEOREM DeadLinksAlwaysStayDead == Spec => DeadLinksStayDead
<1>1. SharingInv /\ [Next]_vars => DeadLinksStep
  BY DeadStays, ViewsOfLive DEF DeadLinksStep
<1>2. DeadLinksStep => [\A l \in Links : link[l].state \notin {"absent", "live"} =>
        /\ link'[l].state \notin {"absent", "live"}
        /\ \A r \in Requests : request'[r].op = "view" /\ request'[r].link = l =>
                request[r] = request'[r]]_vars
  BY DEF DeadLinksStep
<1> QED
  BY <1>1, <1>2, SharingInit, SharingNext, PTL DEF Spec, DeadLinksStayDead

(***************************************************************************)
(* The tables keep the promises of PublishedReport.                        *)
(***************************************************************************)

(* The stored versions are the editions.                                   *)
LEMMA EditionsStored ==
    ASSUME SharingInv
    PROVE  /\ Editions \in Seq(Scope)
           /\ Len(Editions) = IF Present THEN report.version ELSE 0
           /\ Stored = 1 .. Len(Editions)
<1>1. /\ content \in [Versions -> Scope] /\ report.version \in 0 .. MaxVersion /\ MaxVersion \in Nat
      /\ Stored = IF Present THEN 1 .. report.version ELSE {}
  BY VersionAssumption DEF SharingInv, DocumentsOK, HeaderIsLatest
<1>2. CASE Present
  <2> DEFINE n == report.version
  <2>1. n \in Nat /\ \A v \in 1 .. n : content[v] \in Scope
    BY <1>1 DEF Versions
  <2>2. Editions = [v \in 1 .. n |-> content[v]]
    BY <1>2 DEF Editions
  <2> HIDE DEF n
  <2>3. Editions \in Seq(Scope) /\ Len(Editions) = n
    BY <2>1, <2>2
  <2> QED
    BY <1>1, <1>2, <2>3 DEF n
<1>3. CASE ~ Present
  <2>1. Editions = <<>> /\ Stored = {}
    BY <1>1, <1>3 DEF Editions
  <2> QED
    BY <1>3, <2>1
<1> QED
  BY <1>2, <1>3

LEMMA AppendedEdition ==
    ASSUME SharingInv, NEW v \in Versions, NEW scope \in Scope,
           v = IF Present THEN report.version + 1 ELSE 1,
           report'.state = "present", report'.version = v,
           content' = [content EXCEPT ![v] = scope]
    PROVE  Editions' = Append(Editions, scope)
<1> DEFINE n == Len(Editions)
<1>1. /\ Editions \in Seq(Scope) /\ n \in Nat /\ v = n + 1
      /\ content \in [Versions -> Scope] /\ MaxVersion \in Nat
  BY EditionsStored, VersionAssumption DEF SharingInv, DocumentsOK
<1>2. \A k \in 1 .. n : Editions[k] = content[k]
  <2>1. CASE Present
    BY <2>1, EditionsStored DEF Editions
  <2>2. CASE ~ Present
    BY <2>2, EditionsStored
  <2> QED
    BY <2>1, <2>2
<1>3. Editions' = [k \in 1 .. v |-> content'[k]]
  BY DEF Editions, Present
<1>4. \A k \in 1 .. v : content'[k] = IF k = v THEN scope ELSE content[k]
  BY <1>1 DEF Versions
<1> DEFINE e == Editions
           f == [k \in 1 .. v |-> content'[k]]
           a == Append(e, scope)
<1>5. /\ f \in Seq(Scope) /\ Len(f) = n + 1
      /\ \A k \in 1 .. n + 1 : f[k] = IF k = n + 1 THEN scope ELSE e[k]
  <2>1. \A k \in 1 .. v : content'[k] \in Scope
    BY <1>1, <1>4 DEF Versions
  <2> QED
    BY <1>1, <1>2, <1>4, <2>1
<1>6. /\ a \in Seq(Scope) /\ Len(a) = n + 1
      /\ \A k \in 1 .. n + 1 : a[k] = IF k = n + 1 THEN scope ELSE e[k]
  BY <1>1, AppendProperties
<1> HIDE DEF n, e, f, a
<1>7. f = a
  BY <1>5, <1>6, SeqEqual
<1> QED
  BY <1>3, <1>7 DEF e, f, a

(* Links that stop being live are doors that shut.                         *)
LEMMA DoorsShut ==
    ASSUME NEW G \in SUBSET Links,
           \A k \in Links : (link'[k].state = "absent") <=> (link[k].state = "absent"),
           \A k \in G : link'[k].state # "live",
           \A k \in Links \ G : link'[k] = link[k]
    PROVE  Doors' = {d \in Doors : d.link \notin G} /\ Spent' = Spent
BY DEF Doors, Spent

(* The book on the rows as they are.                                       *)
LEMMA BookSame ==
    ASSUME UNCHANGED documents
    PROVE  UNCHANGED Book!book
BY DEF documents, Book!book, Editions, Present, Doors, Spent

LEMMA PublishStep ==
    ASSUME SharingInv, NEW v \in Versions, NEW scope \in Scope,
           v = IF Present THEN report.version + 1 ELSE 1,
           report.state # "gone",
           report'.state = "present", report'.version = v,
           content' = [content EXCEPT ![v] = scope],
           UNCHANGED <<deliveries, link>>
    PROVE  Book!Next
<1>1. Editions' = Append(Editions, scope)
  BY AppendedEdition
<1>2. Doors' = Doors /\ Spent' = Spent
  BY DEF Doors, Spent
<1>3. Book!Publish(scope)
  BY <1>1, <1>2 DEF Book!Publish
<1> QED
  BY <1>3 DEF Book!Next

LEMMA WithdrawStep ==
    ASSUME SharingInv, DropReport
    PROVE  Book!Next
<1>1. link \in [Links -> LinkState] /\ report \in [state : {"absent", "present", "gone"}, version : 0 .. MaxVersion, scope : Scope]
  BY DEF SharingInv, DocumentsOK
<1>2. \A k \in Links : /\ (link'[k].state = "absent") <=> (link[k].state = "absent")
                       /\ link'[k].state # "live"
  BY <1>1 DEF DropReport, Bury, LinkState, Alive
<1>3. Doors' = {d \in Doors : d.link \notin Links} /\ Spent' = Spent
  BY <1>2, DoorsShut
<1>4. Doors' = {}
  BY <1>3 DEF Doors
<1>5. report'.state = "gone"
  BY <1>1 DEF DropReport
<1>6. Editions' = <<>>
  BY <1>5 DEF Editions, Present
<1>7. Book!Withdraw
  BY <1>3, <1>4, <1>5, <1>6 DEF Book!Withdraw, DropReport
<1> QED
  BY <1>7 DEF Book!Next

LEMMA ForgetStep ==
    ASSUME SharingInv, NEW u \in Users, DeleteAccount(u)
    PROVE  Book!Next
<1>1. CASE DropReport
  BY <1>1, WithdrawStep
<1>2. CASE /\ deliveries' = {d \in deliveries : d.to # u}
           /\ link' = [l \in Links |-> IF link[l].by = u THEN Bury(link[l]) ELSE link[l]]
           /\ UNCHANGED <<report, content>>
  <2> DEFINE G == {k \in Links : link[k].by = u}
  <2>1. link \in [Links -> LinkState]
    BY DEF SharingInv, DocumentsOK
  <2>2. /\ \A k \in Links : (link'[k].state = "absent") <=> (link[k].state = "absent")
        /\ \A k \in G : link'[k].state # "live"
        /\ \A k \in Links \ G : link'[k] = link[k]
    BY <1>2, <2>1 DEF Bury, LinkState, Alive
  <2>3. Doors' = {d \in Doors : d.link \notin G} /\ Spent' = Spent
    <3>1. G \in SUBSET Links
      OBVIOUS
    <3> HIDE DEF G
    <3> QED
      BY <2>2, <3>1, DoorsShut
  <2>4. \A d \in Doors : d.link \in G <=> d.by = u
    BY DEF Doors
  <2>5. Doors' = {d \in Doors : d.by # u}
    BY <2>3, <2>4
  <2>6. Editions' = Editions
    BY <1>2 DEF Editions, Present
  <2>7. Book!Forget(u)
    BY <1>2, <2>3, <2>5, <2>6 DEF Book!Forget
  <2> QED
    BY <2>7 DEF Book!Next
<1> QED
  BY <1>1, <1>2 DEF DeleteAccount

LEMMA ShutStep ==
    ASSUME SharingInv, NEW l \in Links, NEW x \in LinkState, x.state \notin {"live", "absent"},
           link[l].state # "absent",
           link' = [link EXCEPT ![l] = x], UNCHANGED <<report, content, deliveries>>
    PROVE  Book!Next
<1>1. link \in [Links -> LinkState]
  BY DEF SharingInv, DocumentsOK
<1> DEFINE G == {l}
<1>2. /\ \A k \in Links : (link'[k].state = "absent") <=> (link[k].state = "absent")
      /\ \A k \in G : link'[k].state # "live"
      /\ \A k \in Links \ G : link'[k] = link[k]
      /\ G \in SUBSET Links
  BY <1>1
<1> HIDE DEF G
<1>3. Doors' = {d \in Doors : d.link \notin G} /\ Spent' = Spent
  BY <1>2, DoorsShut
<1>4. Doors' = {d \in Doors : d.link # l}
  BY <1>3 DEF G
<1>5. Editions' = Editions
  BY DEF Editions, Present
<1>6. Book!Shut(l)
  BY <1>3, <1>4, <1>5 DEF Book!Shut
<1> QED
  BY <1>6 DEF Book!Next

LEMMA SendStep ==
    ASSUME SharingInv, NEW v \in Stored, NEW U \in SUBSET Users,
           deliveries' = deliveries \cup {[version |-> v, to |-> u] : u \in U},
           UNCHANGED <<report, content, link>>
    PROVE  Book!Next
<1>1. v \in 1 .. Len(Editions)
  BY EditionsStored
<1>2. Editions' = Editions /\ Doors' = Doors /\ Spent' = Spent
  BY DEF Editions, Present, Doors, Spent
<1>3. Book!Send(v, U)
  BY <1>1, <1>2 DEF Book!Send, Book!Copy
<1> QED
  BY <1>1, <1>3 DEF Book!Next

LEMMA OpenStep ==
    ASSUME SharingInv, NEW l \in Links, link[l].state = "absent",
           NEW v \in Stored, NEW u \in Users,
           u = Owner \/ [version |-> v, to |-> u] \in deliveries,
           link' = [link EXCEPT ![l] = [state |-> "live", version |-> v, by |-> u]],
           UNCHANGED <<report, content, deliveries>>
    PROVE  Book!Next
<1> DEFINE x == [state |-> "live", version |-> v, by |-> u]
<1>1. link \in [Links -> LinkState]
  BY DEF SharingInv, DocumentsOK
<1>2. /\ x.state = "live" /\ x.version = v /\ x.by = u
      /\ link'[l] = x /\ \A k \in Links \ {l} : link'[k] = link[k]
  BY <1>1
<1> HIDE DEF x
<1>3. Doors' = Doors \cup {[link |-> l, version |-> v, by |-> u]}
  BY <1>2 DEF Doors
<1>4. Spent' = Spent \cup {l} /\ l \notin Spent
  BY <1>2 DEF Spent
<1>5. v \in 1 .. Len(Editions) /\ Editions' = Editions
  BY EditionsStored DEF Editions, Present
<1>6. Book!Open(l, v, u)
  BY <1>3, <1>4, <1>5 DEF Book!Open, Book!Copy, Book!Door
<1> QED
  BY <1>5, <1>6 DEF Book!Next

(* A write of a request is one entry of the book, or none.                 *)
LEMMA BookProceeds ==
    ASSUME SharingInv, NEW r \in Requests, Proceed(r)
    PROVE  Book!Next \/ UNCHANGED Book!book
<1> DEFINE q == request[r]
           Goal == Book!Next \/ UNCHANGED Book!book
<1>0. q \in RequestState /\ RequestOK(q) /\ EditOK(q) /\ ReshareOK(q) /\ link \in [Links -> LinkState]
  BY DEF SharingInv, RequestsOK, DocumentsOK
<1>1. CASE Render(r) \/ Bind(r) \/ ServeView(r) \/ Fails(r)
  BY <1>1, BookSame DEF Render, Bind, ServeView, Fails
<1>2. ASSUME NEW v \in Versions, v = IF Present THEN report.version + 1 ELSE 1, report.state # "gone",
             NEW W, W # {}, NEW scope \in Renderings(W),
             report'.state = "present", report'.version = v,
             content' = [content EXCEPT ![v] = scope], UNCHANGED <<deliveries, link>>
      PROVE  Goal
  BY <1>2, RenderingsFit, PublishStep
<1>3. CASE CreateReport(r)
  <2>1. CASE report.state = "absent" /\ UNCHANGED <<deliveries, link>>
             /\ \E scope \in Renderings(q.scope.workspaces) :
                  /\ report' = [state |-> "present", version |-> 1, scope |-> scope]
                  /\ content' = [content EXCEPT ![1] = scope]
    <3>1. 1 \in Versions /\ 1 = IF Present THEN report.version + 1 ELSE 1
      BY <2>1, VersionAssumption DEF Versions, Present
    <3>2. q.scope.workspaces # {}
      BY <1>0, <1>3 DEF RequestOK, CreateReport
    <3>3. PICK scope \in Renderings(q.scope.workspaces) :
            /\ report' = [state |-> "present", version |-> 1, scope |-> scope]
            /\ content' = [content EXCEPT ![1] = scope]
      BY <2>1
    <3>4. report'.state = "present" /\ report'.version = 1 /\ report.state # "gone"
      BY <2>1, <3>3
    <3> HIDE DEF q
    <3> QED
      BY <1>2, <2>1, <3>1, <3>2, <3>3, <3>4
  <2> QED
    BY <1>1, <1>3, <2>1 DEF CreateReport
<1>4. CASE WriteVersion(r)
  <2>1. CASE Present /\ q.version \notin Stored /\ UNCHANGED <<deliveries, link>>
             /\ \E scope \in Renderings(q.scope.workspaces) :
                  /\ report' = HeaderFor(q.version, scope)
                  /\ content' = [content EXCEPT ![q.version] = scope]
    <3>1. /\ q.version \in Versions /\ q.version <= report.version + 1 /\ q.scope.workspaces # {}
          /\ report.version \in 0 .. MaxVersion /\ MaxVersion \in Nat /\ Stored = 1 .. report.version
          /\ report \in [state : {"absent", "present", "gone"}, version : 0 .. MaxVersion, scope : Scope]
      BY <1>0, <1>4, <2>1, VersionAssumption
      DEF RequestOK, EditOK, WriteVersion, SharingInv, DocumentsOK, HeaderIsLatest
    <3>2. q.version = report.version + 1
      BY <2>1, <3>1 DEF Versions
    <3>3. \A scope : /\ HeaderFor(q.version, scope).state = "present"
                     /\ HeaderFor(q.version, scope).version = q.version
      BY <2>1, <3>1 DEF HeaderFor, Present
    <3>4. report.state # "gone" /\ q.version = IF Present THEN report.version + 1 ELSE 1
      BY <2>1, <3>2 DEF Present
    <3>5. PICK scope \in Renderings(q.scope.workspaces) :
            /\ report' = HeaderFor(q.version, scope)
            /\ content' = [content EXCEPT ![q.version] = scope]
      BY <2>1
    <3>6. report'.state = "present" /\ report'.version = q.version
      BY <3>3, <3>5
    <3> HIDE DEF q
    <3> QED
      BY <1>2, <2>1, <3>1, <3>4, <3>5, <3>6
  <2> QED
    BY <1>1, <1>4, <2>1 DEF WriteVersion
<1>5. CASE DeleteReport(r)
  BY <1>1, <1>5, WithdrawStep DEF DeleteReport
<1>6. CASE Deliver(r)
  <2>1. CASE /\ q.version \in Stored /\ UNCHANGED <<report, content, link>>
             /\ deliveries' = deliveries \cup {[version |-> q.version, to |-> u] : u \in q.to}
    <3>1. q.to \in SUBSET Users
      BY <1>0 DEF RequestState
    <3> HIDE DEF q
    <3> QED
      BY <2>1, <3>1, SendStep
  <2> QED
    BY <1>1, <1>6, <2>1 DEF Deliver
<1>7. CASE MintLink(r)
  <2>1. CASE /\ q.version \in Stored /\ q.actor \in registered /\ UNCHANGED <<report, content, deliveries>>
             /\ \E l \in Links :
                  /\ link[l].state = "absent"
                  /\ link' = [link EXCEPT ![l] =
                          [state |-> "live", version |-> q.version, by |-> q.actor]]
    <3>1. report.state # "gone"
      BY <2>1 DEF SharingInv, DocumentsOK, HeaderIsLatest, Present
    <3>2. q.actor = Owner \/ [version |-> q.version, to |-> q.actor] \in deliveries
      BY <1>0, <1>7, <2>1, <3>1 DEF MintLink, RequestOK, ReshareOK
    <3>3. q.actor \in Users
      BY <2>1 DEF SharingInv, PeopleOK
    <3> HIDE DEF q
    <3> QED
      BY <2>1, <3>2, <3>3, OpenStep
  <2> QED
    BY <1>1, <1>7, <2>1 DEF MintLink
<1>8. CASE RevokeLink(r)
  <2> DEFINE l == q.link
             x == [link[l] EXCEPT !.state = "revoked"]
  <2>1. l \in Links /\ UNCHANGED <<people, report, content, deliveries>>
    BY <1>0, <1>8 DEF RequestOK, RevokeLink
  <2>2. CASE link[l].state \notin Alive
    <3>1. link' = link
      BY <1>0, <1>8, <2>1, <2>2 DEF RevokeLink, LinkState
    <3> QED
      BY <2>1, <3>1, BookSame DEF documents
  <2>3. CASE link[l].state \in Alive
    <3>1. link[l] \in LinkState /\ link' = [link EXCEPT ![l] = x]
      BY <1>0, <1>8, <2>1, <2>3 DEF RevokeLink
    <3>2. x \in LinkState /\ x.state = "revoked"
      BY <3>1 DEF LinkState, Alive
    <3>3. link[l].state # "absent"
      BY <2>3 DEF Alive
    <3> HIDE DEF x, l
    <3> QED
      BY <2>1, <3>1, <3>2, <3>3, ShutStep
  <2> QED
    BY <2>2, <2>3
<1> QED
  BY <1>1, <1>3, <1>4, <1>5, <1>6, <1>7, <1>8 DEF Proceed

LEMMA BookStep == SharingInv /\ [Next]_vars => [Book!Next]_(Book!book)
<1> SUFFICES ASSUME SharingInv, [Next]_vars PROVE Book!Next \/ UNCHANGED Book!book
  OBVIOUS
<1>1. CASE \E r \in Requests : Proceed(r)
  BY <1>1, BookProceeds
<1>2. CASE \E r \in Requests : Begin(r) \/ HandlerDies(r)
  BY <1>2, BeginOpens, BookSame DEF HandlerDies, Opens
<1>3. ASSUME NEW l \in Links, Expire(l) PROVE Book!Next
  <2> DEFINE x == [link[l] EXCEPT !.state = "expired"]
  <2>1. link[l] \in LinkState
    BY DEF SharingInv, DocumentsOK
  <2>2. x \in LinkState /\ x.state = "expired"
    BY <2>1 DEF LinkState, Alive
  <2>3. link' = [link EXCEPT ![l] = x] /\ link[l].state # "absent" /\ UNCHANGED <<report, content, deliveries>>
    BY <1>3 DEF Expire
  <2> HIDE DEF x
  <2> QED
    BY <2>2, <2>3, ShutStep
<1>4. CASE \E u \in Users : DeleteAccount(u)
  BY <1>4, ForgetStep
<1>5. CASE AccessChanges \/ UNCHANGED vars
  BY <1>5, BookSame DEF AccessChanges, vars
<1> QED
  BY <1>1, <1>2, <1>3, <1>4, <1>5 DEF Next

(* queries/reports.ts:206, report-shares.ts:32, inbox.ts:188 together: the *)
(* tables implement PublishedReport, an append-only list of editions with  *)
(* copies and doors that show one edition each and never reopen.           *)
THEOREM TablesKeepTheBook == Spec => BookSpec
<1>1. Init => Book!Init
  <2> SUFFICES ASSUME Init PROVE Book!Init
    OBVIOUS
  <2>1. Editions = <<>> /\ Doors = {} /\ Spent = {} /\ report.state # "gone"
    BY DEF Init, Editions, Present, Doors, Spent
  <2> QED
    BY <2>1 DEF Init, Book!Init
<1>2. SharingInv /\ [Next]_vars => [Book!Next]_(Book!book)
  BY BookStep
<1> QED
  BY <1>1, <1>2, SharingInit, SharingNext, PTL DEF Spec, BookSpec, Book!Spec
=============================================================================
