----------------------- MODULE InstanceAccountsProofs -----------------------
(***************************************************************************)
(* What holds of InstanceAccounts for any number of accounts, addresses,   *)
(* invitations and concurrent requests.                                    *)
(***************************************************************************)
EXTENDS InstanceAccounts, FiniteSetTheorems, TLAPS

(***************************************************************************)
(* Types.                                                                  *)
(***************************************************************************)

(* What a request carries fits its operation and its step.                 *)
RequestOK(q) ==
    /\ q.change # {} => q.op = "patch"
    /\ q.op \in {"patch", "delete"} => q.actor \in Accounts /\ q.account \in Accounts
    /\ q.op \in {"patch", "delete"} => q.step \in {"target", "write", "sessions"}
    /\ q.op = "accept" => q.invitation \in Invitations
    /\ q.step \in {"hook", "insert"} => q.op \in Creating
    /\ q.step = "claim" => q.op = "social"
    /\ q.step = "mark" => q.op \in {"accept", "social"} /\ q.invitation \in Invitations
    /\ q.step = "grant" => q.op \in {"create", "accept", "social"}
    /\ q.step = "grant" /\ q.op = "social" => q.invitation \in Invitations
    /\ q.step \in {"claim", "mark", "grant", "check", "session"} =>
            q.op \in Creating \cup {"signIn"} /\ q.account \in Accounts

RequestsOK == \A r \in Requests : RequestOK(request[r])
BaseInv == TypeOK /\ RequestsOK

LEMMA IdleState ==
    /\ Idle \in RequestState /\ RequestOK(Idle) /\ ~ Removal(Idle)
    /\ Idle.op = "idle" /\ Idle.step = "idle" /\ Idle.change = {}
  BY DEF Idle, RequestState, RequestOK, Ops, Steps, Changes, Creating, Removal

(* The requests there are when they start, and what they were let in by.   *)
Opening(q) ==
    \/ q.op = "signUp" /\ q.step = "hook" /\ q.change = {} /\ Unclaimed
    \/ q.op \in {"create", "social"} /\ q.step = "hook" /\ q.change = {}
    \/ /\ q.op = "accept" /\ q.step = "hook" /\ q.change = {}
       /\ q.invitation \in Invitations /\ Pending(q.invitation)
       /\ q.grant = invitation[q.invitation].grant
    \/ q.op = "signIn" /\ q.step = "check" /\ q.change = {} /\ q.account \in Accounts
    \/ q.op \in {"invite", "revoke"} /\ q.step = "write" /\ q.change = {}
    \/ /\ q.op \in {"patch", "delete"} /\ q.step = "target"
       /\ q.change # {} => q.op = "patch"
       /\ q.actor \in Accounts /\ q.account \in Accounts /\ MayAct(q.actor)

LEMMA OpeningOK ==
    ASSUME NEW q, Opening(q)
    PROVE  RequestOK(q)
  BY DEF Opening, RequestOK, Creating

Opens(r) ==
    \E q \in RequestState :
        request[r] = Idle /\ Opening(q) /\ request' = [request EXCEPT ![r] = q] /\ UNCHANGED tables

LEMMA BeginOpens ==
    ASSUME TypeOK, NEW r \in Requests, Begin(r)
    PROVE  Opens(r)
  <1> USE IdleState DEF Start, Goes
  <1>1. ASSUME NEW e \in Emails, BeginSignUp(r, e)
        PROVE  Opens(r)
    <2> DEFINE q == [Idle EXCEPT !.op = "signUp", !.step = "hook", !.email = e]
    <2>1. q \in RequestState BY DEF RequestState, Ops, Steps
    <2>2. Opening(q) BY <1>1 DEF BeginSignUp, Opening, RequestState
    <2> QED BY <1>1, <2>1, <2>2 DEF BeginSignUp, Opens
  <1>2. ASSUME NEW e \in Emails, BeginSocial(r, e)
        PROVE  Opens(r)
    <2> DEFINE q == [Idle EXCEPT !.op = "social", !.step = "hook", !.email = e]
    <2>1. q \in RequestState BY DEF RequestState, Ops, Steps
    <2>2. Opening(q) BY <1>2 DEF BeginSocial, Opening, RequestState
    <2> QED BY <1>2, <2>1, <2>2 DEF BeginSocial, Opens
  <1>3. ASSUME NEW i \in Invitations, BeginAccept(r, i)
        PROVE  Opens(r)
    <2> DEFINE q == [Idle EXCEPT !.op = "accept", !.step = "hook", !.invitation = i,
                             !.email = invitation[i].email, !.grant = invitation[i].grant]
    <2>1. q \in RequestState
      <3>1. invitation[i] \in InvitationState BY DEF TypeOK
      <3> QED BY <3>1 DEF RequestState, Ops, Steps, InvitationState
    <2>2. Opening(q) BY <1>3 DEF BeginAccept, Opening, RequestState
    <2> QED BY <1>3, <2>1, <2>2 DEF BeginAccept, Opens
  <1>4. ASSUME NEW a \in Accounts, BeginSignIn(r, a)
        PROVE  Opens(r)
    <2> DEFINE q == [Idle EXCEPT !.op = "signIn", !.step = "check", !.account = a]
    <2>1. q \in RequestState BY DEF RequestState, Ops, Steps
    <2>2. Opening(q) BY <1>4 DEF BeginSignIn, Opening, RequestState
    <2> QED BY <1>4, <2>1, <2>2 DEF BeginSignIn, Opens
  <1>5. ASSUME NEW a \in Accounts, NEW e \in Emails, NEW grant \in BOOLEAN, BeginCreate(r, a, e, grant)
        PROVE  Opens(r)
    <2> DEFINE q == [Idle EXCEPT !.op = "create", !.step = "hook", !.email = e, !.grant = grant]
    <2>1. q \in RequestState BY DEF RequestState, Ops, Steps
    <2>2. Opening(q) BY <1>5 DEF BeginCreate, Opening, RequestState
    <2> QED BY <1>5, <2>1, <2>2 DEF BeginCreate, Opens
  <1>6. ASSUME NEW a \in Accounts, NEW e \in Emails, NEW grant \in BOOLEAN, BeginInvite(r, a, e, grant)
        PROVE  Opens(r)
    <2> DEFINE q == [Idle EXCEPT !.op = "invite", !.step = "write", !.actor = a, !.email = e,
                             !.grant = grant]
    <2>1. q \in RequestState BY DEF RequestState, Ops, Steps
    <2>2. Opening(q) BY <1>6 DEF BeginInvite, Opening, RequestState
    <2> QED BY <1>6, <2>1, <2>2 DEF BeginInvite, Opens
  <1>7. ASSUME NEW a \in Accounts, NEW i \in Invitations, BeginRevoke(r, a, i)
        PROVE  Opens(r)
    <2> DEFINE q == [Idle EXCEPT !.op = "revoke", !.step = "write", !.invitation = i]
    <2>1. q \in RequestState BY DEF RequestState, Ops, Steps
    <2>2. Opening(q) BY <1>7 DEF BeginRevoke, Opening, RequestState
    <2> QED BY <1>7, <2>1, <2>2 DEF BeginRevoke, Opens
  <1>8. ASSUME NEW a \in Accounts, NEW b \in Accounts, NEW change \in Patches, BeginPatch(r, a, b, change)
        PROVE  Opens(r)
    <2> DEFINE q == [Idle EXCEPT !.op = "patch", !.step = "target", !.actor = a, !.account = b,
                             !.change = change]
    <2>1. q \in RequestState BY PatchAssumption DEF RequestState, Ops, Steps, Changes
    <2>2. Opening(q) BY <1>8 DEF BeginPatch, Opening, RequestState
    <2> QED BY <1>8, <2>1, <2>2 DEF BeginPatch, Opens
  <1>9. ASSUME NEW a \in Accounts, NEW b \in Accounts, BeginDelete(r, a, b)
        PROVE  Opens(r)
    <2> DEFINE q == [Idle EXCEPT !.op = "delete", !.step = "target", !.actor = a, !.account = b]
    <2>1. q \in RequestState BY DEF RequestState, Ops, Steps
    <2>2. Opening(q) BY <1>9 DEF BeginDelete, Opening, RequestState
    <2> QED BY <1>9, <2>1, <2>2 DEF BeginDelete, Opens
  <1> QED BY <1>1, <1>2, <1>3, <1>4, <1>5, <1>6, <1>7, <1>8, <1>9 DEF Begin

(* Every other step moves one request on and keeps the tables well typed.  *)
Moves(r) ==
    \E q \in RequestState : RequestOK(q) /\ request' = [request EXCEPT ![r] = q]
TablesOK ==
    /\ account \in [Accounts -> {"absent", "present", "gone"}]
    /\ admins \cup disabled \cup sessions \subseteq {a \in Accounts : account[a] = "present"}
    /\ invitation \in [Invitations -> InvitationState]

LEMMA ToState ==
    ASSUME NEW q \in RequestState, NEW step \in Steps
    PROVE  /\ To(q, step) \in RequestState
           /\ To(q, step).step = step
           /\ step # "idle" => /\ To(q, step).op = q.op /\ To(q, step).change = q.change
                              /\ To(q, step).actor = q.actor /\ To(q, step).account = q.account
                              /\ To(q, step).invitation = q.invitation /\ To(q, step).grant = q.grant
                              /\ To(q, step).first = q.first
           /\ step = "idle" => To(q, step) = Idle
  BY IdleState DEF To, RequestState

LEMMA SetState ==
    ASSUME NEW f \in [Invitations -> InvitationState], NEW i, NEW s,
           i \in Invitations => s \in {"absent", "pending", "expired", "accepted", "deleted"}
    PROVE  [f EXCEPT ![i].state = s] \in [Invitations -> InvitationState]
  <1> DEFINE new == [f[i] EXCEPT !.state = s]
  <1>1. i \in Invitations => new \in InvitationState BY DEF InvitationState
  <1>2. [f EXCEPT ![i].state = s] = [f EXCEPT ![i] = new] OBVIOUS
  <1> HIDE DEF new
  <1> QED BY <1>1, <1>2

LEMMA IdleMoves == ASSUME NEW r, Goes(r, Idle) PROVE Moves(r)
  BY IdleState DEF Goes, Moves

LEMMA ProceedType ==
    ASSUME BaseInv, NEW r \in Requests, Proceed(r)
    PROVE  Moves(r) /\ TablesOK'
  <1> DEFINE q == request[r]
  <1>q. q \in RequestState /\ RequestOK(q) BY DEF BaseInv, TypeOK, RequestsOK
  <1>t. TablesOK BY DEF BaseInv, TypeOK, TablesOK
  <1>u. UNCHANGED tables => TablesOK' BY <1>t DEF tables, TablesOK
  <1> HIDE DEF q
  <1>1. ASSUME BeforeCreate(r) PROVE Moves(r) /\ TablesOK'
    <2> DEFINE p == [q EXCEPT !.step = "insert", !.first = TRUE]
    <2>1. p \in RequestState /\ RequestOK(p)
      <3>1. p \in RequestState BY <1>q DEF RequestState, Steps
      <3>2. q.step = "hook" BY <1>1 DEF BeforeCreate, q
      <3> QED BY <1>q, <3>1, <3>2 DEF RequestOK, RequestState, Creating
    <2>2. To(q, "insert") \in RequestState /\ RequestOK(To(q, "insert"))
      <3>1. q.step = "hook" BY <1>1 DEF BeforeCreate, q
      <3> QED BY <1>q, <3>1, ToState DEF RequestOK, Creating, Steps
    <2>3. Moves(r) BY <1>1, <2>1, <2>2, IdleMoves DEF BeforeCreate, Moves, Goes, q
    <2> QED BY <1>1, <1>u, <2>3 DEF BeforeCreate
  <1>2. ASSUME InsertAccount(r) PROVE Moves(r) /\ TablesOK'
    <2>1. CASE Goes(r, Idle) /\ UNCHANGED <<account, admins>>
      BY <1>2, <1>u, <2>1, IdleMoves DEF InsertAccount, tables
    <2>2. CASE \E a \in Accounts :
                 /\ account[a] = "absent"
                 /\ account' = [account EXCEPT ![a] = "present"]
                 /\ admins' = IF q.first THEN admins \cup {a} ELSE admins
                 /\ Goes(r, [q EXCEPT !.account = a,
                                !.step = IF q.op = "social" /\ ~ q.first THEN "claim" ELSE "check"])
      <3> PICK a \in Accounts :
                 /\ account[a] = "absent"
                 /\ account' = [account EXCEPT ![a] = "present"]
                 /\ admins' = IF q.first THEN admins \cup {a} ELSE admins
                 /\ Goes(r, [q EXCEPT !.account = a,
                                !.step = IF q.op = "social" /\ ~ q.first THEN "claim" ELSE "check"])
        BY <2>2
      <3> DEFINE p == [q EXCEPT !.account = a,
                                !.step = IF q.op = "social" /\ ~ q.first THEN "claim" ELSE "check"]
      <3>1. p \in RequestState BY <1>q DEF RequestState, Steps
      <3>2. q.step = "insert" BY <1>2 DEF InsertAccount, q
      <3>3. /\ p.op = q.op /\ p.change = q.change /\ p.account = a /\ p.invitation = q.invitation
            /\ p.step \in {"claim", "check"} /\ (p.step = "claim" => q.op = "social")
        BY <1>q DEF RequestState
      <3>4. q.op \in Creating BY <1>q, <3>2 DEF RequestOK
      <3> HIDE DEF p
      <3>5. RequestOK(p) BY <1>q, <3>3, <3>4 DEF RequestOK, Creating
      <3>6. UNCHANGED <<disabled, sessions, invitation>> BY <1>2 DEF InsertAccount
      <3>7. account' \in [Accounts -> {"absent", "present", "gone"}] BY <1>t DEF TablesOK
      <3>8. \A x \in Accounts : account'[x] = IF x = a THEN "present" ELSE account[x]
        BY <1>t DEF TablesOK
      <3>9. admins' \subseteq admins \cup {a} OBVIOUS
      <3>10. TablesOK' BY <1>t, <3>6, <3>7, <3>8, <3>9 DEF TablesOK
      <3> QED BY <3>1, <3>5, <3>10 DEF Moves, Goes, p
    <2> QED BY <1>2, <2>1, <2>2 DEF InsertAccount, q
  <1>3. ASSUME ClaimInvitation(r) PROVE Moves(r) /\ TablesOK'
    <2>0. q.step = "claim" BY <1>3 DEF ClaimInvitation, q
    <2>1. ASSUME NEW i \in Invitations,
                 Goes(r, [q EXCEPT !.step = "mark", !.invitation = i, !.grant = invitation[i].grant])
          PROVE  Moves(r)
      <3> DEFINE p == [q EXCEPT !.step = "mark", !.invitation = i, !.grant = invitation[i].grant]
      <3>1. p \in RequestState BY <1>q, <1>t DEF RequestState, Steps, TablesOK, InvitationState
      <3>2. RequestOK(p) BY <1>q, <2>0 DEF RequestOK, RequestState, Creating
      <3> QED BY <2>1, <3>1, <3>2 DEF Moves, Goes
    <2>2. To(q, "check") \in RequestState /\ RequestOK(To(q, "check"))
      BY <1>q, <2>0, ToState DEF RequestOK, Creating, Steps
    <2>3. Moves(r) BY <1>3, <2>1, <2>2 DEF ClaimInvitation, Moves, Goes, q, PendingFor
    <2> QED BY <1>3, <1>u, <2>3 DEF ClaimInvitation
  <1>4. ASSUME MarkAccepted(r) PROVE Moves(r) /\ TablesOK'
    <2>0. q.step = "mark" BY <1>4 DEF MarkAccepted, q
    <2>1. AfterMark(q) \in {"idle", "grant", "check"} /\ (q.op = "accept" => AfterMark(q) = "idle")
      BY DEF AfterMark
    <2>2. To(q, AfterMark(q)) \in RequestState /\ RequestOK(To(q, AfterMark(q)))
      BY <1>q, <2>0, <2>1, ToState, IdleState DEF RequestOK, Creating, Steps
    <2> DEFINE new == IF invitation[q.invitation].state = "deleted" THEN "deleted" ELSE "accepted"
    <2>3. invitation' = [invitation EXCEPT ![q.invitation].state = new]
      BY <1>4 DEF MarkAccepted, q
    <2>4. new \in {"accepted", "deleted"} OBVIOUS
    <2> HIDE DEF new
    <2>5. invitation' \in [Invitations -> InvitationState] BY <1>t, <2>3, <2>4, SetState DEF TablesOK
    <2>6. TablesOK' BY <1>4, <1>t, <2>5 DEF MarkAccepted, TablesOK
    <2> QED BY <1>4, <2>2, <2>6 DEF MarkAccepted, Moves, Goes, q
  <1>5. ASSUME GrantRights(r) PROVE Moves(r) /\ TablesOK'
    <2>0. q.step = "grant" BY <1>5 DEF GrantRights, q
    <2>1. AfterGrant(q) = IF q.op = "accept" THEN "mark" ELSE IF q.op = "social" THEN "check" ELSE "idle"
      BY DEF AfterGrant
    <2>2. To(q, AfterGrant(q)) \in RequestState /\ RequestOK(To(q, AfterGrant(q)))
      BY <1>q, <2>0, <2>1, ToState, IdleState DEF RequestOK, Creating, Steps
    <2>3. TablesOK' BY <1>5, <1>q, <1>t, <2>0 DEF GrantRights, TablesOK, Present, RequestOK, q
    <2> QED BY <1>5, <2>2, <2>3 DEF GrantRights, Moves, Goes, q
  <1>6. ASSUME CheckSession(r) PROVE Moves(r) /\ TablesOK'
    <2>0. q.step = "check" BY <1>6 DEF CheckSession, q
    <2>1. To(q, "session") \in RequestState /\ RequestOK(To(q, "session"))
      BY <1>q, <2>0, ToState DEF RequestOK, Creating, Steps
    <2> QED BY <1>6, <1>u, <2>1, IdleState DEF CheckSession, Moves, Goes, q
  <1>7. ASSUME InsertSession(r) PROVE Moves(r) /\ TablesOK'
    <2>0. q.step = "session" BY <1>7 DEF InsertSession, q
    <2>1. AfterSession(q) \in {"grant", "idle"} /\ (AfterSession(q) = "grant" => q.op \in {"create", "accept"})
      BY DEF AfterSession
    <2>2. To(q, AfterSession(q)) \in RequestState /\ RequestOK(To(q, AfterSession(q)))
      BY <1>q, <2>0, <2>1, ToState, IdleState DEF RequestOK, Creating, Steps
    <2>3. TablesOK' BY <1>7, <1>q, <1>t, <2>0 DEF InsertSession, TablesOK, Present, RequestOK, q
    <2> QED BY <1>7, <2>2, <2>3, IdleState DEF InsertSession, Moves, Goes, q
  <1>8. ASSUME CheckTarget(r) PROVE Moves(r) /\ TablesOK'
    <2>0. q.step = "target" BY <1>8 DEF CheckTarget, q
    <2>1. To(q, "write") \in RequestState /\ RequestOK(To(q, "write"))
      BY <1>q, <2>0, ToState DEF RequestOK, Creating, Steps
    <2> QED BY <1>8, <1>u, <2>1, IdleState DEF CheckTarget, Moves, Goes, q
  <1>9. ASSUME UpdateAccount(r) PROVE Moves(r) /\ TablesOK'
    <2>0. q.op = "patch" /\ q.step = "write" BY <1>9 DEF UpdateAccount, q
    <2>1. To(q, "sessions") \in RequestState /\ RequestOK(To(q, "sessions"))
      BY <1>q, <2>0, ToState DEF RequestOK, Creating, Steps
    <2>2. To(q, "idle") = Idle BY DEF To
    <2>3. TablesOK' BY <1>9, <1>q, <1>t, <2>0 DEF UpdateAccount, TablesOK, Present, RequestOK, q
    <2> QED BY <1>9, <2>1, <2>2, <2>3, IdleState DEF UpdateAccount, Moves, Goes, q
  <1>10. ASSUME DeleteSessions(r) PROVE Moves(r) /\ TablesOK'
    BY <1>10, <1>t, IdleMoves DEF DeleteSessions, TablesOK
  <1>11. ASSUME DeleteAccount(r) PROVE Moves(r) /\ TablesOK'
    <2>1. invitation' \in [Invitations -> InvitationState]
      BY <1>11, <1>t DEF DeleteAccount, TablesOK, InvitationState
    <2>2. Moves(r) BY <1>11, IdleMoves DEF DeleteAccount
    <2> QED BY <1>11, <1>t, <2>1, <2>2 DEF DeleteAccount, TablesOK
  <1>12. ASSUME InsertInvitation(r) PROVE Moves(r) /\ TablesOK'
    <2>0. q.op = "invite" /\ q.step = "write" BY <1>12 DEF InsertInvitation, q
    <2>1. CASE Goes(r, Idle) /\ UNCHANGED invitation
      BY <1>12, <1>u, <2>1, IdleMoves DEF InsertInvitation, tables
    <2>2. ASSUME NEW i \in Invitations,
                 invitation' = [invitation EXCEPT ![i] =
                    [state |-> "pending", email |-> q.email, by |-> q.actor, grant |-> q.grant]],
                 Goes(r, [q EXCEPT !.step = "send", !.invitation = i])
          PROVE  Moves(r) /\ TablesOK'
      <3> DEFINE p == [q EXCEPT !.step = "send", !.invitation = i]
                 new == [state |-> "pending", email |-> q.email, by |-> q.actor, grant |-> q.grant]
      <3>1. p \in RequestState BY <1>q DEF RequestState, Steps
      <3>2. RequestOK(p) BY <1>q, <2>0 DEF RequestOK, RequestState, Creating
      <3>3. new \in InvitationState BY <1>q DEF RequestState, InvitationState
      <3>4. invitation' = [invitation EXCEPT ![i] = new] BY <2>2
      <3> HIDE DEF new
      <3>5. invitation' \in [Invitations -> InvitationState]
        BY <1>t, <3>3, <3>4 DEF TablesOK
      <3>6. TablesOK' BY <1>12, <1>t, <3>5 DEF InsertInvitation, TablesOK
      <3> QED BY <2>2, <3>1, <3>2, <3>6 DEF Moves, Goes
    <2> QED BY <1>12, <2>1, <2>2 DEF InsertInvitation, q
  <1>13. ASSUME SendInvitation(r) PROVE Moves(r) /\ TablesOK'
    <2>0. q.step = "send" BY <1>13 DEF SendInvitation, q
    <2>1. To(q, "cleanup") \in RequestState /\ RequestOK(To(q, "cleanup"))
      BY <1>q, <2>0, ToState DEF RequestOK, Creating, Steps
    <2>2. To(q, "idle") = Idle BY DEF To
    <2> QED BY <1>13, <1>u, <2>1, <2>2, IdleState DEF SendInvitation, Moves, Goes, q
  <1>14. ASSUME DeleteInvitation(r) PROVE Moves(r) /\ TablesOK'
    <2>1. Moves(r) BY <1>14, IdleMoves DEF DeleteInvitation
    <2> DEFINE new == IF invitation[q.invitation].state = "absent" THEN "absent" ELSE "deleted"
    <2>2. invitation' = [invitation EXCEPT ![q.invitation].state = new]
      BY <1>14 DEF DeleteInvitation, q
    <2>3. new \in {"absent", "deleted"} OBVIOUS
    <2> HIDE DEF new
    <2>4. invitation' \in [Invitations -> InvitationState] BY <1>t, <2>2, <2>3, SetState DEF TablesOK
    <2> QED BY <1>14, <1>t, <2>1, <2>4 DEF DeleteInvitation, TablesOK
  <1> QED BY <1>1, <1>2, <1>3, <1>4, <1>5, <1>6, <1>7, <1>8, <1>9, <1>10, <1>11, <1>12, <1>13, <1>14
          DEF Proceed

(* Any step, to the tables and the requests.                               *)
LEMMA StepType ==
    ASSUME BaseInv, Next
    PROVE  /\ TablesOK'
           /\ request' = request \/ \E r \in Requests : Moves(r)
  <1>t. TablesOK BY DEF BaseInv, TypeOK, TablesOK
  <1>u. UNCHANGED tables => TablesOK' BY <1>t DEF tables, TablesOK
  <1>1. ASSUME NEW r \in Requests, Begin(r) PROVE TablesOK' /\ Moves(r)
    BY <1>1, <1>u, BeginOpens, OpeningOK DEF BaseInv, Opens, Moves
  <1>2. ASSUME NEW r \in Requests, Proceed(r) PROVE TablesOK' /\ Moves(r)
    BY <1>2, ProceedType
  <1>3. ASSUME NEW r \in Requests, HandlerDies(r) PROVE TablesOK' /\ Moves(r)
    BY <1>3, <1>u, IdleMoves DEF HandlerDies
  <1>4. ASSUME NEW i \in Invitations, Expire(i) PROVE TablesOK' /\ request' = request
    <2>1. invitation' \in [Invitations -> InvitationState]
      BY <1>4, <1>t, SetState DEF Expire, TablesOK
    <2> QED BY <1>4, <1>t, <2>1 DEF Expire, TablesOK
  <1> QED BY <1>1, <1>2, <1>3, <1>4 DEF Next

LEMMA BaseInit == Init => BaseInv
  <1> SUFFICES ASSUME Init PROVE BaseInv OBVIOUS
  <1>1. request \in [Requests -> RequestState] /\ RequestsOK BY IdleState DEF Init, RequestsOK
  <1>2. invitation \in [Invitations -> InvitationState] BY DEF Init, InvitationState
  <1> QED BY <1>1, <1>2 DEF Init, BaseInv, TypeOK

LEMMA BaseStep ==
    ASSUME BaseInv, [Next]_vars
    PROVE  BaseInv'
  <1>1. CASE UNCHANGED vars
    BY <1>1 DEF BaseInv, TypeOK, RequestsOK, RequestOK, vars, tables, history
  <1>2. CASE Next
    <2>1. request \in [Requests -> RequestState] /\ RequestsOK BY DEF BaseInv, TypeOK
    <2>2. request' \in [Requests -> RequestState] /\ RequestsOK'
      <3>1. CASE request' = request BY <2>1, <3>1 DEF RequestsOK
      <3>2. ASSUME NEW r \in Requests, Moves(r)
            PROVE  request' \in [Requests -> RequestState] /\ RequestsOK'
        <4> PICK q \in RequestState : RequestOK(q) /\ request' = [request EXCEPT ![r] = q]
          BY <3>2 DEF Moves
        <4>1. request' \in [Requests -> RequestState] BY <2>1
        <4>2. \A s \in Requests : request'[s] = IF s = r THEN q ELSE request[s] BY <2>1
        <4> QED BY <2>1, <4>1, <4>2 DEF RequestsOK
      <3> QED BY <1>2, <3>1, <3>2, StepType
    <2>3. founders' \cup excused' \subseteq Accounts
      <3>1. ASSUME NEW r \in Requests, request[r].op = "signUp", request'[r].step = "check"
            PROVE  request'[r].account \in Accounts
        BY <2>2, <3>1 DEF RequestsOK, RequestOK
      <3>2. founders' \subseteq Accounts BY <1>2, <3>1 DEF Next, Observe, BaseInv, TypeOK
      <3>3. disabled' \subseteq Accounts BY <1>2, StepType DEF TablesOK
      <3> QED BY <1>2, <3>2, <3>3 DEF Next, Observe
    <2>4. rushed' \in BOOLEAN /\ crossfire' \in BOOLEAN
      <3>1. rushed' \in BOOLEAN BY <1>2 DEF Next, Observe, BaseInv, TypeOK
      <3>2. crossfire' \in BOOLEAN BY <1>2 DEF Next, Observe, BaseInv, TypeOK
      <3> QED BY <3>1, <3>2
    <2>5. overtaking' \subseteq Requests BY <1>2 DEF Next, Observe
    <2>6. honoured' \cup dropped' \subseteq Invitations
      <3>1. ASSUME NEW r \in Requests, request[r].step = "grant", request[r].op # "create"
            PROVE  request[r].invitation \in Invitations
        BY <2>1, <3>1 DEF RequestsOK, RequestOK
      <3>2. honoured' \subseteq Invitations BY <1>2, <3>1 DEF Next, Observe, BaseInv, TypeOK
      <3>3. dropped' \subseteq Invitations BY <1>2, <3>1 DEF Next, Observe, BaseInv, TypeOK
      <3> QED BY <3>2, <3>3
    <2>7. TablesOK' BY <1>2, StepType
    <2> QED BY <2>2, <2>3, <2>4, <2>5, <2>6, <2>7 DEF BaseInv, TypeOK, TablesOK
  <1> QED BY <1>1, <1>2

(* A disabled, promoted or signed-in account is one that exists, and every *)
(* request carries what its step will read.                                *)
THEOREM TypeCorrect == Spec => []TypeOK
  <1>1. BaseInv /\ [Next]_vars => BaseInv' BY BaseStep
  <1>2. BaseInv => TypeOK BY DEF BaseInv
  <1> QED BY <1>1, <1>2, BaseInit, PTL DEF Spec

(***************************************************************************)
(* What a step does to the request that takes it.                          *)
(***************************************************************************)
Advance(q, p) ==
    /\ p.op = q.op /\ p.change = q.change /\ p.actor = q.actor
    /\ q.step # "insert" => p.account = q.account
    /\ q.step \notin {"claim", "write"} => p.invitation = q.invitation /\ p.grant = q.grant
    /\ \/ q.step = "hook" /\ p.step = "insert" /\ (Unclaimed => p.first)
       \/ q.step = "insert" /\ p.step \in {"claim", "check"}
       \/ /\ q.step = "claim" /\ p.step = "mark" /\ p.invitation \in Invitations
          /\ Pending(p.invitation) /\ p.grant = invitation[p.invitation].grant
       \/ q.step = "claim" /\ p.step = "check"
       \/ q.step = "mark" /\ q.op # "accept" /\ p.step = IF q.grant THEN "grant" ELSE "check"
       \/ q.step = "grant" /\ q.op = "accept" /\ p.step = "mark"
       \/ q.step = "grant" /\ q.op = "social" /\ p.step = "check"
       \/ q.step = "check" /\ p.step = "session" /\ q.account \notin disabled
       \/ q.step = "session" /\ p.step = "grant" /\ q.op \in {"create", "accept"}
       \/ q.step = "target" /\ p.step = "write" /\ Permitted(q)
       \/ q.step = "write" /\ p.step = "sessions" /\ q.op = "patch"
       \/ q.step = "write" /\ p.step = "send" /\ q.op = "invite"
       \/ q.step = "send" /\ p.step = "cleanup"

LEMMA GoesAt ==
    ASSUME TypeOK, NEW r \in Requests, NEW q, Goes(r, q)
    PROVE  request'[r] = q /\ \A s \in Requests : s # r => request'[s] = request[s]
  BY DEF TypeOK, Goes

LEMMA ToAdvances ==
    ASSUME NEW q \in RequestState, NEW step \in Steps, step # "idle"
    PROVE  LET p == To(q, step) IN
           /\ p.op = q.op /\ p.change = q.change /\ p.actor = q.actor /\ p.account = q.account
           /\ p.invitation = q.invitation /\ p.grant = q.grant /\ p.step = step
  BY ToState

LEMMA ProceedAdvances ==
    ASSUME BaseInv, NEW r \in Requests, Proceed(r)
    PROVE  request'[r] = Idle \/ Advance(request[r], request'[r])
  <1> DEFINE q == request[r]
  <1>q. q \in RequestState /\ RequestOK(q) BY DEF BaseInv, TypeOK, RequestsOK
  <1>g. \A p : Goes(r, p) => request'[r] = p BY GoesAt DEF BaseInv
  <1> HIDE DEF q
  <1> SUFFICES request'[r] = Idle \/ Advance(q, request'[r]) BY DEF q
  <1>1. ASSUME BeforeCreate(r) PROVE request'[r] = Idle \/ Advance(q, request'[r])
    <2> DEFINE p == [q EXCEPT !.step = "insert", !.first = TRUE]
    <2>0. q.step = "hook" BY <1>1 DEF BeforeCreate, q
    <2>1. Advance(q, p) BY <1>q, <2>0 DEF Advance, RequestState
    <2>2. ~ Unclaimed => Advance(q, To(q, "insert")) BY <1>q, <2>0, ToAdvances DEF Advance, Steps
    <2> QED BY <1>1, <1>g, <2>1, <2>2 DEF BeforeCreate, q
  <1>2. ASSUME InsertAccount(r) PROVE request'[r] = Idle \/ Advance(q, request'[r])
    <2>0. q.step = "insert" BY <1>2 DEF InsertAccount, q
    <2>1. ASSUME NEW a, NEW step \in {"claim", "check"}, Goes(r, [q EXCEPT !.account = a, !.step = step])
          PROVE  Advance(q, request'[r])
      <3> DEFINE p == [q EXCEPT !.account = a, !.step = step]
      <3>1. /\ p.op = q.op /\ p.change = q.change /\ p.actor = q.actor
            /\ p.invitation = q.invitation /\ p.grant = q.grant /\ p.step \in {"claim", "check"}
        BY <1>q DEF RequestState
      <3>2. request'[r] = p BY <2>1, <1>g
      <3> HIDE DEF p
      <3> QED BY <2>0, <3>1, <3>2 DEF Advance
    <2>2. (IF q.op = "social" /\ ~ q.first THEN "claim" ELSE "check") \in {"claim", "check"} OBVIOUS
    <2> QED BY <1>2, <1>g, <2>1, <2>2 DEF InsertAccount, q
  <1>3. ASSUME ClaimInvitation(r) PROVE request'[r] = Idle \/ Advance(q, request'[r])
    <2>0. q.step = "claim" BY <1>3 DEF ClaimInvitation, q
    <2>1. ASSUME NEW i \in PendingFor(q.email),
                 Goes(r, [q EXCEPT !.step = "mark", !.invitation = i, !.grant = invitation[i].grant])
          PROVE  Advance(q, request'[r])
      <3> DEFINE p == [q EXCEPT !.step = "mark", !.invitation = i, !.grant = invitation[i].grant]
      <3>1. /\ p.op = q.op /\ p.change = q.change /\ p.actor = q.actor /\ p.account = q.account
            /\ p.invitation = i /\ p.grant = invitation[i].grant /\ p.step = "mark"
        BY <1>q DEF RequestState
      <3>2. request'[r] = p BY <2>1, <1>g
      <3> HIDE DEF p
      <3> QED BY <2>0, <2>1, <3>1, <3>2 DEF Advance, PendingFor
    <2>2. Advance(q, To(q, "check")) BY <1>q, <2>0, ToAdvances DEF Advance, Steps
    <2> QED BY <1>3, <1>g, <2>1, <2>2 DEF ClaimInvitation, q
  <1>4. ASSUME MarkAccepted(r) PROVE request'[r] = Idle \/ Advance(q, request'[r])
    <2>0. q.step = "mark" BY <1>4 DEF MarkAccepted, q
    <2>1. request'[r] = To(q, AfterMark(q)) BY <1>4, <1>g DEF MarkAccepted, q
    <2>2. CASE q.op = "accept" BY <2>1, <2>2 DEF AfterMark, To
    <2>3. CASE q.op # "accept"
      BY <1>q, <2>0, <2>1, <2>3, ToAdvances DEF Advance, AfterMark, Steps
    <2> QED BY <2>2, <2>3
  <1>5. ASSUME GrantRights(r) PROVE request'[r] = Idle \/ Advance(q, request'[r])
    <2>0. q.step = "grant" BY <1>5 DEF GrantRights, q
    <2>1. AfterGrant(q) = IF q.op = "accept" THEN "mark" ELSE IF q.op = "social" THEN "check" ELSE "idle"
      BY DEF AfterGrant
    <2>2. request'[r] = To(q, AfterGrant(q)) BY <1>5, <1>g DEF GrantRights, q
    <2>3. CASE q.op \notin {"accept", "social"} BY <2>1, <2>2, <2>3 DEF To
    <2>4. CASE q.op \in {"accept", "social"}
      BY <1>q, <2>0, <2>1, <2>2, <2>4, ToAdvances DEF Advance, Steps
    <2> QED BY <2>3, <2>4
  <1>6. ASSUME CheckSession(r) PROVE request'[r] = Idle \/ Advance(q, request'[r])
    <2>0. q.step = "check" BY <1>6 DEF CheckSession, q
    <2>1. q.account \notin disabled => Advance(q, To(q, "session"))
      BY <1>q, <2>0, ToAdvances DEF Advance, Steps
    <2> QED BY <1>6, <1>g, <2>1 DEF CheckSession, Barred, q
  <1>7. ASSUME InsertSession(r) PROVE request'[r] = Idle \/ Advance(q, request'[r])
    <2>0. q.step = "session" BY <1>7 DEF InsertSession, q
    <2>1. CASE request'[r] = To(q, AfterSession(q))
      <3>1. CASE q.op \in {"create", "accept"}
        BY <1>q, <2>0, <2>1, <3>1, ToAdvances DEF Advance, AfterSession, Steps
      <3>2. CASE q.op \notin {"create", "accept"} BY <2>1, <3>2 DEF AfterSession, To
      <3> QED BY <3>1, <3>2
    <2> QED BY <1>7, <1>g, <2>1 DEF InsertSession, q
  <1>8. ASSUME CheckTarget(r) PROVE request'[r] = Idle \/ Advance(q, request'[r])
    <2>0. q.step = "target" BY <1>8 DEF CheckTarget, q
    <2>1. Permitted(q) => Advance(q, To(q, "write")) BY <1>q, <2>0, ToAdvances DEF Advance, Steps
    <2> QED BY <1>8, <1>g, <2>1 DEF CheckTarget, q
  <1>9. ASSUME UpdateAccount(r) PROVE request'[r] = Idle \/ Advance(q, request'[r])
    <2>0. q.op = "patch" /\ q.step = "write" BY <1>9 DEF UpdateAccount, q
    <2>1. Advance(q, To(q, "sessions")) BY <1>q, <2>0, ToAdvances DEF Advance, Steps
    <2>2. To(q, "idle") = Idle BY DEF To
    <2> QED BY <1>9, <1>g, <2>1, <2>2 DEF UpdateAccount, q
  <1>10. ASSUME InsertInvitation(r) PROVE request'[r] = Idle \/ Advance(q, request'[r])
    <2>0. q.op = "invite" /\ q.step = "write" BY <1>10 DEF InsertInvitation, q
    <2>1. ASSUME NEW i, Goes(r, [q EXCEPT !.step = "send", !.invitation = i])
          PROVE  Advance(q, request'[r])
      <3> DEFINE p == [q EXCEPT !.step = "send", !.invitation = i]
      <3>1. /\ p.op = q.op /\ p.change = q.change /\ p.actor = q.actor /\ p.account = q.account
            /\ p.step = "send"
        BY <1>q DEF RequestState
      <3>2. request'[r] = p BY <2>1, <1>g
      <3> HIDE DEF p
      <3> QED BY <2>0, <3>1, <3>2 DEF Advance
    <2> QED BY <1>10, <1>g, <2>1 DEF InsertInvitation, q
  <1>11. ASSUME SendInvitation(r) PROVE request'[r] = Idle \/ Advance(q, request'[r])
    <2>0. q.step = "send" BY <1>11 DEF SendInvitation, q
    <2>1. Advance(q, To(q, "cleanup")) BY <1>q, <2>0, ToAdvances DEF Advance, Steps
    <2>2. To(q, "idle") = Idle BY DEF To
    <2> QED BY <1>11, <1>g, <2>1, <2>2 DEF SendInvitation, q
  <1>12. ASSUME DeleteSessions(r) \/ DeleteAccount(r) \/ DeleteInvitation(r) PROVE request'[r] = Idle
    BY <1>12, <1>g DEF DeleteSessions, DeleteAccount, DeleteInvitation
  <1> QED BY <1>1, <1>2, <1>3, <1>4, <1>5, <1>6, <1>7, <1>8, <1>9, <1>10, <1>11, <1>12 DEF Proceed

(* A step changes one request: it opens, advances or ends.                 *)
LEMMA RequestStep ==
    ASSUME BaseInv, Next, NEW r \in Requests, request'[r] # request[r]
    PROVE  /\ \A s \in Requests : s # r => request'[s] = request[s]
           /\ \/ Opens(r) /\ request[r] = Idle /\ Opening(request'[r]) /\ UNCHANGED tables
              \/ Proceed(r) /\ (request'[r] = Idle \/ Advance(request[r], request'[r]))
              \/ HandlerDies(r) /\ request'[r] = Idle /\ UNCHANGED tables
  <1>r. request \in [Requests -> RequestState] BY DEF BaseInv, TypeOK
  <1>1. ASSUME NEW s \in Requests, Moves(s)
        PROVE  s = r /\ \A x \in Requests : x # r => request'[x] = request[x]
    BY <1>1, <1>r DEF Moves
  <1>2. ASSUME NEW s \in Requests, Begin(s)
        PROVE  /\ s = r /\ (\A x \in Requests : x # r => request'[x] = request[x])
               /\ Opens(r) /\ request[r] = Idle /\ Opening(request'[r]) /\ UNCHANGED tables
    <2>1. Opens(s) BY <1>2, BeginOpens DEF BaseInv
    <2>2. Moves(s) BY <2>1, OpeningOK DEF Opens, Moves
    <2> QED BY <1>1, <1>r, <2>1, <2>2 DEF Opens
  <1>3. ASSUME NEW s \in Requests, Proceed(s)
        PROVE  /\ s = r /\ (\A x \in Requests : x # r => request'[x] = request[x])
               /\ Proceed(r) /\ (request'[r] = Idle \/ Advance(request[r], request'[r]))
    BY <1>1, <1>3, ProceedType, ProceedAdvances
  <1>4. ASSUME NEW s \in Requests, HandlerDies(s)
        PROVE  /\ s = r /\ (\A x \in Requests : x # r => request'[x] = request[x])
               /\ HandlerDies(r) /\ request'[r] = Idle /\ UNCHANGED tables
    <2>1. Goes(s, Idle) /\ UNCHANGED tables BY <1>4 DEF HandlerDies
    <2>2. s = r BY <1>1, <2>1, IdleMoves
    <2> QED BY <1>1, <1>4, <2>1, <2>2, IdleMoves, GoesAt DEF BaseInv
  <1>5. \A i \in Invitations : ~ Expire(i) BY DEF Expire
  <1> QED BY <1>2, <1>3, <1>4, <1>5 DEF Next

(***************************************************************************)
(* What changes an account's rows.                                         *)
(***************************************************************************)
LEMMA AccountStep ==
    ASSUME BaseInv, Next
    PROVE  \/ UNCHANGED <<account, admins, disabled, sessions>>
           \/ \E r \in Requests :
                \/ InsertAccount(r) \/ GrantRights(r) \/ InsertSession(r)
                \/ UpdateAccount(r) \/ DeleteSessions(r) \/ DeleteAccount(r)
  <1>1. ASSUME NEW r \in Requests, Begin(r) PROVE UNCHANGED tables
    BY <1>1, BeginOpens DEF BaseInv, Opens
  <1>2. ASSUME NEW r \in Requests, Proceed(r)
        PROVE  \/ UNCHANGED <<account, admins, disabled, sessions>>
               \/ \/ InsertAccount(r) \/ GrantRights(r) \/ InsertSession(r)
                  \/ UpdateAccount(r) \/ DeleteSessions(r) \/ DeleteAccount(r)
    <2>1. BeforeCreate(r) \/ ClaimInvitation(r) \/ CheckSession(r) \/ CheckTarget(r) \/ SendInvitation(r)
          => UNCHANGED tables
      BY DEF BeforeCreate, ClaimInvitation, CheckSession, CheckTarget, SendInvitation
    <2>2. MarkAccepted(r) \/ InsertInvitation(r) \/ DeleteInvitation(r)
          => UNCHANGED <<account, admins, disabled, sessions>>
      BY DEF MarkAccepted, InsertInvitation, DeleteInvitation
    <2> QED BY <1>2, <2>1, <2>2 DEF Proceed, tables
  <1>3. \A r \in Requests : HandlerDies(r) => UNCHANGED tables BY DEF HandlerDies
  <1>4. \A i \in Invitations : Expire(i) => UNCHANGED <<account, admins, disabled, sessions>>
    BY DEF Expire
  <1> QED BY <1>1, <1>2, <1>3, <1>4 DEF Next, tables

LEMMA SessionsGrow ==
    ASSUME BaseInv, Next, NEW a \in sessions', a \notin sessions
    PROVE  \E r \in Requests :
             request[r].step = "session" /\ request[r].account = a /\ disabled' = disabled
  <1>1. ASSUME NEW r \in Requests, InsertAccount(r) \/ GrantRights(r) \/ UpdateAccount(r)
        PROVE  sessions' = sessions
    BY <1>1 DEF InsertAccount, GrantRights, UpdateAccount
  <1>2. ASSUME NEW r \in Requests, DeleteSessions(r) \/ DeleteAccount(r)
        PROVE  sessions' \subseteq sessions
    BY <1>2 DEF DeleteSessions, DeleteAccount
  <1>3. ASSUME NEW r \in Requests, InsertSession(r)
        PROVE  request[r].step = "session" /\ request[r].account = a /\ disabled' = disabled
    BY <1>3 DEF InsertSession
  <1> QED BY <1>1, <1>2, <1>3, AccountStep

LEMMA DisabledGrows ==
    ASSUME BaseInv, Next, NEW a \in disabled', a \notin disabled
    PROVE  \E r \in Requests : Disabling(request'[r], a)
  <1>1. ASSUME NEW r \in Requests,
               InsertAccount(r) \/ GrantRights(r) \/ InsertSession(r) \/ DeleteSessions(r) \/ DeleteAccount(r)
        PROVE  disabled' \subseteq disabled
    BY <1>1 DEF InsertAccount, GrantRights, InsertSession, DeleteSessions, DeleteAccount
  <1>2. ASSUME NEW r \in Requests, UpdateAccount(r)
        PROVE  Disabling(request'[r], a)
    <2> DEFINE q == request[r]
    <2>1. q \in RequestState BY DEF BaseInv, TypeOK
    <2>2. /\ Present(q.account)
          /\ disabled' = CASE "disable" \in q.change -> disabled \cup {q.account}
                           [] "enable" \in q.change -> disabled \ {q.account}
                           [] OTHER -> disabled
          /\ Goes(r, To(q, IF "disable" \in q.change THEN "sessions" ELSE "idle"))
      BY <1>2 DEF UpdateAccount
    <2>3. "disable" \in q.change
      <3> SUFFICES ASSUME "disable" \notin q.change PROVE FALSE OBVIOUS
      <3>1. disabled' \subseteq disabled BY <2>2
      <3> QED BY <3>1
    <2>4. a = q.account BY <2>2, <2>3
    <2>5. request'[r] = To(q, "sessions") BY <2>2, <2>3, GoesAt DEF BaseInv
    <2> QED BY <2>1, <2>4, <2>5, ToAdvances DEF Disabling, Steps
  <1> QED BY <1>1, <1>2, AccountStep

(***************************************************************************)
(* Disabled accounts.                                                      *)
(***************************************************************************)

(* A sign-in past its check is disabled only by a request that overtook it. *)
OvertakenNoted ==
    \A r \in Requests :
        request[r].step = "session" /\ request[r].account \in disabled => r \in overtaking
LockInv == BaseInv /\ OvertakenNoted /\ DisabledLockedOut

LEMMA LockStep ==
    ASSUME LockInv, [Next]_vars
    PROVE  LockInv'
  <1>b. BaseInv BY DEF LockInv
  <1>c. BaseInv' BY <1>b, BaseStep
  <1>1. CASE UNCHANGED vars
    BY <1>1, <1>c DEF LockInv, OvertakenNoted, DisabledLockedOut, vars, tables, history
  <1>2. CASE Next
    <2>1. OvertakenNoted'
      <3> SUFFICES ASSUME NEW r \in Requests, request'[r].step = "session", request'[r].account \in disabled'
                   PROVE  r \in overtaking'
        BY DEF OvertakenNoted
      <3>1. CASE request'[r].account \notin disabled BY <1>2, <3>1 DEF Next, Observe
      <3>2. CASE request'[r].account \in disabled
        <4>1. request'[r] = request[r]
          <5> SUFFICES ASSUME request'[r] # request[r] PROVE FALSE OBVIOUS
          <5>1. ~ Opening(request'[r]) BY DEF Opening
          <5>2. request'[r] # Idle BY IdleState
          <5>3. Advance(request[r], request'[r]) BY <1>b, <1>2, <5>1, <5>2, RequestStep
          <5> QED BY <3>2, <5>3 DEF Advance
        <4>2. r \in overtaking BY <3>2, <4>1 DEF LockInv, OvertakenNoted
        <4> QED BY <1>2, <4>2 DEF Next, Observe
      <3> QED BY <3>1, <3>2
    <2>2. DisabledLockedOut'
      <3> SUFFICES ASSUME NEW a \in disabled' \cap sessions'
                   PROVE  \/ a \in excused
                          \/ \E r \in Requests : Disabling(request'[r], a)
                          \/ \E r \in overtaking : request[r].account = a
        BY <1>2 DEF Next, Observe, DisabledLockedOut
      <3>1. CASE a \in disabled /\ a \in sessions BY <3>1 DEF LockInv, DisabledLockedOut
      <3>2. CASE a \notin disabled BY <1>b, <1>2, <3>2, DisabledGrows
      <3>3. CASE a \in disabled /\ a \notin sessions
        BY <1>b, <1>2, <3>3, SessionsGrow DEF LockInv, OvertakenNoted
      <3> QED BY <3>1, <3>2, <3>3
    <2> QED BY <1>c, <2>1, <2>2 DEF LockInv
  <1> QED BY <1>1, <1>2

(* users.ts:147.  A disabled account has no session, but for one that the  *)
(* disabling request still deletes, died before deleting, or was overtaken *)
(* by.                                                                     *)
THEOREM DisabledAreLockedOut == Spec => []DisabledLockedOut
  <1>1. Init => LockInv
    <2>1. Init => OvertakenNoted /\ DisabledLockedOut BY DEF Init, OvertakenNoted, DisabledLockedOut
    <2> QED BY <2>1, BaseInit DEF LockInv
  <1>2. LockInv /\ [Next]_vars => LockInv' BY LockStep
  <1>3. LockInv => DisabledLockedOut BY DEF LockInv
  <1> QED BY <1>1, <1>2, <1>3, PTL DEF Spec

(***************************************************************************)
(* Who may act.                                                            *)
(***************************************************************************)
LEMMA AccountAppears ==
    ASSUME BaseInv, Next, NEW a \in Accounts, account'[a] = "present", account[a] # "present"
    PROVE  \E r \in Requests :
             /\ InsertAccount(r) /\ request[r].step = "insert"
             /\ account[a] = "absent" /\ request'[r].account = a
             /\ request[r].first => a \in admins' \ disabled'
  <1>1. ASSUME NEW r \in Requests,
               GrantRights(r) \/ InsertSession(r) \/ UpdateAccount(r) \/ DeleteSessions(r)
        PROVE  account' = account
    BY <1>1 DEF GrantRights, InsertSession, UpdateAccount, DeleteSessions
  <1>2. ASSUME NEW r \in Requests, DeleteAccount(r)
        PROVE  account'[a] # "present"
    BY <1>2 DEF DeleteAccount, BaseInv, TypeOK
  <1>3. ASSUME NEW r \in Requests, InsertAccount(r)
        PROVE  /\ InsertAccount(r) /\ request[r].step = "insert"
               /\ account[a] = "absent" /\ request'[r].account = a
               /\ request[r].first => a \in admins' \ disabled'
    <2> DEFINE q == request[r]
    <2>1. q \in RequestState BY DEF BaseInv, TypeOK
    <2>2. PICK b \in Accounts, step \in {"claim", "check"} :
            /\ account[b] = "absent" /\ account' = [account EXCEPT ![b] = "present"]
            /\ admins' = IF q.first THEN admins \cup {b} ELSE admins
            /\ Goes(r, [q EXCEPT !.account = b, !.step = step])
      BY <1>3 DEF InsertAccount
    <2>3. b = a BY <2>2 DEF BaseInv, TypeOK
    <2>4. request'[r].account = b
      <3> DEFINE p == [q EXCEPT !.account = b, !.step = step]
      <3>1. p.account = b BY <2>1 DEF RequestState
      <3>2. request'[r] = p BY <2>2, GoesAt DEF BaseInv
      <3> QED BY <3>1, <3>2
    <2>5. a \notin disabled BY DEF BaseInv, TypeOK
    <2> QED BY <1>3, <2>2, <2>3, <2>4, <2>5 DEF InsertAccount
  <1> QED BY <1>1, <1>2, <1>3, AccountStep

LEMMA AccountGoes ==
    ASSUME BaseInv, Next, NEW a \in Accounts, account[a] = "present", account'[a] # "present"
    PROVE  \E r \in Requests :
             /\ request[r].op = "delete" /\ request[r].step = "write" /\ request[r].account = a
             /\ \A b \in Accounts : b # a => account'[b] = account[b]
  <1>1. ASSUME NEW r \in Requests,
               GrantRights(r) \/ InsertSession(r) \/ UpdateAccount(r) \/ DeleteSessions(r)
        PROVE  account' = account
    BY <1>1 DEF GrantRights, InsertSession, UpdateAccount, DeleteSessions
  <1>2. ASSUME NEW r \in Requests, InsertAccount(r)
        PROVE  account'[a] = "present"
    BY <1>2 DEF InsertAccount, BaseInv, TypeOK
  <1>3. ASSUME NEW r \in Requests, DeleteAccount(r)
        PROVE  /\ request[r].op = "delete" /\ request[r].step = "write" /\ request[r].account = a
               /\ \A b \in Accounts : b # a => account'[b] = account[b]
    BY <1>3 DEF DeleteAccount, BaseInv, TypeOK
  <1> QED BY <1>1, <1>2, <1>3, AccountStep

LEMMA MayActLost ==
    ASSUME BaseInv, Next, NEW a, MayAct(a), a \notin admins' \ disabled'
    PROVE  \E r \in Requests :
             /\ Removal(request[r]) /\ request[r].op \in {"patch", "delete"}
             /\ request[r].step = "write" /\ request[r].account = a
             /\ \A b : b # a /\ MayAct(b) => b \in admins' \ disabled'
  <1>1. ASSUME NEW r \in Requests,
               InsertAccount(r) \/ GrantRights(r) \/ InsertSession(r) \/ DeleteSessions(r)
        PROVE  admins \subseteq admins' /\ disabled' = disabled
    BY <1>1 DEF InsertAccount, GrantRights, InsertSession, DeleteSessions
  <1>2. ASSUME NEW r \in Requests, DeleteAccount(r)
        PROVE  /\ Removal(request[r]) /\ request[r].op \in {"patch", "delete"}
               /\ request[r].step = "write" /\ request[r].account = a
               /\ \A b : b # a /\ MayAct(b) => b \in admins' \ disabled'
    BY <1>2 DEF DeleteAccount, Removal, MayAct
  <1>3. ASSUME NEW r \in Requests, UpdateAccount(r)
        PROVE  /\ Removal(request[r]) /\ request[r].op \in {"patch", "delete"}
               /\ request[r].step = "write" /\ request[r].account = a
               /\ \A b : b # a /\ MayAct(b) => b \in admins' \ disabled'
    <2> DEFINE q == request[r]
    <2>1. q.op = "patch" /\ q.step = "write" BY <1>3 DEF UpdateAccount
    <2>2. CASE ~ Present(q.account) BY <1>3, <2>2 DEF UpdateAccount, MayAct
    <2>3. CASE Present(q.account)
      <3>1. /\ admins' = CASE "promote" \in q.change -> admins \cup {q.account}
                           [] "demote" \in q.change -> admins \ {q.account}
                           [] OTHER -> admins
            /\ disabled' = CASE "disable" \in q.change -> disabled \cup {q.account}
                             [] "enable" \in q.change -> disabled \ {q.account}
                             [] OTHER -> disabled
        BY <1>3, <2>3 DEF UpdateAccount
      <3>2. admins \ {q.account} \subseteq admins' /\ disabled' \subseteq disabled \cup {q.account}
        BY <3>1
      <3>3. "demote" \notin q.change => admins \subseteq admins' BY <3>1
      <3>4. "disable" \notin q.change => disabled' \subseteq disabled BY <3>1
      <3>5. Removal(q) /\ q.account = a BY <3>2, <3>3, <3>4 DEF MayAct, Removal
      <3> QED BY <2>1, <3>2, <3>5 DEF MayAct
    <2> QED BY <2>2, <2>3
  <1> QED BY <1>1, <1>2, <1>3, AccountStep DEF MayAct

(***************************************************************************)
(* The admin who remains.                                                  *)
(***************************************************************************)

(* Two removals in flight, one of the other's actor, have been noted.      *)
CrossfireNoted ==
    \A r, s \in Requests :
        r # s /\ Removal(request[r]) /\ Removal(request[s]) /\ request[r].account = request[s].actor
            => crossfire

(* Who removes somebody may act, and past the check is not removing himself. *)
RemoversStay ==
    \A r \in Requests : Removal(request[r]) =>
        /\ MayAct(request[r].actor)
        /\ request[r].step # "target" => request[r].account # request[r].actor

(* The first account is going to be the admin.                             *)
FirstClaims ==
    \A r \in Requests : request[r].step = "insert" /\ Unclaimed => request[r].first

AdminInv ==
    /\ BaseInv /\ CrossfireNoted
    /\ crossfire \/ (RemoversStay /\ FirstClaims /\ (Unclaimed \/ EnabledAdmin))

LEMMA RemovalTyped ==
    ASSUME BaseInv, NEW r \in Requests, Removal(request[r])
    PROVE  /\ request[r].op \in {"patch", "delete"}
           /\ request[r].actor \in Accounts /\ request[r].account \in Accounts
           /\ request[r].step \in {"target", "write", "sessions"}
  BY DEF BaseInv, RequestsOK, RequestOK, Removal

(* Without crossfire, no removal takes the right to act from a remover.    *)
LEMMA RemoverKeeps ==
    ASSUME AdminInv, Next, ~ crossfire', NEW r \in Requests, Removal(request[r])
    PROVE  request[r].actor \in admins' \ disabled'
  <1>b. BaseInv /\ CrossfireNoted BY DEF AdminInv
  <1>c. ~ crossfire BY DEF Next, Observe
  <1>d. RemoversStay BY <1>c DEF AdminInv
  <1> SUFFICES ASSUME request[r].actor \notin admins' \ disabled' PROVE FALSE OBVIOUS
  <1>1. PICK s \in Requests :
          /\ Removal(request[s]) /\ request[s].step = "write" /\ request[s].account = request[r].actor
    BY <1>b, <1>d, MayActLost DEF RemoversStay
  <1>2. CASE s = r BY <1>1, <1>2, <1>d DEF RemoversStay
  <1>3. CASE s # r BY <1>1, <1>3, <1>b, <1>c DEF CrossfireNoted
  <1> QED BY <1>2, <1>3

LEMMA AdminStep ==
    ASSUME AdminInv, [Next]_vars
    PROVE  AdminInv'
  <1>b. BaseInv BY DEF AdminInv
  <1>c. BaseInv' BY <1>b, BaseStep
  <1>1. CASE UNCHANGED vars
    BY <1>1, <1>c DEF AdminInv, CrossfireNoted, RemoversStay, FirstClaims, EnabledAdmin, Unclaimed,
                      MayAct, Present, Removal, vars, tables, history
  <1>2. CASE Next
    <2>1. CrossfireNoted'
      <3> SUFFICES ASSUME NEW r \in Requests, NEW s \in Requests, r # s,
                          Removal(request'[r]), Removal(request'[s]),
                          request'[r].account = request'[s].actor
                   PROVE  crossfire'
        BY DEF CrossfireNoted, Removal
      <3> QED BY <1>2 DEF Next, Observe
    <2> SUFFICES ASSUME ~ crossfire'
                 PROVE  (RemoversStay /\ FirstClaims /\ (Unclaimed \/ EnabledAdmin))'
      BY <1>c, <2>1 DEF AdminInv
    <2>2. ~ crossfire /\ RemoversStay /\ FirstClaims /\ (Unclaimed \/ EnabledAdmin)
      BY <1>2 DEF Next, Observe, AdminInv
    <2>3. RemoversStay'
      <3> SUFFICES ASSUME NEW r \in Requests, Removal(request'[r])
                   PROVE  /\ request'[r].actor \in admins' \ disabled'
                          /\ request'[r].step # "target" => request'[r].account # request'[r].actor
        BY DEF RemoversStay, MayAct, Removal
      <3>1. CASE request'[r] = request[r] BY <1>2, <2>2, <3>1, RemoverKeeps DEF RemoversStay
      <3>2. CASE request'[r] # request[r] /\ Opening(request'[r])
        <4>1. request'[r].op \in {"patch", "delete"} /\ request'[r].step = "target"
          BY <3>2 DEF Removal, Opening
        <4>2. ~ Advance(request[r], request'[r]) BY <4>1 DEF Advance
        <4>3. UNCHANGED tables BY <1>b, <1>2, <3>2, <4>1, <4>2, RequestStep, IdleState
        <4> QED BY <3>2, <4>1, <4>3 DEF Opening, MayAct, tables
      <3>3. CASE request'[r] # request[r] /\ ~ Opening(request'[r])
        <4>1. Advance(request[r], request'[r]) BY <1>b, <1>2, <3>3, RequestStep, IdleState
        <4>2. Removal(request[r]) /\ request'[r].actor = request[r].actor
          BY <4>1 DEF Advance, Removal
        <4>3. /\ request[r].op \in {"patch", "delete"} /\ request[r].step \in {"target", "write", "sessions"}
              /\ request'[r].account = request[r].account
          BY <1>b, <4>1, <4>2, RemovalTyped DEF Advance
        <4>4. request[r].actor \in admins' \ disabled' BY <1>2, <4>2, RemoverKeeps
        <4>5. CASE request[r].step # "target" BY <2>2, <4>2, <4>3, <4>4, <4>5 DEF RemoversStay
        <4>6. CASE request[r].step = "target"
          <5>1. Permitted(request[r]) BY <4>1, <4>6 DEF Advance
          <5>2. request[r].actor \in admins \ disabled BY <2>2, <4>2 DEF RemoversStay, MayAct
          <5>3. request[r].account # request[r].actor
            BY <4>2, <4>3, <5>1, <5>2 DEF Permitted, Spares, Removal
          <5> QED BY <4>2, <4>3, <4>4, <5>3
        <4> QED BY <4>5, <4>6
      <3> QED BY <3>1, <3>2, <3>3
    <2>4. Unclaimed' => Unclaimed
      <3> SUFFICES ASSUME Unclaimed', NEW a \in Accounts, Present(a) PROVE FALSE BY DEF Unclaimed
      <3>1. account[a] = "present" /\ account'[a] # "present" BY DEF Unclaimed, Present
      <3>2. PICK r \in Requests :
              /\ request[r].op = "delete" /\ request[r].step = "write" /\ request[r].account = a
              /\ \A b \in Accounts : b # a => account'[b] = account[b]
        BY <1>b, <1>2, <3>1, AccountGoes
      <3>3. MayAct(request[r].actor) /\ request[r].actor # a
        BY <2>2, <3>2 DEF RemoversStay, Removal
      <3>4. request[r].actor \in Accounts /\ account[request[r].actor] = "present"
        BY <1>b, <3>3 DEF BaseInv, TypeOK, MayAct
      <3> QED BY <3>2, <3>3, <3>4 DEF Unclaimed, Present
    <2>5. FirstClaims'
      <3> SUFFICES ASSUME NEW r \in Requests, request'[r].step = "insert", Unclaimed'
                   PROVE  request'[r].first
        BY DEF FirstClaims
      <3>1. CASE request'[r] = request[r] BY <2>2, <2>4, <3>1 DEF FirstClaims
      <3>2. CASE request'[r] # request[r]
        <4>1. ~ Opening(request'[r]) BY DEF Opening
        <4>2. Advance(request[r], request'[r]) BY <1>b, <1>2, <3>2, <4>1, RequestStep, IdleState
        <4> QED BY <2>4, <4>2 DEF Advance
      <3> QED BY <3>1, <3>2
    <2>6. (Unclaimed \/ EnabledAdmin)'
      <3> SUFFICES ASSUME NEW a \in Accounts, account'[a] = "present"
                   PROVE  \E b \in Accounts : b \in admins' \ disabled'
        BY DEF Unclaimed, EnabledAdmin, MayAct, Present
      <3>1. CASE Unclaimed
        <4>1. account[a] # "present" BY <3>1 DEF Unclaimed, Present
        <4>2. PICK r \in Requests :
                request[r].step = "insert" /\ (request[r].first => a \in admins' \ disabled')
          BY <1>b, <1>2, <4>1, AccountAppears
        <4> QED BY <2>2, <3>1, <4>2 DEF FirstClaims
      <3>2. CASE ~ Unclaimed
        <4> PICK b \in Accounts : MayAct(b) BY <2>2, <3>2 DEF EnabledAdmin
        <4>1. CASE b \in admins' \ disabled' BY <4>1
        <4>2. CASE b \notin admins' \ disabled'
          <5>1. PICK r \in Requests : Removal(request[r]) BY <1>b, <1>2, <4>2, MayActLost
          <5> QED BY <1>b, <1>2, <5>1, RemoverKeeps, RemovalTyped
        <4> QED BY <4>1, <4>2
      <3> QED BY <3>1, <3>2
    <2> QED BY <2>3, <2>5, <2>6
  <1> QED BY <1>1, <1>2

(* users.ts:106, 123.  Once an instance has an account there is an admin   *)
(* who can act, however many requests promote, demote, disable and delete  *)
(* at once, unless one was removed while removing somebody.                *)
THEOREM AdminRemains == Spec => []EnabledAdminRemains
  <1>1. Init => AdminInv
    <2>1. Init => CrossfireNoted /\ RemoversStay /\ FirstClaims /\ Unclaimed
      BY IdleState DEF Init, CrossfireNoted, RemoversStay, FirstClaims, Unclaimed, Present
    <2> QED BY <2>1, BaseInit DEF AdminInv
  <1>2. AdminInv /\ [Next]_vars => AdminInv' BY AdminStep
  <1>3. AdminInv => EnabledAdminRemains BY DEF AdminInv, EnabledAdminRemains
  <1> QED BY <1>1, <1>2, <1>3, PTL DEF Spec

(***************************************************************************)
(* The founder.                                                            *)
(***************************************************************************)
SignUpsNoted ==
    \A r, s \in Requests : r # s /\ request[r].op = "signUp" /\ request[s].op = "signUp" => rushed

(* While a sign-up may still insert its account, no founder exists.        *)
NoFounderYet ==
    \A r \in Requests : request[r].op = "signUp" /\ request[r].step \in {"hook", "insert"} =>
        \A a \in founders : ~ Present(a)

FoundersWere == \A a \in founders : account[a] # "absent"
FoundersAgree == \A a, b \in founders : Present(a) /\ Present(b) => a = b

FounderInv ==
    /\ BaseInv /\ SignUpsNoted /\ FoundersWere
    /\ rushed \/ (NoFounderYet /\ FoundersAgree)

LEMMA NeverAbsentAgain ==
    ASSUME BaseInv, Next, NEW a \in Accounts, account[a] # "absent"
    PROVE  account'[a] # "absent" /\ (account'[a] = "present" => account[a] = "present")
  <1>1. ASSUME NEW r \in Requests,
               GrantRights(r) \/ InsertSession(r) \/ UpdateAccount(r) \/ DeleteSessions(r)
        PROVE  account' = account
    BY <1>1 DEF GrantRights, InsertSession, UpdateAccount, DeleteSessions
  <1>2. ASSUME NEW r \in Requests, InsertAccount(r)
        PROVE  account'[a] = account[a]
    BY <1>2 DEF InsertAccount, BaseInv, TypeOK
  <1>3. ASSUME NEW r \in Requests, DeleteAccount(r)
        PROVE  account'[a] \in {account[a], "gone"}
    BY <1>3 DEF DeleteAccount, BaseInv, TypeOK
  <1> QED BY <1>1, <1>2, <1>3, AccountStep

LEMMA FounderStep ==
    ASSUME BaseInv, Next, NEW a \in founders', a \notin founders
    PROVE  \E r \in Requests :
             /\ request[r].op = "signUp" /\ request[r].step = "insert"
             /\ request'[r].op = "signUp" /\ request'[r].step = "check"
             /\ request'[r].account = a /\ account'[a] = "present"
  <1>1. PICK r \in Requests :
          /\ request[r].op = "signUp" /\ request[r].step = "insert" /\ request'[r].step = "check"
          /\ request'[r].account = a
    BY DEF Next, Observe
  <1>2. Proceed(r) /\ Advance(request[r], request'[r])
    BY <1>1, RequestStep, IdleState
  <1>3. InsertAccount(r)
    BY <1>1, <1>2 DEF Proceed, BeforeCreate, ClaimInvitation, MarkAccepted, GrantRights, CheckSession,
       InsertSession, CheckTarget, UpdateAccount, DeleteSessions, DeleteAccount, InsertInvitation,
       SendInvitation, DeleteInvitation
  <1> DEFINE q == request[r]
  <1>4. q \in RequestState BY DEF BaseInv, TypeOK
  <1>5. ~ Goes(r, Idle) BY <1>1, GoesAt, IdleState DEF BaseInv
  <1>6. PICK b \in Accounts, step \in {"claim", "check"} :
          /\ account' = [account EXCEPT ![b] = "present"]
          /\ Goes(r, [q EXCEPT !.account = b, !.step = step])
    BY <1>3, <1>5 DEF InsertAccount
  <1>7. request'[r].account = b
    <2> DEFINE p == [q EXCEPT !.account = b, !.step = step]
    <2>1. p.account = b BY <1>4 DEF RequestState
    <2>2. request'[r] = p BY <1>6, GoesAt DEF BaseInv
    <2> QED BY <2>1, <2>2
  <1>8. account'[b] = "present" BY <1>6 DEF BaseInv, TypeOK
  <1> QED BY <1>1, <1>2, <1>7, <1>8 DEF Advance

LEMMA FoundersStep ==
    ASSUME FounderInv, [Next]_vars
    PROVE  FounderInv'
  <1>b. BaseInv BY DEF FounderInv
  <1>c. BaseInv' BY <1>b, BaseStep
  <1>1. CASE UNCHANGED vars
    BY <1>1, <1>c DEF FounderInv, SignUpsNoted, FoundersWere, NoFounderYet, FoundersAgree, Present,
                      vars, tables, history
  <1>2. CASE Next
    <2>1. SignUpsNoted' BY <1>2 DEF SignUpsNoted, Next, Observe
    <2>2. FoundersWere'
      <3> SUFFICES ASSUME NEW a \in founders' PROVE account'[a] # "absent" BY DEF FoundersWere
      <3>1. CASE a \in founders
        BY <1>b, <1>2, <3>1, NeverAbsentAgain DEF FounderInv, FoundersWere, BaseInv, TypeOK
      <3>2. CASE a \notin founders BY <1>b, <1>2, <3>2, FounderStep
      <3> QED BY <3>1, <3>2
    <2> SUFFICES ASSUME ~ rushed' PROVE NoFounderYet' /\ FoundersAgree'
      BY <1>c, <2>1, <2>2 DEF FounderInv
    <2>3. ~ rushed /\ NoFounderYet /\ FoundersAgree BY <1>2 DEF Next, Observe, FounderInv
    <2>4. \A a \in founders : account'[a] = "present" => account[a] = "present"
      BY <1>b, <1>2, NeverAbsentAgain DEF FounderInv, FoundersWere, BaseInv, TypeOK
    <2>5. NoFounderYet'
      <3> SUFFICES ASSUME NEW r \in Requests, request'[r].op = "signUp",
                          request'[r].step \in {"hook", "insert"},
                          NEW a \in founders', account'[a] = "present"
                   PROVE  FALSE
        BY DEF NoFounderYet, Present
      <3>1. CASE a \notin founders
        <4>1. PICK s \in Requests : request'[s].op = "signUp" /\ request'[s].step = "check"
          BY <1>b, <1>2, <3>1, FounderStep
        <4> QED BY <2>1, <4>1 DEF SignUpsNoted
      <3>2. CASE a \in founders
        <4>1. account[a] = "present" BY <2>4, <3>2
        <4>2. CASE request'[r] = request[r] BY <2>3, <3>2, <4>1, <4>2 DEF NoFounderYet, Present
        <4>3. CASE request'[r] # request[r] /\ Opening(request'[r])
          BY <1>c, <3>2, <4>1, <4>3, <1>b DEF Opening, Unclaimed, Present, BaseInv, TypeOK
        <4>4. CASE request'[r] # request[r] /\ ~ Opening(request'[r])
          <5>1. Advance(request[r], request'[r]) BY <1>b, <1>2, <4>4, RequestStep, IdleState
          <5>2. request[r].op = "signUp" /\ request[r].step = "hook" BY <5>1 DEF Advance
          <5> QED BY <2>3, <3>2, <4>1, <5>2 DEF NoFounderYet, Present
        <4> QED BY <4>2, <4>3, <4>4
      <3> QED BY <3>1, <3>2
    <2>6. FoundersAgree'
      <3> SUFFICES ASSUME NEW a \in founders', NEW b \in founders',
                          account'[a] = "present", account'[b] = "present"
                   PROVE  a = b
        BY DEF FoundersAgree, Present
      <3>1. ASSUME NEW x \in founders', x \notin founders, NEW y \in founders, account'[y] = "present"
            PROVE  FALSE
        <4>1. PICK r \in Requests : request[r].op = "signUp" /\ request[r].step = "insert"
          BY <1>b, <1>2, <3>1, FounderStep
        <4>2. account[y] = "present" BY <2>4, <3>1
        <4> QED BY <2>3, <4>1, <4>2 DEF NoFounderYet, Present
      <3>2. CASE a \in founders /\ b \in founders BY <2>3, <2>4, <3>2 DEF FoundersAgree, Present
      <3>3. CASE a \notin founders /\ b \notin founders
        <4>1. PICK r \in Requests : request'[r].op = "signUp" /\ request'[r].account = a
          BY <1>b, <1>2, <3>3, FounderStep
        <4>2. PICK s \in Requests : request'[s].op = "signUp" /\ request'[s].account = b
          BY <1>b, <1>2, <3>3, FounderStep
        <4> QED BY <2>1, <4>1, <4>2 DEF SignUpsNoted
      <3> QED BY <3>1, <3>2, <3>3
    <2> QED BY <2>5, <2>6
  <1> QED BY <1>1, <1>2

(* auth.ts:219.  Public sign-up makes one account, unless two raced.       *)
THEOREM FounderIsAlone == Spec => []OneFounder
  <1>1. Init => FounderInv
    <2>1. Init => SignUpsNoted /\ FoundersWere /\ NoFounderYet /\ FoundersAgree
      BY IdleState DEF Init, SignUpsNoted, FoundersWere, NoFounderYet, FoundersAgree
    <2> QED BY <2>1, BaseInit DEF FounderInv
  <1>2. FounderInv /\ [Next]_vars => FounderInv' BY FoundersStep
  <1>3. FounderInv => OneFounder
    <2> SUFFICES ASSUME FoundersAgree PROVE Cardinality({a \in founders : Present(a)}) <= 1
      BY DEF FounderInv, OneFounder
    <2>1. CASE {a \in founders : Present(a)} = {} BY <2>1, FS_EmptySet
    <2>2. ASSUME NEW x \in founders, Present(x)
          PROVE  Cardinality({a \in founders : Present(a)}) <= 1
      <3>1. {a \in founders : Present(a)} = {x} BY <2>2 DEF FoundersAgree
      <3>2. Cardinality({x}) = 1 BY FS_Singleton
      <3> QED BY <3>1, <3>2
    <2> QED BY <2>1, <2>2
  <1> QED BY <1>1, <1>2, <1>3, PTL DEF Spec

(***************************************************************************)
(* Accepted invitations.                                                   *)
(***************************************************************************)

(* Who accepts an invitation carries the grant that is in its row.         *)
GrantsCarried ==
    \A r \in Requests :
        \/ request[r].op = "accept"
        \/ request[r].op = "social" /\ request[r].step \in {"mark", "grant"}
        => /\ request[r].invitation \in Invitations
           /\ invitation[request[r].invitation].state # "absent"
           /\ invitation[request[r].invitation].grant = request[r].grant

(* An accepting request marks the invitation after granting.               *)
AcceptsHonour ==
    \A r \in Requests :
        request[r].op = "accept" /\ request[r].step = "mark" => request[r].invitation \in honoured

GrantInv == BaseInv /\ GrantsCarried /\ AcceptsHonour /\ AcceptedIsGranted

LEMMA SetStateKeeps ==
    ASSUME NEW f \in [Invitations -> InvitationState], NEW i, NEW s, NEW j \in Invitations
    PROVE  /\ [f EXCEPT ![i].state = s][j].grant = f[j].grant
           /\ [f EXCEPT ![i].state = s][j].state = IF j = i THEN s ELSE f[j].state
  <1> DEFINE new == [f[i] EXCEPT !.state = s]
  <1>1. i \in Invitations => new.grant = f[i].grant /\ new.state = s BY DEF InvitationState
  <1>2. [f EXCEPT ![i].state = s] = [f EXCEPT ![i] = new] OBVIOUS
  <1> HIDE DEF new
  <1> QED BY <1>1, <1>2

(* A row keeps its grant, and only an acceptance marks it accepted.        *)
LEMMA InvitationStep ==
    ASSUME BaseInv, Next, NEW i \in Invitations
    PROVE  /\ invitation[i].state # "absent" =>
                invitation'[i].state # "absent" /\ invitation'[i].grant = invitation[i].grant
           /\ invitation'[i].state = "accepted" /\ invitation[i].state # "accepted" =>
                \E r \in Requests : MarkAccepted(r) /\ request[r].invitation = i
  <1> DEFINE Kept == invitation[i].state # "absent" =>
                invitation'[i].state # "absent" /\ invitation'[i].grant = invitation[i].grant
             Marked == invitation'[i].state = "accepted" /\ invitation[i].state # "accepted" =>
                \E r \in Requests : MarkAccepted(r) /\ request[r].invitation = i
  <1>i. invitation \in [Invitations -> InvitationState] BY DEF BaseInv, TypeOK
  <1>1. CASE invitation' = invitation BY <1>1
  <1>2. ASSUME NEW r \in Requests, MarkAccepted(r) PROVE Kept /\ Marked
    <2> DEFINE new == IF invitation[request[r].invitation].state = "deleted" THEN "deleted" ELSE "accepted"
    <2>1. invitation' = [invitation EXCEPT ![request[r].invitation].state = new]
      BY <1>2 DEF MarkAccepted
    <2>2. new # "absent" OBVIOUS
    <2> HIDE DEF new
    <2>3. /\ invitation'[i].grant = invitation[i].grant
          /\ invitation'[i].state = IF i = request[r].invitation THEN new ELSE invitation[i].state
      BY <1>i, <2>1, SetStateKeeps
    <2> QED BY <1>2, <2>2, <2>3
  <1>3. ASSUME NEW r \in Requests, DeleteInvitation(r) PROVE Kept /\ Marked
    <2> DEFINE new == IF invitation[request[r].invitation].state = "absent" THEN "absent" ELSE "deleted"
    <2>1. invitation' = [invitation EXCEPT ![request[r].invitation].state = new]
      BY <1>3 DEF DeleteInvitation
    <2>2. new # "accepted" OBVIOUS
    <2>3. invitation[request[r].invitation].state # "absent" => new # "absent" OBVIOUS
    <2> HIDE DEF new
    <2>4. /\ invitation'[i].grant = invitation[i].grant
          /\ invitation'[i].state = IF i = request[r].invitation THEN new ELSE invitation[i].state
      BY <1>i, <2>1, SetStateKeeps
    <2> QED BY <2>2, <2>3, <2>4
  <1>4. ASSUME NEW j \in Invitations, Expire(j) PROVE Kept /\ Marked
    <2>1. invitation' = [invitation EXCEPT ![j].state = "expired"] BY <1>4 DEF Expire
    <2>2. /\ invitation'[i].grant = invitation[i].grant
          /\ invitation'[i].state = IF i = j THEN "expired" ELSE invitation[i].state
      BY <1>i, <2>1, SetStateKeeps
    <2> QED BY <2>2
  <1>5. ASSUME NEW r \in Requests, DeleteAccount(r) PROVE Kept /\ Marked
    <2> DEFINE new == [invitation[i] EXCEPT !.state = "deleted"]
    <2>1. new.state = "deleted" /\ new.grant = invitation[i].grant BY <1>i DEF InvitationState
    <2>2. invitation'[i] \in {invitation[i], new} BY <1>5 DEF DeleteAccount
    <2> HIDE DEF new
    <2> QED BY <2>1, <2>2
  <1>6. ASSUME NEW r \in Requests, InsertInvitation(r) PROVE Kept /\ Marked
    <2>1. ASSUME NEW j \in Invitations, NEW new, new.state = "pending", invitation[j].state = "absent",
                 invitation' = [invitation EXCEPT ![j] = new]
          PROVE  Kept /\ Marked
      BY <1>i, <2>1
    <2> QED BY <1>1, <1>6, <2>1 DEF InsertInvitation
  <1>7. ASSUME NEW r \in Requests, Begin(r) PROVE invitation' = invitation
    BY <1>7, BeginOpens DEF BaseInv, Opens, tables
  <1>8. ASSUME NEW r \in Requests, Proceed(r) PROVE Kept /\ Marked
    <2>1. BeforeCreate(r) \/ ClaimInvitation(r) \/ CheckSession(r) \/ CheckTarget(r) \/ SendInvitation(r)
          => invitation' = invitation
      BY DEF BeforeCreate, ClaimInvitation, CheckSession, CheckTarget, SendInvitation, tables
    <2>2. InsertAccount(r) \/ GrantRights(r) \/ InsertSession(r) \/ UpdateAccount(r) \/ DeleteSessions(r)
          => invitation' = invitation
      BY DEF InsertAccount, GrantRights, InsertSession, UpdateAccount, DeleteSessions
    <2> QED BY <1>1, <1>2, <1>3, <1>5, <1>6, <1>8, <2>1, <2>2 DEF Proceed
  <1>9. \A r \in Requests : HandlerDies(r) => invitation' = invitation BY DEF HandlerDies, tables
  <1> QED BY <1>1, <1>4, <1>7, <1>8, <1>9 DEF Next

LEMMA GrantStep ==
    ASSUME GrantInv, [Next]_vars
    PROVE  GrantInv'
  <1>b. BaseInv BY DEF GrantInv
  <1>c. BaseInv' BY <1>b, BaseStep
  <1>1. CASE UNCHANGED vars
    BY <1>1, <1>c DEF GrantInv, GrantsCarried, AcceptsHonour, AcceptedIsGranted, vars, tables, history
  <1>2. CASE Next
    <2>n. \A r \in Requests : request'[r] # request[r] =>
            \/ request[r] = Idle /\ Opening(request'[r]) /\ UNCHANGED tables
            \/ request'[r] = Idle
            \/ Advance(request[r], request'[r])
      BY <1>b, <1>2, RequestStep
    <2>o. \A r \in Requests : RequestOK(request[r]) BY <1>b DEF BaseInv, RequestsOK
    <2>h. honoured \subseteq honoured' /\ dropped \subseteq dropped' BY <1>2 DEF Next, Observe
    <2>1. GrantsCarried'
      <3> SUFFICES ASSUME NEW r \in Requests,
                          \/ request'[r].op = "accept"
                          \/ request'[r].op = "social" /\ request'[r].step \in {"mark", "grant"}
                   PROVE  /\ request'[r].invitation \in Invitations
                          /\ invitation'[request'[r].invitation].state # "absent"
                          /\ invitation'[request'[r].invitation].grant = request'[r].grant
        BY DEF GrantsCarried
      <3>1. CASE request'[r] = request[r]
        BY <1>b, <1>2, <3>1, InvitationStep DEF GrantInv, GrantsCarried
      <3>2. CASE request'[r] # request[r] /\ Opening(request'[r]) /\ UNCHANGED tables
        BY <3>2 DEF Opening, Pending, tables
      <3>3. CASE Advance(request[r], request'[r])
        <4>1. CASE request[r].step = "claim"
          <5>1. /\ request'[r].invitation \in Invitations /\ Pending(request'[r].invitation)
                /\ request'[r].grant = invitation[request'[r].invitation].grant
            BY <2>o, <3>3, <4>1 DEF Advance, RequestOK
          <5> QED BY <1>b, <1>2, <5>1, InvitationStep DEF Pending
        <4>2. CASE request[r].step # "claim"
          <5>1. /\ \/ request[r].op = "accept"
                   \/ request[r].op = "social" /\ request[r].step \in {"mark", "grant"}
                /\ request'[r].invitation = request[r].invitation /\ request'[r].grant = request[r].grant
            BY <2>o, <3>3, <4>2 DEF Advance, RequestOK
          <5> QED BY <1>b, <1>2, <5>1, InvitationStep DEF GrantInv, GrantsCarried
        <4> QED BY <4>1, <4>2
      <3> QED BY <2>n, <3>1, <3>2, <3>3, IdleState
    <2>2. AcceptsHonour'
      <3> SUFFICES ASSUME NEW r \in Requests, request'[r].op = "accept", request'[r].step = "mark"
                   PROVE  request'[r].invitation \in honoured'
        BY DEF AcceptsHonour
      <3>1. CASE request'[r] = request[r] BY <2>h, <3>1 DEF GrantInv, AcceptsHonour
      <3>2. CASE request'[r] # request[r]
        <4>1. ~ Opening(request'[r]) BY DEF Opening
        <4>2. Advance(request[r], request'[r]) BY <2>n, <3>2, <4>1, IdleState
        <4>3. /\ request[r].step = "grant" /\ request[r].op = "accept"
              /\ request'[r].invitation = request[r].invitation
          BY <2>o, <4>2 DEF Advance, RequestOK
        <4> QED BY <1>2, <4>3 DEF Next, Observe
      <3> QED BY <3>1, <3>2
    <2>3. AcceptedIsGranted'
      <3> SUFFICES ASSUME NEW i \in Invitations, invitation'[i].state = "accepted", invitation'[i].grant
                   PROVE  \/ i \in honoured' \cup dropped'
                          \/ \E r \in Requests : /\ request'[r].op = "social" /\ request'[r].step = "grant"
                                                 /\ request'[r].invitation = i
        BY DEF AcceptedIsGranted
      <3>1. CASE invitation[i].state = "accepted"
        <4>1. invitation[i].grant BY <1>b, <1>2, <3>1, InvitationStep
        <4>2. CASE i \in honoured \cup dropped BY <2>h, <4>2
        <4>3. ASSUME NEW r \in Requests, request[r].op = "social", request[r].step = "grant",
                     request[r].invitation = i
              PROVE  \/ i \in honoured' \cup dropped'
                     \/ /\ request'[r].op = "social" /\ request'[r].step = "grant"
                        /\ request'[r].invitation = i
          <5>1. CASE request'[r] = request[r] BY <4>3, <5>1
          <5>2. CASE request'[r] = Idle BY <1>2, <4>3, <5>2 DEF Next, Observe
          <5>3. CASE Advance(request[r], request'[r])
            <6>1. request'[r].step = "check" BY <4>3, <5>3 DEF Advance
            <6> QED BY <1>2, <4>3, <6>1 DEF Next, Observe
          <5> QED BY <2>n, <4>3, <5>1, <5>2, <5>3, IdleState
        <4> QED BY <3>1, <4>1, <4>2, <4>3 DEF GrantInv, AcceptedIsGranted
      <3>2. CASE invitation[i].state # "accepted"
        <4> PICK r \in Requests : MarkAccepted(r) /\ request[r].invitation = i
          BY <1>b, <1>2, <3>2, InvitationStep
        <4>1. request[r] \in RequestState /\ request[r].step = "mark"
          BY <1>b DEF BaseInv, TypeOK, MarkAccepted
        <4>2. request[r].op \in {"accept", "social"} BY <2>o, <4>1 DEF RequestOK
        <4>3. CASE request[r].op = "accept" BY <2>h, <4>1, <4>3 DEF GrantInv, AcceptsHonour
        <4>4. CASE request[r].op = "social"
          <5>1. request[r].grant
            BY <1>b, <1>2, <4>1, <4>4, InvitationStep DEF GrantInv, GrantsCarried
          <5>2. Goes(r, To(request[r], "grant")) BY <4>4, <5>1 DEF MarkAccepted, AfterMark
          <5>3. request'[r] = To(request[r], "grant") BY <1>b, <5>2, GoesAt DEF BaseInv
          <5> QED BY <4>1, <4>4, <5>3, ToAdvances DEF Steps
        <4> QED BY <4>2, <4>3, <4>4
      <3> QED BY <3>1, <3>2
    <2> QED BY <1>c, <2>1, <2>2, <2>3 DEF GrantInv
  <1> QED BY <1>1, <1>2

(* invitations.ts:155, auth.ts:237.  An invitation is not used up before   *)
(* its grants are written, but for a social sign-in that dies in between.  *)
THEOREM AcceptedAreGranted == Spec => []AcceptedIsGranted
  <1>1. Init => GrantInv
    <2>1. Init => GrantsCarried /\ AcceptsHonour
      BY IdleState DEF Init, GrantsCarried, AcceptsHonour
    <2>2. Init => AcceptedIsGranted BY DEF Init, AcceptedIsGranted
    <2> QED BY <2>1, <2>2, BaseInit DEF GrantInv
  <1>2. GrantInv /\ [Next]_vars => GrantInv' BY GrantStep
  <1>3. GrantInv => AcceptedIsGranted BY DEF GrantInv
  <1> QED BY <1>1, <1>2, <1>3, PTL DEF Spec
=============================================================================
