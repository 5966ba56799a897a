-------------------------- MODULE InstanceAccounts --------------------------
(***************************************************************************)
(* The accounts of an instance: how the first admin claims it, how others  *)
(* are created or invited, promoted, demoted, disabled and deleted, and    *)
(* how they sign in.  Each request authenticates, then checks, then writes *)
(* one statement at a time; other requests run at every step.  Whether     *)
(* delivery of mail is on is a setting an admin may change at any time, so *)
(* no guard depends on it.                                                 *)
(***************************************************************************)
EXTENDS Naturals, FiniteSets

CONSTANTS
    Accounts,      \* ids, one per account ever created
    Emails,
    Email,         \* the address an id is created for
    SelfJoin,      \* addresses in a domain that may join by Google sign-in
    Invitations,   \* ids, one per invitation ever created
    Requests,      \* concurrent requests
    Patches,       \* what PATCH requests ask for
    None

ASSUME EmailAssumption == Email \in [Accounts -> Emails]
ASSUME PatchAssumption ==
    Patches \subseteq {change \in SUBSET {"promote", "demote", "disable", "enable"} :
        ~ {"promote", "demote"} \subseteq change /\ ~ {"disable", "enable"} \subseteq change}
ASSUME NoneAssumption == None \notin Accounts \cup Emails \cup Invitations

VARIABLES
    account,       \* user: "absent" until created, then present, gone
    admins,        \* user.is_admin
    disabled,      \* user.disabled
    sessions,      \* accounts with a row in session
    invitation,    \* user_invitations
    request,       \* requests past authentication
    \* History variables.
    founders,      \* accounts created by public sign-up
    rushed,        \* two public sign-ups were in flight at once
    crossfire,     \* somebody was being removed while removing somebody
    overtaking,    \* sign-ins past their check when their account was disabled
    excused,       \* disabled accounts that may have kept a session
    honoured,      \* invitations whose grants were written
    dropped        \* invitations consumed by a sign-in that then died

tables == <<account, admins, disabled, sessions, invitation>>
history == <<founders, rushed, crossfire, overtaking, excused, honoured, dropped>>
vars == <<tables, request, history>>

Changes == {"promote", "demote", "disable", "enable"}
Ops == {"idle", "signUp", "create", "accept", "social", "signIn",
        "invite", "revoke", "patch", "delete"}
Steps == {"idle", "hook", "insert", "claim", "mark", "grant", "check", "session",
          "target", "write", "sessions", "send", "cleanup"}

(* first: the hook saw no user; grant: the account is to become an admin.  *)
RequestState == [op : Ops, step : Steps, actor : Accounts \cup {None},
                 account : Accounts \cup {None}, email : Emails \cup {None},
                 invitation : Invitations \cup {None}, first : BOOLEAN,
                 grant : BOOLEAN, change : SUBSET Changes]
Idle == [op |-> "idle", step |-> "idle", actor |-> None, account |-> None, email |-> None,
         invitation |-> None, first |-> FALSE, grant |-> FALSE, change |-> {}]

InvitationState == [state : {"absent", "pending", "expired", "accepted", "deleted"},
                    email : Emails \cup {None}, by : Accounts \cup {None}, grant : BOOLEAN]

TypeOK ==
    /\ account \in [Accounts -> {"absent", "present", "gone"}]
    /\ admins \cup disabled \cup sessions \subseteq {a \in Accounts : account[a] = "present"}
    /\ invitation \in [Invitations -> InvitationState]
    /\ request \in [Requests -> RequestState]
    /\ founders \cup excused \subseteq Accounts
    /\ rushed \in BOOLEAN /\ crossfire \in BOOLEAN
    /\ overtaking \subseteq Requests
    /\ honoured \cup dropped \subseteq Invitations

Init ==
    /\ account = [a \in Accounts |-> "absent"]
    /\ admins = {} /\ disabled = {} /\ sessions = {}
    /\ invitation = [i \in Invitations |->
            [state |-> "absent", email |-> None, by |-> None, grant |-> FALSE]]
    /\ request = [r \in Requests |-> Idle]
    /\ founders = {} /\ rushed = FALSE /\ crossfire = FALSE
    /\ overtaking = {} /\ excused = {} /\ honoured = {} /\ dropped = {}

(***************************************************************************)
(* What requests read.                                                     *)
(***************************************************************************)
Present(a) == account[a] = "present"
Known(e) == \E a \in Accounts : Present(a) /\ Email[a] = e
Pending(i) == invitation[i].state = "pending"
PendingFor(e) == {i \in Invitations : Pending(i) /\ invitation[i].email = e}

(* countUsers is 0.                                                        *)
Unclaimed == \A a \in Accounts : ~ Present(a)

(* requireInstanceAdmin after loadAuth, which ignores disabled accounts.   *)
MayAct(a) == a \in admins \ disabled

(***************************************************************************)
(* The start of a request.                                                 *)
(***************************************************************************)
Goes(r, q) == request' = [request EXCEPT ![r] = q]
Start(r, q) == request[r] = Idle /\ Goes(r, q) /\ UNCHANGED tables

(* Mutant: the gate is missing.                                            *)
BeginSignUpAnytime(r, e) ==
    Start(r, [Idle EXCEPT !.op = "signUp", !.step = "hook", !.email = e])

(* POST /auth/sign-up/email, closed once there is a user.                  *)
BeginSignUp(r, e) ==
    /\ Unclaimed
    /\ Start(r, [Idle EXCEPT !.op = "signUp", !.step = "hook", !.email = e])

(* POST /users.                                                            *)
BeginCreate(r, a, e, grant) ==
    /\ MayAct(a)
    /\ ~ Known(e)
    /\ Start(r, [Idle EXCEPT !.op = "create", !.step = "hook", !.email = e, !.grant = grant])

(* POST /invitations/accept/:token.                                        *)
BeginAccept(r, i) ==
    /\ Pending(i)
    /\ ~ Known(invitation[i].email)
    /\ Start(r, [Idle EXCEPT !.op = "accept", !.step = "hook", !.invitation = i,
                             !.email = invitation[i].email, !.grant = invitation[i].grant])

(* A social sign-in with an address nobody has.  Providers are enabled by  *)
(* an admin, so somebody has claimed the instance.                         *)
BeginSocial(r, e) ==
    /\ \E a \in Accounts : account[a] # "absent"
    /\ ~ Known(e)
    /\ Start(r, [Idle EXCEPT !.op = "social", !.step = "hook", !.email = e])

(* A sign-in with a known account, by password or provider.                *)
BeginSignIn(r, a) ==
    /\ Present(a)
    /\ Start(r, [Idle EXCEPT !.op = "signIn", !.step = "check", !.account = a])

(* POST /invitations.                                                      *)
BeginInvite(r, a, e, grant) ==
    /\ MayAct(a)
    /\ ~ Known(e)
    /\ PendingFor(e) = {}
    /\ Start(r, [Idle EXCEPT !.op = "invite", !.step = "write", !.actor = a, !.email = e,
                             !.grant = grant])

(* DELETE /invitations/:id.                                                *)
BeginRevoke(r, a, i) ==
    /\ MayAct(a)
    /\ Start(r, [Idle EXCEPT !.op = "revoke", !.step = "write", !.invitation = i])

(* PATCH /users/:id with isAdmin and disabled, either, or both.            *)
BeginPatch(r, a, b, change) ==
    /\ MayAct(a)
    /\ Start(r, [Idle EXCEPT !.op = "patch", !.step = "target", !.actor = a, !.account = b,
                             !.change = change])

(* DELETE /users/:id.                                                      *)
BeginDelete(r, a, b) ==
    /\ MayAct(a)
    /\ Start(r, [Idle EXCEPT !.op = "delete", !.step = "target", !.actor = a, !.account = b])

(***************************************************************************)
(* Creating an account: Better Auth calls the hooks, then signs it in.     *)
(***************************************************************************)
Creating == {"signUp", "create", "accept", "social"}
To(q, step) == IF step = "idle" THEN Idle ELSE [q EXCEPT !.step = step]

(* user.create.before: the first user claims the instance; a new social    *)
(* account needs an allowed domain or an invitation.                       *)
BeforeCreate(r) ==
    LET q == request[r] IN
    /\ q.step = "hook"
    /\ \/ Unclaimed /\ Goes(r, [q EXCEPT !.step = "insert", !.first = TRUE])
       \/ /\ ~ Unclaimed
          /\ q.op = "social" => q.email \in SelfJoin \/ PendingFor(q.email) # {}
          /\ Goes(r, To(q, "insert"))
       \/ /\ ~ Unclaimed /\ q.op = "social"
          /\ q.email \notin SelfJoin /\ PendingFor(q.email) = {}
          /\ Goes(r, Idle)
    /\ UNCHANGED tables

(* An address can be taken once.                                           *)
InsertAccount(r) ==
    LET q == request[r] IN
    /\ q.step = "insert"
    /\ \/ /\ Known(q.email)
          /\ Goes(r, Idle)
          /\ UNCHANGED <<account, admins>>
       \/ \E a \in Accounts :
          /\ ~ Known(q.email)
          /\ account[a] = "absent" /\ Email[a] = q.email
          /\ account' = [account EXCEPT ![a] = "present"]
          /\ admins' = IF q.first THEN admins \cup {a} ELSE admins
          /\ Goes(r, [q EXCEPT !.account = a,
                               !.step = IF q.op = "social" /\ ~ q.first THEN "claim" ELSE "check"])
    /\ UNCHANGED <<disabled, sessions, invitation>>

(* user.create.after, step 1: the invitation a social account came by.  An *)
(* unverified address claims none.                                         *)
ClaimInvitation(r) ==
    LET q == request[r] IN
    /\ q.step = "claim"
    /\ \/ \E i \in PendingFor(q.email) :
            Goes(r, [q EXCEPT !.step = "mark", !.invitation = i, !.grant = invitation[i].grant])
       \/ /\ PendingFor(q.email) = {} \/ q.email \in SelfJoin
          /\ Goes(r, To(q, "check"))
    /\ UNCHANGED tables

AfterMark(q) == IF q.op = "accept" THEN "idle" ELSE IF q.grant THEN "grant" ELSE "check"

(* markInvitationAccepted, by id.                                          *)
MarkAccepted(r) ==
    LET q == request[r] IN
    /\ q.step = "mark"
    /\ invitation' = [invitation EXCEPT ![q.invitation].state =
            IF @ = "deleted" THEN @ ELSE "accepted"]
    /\ Goes(r, To(q, AfterMark(q)))
    /\ UNCHANGED <<account, admins, disabled, sessions>>

AfterGrant(q) ==
    CASE q.op = "accept" -> "mark" [] q.op = "social" -> "check" [] OTHER -> "idle"

(* updateUser with the grants.                                             *)
GrantRights(r) ==
    LET q == request[r] IN
    /\ q.step = "grant"
    /\ admins' = IF q.grant /\ Present(q.account) THEN admins \cup {q.account} ELSE admins
    /\ Goes(r, To(q, AfterGrant(q)))
    /\ UNCHANGED <<account, disabled, sessions, invitation>>

(***************************************************************************)
(* Signing in.                                                             *)
(***************************************************************************)

(* Mutant: admins are not refused.                                         *)
BarredUnlessAdmin(a) == a \in disabled \ admins

Barred(a) == a \in disabled

(* session.create.before, where every way to sign in passes.               *)
CheckSession(r) ==
    LET q == request[r] IN
    /\ q.step = "check"
    /\ Goes(r, IF Barred(q.account) THEN Idle ELSE To(q, "session"))
    /\ UNCHANGED tables

(* Mutant: an accepted invitation leaves its grants out.                   *)
AfterSessionUngranted(q) ==
    CASE q.op = "create" -> "grant" [] q.op = "accept" -> "mark" [] OTHER -> "idle"

AfterSession(q) == IF q.op \in {"create", "accept"} THEN "grant" ELSE "idle"

InsertSession(r) ==
    LET q == request[r] IN
    /\ q.step = "session"
    /\ \/ /\ Present(q.account)
          /\ sessions' = sessions \cup {q.account}
          /\ Goes(r, To(q, AfterSession(q)))
       \/ /\ ~ Present(q.account)
          /\ Goes(r, Idle) /\ UNCHANGED sessions
    /\ UNCHANGED <<account, admins, disabled, invitation>>

(***************************************************************************)
(* Managing accounts.                                                      *)
(***************************************************************************)

(* Mutant: one may demote or disable oneself when there are other admins.  *)
SparesAdmin(q) == q.account \in admins => Cardinality(admins) > 1

(* Never oneself, and never the last admin; countAdmins counts disabled    *)
(* ones too.                                                               *)
Spares(q) ==
    /\ q.account # q.actor
    /\ q.account \in admins => Cardinality(admins) > 1

Permitted(q) ==
    IF q.op = "delete" THEN Spares(q)
    ELSE /\ "demote" \in q.change /\ q.account \in admins => Spares(q)
         /\ "disable" \in q.change /\ q.account \notin disabled => Spares(q)

CheckTarget(r) ==
    LET q == request[r] IN
    /\ q.step = "target"
    /\ Goes(r, IF Present(q.account) /\ Permitted(q) THEN To(q, "write") ELSE Idle)
    /\ UNCHANGED tables

(* updateUser with the patch.                                              *)
UpdateAccount(r) ==
    LET q == request[r]
        b == {q.account} IN
    /\ q.op = "patch" /\ q.step = "write"
    /\ \/ /\ Present(q.account)
          /\ admins' = CASE "promote" \in q.change -> admins \cup b
                         [] "demote" \in q.change -> admins \ b
                         [] OTHER -> admins
          /\ disabled' = CASE "disable" \in q.change -> disabled \cup b
                           [] "enable" \in q.change -> disabled \ b
                           [] OTHER -> disabled
          /\ Goes(r, To(q, IF "disable" \in q.change THEN "sessions" ELSE "idle"))
       \/ /\ ~ Present(q.account)
          /\ Goes(r, Idle) /\ UNCHANGED <<admins, disabled>>
    /\ UNCHANGED <<account, sessions, invitation>>

DeleteSessions(r) ==
    /\ request[r].step = "sessions"
    /\ sessions' = sessions \ {request[r].account}
    /\ Goes(r, Idle)
    /\ UNCHANGED <<account, admins, disabled, invitation>>

(* deleteUser: sessions and the invitations it sent cascade.               *)
DeleteAccount(r) ==
    LET b == request[r].account IN
    /\ request[r].op = "delete" /\ request[r].step = "write"
    /\ account' = [account EXCEPT ![b] = "gone"]
    /\ admins' = admins \ {b}
    /\ disabled' = disabled \ {b}
    /\ sessions' = sessions \ {b}
    /\ invitation' = [i \in Invitations |->
            IF invitation[i].by = b THEN [invitation[i] EXCEPT !.state = "deleted"]
            ELSE invitation[i]]
    /\ Goes(r, Idle)

(***************************************************************************)
(* Invitations.                                                            *)
(***************************************************************************)
InsertInvitation(r) ==
    LET q == request[r] IN
    /\ q.op = "invite" /\ q.step = "write"
    /\ \/ \E i \in Invitations :
            /\ Present(q.actor)
            /\ invitation[i].state = "absent"
            /\ invitation' = [invitation EXCEPT ![i] =
                    [state |-> "pending", email |-> q.email, by |-> q.actor, grant |-> q.grant]]
            /\ Goes(r, [q EXCEPT !.step = "send", !.invitation = i])
       \/ ~ Present(q.actor) /\ Goes(r, Idle) /\ UNCHANGED invitation
    /\ UNCHANGED <<account, admins, disabled, sessions>>

(* The mail is sent, or delivery fails and the invitation is withdrawn.    *)
SendInvitation(r) ==
    /\ request[r].step = "send"
    /\ \E step \in {"idle", "cleanup"} : Goes(r, To(request[r], step))
    /\ UNCHANGED tables

DeleteInvitation(r) ==
    LET q == request[r] IN
    /\ q.step = "cleanup" \/ q.op = "revoke"
    /\ invitation' = [invitation EXCEPT ![q.invitation].state = IF @ = "absent" THEN @ ELSE "deleted"]
    /\ Goes(r, Idle)
    /\ UNCHANGED <<account, admins, disabled, sessions>>

(* Seven days pass.                                                        *)
Expire(i) ==
    /\ Pending(i)
    /\ invitation' = [invitation EXCEPT ![i].state = "expired"]
    /\ UNCHANGED <<account, admins, disabled, sessions, request>>

(* The worker dies, or a statement fails, between two steps.               *)
HandlerDies(r) ==
    /\ request[r] # Idle
    /\ Goes(r, Idle)
    /\ UNCHANGED tables

(***************************************************************************)
(* What the history variables observe of a step.                           *)
(***************************************************************************)
Removal(q) == q.op = "delete" \/ q.change \cap {"demote", "disable"} # {}
Disabling(q, a) == q.step = "sessions" /\ q.account = a

Observe ==
    /\ founders' = founders \cup {request'[r].account : r \in {r \in Requests :
            request[r].op = "signUp" /\ request[r].step = "insert" /\ request'[r].step = "check"}}
    /\ rushed' = (rushed \/ \E r, s \in Requests :
            r # s /\ request'[r].op = "signUp" /\ request'[s].op = "signUp")
    /\ crossfire' = (crossfire \/ \E r, s \in Requests :
            /\ r # s /\ Removal(request'[r]) /\ Removal(request'[s])
            /\ request'[r].account = request'[s].actor)
    /\ overtaking' = {r \in Requests :
            /\ request'[r].step = "session"
            /\ r \in overtaking \/ request'[r].account \in disabled' \ disabled}
    /\ excused' = {a \in disabled' \cap sessions' :
            \/ a \in excused
            \/ \E r \in Requests : Disabling(request'[r], a)
            \/ \E r \in overtaking : request[r].account = a}
    /\ honoured' = honoured \cup {request[r].invitation : r \in {r \in Requests :
            /\ request[r].step = "grant" /\ request[r].op # "create"
            /\ request'[r].step \in {"mark", "check"}}}
    /\ dropped' = dropped \cup {request[r].invitation : r \in {r \in Requests :
            request[r].op = "social" /\ request[r].step = "grant" /\ request'[r] = Idle}}

Begin(r) ==
    \/ \E e \in Emails : BeginSignUp(r, e) \/ BeginSocial(r, e)
    \/ \E i \in Invitations : BeginAccept(r, i)
    \/ \E a \in Accounts :
        \/ BeginSignIn(r, a)
        \/ \E e \in Emails, grant \in BOOLEAN :
                BeginCreate(r, a, e, grant) \/ BeginInvite(r, a, e, grant)
        \/ \E i \in Invitations : BeginRevoke(r, a, i)
        \/ \E b \in Accounts :
            \/ \E change \in Patches : BeginPatch(r, a, b, change)
            \/ BeginDelete(r, a, b)

Proceed(r) ==
    \/ BeforeCreate(r) \/ InsertAccount(r) \/ ClaimInvitation(r)
    \/ MarkAccepted(r) \/ GrantRights(r)
    \/ CheckSession(r) \/ InsertSession(r)
    \/ CheckTarget(r) \/ UpdateAccount(r) \/ DeleteSessions(r) \/ DeleteAccount(r)
    \/ InsertInvitation(r) \/ SendInvitation(r) \/ DeleteInvitation(r)

Next ==
    /\ \/ \E r \in Requests : Begin(r) \/ Proceed(r) \/ HandlerDies(r)
       \/ \E i \in Invitations : Expire(i)
    /\ Observe

Spec == Init /\ [][Next]_vars

(***************************************************************************)
(* Properties.                                                             *)
(***************************************************************************)
EnabledAdmin == \E a \in Accounts : MayAct(a)

(* users.ts:106, 123: the instance is never without an admin who can act,  *)
(* although each route only counts admins, disabled ones included, and     *)
(* only before it writes; unless an admin was removed by somebody while    *)
(* removing somebody.                                                      *)
EnabledAdminRemains == Unclaimed \/ EnabledAdmin \/ crossfire

(* users.ts:147: disabling locks out.  A disabled account has no session,  *)
(* but for those the request that disabled it still has to delete, died    *)
(* before deleting, or was overtaken by.                                   *)
DisabledLockedOut == disabled \cap sessions \subseteq excused

(* auth.ts:219: public sign-up is closed once a user exists: nobody signs  *)
(* up beside the founder, unless two sign-ups raced.                       *)
OneFounder == Cardinality({a \in founders : Present(a)}) <= 1 \/ rushed

(* An invitation is not used up before its grants are written, but for a   *)
(* social sign-in that dies in between.                                    *)
AcceptedIsGranted ==
    \A i \in Invitations :
        invitation[i].state = "accepted" /\ invitation[i].grant =>
            \/ i \in honoured \cup dropped
            \/ \E r \in Requests :
                request[r].op = "social" /\ request[r].step = "grant" /\ request[r].invitation = i

(* users.ts:106 without exceptions (a run that expects a violation): the   *)
(* last instance admin is never removed.                                   *)
AdminAlwaysRemains == Unclaimed \/ admins # {}
============================================================================
