----------------------------- MODULE AccessTokens -----------------------------
(***************************************************************************)
(* Tokens that act for a user: personal ones, and the one of each agent,   *)
(* which is replaced in place when it is rotated.  Rotating takes three    *)
(* statements, letting a bearer in takes up to three reads, and agents and *)
(* accounts are disabled, archived and deleted meanwhile.                  *)
(***************************************************************************)
EXTENDS Naturals

CONSTANTS
    Users,
    Agents,
    OwnerOf,        \* the user an agent acts for
    Secrets,        \* a token's hash stands for its secret
    MaxRows,        \* rows of both token tables, numbered as they are created
    Requests,
    None

ASSUME OwnerAssumption == OwnerOf \in [Agents -> Users]
ASSUME HolderAssumption == Agents \cap Users = {}
ASSUME RowsAssumption == MaxRows \in Nat
ASSUME NoneAssumption == None \notin Agents \cup Users \cup Secrets \cup Nat

VARIABLES
    users,          \* accounts
    agents,         \* agents: disabled_at and archived_at
    tokens,         \* agent_tokens and api_tokens
    issued,         \* rows created so far
    minted,         \* secrets generated so far
    request,        \* requests in flight
    \* History variables.
    handed,         \* secret -> whose it is, once its bearer was told it
    knew,           \* rotation -> the agent's secrets handed out when it began
    wasLive,        \* bearers' requests whose secret was live at some moment since they began
    eased,          \* those whose agent or account was enabled since they began
    revoked,        \* secrets that may not work any more
    current,        \* agent -> the secret handed out last
    muddled         \* agents whose rotations overlapped, or one of which was not answered

tables == <<users, agents, tokens, issued>>
history == <<handed, knew, wasLive, eased, revoked, current, muddled>>
vars == <<tables, minted, request, history>>

Rows == 1 .. MaxRows
Holders == Agents \cup Users
Owner(h) == IF h \in Agents THEN OwnerOf[h] ELSE h

Token == [holder : Holders, secret : Secrets, expired : BOOLEAN]
Absent == [holder |-> None, secret |-> None, expired |-> FALSE]
Existing == {i \in Rows : tokens[i] # Absent}
RowsOf(h) == {i \in Existing : tokens[i].holder = h}

RequestState == [step : {"idle", "insert", "select", "collapse", "update", "answer",
                         "token", "agent", "owner", "in"},
                 holder : Holders \cup {None}, row : Rows \cup {None}, secret : Secrets \cup {None}]
Asked(step, h, s) == [step |-> step, holder |-> h, row |-> None, secret |-> s]
Idle == Asked("idle", None, None)

(* With the unique secrets and the foreign keys.                           *)
TypeOK ==
    /\ users \in [Users -> {"enabled", "disabled", "gone"}]
    /\ agents \in [Agents -> {"unborn", "enabled", "disabled", "archived", "gone"}]
    /\ tokens \in [Rows -> Token \cup {Absent}]
    /\ \A i, j \in Existing : tokens[i].secret = tokens[j].secret => i = j
    /\ \A i \in Existing : users[Owner(tokens[i].holder)] # "gone"
    /\ issued \in 0 .. MaxRows
    /\ minted \subseteq Secrets
    /\ request \in [Requests -> RequestState]
    /\ handed \in [Secrets -> Holders \cup {None}]
    /\ knew \in [Requests -> SUBSET Secrets]
    /\ wasLive \cup eased \subseteq Requests
    /\ revoked \subseteq Secrets
    /\ current \in [Agents -> Secrets \cup {None}]
    /\ muddled \subseteq Agents

(* Agents from before agents had one token each may have several.          *)
Init ==
    /\ users = [u \in Users |-> "enabled"]
    /\ agents \in [Agents -> {"unborn", "enabled"}]
    /\ issued \in 0 .. MaxRows
    /\ tokens \in [Rows -> [holder : Agents, secret : Secrets, expired : {FALSE}] \cup {Absent}]
    /\ Existing = 1 .. issued
    /\ \A i, j \in Existing : tokens[i].secret = tokens[j].secret => i = j
    /\ \A a \in Agents : agents[a] = "enabled" <=> RowsOf(a) # {}
    /\ minted = {tokens[i].secret : i \in Existing}
    /\ request = [r \in Requests |-> Idle]
    /\ handed = [s \in Secrets |-> IF s \in minted
                                   THEN tokens[CHOOSE i \in Existing : tokens[i].secret = s].holder
                                   ELSE None]
    /\ knew = [r \in Requests |-> {}]
    /\ wasLive = {} /\ eased = {} /\ revoked = {}
    /\ current = [a \in Agents |-> None]
    /\ muddled = {}

Goes(r, q) == request' = [request EXCEPT ![r] = q]
Passes(r, step) == Goes(r, [request[r] EXCEPT !.step = step])
Stops(r) == Goes(r, Idle) /\ UNCHANGED <<tables, minted, handed>>
Begin(r, step, h, s) ==
    /\ request[r] = Idle
    /\ Goes(r, Asked(step, h, s))
    /\ UNCHANGED <<tables, handed>>

(***************************************************************************)
(* Issuing.                                                                *)
(***************************************************************************)

(* POST /agents and POST /tokens: a session, of an enabled account.        *)
BeginIssue(r, h, s) ==
    /\ users[Owner(h)] = "enabled" /\ s \notin minted
    /\ h \in Agents => agents[h] = "unborn" /\ \A k \in Requests : request[k].holder # h
    /\ Begin(r, "insert", h, s)
    /\ minted' = minted \cup {s}

(* createAgentWithToken, one batch, and createApiToken.                    *)
Insert(r) ==
    LET q == request[r] IN
    /\ q.step = "insert"
    /\ IF users[Owner(q.holder)] = "gone" THEN Stops(r)
       ELSE /\ issued < MaxRows
            /\ issued' = issued + 1
            /\ tokens' = [tokens EXCEPT ![issued'] =
                             [holder |-> q.holder, secret |-> q.secret, expired |-> FALSE]]
            /\ agents' = [a \in Agents |-> IF a = q.holder THEN "enabled" ELSE agents[a]]
            /\ Passes(r, "answer")
            /\ UNCHANGED <<users, minted, handed>>

(* POST /agents/:id/token/rotate: requireOwnedAgent.                       *)
BeginRotate(r, a, s) ==
    /\ users[OwnerOf[a]] = "enabled" /\ agents[a] \in {"enabled", "disabled"}
    /\ s \notin minted
    /\ Begin(r, "select", a, s)
    /\ minted' = minted \cup {s}

(* Mutant: any of the agent's rows survives.                               *)
SelectAny(r) ==
    LET q == request[r] IN
    /\ q.step = "select"
    /\ \/ \E i \in RowsOf(q.holder) :
             Goes(r, [q EXCEPT !.step = "collapse", !.row = i]) /\ UNCHANGED <<tables, minted, handed>>
       \/ RowsOf(q.holder) = {} /\ Stops(r)

(* The agent's oldest row survives.                                        *)
Select(r) ==
    LET q == request[r] IN
    /\ q.step = "select"
    /\ \/ \E i \in RowsOf(q.holder) :
             /\ \A j \in RowsOf(q.holder) : i <= j
             /\ Goes(r, [q EXCEPT !.step = "collapse", !.row = i])
             /\ UNCHANGED <<tables, minted, handed>>
       \/ RowsOf(q.holder) = {} /\ Stops(r)

(* Mutant: only the selected row is given the new secret.                  *)
CollapseNone(r) ==
    /\ request[r].step = "collapse"
    /\ Passes(r, "update")
    /\ UNCHANGED <<tables, minted, handed>>

(* The agent's other rows go.                                              *)
Collapse(r) ==
    LET q == request[r] IN
    /\ q.step = "collapse"
    /\ tokens' = [i \in Rows |-> IF i \in RowsOf(q.holder) \ {q.row} THEN Absent ELSE tokens[i]]
    /\ Passes(r, "update")
    /\ UNCHANGED <<users, agents, issued, minted, handed>>

(* By the row's id; its expiry stays.                                      *)
Update(r) ==
    LET q == request[r] IN
    /\ q.step = "update"
    /\ IF q.row \in Existing
       THEN /\ tokens' = [tokens EXCEPT ![q.row].secret = q.secret]
            /\ Passes(r, "answer")
            /\ UNCHANGED <<users, agents, issued, minted, handed>>
       ELSE Stops(r)

(* The secret is returned, exactly once.                                   *)
Answer(r) ==
    LET q == request[r] IN
    /\ q.step = "answer"
    /\ handed' = [handed EXCEPT ![q.secret] = q.holder]
    /\ Goes(r, Idle)
    /\ UNCHANGED <<tables, minted>>

(***************************************************************************)
(* A bearer's request: resolveAat and resolvePat.                          *)
(***************************************************************************)
BeginUse(r, s) ==
    /\ handed[s] # None
    /\ Begin(r, "token", None, s)
    /\ UNCHANGED minted

FindToken(r) ==
    LET q == request[r]
        valid == {i \in Existing : tokens[i].secret = q.secret /\ ~ tokens[i].expired} IN
    /\ q.step = "token"
    /\ \/ \E i \in valid :
             /\ Goes(r, [q EXCEPT !.step = IF tokens[i].holder \in Agents THEN "agent" ELSE "owner",
                                  !.holder = tokens[i].holder])
             /\ UNCHANGED <<tables, minted, handed>>
       \/ valid = {} /\ Stops(r)

ReadAgent(r) ==
    /\ request[r].step = "agent"
    /\ IF agents[request[r].holder] = "enabled"
       THEN Passes(r, "owner") /\ UNCHANGED <<tables, minted, handed>>
       ELSE Stops(r)

(* Mutant: a disabled account is not looked for.                           *)
ReadOwnerAny(r) ==
    /\ request[r].step = "owner"
    /\ IF users[Owner(request[r].holder)] # "gone"
       THEN Passes(r, "in") /\ UNCHANGED <<tables, minted, handed>>
       ELSE Stops(r)

ReadOwner(r) ==
    /\ request[r].step = "owner"
    /\ IF users[Owner(request[r].holder)] = "enabled"
       THEN Passes(r, "in") /\ UNCHANGED <<tables, minted, handed>>
       ELSE Stops(r)

(* A request ends, or fails, or its worker dies.                           *)
End(r) == request[r] # Idle /\ Stops(r)

(***************************************************************************)
(* Around them, single statements.                                         *)
(***************************************************************************)
Turned(state) == IF state = "enabled" THEN "disabled" ELSE "enabled"

SetAgentDisabled(a) ==
    /\ agents[a] \in {"enabled", "disabled"}
    /\ agents' = [agents EXCEPT ![a] = Turned(@)]
    /\ UNCHANGED <<users, tokens, issued, minted, request, handed>>

ArchiveAgent(a) ==
    /\ agents[a] \in {"enabled", "disabled"}
    /\ agents' = [agents EXCEPT ![a] = "archived"]
    /\ UNCHANGED <<users, tokens, issued, minted, request, handed>>

DeleteApiToken(i) ==
    /\ i \in Existing /\ tokens[i].holder \in Users
    /\ tokens' = [tokens EXCEPT ![i] = Absent]
    /\ UNCHANGED <<users, agents, issued, minted, request, handed>>

(* expires_at has passed.                                                  *)
Expire(i) ==
    /\ i \in Existing /\ ~ tokens[i].expired
    /\ tokens' = [tokens EXCEPT ![i].expired = TRUE]
    /\ UNCHANGED <<users, agents, issued, minted, request, handed>>

SetUserDisabled(u) ==
    /\ users[u] # "gone"
    /\ users' = [users EXCEPT ![u] = Turned(@)]
    /\ UNCHANGED <<agents, tokens, issued, minted, request, handed>>

(* Agents and tokens cascade with their account.                           *)
DeleteUser(u) ==
    /\ users[u] # "gone"
    /\ users' = [users EXCEPT ![u] = "gone"]
    /\ agents' = [a \in Agents |-> IF OwnerOf[a] = u /\ agents[a] # "unborn" THEN "gone" ELSE agents[a]]
    /\ tokens' = [i \in Rows |-> IF i \in Existing /\ Owner(tokens[i].holder) = u THEN Absent ELSE tokens[i]]
    /\ UNCHANGED <<issued, minted, request, handed>>

(***************************************************************************)
(* History.                                                                *)
(***************************************************************************)
Live(s) ==
    \E i \in Existing : LET h == tokens[i].holder IN
        /\ tokens[i].secret = s /\ ~ tokens[i].expired
        /\ h \in Agents => agents[h] = "enabled"
        /\ users[Owner(h)] = "enabled"
LiveSecrets == {s \in Secrets : Live(s)}

Uses(q) == q.step \in {"token", "agent", "owner", "in"}
Enabled(h) == \/ h \in Agents /\ agents[h] = "disabled" /\ agents'[h] = "enabled"
              \/ users[Owner(h)] = "disabled" /\ users'[Owner(h)] = "enabled"
Ends(r) == request[r].step = "answer" /\ request'[r] = Idle
Told(r) == Ends(r) /\ handed' # handed

Observe ==
    /\ knew' = [r \in Requests |->
           IF request'[r] = Idle THEN {}
           ELSE IF request[r] = Idle /\ request'[r].step = "select"
                THEN {s \in Secrets : handed[s] = request'[r].holder} ELSE knew[r]]
    /\ wasLive' = {r \in Requests : Uses(request'[r]) /\ (r \in wasLive \/ request'[r].secret \in LiveSecrets')}
    /\ eased' = {r \in Requests : Uses(request'[r]) /\ (r \in eased \/ Enabled(handed[request'[r].secret]))}
    /\ revoked' = revoked
         \cup (UNION {knew[r] : r \in {k \in Requests : Told(k)}})
         \cup {tokens[i].secret : i \in {j \in Existing : tokens'[j] = Absent}}
         \cup {s \in Secrets : handed'[s] \in Agents /\ agents'[handed'[s]] = "archived"}
    /\ current' = [a \in Agents |->
           IF \E r \in Requests : Told(r) /\ request[r].holder = a
           THEN request[CHOOSE r \in Requests : Told(r) /\ request[r].holder = a].secret ELSE current[a]]
    /\ muddled' = {a \in Agents :
           IF \E r \in Requests : request[r].step = "update" /\ request[r].holder = a /\ request'[r].step = "answer"
           THEN \E r \in Requests : request[r].step = "answer" /\ request[r].holder = a
           ELSE a \in muddled \/ \E r \in Requests : Ends(r) /\ ~ Told(r) /\ request[r].holder = a}

Handle(r) ==
    \/ \E s \in Secrets : \/ \E h \in Holders : BeginIssue(r, h, s)
                          \/ \E a \in Agents : BeginRotate(r, a, s)
                          \/ BeginUse(r, s)
    \/ Insert(r) \/ Select(r) \/ Collapse(r) \/ Update(r) \/ Answer(r)
    \/ FindToken(r) \/ ReadAgent(r) \/ ReadOwner(r) \/ End(r)

Around ==
    \/ \E a \in Agents : SetAgentDisabled(a) \/ ArchiveAgent(a)
    \/ \E i \in Rows : DeleteApiToken(i) \/ Expire(i)
    \/ \E u \in Users : SetUserDisabled(u) \/ DeleteUser(u)

Next == (Around \/ \E r \in Requests : Handle(r)) /\ Observe

Spec == Init /\ [][Next]_vars

(***************************************************************************)
(* Properties.                                                             *)
(***************************************************************************)

(* Whoever is let in had a live token, agent and account all at one moment *)
(* of the request, though each is read on its own while tokens rotate and  *)
(* agents and accounts are disabled: unless one of them was enabled again  *)
(* between the reads.                                                      *)
AdmittedWasLive ==
    \A r \in Requests : request[r].step = "in" => r \in wasLive \cup eased

(* "Every prior secret is revoked" (queries/agents.ts): once a rotation is *)
(* answered, no secret handed out before it began works again, however     *)
(* many rows the agent had and whatever other rotation is under way; nor   *)
(* does one of an archived agent or of a deleted token.                    *)
OldSecretsStop == \A s \in revoked : ~ Live(s)

(* An agent never loses its token, which nothing could issue anew; and the *)
(* secret its owner was told last is the one that works, unless rotations  *)
(* overlapped or one was not answered.                                     *)
AgentsKeepTheirToken ==
    \A a \in Agents : agents[a] \in {"enabled", "disabled", "archived"} =>
        /\ RowsOf(a) # {}
        /\ \/ current[a] = None \/ a \in muddled
           \/ \E r \in Requests : request[r].step = "answer" /\ request[r].holder = a
           \/ {tokens[i].secret : i \in RowsOf(a)} = {current[a]}
===============================================================================
