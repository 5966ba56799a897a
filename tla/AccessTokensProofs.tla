------------------------- MODULE AccessTokensProofs -------------------------
(***************************************************************************)
(* Proofs about AccessTokens, for any number of accounts, agents, tokens   *)
(* and concurrent requests.                                                *)
(***************************************************************************)
EXTENDS AccessTokens, TLAPS

(***************************************************************************)
(* The invariant.                                                          *)
(***************************************************************************)

(* Requests that will write their secret, and those that issue one.        *)
Pending(q) == q.step \in {"insert", "select", "collapse", "update"}
Issues(q) == Pending(q) \/ q.step = "answer"
Rotates(q) == q.step \in {"select", "collapse", "update"}
Admits(q) == q.step \in {"agent", "owner", "in"}

RequestOK(q) ==
    /\ Issues(q) => q.holder \in Holders /\ q.secret \in Secrets
    /\ Rotates(q) => q.holder \in Agents
    /\ q.step \in {"collapse", "update"} => q.row \in 1 .. issued
    /\ q.step = "token" => q.holder = None /\ q.secret \in Secrets /\ handed[q.secret] # None
    /\ Admits(q) => q.secret \in Secrets /\ q.holder \in Holders /\ handed[q.secret] = q.holder
    /\ q.step = "agent" => q.holder \in Agents
    /\ q.step = "idle" => q = Idle

RequestsOK == \A r \in Requests : RequestOK(request[r])

(* A secret belongs to one request until it is handed out, and to the      *)
(* holder of its row.                                                      *)
SecretsOK ==
    /\ \A s \in Secrets : handed[s] # None => s \in minted
    /\ \A i \in Existing : /\ i <= issued /\ tokens[i].secret \in minted
                           /\ handed[tokens[i].secret] \in {None, tokens[i].holder}
    /\ \A r \in Requests : Issues(request[r]) => /\ request[r].secret \in minted
                                                 /\ handed[request[r].secret] = None
    /\ \A r, k \in Requests :
          Issues(request[r]) /\ Issues(request[k]) /\ request[r].secret = request[k].secret => r = k
    /\ \A r \in Requests, i \in Existing :
          Issues(request[r]) /\ tokens[i].secret = request[r].secret =>
              ~ Pending(request[r]) /\ tokens[i].holder = request[r].holder

(* An agent has a token from its creation to its end, and a rotation keeps *)
(* the oldest, whatever other rotation is under way.                       *)
Alive == {"enabled", "disabled", "archived"}
TokensOfAgents ==
    /\ \A i \in Existing : tokens[i].holder \in Agents => agents[tokens[i].holder] \in Alive
    /\ \A a \in Agents : agents[a] \in Alive => \E i \in Existing : tokens[i].holder = a
Births ==
    \A r \in Requests : LET q == request[r] IN
        q.holder \in Agents =>
            IF q.step = "insert"
            THEN agents[q.holder] = "unborn" /\ \A k \in Requests : request[k].holder = q.holder => k = r
            ELSE agents[q.holder] # "unborn"
Oldest ==
    \A r \in Requests : LET q == request[r] IN
        \A i \in Existing : tokens[i].holder = q.holder =>
            /\ q.step \in {"collapse", "update"} => q.row \in Existing /\ tokens[q.row].holder = q.holder /\ q.row <= i
            /\ q.step = "update" => i = q.row
RowsOfRequests ==
    \A r \in Requests : LET q == request[r] IN
        q.step \in {"collapse", "update"} /\ q.row \in Existing => tokens[q.row].holder = q.holder

TablesOK == TypeOK /\ RequestsOK /\ SecretsOK /\ TokensOfAgents /\ Births /\ Oldest /\ RowsOfRequests

(* A request that was let in at a step has seen a live token, or one of    *)
(* the two it has not come to yet was out when it found the token.         *)
Missing(q) ==
    CASE q.step = "agent" -> agents[q.holder] # "enabled" \/ users[Owner(q.holder)] # "enabled"
      [] q.step = "owner" -> users[Owner(q.holder)] # "enabled"
      [] OTHER -> FALSE
AdmittedInv ==
    \A r \in Requests : Admits(request[r]) => r \in wasLive \cup eased \/ Missing(request[r])

(* What a rotation will revoke is handed out, and gone once it is done.    *)
KnownInv ==
    /\ \A r \in Requests : \A s \in knew[r] :
          /\ Issues(request[r]) /\ request[r].step # "insert" /\ handed[s] = request[r].holder
          /\ request[r].step = "answer" => \A i \in Existing : tokens[i].secret # s
RevokedInv ==
    \A s \in revoked :
        /\ s \in minted
        /\ \A r \in Requests : Pending(request[r]) => request[r].secret # s
        /\ \A i \in Existing : tokens[i].secret = s =>
              tokens[i].holder \in Agents /\ agents[tokens[i].holder] = "archived"

(* The answer under way of an agent that is not muddled tells the secret   *)
(* it has.                                                                 *)
Answers(r, a) == request[r].step = "answer" /\ request[r].holder = a
Has(a, s) == \A i \in Existing : tokens[i].holder = a => tokens[i].secret = s
CurrentInv ==
    \A a \in Agents : agents[a] \in Alive /\ a \notin muddled =>
        /\ \A r \in Requests : Answers(r, a) =>
              Has(a, request[r].secret) /\ \A k \in Requests : Answers(k, a) => k = r
        /\ current[a] # None /\ (\A r \in Requests : ~ Answers(r, a)) => Has(a, current[a])

TokenInv == TablesOK /\ AdmittedInv /\ KnownInv /\ RevokedInv /\ CurrentInv

LEMMA IdleOK ==
    /\ Idle \in RequestState /\ RequestOK(Idle)
    /\ Idle.step = "idle" /\ Idle.holder = None /\ Idle.secret = None
  BY DEF Idle, Asked, RequestState, RequestOK, Pending, Issues, Rotates, Admits

LEMMA AskedOK ==
    ASSUME NEW step \in {"insert", "select", "token"}, NEW h \in Holders \cup {None}, NEW s \in Secrets
    PROVE  /\ Asked(step, h, s) \in RequestState
           /\ Asked(step, h, s).step = step /\ Asked(step, h, s).holder = h /\ Asked(step, h, s).secret = s
           /\ Asked(step, h, s).row = None
  BY DEF Asked, RequestState

LEMMA HolderTypes ==
    /\ \A h \in Holders : Owner(h) \in Users /\ h # None
    /\ \A a \in Agents : a \in Holders /\ a \notin Users /\ Owner(a) = OwnerOf[a]
    /\ \A u \in Users : u \in Holders /\ u \notin Agents /\ Owner(u) = u
    /\ None \notin Agents /\ None \notin Users /\ None \notin Secrets
  BY OwnerAssumption, HolderAssumption, NoneAssumption DEF Holders, Owner

LEMMA TokenTypes ==
    ASSUME TypeOK, NEW i \in Existing
    PROVE  /\ i \in Rows /\ tokens[i] \in Token /\ tokens[i] # Absent
           /\ tokens[i].holder \in Holders /\ tokens[i].secret \in Secrets /\ tokens[i].expired \in BOOLEAN
           /\ tokens[i] = [holder |-> tokens[i].holder, secret |-> tokens[i].secret, expired |-> tokens[i].expired]
  BY DEF TypeOK, Existing, Token

LEMMA NotTokens == Absent \notin Token /\ Absent.holder = None /\ Absent.secret = None
  BY NoneAssumption DEF Absent, Token, Holders

(***************************************************************************)
(* What a step does.                                                       *)
(***************************************************************************)
Others(r) == \A k \in Requests \ {r} : request'[k] = request[k]

Fresh(r) ==
    /\ Others(r) /\ request[r] = Idle /\ UNCHANGED <<tables, handed>>
    /\ \E s \in Secrets, h \in Holders, step \in {"insert", "select"} :
          /\ request'[r] = Asked(step, h, s) /\ s \notin minted /\ minted' = minted \cup {s}
          /\ (step = "insert" /\ h \in Agents) => agents[h] = "unborn" /\ \A k \in Requests : request[k].holder # h
          /\ step = "select" => h \in Agents /\ agents[h] \in Alive
Bears(r) ==
    /\ Others(r) /\ request[r] = Idle /\ UNCHANGED <<tables, minted, handed>>
    /\ \E s \in Secrets : handed[s] # None /\ request'[r] = Asked("token", None, s)
Stopped(r) == Others(r) /\ request'[r] = Idle /\ UNCHANGED <<tables, minted, handed>>

(* The request keeps its secret and, but for FindToken, its holder.        *)
Continues(r, from, to) ==
    /\ Others(r) /\ request[r].step \in from /\ request'[r].step \in to
    /\ request'[r] \in RequestState /\ request'[r].secret = request[r].secret
SameHolder(r) == request'[r].holder = request[r].holder
Inserted(r) ==
    LET q == request[r] IN
    /\ Continues(r, {"insert"}, {"answer"}) /\ SameHolder(r) /\ UNCHANGED <<users, minted, handed>>
    /\ users[Owner(q.holder)] # "gone"
    /\ issued' = issued + 1 /\ issued' \in Rows
    /\ tokens'[issued'] = [holder |-> q.holder, secret |-> q.secret, expired |-> FALSE]
    /\ \A i \in Rows \ {issued'} : tokens'[i] = tokens[i]
    /\ \A a \in Agents : agents'[a] = IF a = q.holder THEN "enabled" ELSE agents[a]
Selected(r) ==
    LET q == request[r]
        i == request'[r].row IN
    /\ Continues(r, {"select"}, {"collapse"}) /\ SameHolder(r) /\ UNCHANGED <<tables, minted, handed>>
    /\ i \in Existing /\ tokens[i].holder = q.holder
    /\ \A j \in Existing : tokens[j].holder = q.holder => i <= j
Collapsed(r) ==
    LET q == request[r] IN
    /\ Continues(r, {"collapse"}, {"update"}) /\ SameHolder(r) /\ request'[r].row = q.row
    /\ \A i \in Rows : tokens'[i] = IF i \in Existing /\ tokens[i].holder = q.holder /\ i # q.row
                                    THEN Absent ELSE tokens[i]
    /\ UNCHANGED <<users, agents, issued, minted, handed>>
Updated(r) ==
    LET q == request[r] IN
    /\ Continues(r, {"update"}, {"answer"}) /\ SameHolder(r)
    /\ q.row \in Existing
    /\ tokens'[q.row] = [holder |-> tokens[q.row].holder, secret |-> q.secret, expired |-> tokens[q.row].expired]
    /\ \A i \in Rows \ {q.row} : tokens'[i] = tokens[i]
    /\ UNCHANGED <<users, agents, issued, minted, handed>>
Answered(r) ==
    LET q == request[r] IN
    /\ Others(r) /\ q.step = "answer" /\ request'[r] = Idle
    /\ \A s \in Secrets : handed'[s] = IF s = q.secret THEN q.holder ELSE handed[s]
    /\ UNCHANGED <<tables, minted>>
FoundToken(r) ==
    LET h == request'[r].holder IN
    /\ Continues(r, {"token"}, {"agent", "owner"}) /\ UNCHANGED <<tables, minted, handed>>
    /\ \E i \in Existing : tokens[i].secret = request[r].secret /\ ~ tokens[i].expired /\ tokens[i].holder = h
    /\ request'[r].step = IF h \in Agents THEN "agent" ELSE "owner"
PassedAgent(r) ==
    /\ Continues(r, {"agent"}, {"owner"}) /\ SameHolder(r) /\ UNCHANGED <<tables, minted, handed>>
    /\ agents[request[r].holder] = "enabled"
PassedOwner(r) ==
    /\ Continues(r, {"owner"}, {"in"}) /\ SameHolder(r) /\ UNCHANGED <<tables, minted, handed>>
    /\ users[Owner(request[r].holder)] = "enabled"

(* Accounts and agents are turned off, on and away.                        *)
Turns ==
    /\ UNCHANGED <<tokens, issued, minted, request, handed>>
    /\ \A a \in Agents : \/ agents'[a] = agents[a]
                         \/ agents[a] \in {"enabled", "disabled"} /\ agents'[a] \in Alive
    /\ \A u \in Users : \/ users'[u] = users[u]
                        \/ users[u] # "gone" /\ users'[u] \in {"enabled", "disabled"}
Removes ==
    /\ UNCHANGED <<users, agents, issued, minted, request, handed>>
    /\ \A i \in Rows : \/ tokens'[i] = tokens[i]
                       \/ i \in Existing /\ tokens[i].holder \in Users /\ tokens'[i] = Absent
                       \/ i \in Existing /\ tokens'[i] = [holder |-> tokens[i].holder, secret |-> tokens[i].secret,
                                                          expired |-> TRUE]
Leaves(u) ==
    /\ UNCHANGED <<issued, minted, request, handed>>
    /\ users[u] # "gone" /\ \A v \in Users : users'[v] = IF v = u THEN "gone" ELSE users[v]
    /\ \A a \in Agents : agents'[a] = IF OwnerOf[a] = u /\ agents[a] # "unborn" THEN "gone" ELSE agents[a]
    /\ \A i \in Rows : tokens'[i] = IF i \in Existing /\ Owner(tokens[i].holder) = u THEN Absent ELSE tokens[i]

RequestStep(r) ==
    \/ Fresh(r) \/ Bears(r) \/ Stopped(r) \/ Inserted(r) \/ Selected(r) \/ Collapsed(r) \/ Updated(r)
    \/ Answered(r) \/ FoundToken(r) \/ PassedAgent(r) \/ PassedOwner(r)
Step == (\E r \in Requests : RequestStep(r)) \/ Turns \/ Removes \/ \E u \in Users : Leaves(u)

LEMMA GoesOn ==
    ASSUME TypeOK, NEW r \in Requests, NEW q, Goes(r, q)
    PROVE  request'[r] = q /\ Others(r)
  BY DEF TypeOK, Goes, Others

LEMMA PassesOn ==
    ASSUME TypeOK, NEW r \in Requests,
           NEW step \in {"update", "answer", "owner", "in"}, Passes(r, step)
    PROVE  /\ Others(r) /\ request'[r] \in RequestState
           /\ request'[r].step = step /\ request'[r].secret = request[r].secret
           /\ request'[r].holder = request[r].holder /\ request'[r].row = request[r].row
  <1>1. request[r] \in RequestState /\ request'[r] = [request[r] EXCEPT !.step = step]
    BY DEF TypeOK, Passes, Goes
  <1> QED BY <1>1 DEF TypeOK, Passes, Goes, RequestState, Others

LEMMA StopsOn ==
    ASSUME TypeOK, NEW r \in Requests, Stops(r)
    PROVE  Stopped(r)
  BY GoesOn DEF Stops, Stopped

LEMMA BeginsStep ==
    ASSUME TypeOK, NEW r \in Requests, NEW s \in Secrets,
           \/ \E h \in Holders : BeginIssue(r, h, s)
           \/ \E a \in Agents : BeginRotate(r, a, s)
           \/ BeginUse(r, s)
    PROVE  Fresh(r) \/ Bears(r)
  <1>1. ASSUME NEW h \in Holders, BeginIssue(r, h, s) PROVE Fresh(r)
    <2>1. request'[r] = Asked("insert", h, s) /\ Others(r) BY <1>1, GoesOn DEF BeginIssue, Begin
    <2> QED BY <1>1, <2>1 DEF BeginIssue, Begin, Fresh
  <1>2. ASSUME NEW a \in Agents, BeginRotate(r, a, s) PROVE Fresh(r)
    <2>1. request'[r] = Asked("select", a, s) /\ Others(r) BY <1>2, GoesOn DEF BeginRotate, Begin
    <2> QED BY <1>2, <2>1, HolderTypes DEF BeginRotate, Begin, Fresh, Alive
  <1>3. ASSUME BeginUse(r, s) PROVE Bears(r)
    <2>1. request'[r] = Asked("token", None, s) /\ Others(r) BY <1>3, GoesOn DEF BeginUse, Begin
    <2> QED BY <1>3, <2>1 DEF BeginUse, Begin, Bears
  <1> QED BY <1>1, <1>2, <1>3

LEMMA InsertStep ==
    ASSUME TypeOK, RequestsOK, NEW r \in Requests, Insert(r)
    PROVE  Inserted(r) \/ Stopped(r)
  <1>1. CASE users[Owner(request[r].holder)] = "gone" BY <1>1, StopsOn DEF Insert
  <1>2. CASE users[Owner(request[r].holder)] # "gone"
    <2>1. /\ request[r].step = "insert" /\ issued < MaxRows /\ issued' = issued + 1
          /\ tokens' = [tokens EXCEPT ![issued'] =
                  [holder |-> request[r].holder, secret |-> request[r].secret, expired |-> FALSE]]
          /\ agents' = [a \in Agents |-> IF a = request[r].holder THEN "enabled" ELSE agents[a]]
          /\ Passes(r, "answer") /\ UNCHANGED <<users, minted, handed>>
      BY <1>2 DEF Insert
    <2>2. issued' \in Rows BY <2>1, RowsAssumption DEF TypeOK, Rows
    <2>3. /\ Others(r) /\ request'[r] \in RequestState
          /\ request'[r].step = "answer" /\ request'[r].secret = request[r].secret
          /\ request'[r].holder = request[r].holder
      BY <2>1, PassesOn
    <2>4. DOMAIN tokens = Rows BY DEF TypeOK
    <2>5. /\ tokens'[issued'] = [holder |-> request[r].holder, secret |-> request[r].secret, expired |-> FALSE]
          /\ \A i \in Rows \ {issued'} : tokens'[i] = tokens[i]
      BY <2>1, <2>2, <2>4
    <2> QED BY <1>2, <2>1, <2>2, <2>3, <2>5 DEF Inserted, Continues, SameHolder
  <1> QED BY <1>1, <1>2

LEMMA RotationSteps ==
    ASSUME TypeOK, RequestsOK, NEW r \in Requests, Select(r) \/ Collapse(r) \/ Update(r)
    PROVE  Selected(r) \/ Collapsed(r) \/ Updated(r) \/ Stopped(r)
  <1> DEFINE q == request[r]
  <1>q. q \in RequestState BY DEF TypeOK
  <1>1. ASSUME Select(r) PROVE Selected(r) \/ Stopped(r)
    <2>1. ASSUME NEW i \in RowsOf(q.holder), \A j \in RowsOf(q.holder) : i <= j,
                 Goes(r, [q EXCEPT !.step = "collapse", !.row = i]), UNCHANGED <<tables, minted, handed>>
          PROVE  Selected(r)
      <3>1. request'[r] = [q EXCEPT !.step = "collapse", !.row = i] /\ Others(r) BY <2>1, GoesOn
      <3>2. /\ request'[r].step = "collapse" /\ request'[r].row = i
            /\ request'[r].holder = q.holder /\ request'[r].secret = q.secret
            /\ request'[r] \in RequestState
        BY <3>1, <1>q, <2>1 DEF RequestState, RowsOf, Existing
      <3> QED BY <1>1, <2>1, <3>1, <3>2 DEF Select, Selected, Continues, SameHolder, RowsOf
    <2> QED BY <1>1, <2>1, StopsOn DEF Select
  <1>2. ASSUME Collapse(r) PROVE Collapsed(r)
    <2>1. /\ Others(r) /\ request'[r] \in RequestState
          /\ request'[r].step = "update" /\ request'[r].secret = request[r].secret
          /\ request'[r].holder = request[r].holder /\ request'[r].row = request[r].row
      BY <1>2, PassesOn DEF Collapse
    <2>2. \A i \in Rows : tokens'[i] = IF i \in Existing /\ tokens[i].holder = q.holder /\ i # q.row
                                       THEN Absent ELSE tokens[i]
      BY <1>2 DEF Collapse, RowsOf
    <2> QED BY <1>2, <2>1, <2>2 DEF Collapse, Collapsed, Continues, SameHolder
  <1>3. ASSUME Update(r) PROVE Updated(r) \/ Stopped(r)
    <2>1. CASE q.row \in Existing
      <3>1. /\ tokens' = [tokens EXCEPT ![q.row].secret = q.secret]
            /\ Passes(r, "answer") /\ UNCHANGED <<users, agents, issued, minted, handed>>
        BY <1>3, <2>1 DEF Update
      <3>2. /\ Others(r) /\ request'[r] \in RequestState
            /\ request'[r].step = "answer" /\ request'[r].secret = request[r].secret
            /\ request'[r].holder = request[r].holder
        BY <3>1, PassesOn
      <3>3. /\ q.row \in Rows /\ tokens[q.row] \in Token
            /\ tokens[q.row] = [holder |-> tokens[q.row].holder, secret |-> tokens[q.row].secret,
                                expired |-> tokens[q.row].expired]
        BY <2>1, TokenTypes
      <3>4. DOMAIN tokens = Rows BY DEF TypeOK
      <3>5. /\ tokens'[q.row] = [tokens[q.row] EXCEPT !.secret = q.secret]
            /\ \A i \in Rows \ {q.row} : tokens'[i] = tokens[i]
        BY <3>1, <3>3, <3>4
      <3>6. tokens'[q.row] = [holder |-> tokens[q.row].holder, secret |-> q.secret, expired |-> tokens[q.row].expired]
        BY <3>3, <3>5
      <3> QED BY <1>3, <2>1, <3>1, <3>2, <3>5, <3>6 DEF Update, Updated, Continues, SameHolder
    <2>2. CASE q.row \notin Existing BY <1>3, <2>2, StopsOn DEF Update
    <2> QED BY <2>1, <2>2
  <1> QED BY <1>1, <1>2, <1>3

LEMMA AnswerStep ==
    ASSUME TypeOK, NEW r \in Requests, Answer(r)
    PROVE  Answered(r)
  <1>1. request'[r] = Idle /\ Others(r) BY GoesOn DEF Answer
  <1>2. \A s \in Secrets : handed'[s] = IF s = request[r].secret THEN request[r].holder ELSE handed[s]
    BY DEF Answer, TypeOK
  <1> QED BY <1>1, <1>2 DEF Answer, Answered

LEMMA BearerSteps ==
    ASSUME TypeOK, RequestsOK, NEW r \in Requests, FindToken(r) \/ ReadAgent(r) \/ ReadOwner(r)
    PROVE  FoundToken(r) \/ PassedAgent(r) \/ PassedOwner(r) \/ Stopped(r)
  <1> DEFINE q == request[r]
  <1>q. q \in RequestState BY DEF TypeOK
  <1>1. ASSUME FindToken(r) PROVE FoundToken(r) \/ Stopped(r)
    <2>1. ASSUME NEW i \in Existing, tokens[i].secret = q.secret, ~ tokens[i].expired,
                 Goes(r, [q EXCEPT !.step = IF tokens[i].holder \in Agents THEN "agent" ELSE "owner",
                                   !.holder = tokens[i].holder]),
                 UNCHANGED <<tables, minted, handed>>
          PROVE  FoundToken(r)
      <3>1. /\ request'[r] = [q EXCEPT !.step = IF tokens[i].holder \in Agents THEN "agent" ELSE "owner",
                                       !.holder = tokens[i].holder]
            /\ Others(r)
        BY <2>1, GoesOn
      <3>2. tokens[i].holder \in Holders BY TokenTypes
      <3>3. /\ request'[r].step = IF tokens[i].holder \in Agents THEN "agent" ELSE "owner"
            /\ request'[r].holder = tokens[i].holder /\ request'[r].secret = q.secret
            /\ request'[r] \in RequestState
        BY <3>1, <3>2, <1>q DEF RequestState
      <3> QED BY <1>1, <2>1, <3>1, <3>3 DEF FindToken, FoundToken, Continues
    <2> QED BY <1>1, <2>1, StopsOn DEF FindToken
  <1>2. ASSUME ReadAgent(r) PROVE PassedAgent(r) \/ Stopped(r)
    <2>1. CASE agents[q.holder] = "enabled"
      <3>1. /\ Others(r) /\ request'[r] \in RequestState
            /\ request'[r].step = "owner" /\ request'[r].secret = request[r].secret
            /\ request'[r].holder = request[r].holder
        BY <1>2, <2>1, PassesOn DEF ReadAgent
      <3> QED BY <1>2, <2>1, <3>1 DEF ReadAgent, PassedAgent, Continues, SameHolder
    <2> QED BY <1>2, <2>1, StopsOn DEF ReadAgent
  <1>3. ASSUME ReadOwner(r) PROVE PassedOwner(r) \/ Stopped(r)
    <2>1. CASE users[Owner(q.holder)] = "enabled"
      <3>1. /\ Others(r) /\ request'[r] \in RequestState
            /\ request'[r].step = "in" /\ request'[r].secret = request[r].secret
            /\ request'[r].holder = request[r].holder
        BY <1>3, <2>1, PassesOn DEF ReadOwner
      <3> QED BY <1>3, <2>1, <3>1 DEF ReadOwner, PassedOwner, Continues, SameHolder
    <2> QED BY <1>3, <2>1, StopsOn DEF ReadOwner
  <1> QED BY <1>1, <1>2, <1>3

LEMMA AroundStep ==
    ASSUME TypeOK, Around
    PROVE  Turns \/ Removes \/ \E u \in Users : Leaves(u)
  <1>1. ASSUME NEW a \in Agents, SetAgentDisabled(a) \/ ArchiveAgent(a) PROVE Turns
    BY <1>1 DEF SetAgentDisabled, ArchiveAgent, Turned, Turns, TypeOK, Alive
  <1>2. ASSUME NEW i \in Rows, DeleteApiToken(i) PROVE Removes
    BY <1>2 DEF DeleteApiToken, Removes, TypeOK
  <1>3. ASSUME NEW i \in Rows, Expire(i) PROVE Removes
    <2>1. i \in Existing /\ tokens' = [tokens EXCEPT ![i].expired = TRUE] BY <1>3 DEF Expire
    <2>2. /\ tokens[i] \in Token
          /\ tokens[i] = [holder |-> tokens[i].holder, secret |-> tokens[i].secret, expired |-> tokens[i].expired]
      BY <2>1, TokenTypes
    <2>3. tokens'[i] = [tokens[i] EXCEPT !.expired = TRUE] /\ \A j \in Rows \ {i} : tokens'[j] = tokens[j]
      BY <2>1 DEF TypeOK
    <2>4. tokens'[i] = [holder |-> tokens[i].holder, secret |-> tokens[i].secret, expired |-> TRUE]
      BY <2>2, <2>3
    <2> QED BY <1>3, <2>1, <2>3, <2>4 DEF Expire, Removes
  <1>4. ASSUME NEW u \in Users, SetUserDisabled(u) PROVE Turns
    BY <1>4 DEF SetUserDisabled, Turned, Turns, TypeOK
  <1>5. ASSUME NEW u \in Users, DeleteUser(u) PROVE Leaves(u)
    BY <1>5 DEF DeleteUser, Leaves, TypeOK
  <1> QED BY <1>1, <1>2, <1>3, <1>4, <1>5 DEF Around

LEMMA Steps ==
    ASSUME TypeOK, RequestsOK, Next
    PROVE  Step
  <1>1. ASSUME NEW r \in Requests, Handle(r) PROVE RequestStep(r)
    BY <1>1, BeginsStep, InsertStep, RotationSteps, AnswerStep, BearerSteps, StopsOn DEF Handle, End, RequestStep
  <1> QED BY <1>1, AroundStep DEF Next, Step

(* The tables stay functions.                                              *)
LEMMA Shapes ==
    ASSUME TypeOK, Next
    PROVE  /\ users' = [u \in Users |-> users'[u]] /\ agents' = [a \in Agents |-> agents'[a]]
           /\ tokens' = [i \in Rows |-> tokens'[i]] /\ handed' = [s \in Secrets |-> handed'[s]]
           /\ request' = [r \in Requests |-> request'[r]]
  <1> DEFINE Shape == /\ users' = [u \in Users |-> users'[u]] /\ agents' = [a \in Agents |-> agents'[a]]
                      /\ tokens' = [i \in Rows |-> tokens'[i]] /\ handed' = [s \in Secrets |-> handed'[s]]
                      /\ request' = [r \in Requests |-> request'[r]]
  <1>0. /\ users = [u \in Users |-> users[u]] /\ agents = [a \in Agents |-> agents[a]]
        /\ tokens = [i \in Rows |-> tokens[i]] /\ handed = [s \in Secrets |-> handed[s]]
        /\ request = [r \in Requests |-> request[r]]
    BY DEF TypeOK
  <1>s. ASSUME NEW r \in Requests, Stops(r) PROVE Shape
    BY <1>s, <1>0 DEF Stops, Goes, tables
  <1>1. ASSUME NEW r \in Requests, NEW s \in Secrets,
               \/ \E h \in Holders : BeginIssue(r, h, s)
               \/ \E a \in Agents : BeginRotate(r, a, s)
               \/ BeginUse(r, s)
        PROVE  Shape
    BY <1>1, <1>0 DEF BeginIssue, BeginRotate, BeginUse, Begin, Goes, tables
  <1>2. ASSUME NEW r \in Requests, Insert(r) PROVE Shape
    BY <1>2, <1>0, <1>s DEF Insert, Passes, Goes
  <1>3. ASSUME NEW r \in Requests, Select(r) PROVE Shape
    BY <1>3, <1>0, <1>s DEF Select, Goes, tables
  <1>4. ASSUME NEW r \in Requests, Collapse(r) PROVE Shape
    BY <1>4, <1>0 DEF Collapse, Passes, Goes
  <1>5. ASSUME NEW r \in Requests, Update(r) PROVE Shape
    BY <1>5, <1>0, <1>s DEF Update, Passes, Goes
  <1>6. ASSUME NEW r \in Requests, Answer(r) PROVE Shape
    BY <1>6, <1>0 DEF Answer, Goes, tables
  <1>7. ASSUME NEW r \in Requests, FindToken(r) PROVE Shape
    BY <1>7, <1>0, <1>s DEF FindToken, Goes, tables
  <1>8. ASSUME NEW r \in Requests, ReadAgent(r) \/ ReadOwner(r) \/ End(r) PROVE Shape
    BY <1>8, <1>0, <1>s DEF ReadAgent, ReadOwner, End, Passes, Goes, tables
  <1>9. ASSUME NEW a \in Agents, SetAgentDisabled(a) \/ ArchiveAgent(a) PROVE Shape
    BY <1>9, <1>0 DEF SetAgentDisabled, ArchiveAgent
  <1>10. ASSUME NEW i \in Rows, DeleteApiToken(i) \/ Expire(i) PROVE Shape
    BY <1>10, <1>0 DEF DeleteApiToken, Expire
  <1>11. ASSUME NEW u \in Users, SetUserDisabled(u) \/ DeleteUser(u) PROVE Shape
    BY <1>11, <1>0 DEF SetUserDisabled, DeleteUser
  <1> QED BY <1>1, <1>2, <1>3, <1>4, <1>5, <1>6, <1>7, <1>8, <1>9, <1>10, <1>11 DEF Next, Around, Handle

(***************************************************************************)
(* What a step does to the rows.                                           *)
(***************************************************************************)

(* Rows go, or stay with their holder and their secret.                    *)
Shrinks ==
    /\ Existing' \subseteq Existing
    /\ \A i \in Existing' : /\ tokens'[i].holder = tokens[i].holder
                            /\ tokens'[i].secret = tokens[i].secret /\ tokens'[i] \in Token

LEMMA ShrinkingSteps ==
    ASSUME TypeOK,
           \/ UNCHANGED tokens
           \/ Removes
           \/ \E r \in Requests : Collapsed(r)
           \/ \E u \in Users : Leaves(u)
    PROVE  Shrinks
  <1>1. CASE UNCHANGED tokens
    <2>1. Existing' = Existing BY <1>1 DEF Existing
    <2> QED BY <1>1, <2>1, TokenTypes DEF Shrinks
  <1>2. CASE Removes
    <2>1. ASSUME NEW i \in Rows, tokens'[i] # Absent
          PROVE  /\ tokens[i] # Absent /\ tokens'[i].holder = tokens[i].holder
                 /\ tokens'[i].secret = tokens[i].secret /\ tokens'[i] \in Token
      <3>1. CASE tokens'[i] = tokens[i] BY <2>1, <3>1 DEF TypeOK
      <3>2. CASE tokens'[i] # tokens[i]
        <4>1. i \in Existing /\ tokens'[i] = [holder |-> tokens[i].holder, secret |-> tokens[i].secret,
                                              expired |-> TRUE]
          BY <1>2, <2>1, <3>2 DEF Removes
        <4>2. tokens[i].holder \in Holders /\ tokens[i].secret \in Secrets BY <4>1, TokenTypes
        <4>3. tokens'[i] \in Token BY <4>1, <4>2 DEF Token
        <4> QED BY <4>1, <4>3 DEF Existing
      <3> QED BY <3>1, <3>2
    <2> QED BY <2>1 DEF Shrinks, Existing
  <1>3. ASSUME (\E r \in Requests : Collapsed(r)) \/ (\E u \in Users : Leaves(u)) PROVE Shrinks
    <2>1. \A i \in Rows : tokens'[i] = Absent \/ tokens'[i] = tokens[i]
      BY <1>3 DEF Collapsed, Leaves
    <2>2. \A i \in Existing' : i \in Existing /\ tokens'[i] = tokens[i]
      BY <2>1 DEF Existing
    <2> QED BY <2>2, TokenTypes DEF Shrinks
  <1> QED BY <1>1, <1>2, <1>3

LEMMA GrowingStep ==
    ASSUME TypeOK, RequestsOK, SecretsOK, NEW r \in Requests, Inserted(r)
    PROVE  /\ issued' \notin Existing /\ Existing' = Existing \cup {issued'}
           /\ \A i \in Existing : tokens'[i] = tokens[i]
           /\ tokens'[issued'] \in Token /\ issued' \in Rows
           /\ tokens'[issued'].holder = request[r].holder /\ tokens'[issued'].secret = request[r].secret
  <1>1. \A i \in Existing : i <= issued /\ i \in Nat BY DEF SecretsOK, Existing, Rows
  <1>2. issued \in Nat BY RowsAssumption DEF TypeOK
  <1>3. issued' \notin Existing BY <1>1, <1>2 DEF Inserted
  <1>4. request[r].holder \in Holders /\ request[r].secret \in Secrets
    BY DEF RequestsOK, RequestOK, Inserted, Continues, Issues, Pending
  <1>5. /\ tokens'[issued'] \in Token
        /\ tokens'[issued'].holder = request[r].holder /\ tokens'[issued'].secret = request[r].secret
    BY <1>4 DEF Inserted, Token
  <1>6. tokens'[issued'] # Absent BY <1>5, NotTokens
  <1>7. \A i \in Rows : i # issued' => tokens'[i] = tokens[i] BY DEF Inserted
  <1>8. Existing' = Existing \cup {issued'}
    BY <1>3, <1>6, <1>7 DEF Existing, Inserted
  <1> QED BY <1>3, <1>5, <1>7, <1>8 DEF Inserted, Existing

LEMMA RewritingStep ==
    ASSUME TypeOK, RequestsOK, NEW r \in Requests, Updated(r)
    PROVE  /\ Existing' = Existing /\ request[r].row \in Existing
           /\ \A i \in Existing : tokens'[i] \in Token /\ tokens'[i].holder = tokens[i].holder
           /\ \A i \in Existing \ {request[r].row} : tokens'[i] = tokens[i]
           /\ tokens'[request[r].row].secret = request[r].secret
  <1> DEFINE i == request[r].row
  <1>1. i \in Existing BY DEF Updated
  <1>2. request[r].secret \in Secrets
    BY DEF RequestsOK, RequestOK, Updated, Continues, Issues, Pending
  <1>3. tokens'[i] \in Token /\ tokens'[i].holder = tokens[i].holder /\ tokens'[i].secret = request[r].secret
    <2>1. tokens[i].holder \in Holders /\ tokens[i].expired \in BOOLEAN BY <1>1, TokenTypes
    <2> DEFINE new == [holder |-> tokens[i].holder, secret |-> request[r].secret, expired |-> tokens[i].expired]
    <2>2. new \in Token /\ new.holder = tokens[i].holder /\ new.secret = request[r].secret
      BY <1>2, <2>1 DEF Token
    <2> QED BY <2>2 DEF Updated
  <1>4. \A j \in Rows : j # i => tokens'[j] = tokens[j] BY DEF Updated
  <1>5. tokens'[i] # Absent BY <1>3, NotTokens
  <1>6. Existing' = Existing BY <1>1, <1>4, <1>5 DEF Existing
  <1> QED BY <1>1, <1>3, <1>4, <1>6, TokenTypes DEF Existing

LEMMA RowSteps ==
    ASSUME TypeOK, RequestsOK, Step
    PROVE  Shrinks \/ \E r \in Requests : Inserted(r) \/ Updated(r)
  <1>1. ASSUME NEW r \in Requests, RequestStep(r)
        PROVE  UNCHANGED tokens \/ Inserted(r) \/ Updated(r) \/ Collapsed(r)
    BY <1>1 DEF RequestStep, tables, Fresh, Bears, Stopped, Selected, Answered, FoundToken, PassedAgent, PassedOwner
  <1>2. Turns => UNCHANGED tokens BY DEF Turns
  <1> QED BY <1>1, <1>2, ShrinkingSteps DEF Step

(***************************************************************************)
(* Types.                                                                  *)
(***************************************************************************)
LEMMA AccountsStep ==
    ASSUME TypeOK, RequestsOK, Step,
           users' = [u \in Users |-> users'[u]], agents' = [a \in Agents |-> agents'[a]]
    PROVE  /\ users' \in [Users -> {"enabled", "disabled", "gone"}]
           /\ agents' \in [Agents -> {"unborn", "enabled", "disabled", "archived", "gone"}]
           /\ \A u \in Users : users'[u] = "gone" <=> users[u] = "gone" \/ Leaves(u)
  <1>t. /\ \A u \in Users : users[u] \in {"enabled", "disabled", "gone"}
        /\ \A a \in Agents : agents[a] \in {"unborn", "enabled", "disabled", "archived", "gone"}
    BY DEF TypeOK
  <1> DEFINE Good == /\ \A u \in Users : users'[u] \in {"enabled", "disabled", "gone"}
                     /\ \A a \in Agents : agents'[a] \in {"unborn", "enabled", "disabled", "archived", "gone"}
                     /\ \A u \in Users : users'[u] = "gone" <=> users[u] = "gone" \/ Leaves(u)
  <1>l. ASSUME UNCHANGED users PROVE \A u \in Users : ~ Leaves(u)
    BY <1>l DEF Leaves
  <1>1. ASSUME UNCHANGED <<users, agents>> PROVE Good
    BY <1>1, <1>t, <1>l
  <1>2. ASSUME NEW r \in Requests, Inserted(r) PROVE Good
    BY <1>2, <1>t, <1>l DEF Inserted
  <1>3. ASSUME Turns PROVE Good
    <2>1. \A u \in Users : ~ Leaves(u) BY <1>3 DEF Turns, Leaves
    <2> QED BY <1>3, <1>t, <2>1 DEF Turns, Alive
  <1>4. ASSUME NEW u \in Users, Leaves(u) PROVE Good
    <2>1. \A v \in Users : Leaves(v) <=> v = u BY <1>4, <1>t DEF Leaves
    <2>2. \A v \in Users : users'[v] = IF v = u THEN "gone" ELSE users[v] BY <1>4 DEF Leaves
    <2>3. \A a \in Agents : agents'[a] \in {agents[a], "gone"} BY <1>4 DEF Leaves
    <2> QED BY <1>t, <2>1, <2>2, <2>3
  <1>5. ASSUME NEW r \in Requests, RequestStep(r) PROVE Inserted(r) \/ UNCHANGED <<users, agents>>
    BY <1>5 DEF RequestStep, tables, Fresh, Bears, Stopped, Selected, Collapsed, Updated, Answered, FoundToken,
       PassedAgent, PassedOwner
  <1>6. Removes => UNCHANGED <<users, agents>> BY DEF Removes
  <1>7. Good BY <1>1, <1>2, <1>3, <1>4, <1>5, <1>6 DEF Step
  <1> QED BY <1>7

LEMMA RowsTypes ==
    ASSUME TypeOK, RequestsOK, SecretsOK, Step, tokens' = [i \in Rows |-> tokens'[i]]
    PROVE  /\ tokens' \in [Rows -> Token \cup {Absent}]
           /\ issued' \in 0 .. MaxRows
  <1>1. \A i \in Existing' : tokens'[i] \in Token
    <2>1. CASE Shrinks BY <2>1 DEF Shrinks
    <2>2. ASSUME NEW r \in Requests, Inserted(r) PROVE \A i \in Existing' : tokens'[i] \in Token
      <3>1. \A i \in Existing : tokens[i] \in Token BY TokenTypes
      <3> QED BY <2>2, <3>1, GrowingStep
    <2>3. ASSUME NEW r \in Requests, Updated(r) PROVE \A i \in Existing' : tokens'[i] \in Token
      BY <2>3, RewritingStep
    <2> QED BY <2>1, <2>2, <2>3, RowSteps
  <1>2. \A i \in Rows : tokens'[i] \in Token \cup {Absent} BY <1>1 DEF Existing
  <1>3. tokens' \in [Rows -> Token \cup {Absent}] BY <1>2
  <1>4. ASSUME NEW r \in Requests, RequestStep(r) PROVE Inserted(r) \/ UNCHANGED issued
    BY <1>4 DEF RequestStep, tables, Fresh, Bears, Stopped, Selected, Collapsed, Updated, Answered, FoundToken,
       PassedAgent, PassedOwner
  <1>5. issued' = issued \/ issued' \in Rows
    BY <1>4 DEF Step, Inserted, Turns, Removes, Leaves
  <1> QED BY <1>3, <1>5, RowsAssumption DEF TypeOK, Rows

LEMMA SecretsStayUnique ==
    ASSUME TypeOK, RequestsOK, SecretsOK, Step
    PROVE  (\A i, j \in Existing : tokens[i].secret = tokens[j].secret => i = j)'
  <1>1. CASE Shrinks BY <1>1 DEF Shrinks, TypeOK
  <1>2. ASSUME NEW r \in Requests, Inserted(r)
        PROVE  \A i, j \in Existing' : tokens'[i].secret = tokens'[j].secret => i = j
    <2>1. \A i \in Existing : tokens[i].secret # request[r].secret
      BY <1>2 DEF SecretsOK, Inserted, Continues, Pending, Issues
    <2>2. \A i, j \in Existing : tokens[i].secret = tokens[j].secret => i = j BY DEF TypeOK
    <2> QED BY <1>2, <2>1, <2>2, GrowingStep
  <1>3. ASSUME NEW r \in Requests, Updated(r)
        PROVE  \A i, j \in Existing' : tokens'[i].secret = tokens'[j].secret => i = j
    <2>1. \A i \in Existing : tokens[i].secret # request[r].secret
      BY <1>3 DEF SecretsOK, Updated, Continues, Pending, Issues
    <2>2. \A i, j \in Existing : tokens[i].secret = tokens[j].secret => i = j BY DEF TypeOK
    <2> QED BY <1>3, <2>1, <2>2, RewritingStep
  <1> QED BY <1>1, <1>2, <1>3, RowSteps

LEMMA AccountsStayOfTokens ==
    ASSUME TypeOK, RequestsOK, SecretsOK, Step,
           users' = [u \in Users |-> users'[u]], agents' = [a \in Agents |-> agents'[a]]
    PROVE  (\A i \in Existing : users[Owner(tokens[i].holder)] # "gone")'
  <1>f. \A i \in Existing : /\ users[Owner(tokens[i].holder)] # "gone"
                            /\ Owner(tokens[i].holder) \in Users
    BY TokenTypes, HolderTypes DEF TypeOK
  <1>1. ASSUME Shrinks, NEW i \in Existing' PROVE users'[Owner(tokens'[i].holder)] # "gone"
    <2>1. i \in Existing /\ tokens'[i].holder = tokens[i].holder BY <1>1 DEF Shrinks
    <2> DEFINE u == Owner(tokens[i].holder)
    <2>2. ASSUME Leaves(u) PROVE FALSE
      BY <1>1, <2>1, <2>2 DEF Leaves, Existing
    <2> QED BY <1>f, <2>1, <2>2, AccountsStep
  <1>2. ASSUME NEW r \in Requests, Inserted(r), NEW i \in Existing'
        PROVE  users'[Owner(tokens'[i].holder)] # "gone"
    BY <1>2, <1>f, GrowingStep DEF Inserted
  <1>3. ASSUME NEW r \in Requests, Updated(r), NEW i \in Existing'
        PROVE  users'[Owner(tokens'[i].holder)] # "gone"
    BY <1>3, <1>f, RewritingStep DEF Updated
  <1>4. \A i \in Existing' : users'[Owner(tokens'[i].holder)] # "gone"
    BY <1>1, <1>2, <1>3, RowSteps
  <1> QED BY <1>4 DEF Owner

(***************************************************************************)
(* Requests.                                                               *)
(***************************************************************************)

(* Who was told a secret is never forgotten, and rows are never renumbered.*)
Keeps ==
    /\ \A s \in Secrets : handed[s] # None => handed'[s] = handed[s]
    /\ \A s \in Secrets : handed'[s] \in Holders \cup {None}
    /\ issued' \in Nat /\ issued <= issued' /\ minted \subseteq minted' /\ minted' \subseteq Secrets

LEMMA AlwaysKeeps ==
    ASSUME TypeOK, RequestsOK, SecretsOK, Step
    PROVE  Keeps
  <1>t. /\ \A s \in Secrets : handed[s] \in Holders \cup {None}
        /\ issued \in Nat /\ minted \subseteq Secrets
    BY RowsAssumption DEF TypeOK
  <1>1. ASSUME UNCHANGED <<issued, minted, handed>> PROVE Keeps
    BY <1>1, <1>t DEF Keeps
  <1>2. ASSUME NEW r \in Requests, Fresh(r) PROVE Keeps
    BY <1>2, <1>t DEF Keeps, Fresh, tables
  <1>3. ASSUME NEW r \in Requests, Inserted(r) PROVE Keeps
    BY <1>3, <1>t DEF Keeps, Inserted
  <1>4. ASSUME NEW r \in Requests, Answered(r) PROVE Keeps
    <2>1. request[r].secret \in Secrets /\ request[r].holder \in Holders /\ handed[request[r].secret] = None
      BY <1>4 DEF Answered, RequestsOK, RequestOK, SecretsOK, Issues
    <2> QED BY <1>4, <1>t, <2>1 DEF Answered, Keeps, tables
  <1>5. ASSUME NEW r \in Requests, RequestStep(r)
        PROVE  Fresh(r) \/ Inserted(r) \/ Answered(r) \/ UNCHANGED <<issued, minted, handed>>
    BY <1>5 DEF RequestStep, tables, Bears, Stopped, Selected, Collapsed, Updated, FoundToken, PassedAgent, PassedOwner
  <1> QED BY <1>1, <1>2, <1>3, <1>4, <1>5 DEF Step, Turns, Removes, Leaves

LEMMA StepIsOfOne ==
    ASSUME TypeOK, Step, NEW k \in Requests
    PROVE  request'[k] = request[k] \/ RequestStep(k)
  <1>1. ASSUME NEW r \in Requests, RequestStep(r), k # r PROVE request'[k] = request[k]
    BY <1>1 DEF RequestStep, Fresh, Bears, Stopped, Inserted, Selected, Collapsed, Updated, Answered, FoundToken,
       PassedAgent, PassedOwner, Continues, Others
  <1> QED BY <1>1 DEF Step, Turns, Removes, Leaves

LEMMA SameRequestOK ==
    ASSUME TypeOK, RequestsOK, Keeps, NEW k \in Requests, request'[k] = request[k]
    PROVE  RequestOK(request[k])' /\ request'[k] \in RequestState
  <1>1. RequestOK(request[k]) BY DEF RequestsOK
  <1>2. request[k] \in RequestState BY DEF TypeOK
  <1>3. issued \in Nat BY RowsAssumption DEF TypeOK
  <1>4. 1 .. issued \subseteq 1 .. issued' BY <1>3 DEF Keeps
  <1>5. \A s \in Secrets : handed[s] # None => handed'[s] = handed[s] BY DEF Keeps
  <1> QED BY <1>1, <1>2, <1>4, <1>5, HolderTypes DEF RequestOK, Admits, Issues, Pending, Rotates

LEMMA ChangedRequestOK ==
    ASSUME TypeOK, RequestsOK, SecretsOK, Keeps, NEW r \in Requests, RequestStep(r)
    PROVE  RequestOK(request[r])' /\ request'[r] \in RequestState
  <1> DEFINE q == request[r]
  <1> DEFINE new == request'[r]
  <1>q. RequestOK(q) /\ q \in RequestState BY DEF RequestsOK, TypeOK
  <1>k. \A s \in Secrets : handed[s] # None => handed'[s] = handed[s] BY DEF Keeps
  <1>1. ASSUME new = Idle PROVE RequestOK(request[r])' /\ new \in RequestState
    BY <1>1 DEF Idle, Asked, RequestState, RequestOK, Issues, Pending, Rotates, Admits
  <1>2. ASSUME Fresh(r) PROVE RequestOK(request[r])' /\ new \in RequestState
    <2>1. PICK s \in Secrets, h \in Holders, step \in {"insert", "select"} :
             new = Asked(step, h, s) /\ (step = "select" => h \in Agents)
      BY <1>2 DEF Fresh
    <2>2. new \in RequestState /\ new.step = step /\ new.holder = h /\ new.secret = s
      BY <2>1, AskedOK
    <2> QED BY <2>1, <2>2 DEF RequestOK, Issues, Pending, Rotates, Admits
  <1>3. ASSUME Bears(r) PROVE RequestOK(request[r])' /\ new \in RequestState
    <2>1. PICK s \in Secrets : new = Asked("token", None, s) /\ handed[s] # None
      BY <1>3 DEF Bears
    <2>2. new \in RequestState /\ new.step = "token" /\ new.holder = None /\ new.secret = s
      BY <2>1, AskedOK
    <2> QED BY <1>k, <2>1, <2>2 DEF RequestOK, Issues, Pending, Rotates, Admits
  <1>4. ASSUME Inserted(r) \/ Updated(r) PROVE RequestOK(request[r])' /\ new \in RequestState
    <2>1. /\ new \in RequestState /\ new.step = "answer" /\ new.secret = q.secret /\ new.holder = q.holder
          /\ q.step \in {"insert", "update"}
      BY <1>4 DEF Inserted, Updated, Continues, SameHolder
    <2> QED BY <1>q, <2>1 DEF RequestOK, Issues, Pending, Rotates, Admits
  <1>5. ASSUME Selected(r) PROVE RequestOK(request[r])' /\ new \in RequestState
    <2>1. /\ new \in RequestState /\ new.step = "collapse" /\ new.secret = q.secret /\ new.holder = q.holder
          /\ q.step = "select" /\ new.row \in Existing /\ issued' = issued
      BY <1>5 DEF Selected, Continues, SameHolder, tables
    <2>2. new.row \in 1 .. issued
      BY <2>1, RowsAssumption DEF SecretsOK, TypeOK, Existing, Rows
    <2> QED BY <1>q, <2>1, <2>2 DEF RequestOK, Issues, Pending, Rotates, Admits
  <1>6. ASSUME Collapsed(r) PROVE RequestOK(request[r])' /\ new \in RequestState
    <2>1. /\ new \in RequestState /\ new.step = "update" /\ new.secret = q.secret /\ new.holder = q.holder
          /\ q.step = "collapse" /\ new.row = q.row /\ issued' = issued
      BY <1>6 DEF Collapsed, Continues, SameHolder
    <2> QED BY <1>q, <2>1 DEF RequestOK, Issues, Pending, Rotates, Admits
  <1>7. ASSUME FoundToken(r) PROVE RequestOK(request[r])' /\ new \in RequestState
    <2>1. PICK i \in Existing : tokens[i].secret = q.secret /\ tokens[i].holder = new.holder
      BY <1>7 DEF FoundToken
    <2>2. /\ new \in RequestState /\ new.secret = q.secret /\ q.step = "token"
          /\ new.step = IF new.holder \in Agents THEN "agent" ELSE "owner"
      BY <1>7 DEF FoundToken, Continues
    <2>3. q.secret \in Secrets /\ handed[q.secret] # None BY <1>q, <2>2 DEF RequestOK
    <2>4. new.holder \in Holders BY <2>1, TokenTypes
    <2>5. handed'[q.secret] = new.holder
      BY <1>k, <2>1, <2>3 DEF SecretsOK
    <2> QED BY <2>2, <2>3, <2>4, <2>5 DEF RequestOK, Issues, Pending, Rotates, Admits
  <1>8. ASSUME PassedAgent(r) \/ PassedOwner(r) PROVE RequestOK(request[r])' /\ new \in RequestState
    <2>1. /\ new \in RequestState /\ new.step \in {"owner", "in"} /\ new.secret = q.secret /\ new.holder = q.holder
          /\ q.step \in {"agent", "owner"}
      BY <1>8 DEF PassedAgent, PassedOwner, Continues, SameHolder
    <2>2. q.secret \in Secrets /\ q.holder \in Holders /\ handed[q.secret] = q.holder
      BY <1>q, <2>1 DEF RequestOK, Admits
    <2> QED BY <1>k, <2>1, <2>2, HolderTypes DEF RequestOK, Issues, Pending, Rotates, Admits
  <1>9. Stopped(r) \/ Answered(r) => new = Idle BY DEF Stopped, Answered
  <1> QED BY <1>1, <1>2, <1>3, <1>4, <1>5, <1>6, <1>7, <1>8, <1>9 DEF RequestStep

LEMMA RequestsStep ==
    ASSUME TypeOK, RequestsOK, SecretsOK, Step, request' = [r \in Requests |-> request'[r]]
    PROVE  RequestsOK' /\ request' \in [Requests -> RequestState]
  <1>1. \A k \in Requests : RequestOK(request[k])' /\ request'[k] \in RequestState
    BY AlwaysKeeps, StepIsOfOne, SameRequestOK, ChangedRequestOK
  <1> QED BY <1>1 DEF RequestsOK

(* How a secret comes to be revoked.                                       *)
LEMMA Revoking ==
    ASSUME Observe, NEW s \in revoked'
    PROVE  \/ s \in revoked
           \/ \E r \in Requests : Told(r) /\ s \in knew[r]
           \/ \E i \in Existing : tokens'[i] = Absent /\ tokens[i].secret = s
           \/ s \in Secrets /\ handed'[s] \in Agents /\ agents'[handed'[s]] = "archived"
  <1> DEFINE Known == UNION {knew[r] : r \in {k \in Requests : Told(k)}}
             Deleted == {tokens[i].secret : i \in {j \in Existing : tokens'[j] = Absent}}
             Archived == {t \in Secrets : handed'[t] \in Agents /\ agents'[handed'[t]] = "archived"}
  <1>1. revoked' = revoked \cup Known \cup Deleted \cup Archived BY DEF Observe
  <1>2. s \in Known => \E r \in Requests : Told(r) /\ s \in knew[r] OBVIOUS
  <1>3. s \in Deleted => \E i \in Existing : tokens'[i] = Absent /\ tokens[i].secret = s OBVIOUS
  <1>4. s \in Archived => s \in Secrets /\ handed'[s] \in Agents /\ agents'[handed'[s]] = "archived" OBVIOUS
  <1> HIDE DEF Known, Deleted, Archived
  <1> QED BY <1>1, <1>2, <1>3, <1>4

(* With what Observe computes.                                             *)
LEMMA HistoryTypes ==
    ASSUME TypeOK, Observe, request' \in [Requests -> RequestState], handed' \in [Secrets -> Holders \cup {None}]
    PROVE  /\ knew' \in [Requests -> SUBSET Secrets]
           /\ wasLive' \cup eased' \subseteq Requests
           /\ revoked' \subseteq Secrets
           /\ current' \in [Agents -> Secrets \cup {None}]
           /\ muddled' \subseteq Agents
  <1>1. knew' \in [Requests -> SUBSET Secrets]
    <2>1. \A r \in Requests : knew[r] \subseteq Secrets BY DEF TypeOK
    <2> QED BY <2>1 DEF Observe
  <1>2. wasLive' \cup eased' \subseteq Requests BY DEF Observe
  <1>3. revoked' \subseteq Secrets
    <2>1. \A i \in Existing : tokens[i].secret \in Secrets BY TokenTypes
    <2>2. \A r \in Requests : knew[r] \subseteq Secrets BY DEF TypeOK
    <2>3. revoked \subseteq Secrets BY DEF TypeOK
    <2> QED BY <2>1, <2>2, <2>3, Revoking
  <1>4. current' \in [Agents -> Secrets \cup {None}]
    <2>1. ASSUME NEW a \in Agents PROVE current'[a] \in Secrets \cup {None}
      <3>1. CASE \E r \in Requests : Told(r) /\ request[r].holder = a
        <4>1. (CHOOSE r \in Requests : Told(r) /\ request[r].holder = a) \in Requests BY <3>1
        <4>2. current'[a] = request[CHOOSE r \in Requests : Told(r) /\ request[r].holder = a].secret
          BY <3>1 DEF Observe
        <4>3. \A r \in Requests : request[r].secret \in Secrets \cup {None} BY DEF TypeOK, RequestState
        <4> QED BY <4>1, <4>2, <4>3
      <3>2. CASE ~ \E r \in Requests : Told(r) /\ request[r].holder = a
        <4>1. current[a] \in Secrets \cup {None} BY DEF TypeOK
        <4>2. current'[a] = current[a] BY <3>2 DEF Observe
        <4> QED BY <4>1, <4>2
      <3> QED BY <3>1, <3>2
    <2>2. current' = [a \in Agents |-> current'[a]] BY DEF Observe
    <2> QED BY <2>1, <2>2
  <1>5. muddled' \subseteq Agents BY DEF Observe
  <1> QED BY <1>1, <1>2, <1>3, <1>4, <1>5

LEMMA TypeStep ==
    ASSUME TypeOK, RequestsOK, SecretsOK, Next
    PROVE  TypeOK' /\ RequestsOK'
  <1>1. Step /\ Keeps BY Steps, AlwaysKeeps
  <1>2. handed' \in [Secrets -> Holders \cup {None}] /\ minted' \subseteq Secrets
    <2>1. \A s \in Secrets : handed'[s] \in Holders \cup {None} BY <1>1 DEF Keeps
    <2> QED BY <1>1, <2>1, Shapes DEF Keeps
  <1>3. RequestsOK' /\ request' \in [Requests -> RequestState] BY <1>1, Shapes, RequestsStep
  <1>4. Observe BY DEF Next
  <1>5. /\ users' \in [Users -> {"enabled", "disabled", "gone"}]
        /\ agents' \in [Agents -> {"unborn", "enabled", "disabled", "archived", "gone"}]
    BY <1>1, Shapes, AccountsStep
  <1>6. tokens' \in [Rows -> Token \cup {Absent}] /\ issued' \in 0 .. MaxRows BY <1>1, Shapes, RowsTypes
  <1>7. (\A i, j \in Existing : tokens[i].secret = tokens[j].secret => i = j)' BY <1>1, SecretsStayUnique
  <1>8. (\A i \in Existing : users[Owner(tokens[i].holder)] # "gone")' BY <1>1, Shapes, AccountsStayOfTokens
  <1>9. /\ knew' \in [Requests -> SUBSET Secrets] /\ wasLive' \cup eased' \subseteq Requests
        /\ revoked' \subseteq Secrets /\ current' \in [Agents -> Secrets \cup {None}] /\ muddled' \subseteq Agents
    BY <1>2, <1>3, <1>4, HistoryTypes
  <1> QED BY <1>2, <1>3, <1>5, <1>6, <1>7, <1>8, <1>9 DEF TypeOK

(***************************************************************************)
(* Secrets.                                                                *)
(***************************************************************************)

(* A request that issues a secret did so before, or has just begun.        *)
LEMMA IssuesBefore ==
    ASSUME TypeOK, RequestsOK, Step, NEW k \in Requests, Issues(request'[k])
    PROVE  \/ Fresh(k)
           \/ /\ Issues(request[k]) /\ request'[k].secret = request[k].secret
              /\ request'[k].holder = request[k].holder
              /\ Pending(request'[k]) => Pending(request[k])
  <1>1. CASE request'[k] = request[k] BY <1>1
  <1>2. CASE request'[k] = Idle BY <1>2 DEF Idle, Asked, Issues, Pending
  <1>3. CASE Bears(k) BY <1>3 DEF Bears, Asked, Issues, Pending
  <1>4. CASE Inserted(k) \/ Updated(k)
    BY <1>4 DEF Inserted, Updated, Continues, SameHolder, Issues, Pending
  <1>5. CASE Selected(k) \/ Collapsed(k)
    BY <1>5 DEF Selected, Collapsed, Continues, SameHolder, Issues, Pending
  <1>6. CASE FoundToken(k) \/ PassedAgent(k) \/ PassedOwner(k)
    BY <1>6 DEF FoundToken, PassedAgent, PassedOwner, Continues, Issues, Pending
  <1>7. Stopped(k) \/ Answered(k) => request'[k] = Idle BY DEF Stopped, Answered
  <1> QED BY <1>1, <1>2, <1>3, <1>4, <1>5, <1>6, <1>7, StepIsOfOne DEF RequestStep

LEMMA FreshSecret ==
    ASSUME TypeOK, SecretsOK, NEW k \in Requests, Fresh(k)
    PROVE  /\ request'[k].secret \in Secrets \ minted
           /\ request'[k].secret \in minted' /\ minted \subseteq minted'
           /\ handed' = handed /\ handed[request'[k].secret] = None
           /\ tokens' = tokens /\ Existing' = Existing
           /\ \A i \in Existing : tokens[i].secret # request'[k].secret
           /\ \A r \in Requests : Issues(request[r]) => request[r].secret # request'[k].secret
           /\ \A r \in Requests \ {k} : request'[r] = request[r]
           /\ request[k] = Idle
  <1>1. PICK s \in Secrets, h \in Holders, step \in {"insert", "select"} :
           request'[k] = Asked(step, h, s) /\ s \notin minted /\ minted' = minted \cup {s}
    BY DEF Fresh
  <1>2. request'[k].secret = s BY <1>1, AskedOK
  <1>3. handed' = handed /\ tokens' = tokens BY DEF Fresh, tables
  <1>4. Existing' = Existing BY <1>3 DEF Existing
  <1>5. /\ handed[s] = None /\ \A i \in Existing : tokens[i].secret # s
        /\ \A r \in Requests : Issues(request[r]) => request[r].secret # s
    BY <1>1 DEF SecretsOK
  <1> QED BY <1>1, <1>2, <1>3, <1>4, <1>5 DEF Fresh, Others

(* Where a row and its secret come from.                                   *)
LEMMA RowsBefore ==
    ASSUME TypeOK, RequestsOK, SecretsOK, RowsOfRequests, Step, NEW i \in Existing'
    PROVE  \/ /\ i \in Existing /\ tokens'[i].holder = tokens[i].holder
              /\ tokens'[i].secret = tokens[i].secret
           \/ \E r \in Requests : /\ Inserted(r) \/ Updated(r)
                                  /\ tokens'[i].holder = request[r].holder
                                  /\ tokens'[i].secret = request[r].secret
                                  /\ i \in 1 .. issued'
  <1>1. CASE Shrinks BY <1>1 DEF Shrinks
  <1>2. ASSUME NEW r \in Requests, Inserted(r), i # issued'
        PROVE  i \in Existing /\ tokens'[i] = tokens[i]
    BY <1>2, GrowingStep
  <1>3. ASSUME NEW r \in Requests, Inserted(r), i = issued'
        PROVE  tokens'[i].holder = request[r].holder /\ tokens'[i].secret = request[r].secret /\ i \in 1 .. issued'
    BY <1>3, GrowingStep, RowsAssumption DEF Rows
  <1>4. ASSUME NEW r \in Requests, Updated(r), i # request[r].row
        PROVE  i \in Existing /\ tokens'[i] = tokens[i]
    BY <1>4, RewritingStep
  <1>5. ASSUME NEW r \in Requests, Updated(r), i = request[r].row
        PROVE  tokens'[i].holder = request[r].holder /\ tokens'[i].secret = request[r].secret /\ i \in 1 .. issued'
    <2>1. request[r].step = "update" /\ issued' = issued BY <1>5 DEF Updated, Continues
    <2>2. i \in 1 .. issued /\ i \in Existing BY <1>5, <2>1, RewritingStep DEF RequestsOK, RequestOK
    <2>3. tokens[i].holder = request[r].holder BY <1>5, <2>1, <2>2 DEF RowsOfRequests
    <2> QED BY <1>5, <2>1, <2>2, <2>3, RewritingStep
  <1> QED BY <1>1, <1>2, <1>3, <1>4, <1>5, RowSteps

LEMMA HandedBefore ==
    ASSUME TypeOK, RequestsOK, Step, NEW s \in Secrets
    PROVE  \/ handed'[s] = handed[s]
           \/ \E r \in Requests : Answered(r) /\ request[r].secret = s /\ handed'[s] = request[r].holder
  <1>1. ASSUME NEW r \in Requests, RequestStep(r) PROVE Answered(r) \/ UNCHANGED handed
    BY <1>1 DEF RequestStep, tables, Fresh, Bears, Stopped, Inserted, Selected, Collapsed, Updated, FoundToken,
       PassedAgent, PassedOwner
  <1>2. ASSUME NEW r \in Requests, Answered(r)
        PROVE  handed'[s] = handed[s] \/ (request[r].secret = s /\ handed'[s] = request[r].holder)
    BY <1>2 DEF Answered
  <1> QED BY <1>1, <1>2 DEF Step, Turns, Removes, Leaves

LEMMA SecretsStep ==
    ASSUME TypeOK, RequestsOK, SecretsOK, RowsOfRequests, Step, Keeps, TypeOK', RequestsOK'
    PROVE  SecretsOK'
  <1>i. \A r \in Requests : Issues(request[r]) =>
           /\ request[r].secret \in Secrets /\ request[r].holder \in Holders
           /\ request[r].secret \in minted /\ handed[request[r].secret] = None
    BY DEF RequestsOK, RequestOK, SecretsOK
  <1>m. minted \subseteq minted' BY DEF Keeps
  <1>1. ASSUME NEW s \in Secrets, handed'[s] # None PROVE s \in minted'
    <2>1. CASE handed'[s] = handed[s] BY <1>1, <1>m, <2>1 DEF SecretsOK
    <2>2. ASSUME NEW r \in Requests, Answered(r), request[r].secret = s PROVE s \in minted
      BY <1>i, <2>2 DEF Answered, Issues
    <2> QED BY <1>m, <2>1, <2>2, HandedBefore
  <1>2. ASSUME NEW i \in Existing'
        PROVE  /\ i <= issued' /\ tokens'[i].secret \in minted'
               /\ handed'[tokens'[i].secret] \in {None, tokens'[i].holder}
    <2>1. ASSUME i \in Existing, tokens'[i].holder = tokens[i].holder, tokens'[i].secret = tokens[i].secret
          PROVE  /\ i <= issued' /\ tokens'[i].secret \in minted'
                 /\ handed'[tokens'[i].secret] \in {None, tokens'[i].holder}
      <3> DEFINE s == tokens[i].secret
      <3>1. i <= issued /\ s \in minted /\ handed[s] \in {None, tokens[i].holder} BY <2>1 DEF SecretsOK
      <3>2. i \in Nat /\ issued \in Nat /\ issued' \in Nat /\ issued <= issued' /\ s \in Secrets
        BY <2>1, RowsAssumption, TokenTypes DEF Existing, Rows, TypeOK, Keeps
      <3>3. ASSUME NEW r \in Requests, Answered(r), request[r].secret = s
            PROVE  tokens[i].holder = request[r].holder
        BY <2>1, <3>3 DEF Answered, Issues, SecretsOK
      <3>4. handed'[s] \in {None, tokens[i].holder} BY <3>1, <3>2, <3>3, HandedBefore
      <3> QED BY <1>m, <2>1, <3>1, <3>2, <3>4
    <2>2. ASSUME NEW r \in Requests, Inserted(r) \/ Updated(r), tokens'[i].secret = request[r].secret, i \in 1 .. issued'
          PROVE  /\ i <= issued' /\ tokens'[i].secret \in minted'
                 /\ handed'[tokens'[i].secret] \in {None, tokens'[i].holder}
      <3>1. Issues(request[r]) /\ handed' = handed
        BY <2>2 DEF Inserted, Updated, Continues, Issues, Pending
      <3> QED BY <1>i, <1>m, <2>2, <3>1 DEF Keeps
    <2> QED BY <2>1, <2>2, RowsBefore
  <1>3. ASSUME NEW k \in Requests, Issues(request'[k])
        PROVE  request'[k].secret \in minted' /\ handed'[request'[k].secret] = None
    <2>1. CASE Fresh(k) BY <2>1, FreshSecret
    <2>2. CASE Issues(request[k]) /\ request'[k].secret = request[k].secret
      <3>1. ASSUME NEW r \in Requests, Answered(r), request[r].secret = request[k].secret PROVE FALSE
        <4>1. r = k BY <2>2, <3>1 DEF SecretsOK, Answered, Issues
        <4>2. request'[k] = Idle BY <3>1, <4>1 DEF Answered
        <4> QED BY <1>3, <4>2 DEF Idle, Asked, Issues, Pending
      <3> QED BY <1>i, <1>m, <2>2, <3>1, HandedBefore
    <2> QED BY <1>3, <2>1, <2>2, IssuesBefore
  <1>4. ASSUME NEW r \in Requests, NEW k \in Requests, Issues(request'[r]), Issues(request'[k]),
               request'[r].secret = request'[k].secret
        PROVE  r = k
    <2>1. CASE Fresh(r)
      <3>1. r # k => request'[k] = request[k] BY <2>1, FreshSecret
      <3> QED BY <1>4, <2>1, <3>1, FreshSecret
    <2>2. CASE Fresh(k)
      <3>1. r # k => request'[r] = request[r] BY <2>2, FreshSecret
      <3> QED BY <1>4, <2>2, <3>1, FreshSecret
    <2>3. CASE ~ Fresh(r) /\ ~ Fresh(k)
      BY <1>4, <2>3, IssuesBefore DEF SecretsOK
    <2> QED BY <2>1, <2>2, <2>3
  <1>5. ASSUME NEW k \in Requests, NEW i \in Existing', Issues(request'[k]), tokens'[i].secret = request'[k].secret
        PROVE  ~ Pending(request'[k]) /\ tokens'[i].holder = request'[k].holder
    <2>1. CASE Fresh(k) BY <1>5, <2>1, FreshSecret
    <2>2. CASE /\ Issues(request[k]) /\ request'[k].secret = request[k].secret
               /\ request'[k].holder = request[k].holder
               /\ Pending(request'[k]) => Pending(request[k])
      <3>1. CASE /\ i \in Existing /\ tokens'[i].holder = tokens[i].holder
                 /\ tokens'[i].secret = tokens[i].secret
        BY <1>5, <2>2, <3>1 DEF SecretsOK
      <3>2. ASSUME NEW r \in Requests, Inserted(r) \/ Updated(r), tokens'[i].holder = request[r].holder,
                   tokens'[i].secret = request[r].secret
            PROVE  ~ Pending(request'[k]) /\ tokens'[i].holder = request'[k].holder
        <4>1. Issues(request[r]) /\ request'[r].step = "answer"
          BY <3>2 DEF Inserted, Updated, Continues, Issues, Pending
        <4>2. r = k BY <1>5, <2>2, <3>2, <4>1 DEF SecretsOK
        <4> QED BY <2>2, <3>2, <4>1, <4>2 DEF Pending
      <3> QED BY <3>1, <3>2, RowsBefore
    <2> QED BY <1>5, <2>1, <2>2, IssuesBefore
  <1> QED BY <1>1, <1>2, <1>3, <1>4, <1>5 DEF SecretsOK

(***************************************************************************)
(* Agents and the rows they hold.                                          *)
(***************************************************************************)
LEMMA HoldersBefore ==
    ASSUME TypeOK, RequestsOK, SecretsOK, Step, NEW i \in Existing'
    PROVE  \/ i \in Existing /\ tokens'[i].holder = tokens[i].holder
           \/ \E r \in Requests : Inserted(r) /\ i = issued' /\ tokens'[i].holder = request[r].holder
  <1>1. CASE Shrinks BY <1>1 DEF Shrinks
  <1>2. ASSUME NEW r \in Requests, Inserted(r)
        PROVE  \/ i \in Existing /\ tokens'[i].holder = tokens[i].holder
               \/ i = issued' /\ tokens'[i].holder = request[r].holder
    BY <1>2, GrowingStep
  <1>3. ASSUME NEW r \in Requests, Updated(r) PROVE i \in Existing /\ tokens'[i].holder = tokens[i].holder
    BY <1>3, RewritingStep
  <1> QED BY <1>1, <1>2, <1>3, RowSteps

LEMMA AgentsBefore ==
    ASSUME TypeOK, RequestsOK, Step, NEW a \in Agents
    PROVE  \/ agents'[a] = agents[a]
           \/ agents'[a] = "enabled" /\ \E r \in Requests : Inserted(r) /\ request[r].holder = a
           \/ agents[a] \in {"enabled", "disabled"} /\ agents'[a] \in Alive
           \/ agents[a] # "unborn" /\ agents'[a] = "gone" /\ Leaves(OwnerOf[a])
  <1>1. ASSUME NEW r \in Requests, RequestStep(r) PROVE Inserted(r) \/ UNCHANGED agents
    BY <1>1 DEF RequestStep, tables, Fresh, Bears, Stopped, Selected, Collapsed, Updated, Answered, FoundToken,
       PassedAgent, PassedOwner
  <1>2. ASSUME NEW r \in Requests, Inserted(r)
        PROVE  agents'[a] = agents[a] \/ (agents'[a] = "enabled" /\ request[r].holder = a)
    BY <1>2 DEF Inserted
  <1>3. ASSUME Turns PROVE agents'[a] = agents[a] \/ (agents[a] \in {"enabled", "disabled"} /\ agents'[a] \in Alive)
    BY <1>3 DEF Turns
  <1>4. Removes => agents'[a] = agents[a] BY DEF Removes
  <1>5. ASSUME NEW u \in Users, Leaves(u)
        PROVE  \/ agents'[a] = agents[a]
               \/ agents[a] # "unborn" /\ agents'[a] = "gone" /\ Leaves(OwnerOf[a])
    BY <1>5 DEF Leaves
  <1> QED BY <1>1, <1>2, <1>3, <1>4, <1>5 DEF Step

(* A row of an agent goes with the agent's account, or in a rotation.      *)
LEMMA AgentRowsStay ==
    ASSUME TypeOK, RequestsOK, SecretsOK, Step, NEW i \in Existing, tokens[i].holder \in Agents
    PROVE  \/ i \in Existing' /\ tokens'[i].holder = tokens[i].holder
           \/ Leaves(OwnerOf[tokens[i].holder])
           \/ \E r \in Requests : Collapsed(r) /\ request[r].holder = tokens[i].holder /\ request[r].row # i
  <1>i. i \in Rows /\ tokens[i] # Absent BY DEF Existing
  <1>1. ASSUME tokens'[i] = tokens[i] PROVE i \in Existing' /\ tokens'[i].holder = tokens[i].holder
    BY <1>1, <1>i DEF Existing
  <1>2. ASSUME NEW r \in Requests, Inserted(r) PROVE tokens'[i] = tokens[i]
    BY <1>2, GrowingStep
  <1>3. ASSUME NEW r \in Requests, Updated(r) PROVE i \in Existing' /\ tokens'[i].holder = tokens[i].holder
    BY <1>3, RewritingStep
  <1>4. ASSUME NEW r \in Requests, Collapsed(r)
        PROVE  tokens'[i] = tokens[i] \/ (request[r].holder = tokens[i].holder /\ request[r].row # i)
    BY <1>4, <1>i DEF Collapsed
  <1>5. ASSUME Removes PROVE i \in Existing' /\ tokens'[i].holder = tokens[i].holder
    <2>1. CASE tokens'[i] = tokens[i] BY <1>1, <2>1
    <2>2. CASE tokens'[i] # tokens[i]
      <3>1. tokens[i].holder \notin Users BY HolderTypes
      <3>2. tokens'[i] = [holder |-> tokens[i].holder, secret |-> tokens[i].secret, expired |-> TRUE]
        BY <1>5, <1>i, <2>2, <3>1 DEF Removes
      <3>3. tokens'[i].holder = tokens[i].holder BY <3>2
      <3>4. tokens'[i] # Absent BY <3>3, HolderTypes DEF Absent
      <3> QED BY <1>i, <3>3, <3>4 DEF Existing
    <2> QED BY <2>1, <2>2
  <1>6. ASSUME NEW u \in Users, Leaves(u) PROVE tokens'[i] = tokens[i] \/ u = OwnerOf[tokens[i].holder]
    BY <1>6, <1>i DEF Leaves, Owner
  <1>7. ASSUME NEW r \in Requests, RequestStep(r)
        PROVE  Inserted(r) \/ Updated(r) \/ Collapsed(r) \/ tokens' = tokens
    BY <1>7 DEF RequestStep, tables, Fresh, Bears, Stopped, Selected, Answered, FoundToken, PassedAgent, PassedOwner
  <1>8. Turns => tokens' = tokens BY DEF Turns
  <1> QED BY <1>1, <1>2, <1>3, <1>4, <1>5, <1>6, <1>7, <1>8 DEF Step

LEMMA TokensOfAgentsStep ==
    ASSUME TypeOK, RequestsOK, SecretsOK, TokensOfAgents, Oldest, Step
    PROVE  TokensOfAgents'
  <1>1. ASSUME NEW i \in Existing', tokens'[i].holder \in Agents
        PROVE  agents'[tokens'[i].holder] \in Alive
    <2>1. CASE i \in Existing /\ tokens'[i].holder = tokens[i].holder
      <3> DEFINE a == tokens[i].holder
      <3>1. a \in Agents /\ agents[a] \in Alive BY <1>1, <2>1 DEF TokensOfAgents
      <3>2. ASSUME Leaves(OwnerOf[a]) PROVE FALSE
        BY <2>1, <3>1, <3>2 DEF Leaves, Existing, Owner
      <3>3. agents'[a] \in Alive BY <3>1, <3>2, AgentsBefore DEF Alive
      <3> QED BY <2>1, <3>3
    <2>2. ASSUME NEW r \in Requests, Inserted(r), tokens'[i].holder = request[r].holder
          PROVE  agents'[tokens'[i].holder] \in Alive
      BY <1>1, <2>2 DEF Inserted, Alive
    <2> QED BY <2>1, <2>2, HoldersBefore
  <1>2. ASSUME NEW a \in Agents, agents'[a] \in Alive
        PROVE  \E i \in Existing' : tokens'[i].holder = a
    <2>1. ASSUME NEW r \in Requests, Inserted(r), request[r].holder = a
          PROVE  \E i \in Existing' : tokens'[i].holder = a
      BY <2>1, GrowingStep
    <2>2. CASE agents[a] \in Alive /\ ~ Leaves(OwnerOf[a])
      <3>1. PICK i \in Existing : tokens[i].holder = a BY <2>2 DEF TokensOfAgents
      <3>2. ASSUME NEW r \in Requests, Collapsed(r), request[r].holder = a
            PROVE  \E j \in Existing' : tokens'[j].holder = a
        <4> DEFINE j == request[r].row
        <4>1. j \in Existing /\ tokens[j].holder = a
          BY <3>1, <3>2 DEF Oldest, Collapsed, Continues
        <4>2. tokens'[j] = tokens[j] BY <3>2, <4>1 DEF Collapsed, Existing
        <4> QED BY <4>1, <4>2 DEF Existing
      <3> QED BY <2>2, <3>1, <3>2, AgentRowsStay
    <2>3. ASSUME Leaves(OwnerOf[a]), agents[a] \in Alive PROVE FALSE
      BY <1>2, <2>3 DEF Leaves, Alive
    <2> QED BY <1>2, <2>1, <2>2, <2>3, AgentsBefore DEF Alive
  <1>3. \A a \in Agents : (agents'[a] \in Alive) => \E i \in Existing' : tokens'[i].holder = a BY <1>2
  <1> QED BY <1>1, <1>3 DEF TokensOfAgents, Alive

(* A request has the holder it began with, or the one of the token found.  *)
LEMMA HolderBefore ==
    ASSUME TypeOK, RequestsOK, Step, NEW k \in Requests, request'[k].holder \in Agents
    PROVE  \/ Fresh(k)
           \/ FoundToken(k)
           \/ request'[k] = request[k]
           \/ Inserted(k) /\ request'[k].holder = request[k].holder
           \/ /\ request'[k].holder = request[k].holder
              /\ request[k].step # "insert" /\ request'[k].step # "insert"
  <1>1. CASE Bears(k)
    <2>1. request'[k].holder = None BY <1>1 DEF Bears, Asked
    <2> QED BY <2>1, HolderTypes
  <1>2. CASE Stopped(k) \/ Answered(k)
    <2>1. request'[k].holder = None BY <1>2, IdleOK DEF Stopped, Answered
    <2> QED BY <2>1, HolderTypes
  <1>3. CASE Inserted(k) BY <1>3 DEF Inserted, SameHolder
  <1>4. CASE Selected(k) \/ Collapsed(k) \/ Updated(k) \/ PassedAgent(k) \/ PassedOwner(k)
    BY <1>4 DEF Selected, Collapsed, Updated, PassedAgent, PassedOwner, Continues, SameHolder
  <1> QED BY <1>1, <1>2, <1>3, <1>4, StepIsOfOne DEF RequestStep

LEMMA FreshHolder ==
    ASSUME TypeOK, NEW k \in Requests, Fresh(k)
    PROVE  /\ request'[k].step \in {"insert", "select"} /\ request'[k].holder \in Holders
           /\ request'[k].step = "insert" /\ request'[k].holder \in Agents =>
                 agents[request'[k].holder] = "unborn" /\ \A r \in Requests : request[r].holder # request'[k].holder
           /\ request'[k].step = "select" => request'[k].holder \in Agents /\ agents[request'[k].holder] \in Alive
           /\ request'[k].row = None
           /\ UNCHANGED <<users, agents, tokens>> /\ \A r \in Requests \ {k} : request'[r] = request[r]
  <1>1. PICK s \in Secrets, h \in Holders, step \in {"insert", "select"} :
           /\ request'[k] = Asked(step, h, s)
           /\ (step = "insert" /\ h \in Agents) => agents[h] = "unborn" /\ \A r \in Requests : request[r].holder # h
           /\ step = "select" => h \in Agents /\ agents[h] \in Alive
    BY DEF Fresh
  <1>2. /\ request'[k].step = step /\ request'[k].holder = h /\ request'[k].row = None
    BY <1>1, AskedOK
  <1> QED BY <1>1, <1>2 DEF Fresh, Others, tables

LEMMA FoundAgent ==
    ASSUME TypeOK, TokensOfAgents, NEW k \in Requests, FoundToken(k), request'[k].holder \in Agents
    PROVE  /\ agents[request'[k].holder] \in Alive /\ agents' = agents
           /\ request'[k].step \in {"agent", "owner"}
           /\ \A r \in Requests \ {k} : request'[r] = request[r]
  BY DEF FoundToken, TokensOfAgents, Continues, Others, tables

LEMMA BirthsStep ==
    ASSUME TypeOK, RequestsOK, SecretsOK, TokensOfAgents, Births, Step
    PROVE  Births'
  <1>a. ASSUME NEW a \in Agents, agents[a] # "unborn" PROVE agents'[a] # "unborn"
    BY <1>a, AgentsBefore DEF Alive
  <1>b. ASSUME NEW k \in Requests, request[k].step = "insert", request[k].holder \in Agents, request'[k] = request[k]
        PROVE  /\ agents'[request[k].holder] = "unborn"
               /\ \A r \in Requests : request'[r].holder = request[k].holder => r = k
    <2> DEFINE a == request[k].holder
    <2>1. agents[a] = "unborn" /\ \A r \in Requests : request[r].holder = a => r = k
      BY <1>b DEF Births
    <2>2. ASSUME NEW r \in Requests, Inserted(r), request[r].holder = a PROVE FALSE
      <3>1. r = k BY <2>1, <2>2
      <3>2. request'[k].step = "answer" BY <2>2, <3>1 DEF Inserted, Continues
      <3> QED BY <1>b, <3>2
    <2>3. agents'[a] = "unborn" BY <2>1, <2>2, <1>b, AgentsBefore
    <2>4. ASSUME NEW r \in Requests, request'[r].holder = a, r # k PROVE FALSE
      <3>1. CASE Fresh(r)
        <4>1. request[k].holder # a \/ request'[r].step # "insert" BY <1>b, <2>4, <3>1, FreshHolder
        <4>2. request'[r].step = "select" BY <3>1, <4>1, FreshHolder
        <4>3. agents[a] \in Alive BY <2>4, <3>1, <4>2, FreshHolder
        <4> QED BY <2>1, <4>3 DEF Alive
      <3>2. CASE FoundToken(r)
        <4>1. agents[a] \in Alive BY <1>b, <2>4, <3>2, FoundAgent
        <4> QED BY <2>1, <4>1 DEF Alive
      <3>3. CASE request'[r].holder = request[r].holder BY <2>1, <2>4, <3>3
      <3> QED BY <1>b, <2>4, <3>1, <3>2, <3>3, HolderBefore
    <2> QED BY <2>3, <2>4
  <1>1. ASSUME NEW k \in Requests, request'[k].holder \in Agents
        PROVE  IF request'[k].step = "insert"
               THEN /\ agents'[request'[k].holder] = "unborn"
                    /\ \A r \in Requests : request'[r].holder = request'[k].holder => r = k
               ELSE agents'[request'[k].holder] # "unborn"
    <2>1. CASE Fresh(k)
      <3>1. CASE request'[k].step = "insert"
        <4>1. agents'[request'[k].holder] = "unborn" BY <1>1, <2>1, <3>1, FreshHolder
        <4>2. ASSUME NEW r \in Requests, request'[r].holder = request'[k].holder, r # k PROVE FALSE
          <5>1. request'[r] = request[r] BY <2>1, <4>2, FreshHolder
          <5> QED BY <1>1, <2>1, <3>1, <4>2, <5>1, FreshHolder
        <4> QED BY <3>1, <4>1, <4>2
      <3>2. CASE request'[k].step = "select"
        BY <1>1, <2>1, <3>2, FreshHolder DEF Alive
      <3> QED BY <2>1, <3>1, <3>2, FreshHolder
    <2>2. CASE FoundToken(k) BY <1>1, <2>2, FoundAgent DEF Alive
    <2>3. CASE request'[k] = request[k]
      <3>1. CASE request[k].step = "insert" BY <1>1, <1>b, <2>3, <3>1
      <3>2. CASE request[k].step # "insert"
        <4>1. agents[request[k].holder] # "unborn" BY <1>1, <2>3, <3>2 DEF Births
        <4> QED BY <1>1, <1>a, <2>3, <3>2, <4>1
      <3> QED BY <3>1, <3>2
    <2>4. CASE Inserted(k) /\ request'[k].holder = request[k].holder
      <3>1. request'[k].step = "answer" /\ agents'[request[k].holder] = "enabled"
        BY <1>1, <2>4 DEF Inserted, Continues
      <3> QED BY <2>4, <3>1
    <2>5. CASE /\ request'[k].holder = request[k].holder
               /\ request[k].step # "insert" /\ request'[k].step # "insert"
      <3>1. agents[request[k].holder] # "unborn" BY <1>1, <2>5 DEF Births
      <3> QED BY <1>1, <1>a, <2>5, <3>1
    <2> QED BY <1>1, <2>1, <2>2, <2>3, <2>4, <2>5, HolderBefore
  <1> QED BY <1>1 DEF Births

LEMMA RotationsBefore ==
    ASSUME TypeOK, RequestsOK, Step, NEW k \in Requests, request'[k].step \in {"collapse", "update"}
    PROVE  \/ request'[k] = request[k]
           \/ Selected(k) /\ request'[k].step = "collapse"
           \/ Collapsed(k) /\ request'[k].step = "update"
  <1>1. CASE Fresh(k) BY <1>1, FreshHolder
  <1>2. CASE Bears(k) BY <1>2 DEF Bears, Asked
  <1>3. CASE Stopped(k) \/ Answered(k) BY <1>3, IdleOK DEF Stopped, Answered
  <1>4. CASE Inserted(k) \/ Updated(k) \/ FoundToken(k) \/ PassedAgent(k) \/ PassedOwner(k)
    BY <1>4 DEF Inserted, Updated, FoundToken, PassedAgent, PassedOwner, Continues
  <1>5. CASE Selected(k) \/ Collapsed(k) BY <1>5 DEF Selected, Collapsed, Continues
  <1> QED BY <1>1, <1>2, <1>3, <1>4, <1>5, StepIsOfOne DEF RequestStep

LEMMA RowsOfRequestsStep ==
    ASSUME TypeOK, RequestsOK, SecretsOK, RowsOfRequests, Step
    PROVE  RowsOfRequests'
  <1>1. ASSUME NEW k \in Requests, request'[k].step \in {"collapse", "update"}, request'[k].row \in Existing'
        PROVE  tokens'[request'[k].row].holder = request'[k].holder
    <2> DEFINE i == request'[k].row
    <2>1. CASE Selected(k)
      BY <2>1 DEF Selected, SameHolder, tables
    <2>2. ASSUME request[k].step \in {"collapse", "update"}, i = request[k].row, request'[k].holder = request[k].holder
          PROVE  tokens'[i].holder = request'[k].holder
      <3>1. i \in 1 .. issued BY <2>2 DEF RequestsOK, RequestOK
      <3>2. ASSUME NEW r \in Requests, Inserted(r), i = issued' PROVE FALSE
        <4>1. issued \in Nat BY RowsAssumption DEF TypeOK
        <4> QED BY <3>1, <3>2, <4>1 DEF Inserted
      <3>3. i \in Existing /\ tokens'[i].holder = tokens[i].holder BY <1>1, <3>2, HoldersBefore
      <3> QED BY <2>2, <3>3 DEF RowsOfRequests
    <2>3. Collapsed(k) => /\ request[k].step = "collapse" /\ i = request[k].row
                          /\ request'[k].holder = request[k].holder
      BY DEF Collapsed, Continues, SameHolder
    <2> QED BY <1>1, <2>1, <2>2, <2>3, RotationsBefore
  <1> QED BY <1>1 DEF RowsOfRequests

LEMMA OldestStep ==
    ASSUME TypeOK, RequestsOK, SecretsOK, Births, Oldest, Step
    PROVE  Oldest'
  <1> DEFINE Old(q, i) == /\ q.row \in Existing' /\ tokens'[q.row].holder = q.holder /\ q.row <= i
                          /\ q.step = "update" => i = q.row
  <1>1. ASSUME NEW k \in Requests, request[k].step \in {"collapse", "update"}, request'[k] = request[k],
               NEW i \in Existing', tokens'[i].holder = request[k].holder
        PROVE  Old(request[k], i)
    <2> DEFINE q == request[k]
               a == q.holder
    <2>1. a \in Agents /\ agents[a] # "unborn"
      BY <1>1 DEF RequestsOK, RequestOK, Rotates, Births
    <2>2. ASSUME NEW r \in Requests, Inserted(r), request[r].holder = a PROVE FALSE
      <3>1. request[r].step = "insert" BY <2>2 DEF Inserted, Continues
      <3> QED BY <2>1, <2>2, <3>1 DEF Births
    <2>3. i \in Existing /\ tokens[i].holder = a BY <1>1, <2>2, HoldersBefore
    <2>4. /\ q.row \in Existing /\ tokens[q.row].holder = a /\ q.row <= i
          /\ q.step = "update" => i = q.row
      BY <1>1, <2>3 DEF Oldest
    <2>5. ASSUME Leaves(OwnerOf[a]) PROVE FALSE
      BY <1>1, <2>1, <2>3, <2>5 DEF Leaves, Existing, Owner
    <2>6. ASSUME NEW r \in Requests, Collapsed(r), request[r].holder = a, request[r].row # q.row PROVE FALSE
      <3>1. request[r].step = "collapse" BY <2>6 DEF Collapsed, Continues
      <3>2. request[r].row \in Existing /\ tokens[request[r].row].holder = a /\ request[r].row <= q.row
        BY <2>4, <2>6, <3>1 DEF Oldest
      <3>3. q.row <= request[r].row BY <1>1, <3>2 DEF Oldest
      <3> QED BY <2>4, <2>6, <3>2, <3>3 DEF Existing, Rows
    <2>7. q.row \in Existing' /\ tokens'[q.row].holder = a
      BY <2>1, <2>4, <2>5, <2>6, AgentRowsStay
    <2> QED BY <2>4, <2>7
  <1>2. ASSUME NEW k \in Requests, Selected(k), request'[k].step = "collapse",
               NEW i \in Existing', tokens'[i].holder = request'[k].holder
        PROVE  Old(request'[k], i)
    <2>1. tokens' = tokens BY <1>2 DEF Selected, tables
    <2>2. Existing' = Existing BY <2>1 DEF Existing
    <2> QED BY <1>2, <2>1, <2>2 DEF Selected, SameHolder
  <1>3. ASSUME NEW k \in Requests, Collapsed(k), request'[k].step = "update",
               NEW i \in Existing', tokens'[i].holder = request'[k].holder
        PROVE  Old(request'[k], i)
    <2>1. request[k].step = "collapse" /\ request'[k].row = request[k].row /\ request'[k].holder = request[k].holder
      BY <1>3 DEF Collapsed, Continues, SameHolder
    <2>2. i \in Rows /\ tokens'[i] # Absent BY DEF Existing
    <2>3. tokens'[i] = tokens[i] BY <1>3, <2>2 DEF Collapsed
    <2>4. i \in Existing BY <2>2, <2>3 DEF Existing
    <2>5. i = request[k].row BY <1>3, <2>1, <2>2, <2>3, <2>4 DEF Collapsed
    <2> QED BY <1>3, <2>1, <2>2, <2>5 DEF Rows
  <1>4. ASSUME NEW k \in Requests, request'[k].step \in {"collapse", "update"},
               NEW i \in Existing', tokens'[i].holder = request'[k].holder
        PROVE  Old(request'[k], i)
    BY <1>1, <1>2, <1>3, <1>4, RotationsBefore
  <1>5. ASSUME NEW k \in Requests, NEW i \in Existing', tokens'[i].holder = request'[k].holder
        PROVE  /\ request'[k].step \in {"collapse", "update"} =>
                     /\ request'[k].row \in Existing' /\ tokens'[request'[k].row].holder = request'[k].holder
                     /\ request'[k].row <= i
               /\ request'[k].step = "update" => i = request'[k].row
    BY <1>4, <1>5
  <1> QED BY <1>5 DEF Oldest

LEMMA TablesStep ==
    ASSUME TablesOK, Next
    PROVE  TablesOK' /\ Step /\ Keeps
  <1>1. Step /\ Keeps BY Steps, AlwaysKeeps DEF TablesOK
  <1>2. TypeOK' /\ RequestsOK' BY TypeStep DEF TablesOK
  <1>3. SecretsOK' BY <1>1, <1>2, SecretsStep DEF TablesOK
  <1>4. TokensOfAgents' BY <1>1, TokensOfAgentsStep DEF TablesOK
  <1>5. Births' BY <1>1, BirthsStep DEF TablesOK
  <1>6. Oldest' BY <1>1, OldestStep DEF TablesOK
  <1>7. RowsOfRequests' BY <1>1, RowsOfRequestsStep DEF TablesOK
  <1> QED BY <1>1, <1>2, <1>3, <1>4, <1>5, <1>6, <1>7 DEF TablesOK

(***************************************************************************)
(* Who is let in.                                                          *)
(***************************************************************************)
LEMMA AdmitsBefore ==
    ASSUME TypeOK, Step, NEW k \in Requests, Admits(request'[k])
    PROVE  request'[k] = request[k] \/ FoundToken(k) \/ PassedAgent(k) \/ PassedOwner(k)
  <1>1. CASE Fresh(k) BY <1>1, FreshHolder DEF Admits
  <1>2. CASE Bears(k) BY <1>2 DEF Bears, Asked, Admits
  <1>3. CASE Stopped(k) \/ Answered(k) BY <1>3, IdleOK DEF Stopped, Answered, Admits
  <1>4. CASE Inserted(k) \/ Selected(k) \/ Collapsed(k) \/ Updated(k)
    BY <1>4 DEF Inserted, Selected, Collapsed, Updated, Continues, Admits
  <1> QED BY <1>1, <1>2, <1>3, <1>4, StepIsOfOne DEF RequestStep

LEMMA WasLiveStays ==
    ASSUME TypeOK, Observe, NEW k \in Requests, Uses(request'[k]), k \in wasLive \cup eased
    PROVE  k \in wasLive' \cup eased'
  BY DEF Observe

(* What becomes enabled was disabled.                                      *)
LEMMA EnabledBefore ==
    ASSUME TypeOK, RequestsOK, Births, Step, NEW k \in Requests, Admits(request[k]), request'[k] = request[k]
    PROVE  LET h == request[k].holder IN
           /\ h \in Agents /\ agents'[h] = "enabled" => agents[h] \in {"enabled", "disabled"}
           /\ users'[Owner(h)] = "enabled" => users[Owner(h)] \in {"enabled", "disabled"}
  <1> DEFINE h == request[k].holder
  <1>1. h \in Holders /\ Owner(h) \in Users BY HolderTypes DEF RequestsOK, RequestOK
  <1>2. ASSUME h \in Agents, agents'[h] = "enabled" PROVE agents[h] \in {"enabled", "disabled"}
    <2>1. ASSUME NEW r \in Requests, Inserted(r), request[r].holder = h PROVE FALSE
      <3>1. request[r].step = "insert" BY <2>1 DEF Inserted, Continues
      <3>2. k = r BY <1>2, <2>1, <3>1 DEF Births
      <3> QED BY <3>1, <3>2 DEF Admits
    <2> QED BY <1>2, <2>1, AgentsBefore
  <1>3. ASSUME users'[Owner(h)] = "enabled" PROVE users[Owner(h)] \in {"enabled", "disabled"}
    <2>1. users[Owner(h)] \in {"enabled", "disabled", "gone"} BY <1>1 DEF TypeOK
    <2>2. ASSUME NEW r \in Requests, RequestStep(r) PROVE users' = users
      BY <2>2 DEF RequestStep, tables, Fresh, Bears, Stopped, Inserted, Selected, Collapsed, Updated, Answered,
         FoundToken, PassedAgent, PassedOwner
    <2>3. users[Owner(h)] = "gone" => users'[Owner(h)] = "gone"
      BY <1>1, <2>2 DEF Step, Turns, Removes, Leaves
    <2> QED BY <1>3, <2>1, <2>3
  <1> QED BY <1>2, <1>3

LEMMA LiveAfter ==
    ASSUME NEW s \in Secrets, s \notin LiveSecrets', UNCHANGED <<users, agents, tokens>>
    PROVE  ~ Live(s)
  <1>1. LiveSecrets' = LiveSecrets BY DEF LiveSecrets, Live, Existing, Owner
  <1> QED BY <1>1 DEF LiveSecrets

LEMMA AdmittedStep ==
    ASSUME TablesOK, AdmittedInv, Step, Observe, RequestsOK'
    PROVE  AdmittedInv'
  <1>t. TypeOK /\ RequestsOK /\ SecretsOK /\ Births BY DEF TablesOK
  <1>1. ASSUME NEW k \in Requests, Admits(request'[k]), ~ (k \in wasLive' \cup eased')
        PROVE  \/ /\ request'[k].step = "agent"
                  /\ agents'[request'[k].holder] # "enabled" \/ users'[Owner(request'[k].holder)] # "enabled"
               \/ request'[k].step = "owner" /\ users'[Owner(request'[k].holder)] # "enabled"
    <2> DEFINE q == request[k]
               new == request'[k]
    <2>0. /\ Uses(new) /\ k \notin wasLive \cup eased
          /\ new.secret \notin LiveSecrets' /\ ~ Enabled(handed[new.secret])
      <3>1. Uses(new) BY <1>1 DEF Uses, Admits
      <3> QED BY <1>1, <1>t, <3>1, WasLiveStays DEF Observe
    <2>1. Admits(q) => \/ /\ q.step = "agent"
                          /\ agents[q.holder] # "enabled" \/ users[Owner(q.holder)] # "enabled"
                       \/ q.step = "owner" /\ users[Owner(q.holder)] # "enabled"
      BY <2>0 DEF AdmittedInv, Missing
    <2>2. CASE new = q
      <3>1. handed[q.secret] = q.holder BY <1>1, <1>t, <2>2 DEF RequestsOK, RequestOK
      <3>2. q.step = "agent" => q.holder \in Agents BY <1>t DEF RequestsOK, RequestOK
      <3> QED BY <1>1, <1>t, <2>0, <2>1, <2>2, <3>1, <3>2, EnabledBefore DEF Enabled
    <2>3. CASE FoundToken(k)
      <3>1. PICK i \in Existing : /\ tokens[i].secret = q.secret /\ ~ tokens[i].expired
                                  /\ tokens[i].holder = new.holder
        BY <2>3 DEF FoundToken
      <3>2. /\ users' = users /\ agents' = agents /\ tokens' = tokens /\ new.secret = q.secret
            /\ new.step = IF new.holder \in Agents THEN "agent" ELSE "owner"
        BY <2>3 DEF FoundToken, Continues, tables
      <3>3. Existing' = Existing BY <3>2 DEF Existing
      <3>4. new.secret \in Secrets BY <3>1, <3>2, <1>t, TokenTypes
      <3>5. ~ Live(new.secret) BY <2>0, <3>2, <3>3, <3>4, LiveAfter
      <3>6. ~ (/\ new.holder \in Agents => agents[new.holder] = "enabled"
               /\ users[Owner(new.holder)] = "enabled")
        BY <3>1, <3>2, <3>5 DEF Live
      <3> QED BY <3>2, <3>6
    <2>4. CASE PassedAgent(k)
      <3>1. /\ q.step = "agent" /\ new.step = "owner" /\ new.holder = q.holder
            /\ agents[q.holder] = "enabled" /\ users' = users
        BY <2>4 DEF PassedAgent, Continues, SameHolder, tables
      <3> QED BY <2>1, <3>1 DEF Admits
    <2>5. CASE PassedOwner(k)
      <3>1. q.step = "owner" /\ users[Owner(q.holder)] = "enabled" BY <2>5 DEF PassedOwner, Continues
      <3> QED BY <2>1, <3>1 DEF Admits
    <2> QED BY <1>1, <1>t, <2>2, <2>3, <2>4, <2>5, AdmitsBefore
  <1>2. ASSUME NEW k \in Requests, Admits(request'[k])
        PROVE  (k \in wasLive \cup eased)' \/ Missing(request[k])'
    <2> SUFFICES ASSUME ~ (k \in wasLive' \cup eased') PROVE Missing(request[k])' OBVIOUS
    <2>1. \/ /\ request'[k].step = "agent"
             /\ agents'[request'[k].holder] # "enabled" \/ users'[Owner(request'[k].holder)] # "enabled"
          \/ request'[k].step = "owner" /\ users'[Owner(request'[k].holder)] # "enabled"
      BY <1>1, <1>2
    <2> QED BY <2>1 DEF Missing, Owner
  <1> QED BY <1>2 DEF AdmittedInv, Admits

(***************************************************************************)
(* What is revoked.                                                        *)
(***************************************************************************)

(* How a rotation goes on.                                                 *)
LEMMA RotationGoesOn ==
    ASSUME TypeOK, Step, NEW k \in Requests, Issues(request[k]), request[k].step # "insert", request'[k] # Idle
    PROVE  /\ Issues(request'[k]) /\ request'[k].step # "insert" /\ request'[k].holder = request[k].holder
           /\ request'[k].step = "answer" => request'[k] = request[k] \/ Updated(k)
  <1>1. ~ (Fresh(k) \/ Bears(k)) BY IdleOK DEF Fresh, Bears, Issues, Pending
  <1>2. ~ (Stopped(k) \/ Answered(k)) BY DEF Stopped, Answered
  <1>3. ~ (Inserted(k) \/ FoundToken(k) \/ PassedAgent(k) \/ PassedOwner(k))
    BY DEF Inserted, FoundToken, PassedAgent, PassedOwner, Continues, Issues, Pending
  <1>4. CASE Selected(k) \/ Collapsed(k) \/ Updated(k)
    BY <1>4 DEF Selected, Collapsed, Updated, Continues, SameHolder, Issues, Pending
  <1> QED BY <1>1, <1>2, <1>3, <1>4, StepIsOfOne DEF RequestStep

LEMMA KnownStep ==
    ASSUME TablesOK, KnownInv, Step, Keeps, Observe, RequestsOK'
    PROVE  KnownInv'
  <1>t. TypeOK /\ RequestsOK /\ SecretsOK /\ Oldest /\ RowsOfRequests BY DEF TablesOK
  <1> SUFFICES ASSUME NEW k \in Requests, NEW s \in knew'[k]
               PROVE  /\ Issues(request'[k]) /\ request'[k].step # "insert" /\ handed'[s] = request'[k].holder
                      /\ request'[k].step = "answer" => \A i \in Existing' : tokens'[i].secret # s
    BY DEF KnownInv, Issues, Pending
  <1>0. /\ request'[k] # Idle
        /\ \/ request[k] = Idle /\ request'[k].step = "select" /\ s \in Secrets /\ handed[s] = request'[k].holder
           \/ s \in knew[k]
    BY DEF Observe
  <1>1. CASE request[k] = Idle /\ request'[k].step = "select" /\ s \in Secrets /\ handed[s] = request'[k].holder
    <2>1. Issues(request'[k]) BY <1>1 DEF Issues, Pending
    <2>2. ~ Issues(request[k]) BY <1>1, IdleOK DEF Issues, Pending
    <2>3. handed' = handed BY <1>t, <2>1, <2>2, IssuesBefore DEF Fresh
    <2> QED BY <1>1, <2>1, <2>3
  <1>2. CASE s \in knew[k]
    <2>1. /\ Issues(request[k]) /\ request[k].step # "insert" /\ handed[s] = request[k].holder
          /\ request[k].step = "answer" => \A i \in Existing : tokens[i].secret # s
      BY <1>2 DEF KnownInv
    <2>2. s \in Secrets BY <1>2, <1>t DEF TypeOK
    <2>3. request[k].holder \in Holders BY <2>1, <1>t DEF RequestsOK, RequestOK
    <2>4. handed[s] # None /\ handed'[s] = handed[s] BY <2>1, <2>2, <2>3, HolderTypes DEF Keeps
    <2>5. \A r \in Requests : Issues(request[r]) => request[r].secret # s BY <1>t, <2>4 DEF SecretsOK
    <2>6. ASSUME request'[k].step = "answer", NEW i \in Existing', tokens'[i].secret = s PROVE FALSE
      <3>1. i \in Existing /\ tokens'[i].holder = tokens[i].holder /\ tokens[i].secret = s
        <4>1. ASSUME NEW r \in Requests, Inserted(r) \/ Updated(r), tokens'[i].secret = request[r].secret PROVE FALSE
          <5>1. Issues(request[r]) BY <4>1 DEF Inserted, Updated, Continues, Issues, Pending
          <5> QED BY <2>5, <2>6, <4>1, <5>1
        <4> QED BY <1>t, <2>6, <4>1, RowsBefore
      <3>2. CASE request'[k] = request[k] BY <2>1, <2>6, <3>1, <3>2
      <3>3. CASE Updated(k)
        <4>1. tokens[i].holder = request[k].holder BY <1>t, <2>1, <2>4, <3>1 DEF SecretsOK
        <4>2. i = request[k].row BY <1>t, <3>1, <3>3, <4>1 DEF Oldest, Updated, Continues
        <4>3. tokens'[i].secret = request[k].secret BY <1>t, <3>3, <4>2, RewritingStep
        <4> QED BY <2>1, <2>5, <2>6, <4>3
      <3> QED BY <1>0, <1>t, <2>1, <2>6, <3>2, <3>3, RotationGoesOn
    <2> QED BY <1>0, <1>t, <2>1, <2>4, <2>6, RotationGoesOn
  <1> QED BY <1>0, <1>1, <1>2

LEMMA TellingStep ==
    ASSUME TypeOK, RequestsOK, Step, NEW k \in Requests, Ends(k)
    PROVE  /\ tables' = tables
           /\ Told(k) => Answered(k)
  <1>1. request[k].step = "answer" /\ request'[k] = Idle /\ request'[k] # request[k]
    BY IdleOK DEF Ends
  <1>2. ~ (Fresh(k) \/ Bears(k)) BY <1>1, IdleOK DEF Fresh, Bears
  <1>3. ~ (Inserted(k) \/ Selected(k) \/ Collapsed(k) \/ Updated(k) \/ FoundToken(k) \/ PassedAgent(k) \/ PassedOwner(k))
    BY <1>1 DEF Inserted, Selected, Collapsed, Updated, FoundToken, PassedAgent, PassedOwner, Continues
  <1>4. Stopped(k) \/ Answered(k) BY <1>1, <1>2, <1>3, StepIsOfOne DEF RequestStep
  <1> QED BY <1>4 DEF Stopped, Answered, Told

LEMMA RevokedStep ==
    ASSUME TablesOK, KnownInv, RevokedInv, Step, Keeps, Observe, TablesOK'
    PROVE  RevokedInv'
  <1>t. TypeOK /\ RequestsOK /\ SecretsOK /\ Births /\ RowsOfRequests BY DEF TablesOK
  <1>n. TypeOK' /\ RequestsOK' /\ SecretsOK' BY DEF TablesOK
  <1> DEFINE Gone(s) ==
        /\ s \in minted'
        /\ \A k \in Requests : Pending(request'[k]) => request'[k].secret # s
        /\ \A i \in Existing' : tokens'[i].secret = s =>
              tokens'[i].holder \in Agents /\ agents'[tokens'[i].holder] = "archived"
  <1>m. minted \subseteq minted' BY DEF Keeps
  <1>p. \A k \in Requests : Pending(request'[k]) =>
            /\ request'[k].secret \in minted' /\ handed'[request'[k].secret] = None
            /\ \/ request'[k].secret \notin minted
               \/ Pending(request[k]) /\ request'[k].secret = request[k].secret
    <2>1. ASSUME NEW k \in Requests, Pending(request'[k])
          PROVE  /\ request'[k].secret \in minted' /\ handed'[request'[k].secret] = None
                 /\ \/ request'[k].secret \notin minted
                    \/ Pending(request[k]) /\ request'[k].secret = request[k].secret
      <3>1. Issues(request'[k]) BY <2>1 DEF Issues
      <3>2. request'[k].secret \in minted' /\ handed'[request'[k].secret] = None
        BY <1>n, <3>1 DEF SecretsOK, Issues, Pending
      <3> QED BY <1>t, <2>1, <3>1, <3>2, IssuesBefore, FreshSecret
    <2> QED BY <2>1
  <1>w. ASSUME NEW r \in Requests, Inserted(r) \/ Updated(r) PROVE Pending(request[r])
    BY <1>w DEF Inserted, Updated, Continues, Pending
  <1>1. ASSUME NEW s \in revoked PROVE Gone(s)
    <2>1. /\ s \in minted /\ \A k \in Requests : Pending(request[k]) => request[k].secret # s
          /\ \A i \in Existing : tokens[i].secret = s =>
                tokens[i].holder \in Agents /\ agents[tokens[i].holder] = "archived"
      BY DEF RevokedInv
    <2>2. ASSUME NEW i \in Existing', tokens'[i].secret = s
          PROVE  tokens'[i].holder \in Agents /\ agents'[tokens'[i].holder] = "archived"
      <3>1. i \in Existing /\ tokens'[i].holder = tokens[i].holder /\ tokens[i].secret = s
        BY <1>t, <1>w, <2>1, <2>2, RowsBefore
      <3> DEFINE a == tokens[i].holder
      <3>2. a \in Agents /\ agents[a] = "archived" BY <2>1, <3>1
      <3>3. ASSUME NEW r \in Requests, Inserted(r), request[r].holder = a PROVE FALSE
        <4>1. request[r].step = "insert" BY <3>3 DEF Inserted, Continues
        <4> QED BY <1>t, <3>2, <3>3, <4>1 DEF Births
      <3>4. ASSUME Leaves(OwnerOf[a]) PROVE FALSE
        BY <3>1, <3>2, <3>4 DEF Leaves, Existing, Owner
      <3>5. agents'[a] = "archived" BY <1>t, <3>2, <3>3, <3>4, AgentsBefore
      <3> QED BY <3>1, <3>2, <3>5
    <2> QED BY <1>m, <1>p, <2>1, <2>2
  <1>2. ASSUME NEW s, NEW r \in Requests, Told(r), s \in knew[r] PROVE Gone(s)
    <2>1. request[r].step = "answer" /\ Ends(r) BY <1>2 DEF Told, Ends
    <2>2. /\ Issues(request[r]) /\ handed[s] = request[r].holder
          /\ \A i \in Existing : tokens[i].secret # s
      BY <1>2, <2>1 DEF KnownInv
    <2>3. s \in Secrets BY <1>2, <1>t DEF TypeOK
    <2>4. handed[s] # None BY <1>t, <2>2, HolderTypes DEF RequestsOK, RequestOK
    <2>5. s \in minted /\ handed'[s] # None BY <1>t, <2>3, <2>4 DEF SecretsOK, Keeps
    <2>6. tokens' = tokens BY <1>t, <2>1, TellingStep DEF tables
    <2>7. Existing' = Existing BY <2>6 DEF Existing
    <2> QED BY <1>m, <1>p, <2>2, <2>5, <2>6, <2>7
  <1>3. ASSUME NEW i \in Existing, tokens'[i] = Absent PROVE Gone(tokens[i].secret)
    <2> DEFINE s == tokens[i].secret
    <2>1. s \in minted /\ \A k \in Requests : Pending(request[k]) => request[k].secret # s
      BY <1>t DEF SecretsOK, Issues
    <2>2. ASSUME NEW j \in Existing', tokens'[j].secret = s PROVE FALSE
      <3>1. j \in Existing /\ tokens[j].secret = s BY <1>t, <1>w, <2>1, <2>2, RowsBefore
      <3>2. j = i BY <1>t, <3>1 DEF TypeOK
      <3> QED BY <1>3, <2>2, <3>2 DEF Existing
    <2> QED BY <1>m, <1>p, <2>1, <2>2
  <1>4. ASSUME NEW s \in Secrets, handed'[s] \in Agents, agents'[handed'[s]] = "archived" PROVE Gone(s)
    <2>1. handed'[s] # None BY <1>4, HolderTypes
    <2>2. s \in minted' BY <1>n, <2>1 DEF SecretsOK
    <2>3. \A i \in Existing' : handed'[tokens'[i].secret] \in {None, tokens'[i].holder}
      BY <1>n DEF SecretsOK
    <2> QED BY <1>4, <1>p, <2>1, <2>2, <2>3
  <1>5. ASSUME NEW s \in revoked' PROVE Gone(s)
    <2> HIDE DEF Gone
    <2> QED BY <1>1, <1>2, <1>3, <1>4, Revoking
  <1> QED BY <1>5 DEF RevokedInv, Pending

(***************************************************************************)
(* What the owner was told last.                                           *)
(***************************************************************************)
Rewritten(a) == \E r \in Requests : request[r].step = "update" /\ request[r].holder = a /\ request'[r].step = "answer"

LEMMA UpdatedSteps ==
    ASSUME TypeOK, Step, NEW r \in Requests
    PROVE  (request[r].step = "update" /\ request'[r].step = "answer") <=> Updated(r)
  <1>1. ASSUME request[r].step = "update", request'[r].step = "answer" PROVE Updated(r)
    <2>1. request'[r] # request[r] /\ request'[r] # Idle /\ request[r] # Idle BY <1>1, IdleOK
    <2>2. ~ (Fresh(r) \/ Bears(r) \/ Stopped(r) \/ Answered(r)) BY <2>1 DEF Fresh, Bears, Stopped, Answered
    <2>3. ~ (Inserted(r) \/ Selected(r) \/ Collapsed(r) \/ FoundToken(r) \/ PassedAgent(r) \/ PassedOwner(r))
      BY <1>1 DEF Inserted, Selected, Collapsed, FoundToken, PassedAgent, PassedOwner, Continues
    <2> QED BY <2>1, <2>2, <2>3, StepIsOfOne DEF RequestStep
  <1> QED BY <1>1 DEF Updated, Continues

LEMMA AnswersBefore ==
    ASSUME TypeOK, RequestsOK, Step, NEW k \in Requests, request'[k].step = "answer"
    PROVE  request'[k] = request[k] \/ Inserted(k) \/ Updated(k)
  <1>1. Issues(request'[k]) BY DEF Issues
  <1>2. ~ Fresh(k) BY FreshHolder
  <1>3. Issues(request[k]) /\ request'[k] # Idle BY <1>1, <1>2, IssuesBefore, IdleOK
  <1>4. CASE request[k].step # "insert" BY <1>3, <1>4, RotationGoesOn
  <1>5. CASE request[k].step = "insert"
    <2>1. ~ (Bears(k) \/ Stopped(k) \/ Answered(k)) BY <1>3, <1>5, IdleOK DEF Bears, Stopped, Answered
    <2>2. ~ (Selected(k) \/ Collapsed(k) \/ FoundToken(k) \/ PassedAgent(k) \/ PassedOwner(k))
      BY <1>5 DEF Selected, Collapsed, FoundToken, PassedAgent, PassedOwner, Continues
    <2> QED BY <1>2, <2>1, <2>2, StepIsOfOne DEF RequestStep
  <1> QED BY <1>4, <1>5

LEMMA MuddledAfter ==
    ASSUME Observe, NEW a \in Agents, a \notin muddled'
    PROVE  IF Rewritten(a)
           THEN \A r \in Requests : ~ Answers(r, a)
           ELSE a \notin muddled /\ \A r \in Requests : Ends(r) /\ request[r].holder = a => Told(r)
  BY DEF Observe, Rewritten, Answers

(* No agent's row is written but by a rotation of it, or as it is created. *)
LEMMA SecretStays ==
    ASSUME TypeOK, RequestsOK, SecretsOK, Births, RowsOfRequests, Step,
           NEW a \in Agents, agents[a] # "unborn", ~ Rewritten(a), NEW s, Has(a, s)
    PROVE  \A i \in Existing' : tokens'[i].holder = a => tokens'[i].secret = s
  <1> SUFFICES ASSUME NEW i \in Existing', tokens'[i].holder = a PROVE tokens'[i].secret = s OBVIOUS
  <1>1. ASSUME NEW r \in Requests, Inserted(r), request[r].holder = a PROVE FALSE
    <2>1. request[r].step = "insert" BY <1>1 DEF Inserted, Continues
    <2> QED BY <1>1, <2>1 DEF Births
  <1>2. ASSUME NEW r \in Requests, Updated(r), request[r].holder = a PROVE FALSE
    BY <1>2, UpdatedSteps DEF Rewritten
  <1> QED BY <1>1, <1>2, RowsBefore DEF Has

LEMMA CurrentStep ==
    ASSUME TablesOK, CurrentInv, Step, Observe, NEW a \in Agents, agents'[a] \in Alive, a \notin muddled'
    PROVE  /\ \A r \in Requests : request'[r].step = "answer" /\ request'[r].holder = a =>
                 /\ \A i \in Existing' : tokens'[i].holder = a => tokens'[i].secret = request'[r].secret
                 /\ \A k \in Requests : request'[k].step = "answer" /\ request'[k].holder = a => k = r
           /\ current'[a] # None /\ (\A r \in Requests : ~ (request'[r].step = "answer" /\ request'[r].holder = a)) =>
                 \A i \in Existing' : tokens'[i].holder = a => tokens'[i].secret = current'[a]
  <1>t. TypeOK /\ RequestsOK /\ SecretsOK /\ TokensOfAgents /\ Births /\ Oldest /\ RowsOfRequests BY DEF TablesOK
  <1> DEFINE AnswersNow(r) == request'[r].step = "answer" /\ request'[r].holder = a
             HasNow(s) == \A i \in Existing' : tokens'[i].holder = a => tokens'[i].secret = s
             Good == /\ \A r \in Requests : AnswersNow(r) =>
                           HasNow(request'[r].secret) /\ \A k \in Requests : AnswersNow(k) => k = r
                     /\ current'[a] # None /\ (\A r \in Requests : ~ AnswersNow(r)) => HasNow(current'[a])
  <1>1. ASSUME Rewritten(a) PROVE Good
    <2>1. PICK r \in Requests : Updated(r) /\ request[r].holder = a BY <1>1, <1>t, UpdatedSteps DEF Rewritten
    <2>2. AnswersNow(r) BY <2>1 DEF Updated, Continues, SameHolder
    <2>3. ASSUME NEW k \in Requests, AnswersNow(k) PROVE k = r
      <3>1. \A j \in Requests \ {r} : request'[j] = request[j] BY <2>1 DEF Updated, Continues, Others
      <3>2. ~ Answers(k, a) BY <1>1, MuddledAfter
      <3> QED BY <2>3, <3>1, <3>2 DEF Answers
    <2>4. HasNow(request'[r].secret)
      <3>1. ASSUME NEW i \in Existing', tokens'[i].holder = a PROVE tokens'[i].secret = request'[r].secret
        <4>1. i \in Existing /\ tokens[i].holder = a BY <1>t, <2>1, <3>1, RewritingStep
        <4>2. i = request[r].row BY <1>t, <2>1, <4>1 DEF Oldest, Updated, Continues
        <4>3. tokens'[i].secret = request[r].secret BY <1>t, <2>1, <4>2, RewritingStep
        <4> QED BY <2>1, <4>3 DEF Updated, Continues
      <3> QED BY <3>1
    <2> QED BY <2>2, <2>3, <2>4
  <1>2. ASSUME ~ Rewritten(a), agents[a] \in Alive PROVE Good
    <2>1. a \notin muddled /\ \A r \in Requests : Ends(r) /\ request[r].holder = a => Told(r)
      BY <1>2, MuddledAfter
    <2>2. /\ \A r \in Requests : Answers(r, a) => Has(a, request[r].secret) /\ \A k \in Requests : Answers(k, a) => k = r
          /\ current[a] # None /\ (\A r \in Requests : ~ Answers(r, a)) => Has(a, current[a])
      BY <1>2, <2>1 DEF CurrentInv
    <2>3. \A s : Has(a, s) => HasNow(s) BY <1>2, <1>t, SecretStays DEF Alive
    <2>4. ASSUME NEW k \in Requests, AnswersNow(k) PROVE Answers(k, a) /\ request'[k] = request[k]
      <3>1. ASSUME Inserted(k) PROVE FALSE
        <4>1. request[k].step = "insert" /\ request[k].holder = a BY <2>4, <3>1 DEF Inserted, Continues, SameHolder
        <4> QED BY <1>2, <1>t, <4>1 DEF Births, Alive
      <3>2. ASSUME Updated(k) PROVE FALSE
        BY <1>2, <1>t, <2>4, <3>2, UpdatedSteps DEF Rewritten, Updated, SameHolder
      <3> QED BY <1>t, <2>4, <3>1, <3>2, AnswersBefore DEF Answers
    <2>5. ASSUME NEW r \in Requests, AnswersNow(r)
          PROVE  HasNow(request'[r].secret) /\ \A k \in Requests : AnswersNow(k) => k = r
      <3> HIDE DEF HasNow
      <3> QED BY <2>2, <2>3, <2>4, <2>5
    <2>6. ASSUME current'[a] # None, \A r \in Requests : ~ AnswersNow(r) PROVE HasNow(current'[a])
      <3>1. CASE \E r \in Requests : Told(r) /\ request[r].holder = a
        <4> DEFINE r0 == CHOOSE r \in Requests : Told(r) /\ request[r].holder = a
        <4>1. r0 \in Requests /\ Told(r0) /\ request[r0].holder = a BY <3>1
        <4>2. current'[a] = request[r0].secret BY <3>1 DEF Observe
        <4>3. Answers(r0, a) BY <4>1 DEF Told, Ends, Answers
        <4> HIDE DEF r0, HasNow
        <4> QED BY <2>2, <2>3, <4>1, <4>2, <4>3
      <3>2. CASE ~ \E r \in Requests : Told(r) /\ request[r].holder = a
        <4>1. current'[a] = current[a] BY <3>2 DEF Observe
        <4>2. ASSUME NEW r \in Requests, Answers(r, a) PROVE FALSE
          <5>1. request'[r] # Idle BY <2>1, <3>2, <4>2 DEF Ends, Answers
          <5>2. request'[r].holder = a /\ request'[r] # request[r] /\ request[r].step = "answer"
            BY <1>t, <2>6, <4>2, <5>1, RotationGoesOn DEF Answers, Issues
          <5>3. ~ (Inserted(r) \/ Selected(r) \/ Collapsed(r) \/ Updated(r) \/ FoundToken(r) \/ PassedAgent(r)
                   \/ PassedOwner(r))
            BY <5>2 DEF Inserted, Selected, Collapsed, Updated, FoundToken, PassedAgent, PassedOwner, Continues
          <5>4. ~ (Fresh(r) \/ Bears(r)) BY <5>2, IdleOK DEF Fresh, Bears
          <5> QED BY <1>t, <5>1, <5>2, <5>3, <5>4, StepIsOfOne DEF RequestStep, Stopped, Answered
        <4> HIDE DEF HasNow
        <4> QED BY <2>2, <2>3, <2>6, <4>1, <4>2
      <3> QED BY <3>1, <3>2
    <2> QED BY <2>5, <2>6
  <1>3. ASSUME agents[a] \notin Alive PROVE Good
    <2>1. PICK r \in Requests : Inserted(r) /\ request[r].holder = a
      BY <1>3, <1>t, AgentsBefore DEF Alive
    <2>2. /\ AnswersNow(r) /\ request'[r].secret = request[r].secret /\ request[r].step = "insert"
          /\ \A j \in Requests \ {r} : request'[j] = request[j]
      BY <2>1 DEF Inserted, Continues, SameHolder, Others
    <2>3. ASSUME NEW k \in Requests, AnswersNow(k) PROVE k = r
      BY <1>t, <2>1, <2>2, <2>3 DEF Births
    <2>4. ASSUME NEW i \in Existing', tokens'[i].holder = a PROVE tokens'[i].secret = request'[r].secret
      <3>1. ASSUME i \in Existing PROVE FALSE
        <4>1. tokens[i].holder = a BY <1>t, <2>1, <2>4, <3>1, GrowingStep
        <4> QED BY <1>3, <1>t, <3>1, <4>1 DEF TokensOfAgents
      <3> QED BY <1>t, <2>1, <2>2, <3>1, GrowingStep
    <2> QED BY <2>2, <2>3, <2>4
  <1> QED BY <1>1, <1>2, <1>3

(***************************************************************************)
(* The invariant holds.                                                    *)
(***************************************************************************)
LEMMA InitialTokens ==
    ASSUME Init
    PROVE  /\ TypeOK
           /\ \A r \in Requests : request[r] = Idle
           /\ \A s \in Secrets : handed[s] # None => s \in minted
           /\ \A i \in Existing : /\ i <= issued /\ tokens[i].secret \in minted /\ tokens[i].holder \in Agents
                                  /\ handed[tokens[i].secret] = tokens[i].holder
                                  /\ agents[tokens[i].holder] = "enabled"
           /\ \A a \in Agents : agents[a] \in Alive => \E i \in Existing : tokens[i].holder = a
  <1>1. /\ users \in [Users -> {"enabled", "disabled", "gone"}]
        /\ agents \in [Agents -> {"unborn", "enabled", "disabled", "archived", "gone"}]
        /\ issued \in 0 .. MaxRows
        /\ \A u \in Users : users[u] = "enabled"
    BY DEF Init
  <1>2. tokens \in [Rows -> Token \cup {Absent}]
    <2>1. ASSUME NEW i \in Rows PROVE tokens[i] \in Token \cup {Absent}
      <3>1. tokens[i] \in [holder : Agents, secret : Secrets, expired : {FALSE}] \cup {Absent} BY DEF Init
      <3> QED BY <3>1, HolderTypes DEF Token
    <2>2. tokens = [i \in Rows |-> tokens[i]] BY DEF Init
    <2> QED BY <2>1, <2>2
  <1>3. ASSUME NEW i \in Existing
        PROVE  /\ i \in 1 .. issued /\ tokens[i].holder \in Agents /\ tokens[i].secret \in Secrets
               /\ tokens[i].secret \in minted /\ agents[tokens[i].holder] = "enabled"
    <2>1. tokens[i] \in [holder : Agents, secret : Secrets, expired : {FALSE}] BY DEF Init, Existing
    <2>2. tokens[i].holder \in Agents /\ tokens[i].secret \in Secrets BY <2>1
    <2>3. i \in 1 .. issued /\ tokens[i].secret \in minted BY DEF Init
    <2>4. RowsOf(tokens[i].holder) # {} BY DEF RowsOf
    <2> QED BY <2>2, <2>3, <2>4 DEF Init
  <1>4. \A i, j \in Existing : tokens[i].secret = tokens[j].secret => i = j BY DEF Init
  <1>5. \A i \in Existing : users[Owner(tokens[i].holder)] # "gone" BY <1>1, <1>3, HolderTypes
  <1>6. minted \subseteq Secrets BY <1>3 DEF Init
  <1>7. ASSUME NEW s \in Secrets
        PROVE  /\ s \in minted => \E i \in Existing : tokens[i].secret = s /\ handed[s] = tokens[i].holder
               /\ s \notin minted => handed[s] = None
    <2>1. handed[s] = IF s \in minted THEN tokens[CHOOSE i \in Existing : tokens[i].secret = s].holder ELSE None
      BY DEF Init
    <2>2. s \in minted => \E i \in Existing : tokens[i].secret = s BY DEF Init
    <2> QED BY <2>1, <2>2
  <1>8. handed \in [Secrets -> Holders \cup {None}]
    <2>1. \A s \in Secrets : handed[s] \in Holders \cup {None} BY <1>3, <1>7, HolderTypes
    <2>2. handed = [s \in Secrets |-> handed[s]] BY DEF Init
    <2> QED BY <2>1, <2>2
  <1>9. \A r \in Requests : request[r] = Idle BY DEF Init
  <1>10. request \in [Requests -> RequestState] BY IdleOK DEF Init
  <1>11. /\ knew \in [Requests -> SUBSET Secrets] /\ wasLive \cup eased \subseteq Requests /\ revoked \subseteq Secrets
         /\ current \in [Agents -> Secrets \cup {None}] /\ muddled \subseteq Agents
    BY DEF Init
  <1>12. TypeOK BY <1>1, <1>2, <1>4, <1>5, <1>6, <1>8, <1>10, <1>11 DEF TypeOK
  <1>13. \A a \in Agents : agents[a] \in Alive => \E i \in Existing : tokens[i].holder = a
    BY DEF Init, Alive, RowsOf
  <1>14. \A i \in Existing : /\ i <= issued /\ handed[tokens[i].secret] = tokens[i].holder
    BY <1>3, <1>4, <1>7
  <1> QED BY <1>3, <1>7, <1>9, <1>12, <1>13, <1>14

LEMMA TokenInit ==
    ASSUME Init
    PROVE  TokenInv
  <1>0. /\ TypeOK /\ \A r \in Requests : request[r] = Idle
        /\ \A r \in Requests : request[r].step = "idle" /\ request[r].holder = None
    BY InitialTokens, IdleOK
  <1>1. RequestsOK BY <1>0 DEF RequestsOK, RequestOK, Issues, Pending, Rotates, Admits
  <1>2. SecretsOK BY <1>0, InitialTokens DEF SecretsOK, Issues, Pending
  <1>3. TokensOfAgents BY InitialTokens DEF TokensOfAgents, Alive
  <1>4. Births BY <1>0, HolderTypes DEF Births
  <1>5. Oldest /\ RowsOfRequests BY <1>0 DEF Oldest, RowsOfRequests
  <1>6. AdmittedInv BY <1>0 DEF AdmittedInv, Admits
  <1>7. KnownInv /\ RevokedInv BY DEF Init, KnownInv, RevokedInv
  <1>8. CurrentInv
    <2>1. \A a \in Agents : current[a] = None BY DEF Init
    <2> QED BY <1>0, <2>1 DEF CurrentInv, Answers
  <1> QED BY <1>0, <1>1, <1>2, <1>3, <1>4, <1>5, <1>6, <1>7, <1>8 DEF TokenInv, TablesOK

LEMMA TokenStep ==
    ASSUME TokenInv, [Next]_vars
    PROVE  TokenInv'
  <1>1. CASE Next
    <2>1. TablesOK' /\ Step /\ Keeps /\ Observe BY <1>1, TablesStep DEF TokenInv, Next
    <2>2. RequestsOK' BY <2>1 DEF TablesOK
    <2>3. AdmittedInv' BY <2>1, <2>2, AdmittedStep DEF TokenInv
    <2>4. KnownInv' BY <2>1, <2>2, KnownStep DEF TokenInv
    <2>5. RevokedInv' BY <2>1, RevokedStep DEF TokenInv
    <2>6. CurrentInv'
      <3>1. TablesOK /\ CurrentInv BY DEF TokenInv
      <3> QED BY <2>1, <3>1, CurrentStep DEF CurrentInv, Answers, Has, Alive
    <2> QED BY <2>1, <2>3, <2>4, <2>5, <2>6 DEF TokenInv
  <1>2. CASE UNCHANGED vars
    BY <1>2 DEF vars, tables, history, TokenInv, TablesOK, TypeOK, RequestsOK, RequestOK, SecretsOK, TokensOfAgents,
       Births, Oldest, RowsOfRequests, AdmittedInv, Missing, KnownInv, RevokedInv, CurrentInv, Answers, Has, Existing, Owner
  <1> QED BY <1>1, <1>2

LEMMA AlwaysTokenInv == Spec => []TokenInv
  BY TokenInit, TokenStep, PTL DEF Spec

(* The tables, the requests in flight and the history stay of their types, *)
(* no two tokens have one secret, and none has lost its account.           *)
THEOREM TypeCorrect == Spec => []TypeOK
  <1>1. TokenInv => TypeOK BY DEF TokenInv, TablesOK
  <1> QED BY <1>1, AlwaysTokenInv, PTL

(* resolveAat and resolvePat let no one in whose token, agent and account  *)
(* were never live together while the request ran, though each is read on  *)
(* its own, unless one was enabled again between the reads.                *)
THEOREM AdmittedAlwaysWasLive == Spec => []AdmittedWasLive
  <1>1. TokenInv => AdmittedWasLive
    BY DEF TokenInv, AdmittedInv, AdmittedWasLive, Admits, Missing
  <1> QED BY <1>1, AlwaysTokenInv, PTL

(* A secret told before a rotation, of an archived agent or of a deleted   *)
(* token opens nothing any more, however many rotations overlap and        *)
(* however many rows the agent began with.                                 *)
THEOREM OldSecretsStayStopped == Spec => []OldSecretsStop
  <1>1. TokenInv => OldSecretsStop
    BY DEF TokenInv, RevokedInv, OldSecretsStop, Live
  <1> QED BY <1>1, AlwaysTokenInv, PTL

(* Rotations, however they overlap or fail, never take an agent's last     *)
(* token, and leave working the secret its owner was told last.            *)
THEOREM AgentsAlwaysKeepTheirToken == Spec => []AgentsKeepTheirToken
  <1>1. ASSUME TokenInv PROVE AgentsKeepTheirToken
    <2> SUFFICES ASSUME NEW a \in Agents, agents[a] \in {"enabled", "disabled", "archived"}
                 PROVE  /\ RowsOf(a) # {}
                        /\ \/ current[a] = None \/ a \in muddled
                           \/ \E r \in Requests : request[r].step = "answer" /\ request[r].holder = a
                           \/ {tokens[i].secret : i \in RowsOf(a)} = {current[a]}
      BY DEF AgentsKeepTheirToken
    <2>1. agents[a] \in Alive BY DEF Alive
    <2>2. RowsOf(a) # {} BY <1>1, <2>1 DEF TokenInv, TablesOK, TokensOfAgents, RowsOf
    <2>3. ASSUME current[a] # None, a \notin muddled, \A r \in Requests : ~ Answers(r, a)
          PROVE  {tokens[i].secret : i \in RowsOf(a)} = {current[a]}
      <3>1. \A i \in RowsOf(a) : tokens[i].secret = current[a]
        BY <1>1, <2>1, <2>3 DEF TokenInv, CurrentInv, Has, RowsOf
      <3> QED BY <2>2, <3>1
    <2> QED BY <2>2, <2>3 DEF Answers
  <1> QED BY <1>1, AlwaysTokenInv, PTL
=============================================================================
