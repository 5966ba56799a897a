------------------------ MODULE GithubCommentsProofs ------------------------
(***************************************************************************)
(* Proofs about GithubComments, for any number of repositories, comments,  *)
(* mappings and concurrent handlers.                                       *)
(***************************************************************************)
EXTENDS GithubComments, TLAPS

(***************************************************************************)
(* The invariant.                                                          *)
(***************************************************************************)

(* What a handler carries at each of its steps.                            *)
Reading(s) == s.step \in {"byId", "byName"}
Has(s) == s.step \in {"heal", "adopt", "authorize"}
HandlerOK(s) ==
    /\ Reading(s) => s.comment \in Comments /\ s.event \in Payload /\ s.via = None
    /\ Has(s) => s.comment \in Comments /\ s.event \in Payload /\ s.via \in Mappings /\ s.row \in Mapping
    /\ s.step = "adopt" => s.row.repo = None
    /\ s.step = "write" => /\ s.via \in Mappings /\ s.row \in Mapping /\ s.author \in Users
                           /\ s.comment # None => s.event \in Payload
    /\ s.step = "insert" => s.row \in Mapping /\ s.via = None
    /\ s.step = "idle" => s = Idle

Tables == TypeOK /\ \A h \in Handlers : HandlerOK(handler[h])

(* A handler that is not behind has the mapping as it is.                  *)
UpToDate == \A h \in Handlers : handler[h].via # None /\ h \notin behind => handler[h].row = mapping[handler[h].via]

(* What is logged through a mapping, or about to be, is of the repository  *)
(* whose id the mapping has.                                               *)
OfItsRepo(m, r) == m \in Mapped \ astray => mapping[m].repo = r
EntriesOfRepo == \A i \in Existing : entries[i].comment # None =>
    entries[i].repo \in Repos /\ OfItsRepo(entries[i].via, entries[i].repo)
HandlersOfRepo == \A h \in Handlers :
    handler[h].step \in {"heal", "authorize", "write"} /\ handler[h].comment # None =>
        OfItsRepo(handler[h].via, handler[h].event.repo)

CommentInv ==
    /\ Tables /\ UpToDate /\ EntriesOfRepo /\ HandlersOfRepo
    /\ OneEntryPerComment /\ RefsFollowMapping

LEMMA IdleOK ==
    /\ Idle \in HandlerState /\ HandlerOK(Idle)
    /\ Idle.step = "idle" /\ Idle.via = None /\ Idle.comment = None
  BY DEF Idle, Asked, HandlerState, HandlerOK, Reading, Has

LEMMA NotRows ==
    /\ Unmapped \notin Mapping /\ Absent \notin Entry /\ Unposted \notin Payload
    /\ Unmapped.project = None
  BY NoneAssumption DEF Unmapped, Mapping, Absent, Entry, Unposted, Payload

(***************************************************************************)
(* What a handler becomes.                                                 *)
(***************************************************************************)
Becomes(h, s) == s \in HandlerState /\ HandlerOK(s) /\ handler' = [handler EXCEPT ![h] = s]

(* It ends, or reads on with no mapping.                                   *)
Drops(h, s) == s.via = None

(* It has read a mapping, of the repository if by its id.                  *)
Found(h, s) ==
    /\ handler[h].via = None /\ UNCHANGED tables
    /\ s.via \in Mapped /\ s.row = mapping[s.via]
    /\ s.step \in {"heal", "authorize", "write"} /\ s.comment # None => mapping[s.via].repo = s.event.repo

(* It goes on with the mapping it has: as it is, renamed or adopted.       *)
SameMapping(h, s) ==
    /\ handler[h].via # None /\ handler[h] # Idle /\ s # handler[h]
    /\ s.via = handler[h].via /\ s.event = handler[h].event /\ s.comment = handler[h].comment
Allowed(h, s) == SameMapping(h, s) /\ UNCHANGED tables /\ s.row = handler[h].row /\ handler[h].step = "authorize"
Refreshed(h, s) ==
    /\ SameMapping(h, s)
    /\ s.via \in Mapped => s.row = mapping'[s.via]
    /\ s.via \notin Mapped => s.row = handler[h].row
HealedBy(h, s) == Refreshed(h, s) /\ handler[h].step = "heal"
AdoptedBy(h, s) ==
    /\ Refreshed(h, s) /\ handler[h].step = "adopt"
    /\ s.via \in Mapped => mapping'[s.via].repo = s.event.repo
    /\ s.via \notin Mapped => mapping'[s.via] = mapping[s.via]

Move(h, s) ==
    /\ Becomes(h, s)
    /\ Drops(h, s) \/ Found(h, s) \/ Allowed(h, s) \/ HealedBy(h, s) \/ AdoptedBy(h, s)

LEMMA StopsMoves ==
    ASSUME NEW h \in Handlers, Goes(h, Idle)
    PROVE  \E s : Move(h, s)
  BY IdleOK DEF Goes, Move, Becomes, Drops

LEMMA ReadsMoves ==
    ASSUME Tables, NEW h \in Handlers, NEW m \in Mapped, NEW step \in {"authorize", "heal", "adopt"},
           Reading(handler[h]), Reads(h, m, step),
           step = "adopt" => mapping[m].repo = None,
           step # "adopt" => mapping[m].repo = handler[h].event.repo
    PROVE  \E s : Move(h, s)
  <1> DEFINE q == handler[h]
             s == [q EXCEPT !.step = step, !.via = m, !.row = mapping[m]]
  <1>1. q \in HandlerState /\ HandlerOK(q) /\ m \in Mappings /\ mapping[m] \in Mapping
    BY DEF Tables, TypeOK, Mapped
  <1>2. handler' = [handler EXCEPT ![h] = s] /\ UNCHANGED tables BY DEF Reads, Passes, Goes
  <1>3. q.comment \in Comments /\ q.event \in Payload /\ q.via = None BY <1>1 DEF HandlerOK
  <1> HIDE DEF q
  <1>4. /\ s \in HandlerState /\ s.step = step /\ s.via = m /\ s.row = mapping[m]
        /\ s.comment = q.comment /\ s.event = q.event
    BY <1>1 DEF HandlerState
  <1> HIDE DEF s
  <1>5. HandlerOK(s) BY <1>1, <1>3, <1>4 DEF HandlerOK, Reading, Has
  <1>6. Found(h, s) BY <1>2, <1>3, <1>4 DEF Found, q
  <1> QED BY <1>2, <1>4, <1>5, <1>6 DEF Move, Becomes

LEMMA DeliverMoves ==
    ASSUME Tables, NEW h \in Handlers, NEW c \in Comments, Deliver(h, c)
    PROVE  \E s : Move(h, s)
  <1> DEFINE s == Asked("byId", c, posted[c], None, Unmapped, None)
  <1>1. posted[c] \in Payload BY DEF Tables, TypeOK, Deliver
  <1>2. /\ s \in HandlerState /\ s.step = "byId" /\ s.comment = c /\ s.event = posted[c] /\ s.via = None
    BY <1>1 DEF Asked, HandlerState
  <1>3. handler' = [handler EXCEPT ![h] = s] BY DEF Deliver, Passes, Goes
  <1> HIDE DEF s
  <1>4. HandlerOK(s) BY <1>1, <1>2 DEF HandlerOK, Reading, Has
  <1> QED BY <1>2, <1>3, <1>4 DEF Move, Becomes, Drops

LEMMA ByIdMoves ==
    ASSUME Tables, NEW h \in Handlers, ById(h)
    PROVE  \E s : Move(h, s)
  <1> DEFINE q == handler[h]
             s == [q EXCEPT !.step = "byName"]
  <1>1. q \in HandlerState /\ HandlerOK(q) /\ q.step = "byId" BY DEF Tables, TypeOK, ById
  <1>2. ASSUME NEW m \in Mapped, mapping[m].repo = q.event.repo,
               Reads(h, m, IF mapping[m].name = q.event.name THEN "authorize" ELSE "heal")
        PROVE  \E t : Move(h, t)
    BY <1>1, <1>2, ReadsMoves DEF Reading
  <1>3. CASE Passes(h, s)
    <2>1. /\ s \in HandlerState /\ s.step = "byName" /\ s.via = q.via /\ s.comment = q.comment /\ s.event = q.event
      BY <1>1 DEF HandlerState
    <2>2. handler' = [handler EXCEPT ![h] = s] BY <1>3 DEF Passes, Goes
    <2>3. q.comment \in Comments /\ q.event \in Payload /\ q.via = None BY <1>1 DEF HandlerOK, Reading
    <2> HIDE DEF s, q
    <2>4. HandlerOK(s) BY <2>1, <2>3 DEF HandlerOK, Reading, Has
    <2> QED BY <2>1, <2>2, <2>3, <2>4 DEF Move, Becomes, Drops
  <1> QED BY <1>2, <1>3 DEF ById

LEMMA ByNameMoves ==
    ASSUME Tables, NEW h \in Handlers, ByName(h)
    PROVE  \E s : Move(h, s)
  <1>1. Reading(handler[h]) BY DEF ByName, Reading
  <1>2. ASSUME NEW m \in Mapped, mapping[m].repo = None, Reads(h, m, "adopt") PROVE \E s : Move(h, s)
    BY <1>1, <1>2, ReadsMoves
  <1> QED BY <1>2, StopsMoves DEF ByName, Stops, Passes

LEMMA AuthorizeMoves ==
    ASSUME Tables, NEW h \in Handlers, Authorize(h)
    PROVE  \E s : Move(h, s)
  <1> DEFINE q == handler[h]
             u == identity[Author[q.comment]]
             s == [q EXCEPT !.step = "write", !.author = u]
  <1>1. q \in HandlerState /\ HandlerOK(q) /\ q.step = "authorize" BY DEF Tables, TypeOK, Authorize
  <1>2. q.comment \in Comments /\ q.event \in Payload /\ q.via \in Mappings /\ q.row \in Mapping
    BY <1>1 DEF HandlerOK, Has
  <1>3. CASE u # None /\ Passes(h, s)
    <2>1. u \in Users BY <1>2, <1>3, AuthorAssumption DEF Tables, TypeOK
    <2> HIDE DEF u
    <2>2. /\ s \in HandlerState /\ s.step = "write" /\ s.author = u /\ s.via = q.via /\ s.row = q.row
          /\ s.comment = q.comment /\ s.event = q.event
      BY <1>1, <2>1 DEF HandlerState
    <2>3. handler' = [handler EXCEPT ![h] = s] /\ UNCHANGED tables BY <1>3 DEF Passes, Goes
    <2>4. q # Idle /\ s # q /\ q.via # None BY <1>1, <1>2, <2>2, IdleOK, NoneAssumption
    <2> HIDE DEF s, q
    <2>5. HandlerOK(s) BY <1>2, <2>1, <2>2 DEF HandlerOK, Reading, Has
    <2>6. Allowed(h, s) BY <1>1, <2>2, <2>3, <2>4 DEF Allowed, SameMapping, q
    <2> QED BY <2>2, <2>3, <2>5, <2>6 DEF Move, Becomes
  <1>4. CASE Stops(h) BY <1>4, StopsMoves DEF Stops, Passes
  <1> QED BY <1>3, <1>4 DEF Authorize

LEMMA LogWorkMoves ==
    ASSUME Tables, NEW h \in Handlers, NEW u \in Users, NEW m \in Mappings, LogWork(h, u, m)
    PROVE  \E s : Move(h, s)
  <1> DEFINE s == Asked("write", None, Unposted, m, mapping[m], u)
  <1>1. m \in Mapped /\ mapping[m] \in Mapping /\ handler[h].via = None
    BY IdleOK DEF LogWork, Tables, TypeOK, Mapped
  <1>2. /\ s \in HandlerState /\ s.step = "write" /\ s.comment = None /\ s.via = m /\ s.row = mapping[m] /\ s.author = u
    BY <1>1 DEF Asked, HandlerState
  <1>3. handler' = [handler EXCEPT ![h] = s] /\ UNCHANGED tables BY DEF LogWork, Passes, Goes
  <1> HIDE DEF s
  <1>4. HandlerOK(s) BY <1>1, <1>2 DEF HandlerOK, Reading, Has
  <1>5. Found(h, s) BY <1>1, <1>2, <1>3 DEF Found
  <1> QED BY <1>2, <1>3, <1>4, <1>5 DEF Move, Becomes

LEMMA BeginMappingMoves ==
    ASSUME Tables, NEW h \in Handlers, NEW n \in Names, NEW p \in Projects, NEW a \in Repos \cup {None},
           BeginMapping(h, n, p, a)
    PROVE  \E s : Move(h, s)
  <1> DEFINE row == [name |-> n, repo |-> a, project |-> p]
             s == Asked("insert", None, Unposted, None, row, None)
  <1>1. row \in Mapping BY DEF Mapping
  <1>2. s \in HandlerState /\ s.step = "insert" /\ s.via = None /\ s.row = row
    BY <1>1 DEF Asked, HandlerState
  <1>3. handler' = [handler EXCEPT ![h] = s] BY DEF BeginMapping, Passes, Goes
  <1> HIDE DEF s
  <1>4. HandlerOK(s) BY <1>1, <1>2 DEF HandlerOK, Reading, Has
  <1> QED BY <1>2, <1>3, <1>4 DEF Move, Becomes, Drops

(* A healed or adopted mapping is the row the handler goes on with.        *)
LEMMA RefreshMoves ==
    ASSUME Tables, NEW h \in Handlers, Has(handler[h]), handler[h].step # "authorize",
           mapping'[handler[h].via] \in Mapping \cup {Unmapped},
           handler[h].via \in Mapped => mapping'[handler[h].via] \in Mapping,
           Goes(h, [handler[h] EXCEPT !.step = "authorize",
                       !.row = IF handler[h].via \in Mapped THEN mapping'[handler[h].via] ELSE @])
    PROVE  \E s : Becomes(h, s) /\ Refreshed(h, s)
  <1> DEFINE q == handler[h]
             row == IF q.via \in Mapped THEN mapping'[q.via] ELSE q.row
             s == [q EXCEPT !.step = "authorize", !.row = row]
  <1>1. q \in HandlerState /\ HandlerOK(q) BY DEF Tables, TypeOK
  <1>2. q.comment \in Comments /\ q.event \in Payload /\ q.via \in Mappings /\ q.row \in Mapping
    BY <1>1 DEF HandlerOK
  <1>3. handler' = [handler EXCEPT ![h] = s] BY DEF Goes
  <1>4. row \in Mapping BY <1>2
  <1> HIDE DEF row, q
  <1>5. /\ s \in HandlerState /\ s.step = "authorize" /\ s.row = row /\ s.via = q.via
        /\ s.comment = q.comment /\ s.event = q.event
    BY <1>1, <1>4 DEF HandlerState
  <1>6. q # Idle /\ s # q /\ q.via # None BY <1>2, <1>5, IdleOK, NoneAssumption DEF q
  <1> HIDE DEF s
  <1>7. HandlerOK(s) BY <1>2, <1>4, <1>5 DEF HandlerOK, Reading, Has
  <1>8. Refreshed(h, s) BY <1>5, <1>6 DEF Refreshed, SameMapping, row, q
  <1> QED BY <1>3, <1>5, <1>7, <1>8 DEF Becomes

LEMMA HealMoves ==
    ASSUME Tables, NEW h \in Handlers, Heal(h)
    PROVE  \E s : Move(h, s)
  <1> DEFINE q == handler[h]
  <1>1. q \in HandlerState /\ HandlerOK(q) /\ Has(q) /\ q.step = "heal"
    BY DEF Tables, TypeOK, Heal, Has
  <1>2. q.comment \in Comments /\ q.event \in Payload /\ q.via \in Mappings BY <1>1 DEF HandlerOK
  <1>3. CASE Stops(h) BY <1>3, StopsMoves DEF Stops, Passes
  <1>4. CASE ~ Stops(h)
    <2>1. /\ mapping' = [mapping EXCEPT ![q.via] = IF q.via \in Mapped THEN [@ EXCEPT !.name = q.event.name] ELSE @]
          /\ Goes(h, [q EXCEPT !.step = "authorize", !.row = IF q.via \in Mapped THEN mapping'[q.via] ELSE @])
      BY <1>4 DEF Heal
    <2>2. mapping \in [Mappings -> Mapping \cup {Unmapped}] /\ q.event.name \in Names
      BY <1>2 DEF Tables, TypeOK, Payload
    <2>3. CASE q.via \in Mapped
      <3>1. mapping[q.via] \in Mapping BY <1>2, <2>2, <2>3 DEF Mapped
      <3>2. [mapping[q.via] EXCEPT !.name = q.event.name] \in Mapping BY <2>2, <3>1 DEF Mapping
      <3>3. mapping'[q.via] = [mapping[q.via] EXCEPT !.name = q.event.name] BY <1>2, <2>1, <2>2, <2>3
      <3>4. mapping'[q.via] \in Mapping BY <3>2, <3>3
      <3> QED BY <1>1, <2>1, <3>4, RefreshMoves DEF Move, HealedBy
    <2>4. CASE q.via \notin Mapped
      <3>1. mapping'[q.via] = mapping[q.via] BY <1>2, <2>1, <2>2, <2>4
      <3>2. mapping'[q.via] \in Mapping \cup {Unmapped} BY <1>2, <2>2, <3>1
      <3> QED BY <1>1, <2>1, <2>4, <3>2, RefreshMoves DEF Move, HealedBy
    <2> QED BY <2>3, <2>4
  <1> QED BY <1>3, <1>4

LEMMA AdoptMoves ==
    ASSUME Tables, NEW h \in Handlers, Adopt(h)
    PROVE  \E s : Move(h, s)
  <1> DEFINE q == handler[h]
  <1>1. q \in HandlerState /\ HandlerOK(q) /\ Has(q) /\ q.step = "adopt"
    BY DEF Tables, TypeOK, Adopt, Has
  <1>2. q.comment \in Comments /\ q.event \in Payload /\ q.via \in Mappings BY <1>1 DEF HandlerOK
  <1>3. CASE Stops(h) BY <1>3, StopsMoves DEF Stops, Passes
  <1>4. CASE ~ Stops(h)
    <2>1. /\ mapping' = [mapping EXCEPT ![q.via] = IF q.via \in Mapped THEN [@ EXCEPT !.repo = q.event.repo] ELSE @]
          /\ Goes(h, [q EXCEPT !.step = "authorize", !.row = IF q.via \in Mapped THEN mapping'[q.via] ELSE @])
      BY <1>4 DEF Adopt
    <2>2. mapping \in [Mappings -> Mapping \cup {Unmapped}] /\ q.event.repo \in Repos
      BY <1>2 DEF Tables, TypeOK, Payload
    <2>3. CASE q.via \in Mapped
      <3>1. mapping[q.via] \in Mapping BY <1>2, <2>2, <2>3 DEF Mapped
      <3>2. /\ [mapping[q.via] EXCEPT !.repo = q.event.repo] \in Mapping
            /\ [mapping[q.via] EXCEPT !.repo = q.event.repo].repo = q.event.repo
        BY <2>2, <3>1 DEF Mapping
      <3>3. mapping'[q.via] = [mapping[q.via] EXCEPT !.repo = q.event.repo] BY <1>2, <2>1, <2>2, <2>3
      <3>4. mapping'[q.via] \in Mapping /\ mapping'[q.via].repo = q.event.repo BY <3>2, <3>3
      <3>5. PICK s : Becomes(h, s) /\ Refreshed(h, s) BY <1>1, <2>1, <3>4, RefreshMoves
      <3>6. s.via = q.via /\ s.event = q.event BY <3>5 DEF Refreshed, SameMapping
      <3>7. AdoptedBy(h, s) BY <1>1, <2>3, <3>4, <3>5, <3>6 DEF AdoptedBy
      <3> QED BY <3>5, <3>7 DEF Move
    <2>4. CASE q.via \notin Mapped
      <3>1. mapping'[q.via] = mapping[q.via] BY <1>2, <2>1, <2>2, <2>4
      <3>2. mapping'[q.via] \in Mapping \cup {Unmapped} BY <1>2, <2>2, <3>1
      <3>3. PICK s : Becomes(h, s) /\ Refreshed(h, s) BY <1>1, <2>1, <2>4, <3>2, RefreshMoves
      <3>4. s.via = q.via BY <3>3 DEF Refreshed, SameMapping
      <3>5. AdoptedBy(h, s) BY <1>1, <2>4, <3>1, <3>3, <3>4 DEF AdoptedBy
      <3> QED BY <3>3, <3>5 DEF Move
    <2> QED BY <2>3, <2>4
  <1> QED BY <1>3, <1>4

LEMMA HandleMoves ==
    ASSUME Tables, NEW h \in Handlers, Handle(h)
    PROVE  \E s : Move(h, s)
  <1>1. CASE Write(h) BY <1>1, StopsMoves DEF Write, Stops, Passes
  <1>2. CASE Fail(h) BY <1>2, StopsMoves DEF Fail, Stops, Passes
  <1>3. ASSUME NEW m \in Mappings, Insert(h, m) PROVE \E s : Move(h, s)
    BY <1>3, StopsMoves DEF Insert, Stops, Passes
  <1> QED BY <1>1, <1>2, <1>3, DeliverMoves, ByIdMoves, ByNameMoves, AuthorizeMoves, LogWorkMoves,
             BeginMappingMoves, HealMoves, AdoptMoves DEF Handle

LEMMA AroundMoves ==
    ASSUME Around
    PROVE  UNCHANGED <<handler, logged>>
  BY DEF Around, Rename, Comment, Link, Unlink, Leave, DeleteMapping, DeleteProject, DeleteEntry, tables

(***************************************************************************)
(* What a mapping becomes.                                                 *)
(***************************************************************************)
Healed(h, m) ==
    /\ handler[h].step = "heal" /\ handler[h].via = m /\ m \in Mapped /\ Acts(h)
    /\ mapping'[m] = [mapping[m] EXCEPT !.name = handler[h].event.name]
    /\ \A k \in Mapped \ {m} : mapping[k].name # handler[h].event.name
    /\ \A k \in Mappings \ {m} : mapping'[k] = mapping[k]
    /\ entries' = [i \in Ids |-> Renamed(i, handler[h].row.name, handler[h].event.name)]
    /\ projects' = projects
Adopted(h, m) ==
    /\ handler[h].step = "adopt" /\ handler[h].via = m /\ m \in Mapped /\ Acts(h)
    /\ mapping'[m] = [mapping[m] EXCEPT !.repo = handler[h].event.repo]
    /\ \A k \in Mapped \ {m} : mapping[k].repo # handler[h].event.repo
    /\ \A k \in Mappings \ {m} : mapping'[k] = mapping[k]
    /\ UNCHANGED <<projects, entries>>
Made(m) ==
    /\ m \notin Mapped /\ mapping'[m] \in Mapping /\ mapping'[m].project \in projects
    /\ \A k \in Mapped : /\ mapping[k].name # mapping'[m].name
                         /\ mapping'[m].repo # None => mapping[k].repo # mapping'[m].repo
    /\ \A k \in Mappings \ {m} : mapping'[k] = mapping[k]
    /\ UNCHANGED <<projects, entries>>
    /\ \A i \in Existing : entries[i].via # m
    /\ \A h \in Handlers : handler[h].via # m /\ handler'[h].via # m
Shrinks ==
    /\ \A m \in Mappings : mapping'[m] \in {mapping[m], Unmapped}
    /\ \A m \in Mappings : mapping'[m] # Unmapped /\ mapping[m].project \in projects => mapping[m].project \in projects'
    /\ projects' \subseteq projects

MappingStep ==
    /\ mapping' \in [Mappings -> Mapping \cup {Unmapped}]
    /\ \/ Shrinks \/ \E m \in Mappings : Made(m)
       \/ \E h \in Handlers, m \in Mappings : Healed(h, m) \/ Adopted(h, m)

LEMMA HealMaps ==
    ASSUME Tables, NEW h \in Handlers, Heal(h)
    PROVE  MappingStep
  <1> DEFINE q == handler[h]
  <1>1. q \in HandlerState /\ HandlerOK(q) /\ Has(q) /\ q.step = "heal"
    BY DEF Tables, TypeOK, Heal, Has
  <1>2. q.comment \in Comments /\ q.event \in Payload /\ q.via \in Mappings BY <1>1 DEF HandlerOK
  <1>3. mapping \in [Mappings -> Mapping \cup {Unmapped}] /\ q.event.name \in Names
    BY <1>2 DEF Tables, TypeOK, Payload
  <1>4. CASE UNCHANGED tables BY <1>3, <1>4 DEF tables, MappingStep, Shrinks
  <1>5. CASE ~ UNCHANGED tables
    <2>1. /\ mapping' = [mapping EXCEPT ![q.via] = IF q.via \in Mapped THEN [@ EXCEPT !.name = q.event.name] ELSE @]
          /\ \A m \in Mapped \ {q.via} : q.via \in Mapped => mapping[m].name # q.event.name
          /\ entries' = [i \in Ids |-> Renamed(i, q.row.name, q.event.name)]
          /\ Goes(h, [q EXCEPT !.step = "authorize", !.row = IF q.via \in Mapped THEN mapping'[q.via] ELSE @])
          /\ projects' = projects
      BY <1>5 DEF Heal, Stops, Passes
    <2>2. CASE q.via \in Mapped
      <3>1. mapping[q.via] \in Mapping BY <1>2, <1>3, <2>2 DEF Mapped
      <3>2. [mapping[q.via] EXCEPT !.name = q.event.name] \in Mapping BY <1>3, <3>1 DEF Mapping
      <3>3. /\ mapping'[q.via] = [mapping[q.via] EXCEPT !.name = q.event.name]
            /\ \A k \in Mappings \ {q.via} : mapping'[k] = mapping[k]
        BY <1>2, <1>3, <2>1, <2>2
      <3>4. mapping' \in [Mappings -> Mapping \cup {Unmapped}] BY <1>2, <1>3, <2>1, <2>2, <3>2
      <3>5. [q EXCEPT !.step = "authorize", !.row = IF q.via \in Mapped THEN mapping'[q.via] ELSE @].step = "authorize"
        BY <1>1 DEF HandlerState
      <3>6. handler'[h].step = "authorize" BY <2>1, <3>5 DEF Goes, Tables, TypeOK
      <3>7. Acts(h) BY <1>1, <3>6, IdleOK DEF Acts
      <3>8. Healed(h, q.via) BY <1>1, <2>1, <2>2, <3>3, <3>7 DEF Healed
      <3> QED BY <1>2, <3>4, <3>8 DEF MappingStep
    <2>3. CASE q.via \notin Mapped
      <3>1. mapping' = mapping BY <1>2, <1>3, <2>1, <2>3
      <3> QED BY <1>3, <2>1, <3>1 DEF MappingStep, Shrinks
    <2> QED BY <2>2, <2>3
  <1> QED BY <1>4, <1>5

LEMMA AdoptMaps ==
    ASSUME Tables, NEW h \in Handlers, Adopt(h)
    PROVE  MappingStep
  <1> DEFINE q == handler[h]
  <1>1. q \in HandlerState /\ HandlerOK(q) /\ Has(q) /\ q.step = "adopt"
    BY DEF Tables, TypeOK, Adopt, Has
  <1>2. q.comment \in Comments /\ q.event \in Payload /\ q.via \in Mappings BY <1>1 DEF HandlerOK
  <1>3. mapping \in [Mappings -> Mapping \cup {Unmapped}] /\ q.event.repo \in Repos
    BY <1>2 DEF Tables, TypeOK, Payload
  <1>4. CASE UNCHANGED tables BY <1>3, <1>4 DEF tables, MappingStep, Shrinks
  <1>5. CASE ~ UNCHANGED tables
    <2>1. /\ mapping' = [mapping EXCEPT ![q.via] = IF q.via \in Mapped THEN [@ EXCEPT !.repo = q.event.repo] ELSE @]
          /\ \A m \in Mapped \ {q.via} : q.via \in Mapped => mapping[m].repo # q.event.repo
          /\ Goes(h, [q EXCEPT !.step = "authorize", !.row = IF q.via \in Mapped THEN mapping'[q.via] ELSE @])
          /\ UNCHANGED <<projects, entries>>
      BY <1>5 DEF Adopt, Stops, Passes
    <2>2. CASE q.via \in Mapped
      <3>1. mapping[q.via] \in Mapping BY <1>2, <1>3, <2>2 DEF Mapped
      <3>2. [mapping[q.via] EXCEPT !.repo = q.event.repo] \in Mapping BY <1>3, <3>1 DEF Mapping
      <3>3. /\ mapping'[q.via] = [mapping[q.via] EXCEPT !.repo = q.event.repo]
            /\ \A k \in Mappings \ {q.via} : mapping'[k] = mapping[k]
        BY <1>2, <1>3, <2>1, <2>2
      <3>4. mapping' \in [Mappings -> Mapping \cup {Unmapped}] BY <1>2, <1>3, <2>1, <2>2, <3>2
      <3>5. [q EXCEPT !.step = "authorize", !.row = IF q.via \in Mapped THEN mapping'[q.via] ELSE @].step = "authorize"
        BY <1>1 DEF HandlerState
      <3>6. handler'[h].step = "authorize" BY <2>1, <3>5 DEF Goes, Tables, TypeOK
      <3>7. Acts(h) BY <1>1, <3>6, IdleOK DEF Acts
      <3>8. Adopted(h, q.via) BY <1>1, <2>1, <2>2, <3>3, <3>7 DEF Adopted
      <3> QED BY <1>2, <3>4, <3>8 DEF MappingStep
    <2>3. CASE q.via \notin Mapped
      <3>1. mapping' = mapping BY <1>2, <1>3, <2>1, <2>3
      <3> QED BY <1>3, <2>1, <3>1 DEF MappingStep, Shrinks
    <2> QED BY <2>2, <2>3
  <1> QED BY <1>4, <1>5

LEMMA InsertMaps ==
    ASSUME Tables, NEW h \in Handlers, NEW m \in Mappings, Insert(h, m)
    PROVE  MappingStep
  <1> DEFINE q == handler[h]
  <1>1. q \in HandlerState /\ HandlerOK(q) /\ q.row \in Mapping BY DEF Tables, TypeOK, Insert, HandlerOK
  <1>2. mapping \in [Mappings -> Mapping \cup {Unmapped}] BY DEF Tables, TypeOK
  <1>3. CASE UNCHANGED tables BY <1>2, <1>3 DEF tables, MappingStep, Shrinks
  <1>4. CASE ~ UNCHANGED tables
    <2>1. /\ \A k \in Mapped : mapping[k].name # q.row.name /\ (q.row.repo # None => mapping[k].repo # q.row.repo)
          /\ q.row.project \in projects
          /\ m \notin Mapped /\ \A i \in Existing : entries[i].via # m
          /\ \A k \in Handlers : handler[k].via # m
          /\ mapping' = [mapping EXCEPT ![m] = q.row]
          /\ Goes(h, Idle)
          /\ UNCHANGED <<projects, entries>>
      BY <1>4 DEF Insert, Stops, Passes
    <2>2. /\ mapping'[m] = q.row /\ mapping' \in [Mappings -> Mapping \cup {Unmapped}]
          /\ \A k \in Mappings \ {m} : mapping'[k] = mapping[k]
      BY <1>1, <1>2, <2>1
    <2>3. \A k \in Handlers : handler'[k].via # m
      BY <2>1, IdleOK, NoneAssumption DEF Goes, Tables, TypeOK
    <2>4. Made(m) BY <1>1, <2>1, <2>2, <2>3 DEF Made
    <2> QED BY <2>2, <2>4 DEF MappingStep
  <1> QED BY <1>3, <1>4

LEMMA MapsStep ==
    ASSUME Tables, Around \/ \E h \in Handlers : Handle(h)
    PROVE  MappingStep
  <1>1. mapping \in [Mappings -> Mapping \cup {Unmapped}] BY DEF Tables, TypeOK
  <1>2. ASSUME UNCHANGED <<projects, mapping>> PROVE MappingStep BY <1>1, <1>2 DEF MappingStep, Shrinks
  <1>3. ASSUME NEW m \in Mappings, DeleteMapping(m) PROVE MappingStep
    BY <1>1, <1>3 DEF DeleteMapping, MappingStep, Shrinks
  <1>4. ASSUME NEW p \in Projects, DeleteProject(p) PROVE MappingStep
    <2>1. mapping' = [m \in Mappings |-> IF mapping[m].project = p THEN Unmapped ELSE mapping[m]]
      BY <1>4 DEF DeleteProject
    <2>2. Shrinks BY <1>1, <1>4, <2>1 DEF DeleteProject, Shrinks
    <2> QED BY <1>1, <2>1, <2>2 DEF MappingStep
  <1>5. ASSUME Around PROVE MappingStep
    BY <1>2, <1>3, <1>4, <1>5 DEF Around, Rename, Comment, Link, Unlink, Leave, DeleteEntry, tables
  <1>6. ASSUME NEW h \in Handlers, Handle(h) PROVE MappingStep
    <2>1. ASSUME \/ \E c \in Comments : Deliver(h, c)
                 \/ ById(h) \/ ByName(h) \/ Authorize(h) \/ Write(h) \/ Fail(h)
                 \/ \E u \in Users, m \in Mappings : LogWork(h, u, m)
                 \/ \E n \in Names, p \in Projects, a \in Repos \cup {None} : BeginMapping(h, n, p, a)
          PROVE  UNCHANGED <<projects, mapping>>
      BY <2>1 DEF Deliver, ById, ByName, Authorize, Write, Fail, LogWork, BeginMapping, Reads, Stops, Passes, tables
    <2> QED BY <1>2, <1>6, <2>1, HealMaps, AdoptMaps, InsertMaps DEF Handle
  <1> QED BY <1>5, <1>6

(***************************************************************************)
(* What an entry becomes.                                                  *)
(***************************************************************************)
RefsHealed(h) ==
    /\ handler[h].step = "heal" /\ Acts(h) /\ handler[h].via \in Mappings /\ handler[h].row \in Mapping
    /\ handler[h].event.name \in Names
    /\ handler[h].via \in Mapped => Healed(h, handler[h].via)
    /\ entries' = [i \in Ids |-> Renamed(i, handler[h].row.name, handler[h].event.name)]
    /\ logged' = logged
Logged(h) ==
    LET s == handler[h] IN
    /\ s.step = "write" /\ Acts(h) /\ s.via \in Mappings /\ s.row \in Mapping
    /\ s.comment # None => s.event \in Payload
    /\ Unlogged(s.comment) /\ UNCHANGED mapping
    /\ logged' = logged + 1 /\ logged' \in Ids
    /\ entries'[logged'] \in Entry
    /\ entries'[logged'] = [name |-> s.row.name, comment |-> s.comment, project |-> s.row.project,
                            author |-> s.author, via |-> s.via, repo |-> s.event.repo]
    /\ \A i \in Ids \ {logged'} : entries'[i] = entries[i]

EntriesStep ==
    /\ entries' \in [Ids -> Entry \cup {Absent}] /\ logged' \in 0 .. MaxEntries
    /\ \/ logged' = logged /\ \A i \in Ids : entries'[i] \in {entries[i], Absent}
       \/ \E h \in Handlers : RefsHealed(h) \/ Logged(h)

LEMMA RenamedEntry ==
    ASSUME Tables, NEW i \in Ids, NEW from \in Names, NEW to \in Names
    PROVE  /\ Renamed(i, from, to) \in Entry \cup {Absent}
           /\ Renamed(i, from, to) = Absent <=> entries[i] = Absent
           /\ Renamed(i, from, to).via = entries[i].via /\ Renamed(i, from, to).comment = entries[i].comment
           /\ Renamed(i, from, to).repo = entries[i].repo
           /\ Renamed(i, from, to).name = IF entries[i].name = from THEN to ELSE entries[i].name
  <1>1. CASE entries[i] = Absent
    <2>1. entries[i].name # from BY <1>1, NoneAssumption DEF Absent
    <2> QED BY <1>1, <2>1 DEF Renamed
  <1>2. CASE entries[i] # Absent
    <2>1. entries[i] \in Entry BY <1>2 DEF Tables, TypeOK
    <2>2. Renamed(i, from, to) \in Entry BY <2>1 DEF Renamed, Entry
    <2> QED BY <1>2, <2>1, <2>2, NotRows DEF Renamed, Entry
  <1> QED BY <1>1, <1>2

LEMMA HealLogs ==
    ASSUME Tables, NEW h \in Handlers, Heal(h)
    PROVE  EntriesStep
  <1> DEFINE q == handler[h]
  <1>1. q \in HandlerState /\ HandlerOK(q) /\ Has(q) /\ q.step = "heal"
    BY DEF Tables, TypeOK, Heal, Has
  <1>2. q.event \in Payload /\ q.via \in Mappings /\ q.row \in Mapping BY <1>1 DEF HandlerOK
  <1>3. q.event.name \in Names /\ q.row.name \in Names BY <1>2 DEF Payload, Mapping
  <1>4. CASE UNCHANGED tables BY <1>4 DEF tables, EntriesStep, Tables, TypeOK
  <1>5. CASE ~ UNCHANGED tables
    <2>1. /\ mapping' = [mapping EXCEPT ![q.via] = IF q.via \in Mapped THEN [@ EXCEPT !.name = q.event.name] ELSE @]
          /\ \A m \in Mapped \ {q.via} : q.via \in Mapped => mapping[m].name # q.event.name
          /\ entries' = [i \in Ids |-> Renamed(i, q.row.name, q.event.name)]
          /\ Goes(h, [q EXCEPT !.step = "authorize", !.row = IF q.via \in Mapped THEN mapping'[q.via] ELSE @])
          /\ projects' = projects /\ logged' = logged
      BY <1>5 DEF Heal, Stops, Passes
    <2>2. [q EXCEPT !.step = "authorize", !.row = IF q.via \in Mapped THEN mapping'[q.via] ELSE @].step = "authorize"
      BY <1>1 DEF HandlerState
    <2>3. handler'[h].step = "authorize" BY <2>1, <2>2 DEF Goes, Tables, TypeOK
    <2>4. Acts(h) BY <1>1, <2>3, IdleOK DEF Acts
    <2>5. ASSUME q.via \in Mapped PROVE Healed(h, q.via)
      <3>1. mapping \in [Mappings -> Mapping \cup {Unmapped}] BY DEF Tables, TypeOK
      <3>2. /\ mapping'[q.via] = [mapping[q.via] EXCEPT !.name = q.event.name]
            /\ \A k \in Mappings \ {q.via} : mapping'[k] = mapping[k]
        BY <1>2, <2>1, <2>5, <3>1
      <3> QED BY <1>1, <2>1, <2>4, <2>5, <3>2 DEF Healed
    <2>6. RefsHealed(h) BY <1>1, <1>2, <1>3, <2>1, <2>4, <2>5 DEF RefsHealed
    <2>7. \A i \in Ids : Renamed(i, q.row.name, q.event.name) \in Entry \cup {Absent} BY <1>3, RenamedEntry
    <2> QED BY <2>1, <2>6, <2>7 DEF EntriesStep, Tables, TypeOK
  <1> QED BY <1>4, <1>5

LEMMA WriteLogs ==
    ASSUME Tables, NEW h \in Handlers, Write(h)
    PROVE  EntriesStep
  <1> DEFINE q == handler[h]
             e == [name |-> q.row.name, comment |-> q.comment, project |-> q.row.project,
                   author |-> q.author, via |-> q.via, repo |-> q.event.repo]
  <1>1. q \in HandlerState /\ HandlerOK(q) /\ q.step = "write" BY DEF Tables, TypeOK, Write
  <1>2. /\ q.via \in Mappings /\ q.row \in Mapping /\ q.author \in Users
        /\ q.comment # None => q.event \in Payload
    BY <1>1 DEF HandlerOK
  <1>3. q.row.name \in Names /\ q.row.project \in Projects /\ q.comment \in Comments \cup {None}
        /\ q.event.repo \in Repos \cup {None}
    BY <1>1, <1>2 DEF Mapping, HandlerState, Payload, Unposted
  <1>4. CASE UNCHANGED tables BY <1>4 DEF tables, EntriesStep, Tables, TypeOK
  <1>5. CASE ~ UNCHANGED tables
    <2>1. /\ Unlogged(q.comment) /\ logged < MaxEntries /\ logged' = logged + 1
          /\ entries' = [entries EXCEPT ![logged'] = e]
          /\ Goes(h, Idle) /\ UNCHANGED <<projects, mapping>>
      BY <1>5 DEF Write, Stops, Passes
    <2>2. logged' \in Ids /\ logged' \in 0 .. MaxEntries /\ entries \in [Ids -> Entry \cup {Absent}]
      BY <2>1, EntriesAssumption DEF Tables, TypeOK, Ids
    <2>3. e \in Entry BY <1>2, <1>3 DEF Entry
    <2>4. Acts(h) BY <1>1, <2>1, IdleOK DEF Acts, Goes, Tables, TypeOK
    <2> HIDE DEF e
    <2>5. /\ entries' \in [Ids -> Entry \cup {Absent}] /\ entries'[logged'] = e
          /\ \A i \in Ids \ {logged'} : entries'[i] = entries[i]
      BY <2>1, <2>2, <2>3
    <2>6. Logged(h) BY <1>1, <1>2, <2>1, <2>2, <2>3, <2>4, <2>5 DEF Logged, e
    <2> QED BY <2>2, <2>5, <2>6 DEF EntriesStep
  <1> QED BY <1>4, <1>5

LEMMA LogsStep ==
    ASSUME Tables, Around \/ \E h \in Handlers : Handle(h)
    PROVE  EntriesStep
  <1>1. entries \in [Ids -> Entry \cup {Absent}] /\ logged \in 0 .. MaxEntries BY DEF Tables, TypeOK
  <1>2. ASSUME UNCHANGED <<entries, logged>> PROVE EntriesStep BY <1>1, <1>2 DEF EntriesStep
  <1>3. ASSUME NEW i \in Ids, DeleteEntry(i) PROVE EntriesStep
    BY <1>1, <1>3 DEF DeleteEntry, EntriesStep
  <1>4. ASSUME Around PROVE EntriesStep
    BY <1>2, <1>3, <1>4 DEF Around, Rename, Comment, Link, Unlink, Leave, DeleteMapping, DeleteProject, tables
  <1>5. ASSUME NEW h \in Handlers, Handle(h) PROVE EntriesStep
    <2>1. ASSUME \/ \E c \in Comments : Deliver(h, c)
                 \/ ById(h) \/ ByName(h) \/ Adopt(h) \/ Authorize(h) \/ Fail(h)
                 \/ \E u \in Users, m \in Mappings : LogWork(h, u, m)
                 \/ \E n \in Names, p \in Projects, a \in Repos \cup {None} : BeginMapping(h, n, p, a)
                 \/ \E m \in Mappings : Insert(h, m)
          PROVE  UNCHANGED <<entries, logged>>
      BY <2>1 DEF Deliver, ById, ByName, Adopt, Authorize, Fail, LogWork, BeginMapping, Insert, Reads, Stops,
                  Passes, tables
    <2> QED BY <1>2, <1>5, <2>1, HealLogs, WriteLogs DEF Handle
  <1> QED BY <1>4, <1>5

(***************************************************************************)
(* Types and keys.                                                         *)
(***************************************************************************)
Outside ==
    /\ named \in [Repos -> Names \cup {None}]
    /\ posted \in [Comments -> Payload \cup {Unposted}]
    /\ identity \in [GithubUsers -> Users \cup {None}]
    /\ \A g, h \in GithubUsers : identity[g] = identity[h] /\ identity[g] # None => g = h
    /\ welcome \in [Projects -> SUBSET Users]

LEMMA OutsideStep ==
    ASSUME TypeOK, Around \/ \E h \in Handlers : Handle(h)
    PROVE  Outside'
  <1>1. Outside BY DEF TypeOK, Outside
  <1>2. ASSUME UNCHANGED <<github, people>> PROVE Outside' BY <1>1, <1>2 DEF Outside, github, people
  <1>3. ASSUME NEW a \in Repos, NEW n \in Names, Rename(a, n) PROVE Outside'
    BY <1>1, <1>3 DEF Rename, Outside, people
  <1>4. ASSUME NEW c \in Comments, NEW a \in Repos, Comment(c, a) PROVE Outside'
    <2>1. [repo |-> a, name |-> named[a]] \in Payload BY <1>1, <1>4 DEF Comment, Outside, Payload
    <2>2. posted' \in [Comments -> Payload \cup {Unposted}] BY <1>1, <1>4, <2>1 DEF Comment, Outside
    <2> QED BY <1>1, <1>4, <2>2 DEF Comment, Outside, people
  <1>5. ASSUME NEW u \in Users, NEW g \in GithubUsers, Link(u, g) PROVE Outside'
    BY <1>1, <1>5, NoneAssumption DEF Link, Outside, github
  <1>6. ASSUME NEW g \in GithubUsers, Unlink(g) PROVE Outside'
    BY <1>1, <1>6 DEF Unlink, Outside, github
  <1>7. ASSUME NEW u \in Users, NEW p \in Projects, Leave(u, p) PROVE Outside'
    BY <1>1, <1>7 DEF Leave, Outside, github
  <1>8. CASE Around
    BY <1>2, <1>3, <1>4, <1>5, <1>6, <1>7, <1>8 DEF Around, DeleteMapping, DeleteProject, DeleteEntry
  <1>9. ASSUME NEW h \in Handlers, Handle(h) PROVE UNCHANGED <<github, people>>
    BY <1>9 DEF Handle, Deliver, ById, Heal, ByName, Adopt, Authorize, Write, Fail, LogWork, BeginMapping, Insert
  <1> QED BY <1>2, <1>8, <1>9

KeysOK ==
    /\ \A m, n \in Mapped : mapping[m].name = mapping[n].name => m = n
    /\ \A m, n \in Mapped : mapping[m].repo = mapping[n].repo /\ mapping[m].repo # None => m = n
    /\ \A m \in Mapped : mapping[m].project \in projects
    /\ projects \subseteq Projects

LEMMA KeysStep ==
    ASSUME TypeOK, MappingStep
    PROVE  KeysOK'
  <1>1. /\ KeysOK /\ mapping \in [Mappings -> Mapping \cup {Unmapped}]
        /\ mapping' \in [Mappings -> Mapping \cup {Unmapped}]
    BY DEF TypeOK, KeysOK, MappingStep
  <1>2. Mapped = {m \in Mappings : mapping[m] # Unmapped} /\ Mapped' = {m \in Mappings : mapping'[m] # Unmapped}
    BY DEF Mapped
  <1>3. CASE Shrinks BY <1>1, <1>2, <1>3 DEF Shrinks, KeysOK
  <1>4. ASSUME NEW m \in Mappings, Made(m) PROVE KeysOK'
    <2>1. Mapped' = Mapped \cup {m} /\ \A k \in Mapped : k # m /\ mapping'[k] = mapping[k]
      BY <1>2, <1>4, NotRows DEF Made
    <2> QED BY <1>1, <1>4, <2>1 DEF Made, KeysOK
  <1>5. ASSUME NEW h \in Handlers, NEW m \in Mappings, Healed(h, m) PROVE KeysOK'
    <2>1. mapping[m] \in Mapping BY <1>1, <1>2, <1>5 DEF Healed
    <2>2. /\ mapping'[m].name = handler[h].event.name /\ mapping'[m].repo = mapping[m].repo
          /\ mapping'[m].project = mapping[m].project /\ m \in Mapped /\ Mapped' \subseteq Mapped
      BY <1>2, <1>5, <2>1 DEF Healed, Mapping
    <2>3. \A k \in Mapped \ {m} : mapping'[k] = mapping[k] /\ mapping[k].name # mapping'[m].name
      BY <1>2, <1>5, <2>2 DEF Healed
    <2>4. /\ projects' = projects
          /\ \A k \in Mapped : mapping'[k].repo = mapping[k].repo /\ mapping'[k].project = mapping[k].project
      BY <1>5, <2>2, <2>3 DEF Healed
    <2> QED BY <1>1, <2>2, <2>3, <2>4 DEF KeysOK
  <1>6. ASSUME NEW h \in Handlers, NEW m \in Mappings, Adopted(h, m) PROVE KeysOK'
    <2>1. mapping[m] \in Mapping BY <1>1, <1>2, <1>6 DEF Adopted
    <2>2. /\ mapping'[m].repo = handler[h].event.repo /\ mapping'[m].name = mapping[m].name
          /\ mapping'[m].project = mapping[m].project /\ m \in Mapped /\ Mapped' \subseteq Mapped
      BY <1>2, <1>6, <2>1 DEF Adopted, Mapping
    <2>3. \A k \in Mapped \ {m} : mapping'[k] = mapping[k] /\ mapping[k].repo # mapping'[m].repo
      BY <1>2, <1>6, <2>2 DEF Adopted
    <2>4. /\ projects' = projects
          /\ \A k \in Mapped : mapping'[k].name = mapping[k].name /\ mapping'[k].project = mapping[k].project
      BY <1>6, <2>2, <2>3 DEF Adopted
    <2> QED BY <1>1, <2>2, <2>3, <2>4 DEF KeysOK
  <1> QED BY <1>3, <1>4, <1>5, <1>6 DEF MappingStep

Step == Around \/ \E h \in Handlers : Handle(h)

(* What becomes of a handler in any step.                                  *)
LEMMA MovesStep ==
    ASSUME Tables, Step, NEW h \in Handlers
    PROVE  handler'[h] = handler[h] \/ Move(h, handler'[h])
  <1>1. CASE Around BY <1>1, AroundMoves
  <1>2. ASSUME NEW k \in Handlers, Handle(k) PROVE handler'[h] = handler[h] \/ Move(h, handler'[h])
    <2>1. PICK s : Move(k, s) BY <1>2, HandleMoves
    <2>2. handler' = [handler EXCEPT ![k] = s] BY <2>1 DEF Move, Becomes
    <2>3. handler'[k] = s BY <2>2 DEF Tables, TypeOK
    <2>4. CASE h = k BY <2>1, <2>3, <2>4
    <2>5. CASE h # k BY <2>2, <2>5 DEF Tables, TypeOK
    <2> QED BY <2>4, <2>5
  <1> QED BY <1>1, <1>2 DEF Step

LEMMA TypeStep ==
    ASSUME Tables, Step, Observe
    PROVE  Tables'
  <1>1. TypeOK /\ MappingStep /\ EntriesStep BY MapsStep, LogsStep DEF Step, Tables
  <1>2. Outside' /\ KeysOK' BY <1>1, OutsideStep, KeysStep DEF Step
  <1>3. \A h \in Handlers : handler'[h] \in HandlerState /\ HandlerOK(handler'[h])
    BY MovesStep DEF Move, Becomes, Tables, TypeOK
  <1>4. \E f : handler' = [h \in Handlers |-> f[h]]
    <2>1. CASE Around BY <2>1, AroundMoves DEF Tables, TypeOK
    <2>2. ASSUME NEW h \in Handlers, Handle(h) PROVE \E f : handler' = [k \in Handlers |-> f[k]]
      <3>1. PICK s : Move(h, s) BY <2>2, HandleMoves
      <3>2. handler' = [handler EXCEPT ![h] = s] BY <3>1 DEF Move, Becomes
      <3>3. handler' = [k \in Handlers |-> handler'[k]] BY <3>2 DEF Tables, TypeOK
      <3> QED BY <3>3
    <2> QED BY <2>1, <2>2 DEF Step
  <1>5. handler' \in [Handlers -> HandlerState] BY <1>3, <1>4
  <1>6. behind' \subseteq Handlers /\ astray' \subseteq Ids \cup Mappings BY DEF Observe
  <1>7. TypeOK' BY <1>1, <1>2, <1>5, <1>6 DEF TypeOK, Outside, KeysOK, MappingStep, EntriesStep
  <1> QED BY <1>3, <1>7 DEF Tables

(***************************************************************************)
(* History.                                                                *)
(***************************************************************************)
LEMMA ObservedHandler ==
    ASSUME Observe, NEW h \in Handlers, handler'[h].via # None, h \notin behind'
    PROVE  /\ h \notin behind
           /\ Acts(h) \/ handler[h].via = None \/ mapping'[handler[h].via] = mapping[handler[h].via]
  BY DEF Observe

LEMMA ObservedMapping ==
    ASSUME Observe, NEW m \in Mappings, m \in Mapped', m \notin astray'
    PROVE  m \notin astray /\ \A h \in behind : Acts(h) => mapping'[m] = mapping[m]
  BY DEF Observe, Mapped

LEMMA ObservedEntry ==
    ASSUME Observe, NEW i \in Existing', i \notin astray'
    PROVE  i \notin astray /\ \A h \in behind : Acts(h) => entries'[i] = entries[i]
  BY DEF Observe, Existing

LEMMA UpToDateStep ==
    ASSUME Tables, UpToDate, Step, Observe
    PROVE  UpToDate'
  <1> SUFFICES ASSUME NEW h \in Handlers, handler'[h].via # None, h \notin behind'
               PROVE  handler'[h].row = mapping'[handler'[h].via]
    BY DEF UpToDate
  <1>1. h \notin behind /\ (Acts(h) \/ handler[h].via = None \/ mapping'[handler[h].via] = mapping[handler[h].via])
    BY ObservedHandler
  <1>2. handler[h].via # None => handler[h].row = mapping[handler[h].via] BY <1>1 DEF UpToDate
  <1>3. CASE handler'[h] = handler[h] BY <1>1, <1>2, <1>3 DEF Acts
  <1>4. CASE Found(h, handler'[h]) BY <1>4 DEF Found, tables
  <1>5. CASE Allowed(h, handler'[h]) BY <1>2, <1>5 DEF Allowed, SameMapping, tables
  <1>6. CASE Refreshed(h, handler'[h]) /\ handler[h].step \in {"heal", "adopt"}
    <2>1. handler[h].row \in Mapping /\ handler[h].via \in Mappings
      BY <1>6 DEF Tables, HandlerOK, Has
    <2>2. handler[h].via \in Mapped BY <1>2, <1>6, <2>1, NotRows DEF Refreshed, SameMapping, Mapped
    <2> QED BY <1>6, <2>2 DEF Refreshed, SameMapping
  <1> QED BY <1>3, <1>4, <1>5, <1>6, MovesStep DEF Move, Drops, HealedBy, AdoptedBy

(***************************************************************************)
(* The repository of a mapping.                                            *)
(***************************************************************************)

StaysOfItsRepo(m, r) == m \in Mapped' \ astray' => mapping'[m].repo = r

(* Once something of a repository goes through a mapping, the mapping is   *)
(* that repository's until it is gone or went astray.                      *)
LEMMA RepoStays ==
    ASSUME Tables, UpToDate, MappingStep, Observe, NEW m \in Mappings, NEW r \in Repos,
           OfItsRepo(m, r), ~ Made(m)
    PROVE  StaysOfItsRepo(m, r)
  <1> SUFFICES ASSUME m \in Mapped', m \notin astray' PROVE mapping'[m].repo = r
    BY DEF StaysOfItsRepo
  <1>1. m \notin astray /\ \A h \in behind : Acts(h) => mapping'[m] = mapping[m] BY ObservedMapping
  <1>2. mapping'[m] # Unmapped BY DEF Mapped
  <1>3. mapping'[m] = mapping[m] => mapping'[m].repo = r BY <1>1, <1>2 DEF OfItsRepo, Mapped
  <1>4. CASE Shrinks BY <1>2, <1>3, <1>4 DEF Shrinks
  <1>5. ASSUME NEW k \in Mappings, Made(k) PROVE mapping'[m] = mapping[m]
    BY <1>5 DEF Made
  <1>6. ASSUME NEW h \in Handlers, NEW k \in Mappings, Healed(h, k) PROVE mapping'[m].repo = r
    <2>1. CASE k # m BY <1>3, <1>6, <2>1 DEF Healed
    <2>2. CASE k = m
      <3>1. mapping[m] \in Mapping /\ m \in Mapped BY <1>6, <2>2 DEF Healed, Mapped, Tables, TypeOK
      <3> QED BY <1>1, <1>6, <2>2, <3>1 DEF Healed, OfItsRepo, Mapping
    <2> QED BY <2>1, <2>2
  <1>7. ASSUME NEW h \in Handlers, NEW k \in Mappings, Adopted(h, k) PROVE mapping'[m] = mapping[m]
    <2>1. CASE k # m BY <1>7, <2>1 DEF Adopted
    <2>2. CASE k = m
      <3>1. CASE h \in behind BY <1>1, <1>7, <3>1 DEF Adopted
      <3>2. CASE h \notin behind
        <4>1. handler[h].row = mapping[m] /\ handler[h].row.repo = None
          BY <1>7, <2>2, <3>2, NoneAssumption DEF Adopted, UpToDate, Tables, HandlerOK
        <4>2. mapping[m].repo = r BY <1>1, <1>7, <2>2 DEF Adopted, OfItsRepo
        <4> QED BY <4>1, <4>2, NoneAssumption
      <3> QED BY <3>1, <3>2
    <2> QED BY <2>1, <2>2
  <1> QED BY <1>3, <1>4, <1>5, <1>6, <1>7 DEF MappingStep

LEMMA HandlersOfRepoStep ==
    ASSUME Tables, UpToDate, HandlersOfRepo, Step, Observe
    PROVE  HandlersOfRepo'
  <1> SUFFICES ASSUME NEW h \in Handlers, handler'[h].step \in {"heal", "authorize", "write"},
                      handler'[h].comment # None
               PROVE  StaysOfItsRepo(handler'[h].via, handler'[h].event.repo)
    BY DEF HandlersOfRepo, OfItsRepo, StaysOfItsRepo
  <1> DEFINE s == handler'[h]
             q == handler[h]
  <1>1. MappingStep BY MapsStep DEF Step, Tables
  <1>2. s.via \in Mappings /\ s.event \in Payload BY TypeStep DEF Tables, HandlerOK, Has
  <1>3. s.event.repo \in Repos /\ s.via # None BY <1>2, NoneAssumption DEF Payload
  <1>4. q.via = s.via => ~ Made(s.via) BY DEF Made
  <1>5. OfItsRepo(s.via, s.event.repo) /\ q.via = s.via => StaysOfItsRepo(s.via, s.event.repo)
    BY <1>1, <1>2, <1>3, <1>4, RepoStays
  <1>6. CASE s = q BY <1>5, <1>6 DEF HandlersOfRepo
  <1>7. CASE Found(h, s)
    <2>1. mapping[s.via].repo = s.event.repo /\ mapping' = mapping BY <1>7 DEF Found, tables
    <2> QED BY <2>1 DEF StaysOfItsRepo
  <1>8. CASE Allowed(h, s) \/ HealedBy(h, s)
    BY <1>5, <1>8 DEF Allowed, HealedBy, Refreshed, SameMapping, HandlersOfRepo
  <1>9. CASE AdoptedBy(h, s)
    <2>1. CASE s.via \in Mapped BY <1>9, <2>1 DEF AdoptedBy, StaysOfItsRepo
    <2>2. CASE s.via \notin Mapped
      <3>1. s.via \notin Mapped' BY <1>9, <2>2 DEF AdoptedBy, Mapped
      <3> QED BY <3>1 DEF StaysOfItsRepo
    <2> QED BY <2>1, <2>2
  <1> HIDE DEF s
  <1> QED BY <1>3, <1>6, <1>7, <1>8, <1>9, MovesStep DEF Move, Drops, s

LEMMA EntriesOfRepoStep ==
    ASSUME Tables, UpToDate, EntriesOfRepo, HandlersOfRepo, Step, Observe
    PROVE  EntriesOfRepo'
  <1> SUFFICES ASSUME NEW i \in Existing', entries'[i].comment # None
               PROVE  entries'[i].repo \in Repos /\ StaysOfItsRepo(entries'[i].via, entries'[i].repo)
    BY DEF EntriesOfRepo, OfItsRepo, StaysOfItsRepo
  <1>1. MappingStep /\ EntriesStep BY MapsStep, LogsStep DEF Step, Tables
  <1>2. i \in Ids /\ entries'[i] # Absent BY DEF Existing
  <1>3. ASSUME entries[i] # Absent, entries'[i].via = entries[i].via, entries'[i].repo = entries[i].repo,
               entries'[i].comment = entries[i].comment
        PROVE  entries'[i].repo \in Repos /\ StaysOfItsRepo(entries'[i].via, entries'[i].repo)
    <2>1. i \in Existing /\ entries[i] \in Entry BY <1>2, <1>3 DEF Existing, Tables, TypeOK
    <2>2. entries[i].via \in Mappings BY <2>1 DEF Entry
    <2>3. entries[i].repo \in Repos /\ OfItsRepo(entries[i].via, entries[i].repo) BY <1>3, <2>1 DEF EntriesOfRepo
    <2>4. ~ Made(entries[i].via) BY <2>1 DEF Made
    <2> QED BY <1>1, <1>3, <2>2, <2>3, <2>4, RepoStays
  <1>4. CASE entries'[i] \in {entries[i], Absent} BY <1>2, <1>3, <1>4
  <1>5. ASSUME NEW h \in Handlers, RefsHealed(h)
        PROVE  entries'[i].repo \in Repos /\ StaysOfItsRepo(entries'[i].via, entries'[i].repo)
    <2>1. entries'[i] = Renamed(i, handler[h].row.name, handler[h].event.name) BY <1>2, <1>5 DEF RefsHealed
    <2>2. handler[h].row.name \in Names /\ handler[h].event.name \in Names BY <1>5 DEF RefsHealed, Mapping
    <2> QED BY <1>2, <1>3, <2>1, <2>2, RenamedEntry
  <1>6. ASSUME NEW h \in Handlers, Logged(h)
        PROVE  entries'[i].repo \in Repos /\ StaysOfItsRepo(entries'[i].via, entries'[i].repo)
    <2>1. CASE i # logged' BY <1>2, <1>4, <1>6, <2>1 DEF Logged
    <2>2. CASE i = logged'
      <3> DEFINE q == handler[h]
      <3>1. /\ entries'[i].comment = q.comment /\ entries'[i].via = q.via /\ entries'[i].repo = q.event.repo
            /\ q.step = "write" /\ q.via \in Mappings
        BY <1>6, <2>2 DEF Logged
      <3>2. q.event \in Payload BY <1>6, <3>1 DEF Logged
      <3>3. q.event.repo \in Repos BY <3>2 DEF Payload
      <3>4. OfItsRepo(q.via, q.event.repo) BY <3>1 DEF HandlersOfRepo
      <3>5. ~ Made(q.via) BY DEF Made
      <3> QED BY <1>1, <3>1, <3>3, <3>4, <3>5, RepoStays
    <2> QED BY <2>1, <2>2
  <1> QED BY <1>1, <1>2, <1>4, <1>5, <1>6 DEF EntriesStep

(***************************************************************************)
(* The properties.                                                         *)
(***************************************************************************)
LEMMA OneEntryStep ==
    ASSUME Tables, OneEntryPerComment, EntriesStep
    PROVE  OneEntryPerComment'
  <1>1. \A i \in Ids : entries'[i] = Absent => i \notin Existing' BY DEF Existing
  <1>2. CASE \A i \in Ids : entries'[i] \in {entries[i], Absent}
    BY <1>1, <1>2 DEF OneEntryPerComment, Existing
  <1>3. ASSUME NEW h \in Handlers, RefsHealed(h) PROVE OneEntryPerComment'
    <2>1. handler[h].row.name \in Names /\ handler[h].event.name \in Names BY <1>3 DEF RefsHealed, Mapping
    <2>2. \A i \in Ids : /\ entries'[i].comment = entries[i].comment
                         /\ entries'[i] = Absent <=> entries[i] = Absent
      BY <1>3, <2>1, RenamedEntry DEF RefsHealed
    <2> QED BY <2>2 DEF OneEntryPerComment, Existing
  <1>4. ASSUME NEW h \in Handlers, Logged(h) PROVE OneEntryPerComment'
    <2>1. /\ entries'[logged'].comment = handler[h].comment
          /\ \A i \in Ids \ {logged'} : entries'[i] = entries[i]
          /\ Unlogged(handler[h].comment)
      BY <1>4 DEF Logged
    <2>2. \A i \in Existing' : i \in Ids /\ (i # logged' => i \in Existing /\ entries'[i] = entries[i])
      BY <2>1 DEF Existing
    <2> QED BY <2>1, <2>2 DEF OneEntryPerComment, Unlogged
  <1> QED BY <1>2, <1>3, <1>4 DEF EntriesStep

(* The name of an entry, and what the name of its mapping becomes.         *)
LEMMA RefStep ==
    ASSUME CommentInv, Step, Observe, NEW i \in Existing', i \notin astray',
           NEW m \in Mapped', m \notin astray', entries'[i].via = m
    PROVE  entries'[i].name = mapping'[m].name
  <1>1. /\ Tables /\ MappingStep /\ EntriesStep
        /\ \A x, y \in Mapped : mapping[x].name = mapping[y].name => x = y
    BY MapsStep, LogsStep DEF CommentInv, Step, Tables, TypeOK
  <1>2. /\ i \in Ids /\ entries'[i] # Absent /\ m \in Mappings /\ mapping'[m] # Unmapped
        /\ i \notin astray /\ m \notin astray
    BY ObservedEntry, ObservedMapping DEF Existing, Mapped
  <1>3. \A h \in behind : Acts(h) => entries'[i] = entries[i] /\ mapping'[m] = mapping[m]
    BY <1>2, ObservedEntry, ObservedMapping
  <1>4. \A h \in Handlers : handler[h].via \in Mappings /\ h \notin behind => handler[h].row = mapping[handler[h].via]
    BY NoneAssumption DEF CommentInv, UpToDate
  <1>5. \A k \in Mapped \ astray : entries[i].via = k /\ i \in Existing => entries[i].name = mapping[k].name
    BY <1>2 DEF CommentInv, RefsFollowMapping
  <1>6. ASSUME entries'[i] = entries[i] PROVE entries'[i].name = mapping'[m].name
    <2>1. i \in Existing /\ entries[i].via = m BY <1>2, <1>6 DEF Existing
    <2>2. mapping'[m].name = mapping[m].name /\ m \in Mapped => entries'[i].name = mapping'[m].name
      BY <1>2, <1>5, <1>6, <2>1
    <2>3. CASE mapping'[m] = mapping[m] BY <1>2, <2>2, <2>3 DEF Mapped
    <2>4. CASE Shrinks BY <1>2, <2>3, <2>4 DEF Shrinks
    <2>5. ASSUME NEW k \in Mappings, Made(k) PROVE mapping'[m] = mapping[m]
      BY <1>2, <2>1, <2>5 DEF Made
    <2>6. ASSUME NEW h \in Handlers, NEW k \in Mappings, Adopted(h, k), mapping'[m] # mapping[m]
          PROVE  mapping'[m].name = mapping[m].name /\ m \in Mapped
      <3>1. k = m /\ mapping[m] \in Mapping /\ mapping'[m] = [mapping[m] EXCEPT !.repo = handler[h].event.repo]
            /\ m \in Mapped
        BY <1>1, <1>2, <2>6 DEF Adopted, Mapped, Tables, TypeOK
      <3> QED BY <3>1 DEF Mapping
    <2>7. ASSUME NEW h \in Handlers, NEW k \in Mappings, Healed(h, k), mapping'[m] # mapping[m]
          PROVE  entries'[i].name = mapping'[m].name
      <3>1. /\ k = m /\ mapping[m] \in Mapping /\ m \in Mapped /\ Acts(h) /\ handler[h].via = m
            /\ mapping'[m] = [mapping[m] EXCEPT !.name = handler[h].event.name]
            /\ entries'[i] = Renamed(i, handler[h].row.name, handler[h].event.name)
        BY <1>1, <1>2, <2>7 DEF Healed, Mapped, Tables, TypeOK
      <3>2. h \notin behind BY <1>3, <2>7, <3>1
      <3>3. handler[h].row.name = mapping[m].name BY <1>2, <1>4, <3>1, <3>2
      <3>4. entries[i].name = mapping[m].name BY <1>2, <1>5, <2>1, <3>1
      <3>5. entries[i] \in Entry /\ handler[h].event.name = mapping'[m].name
        BY <1>1, <1>2, <1>6, <3>1 DEF Tables, TypeOK, Mapping
      <3> QED BY <3>1, <3>3, <3>4, <3>5 DEF Renamed, Entry
    <2> QED BY <1>1, <2>2, <2>3, <2>4, <2>5, <2>6, <2>7 DEF MappingStep
  <1>7. ASSUME NEW h \in Handlers, RefsHealed(h), entries'[i] # entries[i]
        PROVE  entries'[i].name = mapping'[m].name
    <2> DEFINE q == handler[h]
    <2>1. /\ q.row.name \in Names /\ q.event.name \in Names /\ q.via \in Mappings /\ Acts(h) /\ q.row \in Mapping
          /\ entries'[i] = Renamed(i, q.row.name, q.event.name)
      BY <1>2, <1>7 DEF RefsHealed, Mapping
    <2>2. /\ i \in Existing /\ entries[i].name = q.row.name /\ entries'[i].name = q.event.name
          /\ entries[i].via = m
      BY <1>1, <1>2, <1>7, <2>1, RenamedEntry DEF Existing, Renamed
    <2>3. h \notin behind /\ q.row = mapping[q.via] BY <1>3, <1>4, <1>7, <2>1
    <2>4. q.via \in Mapped BY <2>1, <2>3, NotRows DEF Mapped
    <2>5. Healed(h, q.via) BY <1>7, <2>4 DEF RefsHealed
    <2>6. CASE m = q.via
      <3>1. mapping'[m] = [mapping[m] EXCEPT !.name = q.event.name] /\ mapping[m] \in Mapping
        BY <2>1, <2>3, <2>5, <2>6 DEF Healed
      <3> QED BY <2>2, <3>1 DEF Mapping
    <2>7. CASE m # q.via
      <3>1. mapping'[m] = mapping[m] BY <1>2, <2>5, <2>7 DEF Healed
      <3>2. m \in Mapped BY <1>2, <3>1 DEF Mapped
      <3>3. entries[i].name = mapping[m].name BY <1>2, <1>5, <2>2, <3>2
      <3> QED BY <1>1, <2>2, <2>3, <2>4, <2>7, <3>2, <3>3
    <2> QED BY <2>6, <2>7
  <1>8. ASSUME NEW h \in Handlers, Logged(h), entries'[i] # entries[i]
        PROVE  entries'[i].name = mapping'[m].name
    <2>1. i = logged' /\ Acts(h) /\ mapping' = mapping /\ handler[h].via \in Mappings BY <1>2, <1>8 DEF Logged
    <2>2. entries'[i].name = handler[h].row.name /\ entries'[i].via = handler[h].via BY <1>8, <2>1 DEF Logged
    <2>3. h \notin behind BY <1>3, <1>8, <2>1
    <2> QED BY <1>4, <2>1, <2>2, <2>3
  <1> QED BY <1>1, <1>2, <1>6, <1>7, <1>8 DEF EntriesStep

LEMMA CommentInit == Init => CommentInv
  <1> SUFFICES ASSUME Init PROVE CommentInv OBVIOUS
  <1>1. Existing = {} /\ Mapped = {} BY DEF Init, Existing, Mapped
  <1>2. TypeOK
    <2>1. 0 \in 0 .. MaxEntries BY EntriesAssumption
    <2> QED BY <1>1, <2>1, IdleOK DEF Init, TypeOK
  <1>3. \A h \in Handlers : HandlerOK(handler[h]) /\ handler[h].via = None /\ handler[h].step = "idle"
    BY IdleOK DEF Init
  <1> QED BY <1>1, <1>2, <1>3 DEF CommentInv, Tables, UpToDate, EntriesOfRepo, HandlersOfRepo,
                                   OneEntryPerComment, RefsFollowMapping

LEMMA CommentStep == CommentInv /\ [Next]_vars => CommentInv'
  <1> SUFFICES ASSUME CommentInv, [Next]_vars PROVE CommentInv' OBVIOUS
  <1>1. CASE Next
    <2>1. Step /\ Observe /\ Tables BY <1>1 DEF Next, Step, CommentInv
    <2>2. EntriesStep BY <2>1, LogsStep DEF Step
    <2>3. RefsFollowMapping' BY <2>1, RefStep DEF RefsFollowMapping
    <2> QED BY <2>1, <2>2, <2>3, TypeStep, UpToDateStep, EntriesOfRepoStep, HandlersOfRepoStep,
               OneEntryStep DEF CommentInv
  <1>2. CASE UNCHANGED vars
    BY <1>2 DEF vars, github, people, tables, history, CommentInv, Tables, TypeOK, UpToDate,
                EntriesOfRepo, HandlersOfRepo, OfItsRepo, OneEntryPerComment, RefsFollowMapping, Mapped, Existing
  <1> QED BY <1>1, <1>2

LEMMA CommentAlways == Spec => []CommentInv
  BY CommentInit, CommentStep, PTL DEF Spec

(* Types, the unique names and ids of mappings, and that a mapping's       *)
(* project exists.                                                         *)
THEOREM TypeCorrect == Spec => []TypeOK
  <1>1. CommentInv => TypeOK BY DEF CommentInv, Tables
  <1> QED BY <1>1, CommentAlways, PTL

(* comment-pipeline.ts:97.  However often a comment is delivered, and      *)
(* however many deliveries are past the check for a redelivery, one entry  *)
(* is logged from it.                                                      *)
THEOREM CommentsLoggedOnce == Spec => []OneEntryPerComment
  <1>1. CommentInv => OneEntryPerComment BY DEF CommentInv
  <1> QED BY <1>1, CommentAlways, PTL

(* The refs of a mapping's entries carry its name through every rename,    *)
(* but for what a handler wrote that had an outdated row.                  *)
THEOREM RefsAlwaysFollow == Spec => []RefsFollowMapping
  <1>1. CommentInv => RefsFollowMapping BY DEF CommentInv
  <1> QED BY <1>1, CommentAlways, PTL

(* queries/github.ts.  A mapping never logs the comments of two            *)
(* repositories, though one may take the other's name: what goes through a *)
(* mapping is of the repository whose id it has, which is the first it was *)
(* read for where it was made by hand, with a name and no id.              *)
THEOREM NeverAnImpostor == Spec => []NoImpostor
  <1>1. CommentInv => NoImpostor BY DEF CommentInv, EntriesOfRepo, OfItsRepo, NoImpostor
  <1> QED BY <1>1, CommentAlways, PTL
=============================================================================
