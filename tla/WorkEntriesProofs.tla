-------------------------- MODULE WorkEntriesProofs --------------------------
(***************************************************************************)
(* What holds of the work entries table while files are imported into it,  *)
(* for any number of users, workspaces, entries and concurrent requests    *)
(* and for batches of any size.                                            *)
(***************************************************************************)
EXTENDS EntryImport, FiniteSetTheorems, TLAPS

(* Any step of the table: the requests of WorkEntries, with batches of any *)
(* rows, as the importer's are.                                            *)
BeginAnyBatch(r) ==
    \E u \in Users, w \in Workspaces, rows \in SUBSET Row, fresh \in Nat :
        issued + fresh <= MaxIssued /\ BeginBatch(r, u, w, rows, fresh)

TableStep ==
    /\ \/ Around
       \/ \E r \in Requests : BeginAnyBatch(r) \/ Asks(r) \/ Fails(r) \/ WriteRows(r) \/ Lands(r)
    /\ Observe

ImporterOK == file \in Seq(Line) /\ sent \in Nat /\ upto \in Nat

LEMMA FreshNat ==
    ASSUME NEW from \in Int, NEW to \in Int
    PROVE  Cardinality(Unnamed(from, to)) \in Nat
  <1>1. IsFiniteSet(from + 1 .. to) BY FS_Interval
  <1>2. IsFiniteSet(Unnamed(from, to)) BY <1>1, FS_Subset DEF Unnamed
  <1> QED BY <1>2, FS_CardinalityType

LEMMA PostsRows ==
    ASSUME TypeOK, ImporterOK, NEW to \in ChunkEnds(sent), NEW fresh \in Nat, issued + fresh <= MaxIssued,
           NEW r \in Requests, BeginBatch(r, Importer, Target, Rows(sent, to), fresh)
    PROVE  Rows(sent, to) \in SUBSET Row
  <1> SUFFICES ASSUME NEW l \in sent + 1 .. to
               PROVE  [id |-> IdOf(l, sent), project |-> file[l].project, author |-> file[l].author] \in Row
    BY DEF Rows
  <1> DEFINE row == [id |-> IdOf(l, sent), project |-> file[l].project, author |-> file[l].author]
  <1>1. row \in Rows(sent, to) BY DEF Rows
  <1>2. to \in Int /\ to <= Len(file) /\ Len(file) \in Nat BY DEF ChunkEnds, ImporterOK
  <1>3. l \in 1 .. Len(file) BY <1>2 DEF ImporterOK
  <1>4. file[l] \in Line BY <1>3 DEF ImporterOK
  <1>5. row.id \in {x.id : x \in Rows(sent, to)} BY <1>1
  <1>6. row.id \in External \cup ever \cup (issued + 1 .. issued + fresh) BY <1>5 DEF BeginBatch
  <1>7. row.id \in Ids BY <1>6, IssuedAssumption DEF TypeOK, Ids, Generated
  <1> QED BY <1>4, <1>7 DEF Row, Line

LEMMA ImportStep ==
    ASSUME TypeOK, ImporterOK, [NextImport]_importVars
    PROVE  ImporterOK' /\ (TableStep \/ UNCHANGED vars)
  <1>1. CASE UNCHANGED importVars BY <1>1 DEF importVars, importer, ImporterOK
  <1>2. ASSUME NEW r \in Requests, Post(r), Observe PROVE ImporterOK' /\ TableStep
    <2>1. PICK to \in ChunkEnds(sent) :
            /\ issued + Cardinality(Unnamed(sent, to)) <= MaxIssued
            /\ BeginBatch(r, Importer, Target, Rows(sent, to), Cardinality(Unnamed(sent, to)))
            /\ upto' = to
      BY <1>2 DEF Post
    <2>2. to \in Nat BY DEF ChunkEnds, ImporterOK
    <2>3. Cardinality(Unnamed(sent, to)) \in Nat BY <2>2, FreshNat DEF ImporterOK
    <2>4. Rows(sent, to) \in SUBSET Row BY <2>1, <2>3, PostsRows
    <2>5. BeginAnyBatch(r) BY <2>1, <2>3, <2>4, ImportAssumption DEF BeginAnyBatch
    <2>6. ImporterOK' BY <1>2, <2>1, <2>2 DEF Post, ImporterOK
    <2> QED BY <1>2, <2>5, <2>6 DEF TableStep
  <1>3. ASSUME Refused \/ GivesUp \/ Rerun PROVE ImporterOK' /\ UNCHANGED vars
    BY <1>3 DEF Refused, GivesUp, Rerun, Resume, ImporterOK
  <1>4. ASSUME Around \/ \E r \in Requests : Asks(r) \/ Lands(r), Observe, UNCHANGED <<importer, missed, named>>
        PROVE  ImporterOK' /\ TableStep
    BY <1>4 DEF TableStep, importer, ImporterOK
  <1>5. ASSUME NEW r \in Requests, NEW ok, Fails(r) \/ WriteRows(r), Hears(r, ok), Observe,
               UNCHANGED <<file, upto, missed, named>>
        PROVE  ImporterOK' /\ TableStep
    BY <1>5 DEF TableStep, Hears, ImporterOK
  <1> QED BY <1>1, <1>2, <1>3, <1>4, <1>5 DEF NextImport

(***************************************************************************)
(* What requests carry.                                                    *)
(***************************************************************************)
Writer(q) == q.op \in {"log", "batch"}

(* What was checked of it still holds, for it is about nothing that moves. *)
RequestOK(q) ==
    /\ q.op # "idle" => q.actor \in Users
    /\ Writer(q) => /\ q.workspace \in Workspaces
                    /\ \A row \in q.rows :
                          /\ Home[row.project] = q.workspace
                          /\ row.author = q.actor \/ q.actor \in InstanceAdmins
    /\ q.op = "log" => \A row \in q.rows : row.author = q.actor
    /\ q.op = "log" => \A s \in q.sessions : SessionOwner[s] = q.actor /\ SessionHome[s] = q.workspace
    /\ q.op = "batch" => q.sessions = {}
    /\ q.op \in {"edit", "delete"} => q.id \in Ids
    /\ q.step = "owners" => q.op = "batch"

RequestsOK == \A r \in Requests : RequestOK(request[r])

(* What an edit was checked against holds as long as its entry lives.      *)
EditsOK ==
    \A r \in Requests : request[r].op = "edit" /\ r \notin overtaken =>
        LET q == request[r] IN
        /\ q.id \in Existing /\ entries[q.id].author = q.actor
        /\ \/ q.id \in crossed \/ q.project \in {q.id, None}
           \/ Home[q.project] = entries[q.id].workspace

Tables == TypeOK /\ RequestsOK

LEMMA IdleOK ==
    /\ Idle \in RequestState /\ RequestOK(Idle) /\ Idle.op = "idle" /\ Idle.step = "idle"
  BY DEF Idle, Asked, RequestState, RequestOK, Writer

LEMMA AbsentEntry == Absent \notin Entry /\ Absent.project = None
  BY NoneAssumption DEF Absent, Entry

(***************************************************************************)
(* The steps of the requests.                                              *)
(***************************************************************************)

(* The request that asks.                                                  *)
Opening(q) ==
    /\ q \in RequestState /\ RequestOK(q)
    /\ q.op = "edit" =>
        /\ q.id \in Existing /\ entries[q.id].author = q.actor
        /\ \/ q.project \in {q.id, None}
           \/ q.project \in Projects
              /\ (q.project = entries[q.id].project \/ Home[q.project] = entries[q.id].workspace)

Asking(r) ==
    \E q : /\ Opening(q) /\ request' = [request EXCEPT ![r] = q] /\ request[r] = Idle
           /\ UNCHANGED <<place, table>> /\ issued' \in 0 .. MaxIssued

LEMMA LogAsks ==
    ASSUME TypeOK, NEW r \in Requests, NEW u \in Users, NEW w \in Workspaces, NEW p \in Projects,
           NEW S \in SUBSET Sessions, BeginLog(r, u, w, p, S)
    PROVE  Asking(r)
  <1> DEFINE rows == {[id |-> issued + 1, project |-> p, author |-> u]}
             q == Asked("log", "write", u, w, None, None, rows, S)
  <1>1. issued + 1 \in Generated BY IssuedAssumption DEF BeginLog, TypeOK, Generated
  <1>2. rows \in SUBSET Row BY <1>1 DEF Row, Ids
  <1>3. q \in RequestState BY <1>2 DEF Asked, RequestState
  <1>4. /\ q.op = "log" /\ q.step = "write" /\ q.actor = u /\ q.workspace = w
        /\ q.rows = rows /\ q.sessions = S
    BY DEF Asked
  <1>5. Home[p] = w /\ \A s \in S : SessionOwner[s] = u /\ SessionHome[s] = w
    BY DEF BeginLog, MayLog, Linkable
  <1>6. request[r] = Idle /\ request' = [request EXCEPT ![r] = q] /\ UNCHANGED <<place, table>>
    BY DEF BeginLog, Start, Goes
  <1>7. issued' \in 0 .. MaxIssued BY <1>1 DEF BeginLog, Generated
  <1> HIDE DEF q
  <1>8. Opening(q) BY <1>3, <1>4, <1>5 DEF Opening, RequestOK, Writer
  <1> QED BY <1>6, <1>7, <1>8 DEF Asking

LEMMA BatchAsks ==
    ASSUME TypeOK, NEW r \in Requests, NEW u \in Users, NEW w \in Workspaces, NEW rows \in SUBSET Row,
           NEW fresh \in Nat, issued + fresh <= MaxIssued, BeginBatch(r, u, w, rows, fresh)
    PROVE  Asking(r)
  <1> DEFINE q == Asked("batch", "owners", u, w, None, None, rows, {})
  <1>1. q \in RequestState BY DEF Asked, RequestState
  <1>2. /\ q.op = "batch" /\ q.step = "owners" /\ q.actor = u /\ q.workspace = w
        /\ q.rows = rows /\ q.sessions = {}
    BY DEF Asked
  <1>3. \A row \in rows : Home[row.project] = w /\ (row.author = u \/ u \in InstanceAdmins)
    BY DEF BeginBatch, MayLog, MayName
  <1>4. request[r] = Idle /\ request' = [request EXCEPT ![r] = q] /\ UNCHANGED <<place, table>>
    BY DEF BeginBatch, Start, Goes
  <1>5. issued' \in 0 .. MaxIssued BY IssuedAssumption DEF BeginBatch, TypeOK
  <1> HIDE DEF q
  <1>6. Opening(q) BY <1>1, <1>2, <1>3 DEF Opening, RequestOK, Writer
  <1> QED BY <1>4, <1>5, <1>6 DEF Asking

LEMMA EditAsks ==
    ASSUME TypeOK, NEW r \in Requests, NEW u \in Users, NEW i \in Ids,
           NEW p \in Projects \cup Ids \cup {None}, BeginEdit(r, u, i, p)
    PROVE  Asking(r)
  <1> DEFINE q == Asked("edit", "write", u, None, i, p, {}, {})
  <1>1. q \in RequestState BY DEF Asked, RequestState
  <1>2. q.op = "edit" /\ q.step = "write" /\ q.actor = u /\ q.id = i /\ q.project = p BY DEF Asked
  <1>3. i \in Existing /\ entries[i].author = u BY DEF BeginEdit, Own
  <1>4. \/ p \in {i, None}
        \/ p \in Projects /\ (p = entries[i].project \/ Home[p] = entries[i].workspace)
    BY DEF BeginEdit, MayLog
  <1>5. request[r] = Idle /\ request' = [request EXCEPT ![r] = q] /\ UNCHANGED <<place, table, issued>>
    BY DEF BeginEdit, Start, Goes
  <1> HIDE DEF q
  <1>6. Opening(q) BY <1>1, <1>2, <1>3, <1>4 DEF Opening, RequestOK, Writer
  <1>7. issued' \in 0 .. MaxIssued BY <1>5 DEF TypeOK
  <1> QED BY <1>5, <1>6, <1>7 DEF Asking

LEMMA DeleteAsks ==
    ASSUME TypeOK, NEW r \in Requests, NEW u \in Users, NEW i \in Ids, BeginDelete(r, u, i)
    PROVE  Asking(r)
  <1> DEFINE q == Asked("delete", "write", u, None, i, None, {}, {})
  <1>1. q \in RequestState BY DEF Asked, RequestState
  <1>2. q.op = "delete" /\ q.step = "write" /\ q.actor = u /\ q.id = i BY DEF Asked
  <1>3. request[r] = Idle /\ request' = [request EXCEPT ![r] = q] /\ UNCHANGED <<place, table, issued>>
    BY DEF BeginDelete, Start, Goes
  <1> HIDE DEF q
  <1>4. Opening(q) BY <1>1, <1>2 DEF Opening, RequestOK, Writer
  <1>5. issued' \in 0 .. MaxIssued BY <1>3 DEF TypeOK
  <1> QED BY <1>3, <1>4, <1>5 DEF Asking

LEMMA AsksAsk ==
    ASSUME TypeOK, NEW r \in Requests, Asks(r) \/ BeginAnyBatch(r)
    PROVE  Asking(r)
  <1>1. ASSUME NEW u \in Users, NEW w \in Workspaces, NEW p \in Projects, NEW i \in Ids,
               NEW a \in Users, BeginBatch(r, u, w, {[id |-> i, project |-> p, author |-> a]}, 0)
        PROVE  Asking(r)
    <2>1. {[id |-> i, project |-> p, author |-> a]} \in SUBSET Row BY DEF Row
    <2>2. 0 \in Nat /\ issued + 0 <= MaxIssued BY IssuedAssumption DEF TypeOK
    <2> QED BY <1>1, <2>1, <2>2, BatchAsks
  <1>2. CASE BeginAnyBatch(r) BY <1>2, BatchAsks DEF BeginAnyBatch
  <1> QED BY <1>1, <1>2, LogAsks, EditAsks, DeleteAsks DEF Asks

(***************************************************************************)
(* What a step does to an entry.                                           *)
(***************************************************************************)
Kept(i) ==
    /\ entries'[i] = entries[i]
    /\ entries[i].project \in projects => entries[i].project \in projects'
Unprojected(i) ==
    /\ entries[i] # Absent /\ entries'[i] \in Entry
    /\ entries'[i].author = entries[i].author /\ entries'[i].workspace = entries[i].workspace
    /\ entries'[i].hand = entries[i].hand /\ entries'[i].project = None
Inserted(i) ==
    /\ entries'[i] \in Entry
    /\ entries'[i].author = entries'[i].hand \/ entries'[i].hand \in InstanceAdmins
    /\ entries'[i].project \in projects' /\ Home[entries'[i].project] = entries'[i].workspace
    /\ entries[i] # Absent =>
         entries'[i].author = entries[i].author /\ entries'[i].workspace = entries[i].workspace
EditedBy(r, i) ==
    /\ request[r].op = "edit" /\ request[r].id = i /\ request'[r] = Idle
    /\ entries[i] # Absent /\ entries'[i] \in Entry
    /\ entries'[i].author = entries[i].author /\ entries'[i].workspace = entries[i].workspace
    /\ entries'[i].hand = request[r].actor /\ projects' = projects
    /\ \/ entries'[i].project = entries[i].project
       \/ /\ entries'[i].project = request[r].project /\ request[r].project # request[r].id
          /\ request[r].project \in projects \cup {None}

LEMMA UpsertedEntry ==
    ASSUME TypeOK, NEW row \in Row, NEW w \in Workspaces, NEW u \in Users,
           Upserted(row, w, u).author # None
    PROVE  LET e == Upserted(row, w, u) IN
           /\ e \in Entry /\ e.author = row.author /\ e.hand = u /\ e.project = row.project
           /\ e.workspace = w
           /\ entries[row.id] # Absent =>
                row.author = entries[row.id].author /\ w = entries[row.id].workspace
  <1> DEFINE old == entries[row.id]
             e == Upserted(row, w, u)
  <1>r. row.id \in Ids /\ row.project \in Projects /\ row.author \in Users BY DEF Row
  <1>1. CASE old = Absent
    <2>1. e = [workspace |-> w, project |-> row.project, author |-> row.author, hand |-> u]
      BY <1>1 DEF Upserted
    <2> QED BY <1>r, <1>1, <2>1 DEF Entry
  <1>2. CASE old # Absent
    <2>1. old \in Entry BY <1>r, <1>2 DEF TypeOK
    <2>2. e = [old EXCEPT !.project = row.project, !.hand = u,
                 !.author = IF SameOwner(row, w) THEN row.author ELSE None]
      BY <1>2 DEF Upserted
    <2> HIDE DEF e, old
    <2>3. SameOwner(row, w)
      <3> SUFFICES ASSUME ~ SameOwner(row, w) PROVE e.author = None BY DEF e
      <3> QED BY <2>1, <2>2 DEF Entry
    <2>4. old.author = row.author /\ old.workspace = w BY <1>2, <2>3 DEF SameOwner, old
    <2>5. e = [old EXCEPT !.project = row.project, !.hand = u, !.author = row.author]
      BY <2>2, <2>3
    <2>6. e \in Entry /\ e.author = row.author /\ e.hand = u /\ e.project = row.project /\ e.workspace = w
      BY <1>r, <2>1, <2>4, <2>5 DEF Entry
    <2> QED BY <2>4, <2>6 DEF e, old
  <1> QED BY <1>1, <1>2

LEMMA EntryStep ==
    ASSUME Tables, TableStep, NEW i \in Ids
    PROVE  \/ Kept(i) \/ entries'[i] = Absent \/ Unprojected(i) \/ Inserted(i)
           \/ \E r \in Requests : EditedBy(r, i)
  <1> DEFINE Goal == \/ Kept(i) \/ entries'[i] = Absent \/ Unprojected(i) \/ Inserted(i)
                     \/ \E r \in Requests : EditedBy(r, i)
  <1>t. TypeOK BY DEF Tables
  <1>k. UNCHANGED <<entries, projects>> => Kept(i) BY DEF Kept
  <1>1. ASSUME NEW r \in Requests, Asks(r) \/ BeginAnyBatch(r) PROVE Goal
    BY <1>k, <1>t, <1>1, AsksAsk DEF Asking, place, table
  <1>2. ASSUME NEW r \in Requests, Fails(r) PROVE Goal
    BY <1>k, <1>2 DEF Fails, CheckOwners, Crash, Refuse, place, table
  <1>3. ASSUME NEW r \in Requests, WriteRows(r) PROVE Goal
    <2> DEFINE q == request[r]
    <2>1. q \in RequestState /\ RequestOK(q) /\ Writer(q)
      BY <1>3 DEF Tables, TypeOK, RequestsOK, WriteRows, Writer
    <2>2. CASE Refuse(r) BY <1>k, <1>3, <2>2 DEF WriteRows, Refuse, place, table
    <2>3. CASE Acceptable(q) /\ Inserts(q)
      <3>1. CASE ~ \E row \in q.rows : row.id = i
        BY <1>k, <1>3, <2>3, <3>1 DEF Inserts, WriteRows, place, Kept
      <3>2. CASE \E row \in q.rows : row.id = i
        <4> DEFINE row == CHOOSE row \in q.rows : row.id = i
        <4>1. row \in q.rows /\ row.id = i BY <3>2
        <4>2. entries'[i] = Upserted(row, q.workspace, q.actor) BY <2>3, <3>2 DEF Inserts
        <4> HIDE DEF row
        <4>3. row \in Row /\ q.workspace \in Workspaces /\ q.actor \in Users
          BY <2>1, <4>1 DEF RequestState, RequestOK, Writer
        <4>4. row.project \in projects /\ Upserted(row, q.workspace, q.actor).author # None
          BY <2>3, <4>1 DEF Acceptable
        <4>5. Home[row.project] = q.workspace /\ (row.author = q.actor \/ q.actor \in InstanceAdmins)
          BY <2>1, <4>1 DEF RequestOK
        <4>6. projects' = projects BY <1>3 DEF WriteRows, place
        <4>7. Inserted(i) BY <1>t, <4>1, <4>2, <4>3, <4>4, <4>5, <4>6, UpsertedEntry DEF Inserted
        <4> QED BY <4>7
      <3> QED BY <3>1, <3>2
    <2> QED BY <1>3, <2>2, <2>3 DEF WriteRows
  <1>4. ASSUME NEW r \in Requests, WriteEdit(r) PROVE Goal
    <2> DEFINE q == request[r]
               new == Edited(entries[q.id], q)
    <2>1. q \in RequestState /\ RequestOK(q) /\ q.op = "edit"
      BY <1>4 DEF Tables, TypeOK, RequestsOK, WriteEdit
    <2>2. projects' = projects BY <1>4 DEF WriteEdit, place
    <2>3. CASE Refuse(r) BY <1>k, <2>2, <2>3 DEF Refuse, table
    <2>4. CASE /\ q.id \in Existing /\ (Keeps(q) \/ q.project \in projects \cup {None})
               /\ entries' = [entries EXCEPT ![q.id] = new] /\ Goes(r, Idle)
      <3>1. CASE q.id # i BY <1>k, <1>t, <2>2, <2>4, <3>1 DEF TypeOK, Kept
      <3>2. CASE q.id = i
        <4>1. entries[i] \in Entry BY <1>t, <2>4, <3>2 DEF TypeOK, Existing
        <4>2. entries'[i] = new BY <1>t, <2>4, <3>2 DEF TypeOK
        <4>3. /\ new.author = entries[i].author /\ new.workspace = entries[i].workspace
              /\ new.hand = q.actor
              /\ new.project = IF Keeps(q) THEN entries[i].project ELSE q.project
          BY <3>2, <4>1 DEF Entry, Edited
        <4>4. q.actor \in Users /\ (~ Keeps(q) => q.project \in Projects \cup {None})
          BY <1>t, <2>1, <2>4 DEF RequestOK, TypeOK
        <4>5. new \in Entry BY <3>2, <4>1, <4>4 DEF Entry, Edited
        <4>6. request'[r] = Idle BY <1>t, <2>4 DEF TypeOK, Goes
        <4>7. entries[i] # Absent BY <2>4, <3>2 DEF Existing
        <4> HIDE DEF new
        <4>8. EditedBy(r, i) BY <2>1, <2>2, <2>4, <3>2, <4>2, <4>3, <4>5, <4>6, <4>7 DEF EditedBy, Keeps
        <4> QED BY <4>8
      <3> QED BY <3>1, <3>2
    <2> QED BY <1>4, <2>3, <2>4 DEF WriteEdit
  <1>5. ASSUME NEW r \in Requests, WriteDelete(r) PROVE Goal
    <2>1. entries' = [entries EXCEPT ![request[r].id] = Absent] /\ projects' = projects
      BY <1>5 DEF WriteDelete, place
    <2> QED BY <1>k, <1>t, <2>1 DEF TypeOK, Kept
  <1>6. CASE Around
    <2>1. ASSUME NEW p \in Projects, DeleteProject(p) PROVE Goal
      <3>1. CASE entries[i].project # p
        <4>1. entries'[i] = entries[i] /\ projects' = projects \ {p} BY <2>1, <3>1 DEF DeleteProject
        <4> QED BY <3>1, <4>1 DEF Kept
      <3>2. CASE entries[i].project = p
        <4> DEFINE new == [entries[i] EXCEPT !.project = None]
        <4>1. entries[i] # Absent BY <3>2, AbsentEntry, NoneAssumption
        <4>2. entries[i] \in Entry BY <1>t, <4>1 DEF TypeOK
        <4>3. entries'[i] = new BY <2>1, <3>2 DEF DeleteProject
        <4>4. /\ new \in Entry /\ new.author = entries[i].author /\ new.workspace = entries[i].workspace
              /\ new.hand = entries[i].hand /\ new.project = None
          BY <4>2 DEF Entry
        <4> HIDE DEF new
        <4> QED BY <4>1, <4>3, <4>4 DEF Unprojected
      <3> QED BY <3>1, <3>2
    <2>2. ASSUME NEW u \in Users, NEW w \in Workspaces, Leave(u, w) PROVE Goal
      BY <1>k, <2>2 DEF Leave, table
    <2>3. ASSUME NEW s \in Sessions, RemoveSession(s) PROVE Goal BY <1>k, <2>3 DEF RemoveSession
    <2> QED BY <1>6, <2>1, <2>2, <2>3 DEF Around
  <1> QED BY <1>1, <1>2, <1>3, <1>4, <1>5, <1>6 DEF TableStep, Lands

(* Owners stay; a step takes an entry only by deleting it.                 *)
LEMMA OwnerStays ==
    ASSUME Tables, TableStep, NEW i \in Existing, entries'[i] # Absent
    PROVE  entries'[i].author = entries[i].author /\ entries'[i].workspace = entries[i].workspace
  <1>1. i \in Ids /\ entries[i] # Absent BY DEF Existing
  <1> QED BY <1>1, EntryStep DEF Kept, Unprojected, Inserted, EditedBy

(***************************************************************************)
(* Links.                                                                  *)
(***************************************************************************)
OwnLink(l, author, workspace) == SessionOwner[l.session] = author /\ SessionHome[l.session] = workspace

LEMMA RowsInserted ==
    ASSUME Tables, NEW r \in Requests, WriteRows(r), Acceptable(request[r]), Inserts(request[r]),
           NEW i \in Ids
    PROVE  \/ entries'[i] = entries[i] /\ ~ \E row \in request[r].rows : row.id = i
           \/ \E row \in request[r].rows :
                /\ row.id = i /\ entries'[i] \in Entry /\ entries'[i].author = row.author
                /\ entries'[i].workspace = request[r].workspace
  <1> DEFINE q == request[r]
  <1>1. q \in RequestState /\ RequestOK(q) /\ Writer(q) BY DEF Tables, TypeOK, RequestsOK, WriteRows, Writer
  <1>2. CASE ~ \E row \in q.rows : row.id = i BY <1>2 DEF Inserts
  <1>3. CASE \E row \in q.rows : row.id = i
    <2> DEFINE row == CHOOSE row \in q.rows : row.id = i
    <2>1. row \in q.rows /\ row.id = i BY <1>3
    <2>2. entries'[i] = Upserted(row, q.workspace, q.actor) BY <1>3 DEF Inserts
    <2> HIDE DEF row
    <2>3. row \in Row /\ q.workspace \in Workspaces /\ q.actor \in Users
      BY <1>1, <2>1 DEF RequestState, RequestOK, Writer
    <2>4. Upserted(row, q.workspace, q.actor).author # None BY <2>1 DEF Acceptable
    <2> QED BY <2>1, <2>2, <2>3, <2>4, UpsertedEntry DEF Tables
  <1> QED BY <1>2, <1>3

LEMMA LinkStep ==
    ASSUME Tables, TableStep, NEW l \in links'
    PROVE  /\ l \in [entry : Ids, session : Sessions]
           /\ entries'[l.entry] # Absent /\ l.session \in sessions'
           /\ l \in links \/ OwnLink(l, entries'[l.entry].author, entries'[l.entry].workspace)
  <1> DEFINE Goal == /\ l \in [entry : Ids, session : Sessions]
                     /\ entries'[l.entry] # Absent /\ l.session \in sessions'
                     /\ l \in links \/ OwnLink(l, entries'[l.entry].author, entries'[l.entry].workspace)
  <1>t. TypeOK BY DEF Tables
  <1>l. l \in links => /\ l \in [entry : Ids, session : Sessions]
                       /\ entries[l.entry] # Absent /\ l.session \in sessions
    BY <1>t DEF TypeOK, Link, Existing
  <1>u. UNCHANGED <<links, entries, sessions>> => Goal BY <1>l
  <1>1. ASSUME NEW r \in Requests, Asks(r) \/ BeginAnyBatch(r) PROVE Goal
    BY <1>t, <1>u, <1>1, AsksAsk DEF Asking, place, table
  <1>2. ASSUME NEW r \in Requests, Fails(r) PROVE Goal
    BY <1>u, <1>2 DEF Fails, CheckOwners, Crash, Refuse, place, table
  <1>3. ASSUME NEW r \in Requests, WriteRows(r) PROVE Goal
    <2> DEFINE q == request[r]
    <2>1. q \in RequestState /\ RequestOK(q) /\ Writer(q)
      BY <1>3 DEF Tables, TypeOK, RequestsOK, WriteRows, Writer
    <2>2. CASE Refuse(r) BY <1>u, <1>3, <2>2 DEF WriteRows, Refuse, place, table
    <2>3. CASE /\ Acceptable(q) /\ Inserts(q)
               /\ links' = links \cup [entry : {row.id : row \in q.rows}, session : q.sessions]
      <3>1. sessions' = sessions BY <1>3 DEF WriteRows, place
      <3>2. CASE l \in links
        <4>1. entries'[l.entry] \in Entry \/ entries'[l.entry] = entries[l.entry]
          BY <1>3, <1>l, <2>3, <3>2, RowsInserted
        <4> QED BY <1>l, <3>1, <3>2, <4>1, AbsentEntry
      <3>3. CASE l \notin links
        <4>1. l \in [entry : {row.id : row \in q.rows}, session : q.sessions] BY <2>3, <3>3
        <4>2. l.entry \in {row.id : row \in q.rows} /\ l.session \in q.sessions BY <4>1
        <4>3. q.rows \subseteq Row /\ q.sessions \subseteq Sessions BY <2>1 DEF RequestState
        <4>4. l.entry \in Ids BY <4>2, <4>3 DEF Row
        <4>5. PICK row \in q.rows :
                /\ row.id = l.entry /\ entries'[l.entry] \in Entry
                /\ entries'[l.entry].author = row.author /\ entries'[l.entry].workspace = q.workspace
          BY <1>3, <2>3, <4>2, <4>4, RowsInserted
        <4>6. q.op = "log" BY <2>1, <4>2 DEF RequestOK, Writer
        <4>7. OwnLink(l, entries'[l.entry].author, entries'[l.entry].workspace)
          BY <2>1, <4>2, <4>5, <4>6 DEF RequestOK, OwnLink
        <4>8. l.session \in sessions BY <2>3, <4>2 DEF Acceptable
        <4>9. l \in [entry : Ids, session : Sessions] BY <4>1, <4>3, <4>4
        <4> QED BY <3>1, <4>5, <4>7, <4>8, <4>9, AbsentEntry
      <3> QED BY <3>2, <3>3
    <2> QED BY <1>3, <2>2, <2>3 DEF WriteRows
  <1>4. ASSUME NEW r \in Requests, WriteEdit(r) PROVE Goal
    <2> DEFINE q == request[r]
               new == Edited(entries[q.id], q)
    <2>1. CASE Refuse(r) BY <1>u, <1>4, <2>1 DEF WriteEdit, Refuse, place, table
    <2>2. CASE q.id \in Existing /\ entries' = [entries EXCEPT ![q.id] = new] /\ UNCHANGED links
      <3>1. entries[q.id] \in Entry BY <1>t, <2>2 DEF TypeOK, Existing
      <3>2. new.author = entries[q.id].author BY <3>1 DEF Entry, Edited
      <3>3. new # Absent BY <3>1, <3>2, NoneAssumption DEF Entry, Absent
      <3> HIDE DEF new
      <3>4. \A j \in Ids : entries[j] # Absent => entries'[j] # Absent BY <1>t, <2>2, <3>3 DEF TypeOK
      <3>5. l.entry \in Ids BY <1>l, <2>2
      <3> QED BY <1>4, <1>l, <2>2, <3>4, <3>5 DEF WriteEdit, place
    <2> QED BY <1>4, <2>1, <2>2 DEF WriteEdit
  <1>5. ASSUME NEW r \in Requests, WriteDelete(r) PROVE Goal
    <2>1. /\ entries' = [entries EXCEPT ![request[r].id] = Absent]
          /\ l \in links /\ l.entry # request[r].id /\ sessions' = sessions
      BY <1>5 DEF WriteDelete, place
    <2> QED BY <1>t, <1>l, <2>1 DEF TypeOK
  <1>6. CASE Around
    <2>1. ASSUME NEW p \in Projects, DeleteProject(p) PROVE Goal
      <3>1. l \in links /\ sessions' = sessions BY <2>1 DEF DeleteProject
      <3>2. CASE entries[l.entry].project # p
        <4>1. entries'[l.entry] = entries[l.entry] BY <1>l, <2>1, <3>1, <3>2 DEF DeleteProject
        <4> QED BY <1>l, <3>1, <4>1
      <3>3. CASE entries[l.entry].project = p
        <4> DEFINE new == [entries[l.entry] EXCEPT !.project = None]
        <4>1. entries[l.entry] \in Entry BY <1>l, <1>t, <3>1 DEF TypeOK
        <4>2. new \in Entry BY <4>1 DEF Entry
        <4>3. entries'[l.entry] = new BY <1>l, <2>1, <3>1, <3>3 DEF DeleteProject
        <4> HIDE DEF new
        <4> QED BY <1>l, <3>1, <4>2, <4>3, AbsentEntry
      <3> QED BY <3>2, <3>3
    <2>2. ASSUME NEW u \in Users, NEW w \in Workspaces, Leave(u, w) PROVE Goal
      BY <1>u, <2>2 DEF Leave, table
    <2>3. ASSUME NEW s \in Sessions, RemoveSession(s) PROVE Goal
      BY <1>l, <2>3 DEF RemoveSession
    <2> QED BY <1>6, <2>1, <2>2, <2>3 DEF Around
  <1> QED BY <1>1, <1>2, <1>3, <1>4, <1>5, <1>6 DEF TableStep, Lands

(***************************************************************************)
(* Types.                                                                  *)
(***************************************************************************)
Moved ==
    /\ request' \in [Requests -> RequestState] /\ RequestsOK'
    /\ \A r \in Requests : request'[r] # request[r] =>
         request'[r] = Idle \/ (Opening(request'[r]) /\ UNCHANGED table) \/ request'[r].op = "batch"

LEMMA RequestStep ==
    ASSUME Tables, TableStep
    PROVE  Moved /\ issued' \in 0 .. MaxIssued
  <1>t. request \in [Requests -> RequestState] /\ RequestsOK /\ issued \in 0 .. MaxIssued
    BY DEF Tables, TypeOK
  <1>1. ASSUME NEW r \in Requests, NEW q \in RequestState, RequestOK(q),
               request' = [request EXCEPT ![r] = q]
        PROVE  /\ request' \in [Requests -> RequestState] /\ RequestsOK'
               /\ \A s \in Requests : request'[s] # request[s] => request'[s] = q
    <2>1. request' \in [Requests -> RequestState] BY <1>t, <1>1
    <2>2. \A s \in Requests : request'[s] = IF s = r THEN q ELSE request[s] BY <1>t, <1>1
    <2>3. RequestsOK' BY <1>t, <1>1, <2>2 DEF RequestsOK
    <2> QED BY <2>1, <2>2, <2>3
  <1>2. ASSUME NEW r \in Requests, Asks(r) \/ BeginAnyBatch(r)
        PROVE  Moved /\ issued' \in 0 .. MaxIssued
    <2>1. Asking(r) BY <1>2, AsksAsk DEF Tables
    <2>2. PICK q : /\ Opening(q) /\ request' = [request EXCEPT ![r] = q] /\ UNCHANGED <<place, table>>
                   /\ issued' \in 0 .. MaxIssued
      BY <2>1 DEF Asking
    <2>3. q \in RequestState /\ RequestOK(q) BY <2>2 DEF Opening
    <2>4. UNCHANGED table BY <2>2
    <2>5. /\ request' \in [Requests -> RequestState] /\ RequestsOK'
          /\ \A s \in Requests : request'[s] # request[s] => request'[s] = q
      BY <1>1, <2>2, <2>3
    <2> QED BY <2>2, <2>4, <2>5 DEF Moved
  <1>3. ASSUME NEW r \in Requests, Goes(r, Idle), issued' = issued
        PROVE  Moved /\ issued' \in 0 .. MaxIssued
    <2>1. request' = [request EXCEPT ![r] = Idle] BY <1>3 DEF Goes
    <2>2. Idle \in RequestState /\ RequestOK(Idle) BY IdleOK
    <2>3. /\ request' \in [Requests -> RequestState] /\ RequestsOK'
          /\ \A s \in Requests : request'[s] # request[s] => request'[s] = Idle
      BY <1>1, <2>1, <2>2
    <2>4. Moved BY <2>3 DEF Moved
    <2> QED BY <1>t, <1>3, <2>4
  <1>4. ASSUME NEW r \in Requests, CheckOwners(r), ~ Refuse(r)
        PROVE  Moved /\ issued' \in 0 .. MaxIssued
    <2> DEFINE q == request[r]
               p == [q EXCEPT !.step = "write"]
    <2>1. q \in RequestState /\ RequestOK(q) BY <1>t DEF RequestsOK
    <2>2. p \in RequestState BY <2>1 DEF RequestState
    <2>3. /\ p.op = q.op /\ p.actor = q.actor /\ p.workspace = q.workspace /\ p.rows = q.rows
          /\ p.sessions = q.sessions /\ p.id = q.id /\ p.step = "write"
      BY <2>1 DEF RequestState
    <2>4. q.op = "batch" BY <1>4, <2>1 DEF CheckOwners, RequestOK
    <2>5. request' = [request EXCEPT ![r] = p] /\ issued' = issued
      BY <1>4 DEF CheckOwners, Goes
    <2> HIDE DEF p
    <2>6. RequestOK(p) BY <2>1, <2>3 DEF RequestOK, Writer
    <2>7. /\ request' \in [Requests -> RequestState] /\ RequestsOK'
          /\ \A s \in Requests : request'[s] # request[s] => request'[s] = p
      BY <1>1, <2>2, <2>5, <2>6
    <2> QED BY <1>t, <2>3, <2>4, <2>5, <2>7 DEF Moved
  <1>5. CASE Around
    <2>1. request' = request /\ issued' = issued BY <1>5 DEF Around, Leave, DeleteProject, RemoveSession
    <2> QED BY <1>t, <2>1 DEF RequestsOK, Moved
  <1>6. ASSUME NEW r \in Requests, WriteRows(r) \/ Lands(r) \/ Crash(r)
        PROVE  Goes(r, Idle) /\ issued' = issued
    <2>1. WriteRows(r) => Goes(r, Idle) /\ issued' = issued BY DEF WriteRows, Refuse
    <2>2. Lands(r) => Goes(r, Idle) /\ issued' = issued BY DEF Lands, WriteEdit, WriteDelete, Refuse
    <2>3. Crash(r) => Goes(r, Idle) /\ issued' = issued BY DEF Crash, Refuse
    <2> QED BY <1>6, <2>1, <2>2, <2>3
  <1>7. ASSUME NEW r \in Requests, CheckOwners(r), Refuse(r)
        PROVE  Goes(r, Idle) /\ issued' = issued
    BY <1>7 DEF CheckOwners, Refuse
  <1> QED BY <1>2, <1>3, <1>4, <1>5, <1>6, <1>7 DEF TableStep, Fails

LEMMA TypeStep ==
    ASSUME Tables, TableStep
    PROVE  Tables'
  <1>t. TypeOK BY DEF Tables
  <1>1. request' \in [Requests -> RequestState] /\ RequestsOK' /\ issued' \in 0 .. MaxIssued
    BY RequestStep DEF Moved
  <1>2. entries' \in [Ids -> Entry \cup {Absent}]
    <2>1. \A i \in Ids : entries'[i] \in Entry \cup {Absent}
      BY <1>t, EntryStep DEF TypeOK, Kept, Unprojected, Inserted, EditedBy
    <2>2. \E f : entries' = [i \in Ids |-> f[i]]
      <3>1. ASSUME UNCHANGED entries PROVE \E f : entries' = [i \in Ids |-> f[i]]
        BY <1>t, <3>1 DEF TypeOK
      <3>2. ASSUME NEW r \in Requests, Asks(r) \/ BeginAnyBatch(r)
            PROVE  UNCHANGED entries
        BY <1>t, <3>2, AsksAsk DEF Asking, table
      <3>3. ASSUME NEW r \in Requests, Fails(r) PROVE UNCHANGED entries
        BY <3>3 DEF Fails, CheckOwners, Crash, Refuse, table
      <3>4. ASSUME NEW r \in Requests, WriteRows(r) PROVE \E f : entries' = [i \in Ids |-> f[i]]
        <4>1. CASE Refuse(r) BY <3>1, <4>1 DEF Refuse, table
        <4>2. CASE Inserts(request[r])
          <5>1. entries' = [i \in Ids |-> entries'[i]] BY <4>2 DEF Inserts
          <5> QED BY <5>1
        <4> QED BY <3>4, <4>1, <4>2 DEF WriteRows
      <3>5. ASSUME NEW r \in Requests, Lands(r) PROVE \E f : entries' = [i \in Ids |-> f[i]]
        <4>1. ASSUME NEW j, NEW e, entries' = [entries EXCEPT ![j] = e]
              PROVE  \E f : entries' = [i \in Ids |-> f[i]]
          <5>1. entries' = [i \in Ids |-> entries'[i]] BY <1>t, <4>1 DEF TypeOK
          <5> QED BY <5>1
        <4>2. CASE Refuse(r) BY <3>1, <4>2 DEF Refuse, table
        <4> QED BY <3>5, <4>1, <4>2 DEF Lands, WriteEdit, WriteDelete
      <3>6. CASE Around
        <4>1. ASSUME NEW p \in Projects, DeleteProject(p)
              PROVE  \E f : entries' = [i \in Ids |-> f[i]]
          <5>1. entries' = [i \in Ids |-> entries'[i]] BY <4>1 DEF DeleteProject
          <5> QED BY <5>1
        <4> QED BY <3>1, <3>6, <4>1 DEF Around, Leave, RemoveSession, table
      <3> QED BY <3>1, <3>2, <3>3, <3>4, <3>5, <3>6 DEF TableStep
    <2> QED BY <2>1, <2>2
  <1>3. links' \subseteq [entry : {i \in Ids : entries'[i] # Absent}, session : sessions']
    <2> SUFFICES ASSUME NEW l \in links'
                 PROVE  l \in [entry : {i \in Ids : entries'[i] # Absent}, session : sessions']
      OBVIOUS
    <2> QED BY LinkStep
  <1>4. /\ members' \in [Workspaces -> SUBSET Users] /\ readers' \in [Projects -> SUBSET Users]
        /\ projects' \subseteq Projects /\ sessions' \subseteq Sessions
    <2>1. UNCHANGED place =>
            /\ members' \in [Workspaces -> SUBSET Users] /\ readers' \in [Projects -> SUBSET Users]
            /\ projects' \subseteq Projects /\ sessions' \subseteq Sessions
      BY <1>t DEF TypeOK, place
    <2>2. ASSUME NEW r \in Requests, Asks(r) \/ BeginAnyBatch(r) PROVE UNCHANGED place
      BY <1>t, <2>2, AsksAsk DEF Asking
    <2>3. ASSUME NEW r \in Requests, Fails(r) \/ WriteRows(r) \/ Lands(r) PROVE UNCHANGED place
      BY <2>3 DEF Fails, CheckOwners, Crash, WriteRows, Lands, WriteEdit, WriteDelete, place
    <2>4. CASE Around
      BY <1>t, <2>4 DEF Around, Leave, DeleteProject, RemoveSession, TypeOK
    <2> QED BY <2>1, <2>2, <2>3, <2>4 DEF TableStep
  <1>5. overtaken' \subseteq Requests /\ crossed' \cup ever' \subseteq Ids
    BY <1>t DEF TableStep, Observe, TypeOK
  <1> QED BY <1>1, <1>2, <1>3, <1>4, <1>5 DEF Tables, TypeOK, Link, Existing

LEMMA TablesInit == Init => Tables
  <1> SUFFICES ASSUME Init PROVE Tables OBVIOUS
  <1>1. request \in [Requests -> RequestState] /\ RequestsOK BY IdleOK DEF Init, RequestsOK
  <1>2. issued \in 0 .. MaxIssued BY IssuedAssumption DEF Init
  <1>3. links \subseteq Link BY DEF Init
  <1> QED BY <1>1, <1>2, <1>3 DEF Init, Tables, TypeOK

(***************************************************************************)
(* The invariant.                                                          *)
(***************************************************************************)
WorkInv == Tables /\ EditsOK /\ OnlyTheAuthorWrites /\ ProjectOfItsWorkspace /\ LinksAreOwn

LEMMA CrossedStays ==
    ASSUME TableStep, NEW i \in Existing', i \notin crossed'
    PROVE  /\ i \in Ids /\ entries'[i] # Absent /\ i \notin crossed
           /\ \A r \in overtaken : request[r].id = i /\ request'[r] = Idle => entries'[i] = entries[i]
  BY DEF TableStep, Observe, Existing

LEMMA EditsStep ==
    ASSUME WorkInv, TableStep
    PROVE  EditsOK'
  <1>t. Tables /\ Tables' BY TypeStep DEF WorkInv
  <1> SUFFICES ASSUME NEW r \in Requests, request'[r].op = "edit", r \notin overtaken'
               PROVE  LET q == request'[r] IN
                      /\ q.id \in Existing' /\ entries'[q.id].author = q.actor
                      /\ \/ q.id \in crossed' \/ q.project \in {q.id, None}
                         \/ Home[q.project] = entries'[q.id].workspace
    BY DEF EditsOK
  <1> DEFINE q == request'[r]
  <1>c. ASSUME q.id \in crossed, q.id \in Existing' PROVE q.id \in crossed'
    BY <1>c DEF TableStep, Observe, Existing
  <1>1. CASE request'[r] # request[r]
    <2>1. Opening(q) /\ UNCHANGED entries
      <3>1. request'[r] = Idle \/ (Opening(q) /\ UNCHANGED table) \/ q.op = "batch"
        BY <1>t, <1>1, RequestStep DEF Moved
      <3> QED BY <3>1, IdleOK DEF table
    <2>2. q.id \in Existing /\ q.id \in Existing' /\ entries'[q.id].author = q.actor
      BY <2>1 DEF Opening, Existing
    <2>3. \/ q.id \in crossed \/ q.project \in {q.id, None}
          \/ Home[q.project] = entries'[q.id].workspace
      BY <2>1, <2>2 DEF Opening, WorkInv, ProjectOfItsWorkspace
    <2> QED BY <1>c, <2>2, <2>3
  <1>2. CASE request'[r] = request[r]
    <2>1. r \notin overtaken /\ ~ Gone(q.id) BY <1>2 DEF TableStep, Observe
    <2>2. q.id \in Existing /\ entries[q.id].author = q.actor
      BY <1>2, <2>1 DEF WorkInv, EditsOK
    <2>3. \/ q.id \in crossed \/ q.project \in {q.id, None}
          \/ Home[q.project] = entries[q.id].workspace
      BY <1>2, <2>1 DEF WorkInv, EditsOK
    <2>4. entries'[q.id] # Absent /\ q.id \in Existing' BY <2>1, <2>2 DEF Gone, Existing
    <2>5. entries'[q.id].author = entries[q.id].author /\ entries'[q.id].workspace = entries[q.id].workspace
      BY <1>t, <2>2, <2>4, OwnerStays
    <2> QED BY <1>c, <2>2, <2>3, <2>4, <2>5
  <1> QED BY <1>1, <1>2

LEMMA AuthorStep ==
    ASSUME WorkInv, TableStep
    PROVE  OnlyTheAuthorWrites'
  <1> SUFFICES ASSUME NEW i \in Existing', i \notin crossed'
               PROVE  entries'[i].hand = entries'[i].author \/ entries'[i].hand \in InstanceAdmins
    BY DEF OnlyTheAuthorWrites
  <1>0. /\ i \in Ids /\ entries'[i] # Absent /\ i \notin crossed
        /\ \A r \in overtaken : request[r].id = i /\ request'[r] = Idle => entries'[i] = entries[i]
    BY CrossedStays
  <1>1. entries[i] # Absent => entries[i].hand = entries[i].author \/ entries[i].hand \in InstanceAdmins
    BY <1>0 DEF WorkInv, OnlyTheAuthorWrites, Existing
  <1>2. CASE Kept(i) BY <1>0, <1>1, <1>2 DEF Kept
  <1>3. CASE Unprojected(i) BY <1>1, <1>3 DEF Unprojected
  <1>4. CASE Inserted(i) BY <1>4 DEF Inserted
  <1>5. ASSUME NEW r \in Requests, EditedBy(r, i)
        PROVE  entries'[i].hand = entries'[i].author \/ entries'[i].hand \in InstanceAdmins
    <2>1. CASE r \in overtaken BY <1>0, <1>1, <1>5, <2>1 DEF EditedBy
    <2>2. CASE r \notin overtaken BY <1>5, <2>2 DEF EditedBy, WorkInv, EditsOK
    <2> QED BY <2>1, <2>2
  <1> QED BY <1>0, <1>2, <1>3, <1>4, <1>5, EntryStep DEF WorkInv

LEMMA ProjectStep ==
    ASSUME WorkInv, TableStep
    PROVE  ProjectOfItsWorkspace'
  <1> SUFFICES ASSUME NEW i \in Existing', i \notin crossed', entries'[i].project # None
               PROVE  entries'[i].project \in projects' /\ Home[entries'[i].project] = entries'[i].workspace
    BY DEF ProjectOfItsWorkspace
  <1>0. /\ i \in Ids /\ entries'[i] # Absent /\ i \notin crossed
        /\ \A r \in overtaken : request[r].id = i /\ request'[r] = Idle => entries'[i] = entries[i]
    BY CrossedStays
  <1>1. entries[i] # Absent /\ entries[i].project # None =>
            entries[i].project \in projects /\ Home[entries[i].project] = entries[i].workspace
    BY <1>0 DEF WorkInv, ProjectOfItsWorkspace, Existing
  <1>2. CASE Kept(i) BY <1>0, <1>1, <1>2 DEF Kept
  <1>3. CASE Unprojected(i) BY <1>3 DEF Unprojected
  <1>4. CASE Inserted(i) BY <1>4 DEF Inserted
  <1>5. ASSUME NEW r \in Requests, EditedBy(r, i)
        PROVE  entries'[i].project \in projects' /\ Home[entries'[i].project] = entries'[i].workspace
    <2>1. CASE entries'[i].project = entries[i].project BY <1>1, <1>5, <2>1 DEF EditedBy
    <2>2. CASE entries'[i].project # entries[i].project
      <3>1. r \notin overtaken BY <1>0, <1>5, <2>2 DEF EditedBy
      <3>2. /\ entries'[i].project = request[r].project /\ request[r].project # request[r].id
            /\ request[r].project \in projects /\ projects' = projects /\ request[r].id = i
            /\ entries'[i].workspace = entries[i].workspace
        BY <1>5, <2>2 DEF EditedBy
      <3>3. Home[request[r].project] = entries[i].workspace
        BY <1>0, <1>5, <3>1, <3>2 DEF WorkInv, EditsOK, EditedBy
      <3> QED BY <3>2, <3>3
    <2> QED BY <2>1, <2>2
  <1> QED BY <1>0, <1>2, <1>3, <1>4, <1>5, EntryStep DEF WorkInv

LEMMA LinksStep ==
    ASSUME WorkInv, TableStep
    PROVE  LinksAreOwn'
  <1> SUFFICES ASSUME NEW l \in links'
               PROVE  /\ SessionOwner[l.session] = entries'[l.entry].author
                      /\ SessionHome[l.session] = entries'[l.entry].workspace
    BY DEF LinksAreOwn
  <1>1. entries'[l.entry] # Absent /\ (l \in links \/ OwnLink(l, entries'[l.entry].author, entries'[l.entry].workspace))
    BY LinkStep DEF WorkInv
  <1>2. CASE l \in links
    <2>1. l.entry \in Existing BY <1>2 DEF WorkInv, Tables, TypeOK, Link
    <2>2. entries'[l.entry].author = entries[l.entry].author /\ entries'[l.entry].workspace = entries[l.entry].workspace
      BY <1>1, <2>1, OwnerStays DEF WorkInv
    <2> QED BY <1>2, <2>2 DEF WorkInv, LinksAreOwn
  <1>3. CASE l \notin links BY <1>1, <1>3 DEF OwnLink
  <1> QED BY <1>2, <1>3

ImportInv == WorkInv /\ ImporterOK

LEMMA ImportInit == InitImport => ImportInv
  <1> SUFFICES ASSUME InitImport PROVE ImportInv OBVIOUS
  <1>1. EditsOK BY IdleOK DEF InitImport, Init, EditsOK
  <1>2. Existing = {} BY DEF InitImport, Init, Existing
  <1>3. OnlyTheAuthorWrites /\ ProjectOfItsWorkspace BY <1>2 DEF OnlyTheAuthorWrites, ProjectOfItsWorkspace
  <1>4. LinksAreOwn BY DEF InitImport, Init, LinksAreOwn
  <1>5. ImporterOK BY FilesAssumption DEF InitImport, ImporterOK
  <1> QED BY <1>1, <1>3, <1>4, <1>5, TablesInit DEF InitImport, ImportInv, WorkInv

LEMMA ImportInvStep ==
    ASSUME ImportInv, [NextImport]_importVars
    PROVE  ImportInv' /\ (TableStep \/ UNCHANGED vars)
  <1>1. WorkInv /\ ImporterOK' /\ (TableStep \/ UNCHANGED vars)
    BY ImportStep DEF ImportInv, WorkInv, Tables
  <1>2. CASE TableStep
    BY <1>1, <1>2, TypeStep, EditsStep, AuthorStep, ProjectStep, LinksStep DEF ImportInv, WorkInv
  <1>3. CASE UNCHANGED vars
    BY <1>1, <1>3 DEF ImportInv, WorkInv, Tables, TypeOK, RequestsOK, EditsOK, OnlyTheAuthorWrites,
                      ProjectOfItsWorkspace, LinksAreOwn, Link, Existing, vars, place, table, history
  <1> QED BY <1>1, <1>2, <1>3

(* Types, and the foreign keys of the links.                               *)
THEOREM TypeCorrect == ImportSpec => []TypeOK
  <1>1. ImportInv /\ [NextImport]_importVars => ImportInv' BY ImportInvStep
  <1>2. ImportInv => TypeOK BY DEF ImportInv, WorkInv, Tables
  <1> QED BY <1>1, <1>2, ImportInit, PTL DEF ImportSpec

(* work-entries.ts:108.  However edits, deletes and imports interleave,    *)
(* what an entry says is its author's, or an instance admin's import.      *)
THEOREM AuthorsWrite == ImportSpec => []OnlyTheAuthorWrites
  <1>1. ImportInv /\ [NextImport]_importVars => ImportInv' BY ImportInvStep
  <1>2. ImportInv => OnlyTheAuthorWrites BY DEF ImportInv, WorkInv
  <1> QED BY <1>1, <1>2, ImportInit, PTL DEF ImportSpec

(* An entry's project exists and is of the entry's workspace.              *)
THEOREM ProjectsAreTheWorkspaces == ImportSpec => []ProjectOfItsWorkspace
  <1>1. ImportInv /\ [NextImport]_importVars => ImportInv' BY ImportInvStep
  <1>2. ImportInv => ProjectOfItsWorkspace BY DEF ImportInv, WorkInv
  <1> QED BY <1>1, <1>2, ImportInit, PTL DEF ImportSpec

(* An entry is linked to sessions of its author in its workspace only.     *)
THEOREM LinksStayOwn == ImportSpec => []LinksAreOwn
  <1>1. ImportInv /\ [NextImport]_importVars => ImportInv' BY ImportInvStep
  <1>2. ImportInv => LinksAreOwn BY DEF ImportInv, WorkInv
  <1> QED BY <1>1, <1>2, ImportInit, PTL DEF ImportSpec

(* queries/work-entries.ts:134.  No write, racing or not, gives an entry   *)
(* to another author or another workspace: a batch that would is rolled    *)
(* back.                                                                   *)
THEOREM OwnersAreKept == ImportSpec => EntriesKeepTheirOwner
  <1>1. ImportInv /\ [NextImport]_importVars => ImportInv' BY ImportInvStep
  <1>2. ImportInv /\ [NextImport]_importVars =>
          [\A i \in Existing : entries'[i] # Absent =>
             entries'[i].author = entries[i].author /\ entries'[i].workspace = entries[i].workspace]_vars
    <2> SUFFICES ASSUME ImportInv, [NextImport]_importVars, NEW i \in Existing, entries'[i] # Absent,
                        ~ UNCHANGED vars
                 PROVE  entries'[i].author = entries[i].author /\ entries'[i].workspace = entries[i].workspace
      OBVIOUS
    <2>1. TableStep BY ImportInvStep
    <2> QED BY <2>1, OwnerStays DEF ImportInv, WorkInv
  <1> QED BY <1>1, <1>2, ImportInit, PTL DEF ImportSpec, EntriesKeepTheirOwner
(***************************************************************************)
(* What an import reports.                                                 *)
(***************************************************************************)
InFlight(i) == \E r \in Requests : \E row \in request[r].rows : row.id = i

HistoryOK ==
    /\ named \in [Lines -> SUBSET Ids]
    /\ ever \subseteq Ids /\ Existing \subseteq ever
    /\ \A i \in Ids : (i \in ever \/ InFlight(i)) /\ i \in Nat => i <= issued
    /\ \A l \in Lines : file[l].id = None => named[l] \subseteq 1 .. issued

(* A request the importer waits for carries the lines it was made of.      *)
SlotOK ==
    /\ sent \in 0 .. Len(file)
    /\ slot # None =>
         /\ told = "running" /\ slot \in Requests /\ request[slot].op = "batch"
         /\ upto \in sent + 1 .. Len(file)
         /\ \A l \in sent + 1 .. upto : \E row \in request[slot].rows : row.id \in named[l]

Counted == \A l \in 1 .. sent : Became(l) # {}

(* Of the ids a line without an externalId was posted under, at most one   *)
(* is in a request or ever was an entry: in the request the importer waits *)
(* for when the line is not counted yet, an entry when it is.  Before it   *)
(* was one nobody else knows it.                                           *)
Once ==
    \A l \in Lines : file[l].id = None =>
        /\ \A i \in named[l] \cap ever : l <= sent
        /\ \A i \in named[l] \ ever, r \in Requests : \A row \in request[r].rows :
              row.id = i => r = slot /\ l \in sent + 1 .. upto
        /\ \A i, j \in named[l] : (i \in ever \/ InFlight(i)) /\ (j \in ever \/ InFlight(j)) => i = j

ReportInv == HistoryOK /\ SlotOK /\ Counted /\ (missed \/ Once)

EverGrows == ever' = ever \cup {i \in Ids : entries'[i] # Absent}

LEMMA IdleRowless == Idle.rows = {} /\ Idle.op = "idle" BY DEF Idle, Asked

(* No row is added to a request, no id issued, no entry made.              *)
Quiet ==
    /\ issued' = issued
    /\ \A i \in Ids : entries'[i] # Absent => entries[i] # Absent
    /\ \A r \in Requests : \/ request'[r] = request[r]
                           \/ request'[r] = Idle
                           \/ request'[r].op = request[r].op /\ request'[r].rows = request[r].rows

LEMMA GoesIdle ==
    ASSUME TypeOK, NEW r \in Requests, Goes(r, Idle)
    PROVE  request'[r] = Idle /\ \A s \in Requests \ {r} : request'[s] = request[s]
  BY DEF TypeOK, Goes

LEMMA RefuseQuiet ==
    ASSUME TypeOK, NEW r \in Requests, Refuse(r), issued' = issued
    PROVE  Quiet
  <1>1. entries' = entries BY DEF Refuse, table
  <1>2. Goes(r, Idle) BY DEF Refuse
  <1> QED BY <1>1, <1>2, GoesIdle DEF Quiet

LEMMA AroundQuiet ==
    ASSUME TypeOK, Around
    PROVE  Quiet /\ request' = request
  <1>1. ASSUME NEW p \in Projects, DeleteProject(p) PROVE Quiet /\ request' = request
    <2>1. \A i \in Ids : entries'[i] # Absent => entries[i] # Absent
      <3> SUFFICES ASSUME NEW i \in Ids, entries[i] = Absent PROVE entries'[i] = Absent OBVIOUS
      <3> QED BY <1>1, AbsentEntry, NoneAssumption DEF DeleteProject
    <2> QED BY <1>1, <2>1 DEF DeleteProject, Quiet
  <1>2. ASSUME NEW u \in Users, NEW w \in Workspaces, Leave(u, w) PROVE Quiet /\ request' = request
    BY <1>2 DEF Leave, table, Quiet
  <1>3. ASSUME NEW s \in Sessions, RemoveSession(s) PROVE Quiet /\ request' = request
    BY <1>3 DEF RemoveSession, Quiet
  <1> QED BY <1>1, <1>2, <1>3 DEF Around

LEMMA LandsQuiet ==
    ASSUME Tables, NEW r \in Requests, Lands(r)
    PROVE  Quiet /\ request[r].op # "batch" /\ \A s \in Requests \ {r} : request'[s] = request[s]
  <1> DEFINE q == request[r]
  <1>t. TypeOK BY DEF Tables
  <1>1. request[r].op # "batch" BY DEF Lands, WriteEdit, WriteDelete
  <1>2. Goes(r, Idle) /\ issued' = issued BY DEF Lands, WriteEdit, WriteDelete, Refuse
  <1>3. /\ request'[r] = Idle
        /\ \A s \in Requests \ {r} : request'[s] = request[s]
    BY <1>t, <1>2, GoesIdle
  <1>4. \A i \in Ids : entries'[i] # Absent => entries[i] # Absent
    <2>1. CASE Refuse(r) BY <2>1 DEF Refuse, table
    <2>2. CASE WriteDelete(r) BY <1>t, <2>2 DEF WriteDelete, TypeOK
    <2>3. CASE q.id \in Existing /\ entries' = [entries EXCEPT ![q.id] = Edited(@, q)]
      BY <1>t, <2>3 DEF TypeOK, Existing
    <2> QED BY <2>1, <2>2, <2>3 DEF Lands, WriteEdit
  <1> QED BY <1>1, <1>2, <1>3, <1>4 DEF Quiet

LEMMA FailsQuiet ==
    ASSUME Tables, NEW r \in Requests, Fails(r) \/ (WriteRows(r) /\ ~ Acceptable(request[r]))
    PROVE  Quiet /\ \A s \in Requests \ {r} : request'[s] = request[s]
  <1> DEFINE q == request[r]
             p == [q EXCEPT !.step = "write"]
  <1>t. TypeOK BY DEF Tables
  <1>1. CASE Refuse(r) /\ issued' = issued
    <2>1. Goes(r, Idle) BY <1>1 DEF Refuse
    <2> QED BY <1>t, <1>1, <2>1, RefuseQuiet, GoesIdle
  <1>2. CASE CheckOwners(r) /\ ~ Refuse(r)
    <2>1. q \in RequestState BY <1>t DEF TypeOK
    <2>2. p.op = q.op /\ p.rows = q.rows BY <2>1 DEF RequestState
    <2>3. request' = [request EXCEPT ![r] = p] /\ entries' = entries /\ issued' = issued
      BY <1>2 DEF CheckOwners, Goes, table
    <2>4. request'[r] = p /\ \A s \in Requests \ {r} : request'[s] = request[s]
      BY <1>t, <2>3 DEF TypeOK
    <2> HIDE DEF p
    <2> QED BY <2>2, <2>3, <2>4 DEF Quiet
  <1>3. CASE WriteRows(r) /\ ~ Acceptable(q) BY <1>1, <1>3 DEF WriteRows
  <1>4. CASE Crash(r) BY <1>1, <1>4 DEF Crash
  <1>5. CheckOwners(r) => issued' = issued BY DEF CheckOwners
  <1> QED BY <1>1, <1>2, <1>3, <1>4, <1>5 DEF Fails

LEMMA AsksRows ==
    ASSUME TypeOK, NEW r \in Requests, Asks(r)
    PROVE  /\ request[r] = Idle /\ UNCHANGED table /\ issued <= issued'
           /\ \A s \in Requests \ {r} : request'[s] = request[s]
           /\ \A row \in request'[r].rows : row.id \in External \cup ever \/ (row.id = issued + 1 /\ issued' = issued + 1)
  <1> DEFINE Goal == /\ request[r] = Idle /\ UNCHANGED table /\ issued <= issued'
                     /\ \A s \in Requests \ {r} : request'[s] = request[s]
                     /\ \A row \in request'[r].rows :
                          row.id \in External \cup ever \/ (row.id = issued + 1 /\ issued' = issued + 1)
  <1>t. issued \in Nat /\ request = [s \in Requests |-> request[s]] BY IssuedAssumption DEF TypeOK
  <1>1. ASSUME NEW q, Start(r, q), issued' = issued \/ issued' = issued + 1,
               \A row \in q.rows : row.id \in External \cup ever \/ (row.id = issued + 1 /\ issued' = issued + 1)
        PROVE  Goal
    <2>1. request' = [request EXCEPT ![r] = q] /\ request[r] = Idle /\ UNCHANGED table
      BY <1>1 DEF Start, Goes
    <2>2. request'[r] = q /\ \A s \in Requests \ {r} : request'[s] = request[s] BY <1>t, <2>1
    <2>3. issued <= issued' BY <1>t, <1>1
    <2> QED BY <1>1, <2>1, <2>2, <2>3
  <1>2. ASSUME NEW u \in Users, NEW w \in Workspaces, NEW p \in Projects, NEW S \in SUBSET Sessions,
               BeginLog(r, u, w, p, S)
        PROVE  Goal
    <2> DEFINE q == Asked("log", "write", u, w, None, None, {[id |-> issued + 1, project |-> p, author |-> u]}, S)
    <2>1. Start(r, q) /\ issued' = issued + 1 BY <1>2 DEF BeginLog
    <2>2. \A row \in q.rows : row.id = issued + 1 BY DEF Asked
    <2> HIDE DEF q
    <2> QED BY <1>1, <2>1, <2>2
  <1>3. ASSUME NEW u \in Users, NEW w \in Workspaces, NEW p \in Projects, NEW i \in Ids,
               NEW a \in Users, BeginBatch(r, u, w, {[id |-> i, project |-> p, author |-> a]}, 0)
        PROVE  Goal
    <2> DEFINE q == Asked("batch", "owners", u, w, None, None, {[id |-> i, project |-> p, author |-> a]}, {})
    <2>1. Start(r, q) /\ issued' = issued + 0 BY <1>3 DEF BeginBatch
    <2>2. q.rows = {[id |-> i, project |-> p, author |-> a]} BY DEF Asked
    <2> HIDE DEF q
    <2>3. issued' = issued BY <1>t, <2>1
    <2>4. i \in External \cup ever
      <3> DEFINE rows == {[id |-> i, project |-> p, author |-> a]}
      <3>1. {row.id : row \in rows} \subseteq External \cup ever \cup (issued + 1 .. issued + 0)
        BY <1>3 DEF BeginBatch
      <3>2. issued + 1 .. issued + 0 = {} BY <1>t
      <3>3. i \in {row.id : row \in rows} OBVIOUS
      <3> QED BY <3>1, <3>2, <3>3
    <2> QED BY <1>1, <2>1, <2>2, <2>3, <2>4
  <1>4. ASSUME NEW u \in Users, NEW i \in Ids, NEW p \in Projects \cup Ids \cup {None},
               BeginEdit(r, u, i, p) \/ BeginDelete(r, u, i)
        PROVE  Goal
    <2>1. \A op, x : Asked(op, "write", u, None, i, x, {}, {}).rows = {} BY DEF Asked
    <2> QED BY <1>1, <1>4, <2>1 DEF BeginEdit, BeginDelete
  <1>5. ASSUME NEW u \in Users, NEW i \in Ids, BeginDelete(r, u, i) PROVE Goal
    BY <1>4, <1>5
  <1> QED BY <1>2, <1>3, <1>4, <1>5 DEF Asks

LEMMA WritesRows ==
    ASSUME Tables, NEW r \in Requests, WriteRows(r), Acceptable(request[r])
    PROVE  /\ issued' = issued /\ request'[r] = Idle
           /\ \A s \in Requests \ {r} : request'[s] = request[s]
           /\ \A row \in request[r].rows : row.id \in Ids /\ entries'[row.id] # Absent
           /\ \A i \in Ids : entries'[i] # Absent =>
                entries[i] # Absent \/ \E row \in request[r].rows : row.id = i
  <1> DEFINE q == request[r]
  <1>t. TypeOK BY DEF Tables
  <1>1. Inserts(q) /\ Goes(r, Idle) /\ issued' = issued BY DEF WriteRows
  <1>2. request'[r] = Idle /\ \A s \in Requests \ {r} : request'[s] = request[s]
    BY <1>t, <1>1, GoesIdle
  <1>3. q.rows \subseteq Row BY <1>t DEF TypeOK, RequestState
  <1>4. ASSUME NEW row \in q.rows PROVE row.id \in Ids /\ entries'[row.id] # Absent
    <2>1. row.id \in Ids BY <1>3 DEF Row
    <2>2. entries'[row.id] \in Entry BY <1>1, <1>4, <2>1, RowsInserted
    <2> QED BY <2>1, <2>2, AbsentEntry
  <1>5. ASSUME NEW i \in Ids, entries'[i] # Absent
        PROVE  entries[i] # Absent \/ \E row \in q.rows : row.id = i
    BY <1>1, <1>5, RowsInserted
  <1> QED BY <1>1, <1>2, <1>4, <1>5

(* The ids of a chunk's lines: their own, or the next ones of the server.  *)
LEMMA PostIds ==
    ASSUME TypeOK, ImporterOK, NEW to \in ChunkEnds(sent), NEW fresh \in Nat,
           fresh = Cardinality(Unnamed(sent, to))
    PROVE  /\ \A l \in sent + 1 .. to :
                /\ \E row \in Rows(sent, to) : row.id = IdOf(l, sent)
                /\ IdOf(l, sent) \in External \cup (issued + 1 .. issued + fresh)
                /\ file[l].id = None => IdOf(l, sent) \in issued + 1 .. issued + fresh
           /\ \A row \in Rows(sent, to) : row.id \in External \cup (issued + 1 .. issued + fresh)
  <1>0. sent \in Int /\ to \in Int /\ to <= Len(file) /\ sent \in Nat /\ issued \in Nat
    BY IssuedAssumption DEF ImporterOK, ChunkEnds, TypeOK
  <1>1. ASSUME NEW l \in sent + 1 .. to, file[l].id = None
        PROVE  IdOf(l, sent) \in issued + 1 .. issued + fresh
    <2> DEFINE mine == Unnamed(sent, l)
               all == Unnamed(sent, to)
    <2>1. IsFiniteSet(all)
      <3>1. IsFiniteSet(sent + 1 .. to) BY <1>0, FS_Interval
      <3> QED BY <3>1, FS_Subset DEF Unnamed
    <2>2. mine \subseteq all /\ l \in mine BY <1>0, <1>1 DEF Unnamed
    <2> HIDE DEF mine, all
    <2>3. IsFiniteSet(mine) /\ Cardinality(mine) <= Cardinality(all) BY <2>1, <2>2, FS_Subset
    <2>4. Cardinality(mine) \in Nat /\ Cardinality(mine) # 0
      BY <2>2, <2>3, FS_CardinalityType, FS_EmptySet
    <2>5. IdOf(l, sent) = issued + Cardinality(mine) BY <1>1 DEF IdOf, mine
    <2> QED BY <1>0, <2>3, <2>4, <2>5 DEF all
  <1>2. ASSUME NEW l \in sent + 1 .. to, file[l].id # None
        PROVE  IdOf(l, sent) \in External
    <2>1. l \in 1 .. Len(file) BY <1>0
    <2>2. file[l] \in Line BY <2>1 DEF ImporterOK
    <2> QED BY <1>2, <2>2 DEF IdOf, Line
  <1>3. ASSUME NEW l \in sent + 1 .. to PROVE \E row \in Rows(sent, to) : row.id = IdOf(l, sent)
    <2> DEFINE row == [id |-> IdOf(l, sent), project |-> file[l].project, author |-> file[l].author]
    <2>1. row \in Rows(sent, to) /\ row.id = IdOf(l, sent) BY DEF Rows
    <2> QED BY <2>1
  <1>4. ASSUME NEW row \in Rows(sent, to) PROVE \E l \in sent + 1 .. to : row.id = IdOf(l, sent)
    BY DEF Rows
  <1> QED BY <1>1, <1>2, <1>3, <1>4

(* The chunk carries no id that another request or an entry has.           *)
LEMMA PostStep ==
    ASSUME Tables, ImporterOK, ReportInv, NEW r \in Requests, Post(r),
           EverGrows
    PROVE  ReportInv'
  <1>t. TypeOK BY DEF Tables
  <1>1. PICK to \in ChunkEnds(sent) :
          /\ issued + Cardinality(Unnamed(sent, to)) <= MaxIssued
          /\ BeginBatch(r, Importer, Target, Rows(sent, to), Cardinality(Unnamed(sent, to)))
          /\ upto' = to
          /\ named' = [l \in Lines |-> IF l \in sent + 1 .. to THEN named[l] \cup {IdOf(l, sent)}
                                                              ELSE named[l]]
    BY DEF Post
  <1> DEFINE fresh == Cardinality(Unnamed(sent, to))
             rows == Rows(sent, to)
  <1>2. to \in sent + 1 .. Len(file) /\ Len(file) \in Nat /\ sent \in Nat /\ issued \in Nat
    BY <1>t, IssuedAssumption DEF ChunkEnds, ImporterOK, TypeOK
  <1>3. fresh \in Nat /\ issued + fresh <= MaxIssued
    <2>1. sent \in Int /\ to \in Int BY <1>2
    <2>2. Cardinality(Unnamed(sent, to)) \in Nat BY <2>1, FreshNat
    <2> QED BY <1>1, <2>2
  <1> HIDE DEF fresh
  <1>4. /\ request[r] = Idle /\ UNCHANGED table /\ issued' = issued + fresh
        /\ request' = [request EXCEPT ![r] = Asked("batch", "owners", Importer, Target, None, None, rows, {})]
    BY <1>1 DEF BeginBatch, Start, Goes, fresh
  <1>5. /\ request'[r].rows = rows /\ request'[r].op = "batch"
        /\ \A s \in Requests \ {r} : request'[s] = request[s]
    BY <1>t, <1>4 DEF TypeOK, Asked
  <1>6. /\ \A l \in sent + 1 .. to :
             /\ \E row \in rows : row.id = IdOf(l, sent)
             /\ IdOf(l, sent) \in External \cup (issued + 1 .. issued + fresh)
             /\ file[l].id = None => IdOf(l, sent) \in issued + 1 .. issued + fresh
        /\ \A row \in rows : row.id \in External \cup (issued + 1 .. issued + fresh)
    BY <1>t, <1>3, PostIds DEF fresh
  <1>7. /\ UNCHANGED <<file, sent, told, missed>> /\ slot' = r /\ upto' = to
        /\ slot = None /\ told = "running" /\ Lines' = Lines
    BY <1>1 DEF Post, Waiting, Lines
  <1>8. ever' = ever /\ Existing' = Existing BY <1>4 DEF ReportInv, HistoryOK, EverGrows, Existing, table
  <1>9. External \cup (issued + 1 .. issued + fresh) \subseteq Ids
    BY <1>2, <1>3, IssuedAssumption DEF Ids, Generated
  <1>n. ASSUME NEW l \in Lines
        PROVE  /\ l \in sent + 1 .. to => named'[l] = named[l] \cup {IdOf(l, sent)}
               /\ l \notin sent + 1 .. to => named'[l] = named[l]
               /\ named[l] \subseteq named'[l]
    BY <1>1
  <1> HIDE DEF rows
  <1>10. HistoryOK'
    <2>1. named' \in [Lines -> SUBSET Ids]
      <3>1. \A l \in Lines : named'[l] \subseteq Ids BY <1>6, <1>9, <1>n DEF ReportInv, HistoryOK
      <3> QED BY <1>1, <3>1
    <2>2. \A i \in Ids : (i \in ever' \/ InFlight(i)') /\ i \in Nat => i <= issued'
      <3> SUFFICES ASSUME NEW i \in Ids, i \in ever' \/ InFlight(i)', i \in Nat PROVE i <= issued'
        OBVIOUS
      <3>1. i \in ever \/ InFlight(i) \/ \E row \in rows : row.id = i
        BY <1>5, <1>8 DEF InFlight
      <3>2. CASE i \in ever \/ InFlight(i) BY <1>2, <1>3, <1>4, <3>2 DEF ReportInv, HistoryOK
      <3>3. CASE \E row \in rows : row.id = i BY <1>2, <1>3, <1>4, <1>6, <3>3, IdAssumption
      <3> QED BY <3>1, <3>2, <3>3
    <2>3. \A l \in Lines : file[l].id = None => named'[l] \subseteq 1 .. issued'
      <3> SUFFICES ASSUME NEW l \in Lines, file[l].id = None, NEW i \in named'[l]
                   PROVE  i \in 1 .. issued'
        OBVIOUS
      <3>1. i \in named[l] \/ (l \in sent + 1 .. to /\ i = IdOf(l, sent)) BY <1>n
      <3>2. CASE i \in named[l] BY <1>2, <1>3, <1>4, <3>2 DEF ReportInv, HistoryOK
      <3>3. CASE l \in sent + 1 .. to /\ i = IdOf(l, sent) BY <1>2, <1>3, <1>4, <1>6, <3>3
      <3> QED BY <3>1, <3>2, <3>3
    <2> QED BY <1>7, <1>8, <2>1, <2>2, <2>3 DEF ReportInv, HistoryOK
  <1>11. SlotOK'
    <2>1. \A l \in sent + 1 .. to : \E row \in rows : row.id \in named'[l]
      <3> SUFFICES ASSUME NEW l \in sent + 1 .. to PROVE \E row \in rows : row.id \in named'[l]
        OBVIOUS
      <3>1. l \in Lines BY <1>2 DEF Lines
      <3> QED BY <1>6, <1>n, <3>1
    <2> QED BY <1>2, <1>5, <1>7, <2>1 DEF ReportInv, SlotOK
  <1>12. Counted'
    <2>1. \A l \in 1 .. sent : l \in Lines BY <1>2 DEF Lines
    <2> QED BY <1>7, <1>8, <1>n, <2>1 DEF ReportInv, Counted, Became
  <1>13. ASSUME Once PROVE Once'
    <2> SUFFICES ASSUME NEW l \in Lines, file[l].id = None
                 PROVE  /\ \A i \in named'[l] \cap ever : l <= sent
                        /\ \A i \in named'[l] \ ever, s \in Requests : \A row \in request'[s].rows :
                              row.id = i => s = r /\ l \in sent + 1 .. to
                        /\ \A i, j \in named'[l] :
                             (i \in ever \/ InFlight(i)') /\ (j \in ever \/ InFlight(j)') => i = j
      BY <1>7, <1>8 DEF Once
    <2>o. /\ \A i \in named[l] \cap ever : l <= sent
          /\ \A i \in named[l] \ ever, s \in Requests : \A row \in request[s].rows :
                row.id = i => s = slot /\ l \in sent + 1 .. upto
          /\ \A i, j \in named[l] :
               (i \in ever \/ InFlight(i)) /\ (j \in ever \/ InFlight(j)) => i = j
      BY <1>13 DEF Once
    <2>1. \A i \in named[l] \ ever : ~ InFlight(i) BY <1>7, <2>o, SlotAssumption DEF InFlight
    <2>2. \A i \in named[l] : i \in Ids /\ i \in 1 .. issued BY DEF ReportInv, HistoryOK
    <2>3. \A i \in named[l] : \A row \in rows : row.id # i
      BY <1>2, <1>3, <1>6, <2>2, IdAssumption
    <2>4. \A i \in named[l] \ ever : ~ InFlight(i)' BY <1>5, <2>1, <2>3 DEF InFlight
    <2>5. CASE l \notin sent + 1 .. to
      <3>1. named'[l] = named[l] BY <1>n, <2>5
      <3>2. \A i \in named[l] \ ever, s \in Requests : \A row \in request'[s].rows : row.id # i
        BY <2>4 DEF InFlight
      <3>3. \A i, j \in named[l] : (i \in ever \/ InFlight(i)') /\ (j \in ever \/ InFlight(j)') => i = j
        BY <2>o, <2>4
      <3> QED BY <2>o, <3>1, <3>2, <3>3
    <2>6. CASE l \in sent + 1 .. to
      <3> DEFINE new == IdOf(l, sent)
      <3>1. named'[l] = named[l] \cup {new} BY <1>n, <2>6
      <3>2. new \in issued + 1 .. issued + fresh BY <1>6, <2>6
      <3> HIDE DEF new
      <3>3. new \in Nat /\ new \in Ids /\ new > issued BY <1>2, <1>3, <1>9, <3>2
      <3>4. new \notin ever /\ ~ InFlight(new) BY <1>2, <3>3 DEF ReportInv, HistoryOK
      <3>5. \A i \in named[l] : i \notin ever BY <1>2, <2>o, <2>6
      <3>6. \A s \in Requests \ {r} : \A row \in request'[s].rows : row.id # new
        BY <1>5, <3>4 DEF InFlight
      <3>7. \A i \in named'[l] : (i \in ever \/ InFlight(i)') => i = new
        BY <2>4, <3>1, <3>5
      <3>8. \A i \in named'[l], s \in Requests : \A row \in request'[s].rows : row.id = i => s = r
        BY <2>4, <3>1, <3>5, <3>6 DEF InFlight
      <3>9. \A i \in named'[l] : i \notin ever BY <3>1, <3>4, <3>5
      <3> QED BY <2>6, <3>7, <3>8, <3>9
    <2> QED BY <2>5, <2>6
  <1> QED BY <1>7, <1>10, <1>11, <1>12, <1>13 DEF ReportInv

LEMMA QuietHistory ==
    ASSUME HistoryOK, Quiet, EverGrows, UNCHANGED <<file, named>>
    PROVE  HistoryOK' /\ ever' = ever /\ \A i : InFlight(i)' => InFlight(i)
  <1>1. Existing' \subseteq Existing BY DEF Quiet, Existing
  <1>2. ever' = ever /\ Existing' \subseteq ever' BY <1>1 DEF HistoryOK, EverGrows, Existing
  <1>3. \A i : InFlight(i)' => InFlight(i) BY IdleRowless DEF Quiet, InFlight
  <1>4. Lines' = Lines BY DEF Lines
  <1> QED BY <1>2, <1>3, <1>4 DEF HistoryOK, Quiet

LEMMA QuietReport ==
    ASSUME ReportInv, Quiet, EverGrows, UNCHANGED <<file, named, upto, sent, missed>>,
           \/ slot' = slot /\ told' = told
              /\ (slot # None => \/ request'[slot] = request[slot]
                                 \/ request'[slot].op = request[slot].op /\ request'[slot].rows = request[slot].rows)
           \/ slot' = None /\ (slot # None => request'[slot] = Idle)
    PROVE  ReportInv'
  <1>1. HistoryOK' /\ ever' = ever /\ \A i : InFlight(i)' => InFlight(i)
    BY QuietHistory DEF ReportInv
  <1>2. Lines' = Lines BY DEF Lines
  <1>3. SlotOK' BY DEF ReportInv, SlotOK
  <1>4. Counted' BY <1>1 DEF ReportInv, Counted, Became
  <1>5. ASSUME Once PROVE Once'
    <2>1. ASSUME NEW l \in Lines, file[l].id = None, NEW i \in named[l] \ ever, NEW r \in Requests,
                 NEW row \in request'[r].rows, row.id = i
          PROVE  r = slot' /\ l \in sent + 1 .. upto
      <3>1. row \in request[r].rows /\ request'[r] # Idle BY <2>1, IdleRowless DEF Quiet
      <3>2. r = slot /\ l \in sent + 1 .. upto BY <1>5, <2>1, <3>1 DEF Once
      <3>3. slot # None BY <3>2, SlotAssumption
      <3> QED BY <3>1, <3>2, <3>3
    <2>2. ASSUME NEW l \in Lines, file[l].id = None
          PROVE  /\ \A i \in named[l] \cap ever : l <= sent
                 /\ \A i, j \in named[l] :
                      (i \in ever \/ InFlight(i)') /\ (j \in ever \/ InFlight(j)') => i = j
      BY <1>1, <1>5, <2>2 DEF Once
    <2> QED BY <1>1, <1>2, <2>1, <2>2 DEF Once
  <1> QED BY <1>1, <1>3, <1>4, <1>5 DEF ReportInv

(* Others ask under ids of their own choice or under fresh ones.           *)
LEMMA AsksReport ==
    ASSUME Tables, ReportInv, NEW r \in Requests, Asks(r), EverGrows,
           UNCHANGED <<importer, missed, named>>
    PROVE  ReportInv'
  <1>t. TypeOK /\ issued \in Nat BY IssuedAssumption DEF Tables, TypeOK
  <1>1. /\ request[r] = Idle /\ UNCHANGED table /\ issued <= issued'
        /\ \A s \in Requests \ {r} : request'[s] = request[s]
        /\ \A row \in request'[r].rows : row.id \in External \cup ever \/ (row.id = issued + 1 /\ issued' = issued + 1)
    BY <1>t, AsksRows
  <1>2. UNCHANGED <<file, sent, upto, slot, told, missed, named>> BY DEF importer
  <1>3. Existing' = Existing BY <1>1 DEF table, Existing
  <1>4. ever' = ever /\ Lines' = Lines BY <1>2, <1>3 DEF EverGrows, Existing, ReportInv, HistoryOK, Lines
  <1>5. \A i : InFlight(i)' => InFlight(i) \/ i \in External \cup ever \/ (i = issued + 1 /\ issued' = issued + 1)
    BY <1>1 DEF InFlight
  <1>6. issued' \in Nat
    <2>1. Asking(r) BY <1>t, AsksAsk
    <2> QED BY <2>1, IssuedAssumption DEF Asking
  <1>7. HistoryOK'
    <2>1. \A i \in Ids : (i \in ever \/ InFlight(i)') /\ i \in Nat => i <= issued'
      <3> SUFFICES ASSUME NEW i \in Ids, i \in ever \/ InFlight(i)', i \in Nat PROVE i <= issued'
        OBVIOUS
      <3>1. CASE i \in ever \/ InFlight(i) BY <1>t, <1>1, <1>6, <3>1 DEF ReportInv, HistoryOK
      <3>2. CASE i = issued + 1 /\ issued' = issued + 1 BY <1>t, <3>2
      <3> QED BY <1>5, <3>1, <3>2, IdAssumption
    <2>2. \A l \in Lines : file[l].id = None => named[l] \subseteq 1 .. issued'
      <3> SUFFICES ASSUME NEW l \in Lines, file[l].id = None, NEW i \in named[l] PROVE i \in 1 .. issued'
        OBVIOUS
      <3>1. i \in 1 .. issued BY DEF ReportInv, HistoryOK
      <3> QED BY <1>t, <1>1, <1>6, <3>1
    <2> QED BY <1>2, <1>3, <1>4, <2>1, <2>2 DEF ReportInv, HistoryOK
  <1>8. SlotOK'
    <2>1. slot # None => slot \in Requests \ {r} BY <1>1, IdleRowless DEF ReportInv, SlotOK
    <2> QED BY <1>1, <1>2, <2>1 DEF ReportInv, SlotOK
  <1>9. Counted' BY <1>2, <1>4 DEF ReportInv, Counted, Became
  <1>10. ASSUME Once PROVE Once'
    <2> SUFFICES ASSUME NEW l \in Lines, file[l].id = None
                 PROVE  /\ \A i \in named[l] \cap ever : l <= sent
                        /\ \A i \in named[l] \ ever, s \in Requests : \A row \in request'[s].rows :
                              row.id = i => s = slot /\ l \in sent + 1 .. upto
                        /\ \A i, j \in named[l] :
                             (i \in ever \/ InFlight(i)') /\ (j \in ever \/ InFlight(j)') => i = j
      BY <1>2, <1>4 DEF Once
    <2>o. /\ \A i \in named[l] \cap ever : l <= sent
          /\ \A i \in named[l] \ ever, s \in Requests : \A row \in request[s].rows :
                row.id = i => s = slot /\ l \in sent + 1 .. upto
          /\ \A i, j \in named[l] :
               (i \in ever \/ InFlight(i)) /\ (j \in ever \/ InFlight(j)) => i = j
      BY <1>10 DEF Once
    <2>1. \A i \in named[l] : i \in Nat /\ i <= issued
      <3>1. named[l] \subseteq 1 .. issued BY DEF ReportInv, HistoryOK
      <3> QED BY <1>t, <3>1
    <2>2. \A i \in named[l] \ ever : \A row \in request'[r].rows : row.id # i BY <1>t, <1>1, <2>1, IdAssumption
    <2>3. \A i \in named[l] \ ever, s \in Requests : \A row \in request'[s].rows :
             row.id = i => row \in request[s].rows
      BY <1>1, <2>2
    <2>4. \A i \in named[l] \ ever : InFlight(i)' => InFlight(i) BY <2>3 DEF InFlight
    <2> QED BY <2>o, <2>3, <2>4
  <1> QED BY <1>2, <1>7, <1>8, <1>9, <1>10 DEF ReportInv

(* A write that succeeds: if the importer waits for it, all its lines are  *)
(* counted; if not, none of its rows is one of an unnamed line.            *)
LEMMA WritesReport ==
    ASSUME Tables, ImporterOK, ReportInv, NEW r \in Requests, WriteRows(r), Acceptable(request[r]),
           Hears(r, TRUE), EverGrows, UNCHANGED <<file, upto, missed, named>>
    PROVE  ReportInv'
  <1>1. /\ issued' = issued /\ request'[r] = Idle
        /\ \A s \in Requests \ {r} : request'[s] = request[s]
        /\ \A row \in request[r].rows : row.id \in Ids /\ entries'[row.id] # Absent
        /\ \A i \in Ids : entries'[i] # Absent =>
             entries[i] # Absent \/ \E row \in request[r].rows : row.id = i
    BY WritesRows
  <1>2. Lines' = Lines BY DEF Lines
  <1>3. ever' \subseteq Ids /\ Existing' \subseteq ever' /\ ever \subseteq ever'
    BY DEF ReportInv, HistoryOK, EverGrows, Existing
  <1>4. \A i \in ever' : i \in ever \/ \E row \in request[r].rows : row.id = i
    BY <1>1 DEF ReportInv, HistoryOK, EverGrows, Existing
  <1>5. \A row \in request[r].rows : row.id \in ever' BY <1>1 DEF EverGrows
  <1>6. \A i : InFlight(i)' => InFlight(i) BY <1>1, IdleRowless DEF InFlight
  <1>7. \A i \in ever' : i \in ever \/ InFlight(i) BY <1>4 DEF InFlight
  <1>8. HistoryOK' BY <1>1, <1>2, <1>3, <1>6, <1>7 DEF ReportInv, HistoryOK
  <1>9. \/ r # slot /\ UNCHANGED <<sent, slot, told>>
        \/ r = slot /\ slot # None /\ slot' = None /\ sent' = upto
    BY <1>1, SlotAssumption DEF Hears
  <1>10. SlotOK' BY <1>1, <1>9 DEF ReportInv, SlotOK
  <1>11. Counted'
    <2>1. CASE r # slot BY <1>3, <1>9, <2>1 DEF ReportInv, Counted, Became
    <2>2. CASE r = slot
      <3> SUFFICES ASSUME NEW l \in 1 .. upto PROVE named[l] \cap ever' # {}
        BY <1>9, <2>2 DEF Counted, Became
      <3>1. CASE l \in 1 .. sent BY <1>3, <3>1 DEF ReportInv, Counted, Became
      <3>2. CASE l \in sent + 1 .. upto BY <1>5, <1>9, <2>2, <3>2 DEF ReportInv, SlotOK
      <3> QED BY <3>1, <3>2 DEF ImporterOK
    <2> QED BY <2>1, <2>2
  <1>12. ASSUME Once PROVE Once'
    <2> SUFFICES ASSUME NEW l \in Lines, file[l].id = None
                 PROVE  /\ \A i \in named[l] \cap ever' : l <= sent'
                        /\ \A i \in named[l] \ ever', s \in Requests : \A row \in request'[s].rows :
                              row.id = i => s = slot' /\ l \in sent' + 1 .. upto
                        /\ \A i, j \in named[l] :
                             (i \in ever' \/ InFlight(i)') /\ (j \in ever' \/ InFlight(j)') => i = j
      BY <1>2 DEF Once
    <2>o. /\ \A i \in named[l] \cap ever : l <= sent
          /\ \A i \in named[l] \ ever, s \in Requests : \A row \in request[s].rows :
                row.id = i => s = slot /\ l \in sent + 1 .. upto
          /\ \A i, j \in named[l] :
               (i \in ever \/ InFlight(i)) /\ (j \in ever \/ InFlight(j)) => i = j
      BY <1>12 DEF Once
    <2>n. l \in Nat /\ sent \in Nat /\ upto \in Nat BY DEF Lines, ImporterOK
    <2>1. \A i, j \in named[l] : (i \in ever' \/ InFlight(i)') /\ (j \in ever' \/ InFlight(j)') => i = j
      BY <1>6, <1>7, <2>o
    <2>2. ASSUME NEW i \in named[l] \cap ever' PROVE l <= sent'
      <3>1. CASE i \in ever
        <4>1. l <= sent BY <2>o, <2>2, <3>1
        <4>2. slot # None => sent <= upto BY <2>n DEF ReportInv, SlotOK
        <4> QED BY <1>9, <2>n, <4>1, <4>2
      <3>2. CASE i \notin ever /\ \E row \in request[r].rows : row.id = i
        BY <1>9, <2>n, <2>o, <2>2, <3>2
      <3> QED BY <1>4, <2>2, <3>1, <3>2
    <2>3. ASSUME NEW i \in named[l] \ ever', NEW s \in Requests, NEW row \in request'[s].rows, row.id = i
          PROVE  s = slot' /\ l \in sent' + 1 .. upto
      <3>1. s # r /\ row \in request[s].rows BY <1>1, <2>3, IdleRowless
      <3>2. s = slot /\ l \in sent + 1 .. upto BY <1>3, <2>o, <2>3, <3>1
      <3> QED BY <1>9, <3>1, <3>2
    <2> QED BY <2>1, <2>2, <2>3
  <1> QED BY <1>8, <1>10, <1>11, <1>12 DEF ReportInv

LEMMA ReportStep ==
    ASSUME Tables, ImporterOK, ReportInv, NextImport
    PROVE  ReportInv'
  <1>e. EverGrows
    <2>1. CASE Observe BY <2>1 DEF Observe, EverGrows
    <2>2. CASE UNCHANGED vars BY <2>2 DEF vars, history, table, EverGrows, ReportInv, HistoryOK, Existing
    <2> QED BY <2>1, <2>2 DEF NextImport, Refused, GivesUp, Rerun
  <1>1. ASSUME NEW r \in Requests, Post(r) PROVE ReportInv' BY <1>e, <1>1, PostStep
  <1>2. ASSUME Refused \/ GivesUp \/ Rerun PROVE ReportInv'
    <2>1. UNCHANGED <<vars, file, upto, named>> BY <1>2 DEF Refused, GivesUp, Rerun
    <2>2. entries' = entries /\ request' = request /\ issued' = issued BY <2>1 DEF vars, table
    <2>3. Quiet BY <2>2 DEF Quiet
    <2>4. HistoryOK' /\ ever' = ever BY <1>e, <2>1, <2>3, QuietHistory DEF ReportInv
    <2>5. Lines' = Lines BY <2>1 DEF Lines
    <2>6. slot' = None BY <1>2, <2>1 DEF Refused, GivesUp, Rerun, Waiting, ReportInv, SlotOK
    <2>7. sent' = sent \/ (sent' = 0 /\ AllExternal) BY <1>2 DEF Refused, GivesUp, Rerun, Resume
    <2>8. SlotOK' BY <2>1, <2>6, <2>7 DEF ReportInv, SlotOK, ImporterOK
    <2>9. Counted' BY <2>1, <2>4, <2>7 DEF ReportInv, Counted, Became
    <2>10. missed' \/ Once'
      <3>1. CASE AllExternal BY <2>1, <2>5, <3>1 DEF AllExternal, Once
      <3>2. CASE slot # None BY <1>2, <3>2 DEF Refused, GivesUp, Rerun, Waiting, ReportInv, SlotOK
      <3>3. CASE sent' = sent /\ slot = None /\ missed' = missed
        <4>1. Once => Once' BY <2>1, <2>2, <2>4, <2>5, <2>6, <3>3 DEF Once, InFlight
        <4> QED BY <3>3, <4>1 DEF ReportInv
      <3> QED BY <1>2, <2>7, <3>1, <3>2, <3>3 DEF Refused, GivesUp, Rerun
    <2> QED BY <2>4, <2>8, <2>9, <2>10 DEF ReportInv
  <1>3. ASSUME Around, UNCHANGED <<importer, missed, named>> PROVE ReportInv'
    <2>1. Quiet /\ request' = request BY <1>3, AroundQuiet DEF Tables
    <2> QED BY <1>e, <1>3, <2>1, QuietReport DEF importer
  <1>4. ASSUME NEW r \in Requests, Lands(r), UNCHANGED <<importer, missed, named>> PROVE ReportInv'
    <2>1. Quiet /\ request[r].op # "batch" /\ \A s \in Requests \ {r} : request'[s] = request[s]
      BY <1>4, LandsQuiet
    <2>2. slot # None => request'[slot] = request[slot] BY <2>1 DEF ReportInv, SlotOK
    <2> QED BY <1>e, <1>4, <2>1, <2>2, QuietReport DEF importer
  <1>5. ASSUME NEW r \in Requests, Asks(r), UNCHANGED <<importer, missed, named>> PROVE ReportInv'
    BY <1>e, <1>5, AsksReport
  <1>6. ASSUME NEW r \in Requests, Hears(r, FALSE), UNCHANGED <<file, upto, missed, named>>,
               Fails(r) \/ (WriteRows(r) /\ ~ Acceptable(request[r]))
        PROVE  ReportInv'
    <2>1. Quiet /\ \A s \in Requests \ {r} : request'[s] = request[s] BY <1>6, FailsQuiet
    <2>2. CASE r # slot
      <3>1. UNCHANGED <<sent, slot, told>> BY <1>6, <2>2 DEF Hears
      <3>2. slot # None => request'[slot] = request[slot] BY <2>1, <2>2 DEF ReportInv, SlotOK
      <3> QED BY <1>e, <1>6, <2>1, <3>1, <3>2, QuietReport
    <2>3. CASE r = slot /\ request'[r] # Idle
      <3>1. UNCHANGED <<sent, slot, told>> BY <1>6, <2>3 DEF Hears
      <3>2. \/ request'[slot] = request[slot]
            \/ request'[slot].op = request[slot].op /\ request'[slot].rows = request[slot].rows
        BY <2>1, <2>3 DEF Quiet
      <3> QED BY <1>e, <1>6, <2>1, <3>1, <3>2, QuietReport
    <2>4. CASE r = slot /\ request'[r] = Idle
      <3>1. sent' = sent /\ slot' = None BY <1>6, <2>4 DEF Hears
      <3> QED BY <1>e, <1>6, <2>1, <2>4, <3>1, QuietReport
    <2> QED BY <2>2, <2>3, <2>4
  <1>7. ASSUME NEW r \in Requests, WriteRows(r), Hears(r, Acceptable(request[r])),
               UNCHANGED <<file, upto, missed, named>>
        PROVE  ReportInv'
    <2>1. CASE Acceptable(request[r])
      <3>1. Hears(r, TRUE) BY <1>7, <2>1 DEF Hears
      <3> QED BY <1>e, <1>7, <2>1, <3>1, WritesReport
    <2>2. CASE ~ Acceptable(request[r])
      <3>1. Hears(r, FALSE) BY <1>7, <2>2 DEF Hears
      <3> QED BY <1>6, <1>7, <2>2, <3>1
    <2> QED BY <2>1, <2>2
  <1> QED BY <1>1, <1>2, <1>3, <1>4, <1>5, <1>6, <1>7 DEF NextImport

LEMMA ReportInit == InitImport => ReportInv
  <1> SUFFICES ASSUME InitImport PROVE ReportInv OBVIOUS
  <1>1. file \in Seq(Line) BY FilesAssumption DEF InitImport
  <1>2. Len(file) \in Nat BY <1>1
  <1>3. Existing = {} /\ ever = {} /\ sent = 0 /\ slot = None BY DEF InitImport, Init, Existing
  <1>4. \A i : ~ InFlight(i) BY IdleRowless DEF InitImport, Init, InFlight
  <1>5. \A l \in Lines : named[l] = {} BY DEF InitImport
  <1>6. named \in [Lines -> SUBSET Ids] BY DEF InitImport
  <1>7. HistoryOK BY <1>3, <1>4, <1>5, <1>6 DEF HistoryOK
  <1>8. SlotOK BY <1>2, <1>3 DEF SlotOK
  <1>9. Counted BY <1>3 DEF Counted
  <1>10. Once BY <1>5 DEF Once
  <1> QED BY <1>7, <1>8, <1>9, <1>10 DEF ReportInv

LEMMA ReportHolds ==
    ASSUME ImporterOK, ReportInv
    PROVE  ReportIsHonest
  <1>1. \A l \in 1 .. sent : Became(l) # {} BY DEF ReportInv, Counted
  <1>2. ASSUME Once, NEW l \in Lines, file[l].id = None
        PROVE  Cardinality(Became(l)) <= IF l <= sent THEN 1 ELSE 0
    <2>1. \A i, j \in Became(l) : i = j BY <1>2 DEF Once, Became
    <2>2. CASE Became(l) = {} BY <2>2, FS_EmptySet
    <2>3. CASE Became(l) # {}
      <3>1. PICK i \in Became(l) : TRUE BY <2>3
      <3>2. Became(l) = {i} BY <2>1, <3>1
      <3>3. l <= sent BY <1>2, <3>1 DEF Once, Became
      <3>4. Cardinality(Became(l)) = 1 BY <3>2, FS_Singleton
      <3> QED BY <3>3, <3>4
    <2> QED BY <2>2, <2>3
  <1> QED BY <1>1, <1>2 DEF ReportInv, ReportIsHonest

(* import-entries.ts:124. The report of a stopped import is true, however  *)
(* often it stops, whatever is done to the entries meanwhile: every line   *)
(* counted became an entry, and of the lines without an externalId each    *)
(* counted one became exactly one entry and no other became any, as long   *)
(* as the importer never gave up on a request that was still running.      *)
THEOREM ReportsAreHonest == ImportSpec => []ReportIsHonest
  <1> DEFINE Inv == ImportInv /\ ReportInv
  <1>1. InitImport => Inv BY ImportInit, ReportInit
  <1>2. Inv /\ [NextImport]_importVars => Inv'
    <2> SUFFICES ASSUME ImportInv, ReportInv, [NextImport]_importVars PROVE ReportInv'
      BY ImportInvStep
    <2>1. CASE NextImport BY <2>1, ReportStep DEF ImportInv, WorkInv
    <2>2. CASE UNCHANGED importVars
      BY <2>2 DEF importVars, importer, vars, table, history, ReportInv, HistoryOK, SlotOK, Counted, Once, Became,
                  InFlight, Lines, Existing
    <2> QED BY <2>1, <2>2
  <1>3. Inv => ReportIsHonest BY ReportHolds DEF ImportInv
  <1> HIDE DEF Inv
  <1> QED BY <1>1, <1>2, <1>3, PTL DEF ImportSpec
=============================================================================
