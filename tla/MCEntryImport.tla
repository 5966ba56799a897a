---------------------------- MODULE MCEntryImport ----------------------------
(***************************************************************************)
(* Two authors, the second an instance admin importing into the workspace  *)
(* they share; the other workspace is the admin's alone.                   *)
(***************************************************************************)
EXTENDS EntryImport, TLC

CONSTANTS ann, bob, w1, w2, p1, p2, s1, x

MCHome == p1 :> w1 @@ p2 :> w2
MCSessionOwner == [s \in Sessions |-> ann]
MCSessionHome == [s \in Sessions |-> w1]
Swaps == Permutations(Requests)

LineOf(i, a) == [id |-> i, project |-> p1, author |-> a]
MCFiles == {<<LineOf(x, ann)>>, <<LineOf(x, ann), LineOf(None, bob), LineOf(None, ann)>>}

(* One thing at a time changes around the requests.  While the longer file *)
(* is imported nothing does, and others only edit and delete what it       *)
(* makes.  Next to the short one an entry may be logged; then the import   *)
(* waits and every request is about that entry.                            *)
Changes == {<<"project", p>> : p \in Projects \ projects} \cup {<<"session", s>> : s \in Sessions \ sessions}
             \cup {<<"left", u>> : u \in Users \ members[w1]} \cup {<<"moved", u>> : u \in Users \ members[w2]}
About(q) == {q.id} \cup {row.id : row \in q.rows}
Telling ==
    /\ \A c, d \in Changes : c = d
    /\ bob \in members[w1] => readers[p1] = members[w1]
    /\ bob \in members[w2] => bob \in readers[p2] /\ (ann \in members[w1] => ann \notin readers[p2])
    /\ IF Len(file) = 1
       THEN /\ ~ missed
            /\ issued = 0 \/ /\ issued = 1 /\ Existing \subseteq {1} /\ sent = 0 /\ Waiting
                             /\ \A r \in Requests : request[r] = Idle \/ 1 \in About(request[r])
       ELSE /\ Changes = {}
            /\ \A r \in Requests : /\ request[r].op # "log"
                                   /\ request[r].op = "batch" =>
                                         r = slot \/ (missed /\ ~ About(request[r]) \subseteq ever \cup {None})
            /\ entries[x].workspace # w2 /\ overtaken = {}
=============================================================================
