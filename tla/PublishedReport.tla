--------------------------- MODULE PublishedReport ---------------------------
(***************************************************************************)
(* What a report promises its readers, without headers, tables or          *)
(* requests: editions are only ever appended, until the report is          *)
(* withdrawn for good; whoever was sent an edition keeps a copy of it; a   *)
(* door shows the public one edition, opened once by the owner or by the   *)
(* holder of a copy of it, and closed for good.                            *)
(***************************************************************************)
EXTENDS Sequences, Naturals

CONSTANTS Users, Owner, Scopes, Links

VARIABLES
    editions,      \* the scopes published, oldest first
    withdrawn,
    copies,
    doors,         \* those open
    spent          \* the links that ever were a door

book == <<editions, withdrawn, copies, doors, spent>>

Init ==
    /\ editions = <<>> /\ withdrawn = FALSE
    /\ copies = {} /\ doors = {} /\ spent = {}

Publish(scope) ==
    /\ ~ withdrawn
    /\ editions' = Append(editions, scope)
    /\ UNCHANGED <<withdrawn, copies, doors, spent>>

Copy(v, u) == [version |-> v, to |-> u]
Send(v, U) ==
    /\ v \in 1 .. Len(editions)
    /\ copies' = copies \cup {Copy(v, u) : u \in U}
    /\ UNCHANGED <<editions, withdrawn, doors, spent>>

Door(l, v, u) == [link |-> l, version |-> v, by |-> u]
Open(l, v, u) ==
    /\ l \notin spent
    /\ v \in 1 .. Len(editions)
    /\ u = Owner \/ Copy(v, u) \in copies
    /\ doors' = doors \cup {Door(l, v, u)}
    /\ spent' = spent \cup {l}
    /\ UNCHANGED <<editions, withdrawn, copies>>

Shut(l) ==
    /\ doors' = {d \in doors : d.link # l}
    /\ UNCHANGED <<editions, withdrawn, copies, spent>>

(* A reader goes, with the copies and the doors they had.                  *)
Forget(u) ==
    /\ copies' = {c \in copies : c.to # u}
    /\ doors' = {d \in doors : d.by # u}
    /\ UNCHANGED <<editions, withdrawn, spent>>

Withdraw ==
    /\ editions' = <<>> /\ withdrawn' = TRUE
    /\ copies' = {} /\ doors' = {}
    /\ UNCHANGED spent

Next ==
    \/ \E scope \in Scopes : Publish(scope)
    \/ \E v \in 1 .. Len(editions) : \/ \E U \in SUBSET Users : Send(v, U)
                                     \/ \E l \in Links, u \in Users : Open(l, v, u)
    \/ \E l \in Links : Shut(l)
    \/ \E u \in Users : Forget(u)
    \/ Withdraw

Spec == Init /\ [][Next]_book
=============================================================================
