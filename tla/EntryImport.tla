----------------------------- MODULE EntryImport -----------------------------
(***************************************************************************)
(* spantail entries import: a file of lines posted to /work-entries/batch  *)
(* one request after the other, while others use the same table.  A        *)
(* request is atomic and the file is not: a failure reports how far the    *)
(* import came, and the user runs it again as that report says.            *)
(***************************************************************************)
EXTENDS WorkEntries, Sequences, FiniteSets

CONSTANTS
    Files,          \* the files one may import: sequences of lines
    Importer,       \* the user running the import
    Target,         \* the workspace it imports into
    MaxEntries,     \* MAX_WORK_ENTRIES_PER_BATCH
    MaxProjects     \* MAX_PROJECTS_PER_BATCH

(* What a line says of its id was made up before the import began.         *)
Line == [id : External \cup {None}, project : Projects, author : Users]

ASSUME FilesAssumption == Files \subseteq Seq(Line)
ASSUME ImportAssumption == Importer \in Users /\ Target \in Workspaces
ASSUME SlotAssumption == None \notin Requests
ASSUME CapsAssumption == MaxEntries \in Nat \ {0} /\ MaxProjects \in Nat \ {0}

VARIABLES
    file,           \* the lines, parsed and resolved
    sent,           \* lines the importer knows to be imported
    upto,           \* the last line of the request it waits for
    slot,           \* that request
    told,           \* what it told the user
    \* History variables.
    missed,         \* it gave up on a request that was still running
    named           \* line -> the ids it was ever posted under

importer == <<file, sent, upto, slot, told>>
importVars == <<vars, importer, missed, named>>

Lines == 1 .. Len(file)
AllExternal == \A l \in Lines : file[l].id # None

InitImport ==
    /\ Init
    /\ file \in Files
    /\ sent = 0 /\ upto = 0
    /\ slot = None
    /\ told = "running"
    /\ missed = FALSE
    /\ named = [l \in Lines |-> {}]

(* A request takes the lines after the first `from`, as many as both caps  *)
(* allow.                                                                  *)
Fits(from, to) == /\ to - from <= MaxEntries
                  /\ Cardinality({file[l].project : l \in from + 1 .. to}) <= MaxProjects
ChunkEnds(from) == {to \in from + 1 .. Len(file) :
                       Fits(from, to) /\ (to = Len(file) \/ ~ Fits(from, to + 1))}

(* Lines without an externalId are numbered by the server.                 *)
Unnamed(from, to) == {l \in from + 1 .. to : file[l].id = None}
IdOf(l, from) == IF file[l].id # None THEN file[l].id
                 ELSE issued + Cardinality(Unnamed(from, l))
Rows(from, to) == {[id |-> IdOf(l, from), project |-> file[l].project, author |-> file[l].author]
                      : l \in from + 1 .. to}

Waiting == told = "running" /\ slot = None /\ sent < Len(file)

(* client.createWorkEntriesBatch with the next chunk.                      *)
Post(r) ==
    /\ Waiting
    /\ \E to \in ChunkEnds(sent) :
       LET fresh == Cardinality(Unnamed(sent, to)) IN
          /\ issued + fresh <= MaxIssued
          /\ BeginBatch(r, Importer, Target, Rows(sent, to), fresh)
          /\ upto' = to
          /\ named' = [l \in Lines |-> IF l \in sent + 1 .. to THEN named[l] \cup {IdOf(l, sent)} ELSE named[l]]
    /\ slot' = r
    /\ UNCHANGED <<file, sent, told, missed>>

(* The next chunk is refused by a check: the project or the author is not  *)
(* what it was when the file was resolved.                                 *)
Refused ==
    /\ Waiting
    /\ \E to \in ChunkEnds(sent) : \E l \in sent + 1 .. to :
            ~ (MayLog(Importer, Target, file[l].project) /\ MayName(Importer, Target, file[l].author))
    /\ told' = "failed"
    /\ UNCHANGED <<vars, file, sent, upto, slot, missed, named>>

(* The answer to the request it waits for.                                 *)
Hears(r, ok) ==
    IF r # slot \/ request'[r] # Idle
    THEN UNCHANGED <<sent, slot, told>>
    ELSE /\ slot' = None
         /\ sent' = IF ok THEN upto ELSE sent
         /\ told' = IF ~ ok THEN "failed" ELSE IF upto = Len(file) THEN "done" ELSE "running"

(* The connection breaks or the request times out; the server goes on.     *)
GivesUp ==
    /\ slot # None
    /\ slot' = None
    /\ told' = "failed"
    /\ missed' = TRUE
    /\ UNCHANGED <<vars, file, sent, upto, named>>

(* Mutant: the user is told to run the whole file again, whatever is in it. *)
ResumeAtStart == 0

(* The resume point of the report: the whole file when every line has an   *)
(* externalId, else only the remaining lines.                              *)
Resume == IF AllExternal THEN 0 ELSE sent

Rerun ==
    /\ told = "failed"
    /\ told' = "running"
    /\ sent' = Resume
    /\ UNCHANGED <<vars, file, upto, slot, missed, named>>

NextImport ==
    \/ (\E r \in Requests : Post(r)) /\ Observe
    \/ Refused \/ GivesUp \/ Rerun
    \/ /\ Around \/ \E r \in Requests : Asks(r) \/ Lands(r)
       /\ Observe /\ UNCHANGED <<importer, missed, named>>
    \/ /\ \E r \in Requests : \/ Fails(r) /\ Hears(r, FALSE)
                              \/ WriteRows(r) /\ Hears(r, Acceptable(request[r]))
       /\ Observe /\ UNCHANGED <<file, upto, missed, named>>

ImportSpec == InitImport /\ [][NextImport]_importVars

(***************************************************************************)
(* Properties.                                                             *)
(***************************************************************************)
Became(l) == named[l] \cap ever

(* The report of a stopped import is true: each line it counts as imported *)
(* became an entry, and no line without an externalId that it calls not    *)
(* imported did, so that running the import again as told makes two        *)
(* entries of no line; a request given up on while it still ran is the     *)
(* exception.                                                              *)
ReportIsHonest ==
    /\ \A l \in 1 .. sent : Became(l) # {}
    /\ missed \/ \A l \in Lines :
           file[l].id = None => Cardinality(Became(l)) <= IF l <= sent THEN 1 ELSE 0

(* "Entries from line X on were NOT imported" (import-entries.ts).         *)
NotImportedIsTrue ==
    told = "failed" => \A l \in sent + 1 .. Len(file) : file[l].id = None => Became(l) = {}
=============================================================================
