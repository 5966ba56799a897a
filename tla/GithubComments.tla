---------------------------- MODULE GithubComments ----------------------------
(***************************************************************************)
(* Logging work from GitHub: webhook deliveries of issue comments, which   *)
(* come late, twice and out of order while repositories are renamed; the   *)
(* log-work route; the mapping of repositories to projects, which heals    *)
(* itself after a rename; and the links between GitHub and Spantail users. *)
(* Handlers call GitHub between their checks and their write, so each of   *)
(* their statements is a step of its own.                                  *)
(***************************************************************************)
EXTENDS Naturals

CONSTANTS
    Repos,          \* numeric repository ids
    Names,          \* full names, lower-cased
    Comments,
    Author,         \* the GitHub user who wrote a comment
    GithubUsers,
    Users,
    Projects,
    Mappings,       \* ids, one per mapping ever made
    MaxEntries,     \* entries are cut off here
    Handlers,       \* concurrent deliveries and requests
    None

ASSUME AuthorAssumption == Author \in [Comments -> GithubUsers]
ASSUME EntriesAssumption == MaxEntries \in Nat
ASSUME NoneAssumption ==
    None \notin Repos \cup Names \cup Comments \cup GithubUsers \cup Users \cup Projects \cup Mappings

VARIABLES
    named,          \* GitHub: the name of a repository
    posted,         \* GitHub: the payload of a comment, delivered any number of times
    identity,       \* github_identities
    welcome,        \* project -> enabled members who may log to it
    projects,       \* projects that exist
    mapping,        \* github_repo_mappings
    entries,        \* work_entries with their work_entry_github_refs
    logged,         \* ids of work entries issued so far
    handler,        \* what a handler is doing
    \* History variables.
    behind,         \* handlers whose mapping was renamed or adopted since they read it
    astray          \* entries and mappings written by such a handler

github == <<named, posted>>
people == <<identity, welcome>>
tables == <<projects, mapping, entries, logged>>
history == <<behind, astray>>
vars == <<github, people, tables, handler, history>>

Payload == [repo : Repos, name : Names]
Unposted == [repo |-> None, name |-> None]

Mapping == [name : Names, repo : Repos \cup {None}, project : Projects]
Unmapped == [name |-> None, repo |-> None, project |-> None]
Mapped == {m \in Mappings : mapping[m] # Unmapped}

(* via: the mapping it was logged through; repo: the repository the event  *)
(* was about, where the code knows it.                                     *)
Entry == [name : Names, comment : Comments \cup {None}, project : Projects, author : Users,
          via : Mappings, repo : Repos \cup {None}]
Absent == [name |-> None, comment |-> None, project |-> None, author |-> None,
           via |-> None, repo |-> None]
Ids == 1 .. MaxEntries
Existing == {i \in Ids : entries[i] # Absent}

(* row: the mapping as read; author: the user to log for.                  *)
HandlerState == [step : {"idle", "byId", "heal", "byName", "adopt", "authorize", "write", "insert"},
                 comment : Comments \cup {None}, event : Payload \cup {Unposted},
                 via : Mappings \cup {None}, row : Mapping \cup {Unmapped}, author : Users \cup {None}]
Asked(step, c, e, m, row, u) ==
    [step |-> step, comment |-> c, event |-> e, via |-> m, row |-> row, author |-> u]
Idle == Asked("idle", None, Unposted, None, Unmapped, None)

(* With the unique keys and the foreign keys.                              *)
TypeOK ==
    /\ named \in [Repos -> Names \cup {None}]
    /\ posted \in [Comments -> Payload \cup {Unposted}]
    /\ identity \in [GithubUsers -> Users \cup {None}]
    /\ \A g, h \in GithubUsers : identity[g] = identity[h] /\ identity[g] # None => g = h
    /\ welcome \in [Projects -> SUBSET Users]
    /\ projects \subseteq Projects
    /\ mapping \in [Mappings -> Mapping \cup {Unmapped}]
    /\ \A m, n \in Mapped : mapping[m].name = mapping[n].name => m = n
    /\ \A m, n \in Mapped : mapping[m].repo = mapping[n].repo /\ mapping[m].repo # None => m = n
    /\ \A m \in Mapped : mapping[m].project \in projects
    /\ entries \in [Ids -> Entry \cup {Absent}]
    /\ logged \in 0 .. MaxEntries
    /\ handler \in [Handlers -> HandlerState]
    /\ behind \subseteq Handlers
    /\ astray \subseteq Ids \cup Mappings

Init ==
    /\ named \in [Repos -> Names \cup {None}]
    /\ \A a, b \in Repos : named[a] = named[b] /\ named[a] # None => a = b
    /\ posted = [c \in Comments |-> Unposted]
    /\ identity = [g \in GithubUsers |-> None]
    /\ welcome \in [Projects -> SUBSET Users]
    /\ projects = Projects
    /\ mapping = [m \in Mappings |-> Unmapped]
    /\ entries = [i \in Ids |-> Absent]
    /\ logged = 0
    /\ handler = [h \in Handlers |-> Idle]
    /\ behind = {} /\ astray = {}

(***************************************************************************)
(* GitHub, and the tables that others write.                               *)
(***************************************************************************)
Rename(a, n) ==
    /\ \A b \in Repos : named[b] # n
    /\ named' = [named EXCEPT ![a] = n]
    /\ UNCHANGED <<posted, people, tables, handler>>

Comment(c, a) ==
    /\ posted[c] = Unposted /\ named[a] # None
    /\ posted' = [posted EXCEPT ![c] = [repo |-> a, name |-> named[a]]]
    /\ UNCHANGED <<named, people, tables, handler>>

(* upsertGithubIdentityForUser: replaces the user's previous link; an      *)
(* account linked to another user fails on its unique key.                 *)
Link(u, g) ==
    /\ identity[g] \in {None, u}
    /\ identity' = [h \in GithubUsers |-> IF h = g THEN u ELSE IF identity[h] = u THEN None ELSE identity[h]]
    /\ UNCHANGED <<github, welcome, tables, handler>>

Unlink(g) ==
    /\ identity[g] # None
    /\ identity' = [identity EXCEPT ![g] = None]
    /\ UNCHANGED <<github, welcome, tables, handler>>

Leave(u, p) ==
    /\ u \in welcome[p]
    /\ welcome' = [welcome EXCEPT ![p] = @ \ {u}]
    /\ UNCHANGED <<github, identity, tables, handler>>

(* deleteGithubRepoMapping; entries and their refs stay.                   *)
DeleteMapping(m) ==
    /\ m \in Mapped
    /\ mapping' = [mapping EXCEPT ![m] = Unmapped]
    /\ UNCHANGED <<github, people, projects, entries, logged, handler>>

(* Mappings cascade with their project.                                    *)
DeleteProject(p) ==
    /\ p \in projects
    /\ projects' = projects \ {p}
    /\ mapping' = [m \in Mappings |-> IF mapping[m].project = p THEN Unmapped ELSE mapping[m]]
    /\ UNCHANGED <<github, people, entries, logged, handler>>

(* The ref cascades with its entry.                                        *)
DeleteEntry(i) ==
    /\ i \in Existing
    /\ entries' = [entries EXCEPT ![i] = Absent]
    /\ UNCHANGED <<github, people, projects, mapping, logged, handler>>

(***************************************************************************)
(* A delivery of a comment.                                                *)
(***************************************************************************)
Goes(h, s) == handler' = [handler EXCEPT ![h] = s]
Passes(h, s) == Goes(h, s) /\ UNCHANGED tables
Stops(h) == Passes(h, Idle)

(* A comment whose ref getWorkEntryGithubRefByCommentId finds was logged.  *)
Deliver(h, c) ==
    /\ handler[h] = Idle /\ posted[c] # Unposted
    /\ \A i \in Existing : entries[i].comment # c
    /\ Passes(h, Asked("byId", c, posted[c], None, Unmapped, None))
    /\ UNCHANGED <<github, people>>

Reads(h, m, step) == Passes(h, [handler[h] EXCEPT !.step = step, !.via = m, !.row = mapping[m]])

(* getGithubRepoMappingForRepo: by the id, which survives renames.         *)
ById(h) ==
    LET s == handler[h] IN
    /\ s.step = "byId"
    /\ \/ \E m \in Mapped : /\ mapping[m].repo = s.event.repo
                            /\ Reads(h, m, IF mapping[m].name = s.event.name THEN "authorize" ELSE "heal")
       \/ /\ \A m \in Mapped : mapping[m].repo # s.event.repo
          /\ Passes(h, [s EXCEPT !.step = "byName"])
    /\ UNCHANGED <<github, people>>

(* Mutant: only the mapping is renamed.                                    *)
RenamedNot(i, from, to) == entries[i]

Renamed(i, from, to) ==
    IF entries[i].name = from THEN [entries[i] EXCEPT !.name = to] ELSE entries[i]

(* The mapping and the refs under the name it was read with, in one batch; *)
(* a name that another mapping has fails it.                               *)
Heal(h) ==
    LET s == handler[h] IN
    /\ s.step = "heal"
    /\ IF \E m \in Mapped \ {s.via} : s.via \in Mapped /\ mapping[m].name = s.event.name
       THEN Stops(h)
       ELSE /\ mapping' = [mapping EXCEPT ![s.via] =
                   IF s.via \in Mapped THEN [@ EXCEPT !.name = s.event.name] ELSE @]
            /\ entries' = [i \in Ids |-> Renamed(i, s.row.name, s.event.name)]
            /\ Goes(h, [s EXCEPT !.step = "authorize",
                                 !.row = IF s.via \in Mapped THEN mapping'[s.via] ELSE @])
            /\ UNCHANGED <<projects, logged>>
    /\ UNCHANGED <<github, people>>

(* Mutant: whoever has the name gets the mapping.                          *)
ByNameAlone(h) ==
    LET s == handler[h] IN
    /\ s.step = "byName"
    /\ \/ \E m \in Mapped : mapping[m].name = s.event.name /\ Reads(h, m, "adopt")
       \/ (\A m \in Mapped : mapping[m].name # s.event.name) /\ Stops(h)
    /\ UNCHANGED <<github, people>>

(* By the name; a mapping with another repository's id is not for an       *)
(* impostor that took its name.                                            *)
ByName(h) ==
    LET s == handler[h] IN
    /\ s.step = "byName"
    /\ \/ \E m \in Mapped : mapping[m].name = s.event.name /\ mapping[m].repo = None /\ Reads(h, m, "adopt")
       \/ /\ \A m \in Mapped : mapping[m].name # s.event.name \/ mapping[m].repo # None
          /\ Stops(h)
    /\ UNCHANGED <<github, people>>

(* A mapping made by hand takes the id of the repository found by name.    *)
Adopt(h) ==
    LET s == handler[h] IN
    /\ s.step = "adopt"
    /\ IF \E m \in Mapped \ {s.via} : s.via \in Mapped /\ mapping[m].repo = s.event.repo
       THEN Stops(h)
       ELSE /\ mapping' = [mapping EXCEPT ![s.via] =
                   IF s.via \in Mapped THEN [@ EXCEPT !.repo = s.event.repo] ELSE @]
            /\ Goes(h, [s EXCEPT !.step = "authorize",
                                 !.row = IF s.via \in Mapped THEN mapping'[s.via] ELSE @])
            /\ UNCHANGED <<projects, entries, logged>>
    /\ UNCHANGED <<github, people>>

(* The identity of the comment's author, its membership and project access. *)
Authorize(h) ==
    LET s == handler[h]
        u == identity[Author[s.comment]] IN
    /\ s.step = "authorize"
    /\ IF u # None /\ u \in welcome[s.row.project]
       THEN Passes(h, [s EXCEPT !.step = "write", !.author = u])
       ELSE Stops(h)
    /\ UNCHANGED <<github, people>>

(***************************************************************************)
(* POST /github/log-work: by the name of a git remote, with no comment.    *)
(***************************************************************************)
LogWork(h, u, m) ==
    /\ handler[h] = Idle
    /\ m \in Mapped /\ u \in welcome[mapping[m].project]
    /\ Passes(h, Asked("write", None, Unposted, m, mapping[m], u))
    /\ UNCHANGED <<github, people>>

(* Mutant: the comment id is not a key.                                    *)
UnloggedAny(c) == TRUE

(* The unique comment id of the ref.                                       *)
Unlogged(c) == c # None => \A i \in Existing : entries[i].comment # c

(* createWorkEntryWithGithubRef: entry and ref in one batch, which a       *)
(* deleted project or a logged comment fails.                              *)
Write(h) ==
    LET s == handler[h] IN
    /\ s.step = "write"
    /\ IF s.row.project \in projects /\ Unlogged(s.comment)
       THEN /\ logged < MaxEntries
            /\ logged' = logged + 1
            /\ entries' = [entries EXCEPT ![logged'] =
                   [name |-> s.row.name, comment |-> s.comment, project |-> s.row.project,
                    author |-> s.author, via |-> s.via, repo |-> s.event.repo]]
            /\ Goes(h, Idle)
            /\ UNCHANGED <<projects, mapping>>
       ELSE Stops(h)
    /\ UNCHANGED <<github, people>>

(* GitHub or the worker fails: the log is lost, nothing was half-written.  *)
Fail(h) ==
    /\ handler[h] # Idle
    /\ Stops(h)
    /\ UNCHANGED <<github, people>>

(***************************************************************************)
(* POST /workspaces/:id/github-mappings.                                   *)
(***************************************************************************)

(* The name is free; GitHub is asked for the repository that has it now,   *)
(* and may not tell.                                                       *)
BeginMapping(h, n, p, a) ==
    /\ handler[h] = Idle
    /\ p \in projects /\ \A m \in Mapped : mapping[m].name # n
    /\ a # None => named[a] = n
    /\ Passes(h, Asked("insert", None, Unposted, None, [name |-> n, repo |-> a, project |-> p], None))
    /\ UNCHANGED <<github, people>>

(* createGithubRepoMapping, under both unique keys; ids are not reused.    *)
Insert(h, m) ==
    LET s == handler[h]
        free == \A k \in Mapped : mapping[k].name # s.row.name
                    /\ (s.row.repo # None => mapping[k].repo # s.row.repo) IN
    /\ s.step = "insert"
    /\ \/ /\ free /\ s.row.project \in projects
          /\ m \notin Mapped /\ \A i \in Existing : entries[i].via # m
          /\ \A k \in Handlers : handler[k].via # m
          /\ mapping' = [mapping EXCEPT ![m] = s.row]
          /\ Goes(h, Idle)
          /\ UNCHANGED <<projects, entries, logged>>
       \/ ~ (free /\ s.row.project \in projects) /\ Stops(h)
    /\ UNCHANGED <<github, people>>

(***************************************************************************)
(* A handler is behind when the mapping it read was renamed, adopted or    *)
(* deleted since; what it then writes is astray.                           *)
(***************************************************************************)
Acts(h) == handler[h] # Idle /\ handler'[h] # handler[h]
Observe ==
    /\ behind' = {h \in Handlers :
           /\ handler'[h].via # None
           /\ \/ h \in behind
              \/ ~ Acts(h) /\ handler[h].via # None /\ mapping'[handler[h].via] # mapping[handler[h].via]}
    /\ astray' = {i \in Ids : /\ entries'[i] # Absent
                              /\ i \in astray \/ (\E h \in behind : Acts(h) /\ entries'[i] # entries[i])}
           \cup {m \in Mappings : /\ mapping'[m] # Unmapped
                                  /\ m \in astray \/ (\E h \in behind : Acts(h) /\ mapping'[m] # mapping[m])}

Handle(h) ==
    \/ \E c \in Comments : Deliver(h, c)
    \/ ById(h) \/ Heal(h) \/ ByName(h) \/ Adopt(h) \/ Authorize(h) \/ Write(h) \/ Fail(h)
    \/ \E u \in Users, m \in Mappings : LogWork(h, u, m)
    \/ \E n \in Names, p \in Projects, a \in Repos \cup {None} : BeginMapping(h, n, p, a)
    \/ \E m \in Mappings : Insert(h, m)

Around ==
    \/ \E a \in Repos, n \in Names : Rename(a, n)
    \/ \E c \in Comments, a \in Repos : Comment(c, a)
    \/ \E u \in Users, g \in GithubUsers : Link(u, g)
    \/ \E g \in GithubUsers : Unlink(g)
    \/ \E u \in Users, p \in Projects : Leave(u, p)
    \/ \E m \in Mappings : DeleteMapping(m)
    \/ \E p \in Projects : DeleteProject(p)
    \/ \E i \in Ids : DeleteEntry(i)

Next == (Around \/ \E h \in Handlers : Handle(h)) /\ Observe

Spec == Init /\ [][Next]_vars

(***************************************************************************)
(* Properties.                                                             *)
(***************************************************************************)

(* A comment is logged once, however often and however concurrently it is  *)
(* delivered: the pre-check alone does not see to that.                    *)
OneEntryPerComment ==
    \A i, j \in Existing : entries[i].comment = entries[j].comment /\ entries[i].comment # None => i = j

(* The per-issue totals survive renames: the refs of the entries logged    *)
(* through a mapping carry its name, but for what a handler wrote that had *)
(* read the mapping before another one healed it.                          *)
RefsFollowMapping ==
    \A i \in Existing \ astray : \A m \in Mapped \ astray :
        entries[i].via = m => entries[i].name = mapping[m].name

(* A mapping never logs the comments of two repositories: when one takes   *)
(* the name of a renamed one, the mapping stays with whichever it logged   *)
(* for first, unless both adopt it at once.                                *)
NoImpostor ==
    \A i, j \in Existing : \A m \in Mapped \ astray :
        entries[i].via = m /\ entries[j].via = m /\ entries[i].comment # None /\ entries[j].comment # None
            => entries[i].repo = entries[j].repo
=============================================================================
