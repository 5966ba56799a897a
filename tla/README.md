# Spantail: TLA+ models, checks and proofs

Spantail records work: time entries people log, and the sessions of coding
agents, which a Claude Code plugin reports. One Cloudflare Worker (Hono) serves
the REST API, the MCP endpoint, webhooks and the web client; state lives in one
D1 database (SQLite), uploads in R2, and a Durable Object per user relays
"something changed" signals.

What makes this system hard is in one sentence of its own comments: D1 offers no
interactive transactions. A statement is atomic, and so is a `db.batch`; every
`await` between two statements is a place where any other request runs, where
the worker may die, and after which whatever was read is stale. The handlers
defend themselves with guards inside statements, unique keys, set-only-later
merges and order of writes. Those defences are what this project models, checks
and proves. Line references below are to the repository.

## 1. Inventory

`apps/web/src/server` is abbreviated `server`, `packages/db/src` `db`.

| Component | State | Operations | Interacts with | Hard because |
|---|---|---|---|---|
| Agent telemetry (`server/routes/agent-events.ts`, `agent-entries.ts`, `db/queries/agents.ts`) | `agent_events`, `agent_entries` | ingest (chunks, aggregates, gap sum, materialize, reselect), finalize, summary upsert, bulk delete, workspace cascade | hooks, reports, work-entry links | cumulative re-posts race; each reads aggregates in one statement and writes them in another; deletes race ingests |
| Claude Code hooks (`plugins/claude-code/hooks`) | the transcript file, detached processes | Stop worker, SessionEnd reconcile and finalize | agent telemetry over HTTP | timeouts, killed workers, no queue: the only retry is the next cumulative post |
| Workspaces, members, projects (`routes/workspaces.ts`, `members.ts`, `projects.ts`, `lib/permissions.ts`) | `workspaces`, `workspace_members`, `projects`, `project_members` | create, update, archive, delete, add and remove | accounts (cascades), every access check | access, target and write are three statements; two tables must agree without a key between them |
| Accounts, bootstrap, invitations (`auth.ts`, `routes/users.ts`, `invitations.ts`) | `user`, `session`, `user_invitations` | public sign-up, direct creation, invite, accept, social sign-in, promote, demote, disable, delete | Better Auth hooks, mail, workspaces | counted guards, sessions created while an account is disabled, grants written after the account |
| Reports, versions, shares, deliveries (`routes/reports.ts`, `report-shares.ts`, `inbox.ts`, `share.ts`) | header, immutable content versions, shares, deliveries | create, edit, delete, send, share, revoke, view | members and projects (who may read), discussions | optimistic version numbers; access checked on the header, content bound separately |
| Work entries and import (`routes/work-entries.ts`, CLI `import-entries.ts`) | `work_entries`, links to agent entries; the importer's position in its file | log, batch upsert, edit, delete; post a chunk, report, run again | projects, agents, GitHub | client-chosen ids, an ownership check apart from the upsert, atomic requests but no atomic file, lost answers |
| GitHub integration (`routes/webhooks/github.ts`, `routes/github.ts`, `lib/github/*`, `db/queries/github.ts`) | repository mappings, identities, references from comments to entries; installations | comment pipeline, mapping lookup with healing and adoption, log-work, linking identities, installation events | work entries, agent entries | redelivery, renames and names taken over, calls to GitHub between check and write |
| Report templates (`routes/report-templates.ts`, `lib/starter-templates.ts`) | `report_templates` | seed, create, edit, enable, disable, set default, delete | bootstrap, reports | exactly one usable default without transactions; reports name templates without a key |
| Agents and tokens (`routes/agents.ts`, `tokens.ts`, `middleware/auth.ts`) | `agents`, `agent_tokens`, `api_tokens` | create, disable, archive, rotate, delete; let a bearer in | every authenticated request | rotation in three statements, authentication in three reads |
| Realtime hub (`realtime/publish.ts`, `user-hub.ts`, `client/lib/realtime.ts`) | open streams; the tab's query cache | publish after a write, relay, reconnect, refetch | every route that writes | fire and forget: background tasks, broken streams, cancelled fetches, a switch read by each |
| Discussions, reactions, mailbox flags | comments, reactions, flags | single scoped statements | deliveries | double toggles, cascades |
| Report engine, settings, mail, uploads, search, clients, docs site | none; one row; objects | pure functions; reads | | no protocol of their own |

### What makes each correct

* **Telemetry.** A 200 answer is kept. A row is a function of the facts stored,
  not of the order handlers ran in. A message counts once, in one session. What
  is deleted is forgotten.
* **Hooks.** A session always ends; what was lost is made up for; a session that
  ended without trouble is counted to its last message; its closing facts find
  their entry.
* **Workspaces.** A project member is a workspace member. A workspace has one
  owner. An archived workspace is read-only.
* **Accounts.** The instance keeps an admin who can act. A disabled account is
  out. One founder. An invitation is not used up without its grants.
* **Reports.** The header names the latest version, edits are not lost, readers
  are those the sent version's scope allows, a revoked link is dead.
* **Work entries.** Authors keep their entries, in their workspace's projects; an
  external id makes one entry; links are the author's own; what the importer
  reports is true.
* **GitHub.** A comment makes one entry; totals survive renames; a mapping never
  logs for two repositories, though one may take the other's name.
* **Templates.** At most one default, an enabled one, and none lost but to a race
  the code accepts and repairs on the next create.
* **Tokens.** Whoever is let in was entitled to be at one moment; a revoked secret
  is dead; an agent keeps a token its owner knows.
* **Realtime.** A tab that waits for nothing shows the data as it is.

PROJECT.json lists every component with its status, and every hazard at its line
with the properties that would catch it.

## 2. Plan

1. `SessionRollup` with its abstract specification `SessionLedger` - the core of
   the product, and its subtlest code. *Done, proved.*
2. `TranscriptSync` - the hooks, composed with `SessionRollup` by EXTENDS: the
   same handlers driven by the real client instead of arbitrary posts. *Done,
   safety proved.*
3. `WorkspaceAccess` - tenancy. *Done, proved.*
4. `InstanceAccounts` - accounts. *Done, proved.*
5. `ReportSharing` - one report, its versions, deliveries and links. *Done,
   proved*, and with it its abstract specification `PublishedReport`.
6. `WorkEntries`, and `EntryImport` composed with it by EXTENDS: the same batch
   route driven by the real importer among other people's requests. *Done,
   proved.*
7. `GithubComments` - comments become entries through mappings. *Done, proved.*
8. `RealtimeSync` - from a write to the tabs. *Done, safety proved.*
9. `TemplateCatalog` - the one default and its repair. *Done, proved.*
10. `AccessTokens` - rotation, revocation, authentication. *Done, proved.*
11. Still open: discussions and mailbox flags beside the deliveries of
    `ReportSharing`; installation events of the GitHub App; the day attribution of
    sessions as a checked function.

## 3. How the modules are built

A handler is a process: a record of a function `ingest`, `purge` or `request`
whose `step` names the statement it executes next, with the data it has read and
still carries. One action is one statement or one `db.batch`, with the
computation before it. A handler may die between two steps. Reads whose results
are only compared by the next check are merged into it; the gap between check
and write always remains. Two ends of a race are thus always two actions.

History variables, marked in every module, record what happened (answers given,
requests that overlapped); no guard reads them. Most guarantees of this system
hold *but for* certain overlaps. The properties say exactly which, through these
variables, instead of weakening what they claim or leaving the overlap out; and
where a comment in the code claims the property without the exception, a
run shows the overlap breaking it.

### Agent telemetry: `SessionRollup`, `SessionLedger`, `ActiveTime`

| State | Code |
|---|---|
| `eventSession`, `eventWorkspace` | table `agent_events`, keyed by agent and source id |
| `agentEntries[s]` | row of `agent_entries`; `basis` is the ghost set its usage was summed from, `count` and `tokens` the columns the update guard reads |
| `ingest[i]` | a `POST /agent-events` handler: insert (chunks), aggregate, gaps, materialize, reselect |
| `purge[d]` | a `POST /agent-entries/delete` handler: keys, batch |
| `live` | workspaces |
| `acked`, `finalEnd`, `disturbed`, `erased` | history |

`PostEvents`, `InsertChunk`, `ReadAggregates`, `ReadGaps`, `Materialize`,
`Reselect` are the statements of `insertAgentEvents` and
`upsertAgentEntryFromEvents`; `Finalize` is the one update of
`finalizeAgentEntry`; `UpsertSummary` the older summary path; `DropWorkspace` the
cascade. A message is a model value with a timestamp and tokens. Token sums and
gap sums are functions on event *sets*, constrained only by monotonicity, so the
results hold for any aggregate of that kind. `ActiveTime` is the recurrence of
`eventGapActiveMs`, used to give them values.

`disturbed` is the set of sessions whose events were not append-only: they lost
events to a delete or a cascade while a handler was in flight or while the row
lived on, or the summary path wrote them. All properties of rows are about the
others.

`SessionLedger` is what the component promises: a growing set of recorded
messages per session, a growing set reported, and an acknowledgement only of
what is reported. The event path implements it.

### Hooks: `TranscriptSync`

Extends `SessionRollup`. `transcript` is the session file, `phase` the
SessionEnd hook (`reconcile`, `await`, `finalize`), `worker[i]` a detached Stop
worker or the curl of the hook, bound to handler `i` of the service. `healthy`
switches at will: while it is false, posts are lost, clients give up, handlers
die. `Serve(i)` is the service taking the next statement of handler `i`.

### Workspaces: `WorkspaceAccess`

`role`, `workspaceState`, `projectState`, `projectMembers`, `registered` are the
tables; `request[r]` goes through an access check (one step: the reads of
`requireWorkspaceAccess` are compared together), a target check, and one step per
write. Foreign keys, cascades and primary-key conflicts are part of each write.
History: `crossed` (a grant and a removal of one user in flight together),
`contested` (an owner deleted while creating), `grace` (in flight when archived).

### Accounts: `InstanceAccounts`

`account`, `admins`, `disabled`, `sessions`, `invitation` are the tables.
`request[r]` walks hook, insert, claim, mark, grant, check, session for whoever
comes to be or signs in, and target, write, sessions for what admins do. Better
Auth itself is not in the repository; it is modelled by when it calls the hooks
of `auth.ts` and by what `createAccount` relies on (the user is inserted, then a
session is created through `session.create.before`). History: `founders`,
`rushed` (two public sign-ups in flight), `crossfire` (somebody removed while
removing), `overtaking` and `excused` (sign-ins past their check), `honoured`
and `dropped` (grants written, or lost with a worker).

### Reports: `ReportSharing`

`report` is the header, `content` the versions (a version is what it froze: its
workspaces and the projects whose entries it shows), `deliveries` and `link` the
rows that reference a version. `members` and `readers` decide who may read what
and change at will, as do accounts; `WorkspaceAccess` models how. `request[r]`
goes through render, bind and write: `Begin...` are the checks of a route against
the header it has read, `Bind` is `getCurrentReportContent`, and `CreateReport`,
`WriteVersion`, `DeleteReport`, `Deliver`, `MintLink`, `RevokeLink`, `ServeView`
are the writes, with the unique key on (report, version) and the cascades inside
them. History: `fit` (requests whose readers may read the version they carry) and
`overtaken` (an edit moved the header after their check).

`PublishedReport` is what a reader sees of it: a list of editions that is only
appended to until the report is withdrawn, copies of editions, and doors (public
links) that show one edition each, are opened once, by the owner or the holder of
a copy of that edition, and never reopen. The tables implement it: `Editions` are
the version rows up to the header's, `Doors` the links that are live, `Spent` all
that were ever minted.

### Work entries: `WorkEntries`, `EntryImport`

`entries` and `links` are the tables, `members`, `readers`, `projects`,
`sessions` what the routes check and the foreign keys point to. `request[r]` is a
handler past its checks (`BeginLog`, `BeginBatch`, `BeginEdit`, `BeginDelete`);
a batch has a further step, `CheckOwners`, before `WriteRows`, whose upsert sets
the author of a foreign row to NULL so that the whole batch fails
(`queries/work-entries.ts:127-137`). The id of a row is one the client made up
(`External`), one the server is about to give it, or any id that ever was an
entry: `externalIdSchema` (`core/src/work-entry.ts:102-104`) accepts the UUID of
an entry the server named, so a batch also meets entries that are linked to
sessions. An id becomes known to clients when it first is an entry, not before. `WriteEdit` and `WriteDelete` go by id alone,
as the code does. `hand` of an entry, a ghost field, is the user whose request
wrote its content. History: `overtaken` (edits and deletes whose entry was
deleted since they read it), `crossed` (what such an edit wrote) and `ever` (ids
that ever were an entry).

`EntryImport` adds the client: `sent` is the resume point, `slot` the request it
waits for, `told` what it has printed. `ChunkEnds` are the two caps of a request;
`GivesUp` leaves the request running; `Rerun` follows the printed advice (the
whole file if all its lines have an external id, else the remaining lines). The
external ids of a file are made up before the import begins.
History: `named` (the ids a line was ever posted under), `missed` (it gave up on
a request that still ran).

### GitHub: `GithubComments`

`named` and `posted` are GitHub's: names change hands, and a comment's payload
keeps the repository's id and the name it had then. `mapping`, `identity` and
`entries` (with their references) are the tables. `handler[h]` goes through
`ById`, `Heal` or `ByName`, `Adopt`, `Authorize`, `Write`: the statements of
`getGithubRepoMappingForRepo` and of the comment pipeline, with calls to GitHub
between them; `LogWork`, `BeginMapping` and `Insert` are the routes. The unique
keys (name, repository id, comment id) are in the writes. History: `behind`
(handlers whose mapping was renamed, adopted or deleted since they read it),
`astray` (what they wrote).

### Realtime: `RealtimeSync`

Data is a version number. A write starts a task that reads the switch, looks up
the members of the workspace, who come and go, and then calls one hub per member
(`ReadSwitch`, `LookUpMembers`, `Publish`); the hub puts a frame into every stream
it holds. A tab loads, learns the switch, opens its stream, hears frames and
fetches; a fetch is served to members and refused to others. A reconnection
fetches, a first connection does not.

What a signal does to a fetch under way is TanStack Query's (v5): `invalidateQueries`
cancels a running fetch and starts another only where the query has data already
(`filled`); the first fetch of a page is left running, and its success, older than
the signal or not, makes the data count as fresh. `Invalidates` is that rule, for
`Hear` and for a reconnection.

`Die`, `Break`, `FailFetch`, `WriteSilently` (a write that does not publish), a
turned switch, and a lookup that does not find a tab's user lose signals:
`dropped` and `early` name the tabs they were lost for, `swallowed` those whose
signal met a first fetch already served, each until a fetch of the tab is served
again.

### Templates: `TemplateCatalog`

`catalog[i]` is a row's two flags, `referenced` the templates of saved reports
(no foreign key), `founded` the first account. `request[r]` walks seed and commit
(the sign-up hook seeds before the account exists), list and promote (the first
template is promoted), promote, enable, disable, count and delete, save. History:
`overtaken` (its template was disabled or deleted since the check) and `late` (a
report was saved since).

### Tokens: `AccessTokens`

`tokens` holds the rows of both token tables in order of creation, `users` and
`agents` their states. `request[r]` is an issue (`Insert`, `Answer`), a rotation
(`Select`, `Collapse`, `Update`, `Answer`) or a bearer (`FindToken`, `ReadAgent`,
`ReadOwner`). An agent may come with several rows, from before agents had one
token each. History: `handed` (secrets their bearers know), `revoked`, `current`
(the secret an agent's owner was told last), `muddled` (rotations overlapped, or
one was not answered), `wasLive` and `eased` (of bearers in flight: everything
was live at one moment; something was enabled meanwhile).

## 4. Runs

| Run | Instance | Shows |
|---|---|---|
| `ingest` | 1 session, 3 messages (one without tokens, one 20 minutes later), 2 racing ingests, chunk 2, 2 finalize ends; `EventSpec`; 308,140 states | acknowledged messages stay counted, rows are functions of facts, fresh rows are exact, stale recomputes never win, `SessionLedger` is implemented |
| `removal` | 2 sessions, 2 workspaces, 2 messages, 1 ingest, 1 bulk delete, summaries, cascades; `Spec`; 971,005 states | messages are counted once, removal forgets |
| `sync` | 2 turns, 2 handlers, payload limit 2, failures anywhere, fairness; 123,267 states | sessions end, what was fired is eventually counted, quiet sessions are exact |
| `access` | 2 concurrent requests over 1 workspace with projects and users; 654,277 states | membership, ownership, archiving |
| `accounts` | 2 accounts with an address each, one address self-joining, 1 invitation, 2 requests; 883,405 states | admins remain, disabled is out, one founder, grants honoured |
| `last_admin` | 2 admins | **violation**: they demote each other |
| `reports` | a report of up to 2 versions over 1 workspace and 1 project, its owner and a reader, 1 link, 2 requests; 520,895 states | the header is the latest version, edits append, readers are those of the version sent, re-shares serve what was received, dead links stay dead, `PublishedReport` is implemented |
| `entries` | an author and an admin who imports, 2 workspaces with a project each, 1 session, 1 external id, 2 generated ids, 2 requests; files of one line and of three lines in two requests, others' batches under the external id and, beside the short file, under a logged entry's; 171,088 states | authors keep their entries, projects are the workspace's, links are own, no batch takes an entry over, the importer's report is true |
| `comments` | 2 repositories, 2 names, 2 comments of one user, 2 mappings, 2 handlers, 2 entries; 416,145 states | one entry per comment, references follow the mapping, a mapping logs for one repository |
| `realtime` | 1 user, who may be a member or not, with 1 tab, 2 changes, failures anywhere, fairness; 116,740 states | a settled tab is current, an open tab catches up, but for losses, changes before the stream first opened, and signals that the first fetch swallowed |
| `templates` | 2 starters (one the default), 1 created template, 2 requests; 277,345 states | the default is single and usable, it lasts, templates of reports stay |
| `tokens` | 1 account, 1 agent with no, one or two tokens, 4 secrets, 2 rows, 2 requests; 403,841 states | who is let in was live at one moment, revoked secrets stay dead, an agent keeps a token |

**Why these bounds are enough to be interesting.** Every race in this code is
between two handlers: one checks or reads, the other writes in between. Two
handlers and two of whatever they compete for show each of them, and TLC
confirms that every action fires and that a plausible slip in a mapped definition
breaks each property (the mutants of PROJECT.json). Three messages are the least
for one ingest to be ahead, one behind and one tied in tokens; chunk 2 makes an
ingest of three take two inserts; two versions are the least with an edit and a
race for the next number; three lines in two requests are the least import that
stops half-way with lines of both kinds behind it; two repositories and two names
are the least for one to take the name the other left; two rows and two fresh
secrets are the least for two rotations to race over an agent that came with two
tokens. The proofs remove the bounds where they exist.

Ids, messages, links and accounts are used once; `MaxVersion`, `MaxIssued`,
`MaxEntries` (of `GithubComments`), `MaxWrites` and `MaxRows` cut counters off.
Constraints keep instances small by not following a state further (the state
itself is checked): `FewLosses` (`removal`) where both sessions are disturbed or
no workspace is left; `Guarded` (`accounts`) past a race that voids the guards it
names; `Telling` of `reports` where the owner holds a copy of the report, or
where the report and the requests on it are gone; `Telling` of `entries` where
more than one member, project or session has gone, where anything but edits and
deletes of others runs beside the longer file, or where, beside the short one, more
than one entry is logged or a request is not about that entry (the import then
waits); `Telling` of `comments` where more than one person
or project is missing, or past the last entry or the first write astray; `Telling`
of `tokens` where more than one of account, agent and tokens is out. Symmetry is
over sets whose members the instance does not tell apart, in runs without
liveness. `CHECK_DEADLOCK FALSE` is said because the models do end: messages, ids
and workspaces are used once, and an instance whose admins have removed each
other stops for good.

The configurations ask what is not obvious and leave the `TypeOK` of the modules
out: it is proved of every module (section 5; `SyncTypeOK` and `HubTypeOK` are
those of `TranscriptSync` and `RealtimeSync`).

**Fairness** is assumed in two modules. `TranscriptSync`: a started hook process
runs (the operating system), curl's `--max-time` passes, and a handler the
service accepted continues or dies. Turns, session ends, resumes and outages are
not fair: nobody has to type, and the network owes nothing. `TurnsAreCounted`
therefore assumes the weather stays good from some point on. `RealtimeSync`: a
task handed to `waitUntil` runs or dies, a frame in an open stream is delivered,
a fetch is answered or fails. Loads, reconnections and the switch are not fair:
`OpenTabsCatchUp` is about tabs whose stream stays open.

## 5. Proofs

All are checked by TLAPS for every value of the constants that meets the named
assumptions.

* `AgentSessionProofs`, of `SessionRollup`: type correctness, `AckedCounted`, `RemovalForgets`,
  `MessageCountedOnce`, `RowIsFunctionOfFacts`, `FreshRowIsExact`,
  `StaleRecomputeNeverWins` of `Spec`, and `EventSpec => LedgerSpec`.
  None is inductive. The strengthening is a chain of event sets: of one
  undisturbed session, the bases of its row and of all ingests in flight are
  comparable by inclusion, every ingest's own messages are in its basis once
  aggregated, every basis is stored; the row's `count` and `tokens` are those of
  its basis; and an ingest about to reselect finds a row that holds its own
  messages. Comparable sets are what turns the update guard (more events, or as
  many and no fewer tokens) into "the larger set wins": two comparable sets of
  equal size are equal. The proof needs the row's events to outlive the row's
  deletion together, which is how the clause about rows that outlive their
  events came into `disturbed`.
  Of `TranscriptSync`: type correctness, `ClosedIsCounted` and
  `ClosingFactsArrive`, and that the hooks drive the service only along the event
  path, so the rollup's theorems hold of them.
* `WorkspaceAccessProofs`: type correctness with the foreign keys,
  `MembershipHolds`, `OneOwner`, `OwnerStays`, `ArchivedIsReadOnly`. The
  strengthenings say of every request in flight what its check has seen and who
  could have undone it since: a grant that is about to be written still has its
  membership unless it is noted in `crossed`.

* `ReportSharingProofs`: type correctness with the foreign keys,
  `HeaderIsLatest`, `OpenedToReaders`, `ResharesWhatWasReceived`,
  `VersionsOnlyAppend`, `DeadLinksStayDead`, `BookSpec`. The strengthening ties requests in
  flight to the rows: an edit numbers its version at most one past the header's,
  so if the number is free it is the next one; a send that nobody overtook still
  has the header's version, hence binds what it was checked for; a re-share still
  has its delivery, unless its account or its report is gone. The same
  invariant shows that the tables implement `PublishedReport` (`BookSpec`, which
  contains `VersionsOnlyAppend`, so the run checks `BookSpec` only): the stored
  versions are the editions, a version that lands is the next one, and who mints
  a link is the owner or still has the copy it was asked for.

* `InstanceAccountsProofs`: type correctness and the four properties of the
  `accounts` run, each from an inductive invariant of its own on top of the types
  and of what a request carries. `LockInv`: a sign-in past its check whose account
  has been disabled since is noted in `overtaking`. `AdminInv`: two removals in
  flight of which one removes the other's actor are noted in `crossfire`;
  otherwise whoever removes somebody may still act and spares itself, so an
  enabled admin is left. `FounderInv`: overlapping sign-ups are noted in `rushed`;
  otherwise no founder exists while a sign-up may still insert its account.
  `GrantInv`: an accepted invitation is granted, noted as dropped, or its grant is
  carried by a request that is about to write it.

* `CatalogAndHubProofs`, of `TemplateCatalog`: type correctness, `DefaultIsUsable`, `DefaultEndures`,
  `ReferencedStays`. A request about to promote or delete saw its template usable,
  or unreferenced, and is noted as overtaken or late when that has changed.

  Of `RealtimeSync`: type correctness and `SettledIsCurrent`. The invariant says
  that nobody is forgotten: what a tab shows, or will when its fetch ends, is
  current, or the loss is noted, or something is still coming to make it fetch
  (a fetch that has not been served, a frame, a reconnection, a task that has yet
  to look its user up or to signal it). A frame heard takes itself away, so the
  fetch it meets must take its place: it does where the page has data, and where
  it has none the fetch either has not been served or is noted in `swallowed`.

* `WorkEntriesProofs`, of `ImportSpec`: type correctness with the foreign keys of
  the links, `OnlyTheAuthorWrites`, `ProjectOfItsWorkspace`, `LinksAreOwn`,
  `EntriesKeepTheirOwner`. A request carries only what its checks allow: rows for
  the projects of its workspace, written by their author or an instance admin, and
  its actor's own sessions; and what an edit was checked against holds as long as
  its entry lives. Batches of any rows are allowed for, so what the importer posts
  needs no argument of its own, and a row may name any id that ever was an entry:
  a linked entry keeps its links through such a batch, and its author and workspace
  too. `EntriesKeepTheirOwner` comes from the upsert alone: a row it would take over
  has no author, which fails the batch.
  `ReportIsHonest` needs the importer: the request it waits for carries every line
  past the resume point up to `upto`; ids the server gave are never given again and
  nobody knows one before it is an entry, so until then no other request holds one
  of a line without an external id; and of all ids
  such a line was ever posted under, at most one is in a request or ever was an
  entry - in the request waited for while the line is not counted, an entry once
  it is. Giving up on a request that still runs is what voids the last part, and
  only that.

* `GithubCommentsProofs`: type correctness, `OneEntryPerComment`,
  `RefsFollowMapping`, `NoImpostor`. The invariant ties what a handler carries to
  the tables: a handler that is not `behind` has the mapping as it is, and the
  mapping it is about to write through, like the mapping an entry was written
  through, has the repository id of the comment unless noted in `astray`. That a
  comment makes one entry rests on the unique key alone; that its reference
  follows its mapping, on each change of a mapping marking the handlers that hold
  it; and that a mapping never logs for the taker of a name after it logged for its
  former owner, on the id being looked up first and adoption refusing a mapping that
  has an id. A mapping made by hand may have none yet, and then belongs to whichever
  repository of that name is heard of first.

* `AccessTokensProofs`: type correctness with uniqueness of secrets,
  `AdmittedWasLive`, `OldSecretsStop`, `AgentsKeepTheirToken`. A secret belongs to
  the one request that generated it until it is handed out, and to one row from
  the write on. `AdmittedWasLive`: whoever is at a step of being let in had a live
  token, agent and owner when its row was read, or one of them was enabled since
  (`eased`), or one that it still has to read is out and will stop it.
  `OldSecretsStop`: a revoked secret is in no row but those of archived agents, who
  never come back, and in no request that could write it. `AgentsKeepTheirToken` needs that rotations agree on the row they keep:
  an agent's rows come before the first rotation and only go, so the row a rotation
  keeps is the oldest, whoever selects it; whoever answers for an agent whose
  rotations did not overlap tells the secret its rows have.

Assumptions: the sets are arbitrary (messages finite), `Null` and `None` are in
none of them, timestamps are in the accepted range, token sums are monotone, files
are sequences of lines.

All safety properties the runs check are proved. Only model-checked: the three
liveness properties and the fairness they rest on (`SessionEnds`,
`TurnsAreCounted`, `OpenTabsCatchUp`; out of the prover's reach), and `ActiveTime`
as a function of its data (it would take induction over data).

## 6. Findings

The run `last_admin` is a disagreement between the code and its own comments;
PROJECT.json quotes both: two admins can remove each other, and nobody administers
the instance any more.

Further disagreements are kept as configurations to be run by hand. Each states
what a comment or a page of the documentation says, and TLC finds the behaviour
that breaks it:

| Configuration | Claim | What breaks it |
|---|---|---|
| `SessionRollupResurrected.cfg` | `DeletedHistoryStaysGone` | a bulk delete runs while an ingest holds the aggregates it read before: the ingest writes the deleted session back |
| `SessionRollupMixed.cfg` | `IngestRetakesRow` | a session fed by a summary first: its token sum can lock out the events that follow |
| `TranscriptSyncLong.cfg` | `TurnsAreCounted` | a transcript past the payload limit is refused whole, and forever, because it only grows |
| `WorkspaceAccessOrphan.cfg` | `ProjectMembersBelong` | a grant and a removal in flight together leave a project member outside the workspace |
| `ReportSharingRace.cfg` | `SendNeverWidens` | an edit lands between a send's check of its recipients and its read of the content (`routes/reports.ts:788`): they receive another version than they were checked for |
| `EntryImportLost.cfg` | `NotImportedIsTrue` | a batch commits and its answer is lost: lines reported as not imported were, and those without an external id come twice when the import is run again |
| `RealtimeSyncEarly.cfg` | `OpenTabsReceiveChanges` | a change after the page's first fetch and before its stream first opened is not shown: only reconnections fetch (`client/lib/realtime.ts:83-91`) |
| `RealtimeSyncFirst.cfg` | `EverySignalIsApplied` | a change is signalled while the page's first fetch, served before it, is still on its way: the signal does not restart that fetch, and its answer counts as fresh (`client/lib/realtime.ts:92-98`) |

One more is in the exceptions of `RefsFollowMapping`: the healing of a renamed
repository moves the references of the name it read (`queries/github.ts:229`), so
one written meanwhile by a handler that had read the mapping before stays under
the old name, and the issue's total misses it.

## 7. What is not modelled

Inside the modelled components: text facets and context of agent entries, slugs,
names, colours, logos, token scopes, email settings, verification, password reset,
avatars, the template-author grant. None decides whether a modelled write happens,
except the settings gate for direct creation versus invitation, which an admin can
flip between any two requests: the model allows both at all times. Of reports: the
document itself, templates, passcodes, view counts, mailbox flags, and reports
older than the frozen scope columns. A finalize whose client has given up is served
at once or never. Of work entries: times, texts and tags, and the cascades of
workspaces and accounts. Of the GitHub integration: signatures and the App's
configuration, installation events (rows that cache GitHub's state, and whose order
only GitHub knows), OAuth, the replies to comments, and the linking of sessions
through pull requests. Of templates: the edit of name and body. Of tokens: names,
scopes, the time of last use, and the switch of the agents feature.

Not modelled at all, with the reason in PROJECT.json: discussions, reactions and
mailbox flags (single statements with unique keys; next in the plan); the report
engine (pure functions whose outcome is a rendered document); settings, mail,
uploads and search; the stateless clients (CLI, SDK, MCP) and the web client's user
interface, which is most of the repository's lines; the documentation site and the
release tooling.
