---------------------------- MODULE TemplateCatalog ----------------------------
(***************************************************************************)
(* The instance's report templates: the starter catalog seeded at          *)
(* bootstrap, managers who create, enable, disable, delete and promote     *)
(* templates, and people who save reports with them.  One template is to   *)
(* be the default, an enabled one.                                         *)
(***************************************************************************)
EXTENDS Naturals

CONSTANTS
    Starters,       \* the ids of the catalog
    Daily,          \* the one that is seeded as the default
    Created,        \* ids minted for created templates
    Requests,
    Absent

ASSUME DailyAssumption == Daily \in Starters
ASSUME FreshAssumption == Starters \cap Created = {}
ASSUME AbsentAssumption == Absent \notin [enabled : BOOLEAN, isDefault : BOOLEAN]

Ids == Starters \cup Created

VARIABLES
    catalog,        \* report_templates: id -> its row
    minted,         \* ids of created templates, used once
    founded,        \* the first account exists
    referenced,     \* templates saved reports were rendered with
    request,        \* handlers
    \* History variables, of handlers in flight.
    overtaken,      \* their template was disabled or deleted since they read it
    late            \* a report was saved with their template since they began

rows == <<catalog, minted, founded, referenced>>
history == <<overtaken, late>>
vars == <<rows, request, history>>

Row == [enabled : BOOLEAN, isDefault : BOOLEAN]
Idle == [step |-> "idle", id |-> Daily]
Steps == {"idle", "seed", "commit", "list", "promote", "enable", "disable", "count", "delete", "save"}

TypeOK ==
    /\ catalog \in [Ids -> Row \cup {Absent}]
    /\ minted \subseteq Created
    /\ \A i \in Created : catalog[i] # Absent => i \in minted
    /\ founded \in BOOLEAN
    /\ referenced \subseteq Ids
    /\ request \in [Requests -> [step : Steps, id : Ids]]
    /\ \A r \in Requests :
          request[r].step # "idle" /\ request[r].id \in Created => request[r].id \in minted
    /\ overtaken \cup late \subseteq Requests

(* A new instance, or one whose founder predates the seeding.              *)
Init ==
    /\ catalog = [i \in Ids |-> Absent]
    /\ minted = {}
    /\ founded \in BOOLEAN
    /\ referenced = {}
    /\ request = [r \in Requests |-> Idle]
    /\ overtaken = {} /\ late = {}

Exists(i) == catalog[i] # Absent
Usable(i) == Exists(i) /\ catalog[i].enabled
IsDefault(i) == Exists(i) /\ catalog[i].isDefault
HasDefault == \E i \in Ids : IsDefault(i)

(***************************************************************************)
(* The life of a handler.                                                  *)
(***************************************************************************)
Begin(r, step, i) ==
    /\ request[r] = Idle
    /\ request' = [request EXCEPT ![r] = [step |-> step, id |-> i]]

At(r, step) == request[r].step = step
Goes(r, step) == request' = [request EXCEPT ![r].step = step]
Ends(r) ==
    /\ request' = [request EXCEPT ![r] = Idle]
    /\ late' = late \ {r}

Others(r, i) == {q \in Requests \ {r} : request[q] # Idle /\ request[q].id = i}

(* The worker dies between two statements.                                 *)
Crash(r) ==
    /\ request[r] # Idle
    /\ Ends(r) /\ overtaken' = overtaken \ {r}
    /\ UNCHANGED rows

(***************************************************************************)
(* Bootstrap: public sign-ups that found no user seed the catalog.         *)
(***************************************************************************)
SignUp(r) ==
    /\ ~ founded
    /\ Begin(r, "seed", Daily)
    /\ UNCHANGED <<rows, history>>

(* onConflictDoNothing: rows that exist stay, and no second default is     *)
(* seeded.                                                                 *)
SeedCatalogReportTemplates(r) ==
    /\ At(r, "seed")
    /\ catalog' = [i \in Ids |->
          IF i \in Starters /\ ~ Exists(i) /\ (i = Daily => ~ HasDefault)
          THEN [enabled |-> TRUE, isDefault |-> i = Daily]
          ELSE catalog[i]]
    /\ Goes(r, "commit")
    /\ UNCHANGED <<minted, founded, referenced, history>>

(* The user row is inserted.                                               *)
Found(r) ==
    /\ At(r, "commit")
    /\ founded' = TRUE
    /\ Ends(r) /\ overtaken' = overtaken \ {r}
    /\ UNCHANGED <<catalog, minted, referenced>>

(***************************************************************************)
(* Managers.                                                               *)
(***************************************************************************)
CreateReportTemplate(r, i) ==
    /\ founded /\ i \in Created \ minted
    /\ catalog' = [catalog EXCEPT ![i] = [enabled |-> TRUE, isDefault |-> FALSE]]
    /\ minted' = minted \cup {i}
    /\ Begin(r, "list", i)
    /\ UNCHANGED <<founded, referenced, history>>

(* The first template of an instance without a default is promoted.        *)
ListReportTemplates(r) ==
    /\ At(r, "list")
    /\ IF HasDefault THEN Ends(r) /\ overtaken' = overtaken \ {r}
                     ELSE Goes(r, "promote") /\ UNCHANGED history
    /\ UNCHANGED rows

BeginDefault(r, i) ==
    /\ founded /\ Usable(i)
    /\ Begin(r, "promote", i)
    /\ UNCHANGED <<rows, history>>

(* Mutant: promotes by id, whatever became of the template.                *)
SetDefaultReportTemplateAnyway(r) ==
    LET i == request[r].id IN
    /\ At(r, "promote")
    /\ catalog' = [j \in Ids |-> IF Exists(j) THEN [catalog[j] EXCEPT !.isDefault = (j = i)]
                                             ELSE catalog[j]]
    /\ Ends(r) /\ overtaken' = overtaken \ {r}
    /\ UNCHANGED <<minted, founded, referenced>>

(* Clear, then set if the template is still enabled: one batch.            *)
SetDefaultReportTemplate(r) ==
    LET i == request[r].id IN
    /\ At(r, "promote")
    /\ catalog' = [j \in Ids |-> IF Exists(j)
                                 THEN [catalog[j] EXCEPT !.isDefault = (j = i /\ Usable(i))]
                                 ELSE catalog[j]]
    /\ Ends(r) /\ overtaken' = overtaken \ {r}
    /\ UNCHANGED <<minted, founded, referenced>>

BeginState(r, i, step) ==
    /\ founded /\ Exists(i) /\ step \in {"enable", "disable"}
    /\ Begin(r, step, i)
    /\ UNCHANGED <<rows, history>>

Enable(r) ==
    LET i == request[r].id IN
    /\ At(r, "enable")
    /\ catalog' = IF Exists(i) THEN [catalog EXCEPT ![i].enabled = TRUE] ELSE catalog
    /\ Ends(r) /\ overtaken' = overtaken \ {r}
    /\ UNCHANGED <<minted, founded, referenced>>

DisableReportTemplateIfNotDefault(r) ==
    LET i == request[r].id
        hit == Exists(i) /\ ~ IsDefault(i) IN
    /\ At(r, "disable")
    /\ catalog' = IF hit THEN [catalog EXCEPT ![i].enabled = FALSE] ELSE catalog
    /\ overtaken' = (overtaken \cup (IF hit THEN Others(r, i) ELSE {})) \ {r}
    /\ Ends(r)
    /\ UNCHANGED <<minted, founded, referenced>>

BeginDelete(r, i) ==
    /\ founded /\ Exists(i) /\ ~ IsDefault(i)
    /\ Begin(r, "count", i)
    /\ UNCHANGED <<rows, history>>

(* Mutant: saved reports are not counted.                                  *)
CountNothing(r) ==
    /\ At(r, "count")
    /\ Goes(r, "delete") /\ UNCHANGED history
    /\ UNCHANGED rows

CountReportsByTemplateId(r) ==
    /\ At(r, "count")
    /\ IF request[r].id \in referenced
       THEN Ends(r) /\ overtaken' = overtaken \ {r}
       ELSE Goes(r, "delete") /\ UNCHANGED history
    /\ UNCHANGED rows

(* Mutant: deletes by id, as deleteReportTemplate does.                    *)
DeleteReportTemplate(r) ==
    LET i == request[r].id IN
    /\ At(r, "delete")
    /\ catalog' = [catalog EXCEPT ![i] = Absent]
    /\ overtaken' = (overtaken \cup Others(r, i)) \ {r}
    /\ Ends(r)
    /\ UNCHANGED <<minted, founded, referenced>>

DeleteReportTemplateIfNotDefault(r) ==
    LET i == request[r].id
        hit == Exists(i) /\ ~ IsDefault(i) IN
    /\ At(r, "delete")
    /\ catalog' = IF hit THEN [catalog EXCEPT ![i] = Absent] ELSE catalog
    /\ overtaken' = (overtaken \cup (IF hit THEN Others(r, i) ELSE {})) \ {r}
    /\ Ends(r)
    /\ UNCHANGED <<minted, founded, referenced>>

(***************************************************************************)
(* Reports, which keep the id of their template without a foreign key.     *)
(***************************************************************************)
RenderReport(r, i) ==
    /\ founded /\ Usable(i)
    /\ Begin(r, "save", i)
    /\ UNCHANGED <<rows, history>>

SaveReport(r) ==
    LET i == request[r].id IN
    /\ At(r, "save")
    /\ referenced' = referenced \cup {i}
    /\ request' = [request EXCEPT ![r] = Idle]
    /\ late' = (late \cup Others(r, i)) \ {r}
    /\ overtaken' = overtaken \ {r}
    /\ UNCHANGED <<catalog, minted, founded>>

(* The last report of a template is deleted.                               *)
DropReports(i) ==
    /\ i \in referenced
    /\ referenced' = referenced \ {i}
    /\ UNCHANGED <<catalog, minted, founded, request, history>>

Next ==
    \/ \E r \in Requests :
          \/ SignUp(r) \/ SeedCatalogReportTemplates(r) \/ Found(r) \/ Crash(r)
          \/ ListReportTemplates(r) \/ SetDefaultReportTemplate(r)
          \/ Enable(r) \/ DisableReportTemplateIfNotDefault(r)
          \/ CountReportsByTemplateId(r) \/ DeleteReportTemplateIfNotDefault(r)
          \/ SaveReport(r)
          \/ \E i \in Ids :
                \/ CreateReportTemplate(r, i) \/ BeginDefault(r, i) \/ BeginDelete(r, i)
                \/ RenderReport(r, i)
                \/ \E step \in {"enable", "disable"} : BeginState(r, i, step)
    \/ \E i \in Ids : DropReports(i)

Spec == Init /\ [][Next]_vars

(***************************************************************************)
(* Properties.                                                             *)
(***************************************************************************)

(* However seeding, promotions, disabling and deletions interleave, no two *)
(* templates are the default, and the composer's fallback is one it may    *)
(* use.                                                                    *)
DefaultIsUsable ==
    /\ \A i, j \in Ids : IsDefault(i) /\ IsDefault(j) => i = j
    /\ \A i \in Ids : IsDefault(i) => Usable(i)

(* An instance that has a default keeps one, but for the accepted race: a  *)
(* promotion whose template was disabled or deleted after it was checked.  *)
DefaultEndures ==
    [][HasDefault /\ ~ HasDefault' =>
          \E r \in overtaken : At(r, "promote") /\ ~ Usable(request[r].id)]_vars

(* A template of saved reports is not deleted, unless the report was saved *)
(* after the deletion began.                                               *)
ReferencedStays ==
    [][\A i \in referenced : Exists(i) /\ ~ Exists(i)' =>
          \E r \in late : At(r, "delete") /\ request[r].id = i]_vars
===============================================================================
