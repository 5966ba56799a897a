------------------------- MODULE CatalogAndHubProofs -------------------------
(***************************************************************************)
(* What holds of TemplateCatalog for every set of templates and handlers,  *)
(* and then of RealtimeSync for any number of users, tabs and changes.     *)
(* The two components share nothing; they are kept in one module because   *)
(* their proofs are short.                                                 *)
(***************************************************************************)
EXTENDS TemplateCatalog, RealtimeSync, TLAPS

(***************************************************************************)
(* TemplateCatalog: the default template.                                  *)
(***************************************************************************)

(* A row is made of its two fields, and is none when absent.               *)
LEMMA RowFacts ==
    ASSUME TypeOK, NEW i \in Ids
    PROVE  /\ Exists(i) => catalog[i] \in Row
           /\ IsDefault(i) => Exists(i)
           /\ Usable(i) => Exists(i)
  BY DEF TypeOK, Exists, IsDefault, Usable

LEMMA IdsFacts == Daily \in Ids /\ Starters \subseteq Ids /\ Created \subseteq Ids
  BY DailyAssumption DEF Ids

LEMMA InitType == Init => TypeOK
  BY IdsFacts, FreshAssumption DEF Init, TypeOK, Idle, Steps

LEMMA NextType == TypeOK /\ [Next]_vars => TypeOK'
  <1> SUFFICES ASSUME TypeOK, [Next]_vars PROVE TypeOK'
    OBVIOUS
  <1> USE DEF TypeOK, rows, history, Steps, Idle, Begin, At, Goes, Ends, Others
  <1>1. ASSUME NEW r \in Requests, SignUp(r) PROVE TypeOK'
    BY <1>1, IdsFacts, DailyAssumption, FreshAssumption DEF SignUp
  <1>2. ASSUME NEW r \in Requests, SeedCatalogReportTemplates(r) PROVE TypeOK'
    <2>1. catalog' \in [Ids -> Row \cup {Absent}]
      BY <1>2 DEF SeedCatalogReportTemplates, Row
    <2>2. \A i \in Created : catalog'[i] # Absent => i \in minted'
      BY <1>2, IdsFacts, FreshAssumption DEF SeedCatalogReportTemplates
    <2> QED BY <1>2, <2>1, <2>2 DEF SeedCatalogReportTemplates
  <1>3. ASSUME NEW r \in Requests, Found(r) PROVE TypeOK'
    BY <1>3, IdsFacts DEF Found
  <1>4. ASSUME NEW r \in Requests, Crash(r) PROVE TypeOK'
    BY <1>4, IdsFacts DEF Crash
  <1>5. ASSUME NEW r \in Requests, ListReportTemplates(r) PROVE TypeOK'
    BY <1>5, IdsFacts DEF ListReportTemplates
  <1>6. ASSUME NEW r \in Requests, SetDefaultReportTemplate(r) PROVE TypeOK'
    <2>1. catalog' \in [Ids -> Row \cup {Absent}]
      <3>1. ASSUME NEW j \in Ids PROVE catalog'[j] \in Row \cup {Absent}
        <4>1. CASE Exists(j)
          <5>1. catalog'[j] = [catalog[j] EXCEPT !.isDefault =
                                 (j = request[r].id /\ Usable(request[r].id))]
            BY <1>6, <4>1 DEF SetDefaultReportTemplate
          <5>2. (j = request[r].id /\ Usable(request[r].id)) \in BOOLEAN
            OBVIOUS
          <5>3. catalog[j] \in Row
            BY <4>1, RowFacts
          <5> HIDE DEF TypeOK
          <5> QED BY <5>1, <5>2, <5>3 DEF Row
        <4>2. CASE ~ Exists(j)
          BY <1>6, <4>2 DEF SetDefaultReportTemplate
        <4> QED BY <4>1, <4>2
      <3> QED BY <1>6, <3>1 DEF SetDefaultReportTemplate
    <2>2. \A i \in Created : catalog'[i] # Absent => i \in minted'
      BY <1>6, IdsFacts DEF SetDefaultReportTemplate, Exists
    <2> QED BY <1>6, <2>1, <2>2, IdsFacts DEF SetDefaultReportTemplate
  <1>7. ASSUME NEW r \in Requests, Enable(r) PROVE TypeOK'
    BY <1>7, IdsFacts DEF Enable, Row, Exists
  <1>8. ASSUME NEW r \in Requests, DisableReportTemplateIfNotDefault(r) PROVE TypeOK'
    BY <1>8, IdsFacts DEF DisableReportTemplateIfNotDefault, Row, Exists
  <1>9. ASSUME NEW r \in Requests, CountReportsByTemplateId(r) PROVE TypeOK'
    BY <1>9, IdsFacts DEF CountReportsByTemplateId
  <1>10. ASSUME NEW r \in Requests, DeleteReportTemplateIfNotDefault(r) PROVE TypeOK'
    BY <1>10, IdsFacts DEF DeleteReportTemplateIfNotDefault
  <1>11. ASSUME NEW r \in Requests, SaveReport(r) PROVE TypeOK'
    BY <1>11, IdsFacts DEF SaveReport
  <1>12. ASSUME NEW r \in Requests, NEW i \in Ids, CreateReportTemplate(r, i) PROVE TypeOK'
    BY <1>12, IdsFacts DEF CreateReportTemplate, Row
  <1>13. ASSUME NEW r \in Requests, NEW i \in Ids, BeginDefault(r, i) PROVE TypeOK'
    BY <1>13 DEF BeginDefault, Usable, Exists
  <1>14. ASSUME NEW r \in Requests, NEW i \in Ids, BeginDelete(r, i) PROVE TypeOK'
    BY <1>14 DEF BeginDelete, Exists
  <1>15. ASSUME NEW r \in Requests, NEW i \in Ids, RenderReport(r, i) PROVE TypeOK'
    BY <1>15 DEF RenderReport, Usable, Exists
  <1>16. ASSUME NEW r \in Requests, NEW i \in Ids, NEW step, BeginState(r, i, step)
         PROVE TypeOK'
    BY <1>16 DEF BeginState, Exists
  <1>17. ASSUME NEW i \in Ids, DropReports(i) PROVE TypeOK'
    BY <1>17 DEF DropReports
  <1>18. CASE UNCHANGED vars
    BY <1>18 DEF vars
  <1> QED BY <1>1, <1>2, <1>3, <1>4, <1>5, <1>6, <1>7, <1>8, <1>9, <1>10, <1>11, <1>12,
             <1>13, <1>14, <1>15, <1>16, <1>17, <1>18 DEF Next

(* Types, foreign keys aside: created rows and handlers name minted ids.   *)
THEOREM TypeCorrect == Spec => []TypeOK
  BY InitType, NextType, PTL DEF Spec

(***************************************************************************)
(* The default is usable.                                                  *)
(***************************************************************************)
LEMMA InitDefault == Init => DefaultIsUsable
  BY DEF Init, DefaultIsUsable, IsDefault, Usable, Exists

(* A step that makes no template the default and takes none from it.       *)
LEMMA DefaultKept ==
    ASSUME DefaultIsUsable,
           \A i \in Ids : IsDefault(i)' => IsDefault(i) /\ Usable(i)'
    PROVE  DefaultIsUsable'
  BY DEF DefaultIsUsable

LEMMA NextDefault == TypeOK /\ DefaultIsUsable /\ [Next]_vars => DefaultIsUsable'
  <1> SUFFICES ASSUME TypeOK, DefaultIsUsable, [Next]_vars PROVE DefaultIsUsable'
    OBVIOUS
  <1> USE IdsFacts
  <1>1. ASSUME NEW r \in Requests, SeedCatalogReportTemplates(r) PROVE DefaultIsUsable'
    <2> DEFINE seeded(i) == i \in Starters /\ ~ Exists(i) /\ (i = Daily => ~ HasDefault)
    <2>1. ASSUME NEW i \in Ids, seeded(i) PROVE
             catalog'[i] = [enabled |-> TRUE, isDefault |-> i = Daily]
      BY <1>1, <2>1 DEF SeedCatalogReportTemplates
    <2>2. ASSUME NEW i \in Ids, ~ seeded(i) PROVE catalog'[i] = catalog[i]
      BY <1>1, <2>2 DEF SeedCatalogReportTemplates
    <2>3. ASSUME NEW i \in Ids, IsDefault(i)' PROVE
             (IsDefault(i) /\ Usable(i)') \/ (i = Daily /\ ~ HasDefault /\ Usable(i)')
      <3>1. CASE seeded(i)
        <4>1. catalog'[i].isDefault /\ catalog'[i] # Absent
          BY <2>3 DEF IsDefault, Exists
        <4>2. catalog'[i] = [enabled |-> TRUE, isDefault |-> i = Daily]
          BY <2>1, <3>1
        <4>3. catalog'[i].enabled = TRUE /\ catalog'[i].isDefault = (i = Daily)
          BY <4>2
        <4>4. i = Daily /\ ~ HasDefault
          BY <3>1, <4>1, <4>3
        <4> QED BY <4>1, <4>3, <4>4 DEF Usable, Exists
      <3>2. CASE ~ seeded(i)
        <4>1. catalog'[i] = catalog[i]
          BY <2>2, <3>2
        <4> QED BY <2>3, <4>1 DEF DefaultIsUsable, IsDefault, Usable, Exists
      <3> QED BY <3>1, <3>2
    <2> QED BY <2>3 DEF DefaultIsUsable, HasDefault
  <1>2. ASSUME NEW r \in Requests, SetDefaultReportTemplate(r) PROVE DefaultIsUsable'
    <2> DEFINE i == request[r].id
    <2>1. ASSUME NEW j \in Ids, IsDefault(j)' PROVE j = i /\ Usable(j)'
      <3>1. Exists(j)
        BY <1>2, <2>1 DEF SetDefaultReportTemplate, IsDefault, Exists
      <3>2. catalog'[j] = [catalog[j] EXCEPT !.isDefault = (j = i /\ Usable(i))]
        BY <1>2, <3>1 DEF SetDefaultReportTemplate
      <3>3. catalog[j] \in Row
        BY <3>1, RowFacts
      <3>4. catalog'[j].isDefault = (j = i /\ Usable(i)) /\ catalog'[j].enabled = catalog[j].enabled
        BY <3>2, <3>3 DEF Row
      <3>5. j = i /\ Usable(i)
        BY <2>1, <3>4 DEF IsDefault
      <3> QED BY <2>1, <3>4, <3>5 DEF Usable, IsDefault, Exists
    <2> QED BY <2>1 DEF DefaultIsUsable
  <1>3. ASSUME NEW r \in Requests, Enable(r) PROVE DefaultIsUsable'
    <2> DEFINE i == request[r].id
    <2>1. ASSUME NEW j \in Ids, IsDefault(j)' PROVE IsDefault(j) /\ Usable(j)'
      <3>1. CASE j = i /\ Exists(i)
        <4>1. i \in Ids /\ catalog[i] \in Row
          BY <3>1, RowFacts
        <4>2. catalog'[i] = [catalog[i] EXCEPT !.enabled = TRUE]
          BY <1>3, <3>1, <4>1 DEF Enable, TypeOK
        <4>3. catalog'[i].isDefault = catalog[i].isDefault /\ catalog'[i].enabled = TRUE
          BY <4>1, <4>2 DEF Row
        <4> QED BY <2>1, <3>1, <4>3 DEF IsDefault, Usable, Exists
      <3>2. CASE ~ (j = i /\ Exists(i))
        <4>1. catalog'[j] = catalog[j]
          BY <1>3, <3>2 DEF Enable, TypeOK, Exists
        <4> QED BY <2>1, <4>1 DEF DefaultIsUsable, IsDefault, Usable, Exists
      <3> QED BY <3>1, <3>2
    <2> QED BY <2>1, DefaultKept
  <1>4. ASSUME NEW r \in Requests, DisableReportTemplateIfNotDefault(r) PROVE DefaultIsUsable'
    <2> DEFINE i == request[r].id
    <2> DEFINE hit == Exists(i) /\ ~ IsDefault(i)
    <2>1. ASSUME NEW j \in Ids, IsDefault(j)' PROVE IsDefault(j) /\ Usable(j)'
      <3>1. CASE j = i /\ hit
        <4>1. i \in Ids /\ catalog[i] \in Row
          BY <3>1, RowFacts
        <4>2. catalog'[i] = [catalog[i] EXCEPT !.enabled = FALSE]
          BY <1>4, <3>1, <4>1 DEF DisableReportTemplateIfNotDefault, TypeOK
        <4>3. catalog'[i].isDefault = catalog[i].isDefault
          BY <4>1, <4>2 DEF Row
        <4> QED BY <2>1, <3>1, <4>3 DEF IsDefault, Exists
      <3>2. CASE ~ (j = i /\ hit)
        <4>1. catalog'[j] = catalog[j]
          BY <1>4, <3>2 DEF DisableReportTemplateIfNotDefault, TypeOK
        <4> QED BY <2>1, <4>1 DEF DefaultIsUsable, IsDefault, Usable, Exists
      <3> QED BY <3>1, <3>2
    <2> QED BY <2>1, DefaultKept
  <1>5. ASSUME NEW r \in Requests, DeleteReportTemplateIfNotDefault(r) PROVE DefaultIsUsable'
    <2>1. ASSUME NEW j \in Ids, IsDefault(j)' PROVE IsDefault(j) /\ Usable(j)'
      <3>1. catalog'[j] = catalog[j]
        BY <1>5, <2>1 DEF DeleteReportTemplateIfNotDefault, TypeOK, IsDefault, Exists
      <3> QED BY <2>1, <3>1 DEF DefaultIsUsable, IsDefault, Usable, Exists
    <2> QED BY <2>1, DefaultKept
  <1>6. ASSUME NEW r \in Requests, NEW i \in Ids, CreateReportTemplate(r, i)
        PROVE DefaultIsUsable'
    <2>1. ASSUME NEW j \in Ids, IsDefault(j)' PROVE IsDefault(j) /\ Usable(j)'
      <3>1. j # i
        BY <1>6, <2>1 DEF CreateReportTemplate, TypeOK, IsDefault
      <3>2. catalog'[j] = catalog[j]
        BY <1>6, <3>1 DEF CreateReportTemplate, TypeOK
      <3> QED BY <2>1, <3>2 DEF DefaultIsUsable, IsDefault, Usable, Exists
    <2> QED BY <2>1, DefaultKept
  <1>7. ASSUME UNCHANGED catalog PROVE DefaultIsUsable'
    BY <1>7 DEF DefaultIsUsable, IsDefault, Usable, Exists
  <1> QED BY <1>1, <1>2, <1>3, <1>4, <1>5, <1>6, <1>7
          DEF Next, vars, rows, SignUp, Found, Crash, ListReportTemplates, BeginDefault,
              BeginDelete, BeginState, RenderReport, CountReportsByTemplateId, SaveReport,
              DropReports

(* There are never two defaults, and the default is enabled.               *)
THEOREM DefaultUsable == Spec => []DefaultIsUsable
  BY InitType, NextType, InitDefault, NextDefault, PTL DEF Spec

(***************************************************************************)
(* The default endures, and templates of saved reports stay.  Of every     *)
(* handler in flight: what it is about to write is still justified, unless *)
(* the history says who undid it.                                          *)
(***************************************************************************)
Justified ==
    \A r \in Requests :
        /\ request[r].step \in {"list", "promote"} /\ r \notin overtaken
              => Usable(request[r].id)
        /\ request[r].step = "delete" /\ request[r].id \in referenced => r \in late

LEMMA InitJustified == Init => Justified
  BY DEF Init, Justified, Idle

(* A step of one handler, seen from it and from the others.                *)
LEMMA StepJustified ==
    ASSUME TypeOK, Justified, NEW r \in Requests,
           \A q \in Requests \ {r} : request'[q] = request[q],
           request'[r].step \notin {"list", "promote", "delete"},
           \A q \in Requests \ {r} : q \in overtaken => q \in overtaken',
           \A q \in Requests \ {r} : q \in late => q \in late',
           \A q \in Requests \ {r} :
              Usable(request[q].id) => Usable(request[q].id)' \/ q \in overtaken' \/ At(q, "idle"),
           \A q \in Requests \ {r} :
              request[q].id \in referenced' => request[q].id \in referenced \/ q \in late'
    PROVE  Justified'
  BY DEF Justified, At

(* The step of a handler of which the other rows see nothing.              *)
LEMMA QuietJustified ==
    ASSUME TypeOK, Justified, NEW r \in Requests,
           \A q \in Requests \ {r} : request'[q] = request[q],
           UNCHANGED <<catalog, referenced>>,
           overtaken \ {r} \subseteq overtaken', late \ {r} \subseteq late',
           request'[r].step \in {"list", "promote"} /\ r \notin overtaken'
              => Usable(request'[r].id),
           request'[r].step = "delete" /\ request'[r].id \in referenced => r \in late'
    PROVE  Justified'
  BY DEF Justified, Usable, Exists

LEMMA NextJustified == TypeOK /\ Justified /\ [Next]_vars => Justified'
  <1> SUFFICES ASSUME TypeOK, Justified, [Next]_vars PROVE Justified'
    OBVIOUS
  <1> USE IdsFacts
  <1>1. ASSUME NEW r \in Requests, SeedCatalogReportTemplates(r) PROVE Justified'
    <2>1. \A i \in Ids : Usable(i) => Usable(i)'
      BY <1>1 DEF SeedCatalogReportTemplates, Usable, Exists
    <2>2. \A q \in Requests \ {r} : request'[q] = request[q]
      BY <1>1 DEF SeedCatalogReportTemplates, Goes, TypeOK
    <2>3. request'[r].step = "commit"
      BY <1>1 DEF SeedCatalogReportTemplates, Goes, TypeOK
    <2>4. \A q \in Requests : request[q].id \in Ids
      BY DEF TypeOK
    <2> QED BY <1>1, <2>1, <2>2, <2>3, <2>4, StepJustified
            DEF SeedCatalogReportTemplates, history
  <1>2. ASSUME NEW r \in Requests, SignUp(r) \/ Found(r) \/ Crash(r) PROVE Justified'
    <2>1. /\ \A q \in Requests \ {r} : request'[q] = request[q]
          /\ request'[r].step \in {"idle", "seed"}
      BY <1>2 DEF SignUp, Found, Crash, Begin, Ends, Idle, TypeOK
    <2> QED BY <1>2, <2>1, QuietJustified DEF SignUp, Found, Crash, Ends, rows, history
  <1>3. ASSUME NEW r \in Requests, ListReportTemplates(r) PROVE Justified'
    <2>1. /\ \A q \in Requests \ {r} : request'[q] = request[q]
          /\ request'[r] = Idle \/ (request'[r] = [request[r] EXCEPT !.step = "promote"]
                                    /\ UNCHANGED history)
      BY <1>3 DEF ListReportTemplates, Ends, Goes, TypeOK
    <2>2. /\ \A q \in Requests \ {r} : request'[q] = request[q]
          /\ request'[r].step = "idle" \/ (request'[r].step = "promote"
                /\ request'[r].id = request[r].id /\ UNCHANGED history)
      BY <2>1 DEF Idle, TypeOK
    <2>3. r \notin overtaken => Usable(request[r].id)
      BY <1>3 DEF ListReportTemplates, At, Justified
    <2> QED BY <1>3, <2>2, <2>3, QuietJustified
            DEF ListReportTemplates, Ends, Goes, rows, history
  <1>4. ASSUME NEW r \in Requests, SetDefaultReportTemplate(r) PROVE Justified'
    <2>1. ASSUME NEW j \in Ids, Usable(j) PROVE Usable(j)'
      <3>1. catalog'[j] = [catalog[j] EXCEPT !.isDefault =
                             (j = request[r].id /\ Usable(request[r].id))]
        BY <1>4, <2>1 DEF SetDefaultReportTemplate, Usable
      <3>2. catalog[j] \in Row
        BY <2>1, RowFacts
      <3>3. catalog'[j] \in Row /\ catalog'[j].enabled = catalog[j].enabled
        <4>1. (j = request[r].id /\ Usable(request[r].id)) \in BOOLEAN
          OBVIOUS
        <4> QED BY <3>1, <3>2, <4>1 DEF Row
      <3> QED BY <2>1, <3>3, AbsentAssumption DEF Usable, Exists, Row
    <2>2. /\ \A q \in Requests \ {r} : request'[q] = request[q]
          /\ request'[r].step = "idle"
      BY <1>4 DEF SetDefaultReportTemplate, Ends, Idle, TypeOK
    <2>3. \A q \in Requests : request[q].id \in Ids
      BY DEF TypeOK
    <2> QED BY <1>4, <2>1, <2>2, <2>3, StepJustified DEF SetDefaultReportTemplate, Ends
  <1>5. ASSUME NEW r \in Requests, Enable(r) PROVE Justified'
    <2>1. ASSUME NEW j \in Ids, Usable(j) PROVE Usable(j)'
      BY <1>5, <2>1, RowFacts, AbsentAssumption DEF Enable, TypeOK, Usable, Exists, Row
    <2>2. /\ \A q \in Requests \ {r} : request'[q] = request[q]
          /\ request'[r].step = "idle"
      BY <1>5 DEF Enable, Ends, Idle, TypeOK
    <2>3. \A q \in Requests : request[q].id \in Ids
      BY DEF TypeOK
    <2> QED BY <1>5, <2>1, <2>2, <2>3, StepJustified DEF Enable, Ends
  <1>6. ASSUME NEW r \in Requests,
               DisableReportTemplateIfNotDefault(r) \/ DeleteReportTemplateIfNotDefault(r)
        PROVE Justified'
    <2>1. ASSUME NEW q \in Requests \ {r}, Usable(request[q].id)
          PROVE  Usable(request[q].id)' \/ q \in overtaken' \/ At(q, "idle")
      <3> DEFINE i == request[r].id
      <3>1. \/ catalog' = catalog
            \/ /\ overtaken' = (overtaken \cup Others(r, i)) \ {r}
               /\ \A j \in Ids : j # i => catalog'[j] = catalog[j]
        BY <1>6 DEF DisableReportTemplateIfNotDefault, DeleteReportTemplateIfNotDefault, TypeOK
      <3>2. request[q].id = i => q \in Others(r, i) \/ At(q, "idle")
        BY DEF Others, At, Idle
      <3>3. request[q].id \in Ids /\ request'[q] = request[q]
        BY <1>6 DEF DisableReportTemplateIfNotDefault, DeleteReportTemplateIfNotDefault,
                    Ends, TypeOK
      <3>4. CASE catalog' = catalog
        BY <2>1, <3>3, <3>4 DEF Usable, Exists
      <3>5. CASE catalog' # catalog /\ request[q].id = i
        BY <3>1, <3>2, <3>5
      <3>6. CASE catalog' # catalog /\ request[q].id # i
        BY <2>1, <3>1, <3>3, <3>6 DEF Usable, Exists
      <3> QED BY <3>4, <3>5, <3>6
    <2>2. /\ \A q \in Requests \ {r} : request'[q] = request[q]
          /\ request'[r].step = "idle"
      BY <1>6 DEF DisableReportTemplateIfNotDefault, DeleteReportTemplateIfNotDefault,
                  Ends, Idle, TypeOK
    <2> QED BY <1>6, <2>1, <2>2, StepJustified
            DEF DisableReportTemplateIfNotDefault, DeleteReportTemplateIfNotDefault, Ends
  <1>7. ASSUME NEW r \in Requests, CountReportsByTemplateId(r) PROVE Justified'
    <2>1. /\ \A q \in Requests \ {r} : request'[q] = request[q]
          /\ request'[r].step = "idle" \/ (request'[r].step = "delete"
                /\ request'[r].id = request[r].id /\ request[r].id \notin referenced)
      BY <1>7 DEF CountReportsByTemplateId, Ends, Goes, Idle, TypeOK
    <2> QED BY <1>7, <2>1, QuietJustified DEF CountReportsByTemplateId, Ends, rows, history
  <1>8. ASSUME NEW r \in Requests, SaveReport(r) PROVE Justified'
    <2>1. /\ \A q \in Requests \ {r} : request'[q] = request[q]
          /\ request'[r].step = "idle"
      BY <1>8 DEF SaveReport, Idle, TypeOK
    <2>2. \A q \in Requests \ {r} : request[q].step = "delete" /\ request[q].id = request[r].id
             => q \in late'
      BY <1>8 DEF SaveReport, Others, Idle
    <2> QED BY <1>8, <2>1, <2>2 DEF SaveReport, Justified, Usable, Exists
  <1>9. ASSUME NEW r \in Requests, NEW i \in Ids, CreateReportTemplate(r, i) PROVE Justified'
    <2>1. \A j \in Ids : j # i => catalog'[j] = catalog[j]
      BY <1>9 DEF CreateReportTemplate, TypeOK
    <2>2. Usable(i)'
      <3>1. catalog'[i] = [enabled |-> TRUE, isDefault |-> FALSE]
        BY <1>9 DEF CreateReportTemplate, TypeOK
      <3>2. catalog'[i] \in Row /\ catalog'[i].enabled
        BY <3>1 DEF Row
      <3> QED BY <3>2, AbsentAssumption DEF Usable, Exists, Row
    <2>3. \A q \in Requests \ {r} : request'[q] = request[q]
      BY <1>9 DEF CreateReportTemplate, Begin, TypeOK
    <2>4. request'[r] = [step |-> "list", id |-> i]
      BY <1>9 DEF CreateReportTemplate, Begin, TypeOK
    <2>5. \A j \in Ids : Usable(j) => Usable(j)'
      BY <2>1, <2>2 DEF Usable, Exists
    <2>6. \A q \in Requests : request[q].id \in Ids
      BY DEF TypeOK
    <2> QED BY <1>9, <2>2, <2>3, <2>4, <2>5, <2>6 DEF CreateReportTemplate, Justified, history
  <1>10. ASSUME NEW r \in Requests, NEW i \in Ids,
                BeginDefault(r, i) \/ BeginDelete(r, i) \/ RenderReport(r, i)
         PROVE Justified'
    <2>1. \A q \in Requests \ {r} : request'[q] = request[q]
      BY <1>10 DEF BeginDefault, BeginDelete, RenderReport, Begin, TypeOK
    <2>2. request'[r].id = i /\ (request'[r].step \in {"count", "save"}
                                 \/ (request'[r].step = "promote" /\ Usable(i)))
      BY <1>10 DEF BeginDefault, BeginDelete, RenderReport, Begin, TypeOK
    <2> QED BY <1>10, <2>1, <2>2, QuietJustified
            DEF BeginDefault, BeginDelete, RenderReport, rows, history
  <1>11. ASSUME NEW r \in Requests, NEW i \in Ids, NEW step, BeginState(r, i, step)
         PROVE Justified'
    <2>1. /\ \A q \in Requests \ {r} : request'[q] = request[q]
          /\ request'[r].step \in {"enable", "disable"}
      BY <1>11 DEF BeginState, Begin, TypeOK
    <2> QED BY <1>11, <2>1, QuietJustified DEF BeginState, rows, history
  <1>12. ASSUME NEW i \in Ids, DropReports(i) PROVE Justified'
    BY <1>12 DEF DropReports, Justified, Usable, Exists, history
  <1>13. CASE UNCHANGED vars
    BY <1>13 DEF vars, rows, history, Justified, Usable, Exists
  <1> QED BY <1>1, <1>2, <1>3, <1>4, <1>5, <1>6, <1>7, <1>8, <1>9, <1>10, <1>11, <1>12, <1>13
          DEF Next

(* The default is only lost to a promotion whose template was disabled or  *)
(* deleted after it was checked.                                           *)
LEMMA StepEndures ==
    ASSUME TypeOK, DefaultIsUsable, Justified, [Next]_vars, HasDefault, ~ HasDefault'
    PROVE  \E r \in overtaken : At(r, "promote") /\ ~ Usable(request[r].id)
  <1> USE IdsFacts
  <1>0. PICK d \in Ids : IsDefault(d)
    BY DEF HasDefault
  <1>1. ~ IsDefault(d)'
    BY DEF HasDefault
  <1>2. catalog[d] \in Row /\ catalog[d] # Absent /\ catalog[d].isDefault /\ d \notin Created \ minted
    BY <1>0, RowFacts DEF IsDefault, Exists, TypeOK
  <1>3. catalog'[d] # catalog[d]
    BY <1>0, <1>1 DEF IsDefault, Exists
  <1>4. ASSUME NEW r \in Requests, SetDefaultReportTemplate(r)
        PROVE  \E q \in overtaken : At(q, "promote") /\ ~ Usable(request[q].id)
    <2>0. PICK i \in Ids : i = request[r].id
      BY DEF TypeOK
    <2>1. ~ Usable(i)
      <3> SUFFICES ASSUME Usable(i) PROVE FALSE
        OBVIOUS
      <3>1. catalog[i] \in Row
        BY RowFacts
      <3>2. catalog'[i] = [catalog[i] EXCEPT !.isDefault = (i = i /\ Usable(i))]
        BY <1>4, <2>0, <3>1 DEF SetDefaultReportTemplate, Usable
      <3>3. catalog'[i] \in Row /\ catalog'[i].isDefault = (i = i /\ Usable(i))
        <4>1. (i = i /\ Usable(i)) \in BOOLEAN
          OBVIOUS
        <4> QED BY <3>1, <3>2, <4>1 DEF Row
      <3>4. IsDefault(i)'
        BY <3>1, <3>3, AbsentAssumption DEF IsDefault, Exists, Row
      <3> QED BY <3>1, <3>4 DEF HasDefault
    <2>2. At(r, "promote") /\ r \in overtaken
      BY <1>4, <2>0, <2>1 DEF SetDefaultReportTemplate, Justified, At
    <2> QED BY <2>0, <2>1, <2>2
  <1>5. ASSUME NEW r \in Requests, SeedCatalogReportTemplates(r) PROVE FALSE
    BY <1>2, <1>3, <1>5 DEF SeedCatalogReportTemplates, Exists
  <1>6. ASSUME NEW r \in Requests, Enable(r) PROVE FALSE
    <2>1. d = request[r].id /\ catalog'[d] = [catalog[d] EXCEPT !.enabled = TRUE]
      BY <1>2, <1>3, <1>6 DEF Enable, TypeOK
    <2>2. catalog'[d] \in Row /\ catalog'[d].isDefault = catalog[d].isDefault
      BY <1>2, <2>1 DEF Row
    <2> QED BY <1>1, <1>2, <2>2, AbsentAssumption DEF IsDefault, Exists, Row
  <1>7. ASSUME NEW r \in Requests,
               DisableReportTemplateIfNotDefault(r) \/ DeleteReportTemplateIfNotDefault(r)
        PROVE  FALSE
    BY <1>0, <1>3, <1>7 DEF DisableReportTemplateIfNotDefault,
       DeleteReportTemplateIfNotDefault, TypeOK
  <1>8. ASSUME NEW r \in Requests, NEW i \in Ids, CreateReportTemplate(r, i) PROVE FALSE
    BY <1>2, <1>3, <1>8 DEF CreateReportTemplate, TypeOK
  <1>9. ASSUME UNCHANGED catalog PROVE FALSE
    BY <1>3, <1>9
  <1> QED BY <1>4, <1>5, <1>6, <1>7, <1>8, <1>9
          DEF Next, vars, rows, SignUp, Found, Crash, ListReportTemplates, BeginDefault,
              BeginDelete, BeginState, RenderReport, CountReportsByTemplateId, SaveReport,
              DropReports

THEOREM DefaultLostOnlyToRace == Spec => DefaultEndures
  <1>1. TypeOK /\ DefaultIsUsable /\ Justified /\ [Next]_vars =>
          [HasDefault /\ ~ HasDefault' =>
             \E r \in overtaken : At(r, "promote") /\ ~ Usable(request[r].id)]_vars
    BY StepEndures
  <1> QED BY <1>1, InitType, NextType, InitDefault, NextDefault, InitJustified, NextJustified, PTL
          DEF Spec, DefaultEndures

(* A template of saved reports is only deleted by a deletion that was      *)
(* under way when the report was saved.                                    *)
LEMMA StepReferenced ==
    ASSUME TypeOK, Justified, [Next]_vars, NEW i \in referenced, Exists(i), ~ Exists(i)'
    PROVE  \E r \in late : At(r, "delete") /\ request[r].id = i
  <1> USE IdsFacts
  <1>0. i \in Ids /\ catalog[i] \in Row /\ catalog[i] # Absent /\ catalog'[i] = Absent
    BY RowFacts DEF TypeOK, Exists
  <1>1. ASSUME NEW r \in Requests, DeleteReportTemplateIfNotDefault(r)
        PROVE  \E q \in late : At(q, "delete") /\ request[q].id = i
    BY <1>0, <1>1 DEF DeleteReportTemplateIfNotDefault, At, Justified, TypeOK
  <1>2. ASSUME NEW r \in Requests, SeedCatalogReportTemplates(r) PROVE FALSE
    BY <1>0, <1>2 DEF SeedCatalogReportTemplates, Exists
  <1>3. ASSUME NEW r \in Requests, SetDefaultReportTemplate(r) PROVE FALSE
    <2>1. catalog'[i] = [catalog[i] EXCEPT !.isDefault =
                           (i = request[r].id /\ Usable(request[r].id))]
      BY <1>0, <1>3 DEF SetDefaultReportTemplate, Exists
    <2>2. (i = request[r].id /\ Usable(request[r].id)) \in BOOLEAN
      OBVIOUS
    <2> QED BY <1>0, <2>1, <2>2, AbsentAssumption DEF Row
  <1>4. ASSUME NEW r \in Requests, Enable(r) \/ DisableReportTemplateIfNotDefault(r) PROVE FALSE
    <2>1. PICK e \in BOOLEAN : catalog'[i] = catalog[i] \/ catalog'[i] = [catalog[i] EXCEPT !.enabled = e]
      BY <1>0, <1>4 DEF Enable, DisableReportTemplateIfNotDefault, TypeOK
    <2>2. catalog'[i] \in Row
      BY <1>0, <2>1 DEF Row
    <2> QED BY <1>0, <2>2, AbsentAssumption DEF Row
  <1>5. ASSUME NEW r \in Requests, NEW j \in Ids, CreateReportTemplate(r, j) PROVE FALSE
    <2>1. j = i
      BY <1>0, <1>5 DEF CreateReportTemplate, TypeOK
    <2> QED BY <1>0, <1>5, <2>1 DEF CreateReportTemplate, TypeOK
  <1>6. ASSUME UNCHANGED catalog PROVE FALSE
    BY <1>0, <1>6
  <1> QED BY <1>1, <1>2, <1>3, <1>4, <1>5, <1>6
          DEF Next, vars, rows, SignUp, Found, Crash, ListReportTemplates, BeginDefault,
              BeginDelete, BeginState, RenderReport, CountReportsByTemplateId, SaveReport,
              DropReports

THEOREM ReferencedTemplatesStay == Spec => ReferencedStays
  <1>1. TypeOK /\ Justified /\ [Next]_vars =>
          [\A i \in referenced : Exists(i) /\ ~ Exists(i)' =>
             \E r \in late : At(r, "delete") /\ request[r].id = i]_vars
    BY StepReferenced
  <1> QED BY <1>1, InitType, NextType, InitJustified, NextJustified, PTL
          DEF Spec, ReferencedStays

(***************************************************************************)
(* RealtimeSync: what a tab shows.                                         *)
(***************************************************************************)

Task == [step : {"none", "flag", "lookup", "send"}, to : SUBSET Users]
Fetch == [step : {"idle", "wanted", "reading"}, got : 0 .. MaxWrites]

LEMMA Records == NoTask \in Task /\ NoFetch \in Fetch /\ Wanted \in Fetch
  BY WritesAssumption DEF NoTask, NoFetch, Wanted, Task, Fetch

(* A stream that was never tried, or was given up, opens as for the first  *)
(* time; a closed page has none; a fetch that is not under way is none.    *)
Shape ==
    /\ \A t \in Tabs : stream[t] = "none" => t \notin reconnected
    /\ \A t \in Tabs : page[t] = "closed" => stream[t] = "none"
    /\ \A t \in Tabs : fetch[t].step = "idle" => fetch[t] = NoFetch

(* What a tab shows, or will when the fetch it reads has ended.            *)
Arriving(t) == IF fetch[t].step = "reading" THEN fetch[t].got ELSE shown[t]

(* Why a tab that is behind will fetch again.                              *)
Coming(t) ==
    \/ fetch[t].step = "wanted"
    \/ frames[t] > 0
    \/ t \in reconnected /\ stream[t] \in {"down", "accepted"}
    \/ \E w \in Changes : Awaits(w, UserOf[t])

NobodyIsForgotten ==
    \A t \in Loaded : Arriving(t) = version \/ t \in dropped \cup early \cup swallowed \/ Coming(t)

TabStep(t) ==
    \/ Load(t) \/ LearnSwitch(t) \/ Connect(t) \/ OnOpen(t) \/ Hear(t) \/ Break(t)
    \/ Focus(t) \/ ServeFetch(t) \/ RefuseFetch(t) \/ EndFetch(t) \/ FailFetch(t)

SyncInv == HubTypeOK /\ Shape /\ NobodyIsForgotten

(***************************************************************************)
(* Types.                                                                  *)
(***************************************************************************)
LEMMA TypeStep ==
    ASSUME HubTypeOK, [HubNext]_hubVars
    PROVE  HubTypeOK'
  <1> USE DEF HubTypeOK, server, tab, hubHistory
  <1>1. ASSUME Toggle PROVE HubTypeOK' BY <1>1 DEF Toggle
  <1>2. ASSUME Write PROVE HubTypeOK'
    <2> DEFINE flagged == [step |-> "flag", to |-> {}]
    <2>1. version' \in 0 .. MaxWrites BY <1>2, WritesAssumption DEF Write
    <2>2. flagged \in Task BY DEF Task
    <2>3. task' = [task EXCEPT ![version'] = flagged] BY <1>2 DEF Write
    <2> HIDE DEF flagged
    <2>4. task' \in [Changes -> Task] BY <2>2, <2>3 DEF Task
    <2> QED BY <1>2, <2>1, <2>4 DEF Write, Task
  <1>3. ASSUME WriteSilently PROVE HubTypeOK'
    <2>1. version' \in 0 .. MaxWrites BY <1>3, WritesAssumption DEF WriteSilently
    <2> QED BY <1>3, <2>1 DEF WriteSilently, Loaded
  <1>4. ASSUME NEW w \in Changes, ReadSwitch(w) \/ LookUpMembers(w) PROVE HubTypeOK'
    <2>1. task' \in [Changes -> Task]
      <3> DEFINE looking == [step |-> "lookup", to |-> {}]
                 sending == [step |-> "send", to |-> members]
      <3>1. looking \in Task /\ sending \in Task BY DEF Task
      <3>2. task' \in {[task EXCEPT ![w] = looking], [task EXCEPT ![w] = sending], [task EXCEPT ![w] = NoTask]}
        BY <1>4 DEF ReadSwitch, LookUpMembers
      <3> HIDE DEF looking, sending
      <3> QED BY <3>1, <3>2, Records DEF Task
    <2>2. dropped' \subseteq Tabs BY <1>4 DEF ReadSwitch, LookUpMembers, Loaded, Outside
    <2> QED BY <1>4, <2>1, <2>2 DEF ReadSwitch, LookUpMembers, Task
  <1>5. ASSUME NEW w \in Changes, NEW u \in Users, Publish(w, u) PROVE HubTypeOK'
    <2>1. task' \in [Changes -> Task]
      <3> DEFINE left == [step |-> "send", to |-> task[w].to \ {u}]
      <3>1. left \in Task BY DEF Task
      <3>2. task' \in {[task EXCEPT ![w] = left], [task EXCEPT ![w] = NoTask]} BY <1>5 DEF Publish
      <3> HIDE DEF left
      <3> QED BY <3>1, <3>2, Records DEF Task
    <2>2. frames' \in [Tabs -> Nat] BY <1>5 DEF Publish
    <2>3. dropped' \cup early' \subseteq Tabs BY <1>5 DEF Publish, Loaded
    <2> QED BY <1>5, <2>1, <2>2, <2>3 DEF Publish, Task
  <1>6. ASSUME NEW w \in Changes, Die(w) PROVE HubTypeOK'
    <2>1. task' \in [Changes -> Task] BY <1>6, Records DEF Die, Task
    <2> QED BY <1>6, <2>1 DEF Die, Loaded, Task
  <1>7. ASSUME NEW t \in Tabs, Load(t) PROVE HubTypeOK'
    BY <1>7, Records DEF Load, Refetches, Fetch
  <1>8. ASSUME NEW t \in Tabs, LearnSwitch(t) PROVE HubTypeOK'
    BY <1>8 DEF LearnSwitch
  <1>9. ASSUME NEW t \in Tabs, Connect(t) PROVE HubTypeOK' BY <1>9 DEF Connect
  <1>10. ASSUME NEW t \in Tabs, OnOpen(t) PROVE HubTypeOK'
    BY <1>10, Records DEF OnOpen, Invalidates, MissesFirst, Refetches, Fetch
  <1>11. ASSUME NEW t \in Tabs, Hear(t) PROVE HubTypeOK'
    BY <1>11, Records DEF Hear, Invalidates, MissesFirst, Refetches, Fetch
  <1>12. ASSUME NEW t \in Tabs, Break(t) PROVE HubTypeOK' BY <1>12 DEF Break
  <1>13. ASSUME NEW t \in Tabs, Focus(t) PROVE HubTypeOK'
    BY <1>13, Records DEF Focus, Refetches, Fetch
  <1>14. ASSUME NEW t \in Tabs, ServeFetch(t) PROVE HubTypeOK'
    <2>1. fetch' \in [Tabs -> Fetch] BY <1>14 DEF ServeFetch, Fetch
    <2> QED BY <1>14, <2>1 DEF ServeFetch, Fetch
  <1>15. ASSUME NEW t \in Tabs, EndFetch(t) PROVE HubTypeOK'
    BY <1>15, Records DEF EndFetch, Fetch
  <1>16. ASSUME NEW t \in Tabs, FailFetch(t) \/ RefuseFetch(t) PROVE HubTypeOK'
    <2>1. NoAnswer(t) BY <1>16 DEF FailFetch, RefuseFetch
    <2>2. fetch' \in [Tabs -> Fetch] BY <2>1, Records DEF NoAnswer, Fetch
    <2> QED BY <2>1, <2>2 DEF NoAnswer, Fetch
  <1>17. CASE UNCHANGED hubVars BY <1>17 DEF hubVars
  <1>18. ASSUME NEW u \in Users, AddMember(u) \/ RemoveMember(u) PROVE HubTypeOK'
    BY <1>18 DEF AddMember, RemoveMember
  <1> QED BY <1>1, <1>2, <1>3, <1>4, <1>5, <1>6, <1>7, <1>8, <1>9, <1>10, <1>11, <1>12, <1>13, <1>14,
             <1>15, <1>16, <1>17, <1>18 DEF HubNext, Tasks

(***************************************************************************)
(* A change is not forgotten.                                              *)
(***************************************************************************)
LEMMA ShapeStep ==
    ASSUME HubTypeOK, Shape, HubNext
    PROVE  Shape'
  <1> USE DEF Shape, HubTypeOK, server, tab, hubHistory
  <1>1. CASE UNCHANGED <<page, stream, reconnected, fetch>> BY <1>1
  <1>2. ASSUME NEW t \in Tabs, TabStep(t) PROVE Shape'
    <2>1. \A x \in Tabs : stream'[x] = "none" => x \notin reconnected'
      BY <1>2 DEF TabStep, Load, LearnSwitch, Connect, OnOpen, Hear, Break, Focus, ServeFetch, EndFetch,
                  FailFetch, RefuseFetch, NoAnswer
    <2>2. \A x \in Tabs : page'[x] = "closed" => stream'[x] = "none"
      BY <1>2 DEF TabStep, Load, LearnSwitch, Connect, OnOpen, Hear, Break, Held, Focus, ServeFetch,
                  EndFetch, FailFetch, RefuseFetch, NoAnswer
    <2>3. \A x \in Tabs : fetch'[x].step = "idle" => fetch'[x] = NoFetch
      BY <1>2 DEF TabStep, Load, LearnSwitch, Connect, OnOpen, Hear, Break, Focus, ServeFetch, EndFetch,
                  FailFetch, RefuseFetch, NoAnswer, Invalidates, Refetches, Wanted
    <2> QED BY <2>1, <2>2, <2>3
  <1>3. ASSUME NEW w \in Changes, ReadSwitch(w) \/ LookUpMembers(w) \/ Die(w) PROVE Shape'
    BY <1>1, <1>3 DEF ReadSwitch, LookUpMembers, Die
  <1>4. ASSUME NEW w \in Changes, NEW u \in Users, Publish(w, u) PROVE Shape'
    BY <1>1, <1>4 DEF Publish
  <1>5. ASSUME \/ Toggle \/ Write \/ WriteSilently
               \/ \E u \in Users : AddMember(u) \/ RemoveMember(u)
        PROVE  Shape'
    BY <1>1, <1>5 DEF Toggle, Write, WriteSilently, AddMember, RemoveMember
  <1> QED BY <1>2, <1>3, <1>4, <1>5 DEF HubNext, Tasks, TabStep

LEMMA NobodyStep ==
    ASSUME SyncInv, HubNext
    PROVE  NobodyIsForgotten'
  <1> USE DEF server, tab, hubHistory
  <1>t. HubTypeOK /\ Shape BY DEF SyncInv
  <1> SUFFICES ASSUME NEW t \in Tabs, page'[t] # "closed"
               PROVE  \/ Arriving(t)' = version' \/ t \in dropped' \cup early' \cup swallowed' \/ Coming(t)'
    BY DEF NobodyIsForgotten, Loaded
  <1> DEFINE Fine == Arriving(t)' = version' \/ t \in dropped' \cup early' \cup swallowed' \/ Coming(t)'
  <1>0. page[t] # "closed" =>
            \/ Arriving(t) = version \/ t \in dropped \/ t \in early \/ t \in swallowed
            \/ fetch[t].step = "wanted" \/ frames[t] > 0
            \/ t \in reconnected /\ stream[t] \in {"down", "accepted"}
            \/ \E w \in Changes : Awaits(w, UserOf[t])
    BY DEF SyncInv, NobodyIsForgotten, Loaded, Coming
  <1>1. ASSUME Toggle \/ \E u \in Users : AddMember(u) \/ RemoveMember(u) PROVE Fine
    BY <1>0, <1>1 DEF Toggle, AddMember, RemoveMember, Arriving, Coming, Awaits
  <1>2. CASE Write
    <2>1. version' \in Changes BY <1>2, <1>t, WritesAssumption DEF Write, Changes, HubTypeOK
    <2>2. task'[version'].step = "flag" BY <1>2, <1>t, <2>1 DEF Write, HubTypeOK
    <2> QED BY <2>1, <2>2 DEF Coming, Awaits
  <1>3. CASE WriteSilently BY <1>3 DEF WriteSilently, Loaded
  <1>4. ASSUME NEW w \in Changes, ReadSwitch(w) PROVE Fine
    <2>1. CASE enabled
      <3>1. task' = [task EXCEPT ![w] = [step |-> "lookup", to |-> {}]] BY <1>4, <2>1 DEF ReadSwitch
      <3>2. \A x \in Changes : Awaits(x, UserOf[t]) => Awaits(x, UserOf[t])'
        BY <1>t, <3>1 DEF HubTypeOK, Awaits
      <3>3. UNCHANGED <<version, page, stream, reconnected, frames, fetch, shown, dropped, early, swallowed>>
        BY <1>4, <2>1 DEF ReadSwitch
      <3> QED BY <1>0, <3>2, <3>3 DEF Arriving, Coming
    <2>2. CASE ~ enabled BY <1>4, <2>2 DEF ReadSwitch, Loaded
    <2> QED BY <2>1, <2>2
  <1>16. ASSUME NEW w \in Changes, LookUpMembers(w) PROVE Fine
    <2>0. /\ UNCHANGED <<version, page, stream, reconnected, frames, fetch, shown, early, swallowed>>
          /\ dropped \subseteq dropped'
      BY <1>16 DEF LookUpMembers
    <2>1. CASE UserOf[t] \notin members BY <1>16, <2>0, <2>1 DEF LookUpMembers, Outside, Loaded
    <2>2. CASE UserOf[t] \in members
      <3>1. task' = [task EXCEPT ![w] = [step |-> "send", to |-> members]] BY <1>16, <2>2 DEF LookUpMembers
      <3>2. \A x \in Changes : Awaits(x, UserOf[t]) => Awaits(x, UserOf[t])'
        BY <1>t, <2>2, <3>1 DEF HubTypeOK, Awaits
      <3> QED BY <1>0, <2>0, <3>2 DEF Arriving, Coming
    <2> QED BY <2>1, <2>2
  <1>5. ASSUME NEW w \in Changes, NEW u \in Users, Publish(w, u) PROVE Fine
    <2>0. UNCHANGED <<version, page, stream, reconnected, fetch, shown, swallowed>> BY <1>5 DEF Publish
    <2>2. CASE UserOf[t] = u
      <3>1. CASE stream[t] \in {"accepted", "open"}
        <4>1. frames'[t] = frames[t] + 1 BY <1>5, <1>t, <2>0, <2>2, <3>1 DEF Publish, Loaded, Held, HubTypeOK
        <4>2. frames'[t] > 0 BY <1>t, <4>1 DEF HubTypeOK
        <4> QED BY <4>2 DEF Coming
      <3>2. CASE stream[t] \in {"none", "down"} /\ t \notin reconnected
        BY <1>5, <2>0, <2>2, <3>2 DEF Publish, Loaded
      <3>3. CASE stream[t] = "down" /\ t \in reconnected BY <2>0, <3>3 DEF Coming
      <3>4. CASE stream[t] = "refused" BY <1>5, <2>0, <2>2, <3>4 DEF Publish, Loaded
      <3> QED BY <1>t, <3>1, <3>2, <3>3, <3>4 DEF HubTypeOK, Shape
    <2>3. CASE UserOf[t] # u
      <3>1. frames'[t] = frames[t] BY <1>5, <1>t, <2>3 DEF Publish, HubTypeOK
      <3>2. dropped \subseteq dropped' /\ early \subseteq early' BY <1>5 DEF Publish
      <3>3. \A x \in Changes : Awaits(x, UserOf[t]) => Awaits(x, UserOf[t])'
        <4> SUFFICES ASSUME NEW x \in Changes, Awaits(x, UserOf[t]) PROVE Awaits(x, UserOf[t])'
          OBVIOUS
        <4>1. CASE x # w
          <5>1. task'[x] = task[x] BY <1>5, <1>t, <4>1 DEF Publish, HubTypeOK
          <5> QED BY <5>1 DEF Awaits
        <4>2. CASE x = w
          <5> DEFINE left == [step |-> "send", to |-> task[w].to \ {u}]
          <5>1. UserOf[t] \in task[w].to BY <1>5, <4>2 DEF Publish, Awaits
          <5>2. task' = [task EXCEPT ![w] = left] BY <1>5, <2>3, <5>1 DEF Publish
          <5>3. left.to = task[w].to \ {u} OBVIOUS
          <5> HIDE DEF left
          <5>4. task'[w].to = task[w].to \ {u} BY <1>t, <5>2, <5>3 DEF HubTypeOK
          <5> QED BY <2>3, <4>2, <5>1, <5>4 DEF Awaits
        <4> QED BY <4>1, <4>2
      <3> QED BY <1>0, <2>0, <3>1, <3>2, <3>3 DEF Arriving, Coming
    <2> QED BY <2>2, <2>3
  <1>6. ASSUME NEW w \in Changes, Die(w) PROVE Fine
    <2>0. UNCHANGED <<version, page, stream, reconnected, frames, fetch, shown, early, swallowed>>
      BY <1>6 DEF Die
    <2>1. CASE Awaits(w, UserOf[t]) BY <1>6, <2>0, <2>1 DEF Die, Loaded
    <2>2. CASE ~ Awaits(w, UserOf[t])
      <3>1. \A x \in Changes : Awaits(x, UserOf[t]) => Awaits(x, UserOf[t])'
        BY <1>6, <1>t, <2>2 DEF Die, HubTypeOK, Awaits
      <3>2. dropped \subseteq dropped' BY <1>6 DEF Die
      <3> QED BY <1>0, <2>0, <3>1, <3>2 DEF Arriving, Coming
    <2> QED BY <2>1, <2>2
  (* A tab's own steps.                                                    *)
  <1>7. ASSUME NEW o \in Tabs, o # t, TabStep(o) PROVE Fine
    <2> USE DEF TabStep, Load, LearnSwitch, Connect, OnOpen, Hear, Break, Focus, ServeFetch, RefuseFetch,
                EndFetch, FailFetch, NoAnswer, Invalidates, MissesFirst, Refetches
    <2>1. UNCHANGED <<version, task>> BY <1>7
    <2>2. /\ page'[t] = page[t] /\ stream'[t] = stream[t] /\ frames'[t] = frames[t]
          /\ fetch'[t] = fetch[t] /\ shown'[t] = shown[t]
      BY <1>7, <1>t DEF HubTypeOK
    <2>3. /\ t \in reconnected => t \in reconnected'
          /\ t \in dropped \cup early \cup swallowed => t \in dropped' \cup early' \cup swallowed'
      BY <1>7
    <2> QED BY <1>0, <2>1, <2>2, <2>3 DEF Arriving, Coming, Awaits
  <1>8. ASSUME Load(t) \/ Focus(t) PROVE Fine
    <2>1. fetch'[t].step = "wanted" BY <1>8, <1>t DEF Load, Focus, Refetches, Wanted, HubTypeOK
    <2> QED BY <2>1 DEF Coming
  (* Whoever is signalled fetches again, or is fetching for the first time. *)
  <1>17. ASSUME Invalidates(t) PROVE Fine
    <2>1. CASE t \in filled \/ fetch[t] = NoFetch
      <3>1. fetch'[t].step = "wanted" BY <1>17, <1>t, <2>1 DEF Invalidates, Refetches, Wanted, HubTypeOK
      <3> QED BY <3>1 DEF Coming
    <2>2. CASE t \notin filled /\ fetch[t].step = "reading" BY <1>17, <2>2 DEF Invalidates, MissesFirst
    <2>3. CASE t \notin filled /\ fetch[t] # NoFetch /\ fetch[t].step = "wanted"
      BY <1>17, <2>3 DEF Invalidates, Coming
    <2>4. fetch[t].step = "idle" => fetch[t] = NoFetch BY <1>t DEF Shape
    <2> QED BY <1>t, <2>1, <2>2, <2>3, <2>4 DEF HubTypeOK
  <1>18. CASE Hear(t) BY <1>17, <1>18 DEF Hear
  <1>9. CASE LearnSwitch(t)
    <2>1. /\ UNCHANGED <<version, task, fetch, shown, dropped, swallowed>> /\ early \subseteq early'
          /\ stream[t] \in {"accepted", "down"} \/ frames[t] > 0 => t \in early'
          /\ page[t] # "closed"
      BY <1>9 DEF LearnSwitch
    <2> QED BY <1>0, <2>1 DEF Arriving, Coming, Awaits
  <1>10. CASE Connect(t)
    <2>1. CASE enabled
      <3>1. /\ UNCHANGED <<version, task, page, reconnected, frames, fetch, shown, dropped, early, swallowed>>
            /\ stream'[t] = "accepted"
        BY <1>10, <1>t, <2>1 DEF Connect, HubTypeOK
      <3> QED BY <1>0, <3>1 DEF Arriving, Coming, Awaits
    <2>2. CASE ~ enabled BY <1>10, <2>2 DEF Connect
    <2> QED BY <2>1, <2>2
  <1>11. CASE OnOpen(t)
    <2>1. CASE t \in reconnected BY <1>11, <1>17, <2>1 DEF OnOpen
    <2>2. CASE t \notin reconnected
      <3>1. UNCHANGED <<version, task, page, frames, fetch, shown, dropped, early, swallowed>>
        BY <1>11, <2>2 DEF OnOpen
      <3> QED BY <1>0, <2>2, <3>1 DEF Arriving, Coming, Awaits
    <2> QED BY <2>1, <2>2
  <1>12. CASE Break(t)
    <2>1. /\ UNCHANGED <<version, task, page, reconnected, fetch, shown, dropped, swallowed>>
          /\ stream'[t] = "down" /\ early \subseteq early'
          /\ t \notin reconnected /\ frames[t] > 0 => t \in early'
      BY <1>12, <1>t DEF Break, HubTypeOK
    <2> QED BY <1>0, <2>1 DEF Arriving, Coming, Awaits
  <1>13. CASE ServeFetch(t)
    <2>1. fetch'[t] = [step |-> "reading", got |-> version] /\ version' = version
      BY <1>13, <1>t DEF ServeFetch, HubTypeOK
    <2> QED BY <2>1 DEF Arriving
  <1>14. CASE EndFetch(t)
    <2>1. /\ UNCHANGED <<version, task, page, stream, reconnected, frames, dropped, early, swallowed>>
          /\ fetch[t].step = "reading" /\ fetch'[t] = NoFetch /\ shown'[t] = fetch[t].got
      BY <1>14, <1>t DEF EndFetch, HubTypeOK
    <2>2. Arriving(t)' = Arriving(t) BY <2>1 DEF Arriving, NoFetch
    <2> QED BY <1>0, <2>1, <2>2 DEF Coming, Awaits
  <1>15. CASE FailFetch(t) \/ RefuseFetch(t) BY <1>15 DEF FailFetch, RefuseFetch, NoAnswer
  <1> QED BY <1>1, <1>2, <1>3, <1>4, <1>5, <1>6, <1>7, <1>8, <1>9, <1>10, <1>11, <1>12, <1>13, <1>14,
             <1>15, <1>16, <1>18 DEF HubNext, Tasks, TabStep

LEMMA SyncInit == HubInit => SyncInv
  <1> SUFFICES ASSUME HubInit PROVE SyncInv OBVIOUS
  <1>1. HubTypeOK BY Records, WritesAssumption DEF HubInit, HubTypeOK, Task, Fetch
  <1>2. Shape BY DEF HubInit, Shape
  <1>3. NobodyIsForgotten BY DEF HubInit, NobodyIsForgotten, Loaded
  <1> QED BY <1>1, <1>2, <1>3 DEF SyncInv

LEMMA SyncStep ==
    ASSUME SyncInv, [HubNext]_hubVars
    PROVE  SyncInv'
  <1>1. HubTypeOK' BY TypeStep DEF SyncInv
  <1>2. CASE HubNext BY <1>1, <1>2, ShapeStep, NobodyStep DEF SyncInv
  <1>3. CASE UNCHANGED hubVars
    BY <1>1, <1>3 DEF SyncInv, Shape, NobodyIsForgotten, Loaded, Arriving, Coming, Awaits,
                      hubVars, server, tab, hubHistory
  <1> QED BY <1>2, <1>3

(* What tasks, streams and fetches hold.                                   *)
THEOREM HubTypeCorrect == HubSpec => []HubTypeOK
  <1>1. SyncInv /\ [HubNext]_hubVars => SyncInv' BY SyncStep
  <1>2. SyncInv => HubTypeOK BY DEF SyncInv
  <1> QED BY <1>1, <1>2, SyncInit, PTL DEF HubSpec

(* publish.ts, realtime.ts.  A tab with an open stream and nothing on its  *)
(* way to it shows the data as it is, but for what was lost, or came before *)
(* the stream first opened or during the page's first fetch: whoever else   *)
(* is behind has a signal, a reconnection or a fetch to come.               *)
THEOREM SettledAreCurrent == HubSpec => []SettledIsCurrent
  <1>1. SyncInv => SettledIsCurrent
    <2> SUFFICES ASSUME SyncInv, NEW t \in Tabs, Settled(t)
                 PROVE  shown[t] = version \/ t \in dropped \cup early \cup swallowed
      BY DEF SettledIsCurrent
    <2>1. fetch[t].step = "idle" BY DEF Settled, NoFetch
    <2>2. ~ Coming(t) BY <2>1 DEF Settled, Signalled, Coming
    <2>3. page[t] # "closed" BY DEF Settled, SyncInv, Shape
    <2> QED BY <2>1, <2>2, <2>3 DEF SyncInv, NobodyIsForgotten, Loaded, Arriving
  <1>2. SyncInv /\ [HubNext]_hubVars => SyncInv' BY SyncStep
  <1> QED BY <1>1, <1>2, SyncInit, PTL DEF HubSpec
==============================================================================
