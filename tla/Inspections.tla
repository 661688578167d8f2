----------------------------- MODULE Inspections -----------------------------
(***************************************************************************)
(* Quality inspections and their alerts (apps/qms/services.py): results    *)
(* are recorded item by item, an inspection is submitted, judged and       *)
(* closed, and a failed one raises an alert that is handled and closed.    *)
(*                                                                         *)
(* Nothing here locks a row before it is judged by: a view retrieves the   *)
(* inspection or the alert, and the call judges and saves what was         *)
(* retrieved while others go on.  So a call is two steps, the retrieval    *)
(* and the rest; the rest is one step because it updates its row first and *)
(* keeps it locked until it commits.  A header form saves every column of  *)
(* the row it retrieved, the actions only the columns they change.         *)
(*                                                                         *)
(* Abstracted: companies, samples, remarks, levels, numbers, permissions,  *)
(* and the knowledge base that issues of alerts are copied to.             *)
(***************************************************************************)
EXTENDS Integers, Sequences

CONSTANTS
  Inspector,       \* users that have calls on inspections
  Handler,         \* users that have calls on alerts
  Item,
  NoLimit,
  Quantitative,    \* the items that are judged by their limits
  Lower, Upper,    \* the limits of an item, or NoLimit
  Value,           \* what is measured; for the other items 1 says qualified
  MaxInspections, MaxAlerts   \* bounds on a behaviour

\* A quantitative item has a limit, and the lower one is not above the upper one.
ASSUME ItemsTyped ==
  /\ NoLimit \notin Int /\ Value \subseteq Int
  /\ Quantitative \subseteq Item
  /\ Lower \in [Item -> Int \union {NoLimit}] /\ Upper \in [Item -> Int \union {NoLimit}]
  /\ \A i \in Quantitative : {Lower[i], Upper[i]} # {NoLimit}
  /\ \A i \in Item : Lower[i] \in Int /\ Upper[i] \in Int => Lower[i] <= Upper[i]
ASSUME InspectionBounds == MaxInspections \in Nat /\ MaxAlerts \in Nat

InspectionStatus == {"draft", "submitted", "judged", "closed"}
Judgement == {"pending", "passed", "failed", "concession"}
Verdict == {"none", "qualified", "unqualified"}
Inspection == [status : InspectionStatus, judgement : Judgement]
\* inspection 0: the alert was raised by hand for no inspection.
Alert == [inspection : Nat, status : {"open", "handling", "closed"}]

\* What a view retrieved; id 0: the user has no call in progress.  recorded:
\* the results fetched along with the inspection were not empty.
InspectionCall == [id : Nat, row : Inspection, recorded : BOOLEAN]
AlertCall == [id : Nat, row : Alert]

VARIABLES
  inspections,   \* QualityInspectionOrder rows, in the order of their ids
  results,       \* their QualityInspectionResult rows: the verdict on each item
  alerts,        \* QualityAlert rows
  inspecting,    \* the call on an inspection each user has in progress
  alerting,      \* the call on an alert each user has in progress
  overlapped,    \* history: inspections that two calls had in hand at once
  moved          \* history: inspections an alert of which was pointed elsewhere

qualityVars ==
  <<inspections, results, alerts, inspecting, alerting, overlapped, moved>>

NewInspection == [status |-> "draft", judgement |-> "pending"]
NoResults == [i \in Item |-> "none"]
NoInspectionCall == [id |-> 0, row |-> NewInspection, recorded |-> FALSE]
NoAlertCall == [id |-> 0, row |-> [inspection |-> 0, status |-> "open"]]

InspectionsTyped ==
  /\ inspections \in Seq(Inspection) /\ Len(results) = Len(inspections)
  /\ results \in Seq([Item -> Verdict])
  /\ alerts \in Seq(Alert)
  /\ inspecting \in [Inspector -> InspectionCall]
  /\ alerting \in [Handler -> AlertCall]
  /\ overlapped \subseteq 1..Len(inspections) /\ moved \subseteq 1..Len(inspections)

InspectionsInit ==
  /\ inspections = <<>> /\ results = <<>> /\ alerts = <<>>
  /\ inspecting = [u \in Inspector |-> NoInspectionCall]
  /\ alerting = [u \in Handler |-> NoAlertCall]
  /\ overlapped = {} /\ moved = {}

-----------------------------------------------------------------------------
(* Results.                                                                *)

WithinLimits(i, v) ==
  /\ Lower[i] # NoLimit => v >= Lower[i]
  /\ Upper[i] # NoLimit => v <= Upper[i]

\* What the caller says counts only where nothing can be measured.
RowJudgement(i, v) ==
  IF i \in Quantitative
  THEN IF WithinLimits(i, v) THEN "qualified" ELSE "unqualified"
  ELSE IF v = 1 THEN "qualified" ELSE "unqualified"

Recorded(n) == {i \in Item : results[n][i] # "none"}
Failing(n) == {i \in Item : results[n][i] = "unqualified"}

-----------------------------------------------------------------------------
(* Calls on inspections.                                                   *)

\* create_order, and the views' own create.
AddInspection ==
  /\ Len(inspections) < MaxInspections
  /\ inspections' = Append(inspections, NewInspection)
  /\ results' = Append(results, NoResults)

CreateInspection ==
  /\ AddInspection
  /\ UNCHANGED <<alerts, inspecting, alerting, overlapped, moved>>

RetrieveInspection(u, n) ==
  /\ inspecting[u].id = 0
  /\ inspecting' = [inspecting EXCEPT
       ![u] = [id |-> n, row |-> inspections[n], recorded |-> Recorded(n) # {}]]
  /\ overlapped' = IF \E v \in Inspector \ {u} : inspecting[v].id = n
                   THEN overlapped \union {n} ELSE overlapped
  /\ UNCHANGED <<inspections, results, alerts, alerting, moved>>

Answered(u) == inspecting' = [inspecting EXCEPT ![u] = NoInspectionCall]

\* The call is refused, or the view only showed the inspection.
LeaveInspection(u) ==
  /\ inspecting[u].id # 0
  /\ Answered(u)
  /\ UNCHANGED <<inspections, results, alerts, alerting, overlapped, moved>>

\* Bug: results are taken whatever became of the inspection.
RecordAnytime(u) ==
  LET n == inspecting[u].id IN
  /\ n # 0
  /\ \E rows \in UNION {[I -> Value] : I \in (SUBSET Item) \ {{}}} :
       results' = [results EXCEPT ![n] =
         [i \in Item |-> IF i \in DOMAIN rows THEN RowJudgement(i, rows[i]) ELSE @[i]]]
  /\ Answered(u)
  /\ UNCHANGED <<inspections, alerts, alerting, overlapped, moved>>

RecordResults(u) ==
  LET n == inspecting[u].id IN
  /\ n # 0 /\ inspecting[u].row.status \in {"draft", "submitted"}
  /\ \E rows \in UNION {[I -> Value] : I \in (SUBSET Item) \ {{}}} :
       results' = [results EXCEPT ![n] =
         [i \in Item |-> IF i \in DOMAIN rows THEN RowJudgement(i, rows[i]) ELSE @[i]]]
  /\ Answered(u)
  /\ UNCHANGED <<inspections, alerts, alerting, overlapped, moved>>

SubmitInspection(u) ==
  LET n == inspecting[u].id IN
  /\ n # 0 /\ inspecting[u].row.status = "draft" /\ inspecting[u].recorded
  /\ inspections' = [inspections EXCEPT ![n].status = "submitted"]
  /\ Answered(u)
  /\ UNCHANGED <<results, alerts, alerting, overlapped, moved>>

\* Bug: no alert is raised while an alert of another inspection is open.
RaiseUnlessBusy(n) ==
  /\ Len(alerts) < MaxAlerts
  /\ alerts' = IF \E k \in 1..Len(alerts) : alerts[k].inspection = n \/ alerts[k].status = "open"
               THEN alerts ELSE Append(alerts, [inspection |-> n, status |-> "open"])

\* One alert is enough, in whatever state it is.
EnsureAlert(n) ==
  IF \E k \in 1..Len(alerts) : alerts[k].inspection = n
  THEN UNCHANGED alerts
  ELSE /\ Len(alerts) < MaxAlerts
       /\ alerts' = Append(alerts, [inspection |-> n, status |-> "open"])

\* A concession needs a remark, which a caller can always write.
JudgementsAllowed(n) ==
  IF Failing(n) # {} THEN {"failed", "concession"} ELSE {"passed", "concession"}

JudgeInspection(u) ==
  LET n == inspecting[u].id IN
  /\ n # 0 /\ inspecting[u].row.status = "submitted" /\ Recorded(n) # {}
  /\ \E judgement \in JudgementsAllowed(n) :
       /\ inspections' = [inspections EXCEPT ![n] = [status |-> "judged", judgement |-> judgement]]
       /\ IF judgement = "failed" THEN EnsureAlert(n) ELSE UNCHANGED alerts
  /\ Answered(u)
  /\ UNCHANGED <<results, alerting, overlapped, moved>>

CloseInspection(u) ==
  LET n == inspecting[u].id IN
  /\ n # 0 /\ inspecting[u].row.status = "judged"
  /\ \A k \in 1..Len(alerts) : alerts[k].inspection = n => alerts[k].status = "closed"
  /\ inspections' = [inspections EXCEPT ![n].status = "closed"]
  /\ Answered(u)
  /\ UNCHANGED <<results, alerts, alerting, overlapped, moved>>

\* The header form, in every status: all columns are saved as they were retrieved.
PatchInspection(u) ==
  LET n == inspecting[u].id IN
  /\ n # 0
  /\ inspections' = [inspections EXCEPT ![n] = inspecting[u].row]
  /\ Answered(u)
  /\ UNCHANGED <<results, alerts, alerting, overlapped, moved>>

-----------------------------------------------------------------------------
(* Calls on alerts.                                                        *)

\* By hand, for any inspection or none.
CreateAlert ==
  /\ Len(alerts) < MaxAlerts
  /\ \E n \in 0..Len(inspections) :
       alerts' = Append(alerts, [inspection |-> n, status |-> "open"])
  /\ UNCHANGED <<inspections, results, inspecting, alerting, overlapped, moved>>

RetrieveAlert(u, k) ==
  /\ alerting[u].id = 0
  /\ alerting' = [alerting EXCEPT ![u] = [id |-> k, row |-> alerts[k]]]
  /\ UNCHANGED <<inspections, results, alerts, inspecting, overlapped, moved>>

AlertAnswered(u) == alerting' = [alerting EXCEPT ![u] = NoAlertCall]

LeaveAlert(u) ==
  /\ alerting[u].id # 0
  /\ AlertAnswered(u)
  /\ UNCHANGED <<inspections, results, alerts, inspecting, overlapped, moved>>

HandleAlert(u) ==
  /\ alerting[u].id # 0 /\ alerting[u].row.status = "open"
  /\ alerts' = [alerts EXCEPT ![alerting[u].id].status = "handling"]
  /\ AlertAnswered(u)
  /\ UNCHANGED <<inspections, results, inspecting, overlapped, moved>>

CloseAlert(u) ==
  /\ alerting[u].id # 0 /\ alerting[u].row.status # "closed"
  /\ alerts' = [alerts EXCEPT ![alerting[u].id].status = "closed"]
  /\ AlertAnswered(u)
  /\ UNCHANGED <<inspections, results, inspecting, overlapped, moved>>

\* The form can point the alert to another inspection, or to none.
PatchAlert(u) ==
  LET k == alerting[u].id IN
  /\ k # 0
  /\ \E n \in 0..Len(inspections) :
       /\ alerts' = [alerts EXCEPT ![k] = [inspection |-> n, status |-> alerting[u].row.status]]
       /\ moved' = IF alerts[k].inspection \notin {0, n}
                   THEN moved \union {alerts[k].inspection} ELSE moved
  /\ AlertAnswered(u)
  /\ UNCHANGED <<inspections, results, inspecting, overlapped>>

-----------------------------------------------------------------------------
InspectionCalls(u) ==
  \/ \E n \in 1..Len(inspections) : RetrieveInspection(u, n)
  \/ LeaveInspection(u) \/ RecordResults(u) \/ SubmitInspection(u)
  \/ JudgeInspection(u) \/ CloseInspection(u) \/ PatchInspection(u)

AlertCalls(u) ==
  \/ \E k \in 1..Len(alerts) : RetrieveAlert(u, k)
  \/ LeaveAlert(u) \/ HandleAlert(u) \/ CloseAlert(u) \/ PatchAlert(u)

InspectionsNext ==
  \/ CreateInspection
  \/ \E u \in Inspector : InspectionCalls(u)
  \/ \E u \in Handler : CreateAlert \/ AlertCalls(u)

InspectionsSpec == InspectionsInit /\ [][InspectionsNext]_qualityVars

-----------------------------------------------------------------------------
(* Properties.                                                             *)

\* The judgement agrees with the results as they are now, for every inspection
\* on which no two calls overlapped: a judged inspection has results, one that
\* passed has none that fails, one that failed has some, and only judged ones
\* have a judgement.  The guards of record_results, submit_order and judge_order
\* together give this; two calls at once break it.
JudgedByItsResults ==
  \A n \in 1..Len(inspections) \ overlapped :
    LET i == inspections[n] IN
    /\ i.judgement = "pending" <=> i.status \in {"draft", "submitted"}
    /\ i.status # "draft" => Recorded(n) # {}
    /\ i.judgement = "passed" => Failing(n) = {}
    /\ i.judgement = "failed" => Failing(n) # {}

\* A failed inspection has an alert, however calls overlap, unless somebody
\* pointed it elsewhere: _ensure_alert looks for one under the row lock that
\* saving the judgement took.
FailuresAreAlerted ==
  \A n \in 1..Len(inspections) \ moved :
    inspections[n].judgement = "failed" =>
      \E k \in 1..Len(alerts) : alerts[k].inspection = n
=============================================================================
