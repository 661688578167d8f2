------------------------------ MODULE Equipment ------------------------------
(***************************************************************************)
(* Upkeep of equipment (apps/equipment/services.py): a maintenance plan    *)
(* whose due dates become tasks, and fault reports whose repairs bring     *)
(* them along.  How a task itself is handled is module Cases.              *)
(*                                                                         *)
(* No row is locked: a request reads the plan, the report, or a repair     *)
(* task with its report, and writes on what it read.                       *)
(*                                                                         *)
(* Abstracted: dates count in cycles of the plan, whose first is 0; forms  *)
(* that change a plan's dates or cycle, a task's date or its report.       *)
(***************************************************************************)
EXTENDS Naturals, Sequences, FiniteSets

CONSTANTS
  Technician,
  MAX_TASKS_PER_GENERATION,
  MaxDate, MaxReports, MaxRepairs   \* bound a behaviour

ASSUME EquipmentInputs ==
  /\ MAX_TASKS_PER_GENERATION \in Nat \ {0}
  /\ {MaxDate, MaxReports, MaxRepairs} \subseteq Nat

VARIABLES
  nextDate,    \* MaintenancePlan.next_date
  planned,     \* the dates that have a MaintenanceTask of the plan
  reports,     \* status of each FaultReport
  repairs,     \* RepairTask rows
  sheet        \* what each user's request has read

equipmentVars == <<nextDate, planned, reports, repairs, sheet>>

Date == 0..MaxDate
ReportStatus == {"reported", "assigned", "repairing", "closed"}
RepairTask == [report : Nat, status : {"pending", "in_progress", "completed", "cancelled"}]
Blank == [of |-> "nothing"]
Sheet ==
  {Blank} \union [of : {"plan"}, nextDate : Nat]
    \union [of : {"report"}, id : Nat, status : ReportStatus]
    \union [of : {"repair"}, id : Nat, task : RepairTask, status : ReportStatus]

EquipmentTypeOK ==
  /\ nextDate \in 0..(MaxDate + 1) /\ planned \subseteq Date
  /\ reports \in Seq(ReportStatus) /\ repairs \in Seq(RepairTask)
  /\ sheet \in [Technician -> Sheet]

EquipmentInit ==
  /\ nextDate = 0 /\ planned = {}
  /\ reports = <<>> /\ repairs = <<>>
  /\ sheet = [u \in Technician |-> Blank]

Reads(u, what) == sheet[u] = Blank /\ sheet' = [sheet EXCEPT ![u] = what]
Ends(u, what) == sheet[u].of = what /\ sheet' = [sheet EXCEPT ![u] = Blank]

-----------------------------------------------------------------------------
(* The plan.                                                               *)

ReadPlan(u) ==
  /\ Reads(u, [of |-> "plan", nextDate |-> nextDate])
  /\ UNCHANGED <<nextDate, planned, reports, repairs>>

SavePlan(u) ==
  /\ Ends(u, "plan")
  /\ nextDate' = sheet[u].nextDate
  /\ UNCHANGED <<planned, reports, repairs>>

\* A task of the plan may also be entered by hand.
CreateMaintenanceTask(date) ==
  /\ planned' = planned \union {date}
  /\ UNCHANGED <<nextDate, reports, repairs, sheet>>

Missing(from, to) == {d \in from..to : d \notin planned}

\* A call makes the tasks that are missing up to the limit, the first ones of too many.
Made(from, limit) ==
  {d \in Missing(from, limit) : Cardinality(Missing(from, d)) <= MAX_TASKS_PER_GENERATION}

\* Bug: the date moves to the limit even if there were too many dates before it.
ReachedRegardless(from, limit) == IF limit < from THEN from ELSE limit + 1

\* The date it gets to: past the last of too many, or past the limit.
Reached(from, limit) ==
  IF limit < from THEN from
  ELSE IF Cardinality(Made(from, limit)) < MAX_TASKS_PER_GENERATION THEN limit + 1
  ELSE 1 + CHOOSE d \in Made(from, limit) : \A e \in Made(from, limit) : e <= d

GenerateMaintenanceTasks(u, limit) ==
  LET from == sheet[u].nextDate
  IN  /\ Ends(u, "plan")
      /\ planned' = planned \union Made(from, limit)
      /\ nextDate' = IF Reached(from, limit) = from THEN nextDate ELSE Reached(from, limit)
      /\ UNCHANGED <<reports, repairs>>

-----------------------------------------------------------------------------
(* Faults.                                                                 *)

\* By hand, or from an inspection that found something: as often as asked.
RaiseFaultReport ==
  /\ Len(reports) < MaxReports
  /\ reports' = Append(reports, "reported")
  /\ UNCHANGED <<nextDate, planned, repairs, sheet>>

ReadReport(u, r) ==
  /\ Reads(u, [of |-> "report", id |-> r, status |-> reports[r]])
  /\ UNCHANGED <<nextDate, planned, reports, repairs>>

WriteReport(r, status) == reports' = [reports EXCEPT ![r] = status]

SaveReport(u) ==
  /\ Ends(u, "report")
  /\ WriteReport(sheet[u].id, sheet[u].status)
  /\ UNCHANGED <<nextDate, planned, repairs>>

CloseFaultReport(u) ==
  /\ Ends(u, "report") /\ sheet[u].status # "closed"
  /\ WriteReport(sheet[u].id, "closed")
  /\ UNCHANGED <<nextDate, planned, repairs>>

Task(r) == [report |-> r, status |-> "pending"]

\* A report that has a task already gets another one.
CreateRepairTaskFromReport(u) ==
  /\ Ends(u, "report") /\ sheet[u].status # "closed"
  /\ Len(repairs) < MaxRepairs
  /\ repairs' = Append(repairs, Task(sheet[u].id))
  /\ IF sheet[u].status # "assigned" THEN WriteReport(sheet[u].id, "assigned") ELSE UNCHANGED reports
  /\ UNCHANGED <<nextDate, planned>>

\* The form of a task names its report and leaves the report alone.
CreateRepairTask(r) ==
  /\ Len(repairs) < MaxRepairs
  /\ repairs' = Append(repairs, Task(r))
  /\ UNCHANGED <<nextDate, planned, reports, sheet>>

ReadRepair(u, t) ==
  /\ Reads(u, [of |-> "repair", id |-> t, task |-> repairs[t],
               status |-> reports[repairs[t].report]])
  /\ UNCHANGED <<nextDate, planned, reports, repairs>>

WriteRepair(u, status) ==
  /\ Ends(u, "repair")
  /\ repairs' = [repairs EXCEPT ![sheet[u].id].status = status]
  /\ UNCHANGED <<nextDate, planned>>

SaveRepair(u) == WriteRepair(u, sheet[u].task.status) /\ UNCHANGED reports

\* Starting what was started changes nothing but its report.
StartRepair(u) ==
  /\ sheet[u].of = "repair" /\ sheet[u].task.status \in {"pending", "in_progress"}
  /\ IF sheet[u].task.status = "pending" THEN WriteRepair(u, "in_progress")
     ELSE Ends(u, "repair") /\ UNCHANGED <<nextDate, planned, repairs>>
  /\ IF sheet[u].status \in {"closed", "repairing"} THEN UNCHANGED reports
     ELSE WriteReport(sheet[u].task.report, "repairing")

CompleteRepair(u) ==
  /\ sheet[u].of = "repair" /\ sheet[u].task.status # "cancelled"
  /\ WriteRepair(u, "completed")
  /\ IF sheet[u].status = "closed" THEN UNCHANGED reports
     ELSE WriteReport(sheet[u].task.report, "closed")

CancelRepair(u) ==
  /\ sheet[u].of = "repair" /\ sheet[u].task.status \in {"pending", "in_progress"}
  /\ WriteRepair(u, "cancelled")
  /\ UNCHANGED reports

-----------------------------------------------------------------------------
PlanNext ==
  \/ \E date \in Date : CreateMaintenanceTask(date)
  \/ \E u \in Technician : ReadPlan(u) \/ SavePlan(u) \/ \E limit \in Date : GenerateMaintenanceTasks(u, limit)

FaultNext ==
  \/ RaiseFaultReport
  \/ \E r \in 1..Len(reports) : CreateRepairTask(r)
  \/ \E u \in Technician :
       \/ \E r \in 1..Len(reports) : ReadReport(u, r)
       \/ \E t \in 1..Len(repairs) : ReadRepair(u, t)
       \/ SaveReport(u) \/ CloseFaultReport(u) \/ CreateRepairTaskFromReport(u)
       \/ SaveRepair(u) \/ StartRepair(u) \/ CompleteRepair(u) \/ CancelRepair(u)

EquipmentNext == PlanNext \/ FaultNext
EquipmentSpec == EquipmentInit /\ [][EquipmentNext]_equipmentVars

-----------------------------------------------------------------------------
(* Properties.                                                             *)

\* A plan never moves past a date without a task for it, however many dates are due at
\* once, however many calls made tasks before, and from whichever date a call started;
\* and a fault report that is assigned or under repair has a repair task, however the
\* requests that write its status overtake each other.
WorkIsPlanned ==
  /\ \A date \in Date : date < nextDate => date \in planned
  /\ \A r \in 1..Len(reports) : reports[r] \in {"assigned", "repairing"} =>
       \E t \in 1..Len(repairs) : repairs[t].report = r
=============================================================================
