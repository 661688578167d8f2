-------------------------------- MODULE Cases --------------------------------
(***************************************************************************)
(* Documents that people take from stage to stage: complaints and reviews  *)
(* (apps/crm), tasks of transport devices (apps/logistics), hazards,       *)
(* accidents, work permits and environmental checks (apps/ehs), alarms     *)
(* (apps/ems), and the tasks of equipment (apps/equipment).                *)
(*                                                                         *)
(* All are handled one way: a request reads the row, its handler judges    *)
(* the status it read and writes the new one, and no row is locked.  So    *)
(* reading is a step, and handling a later one on what was read.  A form   *)
(* writes the whole row back.                                              *)
(*                                                                         *)
(* A behaviour is about the cases of one kind, created before it starts.   *)
(* Abstracted: the texts and persons a handler records or requires, and    *)
(* forms that change what a case is about (its device, its permit type).   *)
(***************************************************************************)
EXTENDS FiniteSets

CONSTANTS
  Person,
  Kind,        \* the kinds of cases of the behaviours
  Case, OneCase,
  Device, NoDevice

Kinds == {"complaint", "review", "transport", "hazard", "accident", "permit", "check",
          "alarm", "equipment", "abnormal"}

ASSUME CaseInputs == Kind \subseteq Kinds /\ OneCase \in Case /\ NoDevice \notin Device

VARIABLES
  kind,        \* of the cases
  rows,        \* each case's row
  passed,      \* the stages each case was brought to, as logs and records keep them
  devices,     \* status of each transport device
  table        \* what each user's request has read

caseVars == <<kind, rows, passed, devices, table>>

Start == [k \in Kinds |->
  IF k \in {"hazard", "accident", "abnormal"} THEN "reported"
  ELSE IF k = "permit" THEN "applied" ELSE "pending"]
Stage == {Start[k] : k \in Kinds} \union
  {"handling", "resolved", "replied", "closed", "dispatched", "executing", "finished",
   "cancelled", "rectifying", "verifying", "investigating", "rectified", "approved",
   "rejected", "working", "accepted", "in_progress", "completed", "assigned"}
DeviceStatus == {"idle", "running", "fault"}

\* guarded: a permit of a kind of work that must be watched; guardian: somebody does.
Row == [status : Stage, device : Device \union {NoDevice},
        guarded : BOOLEAN, guardian : BOOLEAN]
NothingRead == [case |-> OneCase, read |-> FALSE]
Reading == [case : Case, read : {TRUE}, row : Row] \union {NothingRead}

CaseTypeOK ==
  /\ kind \in Kinds
  /\ rows \in [Case -> Row]
  /\ passed \in [Case -> SUBSET (Stage \union {"guardian"})]
  /\ devices \in [Device -> DeviceStatus]
  /\ table \in [Person -> Reading]

\* Only transport tasks compete, for a device: of the other kinds there is one case.
CaseInit ==
  /\ kind \in Kind
  /\ \E guarded \in BOOLEAN :
       /\ guarded => kind = "permit"
       /\ rows = [c \in Case |-> [status |-> Start[kind], device |-> NoDevice,
                                  guarded |-> guarded, guardian |-> FALSE]]
  /\ passed = [c \in Case |-> {Start[kind]}]
  /\ devices = [d \in Device |-> "idle"]
  /\ table = [u \in Person |-> NothingRead]

-----------------------------------------------------------------------------
ReadCase(u, c) ==
  /\ ~ table[u].read
  /\ kind = "transport" \/ c = OneCase
  /\ table' = [table EXCEPT ![u] = [case |-> c, read |-> TRUE, row |-> rows[c]]]
  /\ UNCHANGED <<kind, rows, passed, devices>>

Forget(u) == table' = [table EXCEPT ![u] = NothingRead]

\* The status a case had when the request read it.
Seen(u) == table[u].row.status
Handles(u, k, stages) == kind = k /\ table[u].read /\ Seen(u) \in stages

Bring(u, status) ==
  /\ rows' = [rows EXCEPT ![table[u].case].status = status]
  /\ passed' = [passed EXCEPT ![table[u].case] = @ \union {status}]
  /\ Forget(u)
  /\ UNCHANGED kind

Moves(u, k, stages, status) == Handles(u, k, stages) /\ Bring(u, status) /\ UNCHANGED devices

\* Bug: the form of a case lets its status be set.
SaveCaseWithStatus(u) ==
  /\ table[u].read
  /\ \E status \in {"closed", "finished", "working"} :
       rows' = [rows EXCEPT ![table[u].case] = [table[u].row EXCEPT !.status = status]]
  /\ Forget(u)
  /\ UNCHANGED <<kind, passed, devices>>

SaveCase(u) ==
  /\ table[u].read
  /\ rows' = [rows EXCEPT ![table[u].case] = table[u].row]
  /\ Forget(u)
  /\ UNCHANGED <<kind, passed, devices>>

-----------------------------------------------------------------------------
(* Customers.                                                              *)
AcceptComplaint(u) == Moves(u, "complaint", {"pending"}, "handling")
ResolveComplaint(u) == Moves(u, "complaint", {"handling"}, "resolved")
CloseComplaint(u) == Moves(u, "complaint", {"resolved"}, "closed")
ReplyProductReview(u) == Moves(u, "review", {"pending"}, "replied")
CloseProductReview(u) == Moves(u, "review", {"replied"}, "closed")

(* Safety and environment.                                                 *)
StartHazardRectify(u) == Moves(u, "hazard", {"reported", "verifying"}, "rectifying")
SubmitHazardVerify(u) == Moves(u, "hazard", {"rectifying"}, "verifying")
VerifyHazard(u, ok) == Moves(u, "hazard", {"verifying"}, IF ok THEN "closed" ELSE "rectifying")
StartAccidentInvestigation(u) == Moves(u, "accident", {"reported"}, "investigating")
RectifyAccident(u) == Moves(u, "accident", {"investigating"}, "rectified")
CloseAccident(u) == Moves(u, "accident", {"rectified"}, "closed")
CloseComplianceCheck(u) == Moves(u, "check", Stage \ {"closed"}, "closed")

\* The guardian is named by the approval itself, whatever the form said.
ApprovePermit(u, guardian) ==
  LET c == table[u].case
  IN  /\ Handles(u, "permit", {"applied"})
      /\ table[u].row.guarded => guardian
      /\ rows' = [rows EXCEPT ![c].status = "approved",
                              ![c].guardian = guardian \/ table[u].row.guardian]
      /\ passed' = [passed EXCEPT ![c] = @ \union {"approved"}
                                           \union {g \in {"guardian"} : guardian}]
      /\ Forget(u)
      /\ UNCHANGED <<kind, devices>>

RejectPermit(u) == Moves(u, "permit", {"applied"}, "rejected")
StartPermitWork(u) == Moves(u, "permit", {"approved"}, "working")
FinishPermitWork(u) == Moves(u, "permit", {"working"}, "finished")
AcceptPermit(u) == Moves(u, "permit", {"finished"}, "accepted")

(* Energy.                                                                 *)
HandleAlarm(u) == Moves(u, "alarm", {"pending"}, "handling")
CloseAlarm(u) == Moves(u, "alarm", {"pending", "handling"}, "closed")

(* Equipment: a task that was completed may be completed again.            *)
StartEquipmentTask(u) == Moves(u, "equipment", {"pending"}, "in_progress")
CancelEquipmentTask(u) == Moves(u, "equipment", {"pending", "in_progress"}, "cancelled")
CompleteMaintenanceTask(u) == Moves(u, "equipment", Stage \ {"cancelled"}, "completed")
AssignAbnormalTask(u) == Moves(u, "abnormal", Stage \ {"closed", "cancelled"}, "assigned")
StartAbnormalHandling(u) == Moves(u, "abnormal", Stage \ {"closed", "cancelled"}, "handling")
CloseAbnormalTask(u) == Moves(u, "abnormal", Stage \ {"closed", "cancelled"}, "closed")

-----------------------------------------------------------------------------
(* Transport.                                                              *)

\* Whether the device is busy is asked of the table, without a lock; the device that the
\* request names is fetched with it.
Busy(d, c) == \E e \in Case \ {c} : rows[e].device = d /\ rows[e].status = "executing"

DispatchTask(u, d) ==
  LET c == table[u].case
  IN  /\ Handles(u, "transport", {"pending"})
      /\ d # NoDevice => devices[d] # "fault" /\ ~ Busy(d, c)
      /\ rows' = [rows EXCEPT ![c].status = "dispatched", ![c].device = d]
      /\ passed' = [passed EXCEPT ![c] = @ \union {"dispatched"}]
      /\ Forget(u)
      /\ UNCHANGED <<kind, devices>>

\* The task that was read names the device to set.
SetDevice(u, status) ==
  devices' = [d \in Device |-> IF d = table[u].row.device THEN status ELSE devices[d]]

StartTask(u) ==
  Handles(u, "transport", {"dispatched"}) /\ Bring(u, "executing") /\ SetDevice(u, "running")
FinishTask(u) ==
  Handles(u, "transport", {"executing"}) /\ Bring(u, "finished") /\ SetDevice(u, "idle")
CancelTask(u) ==
  /\ Handles(u, "transport", {"pending", "dispatched", "executing"}) /\ Bring(u, "cancelled")
  /\ IF Seen(u) = "executing" THEN SetDevice(u, "idle") ELSE UNCHANGED devices
SetDeviceStatus(d, status) ==
  /\ kind = "transport"
  /\ devices' = [devices EXCEPT ![d] = status]
  /\ UNCHANGED <<kind, rows, passed, table>>

-----------------------------------------------------------------------------
ComplaintNext(u) == AcceptComplaint(u) \/ ResolveComplaint(u) \/ CloseComplaint(u)
ReviewNext(u) == ReplyProductReview(u) \/ CloseProductReview(u)
HazardNext(u) ==
  StartHazardRectify(u) \/ SubmitHazardVerify(u) \/ \E ok \in BOOLEAN : VerifyHazard(u, ok)
AccidentNext(u) == StartAccidentInvestigation(u) \/ RectifyAccident(u) \/ CloseAccident(u)
PermitNext(u) ==
  \/ \E guardian \in BOOLEAN : ApprovePermit(u, guardian)
  \/ RejectPermit(u) \/ StartPermitWork(u) \/ FinishPermitWork(u) \/ AcceptPermit(u)
TaskNext(u) == StartEquipmentTask(u) \/ CancelEquipmentTask(u) \/ CompleteMaintenanceTask(u)
AbnormalNext(u) == AssignAbnormalTask(u) \/ StartAbnormalHandling(u) \/ CloseAbnormalTask(u)
TransportNext(u) ==
  \/ \E d \in Device \union {NoDevice} : DispatchTask(u, d)
  \/ StartTask(u) \/ FinishTask(u) \/ CancelTask(u)

CaseNext ==
  \/ \E u \in Person :
       \/ \E c \in Case : ReadCase(u, c)
       \/ SaveCase(u)
       \/ ComplaintNext(u) \/ ReviewNext(u)
       \/ HazardNext(u) \/ AccidentNext(u) \/ PermitNext(u) \/ CloseComplianceCheck(u)
       \/ HandleAlarm(u) \/ CloseAlarm(u)
       \/ TaskNext(u) \/ AbnormalNext(u) \/ TransportNext(u)
  \/ \E d \in Device, status \in DeviceStatus : SetDeviceStatus(d, status)

CaseSpec == CaseInit /\ [][CaseNext]_caseVars

-----------------------------------------------------------------------------
(* Properties.                                                             *)

\* What must have come before a stage.
Earlier(k, status) ==
  CASE k = "complaint" /\ status = "closed" -> {"handling", "resolved"}
    [] k = "complaint" /\ status = "resolved" -> {"handling"}
    [] k = "review" /\ status = "closed" -> {"replied"}
    [] k = "hazard" /\ status \in {"verifying", "closed"} -> {"rectifying"}
    [] k = "accident" /\ status \in {"rectified", "closed"} -> {"investigating"}
    [] k = "permit" /\ status \in {"working", "finished", "accepted"} -> {"approved"}
    [] k = "transport" /\ status \in {"executing", "finished"} -> {"dispatched"}
    [] OTHER -> {}

\* However requests overtake each other, no case stands at a stage whose earlier stages
\* it has not passed: no hazard is closed that nobody worked on, no work is done on a
\* permit that was not approved or, where it must be watched, has named no guardian.
StagesWerePassed ==
  \A c \in Case :
    /\ Earlier(kind, rows[c].status) \subseteq passed[c]
    /\ rows[c].guarded /\ rows[c].status \in {"working", "finished", "accepted"}
         => "guardian" \in passed[c]
=============================================================================
