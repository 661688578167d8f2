--------------------------- MODULE ServicesProofs ---------------------------
(***************************************************************************)
(* Proofs about Cases, Equipment, Procurement, and Energy with Ingestion,  *)
(* for any number of people at work, of cases, devices, reports, tasks,    *)
(* orders, receipts, meters and gateways, and any limit of a call.         *)
(***************************************************************************)
EXTENDS Cases, Equipment, Procurement, Ingestion, SumLemmas, SequenceTheorems,
        FiniteSetTheorems, TLAPS

(***************************************************************************)
(* Cases.                                                                  *)
(***************************************************************************)

\* A row of a case, the table's or one that was read, stands where the case has been.
Stands(row, c) ==
  /\ row.status \in passed[c]
  /\ Earlier(kind, row.status) \subseteq passed[c]
  /\ row.guarded /\ row.status \in {"approved", "working", "finished", "accepted"}
       => "guardian" \in passed[c]
  /\ row.guarded => kind = "permit"

CaseInv ==
  /\ CaseTypeOK
  /\ \A c \in Case : Stands(rows[c], c)
  /\ \A u \in Person :
       table[u].read => /\ Stands(table[u].row, table[u].case)
                        /\ table[u].row.guarded = rows[table[u].case].guarded

LEMMA StageNames ==
  Stage = {"reported", "applied", "pending", "handling", "resolved", "replied", "closed",
           "dispatched", "executing", "finished", "cancelled", "rectifying", "verifying",
           "investigating", "rectified", "approved", "rejected", "working", "accepted",
           "in_progress", "completed", "assigned"}
<1>1. /\ Start["hazard"] = "reported" /\ Start["permit"] = "applied" /\ Start["alarm"] = "pending"
      /\ \A k \in Kinds : Start[k] \in {"reported", "applied", "pending"}
  BY DEF Start, Kinds
<1>2. "hazard" \in Kinds /\ "permit" \in Kinds /\ "alarm" \in Kinds
  BY DEF Kinds
<1>3. {Start[k] : k \in Kinds} = {"reported", "applied", "pending"}
  BY <1>1, <1>2
<1> QED BY <1>3 DEF Stage

LEMMA NothingIsEarlier ==
  ASSUME NEW k PROVE Earlier(k, "pending") = {} /\ Earlier(k, "reported") = {} /\ Earlier(k, "applied") = {}
  BY DEF Earlier

LEMMA CaseInitHolds == ASSUME CaseInit PROVE CaseInv
<1>1. kind \in Kinds /\ Start[kind] \in {"reported", "applied", "pending"} /\ Start[kind] \in Stage
  BY CaseInputs DEF CaseInit, Kinds, Start, Stage
<1>2. PICK guarded \in BOOLEAN :
        /\ guarded => kind = "permit"
        /\ rows = [c \in Case |-> [status |-> Start[kind], device |-> NoDevice,
                                   guarded |-> guarded, guardian |-> FALSE]]
  BY DEF CaseInit
<1>3. \A c \in Case : /\ rows[c] \in Row /\ rows[c].status = Start[kind]
                      /\ rows[c].guarded => kind = "permit"
  BY <1>1, <1>2 DEF Row
<1>4. /\ passed = [c \in Case |-> {Start[kind]}] /\ devices = [d \in Device |-> "idle"]
      /\ table = [u \in Person |-> NothingRead]
  BY DEF CaseInit
<1>5. \A u \in Person : table[u] = NothingRead /\ ~ table[u].read
  BY <1>4 DEF NothingRead
<1>6. CaseTypeOK
  BY <1>1, <1>2, <1>3, <1>4 DEF CaseTypeOK, Reading, DeviceStatus
<1>7. ASSUME NEW c \in Case PROVE Stands(rows[c], c)
  <2>1. Earlier(kind, rows[c].status) = {}
    BY <1>1, <1>3, NothingIsEarlier
  <2> QED BY <2>1, <1>1, <1>3, <1>4 DEF Stands
<1> QED BY <1>5, <1>6, <1>7 DEF CaseInv

LEMMA CaseRead ==
  ASSUME CaseInv, NEW u \in Person, table[u].read
  PROVE  /\ table[u].case \in Case /\ table[u].row \in Row
         /\ Stands(table[u].row, table[u].case)
         /\ table[u].row.guarded = rows[table[u].case].guarded
         /\ rows[table[u].case] \in Row
<1>1. table[u] \in Reading /\ table[u] # NothingRead
  BY DEF CaseInv, CaseTypeOK, NothingRead
<1> QED BY <1>1 DEF CaseInv, CaseTypeOK, Reading

-----------------------------------------------------------------------------
\* A request that ends gives one case a row that stands where the case has been.
RowPut(c) ==
  /\ kind' = kind /\ rows' \in [Case -> Row] /\ devices' \in [Device -> DeviceStatus]
  /\ passed' \in [Case -> SUBSET (Stage \union {"guardian"})]
  /\ \A d \in Case : d # c => rows'[d] = rows[d]
  /\ rows'[c].guarded = rows[c].guarded
  /\ \A d \in Case : passed[d] \subseteq passed'[d]

LEMMA CaseEnds ==
  ASSUME CaseInv, NEW u \in Person, NEW c \in Case, RowPut(c), Forget(u),
         rows'[c].status \in passed'[c], Earlier(kind, rows'[c].status) \subseteq passed'[c],
         rows[c].guarded /\ rows'[c].status \in {"approved", "working", "finished", "accepted"}
           => "guardian" \in passed'[c]
  PROVE  CaseInv'
<1>1. /\ table \in [Person -> Reading] /\ NothingRead \in Reading /\ ~ NothingRead.read
      /\ \A d \in Case : Stands(rows[d], d)
  BY DEF CaseInv, CaseTypeOK, Reading, NothingRead
<1>2. /\ table' \in [Person -> Reading]
      /\ \A v \in Person : table'[v] = IF v = u THEN NothingRead ELSE table[v]
  BY <1>1 DEF Forget
<1>3. CaseTypeOK'
  BY <1>2 DEF CaseInv, CaseTypeOK, RowPut
<1>4. ASSUME NEW d \in Case PROVE Stands(rows[d], d)'
  <2>1. CASE d = c
    BY <1>1, <2>1 DEF Stands, RowPut
  <2>2. CASE d # c
    BY <1>1, <2>2 DEF Stands, RowPut
  <2> QED BY <2>1, <2>2
<1>5. ASSUME NEW v \in Person, table'[v].read
      PROVE  /\ Stands(table[v].row, table[v].case)'
             /\ table'[v].row.guarded = rows'[table'[v].case].guarded
  <2>1. table'[v] = table[v] /\ table[v].read
    BY <1>1, <1>2, <1>5
  <2>2. /\ table[v].case \in Case /\ Stands(table[v].row, table[v].case)
        /\ table[v].row.guarded = rows[table[v].case].guarded
    BY <2>1, CaseRead
  <2>3. Stands(table[v].row, table[v].case)'
    BY <2>1, <2>2 DEF Stands, RowPut
  <2>4. rows'[table[v].case].guarded = rows[table[v].case].guarded
    BY <2>2 DEF RowPut
  <2> QED BY <2>1, <2>2, <2>3, <2>4
<1> QED BY <1>3, <1>4, <1>5 DEF CaseInv

\* A case that is brought on from a stage: the stage has been passed, and what came
\* before it.
LEMMA BringKeeps ==
  ASSUME CaseInv, NEW u \in Person, table[u].read, NEW status \in Stage, Bring(u, status),
         devices' \in [Device -> DeviceStatus],
         Earlier(kind, status) \subseteq Earlier(kind, Seen(u)) \union {Seen(u)},
         kind = "permit" /\ status \in {"working", "finished", "accepted"}
           => Seen(u) \in {"approved", "working", "finished"},
         status # "approved"
  PROVE  CaseInv'
<1> SUFFICES ASSUME NEW c, c = table[u].case PROVE CaseInv'
  OBVIOUS
<1>1. /\ c \in Case /\ table[u].row \in Row /\ rows[c] \in Row
      /\ Stands(table[u].row, c) /\ table[u].row.guarded = rows[c].guarded
  BY CaseRead
<1>2. rows \in [Case -> Row] /\ passed \in [Case -> SUBSET (Stage \union {"guardian"})]
  BY DEF CaseInv, CaseTypeOK
<1>3. /\ kind' = kind /\ Forget(u)
      /\ rows' = [rows EXCEPT ![c].status = status]
      /\ passed' = [passed EXCEPT ![c] = @ \union {status}]
  BY DEF Bring
<1>4. [rows[c] EXCEPT !.status = status] \in Row
  BY <1>1 DEF Row
<1>5. /\ rows' \in [Case -> Row]
      /\ \A d \in Case : d # c => rows'[d] = rows[d]
      /\ rows'[c].guarded = rows[c].guarded /\ rows'[c].status = status
  BY <1>1, <1>2, <1>3, <1>4 DEF Row
<1>6. /\ passed' \in [Case -> SUBSET (Stage \union {"guardian"})]
      /\ \A d \in Case : passed[d] \subseteq passed'[d]
      /\ status \in passed'[c]
  BY <1>1, <1>2, <1>3
<1>7. RowPut(c)
  BY <1>3, <1>5, <1>6 DEF RowPut
<1>8. Earlier(kind, Seen(u)) \union {Seen(u)} \subseteq passed[c]
  BY <1>1 DEF Stands, Seen
<1>9. Earlier(kind, status) \subseteq passed'[c]
  BY <1>1, <1>6, <1>8
<1>10. rows[c].guarded /\ status \in {"approved", "working", "finished", "accepted"}
         => "guardian" \in passed'[c]
  BY <1>1, <1>6 DEF Stands, Seen
<1> QED BY <1>1, <1>3, <1>5, <1>6, <1>7, <1>9, <1>10, CaseEnds

LEMMA MovesKeeps ==
  ASSUME CaseInv, NEW u \in Person, NEW k, NEW stages, NEW status \in Stage,
         Moves(u, k, stages, status),
         \A s \in stages : Earlier(k, status) \subseteq Earlier(k, s) \union {s},
         k = "permit" /\ status \in {"working", "finished", "accepted"}
           => stages \subseteq {"approved", "working", "finished"},
         status # "approved"
  PROVE  CaseInv'
<1>1. /\ kind = k /\ table[u].read /\ Seen(u) \in stages /\ Bring(u, status)
      /\ devices' \in [Device -> DeviceStatus]
  BY DEF Moves, Handles, CaseInv, CaseTypeOK
<1>2. Earlier(kind, status) \subseteq Earlier(kind, Seen(u)) \union {Seen(u)}
  BY <1>1
<1>3. kind = "permit" /\ status \in {"working", "finished", "accepted"}
        => Seen(u) \in {"approved", "working", "finished"}
  BY <1>1
<1> QED BY <1>1, <1>2, <1>3, BringKeeps

-----------------------------------------------------------------------------
LEMMA CustomersKeep ==
  ASSUME CaseInv, NEW u \in Person,
         \/ AcceptComplaint(u) \/ ResolveComplaint(u) \/ CloseComplaint(u)
         \/ ReplyProductReview(u) \/ CloseProductReview(u)
  PROVE  CaseInv'
<1>1. CASE AcceptComplaint(u)
  <2>1. Earlier("complaint", "handling") = {} /\ "handling" \in Stage
    BY StageNames DEF Earlier
  <2> QED BY <1>1, <2>1, MovesKeeps DEF AcceptComplaint
<1>2. CASE ResolveComplaint(u)
  <2>1. Earlier("complaint", "resolved") = {"handling"} /\ "resolved" \in Stage
    BY StageNames DEF Earlier
  <2> QED BY <1>2, <2>1, MovesKeeps DEF ResolveComplaint
<1>3. CASE CloseComplaint(u)
  <2>1. /\ Earlier("complaint", "closed") = {"handling", "resolved"} /\ "closed" \in Stage
        /\ Earlier("complaint", "resolved") = {"handling"}
    BY StageNames DEF Earlier
  <2> QED BY <1>3, <2>1, MovesKeeps DEF CloseComplaint
<1>4. CASE ReplyProductReview(u)
  <2>1. Earlier("review", "replied") = {} /\ "replied" \in Stage
    BY StageNames DEF Earlier
  <2> QED BY <1>4, <2>1, MovesKeeps DEF ReplyProductReview
<1>5. CASE CloseProductReview(u)
  <2>1. Earlier("review", "closed") = {"replied"} /\ "closed" \in Stage
    BY StageNames DEF Earlier
  <2> QED BY <1>5, <2>1, MovesKeeps DEF CloseProductReview
<1> QED BY <1>1, <1>2, <1>3, <1>4, <1>5

LEMMA SafetyKeeps ==
  ASSUME CaseInv, NEW u \in Person,
         \/ StartHazardRectify(u) \/ SubmitHazardVerify(u) \/ \E ok \in BOOLEAN : VerifyHazard(u, ok)
         \/ StartAccidentInvestigation(u) \/ RectifyAccident(u) \/ CloseAccident(u)
         \/ CloseComplianceCheck(u)
  PROVE  CaseInv'
<1>1. CASE StartHazardRectify(u)
  <2>1. Earlier("hazard", "rectifying") = {} /\ "rectifying" \in Stage
    BY StageNames DEF Earlier
  <2> QED BY <1>1, <2>1, MovesKeeps DEF StartHazardRectify
<1>2. CASE SubmitHazardVerify(u)
  <2>1. Earlier("hazard", "verifying") = {"rectifying"} /\ "verifying" \in Stage
    BY StageNames DEF Earlier
  <2> QED BY <1>2, <2>1, MovesKeeps DEF SubmitHazardVerify
<1>3. ASSUME NEW ok \in BOOLEAN, VerifyHazard(u, ok) PROVE CaseInv'
  <2>1. /\ Earlier("hazard", "closed") = {"rectifying"} /\ "closed" \in Stage
        /\ Earlier("hazard", "rectifying") = {} /\ "rectifying" \in Stage
        /\ Earlier("hazard", "verifying") = {"rectifying"}
    BY StageNames DEF Earlier
  <2>2. CASE ok
    <3>1. Moves(u, "hazard", {"verifying"}, "closed")
      BY <1>3, <2>2 DEF VerifyHazard
    <3> QED BY <2>1, <3>1, MovesKeeps
  <2>3. CASE ~ ok
    <3>1. Moves(u, "hazard", {"verifying"}, "rectifying")
      BY <1>3, <2>3 DEF VerifyHazard
    <3> QED BY <2>1, <3>1, MovesKeeps
  <2> QED BY <2>2, <2>3
<1>4. CASE StartAccidentInvestigation(u)
  <2>1. Earlier("accident", "investigating") = {} /\ "investigating" \in Stage
    BY StageNames DEF Earlier
  <2> QED BY <1>4, <2>1, MovesKeeps DEF StartAccidentInvestigation
<1>5. CASE RectifyAccident(u)
  <2>1. Earlier("accident", "rectified") = {"investigating"} /\ "rectified" \in Stage
    BY StageNames DEF Earlier
  <2> QED BY <1>5, <2>1, MovesKeeps DEF RectifyAccident
<1>6. CASE CloseAccident(u)
  <2>1. /\ Earlier("accident", "closed") = {"investigating"} /\ "closed" \in Stage
        /\ Earlier("accident", "rectified") = {"investigating"}
    BY StageNames DEF Earlier
  <2> QED BY <1>6, <2>1, MovesKeeps DEF CloseAccident
<1>7. CASE CloseComplianceCheck(u)
  <2>1. Earlier("check", "closed") = {} /\ "closed" \in Stage
    BY StageNames DEF Earlier
  <2> QED BY <1>7, <2>1, MovesKeeps DEF CloseComplianceCheck
<1> QED BY <1>1, <1>2, <1>3, <1>4, <1>5, <1>6, <1>7

\* The guardian is on record when the permit is approved.
LEMMA ApprovePermitKeeps ==
  ASSUME CaseInv, NEW u \in Person, NEW guardian \in BOOLEAN, ApprovePermit(u, guardian)
  PROVE  CaseInv'
<1> SUFFICES ASSUME NEW c, c = table[u].case PROVE CaseInv'
  OBVIOUS
<1>1. /\ kind = "permit" /\ table[u].read /\ (table[u].row.guarded => guardian)
      /\ rows' = [rows EXCEPT ![c].status = "approved",
                              ![c].guardian = guardian \/ table[u].row.guardian]
      /\ passed' = [passed EXCEPT ![c] = @ \union {"approved"} \union {g \in {"guardian"} : guardian}]
      /\ Forget(u) /\ kind' = kind /\ devices' = devices
  BY DEF ApprovePermit, Handles
<1>2. /\ c \in Case /\ table[u].row \in Row /\ rows[c] \in Row
      /\ table[u].row.guarded = rows[c].guarded
      /\ rows \in [Case -> Row] /\ passed \in [Case -> SUBSET (Stage \union {"guardian"})]
      /\ devices \in [Device -> DeviceStatus] /\ "approved" \in Stage
  BY <1>1, CaseRead, StageNames DEF CaseInv, CaseTypeOK
<1>3. \E watched \in BOOLEAN : watched = (guardian \/ table[u].row.guardian)
  BY <1>2 DEF Row
<1>4. PICK watched \in BOOLEAN :
        rows' = [rows EXCEPT ![c].status = "approved", ![c].guardian = watched]
  BY <1>1, <1>3
<1>5. /\ rows' \in [Case -> Row]
      /\ \A d \in Case : d # c => rows'[d] = rows[d]
      /\ rows'[c].guarded = rows[c].guarded /\ rows'[c].status = "approved"
  BY <1>2, <1>4 DEF Row
<1>6. /\ passed' \in [Case -> SUBSET (Stage \union {"guardian"})]
      /\ \A d \in Case : passed[d] \subseteq passed'[d]
      /\ "approved" \in passed'[c]
      /\ guardian => "guardian" \in passed'[c]
  BY <1>1, <1>2
<1>7. RowPut(c)
  BY <1>1, <1>2, <1>5, <1>6 DEF RowPut
<1>8. Earlier(kind, "approved") = {} /\ Forget(u)
  BY <1>1 DEF Earlier
<1>9. rows[c].guarded => "guardian" \in passed'[c]
  BY <1>1, <1>2, <1>6
<1>10. c \in Case /\ rows'[c].status = "approved" /\ "approved" \in passed'[c]
  BY <1>2, <1>5, <1>6
<1> QED BY <1>7, <1>8, <1>9, <1>10, CaseEnds

LEMMA PermitsKeep ==
  ASSUME CaseInv, NEW u \in Person,
         \/ \E guardian \in BOOLEAN : ApprovePermit(u, guardian)
         \/ RejectPermit(u) \/ StartPermitWork(u) \/ FinishPermitWork(u) \/ AcceptPermit(u)
  PROVE  CaseInv'
<1>1. CASE \E guardian \in BOOLEAN : ApprovePermit(u, guardian)
  BY <1>1, ApprovePermitKeeps
<1>2. CASE RejectPermit(u)
  <2>1. Earlier("permit", "rejected") = {} /\ "rejected" \in Stage
    BY StageNames DEF Earlier
  <2> QED BY <1>2, <2>1, MovesKeeps DEF RejectPermit
<1>3. CASE StartPermitWork(u)
  <2>1. Earlier("permit", "working") = {"approved"} /\ "working" \in Stage
    BY StageNames DEF Earlier
  <2> QED BY <1>3, <2>1, MovesKeeps DEF StartPermitWork
<1>4. CASE FinishPermitWork(u)
  <2>1. /\ Earlier("permit", "finished") = {"approved"} /\ "finished" \in Stage
        /\ Earlier("permit", "working") = {"approved"}
    BY StageNames DEF Earlier
  <2> QED BY <1>4, <2>1, MovesKeeps DEF FinishPermitWork
<1>5. CASE AcceptPermit(u)
  <2>1. /\ Earlier("permit", "accepted") = {"approved"} /\ "accepted" \in Stage
        /\ Earlier("permit", "finished") = {"approved"}
    BY StageNames DEF Earlier
  <2> QED BY <1>5, <2>1, MovesKeeps DEF AcceptPermit
<1> QED BY <1>1, <1>2, <1>3, <1>4, <1>5

LEMMA UpkeepKeeps ==
  ASSUME CaseInv, NEW u \in Person,
         \/ HandleAlarm(u) \/ CloseAlarm(u)
         \/ StartEquipmentTask(u) \/ CancelEquipmentTask(u) \/ CompleteMaintenanceTask(u)
         \/ AssignAbnormalTask(u) \/ StartAbnormalHandling(u) \/ CloseAbnormalTask(u)
  PROVE  CaseInv'
<1>1. \A status \in Stage : /\ Earlier("alarm", status) = {} /\ Earlier("equipment", status) = {}
                            /\ Earlier("abnormal", status) = {}
  BY DEF Earlier
<1>2. PICK k \in {"alarm", "equipment", "abnormal"}, stages \in SUBSET Stage, status \in Stage :
        Moves(u, k, stages, status) /\ status # "approved"
  <2>1. {"pending"} \subseteq Stage /\ {"pending", "handling"} \subseteq Stage
        /\ {"pending", "in_progress"} \subseteq Stage
        /\ Stage \ {"cancelled"} \subseteq Stage /\ Stage \ {"closed", "cancelled"} \subseteq Stage
        /\ {"handling", "closed", "in_progress", "cancelled", "completed", "assigned"} \subseteq Stage
    BY StageNames
  <2>2. CASE HandleAlarm(u) \/ CloseAlarm(u)
    BY <2>1, <2>2 DEF HandleAlarm, CloseAlarm
  <2>3. CASE StartEquipmentTask(u) \/ CancelEquipmentTask(u) \/ CompleteMaintenanceTask(u)
    BY <2>1, <2>3 DEF StartEquipmentTask, CancelEquipmentTask, CompleteMaintenanceTask
  <2>4. CASE AssignAbnormalTask(u) \/ StartAbnormalHandling(u) \/ CloseAbnormalTask(u)
    BY <2>1, <2>4 DEF AssignAbnormalTask, StartAbnormalHandling, CloseAbnormalTask
  <2> QED BY <2>2, <2>3, <2>4
<1>3. \A s \in stages : Earlier(k, status) \subseteq Earlier(k, s) \union {s}
  BY <1>1
<1> QED BY <1>2, <1>3, MovesKeeps

-----------------------------------------------------------------------------
LEMMA DispatchTaskKeeps ==
  ASSUME CaseInv, NEW u \in Person, NEW d \in Device \union {NoDevice}, DispatchTask(u, d)
  PROVE  CaseInv'
<1> SUFFICES ASSUME NEW c, c = table[u].case PROVE CaseInv'
  OBVIOUS
<1>1. /\ kind = "transport" /\ table[u].read
      /\ rows' = [rows EXCEPT ![c].status = "dispatched", ![c].device = d]
      /\ passed' = [passed EXCEPT ![c] = @ \union {"dispatched"}]
      /\ Forget(u) /\ kind' = kind /\ devices' = devices
  BY DEF DispatchTask, Handles
<1>2. /\ c \in Case /\ rows[c] \in Row /\ "dispatched" \in Stage
      /\ rows \in [Case -> Row] /\ passed \in [Case -> SUBSET (Stage \union {"guardian"})]
      /\ devices \in [Device -> DeviceStatus]
  BY <1>1, CaseRead, StageNames DEF CaseInv, CaseTypeOK
<1>3. /\ rows' \in [Case -> Row]
      /\ \A e \in Case : e # c => rows'[e] = rows[e]
      /\ rows'[c].guarded = rows[c].guarded /\ rows'[c].status = "dispatched"
  BY <1>1, <1>2 DEF Row
<1>4. /\ passed' \in [Case -> SUBSET (Stage \union {"guardian"})]
      /\ \A e \in Case : passed[e] \subseteq passed'[e]
      /\ "dispatched" \in passed'[c]
  BY <1>1, <1>2
<1>5. RowPut(c)
  BY <1>1, <1>2, <1>3, <1>4 DEF RowPut
<1>6. Earlier(kind, "dispatched") = {} /\ Forget(u)
  BY <1>1 DEF Earlier
<1>7. c \in Case /\ rows'[c].status = "dispatched" /\ "dispatched" \in passed'[c]
  BY <1>2, <1>3, <1>4
<1> QED BY <1>5, <1>6, <1>7, CaseEnds

LEMMA TransportKeeps ==
  ASSUME CaseInv, NEW u \in Person, StartTask(u) \/ FinishTask(u) \/ CancelTask(u)
  PROVE  CaseInv'
<1>1. /\ Earlier("transport", "executing") = {"dispatched"} /\ Earlier("transport", "cancelled") = {}
      /\ Earlier("transport", "finished") = {"dispatched"}
      /\ "executing" \in Stage /\ "finished" \in Stage /\ "cancelled" \in Stage
  BY StageNames DEF Earlier
<1>2. devices \in [Device -> DeviceStatus]
  BY DEF CaseInv, CaseTypeOK
<1>3. ASSUME NEW status \in DeviceStatus, SetDevice(u, status) PROVE devices' \in [Device -> DeviceStatus]
  BY <1>2, <1>3 DEF SetDevice
<1>4. CASE StartTask(u)
  <2>1. /\ kind = "transport" /\ table[u].read /\ Seen(u) = "dispatched" /\ Bring(u, "executing")
        /\ SetDevice(u, "running")
    BY <1>4 DEF StartTask, Handles
  <2>2. devices' \in [Device -> DeviceStatus]
    BY <1>3, <2>1 DEF DeviceStatus
  <2> QED BY <1>1, <2>1, <2>2, BringKeeps
<1>5. CASE FinishTask(u)
  <2>1. /\ kind = "transport" /\ table[u].read /\ Seen(u) = "executing" /\ Bring(u, "finished")
        /\ SetDevice(u, "idle")
    BY <1>5 DEF FinishTask, Handles
  <2>2. devices' \in [Device -> DeviceStatus]
    BY <1>3, <2>1 DEF DeviceStatus
  <2> QED BY <1>1, <2>1, <2>2, BringKeeps
<1>6. CASE CancelTask(u)
  <2>1. kind = "transport" /\ table[u].read /\ Bring(u, "cancelled")
    BY <1>6 DEF CancelTask, Handles
  <2>2. devices' \in [Device -> DeviceStatus]
    BY <1>2, <1>3, <1>6 DEF CancelTask, DeviceStatus
  <2> QED BY <1>1, <2>1, <2>2, BringKeeps
<1> QED BY <1>4, <1>5, <1>6

LEMMA ReadCaseKeeps ==
  ASSUME CaseInv, NEW u \in Person, NEW c \in Case, ReadCase(u, c) PROVE CaseInv'
<1>1. /\ table \in [Person -> Reading] /\ rows[c] \in Row
      /\ table' = [table EXCEPT ![u] = [case |-> c, read |-> TRUE, row |-> rows[c]]]
      /\ UNCHANGED <<kind, rows, passed, devices>>
  BY DEF CaseInv, CaseTypeOK, ReadCase
<1>2. [case |-> c, read |-> TRUE, row |-> rows[c]] \in Reading
  BY <1>1 DEF Reading
<1>3. /\ table' \in [Person -> Reading]
      /\ \A v \in Person : table'[v] = IF v = u THEN [case |-> c, read |-> TRUE, row |-> rows[c]]
                                       ELSE table[v]
  BY <1>1, <1>2
<1>4. CaseTypeOK'
  BY <1>1, <1>3 DEF CaseInv, CaseTypeOK
<1>5. \A r, e : Stands(r, e)' <=> Stands(r, e)
  BY <1>1 DEF Stands
<1> QED BY <1>1, <1>3, <1>4, <1>5 DEF CaseInv

LEMMA SaveCaseKeeps ==
  ASSUME CaseInv, NEW u \in Person, SaveCase(u) PROVE CaseInv'
<1> SUFFICES ASSUME NEW c, c = table[u].case PROVE CaseInv'
  OBVIOUS
<1>1. /\ table[u].read /\ rows' = [rows EXCEPT ![c] = table[u].row] /\ Forget(u)
      /\ UNCHANGED <<kind, passed, devices>>
  BY DEF SaveCase
<1>2. /\ c \in Case /\ table[u].row \in Row /\ Stands(table[u].row, c)
      /\ table[u].row.guarded = rows[c].guarded
      /\ rows \in [Case -> Row] /\ CaseTypeOK
  BY <1>1, CaseRead DEF CaseInv, CaseTypeOK
<1>3. /\ rows' \in [Case -> Row] /\ rows'[c] = table[u].row
      /\ \A d \in Case : d # c => rows'[d] = rows[d]
  BY <1>1, <1>2
<1>4. RowPut(c)
  BY <1>1, <1>2, <1>3 DEF RowPut, CaseTypeOK
<1> QED BY <1>1, <1>2, <1>3, <1>4, CaseEnds DEF Stands

LEMMA CaseNextKeeps ==
  ASSUME CaseInv, [CaseNext]_caseVars PROVE CaseInv'
<1>1. CASE \E d \in Device, status \in DeviceStatus : SetDeviceStatus(d, status)
  <2>1. devices' \in [Device -> DeviceStatus] /\ UNCHANGED <<kind, rows, passed, table>>
    BY <1>1 DEF SetDeviceStatus, CaseInv, CaseTypeOK
  <2>2. CaseTypeOK'
    BY <2>1 DEF CaseInv, CaseTypeOK
  <2>3. \A r, e : Stands(r, e)' <=> Stands(r, e)
    BY <2>1 DEF Stands
  <2> QED BY <2>1, <2>2, <2>3 DEF CaseInv
<1>2. CASE UNCHANGED caseVars
  <2>1. CaseTypeOK'
    BY <1>2 DEF caseVars, CaseInv, CaseTypeOK
  <2>2. \A r, e : Stands(r, e)' <=> Stands(r, e)
    BY <1>2 DEF caseVars, Stands
  <2> QED BY <1>2, <2>1, <2>2 DEF caseVars, CaseInv
<1> QED BY <1>1, <1>2, ReadCaseKeeps, SaveCaseKeeps, CustomersKeep, SafetyKeeps, PermitsKeep,
           UpkeepKeeps, DispatchTaskKeeps, TransportKeeps
        DEF CaseNext, ComplaintNext, ReviewNext, HazardNext, AccidentNext, PermitNext, TaskNext,
            AbnormalNext, TransportNext

\* However requests overtake each other, for any number of cases, persons and devices.
THEOREM StagesArePassed == CaseSpec => []StagesWerePassed
<1>1. CaseInv => StagesWerePassed
  BY DEF CaseInv, Stands, StagesWerePassed
<1> QED BY <1>1, CaseInitHolds, CaseNextKeeps, PTL DEF CaseSpec

(***************************************************************************)
(* Upkeep of equipment.                                                    *)
(***************************************************************************)

\* The dates of the plan before n have tasks.
PlannedBefore(n) == \A date \in Date : date < n => date \in planned

HasRepair(r) == \E t \in 1..Len(repairs) : repairs[t].report = r

\* What a sheet says may be written back: a date up to which the plan has tasks, a
\* status of a report that has its task.
SheetHolds(s) ==
  /\ s.of = "plan" => s.nextDate \in 0..(MaxDate + 1) /\ PlannedBefore(s.nextDate)
  /\ s.of = "report" => /\ s.id \in 1..Len(reports)
                        /\ s.status \in {"assigned", "repairing"} => HasRepair(s.id)
  /\ s.of = "repair" => /\ s.id \in 1..Len(repairs)
                        /\ s.task.report = repairs[s.id].report

EquipmentInv ==
  /\ EquipmentTypeOK
  /\ \A t \in 1..Len(repairs) : repairs[t].report \in 1..Len(reports)
  /\ PlannedBefore(nextDate)
  /\ \A r \in 1..Len(reports) : reports[r] \in {"assigned", "repairing"} => HasRepair(r)
  /\ \A u \in Technician : SheetHolds(sheet[u])

LEMMA EquipmentInitHolds == ASSUME EquipmentInit PROVE EquipmentInv
<1>1. MaxDate \in Nat
  BY EquipmentInputs
<1>2. EquipmentTypeOK
  BY <1>1 DEF EquipmentInit, EquipmentTypeOK, Sheet
<1>3. PlannedBefore(nextDate)
  BY <1>1 DEF EquipmentInit, PlannedBefore, Date
<1>4. \A u \in Technician : sheet[u].of = "nothing"
  BY DEF EquipmentInit, Blank
<1> QED BY <1>2, <1>3, <1>4 DEF EquipmentInit, EquipmentInv, SheetHolds

LEMMA EquipmentSizes ==
  ASSUME EquipmentInv
  PROVE  /\ MaxDate \in Nat /\ Len(reports) \in Nat /\ Len(repairs) \in Nat
         /\ reports \in Seq(ReportStatus) /\ repairs \in Seq(RepairTask)
         /\ \A r \in 1..Len(reports) : reports[r] \in ReportStatus
         /\ \A t \in 1..Len(repairs) : repairs[t] \in RepairTask
         /\ sheet \in [Technician -> Sheet]
         /\ nextDate \in 0..(MaxDate + 1) /\ planned \subseteq Date
<1>1. reports \in Seq(ReportStatus) /\ repairs \in Seq(RepairTask) /\ MaxDate \in Nat
  BY EquipmentInputs DEF EquipmentInv, EquipmentTypeOK
<1>2. \A r \in 1..Len(reports) : reports[r] \in ReportStatus
  BY <1>1, ElementOfSeq
<1>3. \A t \in 1..Len(repairs) : repairs[t] \in RepairTask
  BY <1>1, ElementOfSeq
<1> QED BY <1>1, <1>2, <1>3 DEF EquipmentInv, EquipmentTypeOK

\* What a sheet that is of something holds.
LEMMA SheetRead ==
  ASSUME EquipmentInv, NEW u \in Technician
  PROVE  /\ SheetHolds(sheet[u])
         /\ sheet[u].of = "report" => sheet[u].status \in ReportStatus
         /\ sheet[u].of = "repair" => sheet[u].status \in ReportStatus /\ sheet[u].task \in RepairTask
<1>1. sheet[u] \in Sheet /\ SheetHolds(sheet[u])
  BY DEF EquipmentInv, EquipmentTypeOK
<1> QED BY <1>1 DEF Sheet, Blank

-----------------------------------------------------------------------------
(* A step keeps the invariant if it takes no task of the plan back, leaves *)
(* the reports of repair tasks as they are, and puts down what it may.     *)

Progress ==
  /\ planned \subseteq planned' /\ planned' \subseteq Date
  /\ reports' \in Seq(ReportStatus) /\ Len(reports) <= Len(reports')
  /\ repairs' \in Seq(RepairTask) /\ Len(repairs) <= Len(repairs')
  /\ \A t \in 1..Len(repairs) : repairs'[t].report = repairs[t].report
  /\ \A t \in 1..Len(repairs') : repairs'[t].report \in 1..Len(reports')

LEMMA RepairsStay ==
  ASSUME EquipmentInv, Progress
  PROVE  /\ \A r : HasRepair(r) => HasRepair(r)'
         /\ \A s : SheetHolds(s) => SheetHolds(s)'
<1>1. /\ Len(repairs) \in Nat /\ Len(repairs') \in Nat /\ Len(reports) \in Nat /\ Len(reports') \in Nat
  BY EquipmentSizes DEF Progress
<1>2. ASSUME NEW r, HasRepair(r) PROVE HasRepair(r)'
  <2>1. PICK t \in 1..Len(repairs) : repairs[t].report = r
    BY <1>2 DEF HasRepair
  <2>2. t \in 1..Len(repairs') /\ repairs'[t].report = r
    BY <1>1, <2>1 DEF Progress
  <2> QED BY <2>2 DEF HasRepair
<1>3. ASSUME NEW s, SheetHolds(s) PROVE SheetHolds(s)'
  <2>1. s.of = "plan" => s.nextDate \in 0..(MaxDate + 1) /\ PlannedBefore(s.nextDate)'
    BY <1>3 DEF SheetHolds, PlannedBefore, Progress
  <2>2. s.of = "report" => /\ s.id \in 1..Len(reports')
                           /\ s.status \in {"assigned", "repairing"} => HasRepair(s.id)'
    BY <1>1, <1>2, <1>3 DEF SheetHolds, Progress
  <2>3. s.of = "repair" => s.id \in 1..Len(repairs') /\ s.task.report = repairs'[s.id].report
    BY <1>1, <1>3 DEF SheetHolds, Progress
  <2> QED BY <2>1, <2>2, <2>3 DEF SheetHolds
<1> QED BY <1>2, <1>3

\* A request reads into a sheet, and ends with a blank one.
LEMMA SheetPut ==
  ASSUME EquipmentInv, Progress, NEW u \in Technician, NEW what \in Sheet, SheetHolds(what),
         sheet' = [sheet EXCEPT ![u] = what]
  PROVE  sheet' \in [Technician -> Sheet] /\ \A v \in Technician : SheetHolds(sheet[v])'
<1>1. /\ sheet' \in [Technician -> Sheet]
      /\ \A v \in Technician : sheet'[v] = IF v = u THEN what ELSE sheet[v]
  BY EquipmentSizes
<1>2. ASSUME NEW v \in Technician PROVE SheetHolds(sheet[v])'
  <2> SUFFICES ASSUME NEW s, s = sheet'[v] PROVE SheetHolds(s)'
    BY DEF SheetHolds, PlannedBefore, HasRepair
  <2>1. SheetHolds(s)
    BY <1>1 DEF EquipmentInv
  <2> QED BY <2>1, RepairsStay
<1> QED BY <1>1, <1>2

LEMMA BlankHolds == Blank \in Sheet /\ SheetHolds(Blank)
  BY DEF Blank, Sheet, SheetHolds

LEMMA SheetsStay ==
  ASSUME EquipmentInv, Progress, sheet' = sheet
  PROVE  sheet' \in [Technician -> Sheet] /\ \A v \in Technician : SheetHolds(sheet[v])'
<1>1. ASSUME NEW v \in Technician PROVE SheetHolds(sheet[v])'
  <2> SUFFICES ASSUME NEW s, s = sheet'[v] PROVE SheetHolds(s)'
    BY DEF SheetHolds, PlannedBefore, HasRepair
  <2>1. SheetHolds(s)
    BY DEF EquipmentInv
  <2> QED BY <2>1, RepairsStay
<1> QED BY <1>1, EquipmentSizes

LEMMA ProgressKeeps ==
  ASSUME EquipmentInv, Progress,
         nextDate' \in 0..(MaxDate + 1), PlannedBefore(nextDate)',
         \A r \in 1..Len(reports') :
           reports'[r] \in {"assigned", "repairing"} => HasRepair(r)',
         sheet' \in [Technician -> Sheet], \A v \in Technician : SheetHolds(sheet[v])'
  PROVE  EquipmentInv'
<1>1. EquipmentTypeOK'
  BY DEF EquipmentInv, EquipmentTypeOK, Progress
<1>2. \A t \in 1..Len(repairs') : repairs'[t].report \in 1..Len(reports')
  BY DEF Progress
<1> QED BY <1>1, <1>2 DEF EquipmentInv

\* Steps that leave the faults alone, and steps that leave the plan alone.
LEMMA PlanStepKeeps ==
  ASSUME EquipmentInv, UNCHANGED <<reports, repairs>>,
         planned \subseteq planned', planned' \subseteq Date,
         nextDate' \in 0..(MaxDate + 1), PlannedBefore(nextDate)',
         \/ sheet' = sheet
         \/ \E u \in Technician : sheet' = [sheet EXCEPT ![u] = Blank]
  PROVE  EquipmentInv'
<1>1. Progress
  BY EquipmentSizes DEF Progress, EquipmentInv
<1>2. \A r \in 1..Len(reports') : reports'[r] \in {"assigned", "repairing"} => HasRepair(r)'
  BY DEF EquipmentInv, HasRepair
<1>3. sheet' \in [Technician -> Sheet] /\ \A v \in Technician : SheetHolds(sheet[v])'
  BY <1>1, BlankHolds, SheetPut, SheetsStay
<1> QED BY <1>1, <1>2, <1>3, ProgressKeeps

LEMMA FaultStepKeeps ==
  ASSUME EquipmentInv, Progress, UNCHANGED <<nextDate, planned>>,
         \A r \in 1..Len(reports') :
           reports'[r] \in {"assigned", "repairing"} => HasRepair(r)',
         \/ sheet' = sheet
         \/ \E u \in Technician : sheet' = [sheet EXCEPT ![u] = Blank]
  PROVE  EquipmentInv'
<1>1. sheet' \in [Technician -> Sheet] /\ \A v \in Technician : SheetHolds(sheet[v])'
  BY BlankHolds, SheetPut, SheetsStay
<1>2. nextDate' \in 0..(MaxDate + 1) /\ PlannedBefore(nextDate)'
  BY DEF EquipmentInv, EquipmentTypeOK, PlannedBefore
<1> QED BY <1>1, <1>2, ProgressKeeps

LEMMA ReadStepKeeps ==
  ASSUME EquipmentInv, UNCHANGED <<nextDate, planned, reports, repairs>>,
         NEW u \in Technician, NEW what \in Sheet, SheetHolds(what),
         sheet' = [sheet EXCEPT ![u] = what]
  PROVE  EquipmentInv'
<1>1. Progress
  BY EquipmentSizes DEF Progress, EquipmentInv
<1>2. \A r \in 1..Len(reports') : reports'[r] \in {"assigned", "repairing"} => HasRepair(r)'
  BY DEF EquipmentInv, HasRepair
<1>3. nextDate' \in 0..(MaxDate + 1) /\ PlannedBefore(nextDate)'
  BY DEF EquipmentInv, EquipmentTypeOK, PlannedBefore
<1> QED BY <1>1, <1>2, <1>3, SheetPut, ProgressKeeps

-----------------------------------------------------------------------------
(* The plan: a call that starts from a date up to which everything is      *)
(* planned ends at one.                                                    *)

LEMMA MissingFinite ==
  ASSUME NEW from \in Nat, NEW to \in Nat
  PROVE  IsFiniteSet(Missing(from, to)) /\ Missing(from, to) \subseteq from..to
<1>1. IsFiniteSet(from..to)
  BY FS_Interval
<1>2. Missing(from, to) \in SUBSET (from..to)
  BY DEF Missing
<1> QED BY <1>1, <1>2, FS_Subset

LEMMA MadeFinite ==
  ASSUME NEW from \in Nat, NEW limit \in Nat
  PROVE  /\ IsFiniteSet(Made(from, limit)) /\ Cardinality(Made(from, limit)) \in Nat
         /\ Made(from, limit) \subseteq from..limit
<1>1. IsFiniteSet(Missing(from, limit)) /\ Missing(from, limit) \subseteq from..limit
  BY MissingFinite
<1>2. Made(from, limit) \in SUBSET Missing(from, limit)
  BY DEF Made
<1> QED BY <1>1, <1>2, FS_Subset, FS_CardinalityType

\* If there were fewer tasks to make than the limit of a call, all were made: before
\* the least that was not made there would be as many as the limit.
LEMMA AllMade ==
  ASSUME NEW from \in Nat, NEW limit \in Nat,
         Cardinality(Made(from, limit)) < MAX_TASKS_PER_GENERATION
  PROVE  Missing(from, limit) \subseteq Made(from, limit)
<1> DEFINE left == Missing(from, limit) \ Made(from, limit)
<1> SUFFICES ASSUME left # {} PROVE FALSE
  OBVIOUS
<1>1. left \subseteq Nat /\ MAX_TASKS_PER_GENERATION \in Nat
  BY MissingFinite, EquipmentInputs
<1>2. PICK d \in left : \A e \in left : d <= e
  BY <1>1, LeastNatural
<1> DEFINE upTo == Missing(from, d)
<1>3. d \in Missing(from, limit) /\ d \in from..limit /\ d \in Nat
  BY MissingFinite
<1>4. IsFiniteSet(upTo) /\ Cardinality(upTo) \in Nat
  BY <1>3, MissingFinite, FS_CardinalityType
<1>5. Cardinality(upTo) > MAX_TASKS_PER_GENERATION
  BY <1>1, <1>2, <1>3, <1>4 DEF Made
<1>6. d \in upTo
  BY <1>3 DEF Missing
<1>7. upTo \ {d} \in SUBSET Made(from, limit)
  <2> SUFFICES ASSUME NEW e \in upTo \ {d} PROVE e \in Made(from, limit)
    OBVIOUS
  <2>1. e \in Missing(from, limit) /\ e < d
    BY <1>3 DEF Missing
  <2> QED BY <1>2, <1>3, <2>1 DEF Missing
<1> HIDE DEF upTo
<1>8. Cardinality(upTo \ {d}) = Cardinality(upTo) - 1
  BY <1>4, <1>6, FS_RemoveElement
<1>9. Cardinality(upTo \ {d}) <= Cardinality(Made(from, limit))
  BY <1>7, MadeFinite, FS_Subset
<1>10. Cardinality(Made(from, limit)) \in Nat
  BY MadeFinite
<1> QED BY <1>1, <1>4, <1>5, <1>8, <1>9, <1>10

\* Otherwise the last date made exists, and what is missing before it was made too.
LEMMA LastMade ==
  ASSUME NEW from \in Nat, NEW limit \in Nat, Made(from, limit) # {}
  PROVE  \E d \in Made(from, limit) : \A e \in Made(from, limit) : e <= d
<1> DEFINE distances == {limit - d : d \in Made(from, limit)}
<1>1. \A d \in Made(from, limit) : d \in Nat /\ d <= limit
  BY MadeFinite
<1>2. distances \subseteq Nat /\ distances # {}
  BY <1>1
<1>3. PICK least \in distances : \A other \in distances : least <= other
  BY <1>2, LeastNatural
<1>4. PICK d \in Made(from, limit) : least = limit - d
  OBVIOUS
<1>5. \A e \in Made(from, limit) : limit - d <= limit - e
  BY <1>3, <1>4
<1> QED BY <1>1, <1>5

LEMMA MadeBefore ==
  ASSUME NEW from \in Nat, NEW limit \in Nat, NEW d \in Made(from, limit),
         NEW e \in Missing(from, limit), e <= d
  PROVE  e \in Made(from, limit)
<1>1. d \in Nat /\ e \in Nat /\ d \in Missing(from, limit)
  BY MissingFinite DEF Made
<1>2. IsFiniteSet(Missing(from, d)) /\ Cardinality(Missing(from, d)) \in Nat
  BY <1>1, MissingFinite, FS_CardinalityType
<1>3. Missing(from, e) \in SUBSET Missing(from, d)
  BY <1>1 DEF Missing
<1>4. IsFiniteSet(Missing(from, e)) /\ Cardinality(Missing(from, e)) \in Nat
  BY <1>1, MissingFinite, FS_CardinalityType
<1>5. Cardinality(Missing(from, e)) <= Cardinality(Missing(from, d))
  BY <1>2, <1>3, FS_Subset
<1>6. Cardinality(Missing(from, d)) <= MAX_TASKS_PER_GENERATION /\ MAX_TASKS_PER_GENERATION \in Nat
  BY EquipmentInputs DEF Made
<1> QED BY <1>2, <1>4, <1>5, <1>6 DEF Made

\* The date that a call moves the plan to.
LEMMA ReachedIsPlanned ==
  ASSUME NEW from \in 0..(MaxDate + 1), NEW limit \in Date, PlannedBefore(from),
         planned' = planned \union Made(from, limit)
  PROVE  /\ Reached(from, limit) \in 0..(MaxDate + 1)
         /\ \A date \in Date : date < Reached(from, limit) => date \in planned'
<1>1. /\ MaxDate \in Nat /\ from \in Nat /\ limit \in Nat /\ limit <= MaxDate
      /\ MAX_TASKS_PER_GENERATION \in Nat \ {0}
  BY EquipmentInputs DEF Date
<1>2. CASE limit < from
  BY <1>2 DEF Reached, PlannedBefore
<1>3. CASE ~ (limit < from) /\ Cardinality(Made(from, limit)) < MAX_TASKS_PER_GENERATION
  <2>1. Reached(from, limit) = limit + 1
    BY <1>3 DEF Reached
  <2>2. Missing(from, limit) \subseteq Made(from, limit)
    BY <1>1, <1>3, AllMade
  <2>3. ASSUME NEW date \in Date, date < limit + 1 PROVE date \in planned'
    <3>1. CASE date < from
      BY <3>1 DEF PlannedBefore
    <3>2. CASE date >= from
      <4>1. date \in from..limit
        BY <1>1, <2>3, <3>2 DEF Date
      <4>2. date \in planned \/ date \in Missing(from, limit)
        BY <4>1 DEF Missing
      <4> QED BY <2>2, <4>2
    <3> QED BY <1>1, <3>1, <3>2 DEF Date
  <2> QED BY <1>1, <2>1, <2>3
<1>4. CASE ~ (limit < from) /\ ~ (Cardinality(Made(from, limit)) < MAX_TASKS_PER_GENERATION)
  <2> DEFINE last == CHOOSE d \in Made(from, limit) : \A e \in Made(from, limit) : e <= d
  <2>1. Reached(from, limit) = 1 + last
    BY <1>4 DEF Reached
  <2>2. Made(from, limit) # {}
    BY <1>1, <1>4, FS_EmptySet
  <2>3. last \in Made(from, limit)
    BY <1>1, <2>2, LastMade
  <2> HIDE DEF last
  <2>4. last \in from..limit
    BY <1>1, <2>3, MadeFinite
  <2>5. ASSUME NEW date \in Date, date < 1 + last PROVE date \in planned'
    <3>1. CASE date < from
      BY <3>1 DEF PlannedBefore
    <3>2. CASE date >= from
      <4>1. date \in from..limit /\ date <= last
        BY <1>1, <2>4, <2>5, <3>2 DEF Date
      <4>2. date \in planned \/ date \in Missing(from, limit)
        BY <4>1 DEF Missing
      <4>3. date \in Missing(from, limit) => date \in Made(from, limit)
        BY <1>1, <2>3, <4>1, MadeBefore
      <4> QED BY <4>2, <4>3
    <3> QED BY <1>1, <3>1, <3>2 DEF Date
  <2> QED BY <1>1, <2>1, <2>4, <2>5
<1> QED BY <1>2, <1>3, <1>4

LEMMA GenerateMaintenanceTasksKeeps ==
  ASSUME EquipmentInv, NEW u \in Technician, NEW limit \in Date, GenerateMaintenanceTasks(u, limit)
  PROVE  EquipmentInv'
<1> SUFFICES ASSUME NEW from, from = sheet[u].nextDate PROVE EquipmentInv'
  OBVIOUS
<1>1. /\ sheet[u].of = "plan" /\ sheet' = [sheet EXCEPT ![u] = Blank]
      /\ planned' = planned \union Made(from, limit)
      /\ nextDate' \in {nextDate, Reached(from, limit)}
      /\ UNCHANGED <<reports, repairs>>
  BY DEF GenerateMaintenanceTasks, Ends
<1>2. from \in 0..(MaxDate + 1) /\ PlannedBefore(from) /\ MaxDate \in Nat
  BY <1>1, SheetRead, EquipmentSizes DEF SheetHolds
<1>3. /\ Reached(from, limit) \in 0..(MaxDate + 1)
      /\ \A date \in Date : date < Reached(from, limit) => date \in planned'
  BY <1>1, <1>2, ReachedIsPlanned
<1>4. limit \in Nat /\ limit <= MaxDate /\ from \in Nat
  BY <1>2 DEF Date
<1>5. Made(from, limit) \subseteq Date
  <2>1. Made(from, limit) \subseteq from..limit
    BY <1>4, MadeFinite
  <2>2. from..limit \subseteq Date
    BY <1>2, <1>4 DEF Date
  <2> QED BY <2>1, <2>2
<1>6. planned \subseteq planned' /\ planned' \subseteq Date
  BY <1>1, <1>5, EquipmentSizes
<1>7. nextDate' \in 0..(MaxDate + 1) /\ PlannedBefore(nextDate)'
  BY <1>1, <1>3, <1>6, EquipmentSizes DEF PlannedBefore, EquipmentInv
<1>8. /\ UNCHANGED <<reports, repairs>>
      /\ \E v \in Technician : sheet' = [sheet EXCEPT ![v] = Blank]
  BY <1>1
<1> QED BY <1>6, <1>7, <1>8, PlanStepKeeps

LEMMA PlanNextKeeps == ASSUME EquipmentInv, PlanNext PROVE EquipmentInv'
<1>1. ASSUME NEW date \in Date, CreateMaintenanceTask(date) PROVE EquipmentInv'
  <2>1. planned \subseteq planned' /\ planned' \subseteq Date
    BY <1>1, EquipmentSizes DEF CreateMaintenanceTask
  <2>2. nextDate' \in 0..(MaxDate + 1) /\ PlannedBefore(nextDate)'
    BY <1>1, EquipmentSizes DEF CreateMaintenanceTask, PlannedBefore, EquipmentInv
  <2> QED BY <1>1, <2>1, <2>2, PlanStepKeeps DEF CreateMaintenanceTask
<1>2. ASSUME NEW u \in Technician, ReadPlan(u) PROVE EquipmentInv'
  <2> DEFINE what == [of |-> "plan", nextDate |-> nextDate]
  <2>1. sheet' = [sheet EXCEPT ![u] = what] /\ UNCHANGED <<nextDate, planned, reports, repairs>>
    BY <1>2 DEF ReadPlan, Reads
  <2>2. what \in Sheet /\ SheetHolds(what)
    BY EquipmentSizes DEF Sheet, SheetHolds, EquipmentInv
  <2> HIDE DEF what
  <2> QED BY <2>1, <2>2, ReadStepKeeps
<1>3. ASSUME NEW u \in Technician, SavePlan(u) PROVE EquipmentInv'
  <2>1. /\ sheet[u].of = "plan" /\ nextDate' = sheet[u].nextDate
        /\ \E v \in Technician : sheet' = [sheet EXCEPT ![v] = Blank]
        /\ UNCHANGED <<planned, reports, repairs>>
    BY <1>3 DEF SavePlan, Ends
  <2>2. nextDate' \in 0..(MaxDate + 1) /\ PlannedBefore(nextDate)'
    BY <2>1, SheetRead DEF SheetHolds, PlannedBefore
  <2>3. planned \subseteq planned' /\ planned' \subseteq Date
    BY <2>1, EquipmentSizes
  <2> QED BY <2>1, <2>2, <2>3, PlanStepKeeps
<1> QED BY <1>1, <1>2, <1>3, GenerateMaintenanceTasksKeeps DEF PlanNext

-----------------------------------------------------------------------------
(* Faults.                                                                 *)

\* A status is written to a report that has a repair task, or is one that needs none.
LEMMA ReportWritten ==
  ASSUME EquipmentInv, NEW r \in 1..Len(reports), NEW status \in ReportStatus,
         WriteReport(r, status)
  PROVE  /\ reports' \in Seq(ReportStatus) /\ Len(reports') = Len(reports)
         /\ reports'[r] = status
         /\ \A s \in 1..Len(reports) : s # r => reports'[s] = reports[s]
<1>1. reports \in Seq(ReportStatus) /\ reports' = [reports EXCEPT ![r] = status]
  BY EquipmentSizes DEF WriteReport
<1>2. reports' \in Seq(ReportStatus) /\ Len(reports') = Len(reports)
  BY <1>1, ExceptSeq
<1>3. \A s \in 1..Len(reports) : reports'[s] = IF s = r THEN status ELSE reports[s]
  BY <1>1, ExceptSeq
<1> QED BY <1>2, <1>3

\* What repair tasks become is none of the reports' business.
RepairsOnlyGrow ==
  /\ repairs' \in Seq(RepairTask) /\ Len(repairs) <= Len(repairs')
  /\ \A t \in 1..Len(repairs) : repairs'[t].report = repairs[t].report
  /\ \A t \in 1..Len(repairs') : repairs'[t].report \in 1..Len(reports)

LEMMA NoRepairWritten == ASSUME EquipmentInv, repairs' = repairs PROVE RepairsOnlyGrow
  BY EquipmentSizes DEF RepairsOnlyGrow, EquipmentInv

LEMMA ReportStep ==
  ASSUME EquipmentInv, NEW u \in Technician, sheet' = [sheet EXCEPT ![u] = Blank],
         RepairsOnlyGrow, UNCHANGED <<nextDate, planned>>,
         NEW r \in 1..Len(reports), NEW status \in ReportStatus, WriteReport(r, status),
         status \in {"assigned", "repairing"} => HasRepair(r) \/ HasRepair(r)'
  PROVE  EquipmentInv'
<1>1. /\ reports' \in Seq(ReportStatus) /\ Len(reports') = Len(reports)
      /\ reports'[r] = status
      /\ \A s \in 1..Len(reports) : s # r => reports'[s] = reports[s]
  BY ReportWritten
<1>2. Progress
  BY <1>1, EquipmentSizes DEF Progress, RepairsOnlyGrow
<1>3. \A s \in 1..Len(reports') : reports'[s] \in {"assigned", "repairing"} => HasRepair(s)'
  BY <1>1, <1>2, RepairsStay DEF EquipmentInv
<1>4. \E v \in Technician : sheet' = [sheet EXCEPT ![v] = Blank]
  OBVIOUS
<1> QED BY <1>2, <1>3, <1>4, FaultStepKeeps

LEMMA RepairStep ==
  ASSUME EquipmentInv, RepairsOnlyGrow, UNCHANGED <<nextDate, planned, reports>>,
         \/ sheet' = sheet
         \/ \E u \in Technician : sheet' = [sheet EXCEPT ![u] = Blank]
  PROVE  EquipmentInv'
<1>1. Progress
  BY EquipmentSizes DEF Progress, RepairsOnlyGrow
<1>2. \A s \in 1..Len(reports') : reports'[s] \in {"assigned", "repairing"} => HasRepair(s)'
  BY <1>1, RepairsStay DEF EquipmentInv
<1> QED BY <1>1, <1>2, FaultStepKeeps

LEMMA RepairAdded ==
  ASSUME EquipmentInv, NEW r \in 1..Len(reports), repairs' = Append(repairs, Task(r))
  PROVE  RepairsOnlyGrow /\ HasRepair(r)'
<1> DEFINE task == Task(r)
<1>1. Len(repairs) \in Nat /\ repairs \in Seq(RepairTask) /\ Len(reports) \in Nat
  BY EquipmentSizes
<1>2. task \in RepairTask /\ task.report = r
  BY <1>1 DEF Task, RepairTask
<1>3. repairs' = Append(repairs, task)
  OBVIOUS
<1> HIDE DEF task
<1>4. /\ repairs' \in Seq(RepairTask) /\ Len(repairs') = Len(repairs) + 1
      /\ \A t \in 1..Len(repairs) : repairs'[t] = repairs[t]
      /\ repairs'[Len(repairs) + 1] = task
  BY <1>1, <1>2, <1>3
<1>5. \A t \in 1..Len(repairs') : t \in 1..Len(repairs) \/ t = Len(repairs) + 1
  BY <1>1, <1>4
<1>6. \A t \in 1..Len(repairs') : repairs'[t].report \in 1..Len(reports)
  BY <1>2, <1>4, <1>5 DEF EquipmentInv
<1>7. Len(repairs) + 1 \in 1..Len(repairs')
  BY <1>1, <1>4
<1> QED BY <1>1, <1>2, <1>4, <1>6, <1>7 DEF RepairsOnlyGrow, HasRepair

LEMMA RepairWritten ==
  ASSUME EquipmentInv, NEW u \in Technician, NEW status \in {"pending", "in_progress", "completed", "cancelled"},
         WriteRepair(u, status)
  PROVE  /\ RepairsOnlyGrow /\ sheet' = [sheet EXCEPT ![u] = Blank]
         /\ UNCHANGED <<nextDate, planned>>
<1> SUFFICES ASSUME NEW t, t = sheet[u].id PROVE RepairsOnlyGrow
  BY DEF WriteRepair, Ends
<1>1. /\ sheet[u].of = "repair" /\ repairs' = [repairs EXCEPT ![t].status = status]
  BY DEF WriteRepair, Ends
<1>2. t \in 1..Len(repairs) /\ repairs \in Seq(RepairTask) /\ repairs[t] \in RepairTask
  BY <1>1, SheetRead, EquipmentSizes DEF SheetHolds
<1> DEFINE task == [repairs[t] EXCEPT !.status = status]
<1>3. task \in RepairTask /\ task.report = repairs[t].report
  BY <1>2 DEF RepairTask
<1>4. repairs' = [repairs EXCEPT ![t] = task]
  BY <1>1
<1> HIDE DEF task
<1>5. repairs' \in Seq(RepairTask) /\ Len(repairs') = Len(repairs)
  BY <1>2, <1>3, <1>4, ExceptSeq
<1>6. \A k \in 1..Len(repairs) : repairs'[k] = IF k = t THEN task ELSE repairs[k]
  BY <1>2, <1>3, <1>4, ExceptSeq
<1>7. Len(repairs) \in Nat
  BY EquipmentSizes
<1>8. \A k \in 1..Len(repairs) : repairs'[k].report = repairs[k].report
  BY <1>3, <1>6
<1>9. \A k \in 1..Len(repairs') : repairs'[k].report \in 1..Len(reports)
  BY <1>5, <1>8 DEF EquipmentInv
<1> QED BY <1>5, <1>7, <1>8, <1>9 DEF RepairsOnlyGrow

\* The report of a repair task that was read has one.
LEMMA RepairRead ==
  ASSUME EquipmentInv, NEW u \in Technician, sheet[u].of = "repair"
  PROVE  /\ sheet[u].task.report \in 1..Len(reports) /\ HasRepair(sheet[u].task.report)
         /\ sheet[u].task.status \in {"pending", "in_progress", "completed", "cancelled"}
<1>1. /\ sheet[u].id \in 1..Len(repairs) /\ sheet[u].task.report = repairs[sheet[u].id].report
      /\ sheet[u].task \in RepairTask
  BY SheetRead DEF SheetHolds
<1> QED BY <1>1 DEF HasRepair, EquipmentInv, RepairTask

LEMMA ReportCallsKeep ==
  ASSUME EquipmentInv, NEW u \in Technician,
         SaveReport(u) \/ CloseFaultReport(u) \/ CreateRepairTaskFromReport(u)
  PROVE  EquipmentInv'
<1> SUFFICES ASSUME NEW r, r = sheet[u].id PROVE EquipmentInv'
  OBVIOUS
<1>1. /\ sheet[u].of = "report" /\ sheet' = [sheet EXCEPT ![u] = Blank]
      /\ UNCHANGED <<nextDate, planned>>
  BY DEF SaveReport, CloseFaultReport, CreateRepairTaskFromReport, Ends
<1>2. /\ r \in 1..Len(reports) /\ sheet[u].status \in ReportStatus
      /\ sheet[u].status \in {"assigned", "repairing"} => HasRepair(r)
  BY <1>1, SheetRead DEF SheetHolds
<1>3. CASE SaveReport(u)
  <2>1. RepairsOnlyGrow /\ WriteReport(r, sheet[u].status)
    BY <1>3, NoRepairWritten DEF SaveReport
  <2> QED BY <1>1, <1>2, <2>1, ReportStep
<1>4. CASE CloseFaultReport(u)
  <2>1. RepairsOnlyGrow /\ WriteReport(r, "closed") /\ "closed" \in ReportStatus
    BY <1>4, NoRepairWritten DEF CloseFaultReport, ReportStatus
  <2> QED BY <1>1, <1>2, <2>1, ReportStep
<1>5. CASE CreateRepairTaskFromReport(u)
  <2>1. RepairsOnlyGrow /\ HasRepair(r)'
    BY <1>2, <1>5, RepairAdded DEF CreateRepairTaskFromReport
  <2>2. CASE WriteReport(r, "assigned")
    <3>1. "assigned" \in ReportStatus
      BY DEF ReportStatus
    <3> QED BY <1>1, <1>2, <2>1, <2>2, <3>1, ReportStep
  <2>3. CASE UNCHANGED reports
    <3>1. \E v \in Technician : sheet' = [sheet EXCEPT ![v] = Blank]
      BY <1>1
    <3> QED BY <1>1, <2>1, <2>3, <3>1, RepairStep
  <2> QED BY <1>5, <2>2, <2>3 DEF CreateRepairTaskFromReport
<1> QED BY <1>3, <1>4, <1>5

LEMMA RepairCallsKeep ==
  ASSUME EquipmentInv, NEW u \in Technician,
         SaveRepair(u) \/ StartRepair(u) \/ CompleteRepair(u) \/ CancelRepair(u)
  PROVE  EquipmentInv'
<1>1. sheet[u].of = "repair"
  BY DEF SaveRepair, StartRepair, CompleteRepair, CancelRepair, WriteRepair, Ends
<1>2. /\ sheet[u].task.report \in 1..Len(reports) /\ HasRepair(sheet[u].task.report)
      /\ sheet[u].task.status \in {"pending", "in_progress", "completed", "cancelled"}
  BY <1>1, RepairRead
<1>3. /\ RepairsOnlyGrow /\ sheet' = [sheet EXCEPT ![u] = Blank]
      /\ UNCHANGED <<nextDate, planned>>
  <2>1. CASE \E status \in {"pending", "in_progress", "completed", "cancelled"} : WriteRepair(u, status)
    BY <2>1, RepairWritten
  <2>2. CASE Ends(u, "repair") /\ UNCHANGED <<nextDate, planned, repairs>>
    BY <2>2, NoRepairWritten DEF Ends
  <2> QED BY <1>2, <2>1, <2>2 DEF SaveRepair, StartRepair, CompleteRepair, CancelRepair
<1>4. CASE UNCHANGED reports
  <2>1. \E v \in Technician : sheet' = [sheet EXCEPT ![v] = Blank]
    BY <1>3
  <2> QED BY <1>3, <1>4, <2>1, RepairStep
<1>5. ASSUME NEW status \in {"repairing", "closed"}, WriteReport(sheet[u].task.report, status)
      PROVE  EquipmentInv'
  <2>1. status \in ReportStatus
    BY DEF ReportStatus
  <2> QED BY <1>2, <1>3, <1>5, <2>1, ReportStep
<1> QED BY <1>4, <1>5 DEF SaveRepair, StartRepair, CompleteRepair, CancelRepair

LEMMA FaultNextKeeps == ASSUME EquipmentInv, FaultNext PROVE EquipmentInv'
<1>1. CASE RaiseFaultReport
  <2>1. /\ Len(reports) \in Nat /\ reports \in Seq(ReportStatus) /\ "reported" \in ReportStatus
        /\ reports' = Append(reports, "reported") /\ UNCHANGED <<nextDate, planned, repairs, sheet>>
    BY <1>1, EquipmentSizes DEF RaiseFaultReport, ReportStatus
  <2>2. /\ reports' \in Seq(ReportStatus) /\ Len(reports') = Len(reports) + 1
        /\ \A r \in 1..Len(reports) : reports'[r] = reports[r]
        /\ reports'[Len(reports) + 1] = "reported"
    BY <2>1
  <2>3. \A r \in 1..Len(reports') : r \in 1..Len(reports) \/ r = Len(reports) + 1
    BY <2>1, <2>2
  <2>4. Progress
    BY <2>1, <2>2, EquipmentSizes DEF Progress, EquipmentInv
  <2>5. \A r \in 1..Len(reports') : reports'[r] \in {"assigned", "repairing"} => HasRepair(r)'
    BY <2>2, <2>3, <2>4, RepairsStay DEF EquipmentInv
  <2>6. UNCHANGED <<nextDate, planned>> /\ sheet' = sheet
    BY <2>1
  <2> QED BY <2>4, <2>5, <2>6, FaultStepKeeps
<1>2. ASSUME NEW r \in 1..Len(reports), CreateRepairTask(r) PROVE EquipmentInv'
  <2>1. RepairsOnlyGrow
    BY <1>2, RepairAdded DEF CreateRepairTask
  <2>2. UNCHANGED <<nextDate, planned, reports>> /\ sheet' = sheet
    BY <1>2 DEF CreateRepairTask
  <2> QED BY <2>1, <2>2, RepairStep
<1>3. ASSUME NEW u \in Technician, NEW r \in 1..Len(reports), ReadReport(u, r) PROVE EquipmentInv'
  <2> DEFINE what == [of |-> "report", id |-> r, status |-> reports[r]]
  <2>1. sheet' = [sheet EXCEPT ![u] = what] /\ UNCHANGED <<nextDate, planned, reports, repairs>>
    BY <1>3 DEF ReadReport, Reads
  <2>2. what \in Sheet /\ SheetHolds(what)
    BY EquipmentSizes DEF Sheet, SheetHolds, EquipmentInv
  <2> HIDE DEF what
  <2> QED BY <2>1, <2>2, ReadStepKeeps
<1>4. ASSUME NEW u \in Technician, NEW t \in 1..Len(repairs), ReadRepair(u, t) PROVE EquipmentInv'
  <2> DEFINE what == [of |-> "repair", id |-> t, task |-> repairs[t],
                      status |-> reports[repairs[t].report]]
  <2>1. sheet' = [sheet EXCEPT ![u] = what] /\ UNCHANGED <<nextDate, planned, reports, repairs>>
    BY <1>4 DEF ReadRepair, Reads
  <2>2. repairs[t] \in RepairTask /\ repairs[t].report \in 1..Len(reports)
    BY EquipmentSizes DEF EquipmentInv
  <2>3. what \in Sheet /\ SheetHolds(what)
    BY <2>2, EquipmentSizes DEF Sheet, SheetHolds
  <2> HIDE DEF what
  <2> QED BY <2>1, <2>3, ReadStepKeeps
<1> QED BY <1>1, <1>2, <1>3, <1>4, ReportCallsKeep, RepairCallsKeep DEF FaultNext

LEMMA EquipmentNextKeeps ==
  ASSUME EquipmentInv, [EquipmentNext]_equipmentVars PROVE EquipmentInv'
<1>1. CASE UNCHANGED equipmentVars
  BY <1>1 DEF equipmentVars, EquipmentInv, EquipmentTypeOK, PlannedBefore, HasRepair, SheetHolds
<1> QED BY <1>1, PlanNextKeeps, FaultNextKeeps DEF EquipmentNext

\* For plans and faults of any number, and any limit of a call.
THEOREM WorkStaysPlanned == EquipmentSpec => []WorkIsPlanned
<1>1. EquipmentInv => WorkIsPlanned
  BY DEF EquipmentInv, PlannedBefore, HasRepair, WorkIsPlanned
<1> QED BY <1>1, EquipmentInitHolds, EquipmentNextKeeps, PTL DEF EquipmentSpec

(***************************************************************************)
(* Purchasing.                                                             *)
(***************************************************************************)

NotInForce == {"none", "draft", "submitted", "rejected", "cancelled"}
NothingLive(o) == \A r \in ReceiptsOf(o) : ~ Live(r)
NothingChecked(o) == \A c \in Clerk : Checked(c) => calls[c].order # o

\* What the status of an order says of its lines.
Told(row) ==
  LET arrived == {k \in 1..Len(row.lines) : row.lines[k].received > 0}
      complete == {k \in 1..Len(row.lines) : row.lines[k].received = row.lines[k].quantity}
  IN
  /\ row.status = "received" => complete = 1..Len(row.lines)
  /\ row.status = "partially_received" => arrived # {} /\ complete # 1..Len(row.lines)
  /\ row.status \in NotInForce \union {"approved"} => arrived = {}

\* The lines of a receipt are lines of its order, and there are some.
Fits(lines, o) ==
  /\ lines # <<>>
  /\ \A i \in 1..Len(lines) : lines[i].line <= Len(orders[o].lines)

\* What holds of a call that has read so much.
Held(call) ==
  /\ call.stage # "idle" =>
       /\ call.order \in Order
       /\ call.receipt # 0 => /\ call.receipt \in 1..Len(receipts)
                              /\ receipts[call.receipt].order = call.order
  /\ call.stage = "checked" =>
       /\ Fits(call.lines, call.order)
       /\ call.receipt = 0 => OpenForReceipt(call.order)
       /\ call.receipt # 0 => receipts[call.receipt].status = "draft"

WaitingGoods == TotalOf({r \in Arrivals : receipts[r].status = "posted"})
JudgedGoods(result) == TotalOf({r \in Arrivals : receipts[r].result = result})
LineHolds(o, k) ==
  /\ orders[o].lines[k].received = ArrivedOn(o, k)
  /\ orders[o].lines[k].received <= orders[o].lines[k].quantity

OrderHolds(o) ==
  /\ \A k \in 1..Len(orders[o].lines) : LineHolds(o, k)
  /\ Told(orders[o])
  /\ orders[o].status \in NotInForce => NothingLive(o)
  /\ deciding[o] # "none" => orders[o].status \in {"submitted", "cancelled"}

ReceiptHolds(r) ==
  /\ Live(r) => Fits(receipts[r].lines, receipts[r].order)
  /\ receipts[r].status # "inspected" => receipts[r].result = "none"

WarehouseHolds ==
  /\ warehouse["quarantine"] = WaitingGoods
  /\ \A result \in {"qualified", "rejected"} : warehouse[result] = JudgedGoods(result)

ProcurementInv ==
  /\ ProcurementTypeOK
  /\ \A o \in Order : OrderHolds(o)
  /\ \A r \in 1..Len(receipts) : ReceiptHolds(r)
  /\ \A c \in Clerk : Held(calls[c])
  /\ WarehouseHolds

\* A function on 1..n is a sequence of length n.
LEMMA FunctionIsSequence ==
  ASSUME NEW S, NEW n \in Nat, NEW f \in [1..n -> S]
  PROVE  f \in Seq(S) /\ Len(f) = n
<1>1. f \in Seq(S)
  BY SeqDef
<1>2. DOMAIN f = 1..n /\ Len(f) \in Nat /\ DOMAIN f = 1..Len(f)
  BY <1>1, LenProperties
<1> QED BY <1>1, <1>2

\* The lines of an order that is written have not received anything.
LEMMA FreshLines ==
  ASSUME NEW quantities \in Seq(Nat \ {0})
  PROVE  /\ Fresh(quantities) \in Seq(OrderLine)
         /\ Len(Fresh(quantities)) = Len(quantities)
         /\ \A k \in 1..Len(quantities) : Fresh(quantities)[k].received = 0
<1> DEFINE n == Len(quantities)
           f == [k \in 1..n |-> [quantity |-> quantities[k], received |-> 0]]
<1>1. n \in Nat /\ \A k \in 1..n : quantities[k] \in Nat \ {0}
  BY LenProperties, ElementOfSeq
<1>2. f \in [1..n -> OrderLine] /\ \A k \in 1..n : f[k].received = 0
  BY <1>1 DEF OrderLine
<1> HIDE DEF f
<1>3. f \in Seq(OrderLine) /\ Len(f) = n
  BY <1>1, <1>2, FunctionIsSequence
<1>4. Fresh(quantities) = f
  BY DEF Fresh, f
<1> QED BY <1>2, <1>3, <1>4

\* What is wanted of a line is a number, and not zero if the line is among the lines.
LEMMA WantedNatural ==
  ASSUME NEW lines \in Seq(ReceiptLine), NEW k
  PROVE  /\ Wanted(lines, k) \in Nat
         /\ \A i \in 1..Len(lines) : lines[i].line = k => Wanted(lines, k) > 0
<1> DEFINE n == Len(lines)
           f == [i \in 1..n |-> IF lines[i].line = k THEN lines[i].quantity ELSE 0]
<1>1. n \in Nat /\ \A i \in 1..n : lines[i] \in ReceiptLine
  BY LenProperties, ElementOfSeq
<1>2. \A i \in 1..n : lines[i].quantity \in Nat \ {0}
  BY <1>1 DEF ReceiptLine
<1>3. f \in [1..n -> Nat]
  BY <1>2
<1>4. Sum(f, n) \in Nat /\ \A i \in 1..n : f[i] <= Sum(f, n)
  BY <1>1, <1>3, SumOfNaturals
<1>5. ASSUME NEW i \in 1..n, lines[i].line = k PROVE Sum(f, n) > 0
  <2>1. f[i] = lines[i].quantity
    BY <1>5
  <2>2. f[i] \in Nat \ {0} /\ f[i] <= Sum(f, n)
    BY <2>1, <1>2, <1>4
  <2> QED BY <2>2, <1>4
<1>6. Wanted(lines, k) = Sum(f, n)
  BY DEF Wanted
<1> QED BY <1>4, <1>5, <1>6

-----------------------------------------------------------------------------
(* Columns of the receipts, for any list of rows.                          *)

Whole(lines) == Sum([i \in 1..Len(lines) |-> lines[i].quantity], Len(lines))
HasArrived(row) == row.status \in {"posted", "inspected"}

ArrivalsOf(list, o, k) ==
  [r \in 1..Len(list) |->
     IF HasArrived(list[r]) /\ list[r].order = o THEN Wanted(list[r].lines, k) ELSE 0]
WaitingOf(list) ==
  [r \in 1..Len(list) |-> IF list[r].status = "posted" THEN Whole(list[r].lines) ELSE 0]
JudgedOf(list, result) ==
  [r \in 1..Len(list) |->
     IF HasArrived(list[r]) /\ list[r].result = result THEN Whole(list[r].lines) ELSE 0]

LEMMA WholeNatural == ASSUME NEW lines \in Seq(ReceiptLine) PROVE Whole(lines) \in Nat
<1> DEFINE n == Len(lines)
           f == [i \in 1..n |-> lines[i].quantity]
<1>1. n \in Nat /\ \A i \in 1..n : lines[i] \in ReceiptLine
  BY LenProperties, ElementOfSeq
<1>2. f \in [1..n -> Nat]
  BY <1>1 DEF ReceiptLine
<1>3. Sum(f, n) \in Nat
  BY <1>1, <1>2, SumOfNaturals
<1> QED BY <1>3 DEF Whole

LEMMA RowsTyped ==
  ASSUME NEW list \in Seq(GoodsReceipt)
  PROVE  /\ Len(list) \in Nat
         /\ \A r \in 1..Len(list) :
              /\ list[r] \in GoodsReceipt /\ list[r].lines \in Seq(ReceiptLine)
              /\ list[r].order \in Order /\ list[r].status \in ReceiptStatus
              /\ Whole(list[r].lines) \in Nat
         /\ \A o, k : /\ ArrivalsOf(list, o, k) \in [1..Len(list) -> Nat]
                      /\ ArrivalsOf(list, o, k) \in [1..Len(list) -> Int]
         /\ WaitingOf(list) \in [1..Len(list) -> Int]
         /\ \A result : JudgedOf(list, result) \in [1..Len(list) -> Int]
<1>1. Len(list) \in Nat /\ \A r \in 1..Len(list) : list[r] \in GoodsReceipt
  BY LenProperties, ElementOfSeq
<1>2. \A r \in 1..Len(list) :
        /\ list[r].lines \in Seq(ReceiptLine)
        /\ list[r].order \in Order /\ list[r].status \in ReceiptStatus
  BY <1>1 DEF GoodsReceipt
<1>3. \A r \in 1..Len(list) : Whole(list[r].lines) \in Nat
  BY <1>2, WholeNatural
<1>4. ASSUME NEW o, NEW k
      PROVE  /\ ArrivalsOf(list, o, k) \in [1..Len(list) -> Nat]
             /\ ArrivalsOf(list, o, k) \in [1..Len(list) -> Int]
  <2>1. \A r \in 1..Len(list) : Wanted(list[r].lines, k) \in Nat
    BY <1>2, WantedNatural
  <2> QED BY <2>1 DEF ArrivalsOf
<1>5. WaitingOf(list) \in [1..Len(list) -> Int]
  BY <1>3 DEF WaitingOf
<1>6. \A result : JudgedOf(list, result) \in [1..Len(list) -> Int]
  BY <1>3 DEF JudgedOf
<1> QED BY <1>1, <1>2, <1>3, <1>4, <1>5, <1>6

\* What the properties add up, as totals of these columns.
GoodsAddUp ==
  /\ \A o, k : ArrivedOn(o, k) = Sum(ArrivalsOf(receipts, o, k), Len(receipts))
  /\ WaitingGoods = Sum(WaitingOf(receipts), Len(receipts))
  /\ \A result : JudgedGoods(result) = Sum(JudgedOf(receipts, result), Len(receipts))

LEMMA Goods == GoodsAddUp
<1>1. \A o, k : ArrivedOn(o, k) = Sum(ArrivalsOf(receipts, o, k), Len(receipts))
  <2> TAKE o, k
  <2> DEFINE f == [r \in 1..Len(receipts) |->
                     IF r \in Arrivals /\ receipts[r].order = o THEN Wanted(receipts[r].lines, k) ELSE 0]
  <2>1. f = ArrivalsOf(receipts, o, k)
    BY DEF Arrivals, ArrivalsOf, HasArrived
  <2> QED BY <2>1 DEF ArrivedOn
<1>2. \A S : TotalOf(S) = Sum([r \in 1..Len(receipts) |->
                                 IF r \in S THEN Whole(receipts[r].lines) ELSE 0], Len(receipts))
  BY DEF TotalOf, Total, Whole
<1>3. [r \in 1..Len(receipts) |->
         IF r \in {s \in Arrivals : receipts[s].status = "posted"} THEN Whole(receipts[r].lines) ELSE 0]
      = WaitingOf(receipts)
  BY DEF Arrivals, WaitingOf
<1>4. ASSUME NEW result
      PROVE  [r \in 1..Len(receipts) |->
               IF r \in {s \in Arrivals : receipts[s].result = result}
               THEN Whole(receipts[r].lines) ELSE 0]
             = JudgedOf(receipts, result)
  BY DEF Arrivals, JudgedOf, HasArrived
<1>5. WaitingGoods = Sum(WaitingOf(receipts), Len(receipts))
  BY <1>2, <1>3 DEF WaitingGoods
<1>6. \A result : JudgedGoods(result) = Sum(JudgedOf(receipts, result), Len(receipts))
  BY <1>2, <1>4 DEF JudgedGoods
<1> QED BY <1>1, <1>5, <1>6 DEF GoodsAddUp

LEMMA GoodsNext == GoodsAddUp'
BY Goods, PTL

\* Rows may change that have not arrived, before or after.
LEMMA QuietRows ==
  ASSUME NEW list \in Seq(GoodsReceipt), NEW after \in Seq(GoodsReceipt),
         Len(after) = Len(list),
         \A r \in 1..Len(list) :
           after[r] # list[r] => ~ HasArrived(list[r]) /\ ~ HasArrived(after[r])
  PROVE  /\ \A o, k : ArrivalsOf(after, o, k) = ArrivalsOf(list, o, k)
         /\ WaitingOf(after) = WaitingOf(list)
         /\ \A result : JudgedOf(after, result) = JudgedOf(list, result)
<1>1. \A o, k : ArrivalsOf(after, o, k) = ArrivalsOf(list, o, k)
  BY DEF ArrivalsOf
<1>2. WaitingOf(after) = WaitingOf(list)
  BY DEF WaitingOf, HasArrived
<1>3. \A result : JudgedOf(after, result) = JudgedOf(list, result)
  BY DEF JudgedOf
<1> QED BY <1>1, <1>2, <1>3

GoodsKept ==
  /\ \A o, k : ArrivedOn(o, k)' = ArrivedOn(o, k)
  /\ WaitingGoods' = WaitingGoods
  /\ \A result : JudgedGoods(result)' = JudgedGoods(result)

LEMMA QuietKeepsGoods ==
  ASSUME ProcurementTypeOK, receipts' \in Seq(GoodsReceipt), Len(receipts') = Len(receipts),
         \A r \in 1..Len(receipts) :
           receipts'[r] # receipts[r] => ~ HasArrived(receipts[r]) /\ ~ HasArrived(receipts'[r])
  PROVE  GoodsKept
<1>1. receipts \in Seq(GoodsReceipt)
  BY DEF ProcurementTypeOK
<1>2. /\ \A o, k : ArrivalsOf(receipts', o, k) = ArrivalsOf(receipts, o, k)
      /\ WaitingOf(receipts') = WaitingOf(receipts)
      /\ \A result : JudgedOf(receipts', result) = JudgedOf(receipts, result)
  BY <1>1, QuietRows
<1> QED BY <1>2, Goods, GoodsNext DEF GoodsAddUp, GoodsKept

\* A new draft has not arrived.
LEMMA AppendKeepsGoods ==
  ASSUME ProcurementTypeOK, NEW row \in GoodsReceipt, ~ HasArrived(row),
         receipts' = Append(receipts, row)
  PROVE  GoodsKept
<1> DEFINE n == Len(receipts)
<1>1. receipts \in Seq(GoodsReceipt)
  BY DEF ProcurementTypeOK
<1>2. /\ receipts' \in Seq(GoodsReceipt) /\ Len(receipts') = n + 1
      /\ receipts'[n + 1] = row
      /\ \A r \in 1..n : receipts'[r] = receipts[r]
  BY <1>1, AppendProperties
<1>3. n \in Nat /\ n + 1 \in 1..(n + 1) /\ \A r \in 1..n : r \in 1..(n + 1)
  BY <1>1, LenProperties
<1>4. ASSUME NEW o, NEW k
      PROVE  Sum(ArrivalsOf(receipts', o, k), n + 1) = Sum(ArrivalsOf(receipts, o, k), n)
  <2> DEFINE f == ArrivalsOf(receipts, o, k)
             h == ArrivalsOf(receipts', o, k)
  <2>1. f \in [1..n -> Int] /\ h \in [1..(n + 1) -> Int]
    BY <1>1, <1>2, RowsTyped
  <2>2. (\A r \in 1..n : h[r] = f[r]) /\ h[n + 1] = 0
    BY <1>2, <1>3 DEF ArrivalsOf
  <2> HIDE DEF f, h
  <2>3. Sum(h, n + 1) = Sum(f, n) + h[n + 1] /\ Sum(f, n) \in Int
    BY <1>3, <2>1, <2>2, SumAppend, SumType
  <2>4. Sum(h, n + 1) = Sum(f, n)
    BY <2>2, <2>3
  <2> QED BY <2>4 DEF f, h
<1>5. Sum(WaitingOf(receipts'), n + 1) = Sum(WaitingOf(receipts), n)
  <2> DEFINE f == WaitingOf(receipts)
             h == WaitingOf(receipts')
  <2>1. f \in [1..n -> Int] /\ h \in [1..(n + 1) -> Int]
    BY <1>1, <1>2, RowsTyped
  <2>2. (\A r \in 1..n : h[r] = f[r]) /\ h[n + 1] = 0
    BY <1>2, <1>3 DEF WaitingOf, HasArrived
  <2> HIDE DEF f, h
  <2>3. Sum(h, n + 1) = Sum(f, n) + h[n + 1] /\ Sum(f, n) \in Int
    BY <1>3, <2>1, <2>2, SumAppend, SumType
  <2>4. Sum(h, n + 1) = Sum(f, n)
    BY <2>2, <2>3
  <2> QED BY <2>4 DEF f, h
<1>6. ASSUME NEW result
      PROVE  Sum(JudgedOf(receipts', result), n + 1) = Sum(JudgedOf(receipts, result), n)
  <2> DEFINE f == JudgedOf(receipts, result)
             h == JudgedOf(receipts', result)
  <2>1. f \in [1..n -> Int] /\ h \in [1..(n + 1) -> Int]
    BY <1>1, <1>2, RowsTyped
  <2>2. (\A r \in 1..n : h[r] = f[r]) /\ h[n + 1] = 0
    BY <1>2, <1>3 DEF JudgedOf
  <2> HIDE DEF f, h
  <2>3. Sum(h, n + 1) = Sum(f, n) + h[n + 1] /\ Sum(f, n) \in Int
    BY <1>3, <2>1, <2>2, SumAppend, SumType
  <2>4. Sum(h, n + 1) = Sum(f, n)
    BY <2>2, <2>3
  <2> QED BY <2>4 DEF f, h
<1> QED BY <1>2, <1>4, <1>5, <1>6, Goods, GoodsNext DEF GoodsAddUp, GoodsKept

\* One row becomes another of the same order with the same lines.
RowBecomes(r, row) ==
  /\ receipts' = [receipts EXCEPT ![r] = row]
  /\ row.order = receipts[r].order /\ row.lines = receipts[r].lines

LEMMA BecameRow ==
  ASSUME ProcurementTypeOK, NEW r \in 1..Len(receipts), NEW row \in GoodsReceipt,
         RowBecomes(r, row)
  PROVE  /\ receipts' \in Seq(GoodsReceipt) /\ Len(receipts') = Len(receipts)
         /\ receipts'[r] = row
         /\ \A s \in 1..Len(receipts) : s # r => receipts'[s] = receipts[s]
         /\ Len(receipts) \in Nat /\ receipts \in Seq(GoodsReceipt)
<1>1. receipts \in Seq(GoodsReceipt)
  BY DEF ProcurementTypeOK
<1>2. receipts' = [receipts EXCEPT ![r] = row]
  BY DEF RowBecomes
<1>3. receipts' \in Seq(GoodsReceipt) /\ Len(receipts') = Len(receipts)
  BY <1>1, <1>2, ExceptSeq
<1>4. \A s \in 1..Len(receipts) : receipts'[s] = IF s = r THEN row ELSE receipts[s]
  BY <1>1, <1>2, ExceptSeq
<1> QED BY <1>1, <1>3, <1>4, LenProperties

\* The goods of a receipt that is posted wait for their inspection.
LEMMA PostedGoods ==
  ASSUME ProcurementTypeOK, NEW r \in 1..Len(receipts), NEW row \in GoodsReceipt,
         RowBecomes(r, row), receipts[r].status = "draft", row.status = "posted",
         row.result = "none"
  PROVE  /\ \A o, k : ArrivedOn(o, k)' = ArrivedOn(o, k) +
                        (IF row.order = o THEN Wanted(row.lines, k) ELSE 0)
         /\ WaitingGoods' = WaitingGoods + Whole(row.lines)
         /\ \A result : result # "none" => JudgedGoods(result)' = JudgedGoods(result)
<1> DEFINE n == Len(receipts)
<1>1. /\ receipts' \in Seq(GoodsReceipt) /\ Len(receipts') = n
      /\ receipts'[r] = row
      /\ \A s \in 1..n : s # r => receipts'[s] = receipts[s]
      /\ n \in Nat /\ receipts \in Seq(GoodsReceipt)
  BY BecameRow
<1>2. ASSUME NEW o, NEW k
      PROVE  Sum(ArrivalsOf(receipts', o, k), n) = Sum(ArrivalsOf(receipts, o, k), n) +
               (IF row.order = o THEN Wanted(row.lines, k) ELSE 0)
  <2> DEFINE f == ArrivalsOf(receipts, o, k)
             g == ArrivalsOf(receipts', o, k)
             more == IF row.order = o THEN Wanted(row.lines, k) ELSE 0
  <2>1. f \in [1..n -> Int] /\ g \in [1..n -> Int]
    BY <1>1, RowsTyped
  <2>2. (\A s \in 1..n : s # r => g[s] = f[s]) /\ f[r] = 0 /\ g[r] = more
    BY <1>1 DEF ArrivalsOf, HasArrived
  <2> HIDE DEF f, g, more
  <2>3. Sum(g, n) = Sum(f, n) + g[r] - f[r] /\ Sum(f, n) \in Int /\ g[r] \in Int
    BY <1>1, <2>1, <2>2, SumChange, SumType
  <2>4. Sum(g, n) = Sum(f, n) + more
    BY <2>2, <2>3
  <2> QED BY <2>4 DEF f, g, more
<1>3. Sum(WaitingOf(receipts'), n) = Sum(WaitingOf(receipts), n) + Whole(row.lines)
  <2> DEFINE f == WaitingOf(receipts)
             g == WaitingOf(receipts')
  <2>1. f \in [1..n -> Int] /\ g \in [1..n -> Int]
    BY <1>1, RowsTyped
  <2>2. (\A s \in 1..n : s # r => g[s] = f[s]) /\ f[r] = 0 /\ g[r] = Whole(row.lines)
    BY <1>1 DEF WaitingOf
  <2> HIDE DEF f, g
  <2>3. Sum(g, n) = Sum(f, n) + g[r] - f[r] /\ Sum(f, n) \in Int /\ g[r] \in Int
    BY <1>1, <2>1, <2>2, SumChange, SumType
  <2>4. Sum(g, n) = Sum(f, n) + Whole(row.lines)
    BY <2>2, <2>3
  <2> QED BY <2>4 DEF f, g
<1>4. ASSUME NEW result, result # "none"
      PROVE  JudgedOf(receipts', result) = JudgedOf(receipts, result)
  BY <1>1, <1>4 DEF JudgedOf, HasArrived
<1> QED BY <1>1, <1>2, <1>3, <1>4, Goods, GoodsNext DEF GoodsAddUp

\* They go where the result of the inspection says.
LEMMA InspectedGoods ==
  ASSUME ProcurementTypeOK, NEW r \in 1..Len(receipts), NEW row \in GoodsReceipt,
         RowBecomes(r, row), receipts[r].status = "posted", receipts[r].result = "none",
         row.status = "inspected", row.result # "none"
  PROVE  /\ \A o, k : ArrivedOn(o, k)' = ArrivedOn(o, k)
         /\ WaitingGoods' = WaitingGoods - Whole(row.lines)
         /\ JudgedGoods(row.result)' = JudgedGoods(row.result) + Whole(row.lines)
         /\ \A result : result \notin {"none", row.result} =>
              JudgedGoods(result)' = JudgedGoods(result)
<1> DEFINE n == Len(receipts)
<1>1. /\ receipts' \in Seq(GoodsReceipt) /\ Len(receipts') = n
      /\ receipts'[r] = row
      /\ \A s \in 1..n : s # r => receipts'[s] = receipts[s]
      /\ n \in Nat /\ receipts \in Seq(GoodsReceipt)
  BY BecameRow
<1>0. row.order = receipts[r].order /\ row.lines = receipts[r].lines
  BY DEF RowBecomes
<1>2. \A o, k : ArrivalsOf(receipts', o, k) = ArrivalsOf(receipts, o, k)
  BY <1>0, <1>1 DEF ArrivalsOf, HasArrived
<1>3. Sum(WaitingOf(receipts'), n) = Sum(WaitingOf(receipts), n) - Whole(row.lines)
  <2> DEFINE f == WaitingOf(receipts)
             g == WaitingOf(receipts')
  <2>1. f \in [1..n -> Int] /\ g \in [1..n -> Int]
    BY <1>1, RowsTyped
  <2>2. (\A s \in 1..n : s # r => g[s] = f[s]) /\ f[r] = Whole(row.lines) /\ g[r] = 0
    BY <1>0, <1>1 DEF WaitingOf
  <2> HIDE DEF f, g
  <2>3. Sum(g, n) = Sum(f, n) + g[r] - f[r] /\ Sum(f, n) \in Int /\ f[r] \in Int
    BY <1>1, <2>1, <2>2, SumChange, SumType
  <2>4. Sum(g, n) = Sum(f, n) - Whole(row.lines)
    BY <2>2, <2>3
  <2> QED BY <2>4 DEF f, g
<1>4. Sum(JudgedOf(receipts', row.result), n) = Sum(JudgedOf(receipts, row.result), n) + Whole(row.lines)
  <2> DEFINE f == JudgedOf(receipts, row.result)
             g == JudgedOf(receipts', row.result)
  <2>1. f \in [1..n -> Int] /\ g \in [1..n -> Int]
    BY <1>1, RowsTyped
  <2>2. (\A s \in 1..n : s # r => g[s] = f[s]) /\ f[r] = 0 /\ g[r] = Whole(row.lines)
    BY <1>1 DEF JudgedOf, HasArrived
  <2> HIDE DEF f, g
  <2>3. Sum(g, n) = Sum(f, n) + g[r] - f[r] /\ Sum(f, n) \in Int /\ g[r] \in Int
    BY <1>1, <2>1, <2>2, SumChange, SumType
  <2>4. Sum(g, n) = Sum(f, n) + Whole(row.lines)
    BY <2>2, <2>3
  <2> QED BY <2>4 DEF f, g
<1>5. ASSUME NEW result, result \notin {"none", row.result}
      PROVE  JudgedOf(receipts', result) = JudgedOf(receipts, result)
  BY <1>1, <1>5 DEF JudgedOf, HasArrived
<1>6. \A result : result \notin {"none", row.result} => JudgedGoods(result)' = JudgedGoods(result)
  BY <1>1, <1>5, Goods, GoodsNext DEF GoodsAddUp
<1> QED BY <1>1, <1>2, <1>3, <1>4, <1>6, Goods, GoodsNext DEF GoodsAddUp

-----------------------------------------------------------------------------
(* What a step leaves standing.                                            *)

ProcurementTyped ==
  /\ receipts \in Seq(GoodsReceipt) /\ Len(receipts) \in Nat
  /\ \A r \in 1..Len(receipts) : receipts[r] \in GoodsReceipt /\ receipts[r].order \in Order
  /\ \A o \in Order : /\ orders[o] \in PurchaseOrder /\ orders[o].lines \in Seq(OrderLine)
                      /\ Len(orders[o].lines) \in Nat
  /\ \A c \in Clerk : calls[c] \in Call

LEMMA ProcurementSizes == ASSUME ProcurementTypeOK PROVE ProcurementTyped
<1>1. /\ receipts \in Seq(GoodsReceipt) /\ Len(receipts) \in Nat
      /\ \A r \in 1..Len(receipts) : receipts[r] \in GoodsReceipt /\ receipts[r].order \in Order
  BY RowsTyped DEF ProcurementTypeOK
<1>2. \A o \in Order : orders[o] \in PurchaseOrder /\ orders[o].lines \in Seq(OrderLine)
  BY DEF ProcurementTypeOK, PurchaseOrder
<1>3. \A o \in Order : Len(orders[o].lines) \in Nat
  BY <1>2, LenProperties
<1>4. \A c \in Clerk : calls[c] \in Call
  BY DEF ProcurementTypeOK
<1> QED BY <1>1, <1>2, <1>3, <1>4 DEF ProcurementTyped

\* A call that did nothing itself: rows it has locked are as it found them.
LEMMA CallStands ==
  ASSUME ProcurementInv, NEW c \in Clerk, calls'[c] = calls[c],
         Len(receipts') \in Nat, Len(receipts) <= Len(receipts'),
         \A r \in 1..Len(receipts) :
           /\ receipts'[r].order = receipts[r].order
           /\ receipts'[r].status = receipts[r].status \/ ReceiptFree(r),
         \A o \in Order :
           /\ orders'[o].status = orders[o].status \/ OrderFree(o)
           /\ Len(orders'[o].lines) = Len(orders[o].lines) \/ NothingChecked(o)
  PROVE  Held(calls[c])'
<1> DEFINE call == calls[c]
<1>0. Held(call) /\ ProcurementTyped
  BY ProcurementSizes DEF ProcurementInv
<1>1. ASSUME call.stage # "idle"
      PROVE  /\ call.order \in Order
             /\ call.receipt # 0 => /\ call.receipt \in 1..Len(receipts')
                                    /\ receipts'[call.receipt].order = call.order
  <2>1. /\ call.order \in Order
        /\ call.receipt # 0 => /\ call.receipt \in 1..Len(receipts)
                               /\ receipts[call.receipt].order = call.order
    BY <1>0, <1>1 DEF Held
  <2>2. 1..Len(receipts) \subseteq 1..Len(receipts')
    BY <1>0 DEF ProcurementTyped
  <2> QED BY <2>1, <2>2
<1>2. ASSUME call.stage = "checked"
      PROVE  /\ Fits(call.lines, call.order)'
             /\ call.receipt = 0 => OpenForReceipt(call.order)'
             /\ call.receipt # 0 => receipts'[call.receipt].status = "draft"
  <2>1. /\ call.order \in Order
        /\ call.receipt # 0 => call.receipt \in 1..Len(receipts)
        /\ Fits(call.lines, call.order)
        /\ call.receipt = 0 => OpenForReceipt(call.order)
        /\ call.receipt # 0 => receipts[call.receipt].status = "draft"
    BY <1>0, <1>2 DEF Held
  <2>2. Checked(c) /\ ~ NothingChecked(call.order)
    BY <1>2 DEF Checked, NothingChecked
  <2>3. Len(orders'[call.order].lines) = Len(orders[call.order].lines)
    BY <2>1, <2>2
  <2>4. Fits(call.lines, call.order)'
    BY <2>1, <2>3 DEF Fits
  <2>5. call.receipt = 0 => ~ OrderFree(call.order)
    BY <2>2 DEF OrderFree
  <2>6. call.receipt # 0 => ~ ReceiptFree(call.receipt)
    BY <2>2 DEF ReceiptFree
  <2>7. call.receipt = 0 => OpenForReceipt(call.order)'
    BY <2>1, <2>5 DEF OpenForReceipt
  <2>8. call.receipt # 0 => receipts'[call.receipt].status = "draft"
    BY <2>1, <2>6
  <2> QED BY <2>4, <2>7, <2>8
<1> QED BY <1>1, <1>2 DEF Held

\* A receipt whose row and whose order's lines stay.
LEMMA ReceiptStands ==
  ASSUME ProcurementInv, NEW r \in 1..Len(receipts), receipts'[r] = receipts[r],
         LET o == receipts[r].order IN
           Len(orders'[o].lines) = Len(orders[o].lines) \/ NothingLive(o)
  PROVE  ReceiptHolds(r)'
<1> DEFINE o == receipts[r].order
<1>1. ReceiptHolds(r)
  BY DEF ProcurementInv
<1>2. ASSUME Live(r) PROVE Fits(receipts[r].lines, receipts[r].order)'
  <2>1. ~ NothingLive(o)
    BY <1>2 DEF NothingLive, ReceiptsOf
  <2>2. Len(orders'[o].lines) = Len(orders[o].lines)
    BY <2>1
  <2>3. Fits(receipts[r].lines, o)
    BY <1>1, <1>2 DEF ReceiptHolds
  <2> QED BY <2>2, <2>3 DEF Fits
<1> QED BY <1>1, <1>2 DEF ReceiptHolds, Live

\* An order that nothing happened to, while receipts of other orders, or none, arrived.
LEMMA OrderStands ==
  ASSUME ProcurementInv, NEW o \in Order, orders'[o] = orders[o], deciding'[o] = deciding[o],
         \A k : ArrivedOn(o, k)' = ArrivedOn(o, k),
         orders[o].status \in NotInForce /\ NothingLive(o) => NothingLive(o)'
  PROVE  OrderHolds(o)'
<1>1. OrderHolds(o)
  BY DEF ProcurementInv
<1>2. \A k \in 1..Len(orders[o].lines) : LineHolds(o, k)'
  BY <1>1 DEF OrderHolds, LineHolds
<1> QED BY <1>1, <1>2 DEF OrderHolds

\* Nothing arrived of an order none of whose receipts is live.
LEMMA NothingArrived ==
  ASSUME ProcurementTypeOK, NEW o, NEW k, NothingLive(o)
  PROVE  ArrivedOn(o, k) = 0
<1>1. \A r \in 1..Len(receipts) : ArrivalsOf(receipts, o, k)[r] = 0
  BY DEF ArrivalsOf, HasArrived, NothingLive, ReceiptsOf, Live
<1>2. receipts \in Seq(GoodsReceipt)
  BY DEF ProcurementTypeOK
<1>3. Len(receipts) \in Nat /\ ArrivalsOf(receipts, o, k) \in [1..Len(receipts) -> Int]
  BY <1>2, RowsTyped
<1>4. Sum(ArrivalsOf(receipts, o, k), Len(receipts)) = 0
  BY <1>1, <1>3, SumZero
<1> QED BY <1>4, Goods DEF GoodsAddUp

SameReceipts == UNCHANGED <<receipts, calls, warehouse>>
RequisitionsTyped == requisitions \in [Requisition -> [status : RequisitionStatus, ordered : Nat]]
DecidingTyped == deciding \in [Order -> {"none", "pending", "read"}]

LEMMA NothingMoves ==
  ASSUME ProcurementInv, UNCHANGED receipts
  PROVE  GoodsKept
<1>1. ProcurementTypeOK /\ receipts \in Seq(GoodsReceipt)
  BY DEF ProcurementInv, ProcurementTypeOK
<1> QED BY <1>1, QuietKeepsGoods

LEMMA WarehouseStands ==
  ASSUME ProcurementInv, GoodsKept, UNCHANGED warehouse
  PROVE  WarehouseHolds'
BY DEF ProcurementInv, WarehouseHolds, GoodsKept

\* The row of an order is saved: with the lines it had, or with new ones while no receipt
\* needs the old ones.
LEMMA OrderSaved ==
  ASSUME ProcurementInv, NEW o \in Order, NEW row \in PurchaseOrder,
         orders' = [orders EXCEPT ![o] = row], SameReceipts, RequisitionsTyped',
         DecidingTyped', \A p \in Order \ {o} : deciding'[p] = deciding[p],
         deciding'[o] # "none" => row.status \in {"submitted", "cancelled"},
         OrderFree(o),
         \/ row.lines = orders[o].lines
         \/ /\ NothingLive(o) /\ NothingChecked(o)
            /\ \A k \in 1..Len(row.lines) : row.lines[k].received = 0,
         Told(row), row.status \in NotInForce => NothingLive(o)
  PROVE  ProcurementInv'
<1>1. ProcurementTypeOK /\ ProcurementTyped
  BY ProcurementSizes DEF ProcurementInv
<1>2. orders'[o] = row /\ \A p \in Order \ {o} : orders'[p] = orders[p]
  BY <1>1 DEF ProcurementTypeOK
<1>3. ProcurementTypeOK'
  BY <1>1 DEF ProcurementTypeOK, RequisitionsTyped, DecidingTyped, SameReceipts
<1>4. GoodsKept
  BY NothingMoves DEF SameReceipts
<1>5. \A p : NothingLive(p) => NothingLive(p)'
  BY DEF SameReceipts, NothingLive, ReceiptsOf, Live
<1>6. ASSUME NEW p \in Order \ {o} PROVE OrderHolds(p)'
  BY <1>2, <1>4, <1>5, OrderStands DEF GoodsKept
<1>7. OrderHolds(o)'
  <2>1. ASSUME NEW k \in 1..Len(row.lines)
        PROVE  /\ row.lines[k].received = ArrivedOn(o, k)
               /\ row.lines[k].received <= row.lines[k].quantity
    <3>1. CASE row.lines = orders[o].lines
      BY <3>1 DEF ProcurementInv, OrderHolds, LineHolds
    <3>2. CASE /\ NothingLive(o)
               /\ \A j \in 1..Len(row.lines) : row.lines[j].received = 0
      <4>1. ArrivedOn(o, k) = 0 /\ row.lines[k].received = 0
        BY <3>2, <1>1, NothingArrived
      <4>2. row.lines[k] \in OrderLine
        BY ElementOfSeq DEF PurchaseOrder
      <4> QED BY <4>1, <4>2 DEF OrderLine
    <3> QED BY <3>1, <3>2
  <2>2. \A k \in 1..Len(row.lines) : LineHolds(o, k)'
    BY <1>2, <1>4, <2>1 DEF LineHolds, GoodsKept
  <2>3. row.status \in NotInForce => NothingLive(o)'
    BY <1>5
  <2> QED BY <1>2, <2>2, <2>3 DEF OrderHolds
<1>8. ASSUME NEW p \in Order
      PROVE  /\ orders'[p].status = orders[p].status \/ OrderFree(p)
             /\ Len(orders'[p].lines) = Len(orders[p].lines) \/ NothingChecked(p)
             /\ Len(orders'[p].lines) = Len(orders[p].lines) \/ NothingLive(p)
  BY <1>2
<1>9. ASSUME NEW r \in 1..Len(receipts') PROVE ReceiptHolds(r)'
  <2>1. r \in 1..Len(receipts) /\ receipts'[r] = receipts[r] /\ receipts[r].order \in Order
    BY <1>1 DEF SameReceipts, ProcurementTyped
  <2> QED BY <2>1, <1>8, ReceiptStands
<1>10. ASSUME NEW c \in Clerk PROVE Held(calls[c])'
  <2>1. /\ calls'[c] = calls[c] /\ receipts' = receipts
        /\ Len(receipts) \in Nat /\ Len(receipts) <= Len(receipts')
    BY <1>1 DEF SameReceipts, ProcurementTyped
  <2> QED BY <2>1, <1>8, CallStands
<1>11. WarehouseHolds'
  BY <1>4, WarehouseStands DEF SameReceipts
<1> QED BY <1>3, <1>6, <1>7, <1>9, <1>10, <1>11 DEF ProcurementInv

\* No line of an order that is not in force, or only approved, has received anything.
LEMMA ToldOfNothing ==
  ASSUME NEW row \in PurchaseOrder, row.status \in NotInForce \union {"approved"}
  PROVE  Told(row) <=> \A k \in 1..Len(row.lines) : ~ row.lines[k].received > 0
BY DEF Told, NotInForce

\* An order none of whose receipts is live has received nothing.
LEMMA NothingReceived ==
  ASSUME ProcurementInv, NEW o \in Order, NothingLive(o)
  PROVE  \A k \in 1..Len(orders[o].lines) : orders[o].lines[k].received = 0
<1>1. \A k \in 1..Len(orders[o].lines) : ArrivedOn(o, k) = 0
  BY NothingArrived DEF ProcurementInv
<1> QED BY <1>1 DEF ProcurementInv, OrderHolds, LineHolds

\* No call writes a receipt for an order that is not in force.
LEMMA NothingWritten ==
  ASSUME ProcurementInv, NEW o \in Order, orders[o].status \in NotInForce
  PROVE  NothingLive(o) /\ NothingChecked(o) /\ OrderFree(o)
<1>1. NothingLive(o)
  BY DEF ProcurementInv, OrderHolds
<1>2. ASSUME NEW c \in Clerk, Checked(c), calls[c].order = o PROVE FALSE
  <2>1. Held(calls[c])
    BY DEF ProcurementInv
  <2>2. calls[c].receipt # 0
    BY <1>2, <2>1 DEF Held, Checked, OpenForReceipt, NotInForce
  <2>3. calls[c].receipt \in ReceiptsOf(o) /\ receipts[calls[c].receipt].status = "draft"
    BY <1>2, <2>1, <2>2 DEF Held, Checked, ReceiptsOf
  <2> QED BY <2>3, <1>1 DEF NothingLive, Live
<1>3. NothingChecked(o)
  BY <1>2 DEF NothingChecked
<1> QED BY <1>1, <1>3 DEF NothingChecked, OrderFree

-----------------------------------------------------------------------------
(* Requisitions and orders.                                                *)

\* Nothing of an order, a receipt, a call or the warehouse changed.
LEMMA SupplyUntouched ==
  ASSUME ProcurementInv, UNCHANGED <<orders, receipts, deciding, calls, warehouse>>,
         RequisitionsTyped'
  PROVE  ProcurementInv'
<1>1. ProcurementTypeOK /\ ProcurementTyped /\ GoodsKept
  BY ProcurementSizes, NothingMoves DEF ProcurementInv
<1>2. ProcurementTypeOK'
  BY <1>1 DEF ProcurementTypeOK, RequisitionsTyped
<1>3. \A o : NothingLive(o) => NothingLive(o)'
  BY DEF NothingLive, ReceiptsOf, Live
<1>4. \A o \in Order : OrderHolds(o)'
  BY <1>1, <1>3, OrderStands DEF GoodsKept
<1>5. ASSUME NEW r \in 1..Len(receipts') PROVE ReceiptHolds(r)'
  BY ReceiptStands
<1>6. ASSUME NEW c \in Clerk PROVE Held(calls[c])'
  BY <1>1, CallStands DEF ProcurementTyped
<1>7. WarehouseHolds'
  BY <1>1, WarehouseStands
<1> QED BY <1>2, <1>4, <1>5, <1>6, <1>7 DEF ProcurementInv

LEMMA CancelRequisitionKeeps ==
  ASSUME ProcurementInv, NEW q \in Requisition, CancelRequisition(q) PROVE ProcurementInv'
<1>1. requisitions \in [Requisition -> [status : RequisitionStatus, ordered : Nat]]
  BY DEF ProcurementInv, ProcurementTypeOK
<1>2. requisitions' = [requisitions EXCEPT ![q].status = "cancelled"]
  BY DEF CancelRequisition
<1>3. requisitions' \in [Requisition -> [status : RequisitionStatus, ordered : Nat]]
  BY <1>1, <1>2 DEF RequisitionStatus
<1> QED BY <1>3, SupplyUntouched DEF CancelRequisition, RequisitionsTyped

\* An order that nothing was written for gets new lines.
LEMMA DraftKeeps ==
  ASSUME ProcurementInv, NEW o \in Order, orders[o].status \in {"none", "draft"},
         NEW quantities \in Seq(Nat \ {0}), NEW source \in Requisition \union {None},
         orders' = [orders EXCEPT ![o] = [status |-> "draft", lines |-> Fresh(quantities),
                                          source |-> source]],
         SameReceipts, UNCHANGED deciding, RequisitionsTyped'
  PROVE  ProcurementInv'
<1> DEFINE row == [status |-> "draft", lines |-> Fresh(quantities), source |-> source]
<1>1. NothingLive(o) /\ NothingChecked(o) /\ OrderFree(o)
  BY NothingWritten DEF NotInForce
<1>2. row \in PurchaseOrder /\ \A k \in 1..Len(row.lines) : row.lines[k].received = 0
  BY FreshLines DEF PurchaseOrder, OrderStatus
<1>3. Told(row)
  BY <1>2, ToldOfNothing DEF NotInForce
<1>4. DecidingTyped' /\ deciding'[o] = "none"
  BY DEF ProcurementInv, ProcurementTypeOK, DecidingTyped, OrderHolds
<1> HIDE DEF row
<1>5. orders' = [orders EXCEPT ![o] = row]
  BY DEF row
<1> QED BY <1>1, <1>2, <1>3, <1>4, <1>5, OrderSaved

LEMMA QuantitiesGiven ==
  ASSUME NEW quantities \in OrderLines PROVE quantities \in Seq(Nat \ {0})
BY ProcurementInputs

LEMMA CreateOrderKeeps ==
  ASSUME ProcurementInv, NEW o \in Order, NEW quantities \in OrderLines,
         NEW q \in Requisition \union {None}, CreateOrder(o, quantities, q)
  PROVE  ProcurementInv'
<1>1. RequisitionsTyped' /\ UNCHANGED deciding /\ SameReceipts
  BY DEF CreateOrder, ProcurementInv, ProcurementTypeOK, RequisitionsTyped, SameReceipts
<1>2. /\ orders[o].status \in {"none", "draft"}
      /\ orders' = [orders EXCEPT ![o] = [status |-> "draft", lines |-> Fresh(quantities),
                                          source |-> q]]
  BY DEF CreateOrder, Draft
<1> QED BY <1>1, <1>2, QuantitiesGiven, DraftKeeps

LEMMA ConvertRequisitionKeeps ==
  ASSUME ProcurementInv, NEW o \in Order, NEW q \in Requisition, NEW n \in 1..Requested[q],
         ConvertRequisition(q, o, n)
  PROVE  ProcurementInv'
<1>1. requisitions \in [Requisition -> [status : RequisitionStatus, ordered : Nat]]
  BY DEF ProcurementInv, ProcurementTypeOK
<1>2. n \in Nat \ {0} /\ <<n>> \in Seq(Nat \ {0})
  BY ProcurementInputs
<1>3. requisitions' = [requisitions EXCEPT ![q].ordered = @ + n]
  BY DEF ConvertRequisition
<1>4. requisitions' \in [Requisition -> [status : RequisitionStatus, ordered : Nat]]
  BY <1>1, <1>2, <1>3
<1>5. /\ RequisitionsTyped' /\ UNCHANGED deciding /\ SameReceipts
  BY <1>4 DEF ConvertRequisition, RequisitionsTyped, SameReceipts
<1>6. /\ orders[o].status \in {"none", "draft"}
      /\ orders' = [orders EXCEPT ![o] = [status |-> "draft", lines |-> Fresh(<<n>>),
                                          source |-> q]]
  BY DEF ConvertRequisition, Draft
<1> QED BY <1>2, <1>5, <1>6, DraftKeeps

LEMMA UpdateOrderKeeps ==
  ASSUME ProcurementInv, NEW o \in Order, NEW quantities \in OrderLines,
         UpdateOrder(o, quantities)
  PROVE  ProcurementInv'
<1>1. RequisitionsTyped' /\ UNCHANGED deciding /\ SameReceipts
  BY DEF UpdateOrder, ProcurementInv, ProcurementTypeOK, RequisitionsTyped, SameReceipts
<1>2. orders[o] \in PurchaseOrder /\ orders \in [Order -> PurchaseOrder]
  BY DEF ProcurementInv, ProcurementTypeOK
<1>3. orders[o].status = "draft" /\ orders' = [orders EXCEPT ![o].lines = Fresh(quantities)]
  BY DEF UpdateOrder
<1>4. [orders[o] EXCEPT !.lines = Fresh(quantities)]
        = [status |-> "draft", lines |-> Fresh(quantities), source |-> orders[o].source]
      /\ orders[o].source \in Requisition \union {None}
  BY <1>2, <1>3 DEF PurchaseOrder
<1>5. orders' = [orders EXCEPT ![o] = [status |-> "draft", lines |-> Fresh(quantities),
                                       source |-> orders[o].source]]
  BY <1>2, <1>3, <1>4
<1> QED BY <1>1, <1>3, <1>4, <1>5, QuantitiesGiven, DraftKeeps

\* The status of an order changes and its lines do not.
LEMMA StatusKeeps ==
  ASSUME ProcurementInv, NEW o \in Order, NEW status \in OrderStatus,
         orders' = [orders EXCEPT ![o].status = status], SameReceipts, UNCHANGED requisitions,
         NEW stage \in {"none", "pending", "read"}, deciding' = [deciding EXCEPT ![o] = stage],
         stage # "none" => status \in {"submitted", "cancelled"},
         OrderFree(o),
         \/ status = "closed" \/ status = orders[o].status
         \/ NothingLive(o) /\ status \in NotInForce \union {"approved"}
  PROVE  ProcurementInv'
<1> DEFINE row == [orders[o] EXCEPT !.status = status]
<1>1. orders \in [Order -> PurchaseOrder] /\ orders[o] \in PurchaseOrder
  BY DEF ProcurementInv, ProcurementTypeOK
<1>2. row \in PurchaseOrder /\ row.status = status /\ row.lines = orders[o].lines
  BY <1>1 DEF PurchaseOrder
<1>3. orders' = [orders EXCEPT ![o] = row]
  BY <1>1
<1> HIDE DEF row
<1>4. Told(row) /\ (status \in NotInForce => NothingLive(o))
  <2>1. CASE status = "closed"
    BY <2>1, <1>2 DEF Told, NotInForce
  <2>2. CASE status = orders[o].status
    <3>1. Told(orders[o]) /\ (orders[o].status \in NotInForce => NothingLive(o))
      BY DEF ProcurementInv, OrderHolds
    <3> QED BY <3>1, <2>2, <1>2 DEF Told
  <2>3. CASE NothingLive(o) /\ status \in NotInForce \union {"approved"}
    <3>1. \A k \in 1..Len(row.lines) : ~ row.lines[k].received > 0
      BY <2>3, <1>2, NothingReceived
    <3> QED BY <2>3, <3>1, <1>2, ToldOfNothing
  <2> QED BY <2>1, <2>2, <2>3
<1>5. /\ DecidingTyped' /\ \A p \in Order \ {o} : deciding'[p] = deciding[p]
      /\ deciding'[o] = stage
  BY DEF ProcurementInv, ProcurementTypeOK, DecidingTyped
<1>6. RequisitionsTyped'
  BY DEF ProcurementInv, ProcurementTypeOK, RequisitionsTyped
<1> QED BY <1>2, <1>3, <1>4, <1>5, <1>6, OrderSaved

\* While an approval is under way, nothing is live.
LEMMA NothingDecided ==
  ASSUME ProcurementInv, NEW o \in Order
  PROVE  /\ deciding[o] # "none" => orders[o].status \in {"submitted", "cancelled"}
         /\ deciding \in [Order -> {"none", "pending", "read"}]
         /\ orders \in [Order -> PurchaseOrder]
         /\ [orders EXCEPT ![o].status = orders[o].status] = orders
         /\ [deciding EXCEPT ![o] = deciding[o]] = deciding
<1>1. /\ deciding[o] # "none" => orders[o].status \in {"submitted", "cancelled"}
      /\ deciding \in [Order -> {"none", "pending", "read"}]
      /\ orders \in [Order -> PurchaseOrder]
  BY DEF ProcurementInv, ProcurementTypeOK, OrderHolds
<1>2. [orders[o] EXCEPT !.status = orders[o].status] = orders[o]
  BY <1>1 DEF PurchaseOrder
<1> QED BY <1>1, <1>2

LEMMA ApprovalKeeps ==
  ASSUME ProcurementInv, NEW o \in Order,
         SubmitOrder(o) \/ ReadOutcome(o) \/ \E s \in OrderStatus : SaveOutcome(o, s)
  PROVE  ProcurementInv'
<1>1. CASE SubmitOrder(o)
  <2>1. NothingLive(o) /\ OrderFree(o)
    BY <1>1, NothingWritten DEF SubmitOrder, NotInForce
  <2>2. /\ orders' = [orders EXCEPT ![o].status = "submitted"]
        /\ deciding' = [deciding EXCEPT ![o] = "pending"]
        /\ SameReceipts /\ UNCHANGED requisitions
    BY <1>1 DEF SubmitOrder, SameReceipts
  <2>3. "submitted" \in OrderStatus /\ "submitted" \in NotInForce
    BY DEF OrderStatus, NotInForce
  <2> QED BY <2>1, <2>2, <2>3, StatusKeeps
<1>2. CASE ReadOutcome(o)
  <2>1. /\ deciding[o] = "pending" /\ SameReceipts /\ UNCHANGED <<requisitions, orders>>
        /\ deciding' = [deciding EXCEPT ![o] = IF orders[o].status = "submitted" THEN "read" ELSE "none"]
    BY <1>2 DEF ReadOutcome, SameReceipts
  <2>2. orders[o].status \in {"submitted", "cancelled"}
    BY <2>1, NothingDecided
  <2>3. OrderFree(o) /\ orders[o].status \in OrderStatus
    BY <2>2, NothingWritten DEF NotInForce, OrderStatus
  <2>4. orders' = [orders EXCEPT ![o].status = orders[o].status]
    BY <2>1, NothingDecided
  <2>5. PICK stage \in {"none", "pending", "read"} : deciding' = [deciding EXCEPT ![o] = stage]
    BY <2>1
  <2> QED BY <2>1, <2>2, <2>3, <2>4, <2>5, StatusKeeps
<1>3. ASSUME NEW s \in OrderStatus, SaveOutcome(o, s) PROVE ProcurementInv'
  <2>1. /\ deciding[o] = "read" /\ OrderFree(o) /\ s \in {"approved", "rejected", "draft"}
        /\ orders' = [orders EXCEPT ![o].status = s] /\ SameReceipts /\ UNCHANGED requisitions
        /\ deciding' = [deciding EXCEPT ![o] = "none"]
    BY <1>3 DEF SaveOutcome, SameReceipts
  <2>2. NothingLive(o)
    BY <2>1, NothingDecided, NothingWritten DEF NotInForce
  <2>3. s \in NotInForce \union {"approved"}
    BY <2>1 DEF NotInForce
  <2> QED BY <2>1, <2>2, <2>3, StatusKeeps
<1> QED BY <1>1, <1>2, <1>3

LEMMA EndOrderKeeps ==
  ASSUME ProcurementInv, NEW o \in Order, CancelOrder(o) \/ CloseOrder(o)
  PROVE  ProcurementInv'
<1>0. deciding' = [deciding EXCEPT ![o] = deciding[o]] /\ deciding[o] \in {"none", "pending", "read"}
  BY NothingDecided DEF CancelOrder, CloseOrder
<1>1. CASE CancelOrder(o)
  <2>1. /\ OrderFree(o) /\ NothingLive(o) /\ SameReceipts /\ UNCHANGED requisitions
        /\ orders' = [orders EXCEPT ![o].status = "cancelled"]
    BY <1>1 DEF CancelOrder, NothingLive, SameReceipts
  <2>2. "cancelled" \in OrderStatus /\ "cancelled" \in NotInForce
    BY DEF OrderStatus, NotInForce
  <2> QED BY <1>0, <2>1, <2>2, StatusKeeps
<1>2. CASE CloseOrder(o)
  <2>1. /\ OrderFree(o) /\ SameReceipts /\ UNCHANGED requisitions
        /\ orders' = [orders EXCEPT ![o].status = "closed"]
        /\ orders[o].status \notin {"submitted", "cancelled"}
    BY <1>2 DEF CloseOrder, SameReceipts
  <2>2. "closed" \in OrderStatus /\ deciding[o] = "none"
    BY <2>1, NothingDecided DEF OrderStatus
  <2> QED BY <1>0, <2>1, <2>2, StatusKeeps
<1> QED BY <1>1, <1>2

LEMMA OrderStepKeeps ==
  ASSUME ProcurementInv, NEW o \in Order, OrderStep(o) PROVE ProcurementInv'
<1>1. ASSUME NEW quantities \in OrderLines,
             \/ UpdateOrder(o, quantities)
             \/ \E q \in Requisition \union {None} : CreateOrder(o, quantities, q)
      PROVE  ProcurementInv'
  BY <1>1, UpdateOrderKeeps, CreateOrderKeeps
<1>2. ASSUME NEW q \in Requisition, NEW n \in 1..Requested[q], ConvertRequisition(q, o, n)
      PROVE  ProcurementInv'
  BY <1>2, ConvertRequisitionKeeps
<1> QED BY <1>1, <1>2, ApprovalKeeps, EndOrderKeeps DEF OrderStep

-----------------------------------------------------------------------------
(* Writing receipts.                                                       *)

\* A call reads, and nothing else changes.
LEMMA CallKeeps ==
  ASSUME ProcurementInv, NEW c \in Clerk, NEW call \in Call, Held(call),
         calls' = [calls EXCEPT ![c] = call],
         UNCHANGED <<requisitions, orders, receipts, deciding, warehouse>>
  PROVE  ProcurementInv'
<1>1. ProcurementTypeOK /\ ProcurementTyped /\ GoodsKept
  BY ProcurementSizes, NothingMoves DEF ProcurementInv
<1>2. ProcurementTypeOK'
  BY <1>1 DEF ProcurementTypeOK
<1>3. \A o : NothingLive(o) => NothingLive(o)'
  BY DEF NothingLive, ReceiptsOf, Live
<1>4. \A o \in Order : OrderHolds(o)'
  BY <1>1, <1>3, OrderStands DEF GoodsKept
<1>5. ASSUME NEW r \in 1..Len(receipts') PROVE ReceiptHolds(r)'
  BY ReceiptStands
<1>6. ASSUME NEW b \in Clerk PROVE Held(calls[b])'
  <2>1. CASE b = c
    <3>1. calls'[b] = call
      BY <1>1, <2>1 DEF ProcurementTypeOK
    <3> QED BY <3>1 DEF Held, Fits, OpenForReceipt
  <2>2. CASE b # c
    <3>1. calls'[b] = calls[b]
      BY <1>1, <2>2 DEF ProcurementTypeOK
    <3> QED BY <3>1, <1>1, CallStands DEF ProcurementTyped
  <2> QED BY <2>1, <2>2
<1>7. WarehouseHolds'
  BY <1>1, WarehouseStands
<1> QED BY <1>2, <1>4, <1>5, <1>6, <1>7 DEF ProcurementInv

LEMMA IdleCall == Idle \in Call /\ Idle.stage = "idle" /\ Held(Idle)
<1>1. <<>> \in Seq(Nat) /\ <<>> \in Seq(ReceiptLine)
  BY EmptySeq
<1> QED BY <1>1 DEF Idle, Call, Held

LEMMA ReceivedRead ==
  ASSUME ProcurementTypeOK, NEW o \in Order PROVE ReceivedOf(o) \in Seq(Nat)
<1> DEFINE lines == orders[o].lines
<1>1. lines \in Seq(OrderLine) /\ Len(lines) \in Nat
  BY ProcurementSizes DEF ProcurementTyped
<1>2. ASSUME NEW k \in 1..Len(lines) PROVE lines[k].received \in Nat
  <2>1. lines[k] \in OrderLine
    BY <1>1, ElementOfSeq
  <2> QED BY <2>1 DEF OrderLine
<1>3. [k \in 1..Len(lines) |-> lines[k].received] \in [1..Len(lines) -> Nat]
  BY <1>2
<1>4. [k \in 1..Len(lines) |-> lines[k].received] \in Seq(Nat)
  BY <1>1, <1>3, FunctionIsSequence
<1> QED BY <1>4 DEF ReceivedOf

LEMMA LookKeeps ==
  ASSUME ProcurementInv, NEW c \in Clerk,
         \/ \E o \in Order : LookForReceipt(c, o)
         \/ \E r \in 1..Len(receipts) : LookForUpdate(c, r)
  PROVE  ProcurementInv'
<1>0. ProcurementTypeOK /\ ProcurementTyped
  BY ProcurementSizes DEF ProcurementInv
<1>1. ASSUME NEW o \in Order, LookForReceipt(c, o) PROVE ProcurementInv'
  <2> DEFINE call == [Idle EXCEPT !.stage = "looked", !.order = o, !.seen = ReceivedOf(o)]
  <2>1. call \in Call
    BY <1>0, IdleCall, ReceivedRead DEF Call
  <2>2. Held(call)
    BY DEF Held, Idle
  <2>3. /\ calls' = [calls EXCEPT ![c] = call]
        /\ UNCHANGED <<requisitions, orders, receipts, deciding, warehouse>>
    BY <1>1 DEF LookForReceipt
  <2> HIDE DEF call
  <2> QED BY <2>1, <2>2, <2>3, CallKeeps
<1>2. ASSUME NEW r \in 1..Len(receipts), LookForUpdate(c, r) PROVE ProcurementInv'
  <2> DEFINE o == receipts[r].order
             call == [Idle EXCEPT !.stage = "looked", !.order = o, !.receipt = r,
                                  !.seen = ReceivedOf(o)]
  <2>1. o \in Order /\ r \in Nat
    BY <1>0 DEF ProcurementTyped
  <2>2. call \in Call
    BY <1>0, <2>1, IdleCall, ReceivedRead DEF Call
  <2>3. Held(call)
    BY <2>1 DEF Held, Idle
  <2>4. /\ calls' = [calls EXCEPT ![c] = call]
        /\ UNCHANGED <<requisitions, orders, receipts, deciding, warehouse>>
    BY <1>2 DEF LookForUpdate
  <2> HIDE DEF call
  <2> QED BY <2>2, <2>3, <2>4, CallKeeps
<1> QED BY <1>1, <1>2

LEMMA GiveUpKeeps ==
  ASSUME ProcurementInv, NEW c \in Clerk, GiveUp(c) PROVE ProcurementInv'
BY IdleCall, CallKeeps DEF GiveUp

LEMMA CheckClaimsKeeps ==
  ASSUME ProcurementInv, NEW c \in Clerk, NEW lines \in ReceiptLines, CheckClaims(c, lines)
  PROVE  ProcurementInv'
<1> DEFINE call == calls[c]
           next == [call EXCEPT !.stage = "checked", !.lines = lines]
<1>1. call \in Call /\ calls \in [Clerk -> Call] /\ Held(call)
  BY DEF ProcurementInv, ProcurementTypeOK
<1>2. lines \in Seq(ReceiptLine) /\ lines # <<>>
  BY ProcurementInputs
<1>3. /\ calls' = [calls EXCEPT ![c].stage = "checked", ![c].lines = lines]
      /\ UNCHANGED <<requisitions, orders, receipts, deciding, warehouse>>
      /\ call.stage = "looked" /\ Acceptable(call.order, lines, call.seen)
      /\ \/ call.receipt = 0 /\ OpenForReceipt(call.order)
         \/ call.receipt # 0 /\ receipts[call.receipt].status = "draft"
  BY DEF CheckClaims
<1>4. /\ next \in Call /\ next.stage = "checked" /\ next.lines = lines
      /\ next.order = call.order /\ next.receipt = call.receipt
  BY <1>1, <1>2 DEF Call
<1>5. calls' = [calls EXCEPT ![c] = next]
  BY <1>1, <1>3
<1> HIDE DEF next
<1>6. Fits(lines, call.order)
  BY <1>2, <1>3 DEF Fits, Acceptable
<1>7. Held(next)
  BY <1>1, <1>3, <1>4, <1>6 DEF Held
<1> QED BY <1>3, <1>4, <1>5, <1>7, CallKeeps

\* A receipt that is written is a draft of an order that is open.
LEMMA WrittenReceipt ==
  ASSUME ProcurementInv, NEW c \in Clerk, WriteReceipt(c)
  PROVE  /\ receipts' \in Seq(GoodsReceipt) /\ Len(receipts') \in Nat
         /\ Len(receipts) <= Len(receipts')
         /\ \A r \in 1..Len(receipts) : /\ receipts'[r].order = receipts[r].order
                                        /\ receipts'[r].status = receipts[r].status
         /\ \A r \in 1..Len(receipts') :
              \/ r \in 1..Len(receipts) /\ receipts'[r] = receipts[r]
              \/ /\ receipts'[r].status = "draft" /\ receipts'[r].result = "none"
                 /\ Fits(receipts'[r].lines, receipts'[r].order)
                 /\ orders[receipts'[r].order].status \notin NotInForce
         /\ GoodsKept
<1> DEFINE call == calls[c]
           n == Len(receipts)
<1>1. call \in Call /\ Held(call) /\ ProcurementTyped /\ ProcurementTypeOK
  BY ProcurementSizes DEF ProcurementInv, ProcurementTypeOK
<1>2. Checked(c) /\ call.stage = "checked" /\ call.lines \in Seq(ReceiptLine)
  BY <1>1 DEF WriteReceipt, Checked, Call
<1>3. call.order \in Order /\ Fits(call.lines, call.order)
  BY <1>1, <1>2 DEF Held
<1>4. orders[call.order].status \notin NotInForce
  BY <1>2, <1>3, NothingWritten DEF NothingChecked
<1>5. receipts \in Seq(GoodsReceipt) /\ n \in Nat
  BY <1>1 DEF ProcurementTyped
<1>6. CASE call.receipt = 0
  <2> DEFINE row == [status |-> "draft", order |-> call.order, lines |-> call.lines,
                     result |-> "none"]
  <2>1. row \in GoodsReceipt /\ ~ HasArrived(row)
    BY <1>2, <1>3 DEF GoodsReceipt, ReceiptStatus, InspectionResult, HasArrived
  <2>2. receipts' = Append(receipts, row)
    BY <1>6 DEF WriteReceipt
  <2>3. /\ row.status = "draft" /\ row.result = "none" /\ row.order = call.order
        /\ row.lines = call.lines
    OBVIOUS
  <2> HIDE DEF row
  <2>4. GoodsKept
    BY <1>1, <2>1, <2>2, AppendKeepsGoods
  <2>5. /\ receipts' \in Seq(GoodsReceipt) /\ Len(receipts') = n + 1
        /\ receipts'[n + 1] = row
        /\ \A r \in 1..n : receipts'[r] = receipts[r]
    BY <1>5, <2>1, <2>2, AppendProperties
  <2>6. \A r \in 1..(n + 1) : r \in 1..n \/ r = n + 1
    BY <1>5
  <2>7. ASSUME NEW r \in 1..Len(receipts')
        PROVE  \/ r \in 1..n /\ receipts'[r] = receipts[r]
               \/ /\ receipts'[r].status = "draft" /\ receipts'[r].result = "none"
                  /\ Fits(receipts'[r].lines, receipts'[r].order)
                  /\ orders[receipts'[r].order].status \notin NotInForce
    <3>1. r \in 1..n \/ r = n + 1
      BY <2>5, <2>6
    <3>2. ASSUME r = n + 1
          PROVE  receipts'[r] = row
      BY <3>2, <2>5
    <3> QED BY <3>1, <3>2, <2>3, <2>5, <1>3, <1>4
  <2>8. Len(receipts') \in Nat /\ n <= Len(receipts')
    BY <1>5, <2>5
  <2> QED BY <2>4, <2>5, <2>7, <2>8
<1>7. CASE call.receipt # 0
  <2> DEFINE id == call.receipt
             row == [receipts[id] EXCEPT !.lines = call.lines]
  <2>1. /\ id \in 1..n /\ receipts[id].status = "draft" /\ receipts[id].order = call.order
        /\ receipts[id].result = "none" /\ receipts[id] \in GoodsReceipt
    <3>1. id \in 1..n /\ receipts[id].status = "draft" /\ receipts[id].order = call.order
      BY <1>1, <1>2, <1>7 DEF Held
    <3>2. ReceiptHolds(id)
      BY <3>1 DEF ProcurementInv
    <3> QED BY <3>1, <3>2, <1>1 DEF ReceiptHolds, ProcurementTyped
  <2>2. /\ row \in GoodsReceipt /\ row.status = "draft" /\ row.result = "none"
        /\ row.order = call.order /\ row.lines = call.lines
    BY <1>2, <2>1 DEF GoodsReceipt
  <2>3. receipts' = [receipts EXCEPT ![id] = row]
    BY <1>5, <1>7, <2>1 DEF WriteReceipt
  <2> HIDE DEF row
  <2>4. receipts' \in Seq(GoodsReceipt) /\ Len(receipts') = n
    BY <1>5, <2>1, <2>2, <2>3, ExceptSeq
  <2>5. \A r \in 1..n : receipts'[r] = IF r = id THEN row ELSE receipts[r]
    BY <1>5, <2>1, <2>2, <2>3, ExceptSeq
  <2>6. GoodsKept
    BY <1>1, <2>1, <2>2, <2>4, <2>5, QuietKeepsGoods DEF HasArrived
  <2>7. \A r \in 1..n : /\ receipts'[r].order = receipts[r].order
                        /\ receipts'[r].status = receipts[r].status
    BY <2>1, <2>2, <2>5
  <2>8. ASSUME NEW r \in 1..n
        PROVE  \/ receipts'[r] = receipts[r]
               \/ /\ receipts'[r].status = "draft" /\ receipts'[r].result = "none"
                  /\ Fits(receipts'[r].lines, receipts'[r].order)
                  /\ orders[receipts'[r].order].status \notin NotInForce
    BY <1>3, <1>4, <2>2, <2>5
  <2>9. Len(receipts') \in Nat /\ n <= Len(receipts')
    BY <1>5, <2>4
  <2> QED BY <2>4, <2>6, <2>7, <2>8, <2>9
<1> QED BY <1>6, <1>7

LEMMA WriteReceiptKeeps ==
  ASSUME ProcurementInv, NEW c \in Clerk, WriteReceipt(c) PROVE ProcurementInv'
<1>1. ProcurementTypeOK /\ ProcurementTyped
  BY ProcurementSizes DEF ProcurementInv
<1>2. /\ calls' = [calls EXCEPT ![c] = Idle]
      /\ UNCHANGED <<requisitions, orders, deciding, warehouse>>
  BY DEF WriteReceipt
<1>3. /\ receipts' \in Seq(GoodsReceipt) /\ Len(receipts') \in Nat
      /\ Len(receipts) <= Len(receipts')
      /\ \A r \in 1..Len(receipts) : /\ receipts'[r].order = receipts[r].order
                                     /\ receipts'[r].status = receipts[r].status
      /\ GoodsKept
  BY WrittenReceipt
<1>4. ProcurementTypeOK'
  <2>1. calls' \in [Clerk -> Call]
    BY <1>1, <1>2, IdleCall DEF ProcurementTypeOK
  <2> QED BY <1>1, <1>2, <1>3, <2>1 DEF ProcurementTypeOK
<1>5. ASSUME NEW r \in 1..Len(receipts')
      PROVE  /\ ReceiptHolds(r)'
             /\ \/ r \in 1..Len(receipts) /\ receipts'[r] = receipts[r]
                \/ orders[receipts'[r].order].status \notin NotInForce
  <2>1. CASE r \in 1..Len(receipts) /\ receipts'[r] = receipts[r]
    BY <2>1, <1>2, ReceiptStands
  <2>2. CASE /\ receipts'[r].status = "draft" /\ receipts'[r].result = "none"
             /\ Fits(receipts'[r].lines, receipts'[r].order)
             /\ orders[receipts'[r].order].status \notin NotInForce
    BY <2>2, <1>2 DEF ReceiptHolds, Fits
  <2> QED BY <2>1, <2>2, WrittenReceipt
<1>6. ASSUME NEW o \in Order PROVE OrderHolds(o)'
  <2>1. ASSUME orders[o].status \in NotInForce, NothingLive(o) PROVE NothingLive(o)'
    <3>1. ASSUME NEW r \in 1..Len(receipts'), receipts'[r].order = o
          PROVE  receipts'[r].status = "cancelled"
      <4>1. r \in 1..Len(receipts) /\ receipts'[r] = receipts[r]
        BY <3>1, <2>1, <1>5
      <4> QED BY <4>1, <3>1, <2>1 DEF NothingLive, ReceiptsOf, Live
    <3> QED BY <3>1 DEF NothingLive, ReceiptsOf, Live
  <2> QED BY <2>1, <1>2, <1>3, OrderStands DEF GoodsKept
<1>7. ASSUME NEW b \in Clerk PROVE Held(calls[b])'
  <2>1. CASE b = c
    <3>1. calls'[b] = Idle
      BY <1>1, <1>2, <2>1 DEF ProcurementTypeOK
    <3> QED BY <3>1, IdleCall DEF Held, Idle
  <2>2. CASE b # c
    <3>1. calls'[b] = calls[b]
      BY <1>1, <1>2, <2>2 DEF ProcurementTypeOK
    <3> QED BY <3>1, <1>2, <1>3, CallStands
  <2> QED BY <2>1, <2>2
<1>8. WarehouseHolds'
  BY <1>2, <1>3, WarehouseStands
<1> QED BY <1>4, <1>5, <1>6, <1>7, <1>8 DEF ProcurementInv

LEMMA CallStepKeeps ==
  ASSUME ProcurementInv, NEW c \in Clerk, CallStep(c) PROVE ProcurementInv'
BY LookKeeps, CheckClaimsKeeps, WriteReceiptKeeps, GiveUpKeeps DEF CallStep

-----------------------------------------------------------------------------
(* What becomes of receipts.                                               *)

\* A receipt that no call is writing gets another status.
LEMMA ReceiptSaved ==
  ASSUME ProcurementInv, NEW r \in 1..Len(receipts), NEW row \in GoodsReceipt,
         RowBecomes(r, row), ReceiptFree(r), Live(r),
         row.status # "inspected" => row.result = "none",
         UNCHANGED calls,
         \A o \in Order : /\ orders'[o].status = orders[o].status \/ OrderFree(o)
                          /\ Len(orders'[o].lines) = Len(orders[o].lines)
  PROVE  /\ receipts' \in Seq(GoodsReceipt)
         /\ \A s \in 1..Len(receipts') : ReceiptHolds(s)'
         /\ \A c \in Clerk : Held(calls[c])'
<1>1. ProcurementTypeOK /\ ProcurementTyped
  BY ProcurementSizes DEF ProcurementInv
<1>2. /\ receipts' \in Seq(GoodsReceipt) /\ Len(receipts') = Len(receipts)
      /\ receipts'[r] = row /\ row.order = receipts[r].order /\ row.lines = receipts[r].lines
      /\ \A s \in 1..Len(receipts) : s # r => receipts'[s] = receipts[s]
      /\ Len(receipts) \in Nat
  BY <1>1, BecameRow DEF RowBecomes
<1>3. ASSUME NEW s \in 1..Len(receipts') PROVE ReceiptHolds(s)'
  <2>1. CASE s = r
    <3>1. Fits(receipts[r].lines, receipts[r].order) /\ receipts[r].order \in Order
      BY <1>1 DEF ProcurementInv, ReceiptHolds, ProcurementTyped
    <3>2. Fits(row.lines, row.order)'
      BY <3>1, <1>2 DEF Fits
    <3> QED BY <2>1, <3>2, <1>2 DEF ReceiptHolds
  <2>2. CASE s # r
    <3>1. /\ s \in 1..Len(receipts) /\ receipts'[s] = receipts[s]
          /\ receipts[s].order \in Order
      BY <2>2, <1>1, <1>2 DEF ProcurementTyped
    <3> QED BY <3>1, ReceiptStands
  <2> QED BY <2>1, <2>2
<1>4. ASSUME NEW c \in Clerk PROVE Held(calls[c])'
  <2>1. \A s \in 1..Len(receipts) :
          /\ receipts'[s].order = receipts[s].order
          /\ receipts'[s].status = receipts[s].status \/ ReceiptFree(s)
    BY <1>2
  <2> QED BY <2>1, <1>2, CallStands
<1> QED BY <1>2, <1>3, <1>4

LEMMA CancelReceiptKeeps ==
  ASSUME ProcurementInv, NEW r \in 1..Len(receipts), CancelReceipt(r) PROVE ProcurementInv'
<1> DEFINE row == [receipts[r] EXCEPT !.status = "cancelled"]
<1>1. ProcurementTypeOK /\ ProcurementTyped /\ receipts[r] \in GoodsReceipt
  BY ProcurementSizes DEF ProcurementInv, ProcurementTyped
<1>2. /\ receipts[r].status = "draft" /\ ReceiptFree(r)
      /\ receipts' = [receipts EXCEPT ![r].status = "cancelled"]
      /\ UNCHANGED <<requisitions, orders, deciding, calls, warehouse>>
  BY DEF CancelReceipt
<1>3. receipts[r].result = "none" /\ Live(r)
  BY <1>2 DEF ProcurementInv, ReceiptHolds, Live
<1>4. /\ row \in GoodsReceipt /\ row.status = "cancelled" /\ row.result = "none"
      /\ row.order = receipts[r].order /\ row.lines = receipts[r].lines
  BY <1>1, <1>3 DEF GoodsReceipt, ReceiptStatus
<1>5. receipts' = [receipts EXCEPT ![r] = row]
  BY <1>1, <1>2 DEF ProcurementTyped
<1> HIDE DEF row
<1>6. RowBecomes(r, row)
  BY <1>4, <1>5 DEF RowBecomes
<1>7. /\ receipts' \in Seq(GoodsReceipt)
      /\ \A s \in 1..Len(receipts') : ReceiptHolds(s)'
      /\ \A c \in Clerk : Held(calls[c])'
  BY <1>2, <1>3, <1>4, <1>6, ReceiptSaved
<1>8. /\ Len(receipts') = Len(receipts) /\ receipts'[r] = row
      /\ \A s \in 1..Len(receipts) : s # r => receipts'[s] = receipts[s]
  BY <1>1, <1>4, <1>6, BecameRow
<1>9. GoodsKept
  BY <1>1, <1>2, <1>4, <1>7, <1>8, QuietKeepsGoods DEF HasArrived
<1>10. ASSUME NEW o \in Order PROVE OrderHolds(o)'
  <2>1. NothingLive(o) => NothingLive(o)'
    BY <1>4, <1>8 DEF NothingLive, ReceiptsOf, Live
  <2> QED BY <2>1, <1>2, <1>9, OrderStands DEF GoodsKept
<1>11. WarehouseHolds'
  BY <1>2, <1>9, WarehouseStands
<1>12. ProcurementTypeOK'
  BY <1>1, <1>2, <1>7 DEF ProcurementTypeOK
<1> QED BY <1>7, <1>10, <1>11, <1>12 DEF ProcurementInv

LEMMA InspectReceiptKeeps ==
  ASSUME ProcurementInv, NEW r \in 1..Len(receipts), NEW result, InspectReceipt(r, result)
  PROVE  ProcurementInv'
<1> DEFINE row == [receipts[r] EXCEPT !.status = "inspected", !.result = result]
<1>1. ProcurementTypeOK /\ ProcurementTyped /\ receipts[r] \in GoodsReceipt
  BY ProcurementSizes DEF ProcurementInv, ProcurementTyped
<1>2. /\ receipts[r].status = "posted" /\ ReceiptFree(r) /\ result \in {"qualified", "rejected"}
      /\ Total(r) <= warehouse["quarantine"]
      /\ warehouse' = [warehouse EXCEPT !["quarantine"] = @ - Total(r), ![result] = @ + Total(r)]
      /\ receipts' = [receipts EXCEPT ![r].status = "inspected", ![r].result = result]
      /\ UNCHANGED <<requisitions, orders, deciding, calls>>
  BY DEF InspectReceipt
<1>3. receipts[r].result = "none" /\ Live(r)
  BY <1>2 DEF ProcurementInv, ReceiptHolds, Live
<1>4. /\ row \in GoodsReceipt /\ row.status = "inspected" /\ row.result = result
      /\ row.order = receipts[r].order /\ row.lines = receipts[r].lines
  BY <1>1, <1>2 DEF GoodsReceipt, ReceiptStatus, InspectionResult
<1>5. receipts' = [receipts EXCEPT ![r] = row]
  BY <1>1, <1>2 DEF ProcurementTyped
<1> HIDE DEF row
<1>6. RowBecomes(r, row)
  BY <1>4, <1>5 DEF RowBecomes
<1>7. /\ receipts' \in Seq(GoodsReceipt)
      /\ \A s \in 1..Len(receipts') : ReceiptHolds(s)'
      /\ \A c \in Clerk : Held(calls[c])'
  BY <1>2, <1>3, <1>4, <1>6, ReceiptSaved
<1>8. /\ Len(receipts') = Len(receipts) /\ receipts'[r] = row
      /\ \A s \in 1..Len(receipts) : s # r => receipts'[s] = receipts[s]
  BY <1>1, <1>4, <1>6, BecameRow
<1>9. /\ \A o, k : ArrivedOn(o, k)' = ArrivedOn(o, k)
      /\ WaitingGoods' = WaitingGoods - Whole(row.lines)
      /\ JudgedGoods(result)' = JudgedGoods(result) + Whole(row.lines)
      /\ \A other : other \notin {"none", result} => JudgedGoods(other)' = JudgedGoods(other)
  BY <1>1, <1>2, <1>3, <1>4, <1>6, InspectedGoods
<1>10. ASSUME NEW o \in Order PROVE OrderHolds(o)'
  <2>1. NothingLive(o) => NothingLive(o)'
    BY <1>2, <1>4, <1>8 DEF NothingLive, ReceiptsOf, Live
  <2> QED BY <2>1, <1>2, <1>9, OrderStands
<1>11. Total(r) = Whole(row.lines) /\ Total(r) \in Nat
  BY <1>1, <1>4, RowsTyped DEF Total, Whole, ProcurementTyped
<1>12. warehouse \in [{"quarantine", "qualified", "rejected"} -> Nat]
  BY <1>1 DEF ProcurementTypeOK
<1>13. /\ warehouse'["quarantine"] = warehouse["quarantine"] - Total(r)
       /\ warehouse'[result] = warehouse[result] + Total(r)
       /\ \A other \in {"qualified", "rejected"} :
            other # result => warehouse'[other] = warehouse[other]
  BY <1>2, <1>12
<1>14. WarehouseHolds'
  <2>1. /\ warehouse["quarantine"] = WaitingGoods
        /\ \A other \in {"qualified", "rejected"} : warehouse[other] = JudgedGoods(other)
    BY DEF ProcurementInv, WarehouseHolds
  <2>2. warehouse'["quarantine"] = WaitingGoods'
    BY <2>1, <1>9, <1>11, <1>13
  <2>3. ASSUME NEW other \in {"qualified", "rejected"}
        PROVE  warehouse'[other] = JudgedGoods(other)'
    BY <2>1, <1>2, <1>9, <1>11, <1>13
  <2> QED BY <2>2, <2>3 DEF WarehouseHolds
<1>15. warehouse' \in [{"quarantine", "qualified", "rejected"} -> Nat]
  <2>1. warehouse["quarantine"] - Total(r) \in Nat /\ warehouse[result] + Total(r) \in Nat
    BY <1>2, <1>11, <1>12
  <2> QED BY <2>1, <1>2, <1>12
<1>16. ProcurementTypeOK'
  BY <1>1, <1>2, <1>7, <1>15 DEF ProcurementTypeOK
<1> QED BY <1>7, <1>10, <1>14, <1>16 DEF ProcurementInv

\* What arrives is added line by line.
LEMMA ArrivedLines ==
  ASSUME NEW lines \in Seq(OrderLine), NEW arriving \in Seq(ReceiptLine)
  PROVE  /\ Arrived(lines, arriving) \in Seq(OrderLine)
         /\ Len(Arrived(lines, arriving)) = Len(lines)
         /\ \A k \in 1..Len(lines) :
              /\ Arrived(lines, arriving)[k].received = lines[k].received + Wanted(arriving, k)
              /\ Arrived(lines, arriving)[k].quantity = lines[k].quantity
              /\ lines[k].received \in Nat /\ lines[k].quantity \in Nat \ {0}
              /\ Wanted(arriving, k) \in Nat
<1> DEFINE n == Len(lines)
           f == [k \in 1..n |-> [lines[k] EXCEPT !.received = @ + Wanted(arriving, k)]]
<1>1. n \in Nat /\ \A k \in 1..n : lines[k] \in OrderLine
  BY LenProperties, ElementOfSeq
<1>2. \A k : Wanted(arriving, k) \in Nat
  BY WantedNatural
<1>3. \A k \in 1..n : lines[k].received \in Nat /\ lines[k].quantity \in Nat \ {0}
  BY <1>1 DEF OrderLine
<1>4. \A k \in 1..n : /\ f[k] \in OrderLine /\ f[k].received = lines[k].received + Wanted(arriving, k)
                      /\ f[k].quantity = lines[k].quantity
  <2> SUFFICES ASSUME NEW k \in 1..n
               PROVE  /\ f[k] \in OrderLine /\ f[k].received = lines[k].received + Wanted(arriving, k)
                      /\ f[k].quantity = lines[k].quantity
    OBVIOUS
  <2>1. PICK w \in Nat : w = Wanted(arriving, k)
    BY <1>2
  <2>2. PICK l \in OrderLine : l = lines[k]
    BY <1>1
  <2>3. f[k] = [l EXCEPT !.received = @ + w]
    BY <2>1, <2>2
  <2>4. l.received + w \in Nat
    BY <2>1, <2>2 DEF OrderLine
  <2>5. f[k] \in OrderLine /\ f[k].received = l.received + w /\ f[k].quantity = l.quantity
    BY <2>3, <2>4 DEF OrderLine
  <2> QED BY <2>1, <2>2, <2>5
<1>5. f \in [1..n -> OrderLine]
  BY <1>4
<1> HIDE DEF f
<1>6. f \in Seq(OrderLine) /\ Len(f) = n
  BY <1>1, <1>5, FunctionIsSequence
<1>7. Arrived(lines, arriving) = f
  BY DEF Arrived, f
<1> QED BY <1>2, <1>3, <1>4, <1>6, <1>7

\* The status follows from the lines, once something has arrived on one of them.
LEMMA StatusTold ==
  ASSUME NEW row \in PurchaseOrder, row.status = StatusOf(row.lines),
         \A k \in 1..Len(row.lines) : /\ row.lines[k].received \in Nat
                                      /\ row.lines[k].quantity \in Nat
                                      /\ row.lines[k].received <= row.lines[k].quantity,
         \E k \in 1..Len(row.lines) : row.lines[k].received > 0
  PROVE  Told(row) /\ row.status \in {"received", "partially_received"}
<1>1. CASE \A k \in 1..Len(row.lines) : row.lines[k].received >= row.lines[k].quantity
  <2>1. row.status = "received"
    BY <1>1 DEF StatusOf
  <2>2. \A k \in 1..Len(row.lines) : row.lines[k].received = row.lines[k].quantity
    BY <1>1
  <2> QED BY <2>1, <2>2 DEF Told, NotInForce
<1>2. CASE ~ \A k \in 1..Len(row.lines) : row.lines[k].received >= row.lines[k].quantity
  <2>1. row.status = "partially_received"
    BY <1>2 DEF StatusOf
  <2>2. \E k \in 1..Len(row.lines) : row.lines[k].received # row.lines[k].quantity
    BY <1>2
  <2> QED BY <2>1, <2>2 DEF Told, NotInForce
<1> QED BY <1>1, <1>2

LEMMA PostReceiptKeeps ==
  ASSUME ProcurementInv, NEW r \in 1..Len(receipts), PostReceipt(r),
         NEW o, o = receipts[r].order
  PROVE  ProcurementInv'
<1> DEFINE arriving == receipts[r].lines
           lines == Arrived(orders[o].lines, arriving)
           status == StatusOf(lines)
           order == [orders[o] EXCEPT !.lines = lines, !.status = status]
           row == [receipts[r] EXCEPT !.status = "posted"]
<1>1. /\ ProcurementTypeOK /\ ProcurementTyped /\ receipts[r] \in GoodsReceipt
      /\ orders \in [Order -> PurchaseOrder]
  BY ProcurementSizes DEF ProcurementInv, ProcurementTyped, ProcurementTypeOK
<1>2. o \in Order /\ arriving \in Seq(ReceiptLine) /\ orders[o].lines \in Seq(OrderLine)
  BY <1>1 DEF GoodsReceipt, ProcurementTyped
<1>3. /\ receipts[r].status = "draft" /\ ReceiptFree(r) /\ OpenForReceipt(o) /\ OrderFree(o)
      /\ \A k \in 1..Len(lines) : lines[k].received <= lines[k].quantity
      /\ warehouse' = [warehouse EXCEPT !["quarantine"] = @ + Total(r)]
      /\ orders' = [orders EXCEPT ![o].lines = lines, ![o].status = status]
      /\ receipts' = [receipts EXCEPT ![r].status = "posted"]
      /\ UNCHANGED <<requisitions, deciding, calls>>
  BY DEF PostReceipt
<1>4. receipts[r].result = "none" /\ Live(r) /\ Fits(arriving, o)
  BY <1>3 DEF ProcurementInv, ReceiptHolds, Live
<1>5. /\ row \in GoodsReceipt /\ row.status = "posted" /\ row.result = "none"
      /\ row.order = o /\ row.lines = arriving
  BY <1>1, <1>4 DEF GoodsReceipt, ReceiptStatus
<1>6. receipts' = [receipts EXCEPT ![r] = row]
  BY <1>1, <1>3 DEF ProcurementTyped
<1>7. /\ lines \in Seq(OrderLine) /\ Len(lines) = Len(orders[o].lines)
      /\ \A k \in 1..Len(orders[o].lines) :
           /\ lines[k].received = orders[o].lines[k].received + Wanted(arriving, k)
           /\ lines[k].quantity = orders[o].lines[k].quantity
           /\ orders[o].lines[k].received \in Nat /\ lines[k].quantity \in Nat \ {0}
           /\ Wanted(arriving, k) \in Nat
  <2>1. lines \in Seq(OrderLine) /\ Len(lines) = Len(orders[o].lines)
    BY <1>2, ArrivedLines
  <2>2. ASSUME NEW k \in 1..Len(orders[o].lines)
        PROVE  /\ lines[k].received = orders[o].lines[k].received + Wanted(arriving, k)
               /\ lines[k].quantity = orders[o].lines[k].quantity
               /\ orders[o].lines[k].received \in Nat /\ orders[o].lines[k].quantity \in Nat \ {0}
               /\ Wanted(arriving, k) \in Nat
    BY <1>2, ArrivedLines
  <2> HIDE DEF lines, arriving
  <2>3. ASSUME NEW k \in 1..Len(orders[o].lines) PROVE lines[k].quantity \in Nat \ {0}
    BY <2>2
  <2> QED BY <2>1, <2>2, <2>3
<1> HIDE DEF lines, row
<1>8. status \in {"received", "partially_received"} /\ status \in OrderStatus
  BY DEF StatusOf, OrderStatus
<1>9. order \in PurchaseOrder /\ order.lines = lines /\ order.status = status
  BY <1>1, <1>2, <1>7, <1>8 DEF PurchaseOrder
<1>10. orders' = [orders EXCEPT ![o] = order]
  BY <1>1, <1>2, <1>3
<1> HIDE DEF order
<1>11. orders'[o] = order /\ \A p \in Order : p # o => orders'[p] = orders[p]
  BY <1>1, <1>2, <1>10
<1>12. RowBecomes(r, row)
  BY <1>5, <1>6 DEF RowBecomes
<1>13. /\ receipts' \in Seq(GoodsReceipt)
       /\ \A s \in 1..Len(receipts') : ReceiptHolds(s)'
       /\ \A c \in Clerk : Held(calls[c])'
  <2>1. \A p \in Order : /\ orders'[p].status = orders[p].status \/ OrderFree(p)
                         /\ Len(orders'[p].lines) = Len(orders[p].lines)
    BY <1>3, <1>7, <1>9, <1>11
  <2> QED BY <2>1, <1>3, <1>4, <1>5, <1>12, ReceiptSaved
<1>14. /\ \A p, k : ArrivedOn(p, k)' = ArrivedOn(p, k) + (IF o = p THEN Wanted(arriving, k) ELSE 0)
       /\ WaitingGoods' = WaitingGoods + Whole(arriving)
       /\ \A result : result # "none" => JudgedGoods(result)' = JudgedGoods(result)
  <2>1. /\ \A p, k : ArrivedOn(p, k)' = ArrivedOn(p, k) +
                       (IF row.order = p THEN Wanted(row.lines, k) ELSE 0)
        /\ WaitingGoods' = WaitingGoods + Whole(row.lines)
        /\ \A result : result # "none" => JudgedGoods(result)' = JudgedGoods(result)
    BY <1>1, <1>3, <1>5, <1>12, PostedGoods
  <2> QED BY <2>1, <1>5
<1>15. ASSUME NEW p \in Order, p # o PROVE OrderHolds(p)'
  <2>1. NothingLive(p) => NothingLive(p)'
    <3>1. /\ Len(receipts') = Len(receipts) /\ receipts'[r] = row
          /\ \A s \in 1..Len(receipts) : s # r => receipts'[s] = receipts[s]
      BY <1>1, <1>5, <1>12, BecameRow
    <3> QED BY <3>1, <1>5, <1>15 DEF NothingLive, ReceiptsOf, Live
  <2>2. \A k : ArrivedOn(p, k)' = ArrivedOn(p, k)
    <3>1. ASSUME NEW k PROVE ArrivedOn(p, k) \in Int
      <4>1. receipts \in Seq(GoodsReceipt)
        BY <1>1 DEF ProcurementTyped
      <4>2. ArrivalsOf(receipts, p, k) \in [1..Len(receipts) -> Int] /\ Len(receipts) \in Nat
        BY <4>1, RowsTyped
      <4> QED BY <4>2, SumType, Goods DEF GoodsAddUp
    <3> QED BY <3>1, <1>14, <1>15
  <2>3. orders'[p] = orders[p] /\ deciding'[p] = deciding[p]
    BY <1>3, <1>11, <1>15
  <2> QED BY <2>1, <2>2, <2>3, OrderStands
<1>16. OrderHolds(o)'
  <2>1. OrderHolds(o)
    BY <1>2 DEF ProcurementInv
  <2>2. ASSUME NEW k \in 1..Len(lines)
        PROVE  /\ lines[k].received = ArrivedOn(o, k)'
               /\ lines[k].received <= lines[k].quantity
    <3>1. orders[o].lines[k].received = ArrivedOn(o, k)
      BY <2>1, <1>7 DEF OrderHolds, LineHolds
    <3>2. ArrivedOn(o, k)' = ArrivedOn(o, k) + Wanted(arriving, k)
      BY <1>14
    <3> QED BY <3>1, <3>2, <1>3, <1>7
  <2>3. \A k \in 1..Len(orders'[o].lines) : LineHolds(o, k)'
    BY <2>2, <1>9, <1>11 DEF LineHolds
  <2>4. \E k \in 1..Len(lines) : lines[k].received > 0
    <3>1. 1 \in 1..Len(arriving) /\ arriving[1] \in ReceiptLine
      BY <1>2, <1>4, EmptySeq, ElementOfSeq DEF Fits
    <3>2. arriving[1].line \in Nat \ {0} /\ arriving[1].line <= Len(lines)
      BY <3>1, <1>4, <1>7 DEF Fits, ReceiptLine
    <3>3. arriving[1].line \in 1..Len(lines)
      BY <3>2, <1>7, LenProperties
    <3>4. Wanted(arriving, arriving[1].line) > 0
      BY <3>1, <1>2, WantedNatural
    <3>5. lines[arriving[1].line].received > 0
      <4> DEFINE k == arriving[1].line
      <4>1. k \in 1..Len(orders[o].lines) /\ Wanted(arriving, k) > 0
        BY <3>3, <3>4, <1>7
      <4> HIDE DEF k, arriving
      <4>2. /\ lines[k].received = orders[o].lines[k].received + Wanted(arriving, k)
            /\ orders[o].lines[k].received \in Nat /\ Wanted(arriving, k) \in Nat
        BY <4>1, <1>7
      <4>3. \A a, b \in Nat : b > 0 => a + b > 0
        OBVIOUS
      <4>4. lines[k].received > 0
        BY <4>1, <4>2, <4>3
      <4> QED BY <4>4 DEF k
    <3> QED BY <3>3, <3>5
  <2>5. Told(order)
    <3>1. \A k \in 1..Len(lines) : /\ lines[k].received \in Nat /\ lines[k].quantity \in Nat
                                   /\ lines[k].received <= lines[k].quantity
      <4>1. ASSUME NEW k \in 1..Len(lines)
            PROVE  /\ lines[k].received \in Nat /\ lines[k].quantity \in Nat
                   /\ lines[k].received <= lines[k].quantity
        <5>1. lines[k] \in OrderLine
          BY <1>7, ElementOfSeq
        <5>2. lines[k].received <= lines[k].quantity
          BY <1>3
        <5> QED BY <5>1, <5>2 DEF OrderLine
      <4> QED BY <4>1
    <3> QED BY <2>4, <3>1, <1>9, StatusTold
  <2>6. deciding'[o] = "none"
    <3>1. deciding' = deciding /\ orders[o].status \in {"approved", "partially_received"}
      BY <1>3 DEF OpenForReceipt
    <3>2. deciding[o] # "none" => orders[o].status \in {"submitted", "cancelled"}
      BY <1>2, NothingDecided
    <3> QED BY <3>1, <3>2
  <2> QED BY <2>3, <2>5, <2>6, <1>8, <1>9, <1>11 DEF OrderHolds, NotInForce
<1>17. Total(r) = Whole(arriving) /\ Total(r) \in Nat
  BY <1>2, WholeNatural DEF Total, Whole
<1>18. warehouse \in [{"quarantine", "qualified", "rejected"} -> Nat]
  BY <1>1 DEF ProcurementTypeOK
<1>19. WarehouseHolds'
  <2>1. /\ warehouse["quarantine"] = WaitingGoods
        /\ \A other \in {"qualified", "rejected"} : warehouse[other] = JudgedGoods(other)
    BY DEF ProcurementInv, WarehouseHolds
  <2>2. /\ warehouse'["quarantine"] = warehouse["quarantine"] + Total(r)
        /\ \A other \in {"qualified", "rejected"} : warehouse'[other] = warehouse[other]
    BY <1>3, <1>18
  <2>3. \A other \in {"qualified", "rejected"} : JudgedGoods(other)' = JudgedGoods(other)
    BY <1>14
  <2>4. warehouse'["quarantine"] = WaitingGoods'
    BY <2>1, <2>2, <1>14, <1>17
  <2> QED BY <2>1, <2>2, <2>3, <2>4 DEF WarehouseHolds
<1>20. warehouse' \in [{"quarantine", "qualified", "rejected"} -> Nat]
  BY <1>3, <1>17, <1>18
<1>21. ProcurementTypeOK'
  <2>1. orders' \in [Order -> PurchaseOrder]
    BY <1>1, <1>2, <1>9, <1>10
  <2> QED BY <2>1, <1>1, <1>3, <1>13, <1>20 DEF ProcurementTypeOK
<1> QED BY <1>13, <1>15, <1>16, <1>19, <1>21 DEF ProcurementInv

LEMMA ProcurementNextKeeps ==
  ASSUME ProcurementInv, [ProcurementNext]_procurementVars PROVE ProcurementInv'
<1>1. ASSUME NEW r \in 1..Len(receipts), ReceiptStep(r) PROVE ProcurementInv'
  BY <1>1, CancelReceiptKeeps, PostReceiptKeeps, InspectReceiptKeeps DEF ReceiptStep
<1>2. CASE UNCHANGED procurementVars
  <2>1. RequisitionsTyped'
    BY <1>2 DEF procurementVars, ProcurementInv, ProcurementTypeOK, RequisitionsTyped
  <2> QED BY <1>2, <2>1, SupplyUntouched DEF procurementVars
<1>3. CASE ProcurementNext
  BY <1>1, <1>3, CancelRequisitionKeeps, OrderStepKeeps, CallStepKeeps DEF ProcurementNext
<1> QED BY <1>2, <1>3

LEMMA ProcurementInitHolds == ASSUME ProcurementInit PROVE ProcurementInv
<1>1. /\ requisitions = [q \in Requisition |-> [status |-> "approved", ordered |-> 0]]
      /\ orders = [o \in Order |-> [status |-> "none", lines |-> <<>>, source |-> None]]
      /\ receipts = <<>> /\ deciding = [o \in Order |-> "none"]
      /\ calls = [c \in Clerk |-> Idle]
      /\ warehouse = [s \in {"quarantine", "qualified", "rejected"} |-> 0]
  BY DEF ProcurementInit
<1>2. /\ receipts \in Seq(GoodsReceipt) /\ Len(receipts) = 0 /\ <<>> \in Seq(OrderLine)
      /\ 1..Len(receipts) = {}
  BY <1>1, EmptySeq
<1>3. ProcurementTypeOK
  <2>1. requisitions \in [Requisition -> [status : RequisitionStatus, ordered : Nat]]
    BY <1>1 DEF RequisitionStatus
  <2>2. orders \in [Order -> PurchaseOrder]
    BY <1>1, <1>2 DEF PurchaseOrder, OrderStatus
  <2>3. calls \in [Clerk -> Call]
    BY <1>1, IdleCall
  <2> QED BY <1>1, <1>2, <2>1, <2>2, <2>3 DEF ProcurementTypeOK
<1>4. ASSUME NEW o \in Order PROVE OrderHolds(o)
  <2>1. Len(orders[o].lines) = 0 /\ orders[o].status = "none" /\ deciding[o] = "none"
    BY <1>1, EmptySeq
  <2>2. 1..Len(orders[o].lines) = {}
    BY <2>1
  <2>3. Told(orders[o])
    BY <2>1, <2>2 DEF Told
  <2>4. NothingLive(o)
    BY <1>2 DEF NothingLive, ReceiptsOf
  <2> QED BY <2>1, <2>2, <2>3, <2>4 DEF OrderHolds
<1>5. \A c \in Clerk : Held(calls[c])
  BY <1>1, IdleCall
<1>6. WarehouseHolds
  <2>1. WaitingOf(receipts) \in [1..0 -> Int] /\ Sum(WaitingOf(receipts), 0) = 0
    BY <1>2, RowsTyped, SumZero
  <2>2. ASSUME NEW result PROVE Sum(JudgedOf(receipts, result), 0) = 0
    BY <1>2, RowsTyped, SumZero
  <2>3. WaitingGoods = 0 /\ \A result : JudgedGoods(result) = 0
    BY <1>2, <2>1, <2>2, Goods DEF GoodsAddUp
  <2> QED BY <1>1, <2>3 DEF WarehouseHolds
<1> QED BY <1>2, <1>3, <1>4, <1>5, <1>6 DEF ProcurementInv

\* Orders and receipts are of their types in every behaviour.
THEOREM ProcurementTyping == ProcurementSpec => []ProcurementTypeOK
<1>1. ProcurementInv => ProcurementTypeOK
  BY DEF ProcurementInv
<1> QED BY <1>1, ProcurementInitHolds, ProcurementNextKeeps, PTL DEF ProcurementSpec

\* However many clerks write, change, cancel and post receipts of however many orders at
\* once: what an order line says was received is what the receipts posted on it say, no
\* more than was ordered, and what arrived waits in quarantine or is where its inspection
\* put it (post_receipt, inspect_receipt).
THEOREM ArrivalsCountOnce == ProcurementSpec => []ReceivedIsWhatReceiptsPosted
<1>1. ProcurementInv => ReceivedIsWhatReceiptsPosted
  <2> SUFFICES ASSUME ProcurementInv PROVE ReceivedIsWhatReceiptsPosted
    OBVIOUS
  <2>1. ASSUME NEW o \in Order, NEW k \in 1..Len(orders[o].lines)
        PROVE  /\ orders[o].lines[k].received = ArrivedOn(o, k)
               /\ orders[o].lines[k].received <= orders[o].lines[k].quantity
    BY DEF ProcurementInv, OrderHolds, LineHolds
  <2>2. warehouse["quarantine"] = TotalOf({r \in Arrivals : receipts[r].status = "posted"})
    BY DEF ProcurementInv, WarehouseHolds, WaitingGoods
  <2>3. \A result \in {"qualified", "rejected"} :
          warehouse[result] = TotalOf({r \in Arrivals : receipts[r].result = result})
    BY DEF ProcurementInv, WarehouseHolds, JudgedGoods
  <2> QED BY <2>1, <2>2, <2>3 DEF ReceivedIsWhatReceiptsPosted
<1> QED BY <1>1, ProcurementInitHolds, ProcurementNextKeeps, PTL DEF ProcurementSpec

\* The status of every order tells what arrived, and nothing arrives, or is about to, for
\* one that is not in force: not even when it is called off between the reading and the
\* saving of its approval (on_order_approval_outcome), or while a receipt is written.
THEOREM StatusTellsTheTruth == ProcurementSpec => []StatusTellsWhatArrived
<1>1. ProcurementInv => StatusTellsWhatArrived
  <2> SUFFICES ASSUME ProcurementInv, NEW o \in Order
               PROVE  LET lines == orders[o].lines
                          arrived == {k \in 1..Len(lines) : lines[k].received > 0}
                          complete == {k \in 1..Len(lines) : lines[k].received = lines[k].quantity}
                      IN
                      /\ orders[o].status = "received" => complete = 1..Len(lines)
                      /\ orders[o].status = "partially_received"
                           => arrived # {} /\ complete # 1..Len(lines)
                      /\ orders[o].status \in {"none", "draft", "submitted", "approved",
                                               "rejected", "cancelled"} => arrived = {}
                      /\ orders[o].status \in {"none", "draft", "submitted", "rejected", "cancelled"}
                           => \A r \in ReceiptsOf(o) : ~ Live(r)
    BY DEF StatusTellsWhatArrived
  <2>1. Told(orders[o]) /\ (orders[o].status \in NotInForce => NothingLive(o))
    BY DEF ProcurementInv, OrderHolds
  <2> QED BY <2>1 DEF Told, NotInForce, NothingLive
<1> QED BY <1>1, ProcurementInitHolds, ProcurementNextKeeps, PTL DEF ProcurementSpec

(***************************************************************************)
(* Energy and Ingestion.                                                   *)
(***************************************************************************)

\* An alarm of this sort was raised, and it never goes away.
LEMMA RaisedStays ==
  ASSUME NEW log, NEW more, log \subseteq more, NEW source, NEW type, NEW start,
         Raised(log, source, type, start)
  PROVE  Raised(more, source, type, start)
BY DEF Raised

\* raise_alarm leaves an alarm of the source and type in the window, and removes none.
LEMMA RaiseAlarmIs ==
  ASSUME NEW log \in SUBSET EnergyAlarm, NEW source \in Source, NEW type \in AlarmType,
         NEW at \in Time, NEW start \in Int, start <= at
  PROVE  LET after == RaiseAlarm(log, source, type, at, start) IN
         /\ after \in SUBSET EnergyAlarm /\ log \subseteq after
         /\ Raised(after, source, type, start)
<1> DEFINE new == [source |-> source, type |-> type, at |-> at]
<1>1. new \in EnergyAlarm
  BY DEF EnergyAlarm
<1>2. at >= start
  BY EnergyInputs DEF Time
<1>3. CASE Raised(log, source, type, start)
  BY <1>3 DEF RaiseAlarm
<1>4. CASE ~ Raised(log, source, type, start)
  <2>1. RaiseAlarm(log, source, type, at, start) = log \union {new}
    BY <1>4 DEF RaiseAlarm
  <2>2. new \in log \union {new} /\ new.source = source /\ new.type = type /\ new.at = at
    OBVIOUS
  <2> HIDE DEF new
  <2>3. Raised(log \union {new}, source, type, start)
    BY <1>2, <2>2 DEF Raised
  <2> QED
    BY <1>1, <2>1, <2>3
<1> QED
  BY <1>3, <1>4

LEMMA DayStarts ==
  ASSUME NEW t \in Time
  PROVE  t \in Nat /\ DayStart(t) \in Nat /\ DayStart(t) <= t
<1>1. t \in Nat
  BY EnergyInputs DEF Time
<1> QED
  BY <1>1, EnergyInputs DEF DayStart

LEMMA RaiseTodayIs ==
  ASSUME NEW log \in SUBSET EnergyAlarm, NEW source \in Source, NEW type \in AlarmType,
         NEW at \in Time
  PROVE  LET after == RaiseToday(log, source, type, at) IN
         /\ after \in SUBSET EnergyAlarm /\ log \subseteq after
         /\ Raised(after, source, type, DayStart(at))
BY DayStarts, RaiseAlarmIs DEF RaiseToday

\* A row of a list that is written, or not there to be written.
LEMMA WrittenRow ==
  ASSUME NEW S, NEW seq \in Seq(S), NEW i, NEW e \in S
  PROVE  /\ [seq EXCEPT ![i] = e] \in Seq(S)
         /\ Len([seq EXCEPT ![i] = e]) = Len(seq)
         /\ \A j \in 1..Len(seq) : [seq EXCEPT ![i] = e][j] = IF j = i THEN e ELSE seq[j]
<1>1. CASE i \in 1..Len(seq)
  BY <1>1, ExceptSeq
<1>2. CASE i \notin 1..Len(seq)
  <2>1. DOMAIN seq = 1..Len(seq)
    BY LenProperties
  <2>2. [seq EXCEPT ![i] = e] = seq
    <3>1. DOMAIN [seq EXCEPT ![i] = e] = DOMAIN seq
      OBVIOUS
    <3>2. \A j \in DOMAIN seq : [seq EXCEPT ![i] = e][j] = seq[j]
      BY <1>2, <2>1
    <3>3. seq = [j \in DOMAIN seq |-> seq[j]]
      BY LenProperties
    <3>4. [seq EXCEPT ![i] = e] = [j \in DOMAIN seq |-> [seq EXCEPT ![i] = e][j]]
      OBVIOUS
    <3> QED
      BY <3>2, <3>3, <3>4
  <2> QED
    BY <1>2, <2>2
<1> QED
  BY <1>1, <1>2

\* What a dial showed at its latest reading is something a dial can show.
LEMMA LatestReading ==
  ASSUME EnergyTypeOK, NEW m, NEW at, ReadingsUntil(m, at) # {}
  PROVE  \E i \in ReadingsUntil(m, at) :
           \A j \in ReadingsUntil(m, at) :
             dials[j].at < dials[i].at \/ (dials[j].at = dials[i].at /\ j <= i)
<1> DEFINE R == ReadingsUntil(m, at)
           Ages == {n \in Nat : \E j \in R : n = MaxTime - dials[j].at}
<1>1. /\ R \subseteq 1..Len(dials) /\ Len(dials) \in Nat /\ MaxTime \in Int
      /\ \A j \in R : dials[j].at \in Int /\ MaxTime - dials[j].at \in Nat
  <2>1. dials \in Seq(MeterReading) /\ MaxTime \in Nat
    BY EnergyInputs DEF EnergyTypeOK
  <2>2. Len(dials) \in Nat /\ R \subseteq 1..Len(dials)
    BY <2>1, LenProperties DEF ReadingsUntil
  <2>3. \A j \in R : dials[j] \in MeterReading
    BY <2>1, <2>2, ElementOfSeq
  <2>4. \A j \in R : dials[j].at \in Time
    BY <2>3 DEF MeterReading
  <2>5. \A j \in R : dials[j].at \in 0..MaxTime
    BY <2>4 DEF Time
  <2> QED
    BY <2>1, <2>2, <2>5
<1> HIDE DEF R
<1>2. Ages # {} /\ Ages \subseteq Nat
  BY <1>1 DEF R
<1>3. PICK a \in Ages : \A b \in Ages : a <= b
  BY <1>2, LeastNatural
<1> DEFINE Newest == {j \in R : a = MaxTime - dials[j].at}
           Gaps == {n \in Nat : \E j \in Newest : n = Len(dials) - j}
<1>4. Newest # {} /\ \A j \in R, k \in Newest : dials[j].at <= dials[k].at
  <2>1. ASSUME NEW j \in R PROVE a <= MaxTime - dials[j].at
    <3>1. MaxTime - dials[j].at \in Ages
      BY <1>1
    <3> QED
      BY <1>3, <3>1
  <2>2. PICK h \in R : a = MaxTime - dials[h].at
    OBVIOUS
  <2>3. Newest # {}
    BY <2>2
  <2>4. ASSUME NEW j \in R, NEW k \in Newest PROVE dials[j].at <= dials[k].at
    <3>1. k \in R /\ a = MaxTime - dials[k].at
      OBVIOUS
    <3>2. a <= MaxTime - dials[j].at
      BY <2>1
    <3> HIDE DEF Newest, Ages
    <3>3. dials[j].at \in Int /\ dials[k].at \in Int /\ MaxTime \in Int
      BY <1>1, <3>1
    <3> QED
      BY <3>1, <3>2, <3>3
  <2> QED
    BY <2>3, <2>4
<1>5. Newest \subseteq R /\ \A j \in R, k \in Newest : dials[j].at = dials[k].at => j \in Newest
  OBVIOUS
<1> HIDE DEF Newest
<1>6. Gaps # {} /\ Gaps \subseteq Nat
  <2>1. PICK k \in Newest : TRUE
    BY <1>4
  <2>2. Len(dials) - k \in Nat
    BY <1>1, <1>5, <2>1
  <2>3. Len(dials) - k \in Gaps
    BY <2>1, <2>2
  <2> QED
    BY <2>3
<1>7. PICK g \in Gaps : \A n \in Gaps : g <= n
  BY <1>6, LeastNatural
<1>8. PICK i \in Newest : g = Len(dials) - i
  OBVIOUS
<1>9. ASSUME NEW j \in R PROVE dials[j].at < dials[i].at \/ (dials[j].at = dials[i].at /\ j <= i)
  <2>1. dials[j].at <= dials[i].at
    BY <1>4
  <2>2. ASSUME dials[j].at = dials[i].at PROVE j <= i
    <3>1. j \in Newest /\ j \in 1..Len(dials) /\ i \in 1..Len(dials)
      BY <1>1, <1>5, <2>2
    <3>2. Len(dials) - j \in Gaps
      BY <1>1, <3>1
    <3>3. g <= Len(dials) - j
      BY <1>7, <3>2
    <3> QED
      BY <1>1, <1>8, <3>1, <3>3
  <2>3. dials[j].at \in Int /\ dials[i].at \in Int
    BY <1>1, <1>5
  <2> QED
    BY <2>1, <2>2, <2>3
<1>10. i \in R
  BY <1>5
<1> QED
  BY <1>9, <1>10 DEF R

LEMMA ShownIsShown ==
  ASSUME EnergyTypeOK, NEW m, NEW at, NEW value \in Values
  PROVE  ShownBefore(m, at, value) \in Values
<1> DEFINE R == ReadingsUntil(m, at)
           Latest(i) == \A j \in R : dials[j].at < dials[i].at \/ (dials[j].at = dials[i].at /\ j <= i)
           i == CHOOSE i \in R : Latest(i)
<1>1. CASE R = {}
  BY <1>1 DEF ShownBefore
<1>2. CASE R # {}
  <2>1. \E k \in R : Latest(k)
    BY <1>2, LatestReading
  <2>2. i \in R
    BY <2>1
  <2>3. dials[i] \in MeterReading
    BY <2>2, ElementOfSeq DEF EnergyTypeOK, ReadingsUntil
  <2>4. ShownBefore(m, at, value) = dials[i].reading
    BY <1>2 DEF ShownBefore
  <2> QED
    BY <2>3, <2>4 DEF MeterReading
<1> QED
  BY <1>1, <1>2

\* What was consumed in a stretch of time is a sum of what readings consumed.
LEMMA ConsumedIsNatural ==
  ASSUME NEW list \in Seq(MeterReading), NEW m, NEW from, NEW to
  PROVE  ConsumedBetween(m, from, to, list) \in Nat
<1> DEFINE f == [i \in 1..Len(list) |->
                   IF list[i].meter = m /\ list[i].at \in from..to THEN list[i].consumption ELSE 0]
<1>1. ASSUME NEW i \in 1..Len(list) PROVE list[i].consumption \in Nat
  <2>1. list[i] \in MeterReading
    BY ElementOfSeq
  <2> QED
    BY <2>1 DEF MeterReading
<1>2. f \in [1..Len(list) -> Nat] /\ Len(list) \in Nat
  BY <1>1, LenProperties
<1>3. ConsumedBetween(m, from, to, list) = Sum(f, Len(list))
  BY DEF ConsumedBetween
<1> HIDE DEF f
<1> QED
  BY <1>2, <1>3, SumOfNaturals

\* What a request has read, by what it is about.
LEMMA DeskIs ==
  ASSUME EnergyTypeOK, NEW u \in User
  PROVE  /\ Waits(u, "read") => desk[u].reading \in MeterReading /\ desk[u].row \in EnergyMeter
         /\ Waits(u, "scan") \/ Waits(u, "edit") =>
              desk[u].meter \in Meter /\ desk[u].row \in EnergyMeter
         /\ Waits(u, "start") => desk[u].meter \in Meter
         /\ Waits(u, "run") => desk[u].id \in Nat /\ desk[u].row \in EnergyRunRecord
<1>1. desk[u] \in Request
  BY DEF EnergyTypeOK
<1> QED
  BY <1>1 DEF Waits, Request, FreeDesk

LEMMA DeskTaken ==
  ASSUME EnergyTypeOK, NEW u \in User, NEW request \in Request, Takes(u, request)
  PROVE  desk' \in [User -> Request]
BY DEF Takes, EnergyTypeOK

LEMMA DeskDone ==
  ASSUME EnergyTypeOK, NEW u \in User, Done(u)
  PROVE  desk' \in [User -> Request]
BY DEF Done, EnergyTypeOK, Request

\* While readings and runs stay, more alarms cover them no less.
LEMMA MetersStayAlarmed ==
  ASSUME MetersOverLimitAreAlarmed, dials' = dials, runs' = runs, alarms \subseteq alarms'
  PROVE  MetersOverLimitAreAlarmed'
BY RaisedStays DEF MetersOverLimitAreAlarmed

EnergyKept == EnergyTypeOK' /\ MetersOverLimitAreAlarmed' /\ alarms \subseteq alarms'

LEMMA ReportAlarmKeeps ==
  ASSUME EnergyTypeOK, MetersOverLimitAreAlarmed,
         NEW source \in Source, NEW type \in AlarmType, ReportAlarm(source, type)
  PROVE  EnergyKept
<1>1. [source |-> source, type |-> type, at |-> clock] \in EnergyAlarm
  BY DEF EnergyTypeOK, EnergyAlarm
<1>2. alarms \subseteq alarms' /\ alarms' \subseteq EnergyAlarm
      /\ UNCHANGED <<clock, meters, dials, runs, desk>>
  BY <1>1 DEF ReportAlarm, EnergyTypeOK
<1> QED
  BY <1>2, MetersStayAlarmed DEF EnergyKept, EnergyTypeOK

LEMMA TickKeeps ==
  ASSUME EnergyTypeOK, MetersOverLimitAreAlarmed, Tick
  PROVE  EnergyKept
<1>1. clock' \in Time /\ UNCHANGED <<alarms, meters, dials, runs, desk>>
  BY EnergyInputs DEF Tick, EnergyTypeOK, Time
<1> QED
  BY <1>1, MetersStayAlarmed DEF EnergyKept, EnergyTypeOK

\* Steps that only read.
LEMMA DeskKeeps ==
  ASSUME EnergyTypeOK, MetersOverLimitAreAlarmed, NEW u \in User, NEW request \in Request,
         Takes(u, request), UNCHANGED <<clock, alarms, meters, dials, runs>>
  PROVE  EnergyKept
<1>1. desk' \in [User -> Request]
  BY DeskTaken
<1> QED
  BY <1>1, MetersStayAlarmed DEF EnergyKept, EnergyTypeOK

LEMMA LookAtDialKeeps ==
  ASSUME EnergyTypeOK, MetersOverLimitAreAlarmed, NEW u \in User, NEW m \in Meter, NEW at \in Time,
         NEW value \in Values, LookAtDial(u, m, at, value)
  PROVE  EnergyKept
<1> DEFINE shown == ShownBefore(m, at, value)
           reading == [meter |-> m, at |-> at, reading |-> value, consumption |-> value - shown]
           request == [job |-> "read", row |-> meters[m], reading |-> reading]
<1>1. shown \in Values
  BY ShownIsShown
<1>2. shown \in Nat /\ value \in Nat /\ value >= shown
  BY <1>1, EnergyInputs DEF LookAtDial
<1>3. Takes(u, request) /\ UNCHANGED <<clock, alarms, meters, dials, runs>>
  BY DEF LookAtDial
<1>4. value - shown \in Nat
  BY <1>2
<1> HIDE DEF shown
<1>5. reading \in MeterReading
  BY <1>4 DEF MeterReading
<1>6. meters[m] \in EnergyMeter
  BY DEF EnergyTypeOK
<1> HIDE DEF reading
<1>7. request \in Request
  BY <1>5, <1>6 DEF Request
<1> HIDE DEF request
<1> QED
  BY <1>3, <1>7, DeskKeeps

LEMMA AlarmsOfIs ==
  ASSUME EnergyTypeOK, NEW reading \in MeterReading, NEW list
  PROVE  LET after == AlarmsOf(reading, list) IN
         /\ after \in SUBSET EnergyAlarm /\ alarms \subseteq after
         /\ reading.reading > UpperLimit =>
              Raised(after, reading.meter, "over_limit", DayStart(reading.at))
<1> DEFINE over == IF reading.reading > UpperLimit
                   THEN RaiseToday(alarms, reading.meter, "over_limit", reading.at)
                   ELSE alarms
           after == AlarmsOf(reading, list)
<1>1. reading.meter \in Source /\ reading.at \in Time /\ alarms \in SUBSET EnergyAlarm
  BY EnergyInputs DEF EnergyTypeOK, MeterReading
<1>2. "over_limit" \in AlarmType /\ "energy_consumption" \in AlarmType
  BY DEF AlarmType
<1>3. /\ over \in SUBSET EnergyAlarm /\ alarms \subseteq over
      /\ reading.reading > UpperLimit =>
           Raised(over, reading.meter, "over_limit", DayStart(reading.at))
  BY <1>1, <1>2, RaiseTodayIs
<1>4. after = over \/ after = RaiseToday(over, reading.meter, "energy_consumption", reading.at)
  BY DEF AlarmsOf
<1> HIDE DEF over, after
<1>5. after \in SUBSET EnergyAlarm /\ over \subseteq after
  BY <1>1, <1>2, <1>3, <1>4, RaiseTodayIs
<1>6. reading.reading > UpperLimit => Raised(after, reading.meter, "over_limit", DayStart(reading.at))
  BY <1>3, <1>5, RaisedStays
<1> QED
  BY <1>3, <1>5, <1>6 DEF after

LEMMA RecordReadingKeeps ==
  ASSUME EnergyTypeOK, MetersOverLimitAreAlarmed, NEW u \in User, RecordReading(u)
  PROVE  EnergyKept
<1> DEFINE reading == desk[u].reading
<1>1. reading \in MeterReading /\ desk[u].row \in EnergyMeter
  BY DeskIs DEF RecordReading
<1>2. dials \in Seq(MeterReading) /\ Len(dials) \in Nat
  BY LenProperties DEF EnergyTypeOK
<1>3. /\ dials' \in Seq(MeterReading) /\ Len(dials') = Len(dials) + 1
      /\ \A i \in 1..Len(dials) : dials'[i] = dials[i]
      /\ dials'[Len(dials) + 1] = reading
  BY <1>1, <1>2, AppendProperties DEF RecordReading
<1>4. /\ alarms' \in SUBSET EnergyAlarm /\ alarms \subseteq alarms'
      /\ reading.reading > UpperLimit =>
           Raised(alarms', reading.meter, "over_limit", DayStart(reading.at))
  BY <1>1, AlarmsOfIs DEF RecordReading
<1>5. meters' \in [Meter -> EnergyMeter]
  <2> DEFINE row == [lastReading |-> reading.at,
                     status |-> IF desk[u].row.status = "stopped" THEN "stopped" ELSE "online"]
  <2>1. reading.at \in Time /\ reading.meter \in Meter
    BY <1>1 DEF MeterReading
  <2>2. row \in EnergyMeter
    BY <2>1 DEF EnergyMeter
  <2>3. meters' = [meters EXCEPT ![reading.meter] = row]
    BY DEF RecordReading
  <2> HIDE DEF row
  <2> QED
    BY <2>2, <2>3 DEF EnergyTypeOK
<1>6. desk' \in [User -> Request] /\ clock' = clock /\ runs' = runs
  BY DeskDone DEF RecordReading
<1>7. EnergyTypeOK'
  BY <1>3, <1>4, <1>5, <1>6 DEF EnergyTypeOK
<1> HIDE DEF reading
<1>8. ASSUME NEW r \in 1..Len(dials'), dials'[r].reading > UpperLimit
      PROVE  Raised(alarms', dials'[r].meter, "over_limit", DayStart(dials'[r].at))
  <2>1. CASE r \in 1..Len(dials)
    <3>1. dials'[r] = dials[r]
      BY <1>3, <2>1
    <3>2. Raised(alarms, dials[r].meter, "over_limit", DayStart(dials[r].at))
      BY <1>8, <2>1, <3>1 DEF MetersOverLimitAreAlarmed
    <3> QED
      BY <1>4, <3>1, <3>2, RaisedStays
  <2>2. CASE r = Len(dials) + 1
    BY <1>3, <1>4, <1>8, <2>2
  <2> QED
    BY <1>2, <1>3, <2>1, <2>2
<1>9. MetersOverLimitAreAlarmed'
  <2>1. \A r \in 1..Len(runs) :
          (/\ runs[r].status = "finished" /\ runs[r].output > 0
           /\ runs[r].energy > UnitLimit * runs[r].output) =>
             Raised(alarms', runs[r].meter, "unit_consumption", DayStart(runs[r].finishedAt))
    BY <1>4, RaisedStays DEF MetersOverLimitAreAlarmed
  <2> QED
    BY <1>6, <1>8, <2>1 DEF MetersOverLimitAreAlarmed
<1> QED
  BY <1>4, <1>7, <1>9 DEF EnergyKept

LEMMA MeterCallsKeep ==
  ASSUME EnergyTypeOK, MetersOverLimitAreAlarmed, MeterNext
  PROVE  EnergyKept
<1>1. ASSUME NEW u \in User, NEW m \in Meter, LookForSilence(u, m) PROVE EnergyKept
  <2>1. [job |-> "scan", meter |-> m, row |-> meters[m]] \in Request
    BY DEF EnergyTypeOK, Request
  <2> QED
    BY <1>1, <2>1, DeskKeeps DEF LookForSilence
<1>2. ASSUME NEW u \in User, NEW m \in Meter, OpenMeter(u, m) PROVE EnergyKept
  <2>1. [job |-> "edit", meter |-> m, row |-> meters[m]] \in Request
    BY DEF EnergyTypeOK, Request
  <2> QED
    BY <1>2, <2>1, DeskKeeps DEF OpenMeter
<1>3. ASSUME NEW u \in User, ScanOfflineMeter(u) PROVE EnergyKept
  <2>1. desk[u].meter \in Meter /\ desk' \in [User -> Request] /\ UNCHANGED <<clock, dials, runs>>
    BY <1>3, DeskIs, DeskDone DEF ScanOfflineMeter
  <2>2. desk[u].meter \in Source /\ "offline" \in AlarmType /\ clock \in Time
        /\ alarms \in SUBSET EnergyAlarm
    BY <2>1, EnergyInputs DEF AlarmType, EnergyTypeOK
  <2>3. alarms' \in SUBSET EnergyAlarm /\ alarms \subseteq alarms'
    BY <1>3, <2>2, RaiseTodayIs DEF ScanOfflineMeter
  <2>4. meters' \in [Meter -> EnergyMeter]
    BY <1>3, <2>1 DEF ScanOfflineMeter, EnergyTypeOK, EnergyMeter
  <2> QED
    BY <2>1, <2>3, <2>4, MetersStayAlarmed DEF EnergyKept, EnergyTypeOK
<1>4. ASSUME NEW u \in User, NEW status \in {"online", "offline", "stopped"}, SaveMeter(u, status)
      PROVE  EnergyKept
  <2>1. /\ desk[u].meter \in Meter /\ desk[u].row \in EnergyMeter /\ desk' \in [User -> Request]
        /\ UNCHANGED <<clock, alarms, dials, runs>>
    BY <1>4, DeskIs, DeskDone DEF SaveMeter
  <2>2. [desk[u].row EXCEPT !.status = status] \in EnergyMeter
    BY <2>1 DEF EnergyMeter
  <2>3. meters' \in [Meter -> EnergyMeter]
    BY <1>4, <2>2 DEF SaveMeter, EnergyTypeOK
  <2> QED
    BY <2>1, <2>3, MetersStayAlarmed DEF EnergyKept, EnergyTypeOK
<1> QED
  BY <1>1, <1>2, <1>3, <1>4 DEF MeterNext

\* A run that consumed too much has its alarm.
RunAlarmed(log, run) ==
  (/\ run.status = "finished" /\ run.output > 0 /\ run.energy > UnitLimit * run.output) =>
    Raised(log, run.meter, "unit_consumption", DayStart(run.finishedAt))

LEMMA RunsStayAlarmed ==
  ASSUME MetersOverLimitAreAlarmed, dials' = dials, alarms \subseteq alarms', Len(runs') \in Nat,
         \A r \in 1..Len(runs') : RunAlarmed(alarms', runs'[r])
                                    \/ (r \in 1..Len(runs) /\ runs'[r] = runs[r])
  PROVE  MetersOverLimitAreAlarmed'
<1>1. ASSUME NEW r \in 1..Len(runs') PROVE RunAlarmed(alarms', runs'[r])
  <2>1. CASE r \in 1..Len(runs) /\ runs'[r] = runs[r]
    BY <2>1, RaisedStays DEF MetersOverLimitAreAlarmed, RunAlarmed
  <2> QED
    BY <2>1
<1>2. \A r \in 1..Len(dials) : dials[r].reading > UpperLimit =>
        Raised(alarms', dials[r].meter, "over_limit", DayStart(dials[r].at))
  BY RaisedStays DEF MetersOverLimitAreAlarmed
<1> QED
  BY <1>1, <1>2 DEF MetersOverLimitAreAlarmed, RunAlarmed

LEMMA RunsAre ==
  ASSUME EnergyTypeOK
  PROVE  /\ runs \in Seq(EnergyRunRecord) /\ Len(runs) \in Nat
         /\ \A r \in 1..Len(runs) : runs[r] \in EnergyRunRecord
BY ElementOfSeq, LenProperties DEF EnergyTypeOK

LEMMA StartRunKeeps ==
  ASSUME EnergyTypeOK, MetersOverLimitAreAlarmed, NEW u \in User, StartRun(u)
  PROVE  EnergyKept
<1> DEFINE run == [meter |-> desk[u].meter, startedAt |-> clock, finishedAt |-> clock,
                   energy |-> 0, output |-> 0, status |-> "running"]
<1>1. /\ desk[u].meter \in Meter /\ desk' \in [User -> Request]
      /\ UNCHANGED <<clock, alarms, meters, dials>> /\ runs' = Append(runs, run)
  BY DeskIs, DeskDone DEF StartRun
<1>2. run \in EnergyRunRecord /\ run.status = "running"
  BY <1>1 DEF EnergyRunRecord, EnergyTypeOK
<1> HIDE DEF run
<1>3. /\ runs' \in Seq(EnergyRunRecord) /\ Len(runs') = Len(runs) + 1
      /\ \A r \in 1..Len(runs) : runs'[r] = runs[r]
      /\ runs'[Len(runs) + 1] = run
  BY <1>1, <1>2, RunsAre, AppendProperties
<1>4. RunAlarmed(alarms', run)
  BY <1>2 DEF RunAlarmed
<1>5. ASSUME NEW r \in 1..Len(runs')
      PROVE  RunAlarmed(alarms', runs'[r]) \/ (r \in 1..Len(runs) /\ runs'[r] = runs[r])
  <2>1. r \in 1..Len(runs) \/ r = Len(runs) + 1
    BY <1>3, RunsAre
  <2> QED
    BY <1>3, <1>4, <2>1
<1>6. Len(runs') \in Nat
  BY <1>3, RunsAre
<1>7. MetersOverLimitAreAlarmed'
  BY <1>1, <1>5, <1>6, RunsStayAlarmed
<1> QED
  BY <1>1, <1>3, <1>7 DEF EnergyKept, EnergyTypeOK

AsFinished(run, energy, output, at) ==
  [run EXCEPT !.status = "finished", !.energy = energy, !.output = output, !.finishedAt = at]

LEMMA FinishedRun ==
  ASSUME NEW run \in EnergyRunRecord, NEW energy \in Nat, NEW output \in Nat, NEW at \in Time
  PROVE  LET new == AsFinished(run, energy, output, at)
         IN  /\ new \in EnergyRunRecord /\ new.status = "finished" /\ new.energy = energy
             /\ new.output = output /\ new.finishedAt = at /\ new.meter = run.meter
BY DEF EnergyRunRecord, AsFinished

LEMMA FinishRunKeeps ==
  ASSUME EnergyTypeOK, MetersOverLimitAreAlarmed, NEW u \in User, NEW output \in 0..1,
         FinishRun(u, output)
  PROVE  EnergyKept
<1> DEFINE run == desk[u].row
           id == desk[u].id
           energy == ConsumedBetween(run.meter, run.startedAt, clock, dials)
           new == AsFinished(run, energy, output, clock)
<1>1. /\ run \in EnergyRunRecord /\ desk' \in [User -> Request]
      /\ UNCHANGED <<clock, meters, dials>> /\ runs' = [runs EXCEPT ![id] = new]
      /\ alarms' = IF output > 0 /\ energy > UnitLimit * output
                   THEN RaiseToday(alarms, run.meter, "unit_consumption", clock) ELSE alarms
  BY DeskIs, DeskDone DEF FinishRun, AsFinished
<1>2. energy \in Nat
  BY ConsumedIsNatural DEF EnergyTypeOK
<1> HIDE DEF energy
<1>3. clock \in Time /\ run.meter \in Source /\ alarms \in SUBSET EnergyAlarm
      /\ "unit_consumption" \in AlarmType
  BY <1>1, EnergyInputs DEF EnergyTypeOK, EnergyRunRecord, AlarmType
<1>4. /\ new \in EnergyRunRecord /\ new.status = "finished" /\ new.energy = energy
      /\ new.output = output /\ new.finishedAt = clock /\ new.meter = run.meter
  <2> HIDE DEF run
  <2>1. output \in Nat
    OBVIOUS
  <2> QED
    BY <1>1, <1>2, <1>3, <2>1, FinishedRun
<1> HIDE DEF new, run, id
<1>5. /\ alarms' \in SUBSET EnergyAlarm /\ alarms \subseteq alarms'
      /\ output > 0 /\ energy > UnitLimit * output =>
           Raised(alarms', run.meter, "unit_consumption", DayStart(clock))
  BY <1>1, <1>3, RaiseTodayIs
<1>6. RunAlarmed(alarms', new)
  BY <1>4, <1>5 DEF RunAlarmed
<1>7. /\ runs' \in Seq(EnergyRunRecord) /\ Len(runs') = Len(runs)
      /\ \A r \in 1..Len(runs) : runs'[r] = IF r = id THEN new ELSE runs[r]
  BY <1>1, <1>4, RunsAre, WrittenRow
<1>8. MetersOverLimitAreAlarmed'
  BY <1>1, <1>5, <1>6, <1>7, RunsAre, RunsStayAlarmed
<1> QED
  BY <1>1, <1>5, <1>7, <1>8 DEF EnergyKept, EnergyTypeOK

LEMMA CancelRunKeeps ==
  ASSUME EnergyTypeOK, MetersOverLimitAreAlarmed, NEW u \in User, CancelRun(u)
  PROVE  EnergyKept
<1> DEFINE id == desk[u].id
           new == [runs[id] EXCEPT !.status = "cancelled"]
<1>1. /\ desk' \in [User -> Request] /\ UNCHANGED <<clock, alarms, meters, dials>>
      /\ runs' = [runs EXCEPT ![id] = new]
  BY DeskDone DEF CancelRun
<1>2. /\ runs' \in Seq(EnergyRunRecord) /\ Len(runs') = Len(runs)
      /\ \A r \in 1..Len(runs) : RunAlarmed(alarms', runs'[r]) \/ runs'[r] = runs[r]
  <2>1. CASE id \in 1..Len(runs)
    <3>1. runs[id] \in EnergyRunRecord
      BY <2>1, RunsAre
    <3>2. new \in EnergyRunRecord /\ new.status = "cancelled"
      BY <3>1 DEF EnergyRunRecord
    <3> HIDE DEF new, id
    <3>3. RunAlarmed(alarms', new)
      BY <3>2 DEF RunAlarmed
    <3> QED
      BY <1>1, <3>2, <3>3, RunsAre, WrittenRow
  <2>2. CASE id \notin 1..Len(runs)
    <3>1. DOMAIN runs = 1..Len(runs) /\ runs = [r \in 1..Len(runs) |-> runs[r]]
      BY RunsAre, LenProperties
    <3> HIDE DEF new, id
    <3>2. runs' = runs
      BY <1>1, <2>2, <3>1
    <3> QED
      BY <3>2, RunsAre
  <2> QED
    BY <2>1, <2>2
<1>3. MetersOverLimitAreAlarmed'
  BY <1>1, <1>2, RunsAre, RunsStayAlarmed
<1> QED
  BY <1>1, <1>2, <1>3 DEF EnergyKept, EnergyTypeOK

LEMMA RunCallsKeep ==
  ASSUME EnergyTypeOK, MetersOverLimitAreAlarmed, RunNext
  PROVE  EnergyKept
<1>1. ASSUME NEW u \in User, NEW m \in Meter, LookForRuns(u, m) PROVE EnergyKept
  <2>1. [job |-> "start", meter |-> m] \in Request
    BY DEF Request
  <2> QED
    BY <1>1, <2>1, DeskKeeps DEF LookForRuns
<1>2. ASSUME NEW u \in User, NEW r \in 1..Len(runs), OpenRun(u, r) PROVE EnergyKept
  <2>1. runs[r] \in EnergyRunRecord /\ r \in Nat
    BY RunsAre
  <2>2. [job |-> "run", id |-> r, row |-> runs[r]] \in Request
    BY <2>1 DEF Request
  <2> QED
    BY <1>2, <2>2, DeskKeeps DEF OpenRun
<1> QED
  BY <1>1, <1>2, StartRunKeeps, FinishRunKeeps, CancelRunKeeps DEF RunNext

LEMMA EnergyNextKeeps ==
  ASSUME EnergyTypeOK, MetersOverLimitAreAlarmed, EnergyNext
  PROVE  EnergyKept
<1>1. ASSUME NEW m \in Meter, NEW type \in ReportedTypes PROVE m \in Source /\ type \in AlarmType
  BY EnergyInputs DEF AlarmType
<1>2. ASSUME ReadNext PROVE EnergyKept
  BY <1>1, <1>2, TickKeeps, ReportAlarmKeeps, LookAtDialKeeps, RecordReadingKeeps DEF ReadNext
<1> QED
  BY <1>2, MeterCallsKeep, RunCallsKeep DEF EnergyNext

\* The readings and alarms there are while a report is stored.
Logs == [readings : Seq(IoTReading), alarms : SUBSET EnergyAlarm]

\* A value over the limit has its alarm.
PointAlarmed(log, reading) ==
  reading.value = "over" => Raised(log, reading.point, "over_limit", reading.at - LimitWindow)

\* What is stored of message n comes after what there was, and has its alarms.
Grows(log, after, n) ==
  /\ log.alarms \subseteq after.alarms
  /\ Len(log.readings) <= Len(after.readings)
  /\ \A i \in 1..Len(log.readings) : after.readings[i] = log.readings[i]
  /\ \A i \in 1..Len(after.readings) : i > Len(log.readings) =>
       after.readings[i].message = n /\ PointAlarmed(after.alarms, after.readings[i])

LEMMA LogIs ==
  ASSUME NEW log \in Logs
  PROVE  /\ log.readings \in Seq(IoTReading) /\ log.alarms \in SUBSET EnergyAlarm
         /\ Len(log.readings) \in Nat
         /\ \A i \in 1..Len(log.readings) : log.readings[i] \in IoTReading
<1>1. log.readings \in Seq(IoTReading) /\ log.alarms \in SUBSET EnergyAlarm
  BY DEF Logs
<1> QED
  BY <1>1, ElementOfSeq, LenProperties

LEMMA GrowsNothing ==
  ASSUME NEW log \in Logs, NEW n
  PROVE  Grows(log, log, n)
<1>1. \A i \in 1..Len(log.readings) : ~ (i > Len(log.readings))
  BY LogIs
<1> QED
  BY <1>1, LogIs DEF Grows

LEMMA GrowsOn ==
  ASSUME NEW a \in Logs, NEW b \in Logs, NEW c \in Logs, NEW n, Grows(a, b, n), Grows(b, c, n)
  PROVE  Grows(a, c, n)
<1>1. Len(a.readings) \in Nat /\ Len(b.readings) \in Nat /\ Len(c.readings) \in Nat
  BY LogIs
<1>2. a.alarms \subseteq b.alarms /\ b.alarms \subseteq c.alarms
  BY DEF Grows
<1>3. Len(a.readings) <= Len(b.readings) /\ Len(b.readings) <= Len(c.readings)
  BY DEF Grows
<1>4. ASSUME NEW i \in 1..Len(a.readings) PROVE c.readings[i] = a.readings[i]
  <2>1. i \in 1..Len(b.readings)
    BY <1>1, <1>3
  <2> QED
    BY <2>1 DEF Grows
<1>5. ASSUME NEW i \in 1..Len(c.readings), i > Len(a.readings)
      PROVE  c.readings[i].message = n /\ PointAlarmed(c.alarms, c.readings[i])
  <2>1. CASE i \in 1..Len(b.readings)
    <3>1. c.readings[i] = b.readings[i]
      BY <2>1 DEF Grows
    <3>2. b.readings[i].message = n /\ PointAlarmed(b.alarms, b.readings[i])
      BY <1>5, <2>1 DEF Grows
    <3> QED
      BY <1>2, <3>1, <3>2, RaisedStays DEF PointAlarmed
  <2>2. CASE i \notin 1..Len(b.readings)
    <3>1. i > Len(b.readings)
      BY <1>1, <2>2
    <3> QED
      BY <3>1 DEF Grows
  <2> QED
    BY <2>1, <2>2
<1> QED
  BY <1>1, <1>2, <1>3, <1>4, <1>5 DEF Grows

\* One value of a report.
LEMMA StoredIs ==
  ASSUME NEW log \in Logs, NEW item \in Item, NEW report \in Report, NEW n \in Nat
  PROVE  Stored(log, item, report, n) \in Logs /\ Grows(log, Stored(log, item, report, n), n)
<1> DEFINE after == Stored(log, item, report, n)
           new == [point |-> item.point, at |-> report.at, value |-> item.value, message |-> n]
           raised == RaiseAlarm(log.alarms, item.point, "over_limit", report.at,
                                report.at - LimitWindow)
           judged == IF item.value = "over" THEN raised ELSE log.alarms
<1>1. CASE after = log
  BY <1>1, GrowsNothing
<1>2. CASE after # log
  <2>1. item.value # "unusable"
    BY <1>2 DEF Stored
  <2>2. after = [readings |-> Append(log.readings, new), alarms |-> judged]
    BY <1>2 DEF Stored
  <2>3. item.point \in Point /\ item.value \in {"normal", "over"} /\ report.at \in Time
    BY <2>1 DEF Item, Report
  <2>4. new \in IoTReading /\ new.message = n /\ new.value = item.value
        /\ new.point = item.point /\ new.at = report.at
    BY <2>3 DEF IoTReading
  <2> HIDE DEF new
  <2>5. /\ Append(log.readings, new) \in Seq(IoTReading)
        /\ Len(Append(log.readings, new)) = Len(log.readings) + 1
        /\ \A i \in 1..Len(log.readings) : Append(log.readings, new)[i] = log.readings[i]
        /\ Append(log.readings, new)[Len(log.readings) + 1] = new
    BY <2>4, LogIs, AppendProperties
  <2>6. /\ raised \in SUBSET EnergyAlarm /\ log.alarms \subseteq raised
        /\ Raised(raised, item.point, "over_limit", report.at - LimitWindow)
    <3>1. item.point \in Source /\ "over_limit" \in AlarmType /\ LimitWindow \in Nat
      BY <2>3, IngestionInputs DEF AlarmType
    <3>2. report.at \in Nat
      BY <2>3, DayStarts
    <3>3. report.at - LimitWindow \in Int /\ report.at - LimitWindow <= report.at
      BY <3>1, <3>2
    <3> QED
      BY <2>3, <3>1, <3>3, LogIs, RaiseAlarmIs
  <2> HIDE DEF raised
  <2>7. judged \in SUBSET EnergyAlarm /\ log.alarms \subseteq judged /\ PointAlarmed(judged, new)
    BY <2>4, <2>6, LogIs DEF PointAlarmed
  <2> HIDE DEF judged
  <2>8. after.readings = Append(log.readings, new) /\ after.alarms = judged
    BY <2>2
  <2>9. after \in Logs
    BY <2>2, <2>5, <2>7 DEF Logs
  <2> HIDE DEF after
  <2>10. ASSUME NEW i \in 1..Len(after.readings), i > Len(log.readings)
         PROVE  after.readings[i].message = n /\ PointAlarmed(after.alarms, after.readings[i])
    <3>1. i = Len(log.readings) + 1
      BY <2>5, <2>8, <2>10, LogIs
    <3> QED
      BY <2>4, <2>5, <2>7, <2>8, <3>1
  <2>11. Len(log.readings) <= Len(after.readings)
    BY <2>5, <2>8, LogIs
  <2>12. Grows(log, after, n)
    BY <2>5, <2>7, <2>8, <2>10, <2>11 DEF Grows
  <2> QED
    BY <2>9, <2>12 DEF after
<1> QED
  BY <1>1, <1>2

\* All its values, however many there are: by induction.
LEMMA StoredAllIs ==
  ASSUME EnergyTypeOK, IngestionTypeOK, NEW report \in Report, NEW n \in Nat
  PROVE  /\ StoredAll(report, n) \in Logs
         /\ Grows([readings |-> readings, alarms |-> alarms], StoredAll(report, n), n)
<1> DEFINE start == [readings |-> readings, alarms |-> alarms]
           N == Len(report.items)
           Next(log, k) == Stored(log, report.items[k], report, n)
           step == [p \in Logs \X (1..N) |-> Next(p[1], p[2])]
           Solves(s) == s = [k \in 0..N |-> IF k = 0 THEN start ELSE Next(s[k - 1], k)]
<1>1. start \in Logs
  BY DEF EnergyTypeOK, IngestionTypeOK, Logs
<1> HIDE DEF start
<1>2. N \in Nat /\ \A k \in 1..N : report.items[k] \in Item
  <2>1. report.items \in Items
    BY DEF Report
  <2>2. PICK m \in 1..MaxItems : report.items \in [1..m -> Item]
    BY <2>1 DEF Items
  <2>3. m \in Nat
    BY IngestionInputs
  <2>4. report.items \in Seq(Item)
    BY <2>2, <2>3, SeqDef
  <2> QED
    BY <2>4, LenProperties, ElementOfSeq
<1>3. \A log \in Logs, k \in 1..N : Next(log, k) \in Logs /\ Grows(log, Next(log, k), n)
  BY <1>2, StoredIs
<1> HIDE DEF N, Next
<1>4. step \in [Logs \X (1..N) -> Logs]
  BY <1>3
<1>5. PICK g : Repeats(g, N, Logs, start, step)
  <2> HIDE DEF step
  <2> QED
    BY <1>1, <1>2, <1>4, RecursionUpTo
<1>6. g \in [0..N -> Logs] /\ g[0] = start
  BY <1>5 DEF Repeats
<1>7. ASSUME NEW k \in 1..N PROVE g[k] = Next(g[k - 1], k)
  <2>1. k - 1 \in 0..N
    BY <1>2
  <2>2. <<g[k - 1], k>> \in Logs \X (1..N)
    BY <1>6, <2>1
  <2>3. g[k] = step[<<g[k - 1], k>>]
    BY <1>5 DEF Repeats
  <2> QED
    BY <2>2, <2>3
<1>8. Solves(g)
  <2>1. \A k \in 0..N : k # 0 => k \in 1..N
    BY <1>2
  <2> QED
    BY <1>6, <1>7, <2>1
<1>9. \A s : Solves(s) => s[0] = start /\ \A k \in 1..N : s[k] = Next(s[k - 1], k)
  BY <1>2
<1> DEFINE w == CHOOSE s : Solves(s)
<1>10. StoredAll(report, n) = w[N]
  BY DEF StoredAll, N, Next, start
<1>11. Solves(w)
  <2> HIDE DEF Solves
  <2> QED
    BY <1>8
<1> HIDE DEF w, Solves
<1>12. w[0] = start /\ \A k \in 1..N : w[k] = Next(w[k - 1], k)
  BY <1>9, <1>11
<1> DEFINE S == {k \in 0..N : w[k] \in Logs /\ Grows(start, w[k], n)}
<1>13. 0 \in S
  BY <1>1, <1>2, <1>12, GrowsNothing
<1>14. ASSUME NEW k \in 0..N, k < N, k \in S PROVE k + 1 \in S
  <2>1. k + 1 \in 1..N /\ k + 1 \in 0..N /\ (k + 1) - 1 = k
    BY <1>2, <1>14
  <2>2. w[k + 1] = Next(w[k], k + 1)
    BY <1>12, <2>1
  <2>3. w[k] \in Logs /\ Grows(start, w[k], n)
    BY <1>14
  <2>4. w[k + 1] \in Logs /\ Grows(w[k], w[k + 1], n)
    BY <1>3, <2>1, <2>2, <2>3
  <2>5. Grows(start, w[k + 1], n)
    BY <1>1, <2>3, <2>4, GrowsOn
  <2> QED
    BY <2>1, <2>4, <2>5
<1> HIDE DEF S
<1>15. \A k \in 0..N : k \in S
  BY <1>2, <1>13, <1>14, InductionUpTo
<1>16. N \in S
  BY <1>2, <1>15
<1> QED
  BY <1>10, <1>16 DEF S, start

\* A form that was opened of an offline gateway was opened after its alarm.
EditsKnow ==
  \A u \in User : (requests[u].job = "edit" /\ requests[u].row.status = "offline") =>
    Raised(alarms, requests[u].gateway, "offline", 0)

\* Readings are of messages that are there.
ReadingsNameMessages == \A r \in 1..Len(readings) : readings[r].message \in 1..Len(messages)

DevicesInv ==
  /\ EnergyTypeOK /\ IngestionTypeOK
  /\ MetersOverLimitAreAlarmed /\ DevicesOverLimitAreAlarmed
  /\ EditsKnow
  /\ ReadingsNameMessages /\ ProcessedMessagesHaveReadings

LEMMA RowsOfDevices ==
  ASSUME IngestionTypeOK
  PROVE  /\ Len(messages) \in Nat /\ messages \in Seq(IoTMessage)
         /\ \A i \in 1..Len(messages) : messages[i] \in IoTMessage
         /\ Len(readings) \in Nat /\ readings \in Seq(IoTReading)
         /\ \A r \in 1..Len(readings) : readings[r] \in IoTReading
BY ElementOfSeq, LenProperties DEF IngestionTypeOK

\* What a request has read, by what it is about.
LEMMA RequestIs ==
  ASSUME IngestionTypeOK, NEW u \in User
  PROVE  /\ requests[u].job = "report" => requests[u] \in Report
         /\ requests[u].job \in {"silent", "edit"} =>
              /\ requests[u].gateway \in Gateway /\ requests[u].now \in Time
              /\ requests[u].row \in IoTGateway
<1>1. requests[u] \in GatewayRequest
  BY DEF IngestionTypeOK
<1>2. \A report \in Report : report.job = "report"
  BY DEF Report
<1> QED
  BY <1>1, <1>2 DEF GatewayRequest, NoRequest

\* The requests after a step of one user, who knows what the others know.
LEMMA RequestsStep ==
  ASSUME IngestionTypeOK, EditsKnow, alarms \subseteq alarms', NEW u \in User,
         NEW request \in GatewayRequest, requests' = [requests EXCEPT ![u] = request],
         (request.job = "edit" /\ request.row.status = "offline") =>
           Raised(alarms', request.gateway, "offline", 0)
  PROVE  requests' \in [User -> GatewayRequest] /\ EditsKnow'
<1>1. requests' \in [User -> GatewayRequest]
  BY DEF IngestionTypeOK
<1>2. \A v \in User : requests'[v] = IF v = u THEN request ELSE requests[v]
  BY DEF IngestionTypeOK
<1>3. ASSUME NEW v \in User, requests'[v].job = "edit", requests'[v].row.status = "offline"
      PROVE  Raised(alarms', requests'[v].gateway, "offline", 0)
  <2>1. CASE v = u
    BY <1>2, <1>3, <2>1
  <2>2. CASE v # u
    <3>1. requests'[v] = requests[v]
      BY <1>2, <2>2
    <3>2. Raised(alarms, requests[v].gateway, "offline", 0)
      BY <1>3, <3>1 DEF EditsKnow
    <3> QED
      BY <3>1, <3>2, RaisedStays
  <2> QED
    BY <2>1, <2>2
<1> QED
  BY <1>1, <1>3 DEF EditsKnow

LEMMA AnsweredStep ==
  ASSUME IngestionTypeOK, EditsKnow, alarms \subseteq alarms', NEW u \in User, Answered(u)
  PROVE  requests' \in [User -> GatewayRequest] /\ EditsKnow'
<1>1. NoRequest \in GatewayRequest /\ NoRequest.job # "edit"
  BY DEF GatewayRequest, NoRequest
<1> HIDE DEF NoRequest
<1> QED
  BY <1>1, RequestsStep DEF Answered

\* Alarms cover the gateways' rows as long as these stay as they are.
LEMMA DevicesStayAlarmed ==
  ASSUME DevicesOverLimitAreAlarmed, UNCHANGED <<gateways, readings>>, alarms \subseteq alarms'
  PROVE  DevicesOverLimitAreAlarmed'
BY RaisedStays DEF DevicesOverLimitAreAlarmed

\* Steps of requests and alarms only.
LEMMA NoRowsKeep ==
  ASSUME DevicesInv, EnergyTypeOK', alarms \subseteq alarms',
         requests' \in [User -> GatewayRequest], EditsKnow',
         UNCHANGED <<dials, runs, gateways, messages, readings>>
  PROVE  DevicesInv'
<1>1. IngestionTypeOK'
  BY DEF DevicesInv, IngestionTypeOK
<1>2. MetersOverLimitAreAlarmed' /\ DevicesOverLimitAreAlarmed'
  BY MetersStayAlarmed, DevicesStayAlarmed DEF DevicesInv
<1>3. ReadingsNameMessages' /\ ProcessedMessagesHaveReadings'
  BY DEF DevicesInv, ReadingsNameMessages, ProcessedMessagesHaveReadings
<1> QED
  BY <1>1, <1>2, <1>3 DEF DevicesInv

LEMMA RequestsOnlyKeep ==
  ASSUME DevicesInv, UNCHANGED energyVars, requests' \in [User -> GatewayRequest], EditsKnow',
         UNCHANGED <<gateways, messages, readings>>
  PROVE  DevicesInv'
<1>1. EnergyTypeOK' /\ alarms \subseteq alarms' /\ UNCHANGED <<dials, runs>>
  BY DEF DevicesInv, EnergyTypeOK, energyVars
<1> QED
  BY <1>1, NoRowsKeep

LEMMA ReceiveReportKeeps ==
  ASSUME DevicesInv, NEW u \in User, NEW g \in Gateway, NEW id \in MessageId, NEW at \in Time,
         NEW items \in Items, ReceiveReport(u, g, id, at, items), UNCHANGED <<meters, dials, runs>>
  PROVE  DevicesInv'
<1> DEFINE known == KnownMessage(g, id)
           request == [job |-> "report", gateway |-> g, id |-> id, now |-> clock, at |-> at,
                       items |-> items, duplicate |-> known]
<1>1. known \in BOOLEAN /\ clock \in Time
  BY DEF KnownMessage, DevicesInv, EnergyTypeOK
<1>2. requests' = [requests EXCEPT ![u] = request]
  BY DEF ReceiveReport, Asks
<1> HIDE DEF known
<1>3. request \in GatewayRequest /\ request.job # "edit"
  BY <1>1 DEF GatewayRequest, Report
<1> HIDE DEF request
<1>4. UNCHANGED energyVars /\ UNCHANGED <<gateways, messages, readings>>
  BY DEF ReceiveReport, energyVars
<1>5. requests' \in [User -> GatewayRequest] /\ EditsKnow'
  BY <1>2, <1>3, <1>4, RequestsStep DEF DevicesInv, energyVars
<1> QED
  BY <1>4, <1>5, RequestsOnlyKeep

LEMMA LookForSilentGatewayKeeps ==
  ASSUME DevicesInv, NEW u \in User, NEW g \in Gateway, LookForSilentGateway(u, g),
         UNCHANGED <<meters, dials, runs>>
  PROVE  DevicesInv'
<1> DEFINE request == [job |-> "silent", gateway |-> g, now |-> clock, row |-> gateways[g]]
<1>1. requests' = [requests EXCEPT ![u] = request]
  BY DEF LookForSilentGateway, Asks
<1>2. gateways[g] \in IoTGateway /\ clock \in Time
  BY DEF DevicesInv, IngestionTypeOK, EnergyTypeOK
<1>3. request \in GatewayRequest /\ request.job # "edit"
  BY <1>2 DEF GatewayRequest
<1> HIDE DEF request
<1>4. UNCHANGED energyVars /\ UNCHANGED <<gateways, messages, readings>>
  BY DEF LookForSilentGateway, energyVars
<1>5. requests' \in [User -> GatewayRequest] /\ EditsKnow'
  BY <1>1, <1>3, <1>4, RequestsStep DEF DevicesInv, energyVars
<1> QED
  BY <1>4, <1>5, RequestsOnlyKeep

LEMMA OpenGatewayKeeps ==
  ASSUME DevicesInv, NEW u \in User, NEW g \in Gateway, OpenGateway(u, g),
         UNCHANGED <<meters, dials, runs>>
  PROVE  DevicesInv'
<1> DEFINE request == [job |-> "edit", gateway |-> g, now |-> clock, row |-> gateways[g]]
<1>1. requests' = [requests EXCEPT ![u] = request]
  BY DEF OpenGateway, Asks
<1>2. gateways[g] \in IoTGateway /\ clock \in Time
  BY DEF DevicesInv, IngestionTypeOK, EnergyTypeOK
<1>3. request \in GatewayRequest /\ request.gateway = g /\ request.row = gateways[g]
  BY <1>2 DEF GatewayRequest
<1> HIDE DEF request
<1>4. UNCHANGED energyVars /\ UNCHANGED <<gateways, messages, readings>>
  BY DEF OpenGateway, energyVars
<1>5. request.row.status = "offline" => Raised(alarms', request.gateway, "offline", 0)
  BY <1>3, <1>4 DEF DevicesInv, DevicesOverLimitAreAlarmed, energyVars
<1>6. requests' \in [User -> GatewayRequest] /\ EditsKnow'
  BY <1>1, <1>3, <1>4, <1>5, RequestsStep DEF DevicesInv, energyVars
<1> QED
  BY <1>4, <1>6, RequestsOnlyKeep

LEMMA LoseReportKeeps ==
  ASSUME DevicesInv, NEW u \in User, LoseReport(u), UNCHANGED <<meters, dials, runs>>
  PROVE  DevicesInv'
<1>1. UNCHANGED energyVars /\ UNCHANGED <<gateways, messages, readings>>
  BY DEF LoseReport, energyVars
<1>2. requests' \in [User -> GatewayRequest] /\ EditsKnow'
  BY <1>1, AnsweredStep DEF LoseReport, DevicesInv, energyVars
<1> QED
  BY <1>1, <1>2, RequestsOnlyKeep

\* A gateway set offline has its alarm: one of the window, or the one raised now.
LEMMA SetGatewayOfflineKeeps ==
  ASSUME DevicesInv, NEW u \in User, SetGatewayOffline(u), UNCHANGED <<meters, dials, runs>>
  PROVE  DevicesInv'
<1> DEFINE g == requests[u].gateway
           now == requests[u].now
<1>1. g \in Gateway /\ now \in Time /\ now \in Nat /\ g \in Source
  BY RequestIs, DayStarts, IngestionInputs DEF DevicesInv, SetGatewayOffline
<1>2. alarms' = RaiseAlarm(alarms, g, "offline", now, now - OfflineWindow)
  BY DEF SetGatewayOffline
<1>3. /\ gateways' \in [Gateway -> IoTGateway]
      /\ \A h \in Gateway : h # g => gateways'[h] = gateways[h]
  BY <1>1 DEF SetGatewayOffline, DevicesInv, IngestionTypeOK, IoTGateway, GatewayStatus
<1>4. UNCHANGED <<clock, desk, messages, readings>> /\ Answered(u)
  BY DEF SetGatewayOffline
<1> HIDE DEF g, now
<1>5. /\ alarms' \in SUBSET EnergyAlarm /\ alarms \subseteq alarms'
      /\ Raised(alarms', g, "offline", now - OfflineWindow)
  <2>1. OfflineWindow \in Nat /\ "offline" \in AlarmType /\ alarms \in SUBSET EnergyAlarm
    BY IngestionInputs DEF AlarmType, DevicesInv, EnergyTypeOK
  <2>2. now - OfflineWindow \in Int /\ now - OfflineWindow <= now
    BY <1>1, <2>1
  <2> QED
    BY <1>1, <1>2, <2>1, <2>2, RaiseAlarmIs
<1>6. Raised(alarms', g, "offline", 0)
  <2>1. \A alarm \in alarms' : alarm.at \in Time
    BY <1>5 DEF EnergyAlarm
  <2>2. \A alarm \in alarms' : alarm.at >= 0
    BY <2>1, DayStarts
  <2> QED
    BY <1>5, <2>2 DEF Raised
<1>7. EnergyTypeOK' /\ MetersOverLimitAreAlarmed'
  BY <1>4, <1>5, MetersStayAlarmed DEF DevicesInv, EnergyTypeOK
<1>8. requests' \in [User -> GatewayRequest] /\ EditsKnow'
  BY <1>4, <1>5, AnsweredStep DEF DevicesInv
<1>9. IngestionTypeOK'
  BY <1>3, <1>4, <1>8 DEF DevicesInv, IngestionTypeOK
<1>10. DevicesOverLimitAreAlarmed'
  <2>1. ASSUME NEW h \in Gateway, gateways'[h].status = "offline"
        PROVE  Raised(alarms', h, "offline", 0)
    BY <1>3, <1>5, <1>6, <2>1, RaisedStays DEF DevicesInv, DevicesOverLimitAreAlarmed
  <2>2. \A r \in 1..Len(readings) : readings[r].value = "over" =>
          Raised(alarms', readings[r].point, "over_limit", readings[r].at - LimitWindow)
    BY <1>5, RaisedStays DEF DevicesInv, DevicesOverLimitAreAlarmed
  <2> QED
    BY <1>4, <2>1, <2>2 DEF DevicesOverLimitAreAlarmed
<1>11. ReadingsNameMessages' /\ ProcessedMessagesHaveReadings'
  BY <1>4 DEF DevicesInv, ReadingsNameMessages, ProcessedMessagesHaveReadings
<1> QED
  BY <1>7, <1>8, <1>9, <1>10, <1>11 DEF DevicesInv

\* The form writes a row it read: if that was offline, the alarm was raised before.
LEMMA SaveGatewayKeeps ==
  ASSUME DevicesInv, NEW u \in User, SaveGateway(u), UNCHANGED <<meters, dials, runs>>
  PROVE  DevicesInv'
<1> DEFINE g == requests[u].gateway
           row == requests[u].row
<1>1. g \in Gateway /\ row \in IoTGateway
  BY RequestIs DEF DevicesInv, SaveGateway
<1>2. row.status = "offline" => Raised(alarms, g, "offline", 0)
  BY DEF DevicesInv, EditsKnow, SaveGateway
<1>3. gateways' = [gateways EXCEPT ![g] = row]
  BY DEF SaveGateway
<1> HIDE DEF g, row
<1>4. UNCHANGED <<energyVars, messages, readings>> /\ alarms' = alarms /\ Answered(u)
  BY DEF SaveGateway, energyVars
<1>5. gateways' \in [Gateway -> IoTGateway] /\ \A h \in Gateway :
        gateways'[h] = IF h = g THEN row ELSE gateways[h]
  BY <1>1, <1>3 DEF DevicesInv, IngestionTypeOK
<1>6. EnergyTypeOK' /\ MetersOverLimitAreAlarmed'
  BY <1>4 DEF DevicesInv, EnergyTypeOK, MetersOverLimitAreAlarmed, energyVars
<1>7. requests' \in [User -> GatewayRequest] /\ EditsKnow'
  BY <1>4, AnsweredStep DEF DevicesInv
<1>8. IngestionTypeOK'
  BY <1>4, <1>5, <1>7 DEF DevicesInv, IngestionTypeOK
<1>9. DevicesOverLimitAreAlarmed'
  BY <1>2, <1>4, <1>5 DEF DevicesInv, DevicesOverLimitAreAlarmed
<1>10. ReadingsNameMessages' /\ ProcessedMessagesHaveReadings'
  BY <1>4 DEF DevicesInv, ReadingsNameMessages, ProcessedMessagesHaveReadings
<1> QED
  BY <1>6, <1>7, <1>8, <1>9, <1>10 DEF DevicesInv

\* A message that is added: the readings that name it are those after the ones there were.
MessageAdded(message, log) ==
  /\ messages' = Append(messages, message)
  /\ readings' = log.readings
  /\ Grows([readings |-> readings, alarms |-> alarms], log, Len(messages) + 1)
  /\ message.status = "processed" <=> Len(log.readings) > Len(readings)

LEMMA MessageAddedKeeps ==
  ASSUME DevicesInv, NEW message \in IoTMessage, NEW log \in Logs, MessageAdded(message, log)
  PROVE  /\ messages' \in Seq(IoTMessage) /\ readings' \in Seq(IoTReading)
         /\ ReadingsNameMessages' /\ ProcessedMessagesHaveReadings'
<1> DEFINE n == Len(messages) + 1
           old == [readings |-> readings, alarms |-> alarms]
<1>1. Len(messages) \in Nat /\ Len(readings) \in Nat /\ messages \in Seq(IoTMessage)
  BY RowsOfDevices DEF DevicesInv
<1>2. /\ messages' \in Seq(IoTMessage) /\ Len(messages') = n /\ messages'[n] = message
      /\ \A i \in 1..Len(messages) : messages'[i] = messages[i]
  BY <1>1, AppendProperties DEF MessageAdded
<1>3. readings' \in Seq(IoTReading) /\ Len(readings') \in Nat
  BY LogIs DEF MessageAdded
<1>4. old.readings = readings
  OBVIOUS
<1> HIDE DEF old
<1>5. Grows(old, log, n)
  BY DEF MessageAdded, old
<1>6. /\ Len(readings) <= Len(readings')
      /\ \A r \in 1..Len(readings) : readings'[r] = readings[r]
      /\ \A r \in 1..Len(readings') : r > Len(readings) => readings'[r].message = n
  BY <1>4, <1>5 DEF Grows, MessageAdded
<1>7. \A r \in 1..Len(readings) : readings[r].message \in 1..Len(messages)
  BY DEF DevicesInv, ReadingsNameMessages
<1>8. message.status = "processed" <=> Len(readings') > Len(readings)
  BY DEF MessageAdded
<1> HIDE DEF n
<1>9. n \in Nat /\ n = Len(messages) + 1
  BY <1>1 DEF n
<1>10. \A r \in 1..Len(readings') : r \in 1..Len(readings) \/ r > Len(readings)
  BY <1>1, <1>3
<1>11. ReadingsNameMessages'
  <2>1. ASSUME NEW r \in 1..Len(readings') PROVE readings'[r].message \in 1..n
    <3>1. CASE r \in 1..Len(readings)
      <4>1. readings'[r].message \in 1..Len(messages)
        BY <1>6, <1>7, <3>1
      <4> QED
        BY <1>1, <1>9, <4>1
    <3>2. CASE r > Len(readings)
      BY <1>6, <1>9, <3>2
    <3> QED
      BY <1>10, <3>1, <3>2
  <2> QED
    BY <1>2, <2>1 DEF ReadingsNameMessages
<1>12. ASSUME NEW i \in 1..Len(messages')
       PROVE  messages'[i].status = "processed" <=> \E r \in 1..Len(readings') : readings'[r].message = i
  <2>1. CASE i = n
    <3>1. ASSUME NEW r \in 1..Len(readings'), readings'[r].message = n
          PROVE  Len(readings') > Len(readings)
      <4>1. r \notin 1..Len(readings)
        BY <1>1, <1>6, <1>7, <1>9, <3>1
      <4> QED
        BY <1>1, <1>3, <1>10, <4>1
    <3>2. ASSUME Len(readings') > Len(readings)
          PROVE  \E r \in 1..Len(readings') : readings'[r].message = n
      <4>1. Len(readings') \in 1..Len(readings')
        BY <1>1, <1>3, <3>2
      <4> QED
        BY <1>6, <3>2, <4>1
    <3> QED
      BY <1>2, <1>8, <2>1, <3>1, <3>2
  <2>2. CASE i # n
    <3>1. i \in 1..Len(messages)
      BY <1>1, <1>2, <1>9, <2>2
    <3>2. messages'[i] = messages[i]
      BY <1>2, <3>1
    <3>3. ASSUME NEW r \in 1..Len(readings), readings[r].message = i
          PROVE  r \in 1..Len(readings') /\ readings'[r].message = i
      BY <1>1, <1>3, <1>6, <3>3
    <3>4. ASSUME NEW r \in 1..Len(readings'), readings'[r].message = i
          PROVE  r \in 1..Len(readings) /\ readings[r].message = i
      BY <1>6, <1>10, <2>2, <3>4
    <3>5. messages[i].status = "processed" <=> \E r \in 1..Len(readings) : readings[r].message = i
      BY <3>1 DEF DevicesInv, ProcessedMessagesHaveReadings
    <3> QED
      BY <3>2, <3>3, <3>4, <3>5
  <2> QED
    BY <2>1, <2>2
<1> QED
  BY <1>2, <1>3, <1>11, <1>12 DEF ProcessedMessagesHaveReadings

LEMMA CommitReportKeeps ==
  ASSUME DevicesInv, NEW u \in User, CommitReport(u), UNCHANGED <<meters, dials, runs>>
  PROVE  DevicesInv'
<1> DEFINE report == requests[u]
           log == StoredAll(report, Len(messages) + 1)
           message == Message(report, MessageStatus(report, log))
           old == [readings |-> readings, alarms |-> alarms]
<1>1. report \in Report /\ Len(messages) + 1 \in Nat
  BY RequestIs, RowsOfDevices DEF DevicesInv, CommitReport
<1>2. log \in Logs /\ Grows(old, log, Len(messages) + 1)
  BY <1>1, StoredAllIs DEF DevicesInv
<1>3. /\ messages' = Append(messages, message) /\ readings' = log.readings
      /\ alarms' = log.alarms /\ Answered(u) /\ UNCHANGED <<clock, desk>>
      /\ gateways' = [gateways EXCEPT ![report.gateway] =
                        [lastSeen |-> report.now, status |-> "online"]]
  BY DEF CommitReport
<1> HIDE DEF log
<1>4. /\ message \in IoTMessage
      /\ message.status = "processed" <=> Len(log.readings) > Len(readings)
  BY <1>1 DEF Message, MessageStatus, IoTMessage, Report
<1>5. old.readings = readings /\ old.alarms = alarms
  OBVIOUS
<1>6. report.gateway \in Gateway /\ report.now \in Time
  BY <1>1 DEF Report
<1> HIDE DEF message, report
<1>7. MessageAdded(message, log)
  BY <1>2, <1>3, <1>4 DEF MessageAdded
<1> HIDE DEF old
<1>8. /\ messages' \in Seq(IoTMessage) /\ readings' \in Seq(IoTReading)
      /\ ReadingsNameMessages' /\ ProcessedMessagesHaveReadings'
  BY <1>2, <1>4, <1>7, MessageAddedKeeps
<1>9. alarms' \in SUBSET EnergyAlarm /\ alarms \subseteq alarms'
  BY <1>2, <1>3, <1>5, LogIs DEF Grows
<1>10. EnergyTypeOK' /\ MetersOverLimitAreAlarmed'
  BY <1>3, <1>9, MetersStayAlarmed DEF DevicesInv, EnergyTypeOK
<1>11. requests' \in [User -> GatewayRequest] /\ EditsKnow'
  BY <1>3, <1>9, AnsweredStep DEF DevicesInv
<1> DEFINE row == [lastSeen |-> report.now, status |-> "online"]
<1>12. row \in IoTGateway /\ row.status # "offline"
  BY <1>6 DEF IoTGateway, GatewayStatus
<1>13. gateways' = [gateways EXCEPT ![report.gateway] = row]
  BY <1>3
<1> HIDE DEF row
<1>14. gateways' \in [Gateway -> IoTGateway] /\ \A g \in Gateway :
         gateways'[g] = IF g = report.gateway THEN row ELSE gateways[g]
  BY <1>6, <1>12, <1>13 DEF DevicesInv, IngestionTypeOK
<1>15. IngestionTypeOK'
  BY <1>8, <1>11, <1>14 DEF IngestionTypeOK
<1>16. DevicesOverLimitAreAlarmed'
  <2>1. ASSUME NEW r \in 1..Len(readings'), readings'[r].value = "over"
        PROVE  Raised(alarms', readings'[r].point, "over_limit", readings'[r].at - LimitWindow)
    <3>1. CASE r \in 1..Len(readings)
      <4>1. readings'[r] = readings[r]
        BY <1>2, <1>3, <1>5, <3>1 DEF Grows
      <4>2. Raised(alarms, readings[r].point, "over_limit", readings[r].at - LimitWindow)
        BY <2>1, <3>1, <4>1 DEF DevicesInv, DevicesOverLimitAreAlarmed
      <4> QED
        BY <1>9, <4>1, <4>2, RaisedStays
    <3>2. CASE r \notin 1..Len(readings)
      <4>1. Len(readings) \in Nat /\ Len(readings') \in Nat
        BY <1>2, <1>3, LogIs, RowsOfDevices DEF DevicesInv
      <4>2. r > Len(readings)
        BY <3>2, <4>1
      <4>3. PointAlarmed(log.alarms, readings'[r])
        BY <1>2, <1>3, <1>5, <4>2 DEF Grows
      <4> QED
        BY <1>3, <2>1, <4>3 DEF PointAlarmed
    <3> QED
      BY <3>1, <3>2
  <2>2. ASSUME NEW g \in Gateway, gateways'[g].status = "offline"
        PROVE  Raised(alarms', g, "offline", 0)
    BY <1>9, <1>12, <1>14, <2>2, RaisedStays DEF DevicesInv, DevicesOverLimitAreAlarmed
  <2> QED
    BY <2>1, <2>2 DEF DevicesOverLimitAreAlarmed
<1> QED
  BY <1>8, <1>10, <1>11, <1>15, <1>16 DEF DevicesInv

LEMMA CommitDuplicateKeeps ==
  ASSUME DevicesInv, NEW u \in User, CommitDuplicate(u), UNCHANGED <<meters, dials, runs>>
  PROVE  DevicesInv'
<1> DEFINE message == Message(requests[u], "duplicated")
           log == [readings |-> readings, alarms |-> alarms]
<1>1. requests[u] \in Report
  BY RequestIs DEF DevicesInv, CommitDuplicate
<1>2. message \in IoTMessage /\ message.status # "processed"
  BY <1>1 DEF Message, IoTMessage, Report
<1>3. /\ messages' = Append(messages, message) /\ Answered(u)
      /\ UNCHANGED energyVars /\ UNCHANGED <<alarms, gateways, readings>>
  BY DEF CommitDuplicate, energyVars
<1> HIDE DEF message
<1>4. log \in Logs /\ log.readings = readings
  BY DEF DevicesInv, EnergyTypeOK, IngestionTypeOK, Logs
<1>5. ~ (Len(readings) > Len(readings))
  BY RowsOfDevices DEF DevicesInv
<1>6. Grows(log, log, Len(messages) + 1)
  BY <1>4, GrowsNothing
<1>7. MessageAdded(message, log)
  BY <1>2, <1>3, <1>4, <1>5, <1>6 DEF MessageAdded
<1> HIDE DEF log
<1>8. /\ messages' \in Seq(IoTMessage) /\ readings' \in Seq(IoTReading)
      /\ ReadingsNameMessages' /\ ProcessedMessagesHaveReadings'
  BY <1>2, <1>4, <1>7, MessageAddedKeeps
<1>9. EnergyTypeOK' /\ MetersOverLimitAreAlarmed' /\ DevicesOverLimitAreAlarmed'
  BY <1>3 DEF DevicesInv, EnergyTypeOK, MetersOverLimitAreAlarmed, DevicesOverLimitAreAlarmed,
    energyVars
<1>10. requests' \in [User -> GatewayRequest] /\ EditsKnow'
  BY <1>3, AnsweredStep DEF DevicesInv
<1>11. IngestionTypeOK'
  BY <1>3, <1>8, <1>10 DEF DevicesInv, IngestionTypeOK
<1> QED
  BY <1>8, <1>9, <1>10, <1>11 DEF DevicesInv

\* Meters' steps, and the alarms people report, leave the rows of devices alone.
LEMMA OthersKeep ==
  ASSUME DevicesInv, EnergyKept, UNCHANGED <<gateways, messages, readings, requests>>
  PROVE  DevicesInv'
<1>1. EnergyTypeOK' /\ MetersOverLimitAreAlarmed' /\ alarms \subseteq alarms'
  BY DEF EnergyKept
<1>2. IngestionTypeOK'
  BY DEF DevicesInv, IngestionTypeOK
<1>3. DevicesOverLimitAreAlarmed'
  BY <1>1, DevicesStayAlarmed DEF DevicesInv
<1>4. EditsKnow'
  BY <1>1, RaisedStays DEF DevicesInv, EditsKnow
<1>5. ReadingsNameMessages' /\ ProcessedMessagesHaveReadings'
  BY DEF DevicesInv, ReadingsNameMessages, ProcessedMessagesHaveReadings
<1> QED
  BY <1>1, <1>2, <1>3, <1>4, <1>5 DEF DevicesInv

LEMMA DevicesStep ==
  ASSUME DevicesInv, DevicesNext
  PROVE  DevicesInv'
<1>1. CASE EnergyNext /\ UNCHANGED <<gateways, messages, readings, requests>>
  <2>1. EnergyKept
    BY <1>1, EnergyNextKeeps DEF DevicesInv
  <2> QED
    BY <1>1, <2>1, OthersKeep
<1>2. CASE IngestionNext /\ UNCHANGED <<meters, dials, runs>>
  <2>1. ASSUME NEW source \in Gateway \cup Point, NEW type \in ReportedTypes
        PROVE  source \in Source /\ type \in AlarmType
    BY EnergyInputs, IngestionInputs DEF AlarmType
  <2>2. ASSUME Tick \/ (\E source \in Gateway \cup Point, type \in ReportedTypes :
                          ReportAlarm(source, type)),
               UNCHANGED <<gateways, messages, readings, requests>>
        PROVE  DevicesInv'
    <3>1. EnergyKept
      BY <2>1, <2>2, TickKeeps, ReportAlarmKeeps DEF DevicesInv
    <3> QED
      BY <2>2, <3>1, OthersKeep
  <2> QED
    BY <1>2, <2>2, ReceiveReportKeeps, LookForSilentGatewayKeeps, OpenGatewayKeeps,
       CommitReportKeeps, CommitDuplicateKeeps, LoseReportKeeps, SetGatewayOfflineKeeps,
       SaveGatewayKeeps DEF IngestionNext
<1> QED
  BY <1>1, <1>2 DEF DevicesNext

LEMMA DevicesStart ==
  ASSUME DevicesInit
  PROVE  DevicesInv
<1>1. 0 \in Time
  BY EnergyInputs DEF Time
<1>2. EnergyTypeOK
  BY <1>1 DEF DevicesInit, EnergyInit, EnergyTypeOK, EnergyMeter, Request
<1>3. IngestionTypeOK
  BY <1>1 DEF DevicesInit, IngestionInit, IngestionTypeOK, IoTGateway, GatewayStatus, GatewayRequest
<1>4. Len(dials) = 0 /\ Len(runs) = 0 /\ Len(readings) = 0 /\ Len(messages) = 0
  BY DEF DevicesInit, EnergyInit, IngestionInit
<1>5. MetersOverLimitAreAlarmed /\ ReadingsNameMessages /\ ProcessedMessagesHaveReadings
  BY <1>4 DEF MetersOverLimitAreAlarmed, ReadingsNameMessages, ProcessedMessagesHaveReadings
<1>6. DevicesOverLimitAreAlarmed
  BY <1>4 DEF DevicesInit, IngestionInit, DevicesOverLimitAreAlarmed
<1>7. EditsKnow
  BY DEF DevicesInit, IngestionInit, EditsKnow, NoRequest
<1> QED
  BY <1>2, <1>3, <1>5, <1>6, <1>7 DEF DevicesInv

LEMMA DevicesStutter ==
  ASSUME DevicesInv, UNCHANGED deviceVars
  PROVE  DevicesInv'
<1>1. UNCHANGED energyVars /\ UNCHANGED <<gateways, messages, readings, requests>>
  BY DEF deviceVars
<1>2. EnergyKept
  BY <1>1 DEF EnergyKept, DevicesInv, EnergyTypeOK, MetersOverLimitAreAlarmed, energyVars
<1> QED
  BY <1>1, <1>2, OthersKeep

LEMMA DevicesAlways == DevicesSpec => []DevicesInv
<1>1. DevicesInit => DevicesInv
  BY DevicesStart
<1>2. DevicesInv /\ [DevicesNext]_deviceVars => DevicesInv'
  BY DevicesStep, DevicesStutter
<1> QED
  BY <1>1, <1>2, PTL DEF DevicesSpec

\* Rows of meters, runs, gateways, messages, readings and alarms are of their types,
\* whatever requests read before they write.
THEOREM DevicesTyping == DevicesSpec => [](EnergyTypeOK /\ IngestionTypeOK)
<1>1. DevicesInv => EnergyTypeOK /\ IngestionTypeOK
  BY DEF DevicesInv
<1> QED
  BY <1>1, DevicesAlways, PTL

\* Every reading above its limit, of a meter or of a point, every run that consumed too
\* much and every gateway shown offline has its alarm, for any number of meters, points,
\* gateways, requests and alarms at the same time.
THEOREM EverythingSeenIsAlarmed == DevicesSpec => []AlarmsCoverWhatWasSeen
<1>1. DevicesInv => AlarmsCoverWhatWasSeen
  BY DEF DevicesInv, AlarmsCoverWhatWasSeen
<1> QED
  BY <1>1, DevicesAlways, PTL

\* A message is processed exactly if a reading came of it, whatever reports of the same
\* message, point and moment are stored at once.
THEOREM ProcessedMeansRead == DevicesSpec => []ProcessedMessagesHaveReadings
<1>1. DevicesInv => ProcessedMessagesHaveReadings
  BY DEF DevicesInv
<1> QED
  BY <1>1, DevicesAlways, PTL
=============================================================================
