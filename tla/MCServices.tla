------------------------------ MODULE MCServices ------------------------------
(***************************************************************************)
(* A small instance of what surrounds the flow of material: metering, the  *)
(* reports of devices, cases, upkeep of equipment, evaluation of suppliers.*)
(* What a behaviour is about is chosen at its start, for these do not      *)
(* interact, but for the alarms of meters and devices; their invariants    *)
(* are those of all.                                                       *)
(***************************************************************************)
EXTENDS Ingestion, Cases, Equipment, Evaluations, TLC

VARIABLE subject

MCGatewayOf == [p \in Point |-> CHOOSE g \in Gateway : TRUE]
\* Shares of a half and of a third, one dimension that has all, and no hundred.
MCGivenWeights == {<<2, 5, 2, 1>>, <<2, 6, 2, 0>>, <<0, 10, 0, 0>>, <<9, 0, 0, 0>>}

ownMeterVars == <<meters, dials, runs>>
ownGatewayVars == <<gateways, messages, readings, requests>>
alarmVars == <<clock, alarms, desk>>

MCInit ==
  /\ EnergyInit /\ IngestionInit /\ CaseInit /\ EquipmentInit /\ EvaluationInit
  /\ subject \in {"meters", "runs", "gateways", "cases", "plan", "faults", "versions", "evaluation"}
  \* One kind is enough where cases stay as they are.
  /\ subject # "cases" => kind = "permit" /\ \A c \in Case : ~ rows[c].guarded

DeviceNext ==
  /\ \/ /\ subject \in {"meters", "runs"} /\ ReadNext
        /\ UNCHANGED ownGatewayVars
     \/ /\ subject = "meters" /\ MeterNext
        /\ UNCHANGED ownGatewayVars
     \/ /\ subject = "runs" /\ RunNext
        /\ UNCHANGED ownGatewayVars
     \/ /\ subject = "gateways" /\ IngestionNext
        /\ UNCHANGED ownMeterVars
  /\ UNCHANGED <<caseVars, equipmentVars, evaluationVars>>

UpkeepNext ==
  /\ \/ subject = "cases" /\ CaseNext /\ UNCHANGED equipmentVars
     \/ subject = "plan" /\ PlanNext /\ UNCHANGED caseVars
     \/ subject = "faults" /\ FaultNext /\ UNCHANGED caseVars
  /\ UNCHANGED <<alarmVars, ownMeterVars, ownGatewayVars, evaluationVars>>

\* An evaluation is made by the first version there is.
SupplierNext ==
  /\ \/ subject = "versions" /\ VersionNext
     \/ subject = "evaluation" /\ (IF versions = <<>> THEN VersionNext ELSE HeaderNext)
  /\ UNCHANGED <<alarmVars, ownMeterVars, ownGatewayVars, caseVars, equipmentVars>>

MCNext == (DeviceNext \/ UpkeepNext \/ SupplierNext) /\ UNCHANGED subject

servicesVars ==
  <<subject, alarmVars, ownMeterVars, ownGatewayVars, caseVars, equipmentVars, evaluationVars>>

MCSpec == MCInit /\ [][MCNext]_servicesVars

Users == Permutations(User)

\* Every module's rows are of their types.
ServicesTypeOK == EnergyTypeOK /\ IngestionTypeOK /\ CaseTypeOK /\ EquipmentTypeOK /\ EvaluationTypeOK
=============================================================================
