-------------------------------- MODULE Energy --------------------------------
(***************************************************************************)
(* Energy metering (apps/ems/services.py): readings of meters, what a      *)
(* meter's runs consumed, and the alarms that readings, runs, offline      *)
(* checks and people raise.                                                *)
(*                                                                         *)
(* No handler locks a row.  Each reads the rows it judges, as one step,    *)
(* and writes them later, so that others write in between; the checks an   *)
(* alarm passes before it is raised belong to the write.                   *)
(*                                                                         *)
(* Abstracted: units, multipliers and prices, one threshold for all        *)
(* meters, lower limits, alarm levels and texts, forms that change what an *)
(* alarm is about, and how alarms are handled (module Cases).              *)
(***************************************************************************)
EXTENDS Sums, Sequences, FiniteSets

CONSTANTS
  User, Meter,
  Source,          \* what alarms can be about: the meters, and whatever else reports
  Values,          \* what a dial can show
  UpperLimit,      \* EnergyThreshold: of a reading, of a day's consumption,
  DailyLimit,      \* of a run's consumption per unit of output,
  UnitLimit,
  OfflineAfter,    \* and of the time without a reading
  Day,             \* length of a day
  ReportedTypes,   \* of the alarms that people report
  MaxTime, MaxReadings, MaxAlarms, MaxRuns   \* bound a behaviour

ASSUME EnergyInputs ==
  /\ Meter \subseteq Source
  /\ Values \subseteq Nat
  /\ {UpperLimit, DailyLimit, UnitLimit, OfflineAfter} \subseteq Nat
  /\ Day \in Nat \ {0}
  /\ ReportedTypes \subseteq {"over_limit", "offline", "unit_consumption", "energy_consumption"}
  /\ {MaxTime, MaxReadings, MaxAlarms, MaxRuns} \subseteq Nat

VARIABLES
  clock,      \* business_now()
  alarms,     \* what EnergyAlarm rows are about
  meters,     \* when each was last read, and its status
  dials,      \* MeterReading rows
  runs,       \* EnergyRunRecord rows
  desk        \* what each user's request has read so far

energyVars == <<clock, alarms, meters, dials, runs, desk>>

Time == 0..MaxTime
AlarmType == {"over_limit", "offline", "unit_consumption", "energy_consumption"}
EnergyAlarm == [source : Source, type : AlarmType, at : Time]
\* A meter that was never read was installed at time 0.
EnergyMeter == [lastReading : Time, status : {"online", "offline", "stopped"}]
MeterReading == [meter : Meter, at : Time, reading : Values, consumption : Nat]
EnergyRunRecord ==
  [meter : Meter, startedAt : Time, finishedAt : Time, energy : Nat, output : Nat,
   status : {"running", "finished", "cancelled"}]

FreeDesk == [job |-> "none"]
Request ==
  {FreeDesk}
    \union [job : {"read"}, reading : MeterReading, row : EnergyMeter]
    \union [job : {"scan", "edit"}, meter : Meter, row : EnergyMeter]
    \union [job : {"start"}, meter : Meter]
    \union [job : {"run"}, id : Nat, row : EnergyRunRecord]

EnergyTypeOK ==
  /\ clock \in Time
  /\ alarms \subseteq EnergyAlarm
  /\ meters \in [Meter -> EnergyMeter]
  /\ dials \in Seq(MeterReading)
  /\ runs \in Seq(EnergyRunRecord)
  /\ desk \in [User -> Request]

EnergyInit ==
  /\ clock = 0 /\ alarms = {} /\ dials = <<>> /\ runs = <<>>
  /\ meters = [m \in Meter |-> [lastReading |-> 0, status |-> "online"]]
  /\ desk = [u \in User |-> FreeDesk]

-----------------------------------------------------------------------------
(* Alarms.                                                                 *)

\* Whether one of a source and type occurred in the window or after it.
Raised(log, source, type, windowStart) ==
  \E alarm \in log : alarm.source = source /\ alarm.type = type /\ alarm.at >= windowStart

\* Bug: an alarm of any source silences it.
RaiseOncePerType(log, source, type, at, windowStart) ==
  IF \E alarm \in log : alarm.type = type /\ alarm.at >= windowStart THEN log
  ELSE log \union {[source |-> source, type |-> type, at |-> at]}

RaiseAlarm(log, source, type, at, windowStart) ==
  IF Raised(log, source, type, windowStart) THEN log
  ELSE log \union {[source |-> source, type |-> type, at |-> at]}

DayStart(t) == (t \div Day) * Day
RaiseToday(log, source, type, at) == RaiseAlarm(log, source, type, at, DayStart(at))

Waits(u, job) == desk[u].job = job
Takes(u, request) == Waits(u, "none") /\ desk' = [desk EXCEPT ![u] = request]
Done(u) == desk' = [desk EXCEPT ![u] = FreeDesk]

\* The alarm form: no check for duplicates.
ReportAlarm(source, type) ==
  /\ Cardinality(alarms) < MaxAlarms
  /\ alarms' = alarms \union {[source |-> source, type |-> type, at |-> clock]}
  /\ UNCHANGED <<clock, meters, dials, runs, desk>>

-----------------------------------------------------------------------------
(* Readings.                                                               *)

\* What the dial showed before a moment, at the latest reading and of several the last:
\* with none before it, a reading consumes nothing.
ReadingsUntil(m, at) == {i \in 1..Len(dials) : dials[i].meter = m /\ dials[i].at <= at}
ShownBefore(m, at, value) ==
  LET latest == CHOOSE i \in ReadingsUntil(m, at) :
                  \A j \in ReadingsUntil(m, at) :
                    dials[j].at < dials[i].at \/ (dials[j].at = dials[i].at /\ j <= i)
  IN  IF ReadingsUntil(m, at) = {} THEN value ELSE dials[latest].reading

ConsumedBetween(m, from, to, rows) ==
  LET counted[i \in 1..Len(rows)] ==
        IF rows[i].meter = m /\ rows[i].at \in from..to THEN rows[i].consumption ELSE 0
  IN  Sum(counted, Len(rows))

LookAtDial(u, m, at, value) ==
  /\ Len(dials) < MaxReadings
  /\ at <= clock
  /\ value >= ShownBefore(m, at, value)
  /\ Takes(u, [job |-> "read", row |-> meters[m],
               reading |-> [meter |-> m, at |-> at, reading |-> value,
                            consumption |-> value - ShownBefore(m, at, value)]])
  /\ UNCHANGED <<clock, alarms, meters, dials, runs>>

\* evaluate_thresholds: the reading, then the day up to it.
AlarmsOf(reading, rows) ==
  LET over == IF reading.reading > UpperLimit
              THEN RaiseToday(alarms, reading.meter, "over_limit", reading.at)
              ELSE alarms
  IN  IF ConsumedBetween(reading.meter, DayStart(reading.at), reading.at, rows) > DailyLimit
      THEN RaiseToday(over, reading.meter, "energy_consumption", reading.at)
      ELSE over

RecordReading(u) ==
  LET reading == desk[u].reading
  IN  /\ Waits(u, "read")
      /\ dials' = Append(dials, reading)
      /\ meters' = [meters EXCEPT ![reading.meter] =
                      [lastReading |-> reading.at,
                       status |-> IF desk[u].row.status = "stopped" THEN "stopped" ELSE "online"]]
      /\ alarms' = AlarmsOf(reading, dials')
      /\ Done(u)
      /\ UNCHANGED <<clock, runs>>

\* The offline check reads the meters, and then alarms and saves one at a time.
LookForSilence(u, m) ==
  /\ meters[m].status # "stopped"
  /\ clock - meters[m].lastReading > OfflineAfter
  /\ Takes(u, [job |-> "scan", meter |-> m, row |-> meters[m]])
  /\ UNCHANGED <<clock, alarms, meters, dials, runs>>

ScanOfflineMeter(u) ==
  /\ Waits(u, "scan")
  /\ alarms' = RaiseToday(alarms, desk[u].meter, "offline", clock)
  /\ meters' = IF alarms' # alarms /\ desk[u].row.status # "offline"
               THEN [meters EXCEPT ![desk[u].meter].status = "offline"] ELSE meters
  /\ Done(u)
  /\ UNCHANGED <<clock, dials, runs>>

OpenMeter(u, m) ==
  /\ Takes(u, [job |-> "edit", meter |-> m, row |-> meters[m]])
  /\ UNCHANGED <<clock, alarms, meters, dials, runs>>

SaveMeter(u, status) ==
  /\ Waits(u, "edit")
  /\ meters' = [meters EXCEPT ![desk[u].meter] = [desk[u].row EXCEPT !.status = status]]
  /\ Done(u)
  /\ UNCHANGED <<clock, alarms, dials, runs>>

-----------------------------------------------------------------------------
(* Runs.                                                                   *)

LookForRuns(u, m) ==
  /\ Len(runs) < MaxRuns
  /\ ~ \E r \in 1..Len(runs) : runs[r].meter = m /\ runs[r].status = "running"
  /\ Takes(u, [job |-> "start", meter |-> m])
  /\ UNCHANGED <<clock, alarms, meters, dials, runs>>

StartRun(u) ==
  /\ Waits(u, "start")
  /\ runs' = Append(runs, [meter |-> desk[u].meter, startedAt |-> clock, finishedAt |-> clock,
                           energy |-> 0, output |-> 0, status |-> "running"])
  /\ Done(u)
  /\ UNCHANGED <<clock, alarms, meters, dials>>

OpenRun(u, r) ==
  /\ runs[r].status = "running"
  /\ Takes(u, [job |-> "run", id |-> r, row |-> runs[r]])
  /\ UNCHANGED <<clock, alarms, meters, dials, runs>>

\* With an output of 0 there is no consumption per unit to judge.
FinishRun(u, output) ==
  LET run == desk[u].row
      energy == ConsumedBetween(run.meter, run.startedAt, clock, dials)
  IN  /\ Waits(u, "run")
      /\ runs' = [runs EXCEPT ![desk[u].id] = [run EXCEPT !.status = "finished", !.energy = energy,
                                                   !.output = output, !.finishedAt = clock]]
      /\ alarms' = IF output > 0 /\ energy > UnitLimit * output
                   THEN RaiseToday(alarms, run.meter, "unit_consumption", clock) ELSE alarms
      /\ Done(u)
      /\ UNCHANGED <<clock, meters, dials>>

CancelRun(u) ==
  /\ Waits(u, "run")
  /\ runs' = [runs EXCEPT ![desk[u].id].status = "cancelled"]
  /\ Done(u)
  /\ UNCHANGED <<clock, alarms, meters, dials>>

Tick ==
  /\ clock < MaxTime
  /\ clock' = clock + 1
  /\ UNCHANGED <<alarms, meters, dials, runs, desk>>

-----------------------------------------------------------------------------
ReadNext ==
  \/ Tick
  \/ \E m \in Meter, type \in ReportedTypes : ReportAlarm(m, type)
  \/ \E u \in User :
       \/ \E m \in Meter, at \in Time, value \in Values : LookAtDial(u, m, at, value)
       \/ RecordReading(u)

MeterNext ==
  \E u \in User :
    \/ \E m \in Meter : LookForSilence(u, m) \/ OpenMeter(u, m)
    \/ ScanOfflineMeter(u)
    \/ \E status \in {"online", "offline", "stopped"} : SaveMeter(u, status)

RunNext ==
  \E u \in User :
    \/ \E m \in Meter : LookForRuns(u, m)
    \/ StartRun(u)
    \/ \E r \in 1..Len(runs) : OpenRun(u, r)
    \/ \E output \in 0..1 : FinishRun(u, output)
    \/ CancelRun(u)

EnergyNext == ReadNext \/ MeterNext \/ RunNext

EnergySpec == EnergyInit /\ [][EnergyNext]_energyVars

-----------------------------------------------------------------------------
(* Properties.                                                             *)

\* Every reading above the limit has an alarm of its meter from its day or later, and so
\* has every run that consumed too much for its output, whatever was raised, reported or
\* read at the same time (the duplicates raise_alarm looks for).
MetersOverLimitAreAlarmed ==
  /\ \A r \in 1..Len(dials) :
       dials[r].reading > UpperLimit =>
         Raised(alarms, dials[r].meter, "over_limit", DayStart(dials[r].at))
  /\ \A r \in 1..Len(runs) :
       (/\ runs[r].status = "finished" /\ runs[r].output > 0
        /\ runs[r].energy > UnitLimit * runs[r].output) =>
         Raised(alarms, runs[r].meter, "unit_consumption", DayStart(runs[r].finishedAt))
=============================================================================
