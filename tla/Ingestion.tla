------------------------------ MODULE Ingestion ------------------------------
(***************************************************************************)
(* Reports of devices (apps/iot/services.py): a gateway sends a message    *)
(* with values of its points; each value becomes one reading of its point  *)
(* and moment, values out of limits raise alarms, and gateways that fall   *)
(* silent are set offline.  Alarms are those of Energy.                    *)
(*                                                                         *)
(* A report is one transaction without row locks.  What it reads first,    *)
(* whether the gateway sends too much and whether the message is known,    *)
(* is a step before the one that stores and commits it: messages of other  *)
(* transactions are seen once committed.                                   *)
(*                                                                         *)
(* Abstracted: connections and protocols, the shape of a payload, values   *)
(* beyond normal and over the limit, and devices a person disabled.  The   *)
(* offline check is a request for each gateway it finds silent.            *)
(***************************************************************************)
EXTENDS Energy

CONSTANTS
  Gateway, Point, GatewayOf,   \* whose point it is
  MessageId,
  RateLimit, RateWindow,       \* so many messages in so much time
  LimitWindow, OfflineWindow,  \* within which an alarm is not repeated
  SilentAfter,                 \* IoTGateway.offline_minutes
  MaxMessages, MaxItems        \* bound a behaviour

ASSUME IngestionInputs ==
  /\ GatewayOf \in [Point -> Gateway]
  /\ Gateway \cup Point \subseteq Source
  /\ {RateLimit, RateWindow, LimitWindow, OfflineWindow, SilentAfter} \subseteq Nat
  /\ {MaxMessages, MaxItems} \subseteq Nat

VARIABLES
  gateways,   \* when each was last seen, and its status
  messages,   \* IoTMessage rows
  readings,   \* IoTReading rows
  requests    \* what each process has read so far

ingestionVars == <<clock, alarms, desk, gateways, messages, readings, requests>>

GatewayStatus == {"unknown", "online", "offline"}
\* A gateway that never reported was created at time 0.
IoTGateway == [lastSeen : Time, status : GatewayStatus]
IoTMessage == [gateway : Gateway, id : MessageId, at : Time,
               status : {"processed", "failed", "duplicated"}]
IoTReading == [point : Point, at : Time, value : {"normal", "over"}, message : Nat]

\* A value is unusable if it is no number, or its point is not registered.
Item == [point : Point, value : {"normal", "over", "unusable"}]
Items == UNION {[1..n -> Item] : n \in 1..MaxItems}

\* device_time may lie before the moment the report arrives.
Report == [job : {"report"}, gateway : Gateway, id : MessageId, now : Time, at : Time,
           items : Items, duplicate : BOOLEAN]
NoRequest == [job |-> "none"]
GatewayRequest ==
  {NoRequest} \union Report
    \union [job : {"silent", "edit"}, gateway : Gateway, now : Time, row : IoTGateway]

IngestionTypeOK ==
  /\ gateways \in [Gateway -> IoTGateway]
  /\ messages \in Seq(IoTMessage)
  /\ readings \in Seq(IoTReading)
  /\ requests \in [User -> GatewayRequest]

IngestionInit ==
  /\ gateways = [g \in Gateway |-> [lastSeen |-> 0, status |-> "unknown"]]
  /\ messages = <<>> /\ readings = <<>>
  /\ requests = [u \in User |-> NoRequest]

Asks(u, request) == requests[u] = NoRequest /\ requests' = [requests EXCEPT ![u] = request]
Answered(u) == requests' = [requests EXCEPT ![u] = NoRequest]

-----------------------------------------------------------------------------
RecentMessages(g) ==
  {i \in 1..Len(messages) : messages[i].gateway = g /\ messages[i].at >= clock - RateWindow}

KnownMessage(g, id) == \E i \in 1..Len(messages) : messages[i].gateway = g /\ messages[i].id = id

\* A request refused here, for its rate, leaves no message.
ReceiveReport(u, g, id, at, items) ==
  /\ Len(messages) < MaxMessages
  /\ at <= clock
  /\ Cardinality(RecentMessages(g)) < RateLimit
  /\ Asks(u, [job |-> "report", gateway |-> g, id |-> id, now |-> clock, at |-> at,
              items |-> items, duplicate |-> KnownMessage(g, id)])
  /\ UNCHANGED <<clock, alarms, desk, gateways, messages, readings>>

\* One value: stored unless its point has a reading of that moment, then judged.
Stored(log, item, report, message) ==
  IF \/ item.value = "unusable"
     \/ GatewayOf[item.point] # report.gateway
     \/ \E i \in 1..Len(log.readings) :
          log.readings[i].point = item.point /\ log.readings[i].at = report.at
  THEN log
  ELSE [readings |-> Append(log.readings, [point |-> item.point, at |-> report.at,
                                           value |-> item.value, message |-> message]),
        alarms |-> IF item.value = "over"
                   THEN RaiseAlarm(log.alarms, item.point, "over_limit", report.at,
                                   report.at - LimitWindow)
                   ELSE log.alarms]

\* Its values, one after the other.
StoredAll(report, message) ==
  LET after[n \in 0..Len(report.items)] ==
        IF n = 0 THEN [readings |-> readings, alarms |-> alarms]
        ELSE Stored(after[n - 1], report.items[n], report, message)
  IN  after[Len(report.items)]

\* Bug: a value counts as accepted before it is known whether its reading is new.
MessageStatusByValues(report, log) ==
  IF \E n \in 1..Len(report.items) : report.items[n].value # "unusable"
  THEN "processed" ELSE "failed"

MessageStatus(report, log) == IF Len(log.readings) > Len(readings) THEN "processed" ELSE "failed"

Message(report, status) ==
  [gateway |-> report.gateway, id |-> report.id, at |-> report.now, status |-> status]

CommitReport(u) ==
  LET report == requests[u]
      log == StoredAll(report, Len(messages) + 1)
  IN  /\ report.job = "report" /\ ~ report.duplicate
      /\ messages' = Append(messages, Message(report, MessageStatus(report, log)))
      /\ readings' = log.readings
      /\ alarms' = log.alarms
      /\ gateways' = [gateways EXCEPT ![report.gateway] =
                        [lastSeen |-> report.now, status |-> "online"]]
      /\ Answered(u)
      /\ UNCHANGED <<clock, desk>>

\* A duplicate leaves the gateway's row alone.
CommitDuplicate(u) ==
  /\ requests[u].job = "report" /\ requests[u].duplicate
  /\ messages' = Append(messages, Message(requests[u], "duplicated"))
  /\ Answered(u)
  /\ UNCHANGED <<clock, alarms, desk, gateways, readings>>

\* The transaction is rolled back: a deadlock between the unique keys of two reports,
\* or the process ends.
LoseReport(u) ==
  /\ requests[u].job = "report"
  /\ Answered(u)
  /\ UNCHANGED <<clock, alarms, desk, gateways, messages, readings>>

-----------------------------------------------------------------------------
LookForSilentGateway(u, g) ==
  /\ clock - gateways[g].lastSeen > SilentAfter
  /\ Asks(u, [job |-> "silent", gateway |-> g, now |-> clock, row |-> gateways[g]])
  /\ UNCHANGED <<clock, alarms, desk, gateways, messages, readings>>

SetGatewayOffline(u) ==
  LET seen == requests[u]
  IN  /\ seen.job = "silent"
      /\ gateways' = IF seen.row.status = "offline" THEN gateways
                     ELSE [gateways EXCEPT ![seen.gateway].status = "offline"]
      /\ alarms' = RaiseAlarm(alarms, seen.gateway, "offline", seen.now, seen.now - OfflineWindow)
      /\ Answered(u)
      /\ UNCHANGED <<clock, desk, messages, readings>>

\* The form of a gateway writes its whole row.
OpenGateway(u, g) ==
  /\ Asks(u, [job |-> "edit", gateway |-> g, now |-> clock, row |-> gateways[g]])
  /\ UNCHANGED <<clock, alarms, desk, gateways, messages, readings>>

SaveGateway(u) ==
  /\ requests[u].job = "edit"
  /\ gateways' = [gateways EXCEPT ![requests[u].gateway] = requests[u].row]
  /\ Answered(u)
  /\ UNCHANGED <<clock, alarms, desk, messages, readings>>

-----------------------------------------------------------------------------
IngestionNext ==
  \/ \E u \in User :
       \/ \E g \in Gateway :
            \/ \E id \in MessageId, at \in Time, items \in Items : ReceiveReport(u, g, id, at, items)
            \/ LookForSilentGateway(u, g) \/ OpenGateway(u, g)
       \/ CommitReport(u) \/ CommitDuplicate(u) \/ LoseReport(u)
       \/ SetGatewayOffline(u) \/ SaveGateway(u)
  \/ /\ \/ Tick
        \/ \E source \in Gateway \cup Point, type \in ReportedTypes : ReportAlarm(source, type)
     /\ UNCHANGED <<gateways, messages, readings, requests>>

-----------------------------------------------------------------------------
(* Meters and devices, side by side.                                       *)

deviceVars == <<energyVars, gateways, messages, readings, requests>>

DevicesInit == EnergyInit /\ IngestionInit

DevicesNext ==
  \/ EnergyNext /\ UNCHANGED <<gateways, messages, readings, requests>>
  \/ IngestionNext /\ UNCHANGED <<meters, dials, runs>>

DevicesSpec == DevicesInit /\ [][DevicesNext]_deviceVars

-----------------------------------------------------------------------------
(* Properties.                                                             *)

\* Every value over its limit has an alarm of its own point, no earlier than the window
\* before it, and every gateway shown offline an alarm that it is: what others raised,
\* what was reported late and what failed never hides it.
DevicesOverLimitAreAlarmed ==
  /\ \A r \in 1..Len(readings) :
       readings[r].value = "over" =>
         Raised(alarms, readings[r].point, "over_limit", readings[r].at - LimitWindow)
  /\ \A g \in Gateway : gateways[g].status = "offline" => Raised(alarms, g, "offline", 0)

\* Readings of meters and of points, runs that consumed too much and offline gateways:
\* each has its alarm (the duplicates raise_alarm looks for are of one source and type).
AlarmsCoverWhatWasSeen == MetersOverLimitAreAlarmed /\ DevicesOverLimitAreAlarmed

\* A message counts as processed exactly if a reading came from it: a report sent twice
\* at the same time, by two processes that both see it as new, is told from the first.
ProcessedMessagesHaveReadings ==
  \A i \in 1..Len(messages) :
    messages[i].status = "processed" <=> \E r \in 1..Len(readings) : readings[r].message = i
=============================================================================
