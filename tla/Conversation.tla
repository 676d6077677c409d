---------------------------- MODULE Conversation ----------------------------
(***************************************************************************)
(* What the two ends of a connection say to one another: the messages of   *)
(* OCPP 1.6 as packages/ocpp types them, the schemas either end checks     *)
(* them with, and the programs that build and read them: the gateway with  *)
(* the dispatcher, and the simulated charge point.  Either end may also    *)
(* meet a stranger who keeps to the types.                                 *)
(* A text is its length, a number counts halves (so that rounding shows),  *)
(* a time is a number of ticks, or Unreadable.                             *)
(***************************************************************************)
EXTENDS Integers, Sequences, FiniteSets, TLC

CONSTANTS
  Tags, KnownTags,     \* idTags (their lengths), and those a driver has
  Names,               \* lengths of vendors and models
  Rows,                \* allocations a plan may hold, as sequences of halves
  MinW, MaxW,          \* what a charger can hold and give, halves
  SlotTicks, Lookahead,
  MaxNow, MaxNumber, MaxRegister, MaxTalk

ConversationAssumption ==
  /\ Tags \subseteq 1..20 /\ KnownTags \subseteq Tags /\ Names \subseteq 1..20
  /\ {MinW, MaxW, SlotTicks, Lookahead, MaxNow, MaxNumber, MaxRegister, MaxTalk} \subseteq Nat

VARIABLES
  stranger,   \* one end is not ours
  now,
  point,      \* the charge point: what it is doing, and what it holds
  told,       \* the status the charge point reported last
  row,        \* the connector's row at the server
  reading,    \* the last reading the server took, and of which register
  plan,       \* what the plan last sent meant: [from, limits], or NoPlan
  heard,      \* the last CALL: who heard it, which, and whether it was understood
  talk        \* CALLs so far

vars == <<stranger, now, point, told, row, reading, plan, heard, talk>>

Null == -1
Unreadable == -1
Kilo == 10
Volts == 3
Round(h) == 2 * ((h + 1) \div 2)

-----------------------------------------------------------------------------
(* Words. *)

CHARGE_POINT_ACTIONS ==
  {"BootNotification", "Heartbeat", "StatusNotification", "Authorize", "StartTransaction",
   "StopTransaction", "MeterValues", "DataTransfer"}
CENTRAL_SYSTEM_ACTIONS ==
  {"RemoteStartTransaction", "RemoteStopTransaction", "SetChargingProfile", "ClearChargingProfile",
   "Reset", "GetConfiguration", "ChangeConfiguration", "TriggerMessage"}
CONNECTOR_STATUSES ==
  {"Available", "Preparing", "Charging", "SuspendedEVSE", "SuspendedEV", "Finishing", "Reserved",
   "Unavailable", "Faulted"}
ErrorCodes ==
  {"ConnectorLockFailure", "EVCommunicationError", "GroundFailure", "HighTemperature",
   "InternalError", "LocalListConflict", "NoError", "OtherError", "OverCurrentFailure",
   "OverVoltage", "PowerMeterFailure", "PowerSwitchFailure", "ReaderFailure", "ResetFailure",
   "UnderVoltage", "WeakSignal"}
StopReasons ==
  {"EmergencyStop", "EVDisconnected", "HardReset", "Local", "Other", "PowerLoss", "Reboot",
   "Remote", "SoftReset", "UnlockCommand", "DeAuthorized"}
Energy == "Energy.Active.Import.Register"
Power == "Power.Active.Import"
StateOfCharge == "SoC"
Measurands == {Energy, Power, "Current.Import", "Voltage", StateOfCharge, "Temperature"}
Units == {"Wh", "kWh", "W", "kW", "A", "V", "Percent", "Celsius"}
Contexts ==
  {"Interruption.Begin", "Interruption.End", "Sample.Clock", "Sample.Periodic",
   "Transaction.Begin", "Transaction.End", "Trigger", "Other"}
Purposes == {"ChargePointMaxProfile", "TxDefaultProfile", "TxProfile"}
Kinds == {"Absolute", "Recurring", "Relative"}
Words == CONNECTOR_STATUSES \cup ErrorCodes \cup StopReasons \cup Measurands \cup Units \cup Contexts

-----------------------------------------------------------------------------
(* What the types let a stranger say.  Of the optional fields one is given  *)
(* at a time, or none.                                                      *)

With(messages, options) == messages \cup {m @@ o : m \in messages, o \in options}

BootNotificationRequest ==
  With([chargePointVendor : Names, chargePointModel : Names],
       {"chargePointSerialNumber" :> 25, "chargeBoxSerialNumber" :> 25, "firmwareVersion" :> 50})
StatusNotificationRequest ==
  With([connectorId : {0, 1}, errorCode : {"NoError", "GroundFailure"}, status : CONNECTOR_STATUSES],
       {"timestamp" :> now, "info" :> 50, "vendorId" :> 255, "vendorErrorCode" :> 50})
AuthorizeRequest == [idTag : Tags]
StartTransactionRequest ==
  With([connectorId : {1}, idTag : Tags, meterStart : {0, 2}, timestamp : {now, Unreadable}],
       {"reservationId" :> 2})
StopTransactionRequest ==
  With([transactionId : {2}, meterStop : {0, 2}, timestamp : {now, Unreadable}],
       {"idTag" :> 20, "reason" :> "PowerLoss"})

Readings == [readable : BOOLEAN, n : {2, 3}]
SampledValue ==
  With([value : Readings],
       {[measurand |-> Energy, unit |-> "Wh"], [measurand |-> Energy, unit |-> "kWh"],
        [measurand |-> Power, unit |-> "kW"], [measurand |-> StateOfCharge, unit |-> "Percent"],
        [measurand |-> "Voltage", context |-> "Trigger"]})
MeterValuesRequest ==
  With([connectorId : {1}, meterValue : {<<[timestamp |-> t, sampledValue |-> <<s>>]>> :
                                           t \in {now, Unreadable}, s \in SampledValue}],
       {"transactionId" :> 2})

ChargingSchedule ==
  With([chargingRateUnit : {"A", "W"},
        chargingSchedulePeriod : {<<[startPeriod |-> 0, limit |-> 3]>>,
                                  <<[startPeriod |-> 2, limit |-> 4], [startPeriod |-> 0, limit |-> 2]>>}],
       {"duration" :> 4, "startSchedule" :> now, "minChargingRate" :> 3})
ChargingProfile ==
  With([chargingProfileId : {2}, stackLevel : {0, 2}, chargingProfilePurpose : Purposes,
        chargingProfileKind : {"Absolute", "Relative"}, chargingSchedule : ChargingSchedule],
       {"transactionId" :> 2})
SetChargingProfileRequest == [connectorId : {0, 1}, csChargingProfiles : ChargingProfile]
RemoteStartTransactionRequest ==
  With([idTag : Tags], {"connectorId" :> 1})
RemoteStopTransactionRequest == [transactionId : {2, 4}]
\* Commands whose payload the charge point does not look at.
OtherCommands ==
  {"ClearChargingProfile", "Reset", "GetConfiguration", "ChangeConfiguration", "TriggerMessage"}

-----------------------------------------------------------------------------
(* The schemas.  A field is needed or may be left out; unknown ones are      *)
(* dropped.                                                                 *)

Needs(set) == [in |-> set, needed |-> TRUE]
May(set) == [in |-> set, needed |-> FALSE]
Accepts(schema, m) ==
  \A f \in DOMAIN schema :
    IF f \in DOMAIN m THEN m[f] \in schema[f].in ELSE ~schema[f].needed

Whole == {2 * i : i \in 0..MaxNumber}
Number == 0..2 * MaxNumber
Moment == Unreadable..MaxNow
Connector == 0..64

bootNotificationSchema ==
  [chargePointVendor |-> Needs(1..20), chargePointModel |-> Needs(1..20),
   chargePointSerialNumber |-> May(0..25), chargeBoxSerialNumber |-> May(0..25),
   firmwareVersion |-> May(0..50)]
statusNotificationSchema ==
  [connectorId |-> Needs(Connector), errorCode |-> Needs(Words),
   status |-> Needs(CONNECTOR_STATUSES), timestamp |-> May(Moment), info |-> May(0..50),
   vendorId |-> May(0..255), vendorErrorCode |-> May(0..50)]
authorizeSchema == [idTag |-> Needs(1..20)]
startTransactionSchema ==
  [connectorId |-> Needs(Connector \ {0}), idTag |-> Needs(1..20), meterStart |-> Needs(Whole),
   timestamp |-> Needs(Moment), reservationId |-> May(Whole)]
stopTransactionSchema ==
  [transactionId |-> Needs(Whole), idTag |-> May(1..20), meterStop |-> Needs(Whole),
   timestamp |-> Needs(Moment), reason |-> May(Words)]
sampledValueSchema ==
  [context |-> May(Words), measurand |-> May(Words), unit |-> May(Words)]
MeterValueAccepted(mv) ==
  /\ mv.timestamp \in Moment /\ mv.sampledValue # <<>>
  /\ \A i \in DOMAIN mv.sampledValue :
       "value" \in DOMAIN mv.sampledValue[i] /\ Accepts(sampledValueSchema, mv.sampledValue[i])
meterValuesSchema == [connectorId |-> Needs(Connector), transactionId |-> May(Whole)]
MeterValuesAccepted(m) ==
  /\ Accepts(meterValuesSchema, m) /\ m.meterValue # <<>>
  /\ \A i \in DOMAIN m.meterValue : MeterValueAccepted(m.meterValue[i])

chargingSchedulePeriodSchema == [startPeriod |-> Needs(Nat), limit |-> Needs(Number)]
scheduleSchema ==
  [duration |-> May(Nat), startSchedule |-> May(Moment), chargingRateUnit |-> Needs({"A", "W"}),
   minChargingRate |-> May(Number)]
chargingProfileSchema ==
  [chargingProfileId |-> Needs(Whole), transactionId |-> May(Whole), stackLevel |-> Needs(Whole),
   chargingProfilePurpose |-> Needs(Purposes), chargingProfileKind |-> Needs(Kinds)]
ProfileAccepted(profile) ==
  /\ Accepts(chargingProfileSchema, profile)
  /\ Accepts(scheduleSchema, profile.chargingSchedule)
  /\ profile.chargingSchedule.chargingSchedulePeriod # <<>>
  /\ \A i \in DOMAIN profile.chargingSchedule.chargingSchedulePeriod :
       Accepts(chargingSchedulePeriodSchema, profile.chargingSchedule.chargingSchedulePeriod[i])
setChargingProfileSchema == [connectorId |-> Needs(Connector)]
SetProfileAccepted(m) ==
  Accepts(setChargingProfileSchema, m) /\ ProfileAccepted(m.csChargingProfiles)
remoteStartTransactionSchema == [connectorId |-> May(Connector), idTag |-> Needs(1..20)]
remoteStopTransactionSchema == [transactionId |-> Needs(Whole)]

-----------------------------------------------------------------------------
(* Readings. *)

BuildMeterValue(t, energy, power, soc) ==
  LET Sample(n, measurand, unit) ==
        [value |-> [readable |-> TRUE, n |-> Round(n)], context |-> "Sample.Periodic",
         measurand |-> measurand, unit |-> unit]
  IN [timestamp |-> t,
      sampledValue |-> <<Sample(energy, Energy, "Wh"), Sample(power, Power, "W")>>
                         \o IF soc = Null THEN <<>> ELSE <<Sample(soc, StateOfCharge, "Percent")>>]

\* Of several samples of a measurand the last one counts; one without is the register's.
Last(samples, measurand) ==
  LET Of(s) == IF "measurand" \in DOMAIN s THEN s.measurand ELSE Energy
      those == {i \in DOMAIN samples : Of(samples[i]) = measurand}
  IN IF those = {} THEN <<>> ELSE <<samples[CHOOSE i \in those : \A j \in those : j <= i]>>

Scaled(sample, kiloUnit) ==
  CASE sample = <<>> \/ (sample # <<>> /\ ~sample[1].value.readable) -> Null
    [] "unit" \in DOMAIN sample[1] /\ sample[1].unit = kiloUnit -> Kilo * sample[1].value.n
    [] OTHER -> sample[1].value.n

ReadMeterValue(mv) ==
  [at |-> mv.timestamp,
   energy |-> Scaled(Last(mv.sampledValue, Energy), "kWh"),
   power |-> Scaled(Last(mv.sampledValue, Power), "kW"),
   soc |-> Scaled(Last(mv.sampledValue, StateOfCharge), "none")]

TimestampOf(t) == IF t = Unreadable THEN now ELSE t

-----------------------------------------------------------------------------
(* The central system hears a CALL. *)

UnderstandsCall(action, m) ==
  CASE action = "BootNotification" -> Accepts(bootNotificationSchema, m)
    [] action = "StatusNotification" -> Accepts(statusNotificationSchema, m)
    [] action = "Authorize" -> Accepts(authorizeSchema, m)
    [] action = "StartTransaction" -> Accepts(startTransactionSchema, m)
    [] action = "MeterValues" -> MeterValuesAccepted(m)
    [] action = "StopTransaction" -> Accepts(stopTransactionSchema, m)
    [] OTHER -> action \in {"Heartbeat", "DataTransfer"}

onStatusNotification(m) == [row EXCEPT !.status = m.status, !.errorCode = m.errorCode]
onStartTransaction(m) == [row EXCEPT !.session = row.issued + 2, !.issued = row.issued + 2]
onStopTransaction(m) == IF m.transactionId = row.session THEN [row EXCEPT !.session = 0] ELSE row
onAuthorize(m) == m.idTag \in KnownTags
onMeterValues(m) ==
  IF "transactionId" \notin DOMAIN m THEN reading
  ELSE LET read == ReadMeterValue(m.meterValue[Len(m.meterValue)])
       IN [tx |-> m.transactionId, at |-> TimestampOf(read.at),
           energy |-> read.energy, power |-> read.power, soc |-> read.soc]

ServerHears(action, m) ==
  LET understood == UnderstandsCall(action, m)
  IN /\ talk < MaxTalk /\ talk' = talk + 1
     /\ heard' = [by |-> "server", action |-> action, understood |-> understood]
     /\ row' = CASE ~understood -> row
                 [] action = "StatusNotification" -> onStatusNotification(m)
                 [] action = "StartTransaction" -> onStartTransaction(m)
                 [] action = "StopTransaction" -> onStopTransaction(m)
                 [] OTHER -> row
     /\ reading' = IF understood /\ action = "MeterValues" THEN onMeterValues(m) ELSE reading
     /\ UNCHANGED <<stranger, now>>

-----------------------------------------------------------------------------
(* The charge point hears a CALL. *)

UnderstandsCommand(action, m) ==
  CASE action = "SetChargingProfile" -> SetProfileAccepted(m)
    [] action = "RemoteStartTransaction" -> Accepts(remoteStartTransactionSchema, m)
    [] action = "RemoteStopTransaction" -> Accepts(remoteStopTransactionSchema, m)
    [] OTHER -> action \in OtherCommands

HoldsProfile(profile) ==
  CASE profile.chargingProfilePurpose = "TxDefaultProfile" ->
         [point EXCEPT !.default = <<profile>>, !.defaultAt = now]
    [] profile.chargingProfilePurpose # "TxDefaultProfile" /\ point.tx # 0 ->
         [point EXCEPT !.profile = <<profile>>, !.profileAt = now]
    [] OTHER -> point

RemoteStarted(m) ==
  IF point.tx = 0 /\ point.at = "free" THEN [point EXCEPT !.at = "arriving", !.car = m.idTag] ELSE point
RemoteStopped(m) ==
  IF point.tx # 0 /\ point.tx = m.transactionId /\ point.at = "charging"
  THEN [point EXCEPT !.at = "unplugging"] ELSE point

PointHears(action, m) ==
  LET understood == UnderstandsCommand(action, m)
  IN /\ talk < MaxTalk /\ talk' = talk + 1
     /\ heard' = [by |-> "point", action |-> action, understood |-> understood]
     /\ point' = CASE ~understood -> point
                   [] action = "SetChargingProfile" -> HoldsProfile(m.csChargingProfiles)
                   [] action = "ClearChargingProfile" -> [point EXCEPT !.profile = <<>>]
                   [] action = "RemoteStartTransaction" -> RemoteStarted(m)
                   [] action = "RemoteStopTransaction" -> RemoteStopped(m)
                   [] OTHER -> point
     /\ UNCHANGED <<stranger, now, told, row, reading>>

\* profileLimitW: the limit a profile imposes at t, or Null.
LimitAt(profile, t, fallbackStart) ==
  IF profile = <<>> THEN Null
  ELSE LET schedule == profile[1].chargingSchedule
           start == IF "startSchedule" \in DOMAIN schedule THEN schedule.startSchedule ELSE fallbackStart
           over == "duration" \in DOMAIN schedule /\ t > start + schedule.duration
           periods == schedule.chargingSchedulePeriod
           begun == {i \in DOMAIN periods : periods[i].startPeriod <= t - start}
       IN IF t < start \/ over \/ begun = {} THEN Null
          ELSE LET period == periods[CHOOSE i \in begun : \A j \in begun :
                                       periods[j].startPeriod <= periods[i].startPeriod]
               IN period.limit * (IF schedule.chargingRateUnit = "W" THEN 1 ELSE Volts)

Greater(a, b) == IF a > b THEN a ELSE b
PointLimit(t) ==
  LET own == LimitAt(point.profile, t, point.profileAt)
  IN IF own # Null THEN own ELSE LimitAt(point.default, t, Greater(point.defaultAt, point.startedAt))

-----------------------------------------------------------------------------
(* Our charge point: connect, plugIn, pump, unplug, one CALL after the       *)
(* other.                                                                   *)

NoPlan == [tx |-> 0, from |-> 0, limits |-> <<>>]
NoReading == [tx |-> 0, at |-> 0, energy |-> Null, power |-> Null, soc |-> Null]

Init ==
  /\ stranger \in BOOLEAN /\ now = 0
  /\ point = [at |-> "off", car |-> 0, tx |-> 0, register |-> 0, power |-> 0, startedAt |-> 0,
              profile |-> <<>>, profileAt |-> 0, default |-> <<>>, defaultAt |-> 0]
  /\ told = "Unavailable"
  /\ row = [status |-> "Unavailable", errorCode |-> "NoError", session |-> 0, issued |-> 0]
  /\ reading = NoReading /\ plan = NoPlan
  /\ heard = [by |-> "nobody", action |-> "none", understood |-> TRUE] /\ talk = 0

Goes(from, to) == ~stranger /\ point.at = from /\ point' = [point EXCEPT !.at = to]

Status(status) ==
  /\ ServerHears("StatusNotification",
                 [connectorId |-> 1, errorCode |-> "NoError", status |-> status, timestamp |-> now])
  /\ told' = status /\ UNCHANGED plan
Meters(register, power, soc) ==
  ServerHears("MeterValues",
              [connectorId |-> 1, transactionId |-> point.tx,
               meterValue |-> <<BuildMeterValue(now, register, power, soc)>>])
Silently == UNCHANGED <<told, plan>>

Connects ==
  /\ Goes("off", "booted") /\ Silently
  /\ \E vendor \in Names, model \in Names :
       ServerHears("BootNotification", [chargePointVendor |-> vendor, chargePointModel |-> model,
                                        firmwareVersion |-> 5])
BecomesAvailable ==
  /\ Goes("booted", "free") \/ Goes("refused", "free") \/ Goes("stopped", "free")
  /\ Status("Available")

PlugsIn ==
  /\ ~stranger /\ point.at \in {"free", "arriving"}
  /\ \E car \in IF point.at = "free" THEN Tags ELSE {point.car} :
       point' = [point EXCEPT !.at = "plugged", !.car = car]
  /\ Status("Preparing")
Authorises ==
  /\ Goes("plugged", IF onAuthorize([idTag |-> point.car]) THEN "authorised" ELSE "refused")
  /\ ServerHears("Authorize", [idTag |-> point.car]) /\ Silently
Starts ==
  /\ ~stranger /\ point.at = "authorised" /\ Silently
  /\ ServerHears("StartTransaction", [connectorId |-> 1, idTag |-> point.car,
                                      meterStart |-> Round(point.register), timestamp |-> now])
  /\ point' = [point EXCEPT !.at = "started", !.tx = row.issued + 2, !.power = 0,
                            !.profile = <<>>, !.profileAt = now, !.startedAt = now]
TellsCharging == Goes("started", "telling") /\ Status("Charging")
FirstReading == Goes("telling", "charging") /\ Meters(point.register, point.power, Null) /\ Silently

\* tick and sendMeterValues, while the car charges and once more when it leaves.
MeterFallsDue ==
  /\ ~stranger /\ point.at \in {"charging", "unplugging"} /\ Silently
  /\ \E drawn \in {1}, soc \in {Null, 1} :
       /\ point.register + drawn <= 2 * MaxRegister
       /\ Meters(point.register + drawn, drawn, soc)
       /\ \E at \in IF point.at = "unplugging" THEN {"stopping"} ELSE {"charging", "stopping"} :
            point' = [point EXCEPT !.register = point.register + drawn, !.power = drawn, !.at = at]
\* Slip: the register is not rounded.
StopsUnrounded ==
  /\ ~stranger /\ point.at = "stopping" /\ Silently
  /\ \E reason \in {"EVDisconnected", "Remote"} :
       ServerHears("StopTransaction",
                   [transactionId |-> point.tx, idTag |-> point.car,
                    meterStop |-> point.register, timestamp |-> now, reason |-> reason])
  /\ point' = [point EXCEPT !.at = "stopped", !.tx = 0, !.profile = <<>>]
StopsTransaction ==
  /\ ~stranger /\ point.at = "stopping" /\ Silently
  /\ \E reason \in {"EVDisconnected", "Remote"} :
       ServerHears("StopTransaction",
                   [transactionId |-> point.tx, idTag |-> point.car,
                    meterStop |-> Round(point.register), timestamp |-> now, reason |-> reason])
  /\ point' = [point EXCEPT !.at = "stopped", !.tx = 0, !.profile = <<>>]
Heartbeats ==
  /\ ~stranger /\ point.at \in {"free", "charging"} /\ UNCHANGED point /\ Silently
  /\ ServerHears("Heartbeat", [none |-> 0])

-----------------------------------------------------------------------------
(* Our central system: gateway, dispatcher, the routes that ask for a start  *)
(* or a stop.                                                               *)

DefaultProfile(limit) ==
  [chargingProfileId |-> 198, stackLevel |-> 0, chargingProfilePurpose |-> "TxDefaultProfile",
   chargingProfileKind |-> "Relative",
   chargingSchedule |-> [chargingRateUnit |-> "W",
                         chargingSchedulePeriod |-> <<[startPeriod |-> 0, limit |-> limit]>>]]

\* The safety profile after a boot, and the reserve of an idle bay.
SendsDefault ==
  /\ ~stranger /\ point.at # "off" /\ UNCHANGED plan
  /\ \E limit \in {0, MinW, MaxW} :
       PointHears("SetChargingProfile", [connectorId |-> 0, csChargingProfiles |-> DefaultProfile(limit)])

\* What the charger can hold of what the plan allots it, slot by slot.
LimitsW(allotted) ==
  [i \in 1..Lookahead |->
     LET requested == IF i \in DOMAIN allotted THEN Round(allotted[i]) ELSE 0
     IN IF requested < MinW THEN 0 ELSE IF requested < MaxW THEN requested ELSE MaxW]
Collapse(limits) ==
  LET changes == SelectSeq([i \in 1..Len(limits) |-> i], LAMBDA i : i = 1 \/ limits[i] # limits[i - 1])
  IN [j \in 1..Len(changes) |-> [startPeriod |-> (changes[j] - 1) * SlotTicks,
                                 limit |-> limits[changes[j]]]]
BuildChargingProfile(limits, start) ==
  [chargingProfileId |-> 2, transactionId |-> row.session, stackLevel |-> 2,
   chargingProfilePurpose |-> "TxProfile", chargingProfileKind |-> "Absolute",
   chargingSchedule |-> [startSchedule |-> start, duration |-> Lookahead * SlotTicks,
                         chargingRateUnit |-> "W", chargingSchedulePeriod |-> Collapse(limits)]]
SendsPlan ==
  /\ ~stranger /\ row.session # 0
  /\ \E allotted \in Rows :
       LET start == SlotTicks * (now \div SlotTicks)
           limits == LimitsW(allotted)
       IN /\ PointHears("SetChargingProfile",
                        [connectorId |-> 1, csChargingProfiles |-> BuildChargingProfile(limits, start)])
          /\ plan' = IF point.tx = row.session THEN [tx |-> row.session, from |-> start, limits |-> limits]
                     ELSE plan

ClearsDefault ==
  /\ ~stranger /\ point.at # "off" /\ PointHears("ClearChargingProfile", [id |-> 198])
  /\ plan' = NoPlan
AsksForStart ==
  /\ ~stranger /\ point.at # "off" /\ row.session = 0 /\ UNCHANGED plan
  /\ \E tag \in Tags : PointHears("RemoteStartTransaction", [connectorId |-> 1, idTag |-> tag])
AsksForStop ==
  /\ ~stranger /\ row.session # 0 /\ UNCHANGED plan
  /\ PointHears("RemoteStopTransaction", [transactionId |-> row.session])

-----------------------------------------------------------------------------
(* Strangers. *)

StrangeCharger ==
  /\ stranger /\ talk < 2 /\ UNCHANGED <<point, told, plan>>
  /\ \/ \E m \in BootNotificationRequest : ServerHears("BootNotification", m)
     \/ \E m \in StatusNotificationRequest : ServerHears("StatusNotification", m)
     \/ \E m \in AuthorizeRequest : ServerHears("Authorize", m)
     \/ \E m \in StartTransactionRequest : ServerHears("StartTransaction", m)
     \/ \E m \in StopTransactionRequest : ServerHears("StopTransaction", m)
     \/ \E m \in MeterValuesRequest : ServerHears("MeterValues", m)
     \/ \E action \in {"Heartbeat", "DataTransfer"} : ServerHears(action, [none |-> 0])
StrangeSystem ==
  /\ stranger /\ talk < 2 /\ UNCHANGED plan
  /\ \/ \E m \in SetChargingProfileRequest : PointHears("SetChargingProfile", m)
     \/ \E m \in RemoteStartTransactionRequest : PointHears("RemoteStartTransaction", m)
     \/ \E m \in RemoteStopTransactionRequest : PointHears("RemoteStopTransaction", m)
     \/ \E action \in OtherCommands : PointHears(action, [none |-> 0])

TimePasses ==
  /\ ~stranger /\ now < MaxNow /\ now' = now + 1
  /\ UNCHANGED <<stranger, point, told, row, reading, plan, heard, talk>>

Next ==
  \/ Connects \/ BecomesAvailable \/ PlugsIn \/ Authorises \/ Starts \/ TellsCharging
  \/ FirstReading \/ MeterFallsDue \/ StopsTransaction \/ Heartbeats
  \/ SendsDefault \/ SendsPlan \/ ClearsDefault \/ AsksForStart \/ AsksForStop
  \/ StrangeCharger \/ StrangeSystem \/ TimePasses

-----------------------------------------------------------------------------
(* Properties. *)

Near(a, b) == a - b \in -1..1

\* Whatever one end says within the types, the other takes: no CALL is answered
\* with an error.
Understood == heard.understood

\* And it means to both ends the same: the status of the row is the one the
\* charge point told, the reading is its register to half a unit, and in every
\* slot of the plan its limit is the one that was meant.
MeantAlike ==
  ~stranger =>
    /\ row.status = told
    /\ point.at = "charging" =>
         row.session = point.tx /\ reading.tx = point.tx /\ Near(reading.energy, point.register)
    /\ plan.tx # 0 /\ plan.tx = point.tx =>
         \A i \in 1..Lookahead, t \in 0..SlotTicks - 1 :
           PointLimit(plan.from + (i - 1) * SlotTicks + t) = plan.limits[i]

UnderstoodAlike == Understood /\ MeantAlike
=============================================================================
