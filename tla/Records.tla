------------------------------ MODULE Records ------------------------------
(***************************************************************************)
(* The objects the server keeps, the rows the mirror makes of them, the    *)
(* tables of Postgres that take a row or refuse it, and the objects a      *)
(* restart makes of what the tables kept.  A behaviour follows one object: *)
(* how the code makes it, and what it changes about it.                    *)
(*                                                                         *)
(* A number (kW, kWh, money, a share) counts ten-thousandths, so a         *)
(* register counts tenths of a Wh; a time counts ten-thousandths of an     *)
(* hour; a text is its length.  Fields that any text column takes as they  *)
(* are, and identifiers, are left out.  A field that may be null is a      *)
(* sequence of at most one value.                                          *)
(***************************************************************************)
EXTENDS Integers, Sequences, FiniteSets

CONSTANT MaxChanges    \* bound on the changes to one object

RecordsAssumption == MaxChanges \in Nat

VARIABLES
  table,     \* the table of the object that is followed
  object,
  now,       \* the server's clock
  changes    \* changes so far

vars == <<table, object, now, changes>>

K == 10000
Hour == 10000
Null == <<>>
Smaller(a, b) == IF a < b THEN a ELSE b
Greater(a, b) == IF a > b THEN a ELSE b
RoundTo(v, unit) == unit * ((v + unit \div 2) \div unit)

-----------------------------------------------------------------------------
(* What a column takes of a value, and what it keeps.                       *)

Column(type, a, b) == [type |-> type, a |-> a, b |-> b, seq |-> FALSE]
Text == Column("text", 0, 0)
Char(n) == Column("char", n, 0)
Enum(words) == Column("enum", words, 0)
Numeric(p, s) == Column("numeric", p, s)
Whole(unit) == Column("whole", unit, 0)   \* int and bigint
Flag == Column("boolean", 0, 0)
Time == Column("timestamptz", 0, 0)
Optional(column) == [column EXCEPT !.seq = TRUE]
Array(column) == [column EXCEPT !.seq = TRUE]

Fits(column, v) ==
  CASE column.type = "char" -> v <= column.a
    [] column.type = "enum" -> v \in column.a
    [] column.type = "numeric" -> v \div K < 10^(column.a - column.b)
    [] column.type = "whole" -> v % column.a = 0
    [] OTHER -> TRUE
Keeps(column, v) == IF column.type = "numeric" THEN RoundTo(v, 10^(4 - column.b)) ELSE v

ColumnTakes(column, v) ==
  IF column.seq THEN \A i \in DOMAIN v : Fits(column, v[i]) ELSE Fits(column, v)
ColumnKeeps(column, v) ==
  IF column.seq THEN [i \in DOMAIN v |-> Keeps(column, v[i])] ELSE Keeps(column, v)

-----------------------------------------------------------------------------
(* The schema. *)

charging_mode == {"cheapest", "greenest", "fastest", "balanced"}
user_role == {"driver", "operator", "grid_operator"}
session_status == {"pending", "active", "complete", "aborted"}
session_source == {"app", "rfid", "remote"}
connector_status ==
  {"Available", "Preparing", "Charging", "SuspendedEVSE", "SuspendedEV",
   "Finishing", "Reserved", "Unavailable", "Faulted"}
plan_status == {"complete", "shortfall"}
solver_name == {"lp", "greedy"}
dispatch_status == {"Accepted", "Rejected", "NotSupported", "Timeout", "Offline", "Error"}
flex_status == {"requested", "accepted", "declined", "active", "completed", "cancelled"}
signal_kind == {"carbon", "price", "renewable", "actual_carbon"}

sites ==
  [country |-> Char(2), currency |-> Char(3), grid_connection_kw |-> Numeric(8, 2),
   demand_charge_per_kw_month |-> Numeric(8, 2), default_mode |-> Enum(charging_mode),
   base_load_kw |-> Array(Numeric(8, 2))]
profiles ==
  [role |-> Enum(user_role), site_id |-> Optional(Text), id_tag |-> Optional(Text),
   default_mode |-> Enum(charging_mode), default_dwell_hours |-> Numeric(4, 1),
   default_energy_kwh |-> Numeric(6, 2)]
vehicles == [battery_kwh |-> Numeric(6, 2), max_charge_kw |-> Numeric(6, 2)]
chargers ==
  [max_power_kw |-> Numeric(6, 2), min_power_kw |-> Numeric(6, 2), connector_count |-> Whole(1),
   online |-> Flag, uncontrolled |-> Flag, vendor |-> Optional(Text), last_seen_at |-> Optional(Time)]
sessions ==
  [driver_id |-> Optional(Text), transaction_id |-> Optional(Whole(1)),
   source |-> Enum(session_source), status |-> Enum(session_status), mode |-> Enum(charging_mode),
   plugged_in_at |-> Time, deadline_at |-> Time, deadline_is_default |-> Flag,
   unplugged_at |-> Optional(Time), energy_needed_kwh |-> Numeric(7, 3),
   energy_delivered_kwh |-> Numeric(7, 3), max_power_kw |-> Numeric(6, 2),
   meter_start_wh |-> Optional(Whole(10)), last_meter_wh |-> Optional(Whole(10)),
   current_power_kw |-> Numeric(6, 2), limit_kw |-> Optional(Numeric(6, 2)),
   deadline_risk |-> Flag, created_at |-> Time]
connectors ==
  [connector_id |-> Whole(1), status |-> Enum(connector_status),
   current_session_id |-> Optional(Text), updated_at |-> Time]
meter_readings ==
  [recorded_at |-> Time, energy_wh |-> Whole(10), power_w |-> Whole(10), soc |-> Optional(Numeric(4, 3))]
grid_signals ==
  [kind |-> Enum(signal_kind), slot_start |-> Time, value |-> Numeric(10, 4), fetched_at |-> Time]
plans ==
  [solved_at |-> Time, horizon_start |-> Time, horizon_now |-> Time, slots |-> Whole(1),
   solver |-> Enum(solver_name), status |-> Enum(plan_status), fallback_reason |-> Optional(Text),
   solve_ms |-> Numeric(8, 2), peak_kw |-> Numeric(8, 2), site_load_kw |-> Array(Numeric(8, 2)),
   base_load_kw |-> Array(Numeric(8, 2)), cap_kw |-> Array(Numeric(8, 2)),
   carbon_g_per_kwh |-> Array(Numeric(8, 2)), price_per_kwh |-> Array(Numeric(8, 4)),
   renewable_share |-> Array(Numeric(5, 4))]
plan_schedules == [power_kw |-> Array(Numeric(6, 2))]
dispatch_log ==
  [connector_id |-> Whole(1), session_id |-> Optional(Text), sent_at |-> Time, limit_w |-> Whole(10),
   status |-> Enum(dispatch_status), error |-> Optional(Text)]
flex_events ==
  [requested_by |-> Optional(Text), starts_at |-> Time, ends_at |-> Time, cap_kw |-> Numeric(8, 2),
   reason |-> Optional(Text), status |-> Enum(flex_status), created_at |-> Time,
   responded_at |-> Optional(Time)]
session_reports ==
  [energy_kwh |-> Numeric(7, 3), cost |-> Numeric(9, 4), co2_kg |-> Numeric(9, 4),
   renewable_share |-> Numeric(5, 4), avg_carbon_g_per_kwh |-> Numeric(8, 2),
   baseline_cost |-> Numeric(9, 4), baseline_co2_kg |-> Numeric(9, 4),
   avoided_co2_kg |-> Numeric(9, 4), cost_saved |-> Numeric(9, 4), green_score |-> Whole(K),
   window_min_carbon_g_per_kwh |-> Numeric(8, 2), window_max_carbon_g_per_kwh |-> Numeric(8, 2),
   verified |-> Flag, carbon_basis |-> Text, computed_at |-> Time]

Columns(t) ==
  CASE t = "sites" -> sites [] t = "profiles" -> profiles [] t = "vehicles" -> vehicles
    [] t = "chargers" -> chargers [] t = "sessions" -> sessions [] t = "connectors" -> connectors
    [] t = "meter_readings" -> meter_readings [] t = "grid_signals" -> grid_signals
    [] t = "plans" -> plans [] t = "plan_schedules" -> plan_schedules
    [] t = "dispatch_log" -> dispatch_log [] t = "flex_events" -> flex_events
    [] t = "session_reports" -> session_reports
Tables ==
  {"sites", "profiles", "vehicles", "chargers", "sessions", "connectors", "meter_readings",
   "grid_signals", "plans", "plan_schedules", "dispatch_log", "flex_events", "session_reports"}

\* The columns a check of the schema wants above zero.
Positive(t) ==
  CASE t = "sites" -> {"grid_connection_kw"}
    [] t = "profiles" -> {"default_dwell_hours", "default_energy_kwh"}
    [] t = "vehicles" -> {"battery_kwh", "max_charge_kw"}
    [] t \in {"chargers", "sessions"} -> {"max_power_kw"}
    [] OTHER -> {}
\* The other checks, of the row as it is kept.
Checks(t, kept) ==
  CASE t = "sites" -> kept.demand_charge_per_kw_month >= 0 /\ Len(kept.base_load_kw) = 24
    [] t = "chargers" -> kept.min_power_kw >= 0 /\ kept.connector_count \in 1..8
    [] t = "sessions" -> /\ kept.energy_needed_kwh >= 0 /\ kept.energy_delivered_kwh >= 0
                         /\ kept.deadline_at > kept.plugged_in_at
    [] t = "connectors" -> kept.connector_id >= 0
    [] t = "meter_readings" -> kept.energy_wh >= 0 /\ \A i \in DOMAIN kept.soc : kept.soc[i] \in 0..K
    [] t = "flex_events" -> kept.cap_kw >= 0 /\ kept.ends_at > kept.starts_at
    [] t = "session_reports" -> /\ kept.green_score \in 0..100 * K
                                /\ kept.carbon_basis \in {"actual", "forecast"}
    [] OTHER -> TRUE

Kept(t, row) == [c \in DOMAIN Columns(t) |-> ColumnKeeps(Columns(t)[c], row[c])]
Vanishes(t, row) == \E c \in Positive(t) : Kept(t, row)[c] = 0
Takes(t, row) ==
  /\ \A c \in DOMAIN Columns(t) : ColumnTakes(Columns(t)[c], row[c])
  /\ \A c \in Positive(t) : Kept(t, row)[c] > 0
  /\ Checks(t, Kept(t, row))

-----------------------------------------------------------------------------
(* Objects to rows and back. *)

siteRow(site) ==
  [country |-> site.country, currency |-> site.currency, default_mode |-> site.defaultMode,
   grid_connection_kw |-> site.gridConnectionKw, base_load_kw |-> site.baseLoadKw,
   demand_charge_per_kw_month |-> site.demandChargePerKwMonth]
rowToSite(row) ==
  [country |-> row.country, currency |-> row.currency, defaultMode |-> row.default_mode,
   gridConnectionKw |-> row.grid_connection_kw, baseLoadKw |-> row.base_load_kw,
   demandChargePerKwMonth |-> row.demand_charge_per_kw_month]

chargerRow(charger) ==
  [max_power_kw |-> charger.maxPowerKw, min_power_kw |-> charger.minPowerKw,
   connector_count |-> charger.connectorCount, online |-> charger.online,
   uncontrolled |-> charger.uncontrolled, vendor |-> charger.vendor, last_seen_at |-> charger.lastSeenMs]
rowToCharger(row) ==
  [maxPowerKw |-> row.max_power_kw, minPowerKw |-> row.min_power_kw,
   connectorCount |-> row.connector_count, online |-> row.online,
   uncontrolled |-> row.uncontrolled, vendor |-> row.vendor, lastSeenMs |-> row.last_seen_at]

connectorRow(state) ==
  [connector_id |-> state.connectorId, status |-> state.status,
   current_session_id |-> state.sessionId, updated_at |-> state.updatedMs]

profileRow(profile) ==
  [role |-> profile.role, site_id |-> profile.siteId, id_tag |-> profile.idTag,
   default_mode |-> profile.defaultMode, default_dwell_hours |-> profile.defaultDwellHours,
   default_energy_kwh |-> profile.defaultEnergyKwh]
rowToProfile(row) ==
  [role |-> row.role, siteId |-> row.site_id, idTag |-> row.id_tag,
   defaultMode |-> row.default_mode, defaultDwellHours |-> row.default_dwell_hours,
   defaultEnergyKwh |-> row.default_energy_kwh]

vehicleRow(vehicle) == [battery_kwh |-> vehicle.batteryKwh, max_charge_kw |-> vehicle.maxChargeKw]
rowToVehicle(row) == [batteryKwh |-> row.battery_kwh, maxChargeKw |-> row.max_charge_kw]

sessionRow(s) ==
  [driver_id |-> s.driverId, transaction_id |-> s.transactionId, source |-> s.source,
   status |-> s.status, mode |-> s.mode, plugged_in_at |-> s.pluggedInMs,
   deadline_at |-> s.deadlineMs, deadline_is_default |-> s.deadlineIsDefault,
   unplugged_at |-> s.unpluggedMs, energy_needed_kwh |-> s.energyNeededKwh,
   energy_delivered_kwh |-> s.energyDeliveredKwh, max_power_kw |-> s.maxPowerKw,
   meter_start_wh |-> s.meterStartWh, last_meter_wh |-> s.lastMeterWh,
   current_power_kw |-> s.currentPowerKw, limit_kw |-> s.limitKw,
   deadline_risk |-> s.deadlineRisk, created_at |-> s.createdMs]
\* Slip: a register that was never read comes back as zero.
rowToSessionReadAsZero(row) ==
  [driverId |-> row.driver_id, transactionId |-> row.transaction_id, source |-> row.source,
   status |-> row.status, mode |-> row.mode, pluggedInMs |-> row.plugged_in_at,
   deadlineMs |-> row.deadline_at, deadlineIsDefault |-> row.deadline_is_default,
   unpluggedMs |-> row.unplugged_at, energyNeededKwh |-> row.energy_needed_kwh,
   energyDeliveredKwh |-> row.energy_delivered_kwh, maxPowerKw |-> row.max_power_kw,
   meterStartWh |-> IF row.meter_start_wh = Null THEN <<0>> ELSE row.meter_start_wh,
   lastMeterWh |-> row.last_meter_wh, currentPowerKw |-> row.current_power_kw,
   limitKw |-> row.limit_kw, deadlineRisk |-> row.deadline_risk, createdMs |-> row.created_at]
rowToSession(row) ==
  [driverId |-> row.driver_id, transactionId |-> row.transaction_id, source |-> row.source,
   status |-> row.status, mode |-> row.mode, pluggedInMs |-> row.plugged_in_at,
   deadlineMs |-> row.deadline_at, deadlineIsDefault |-> row.deadline_is_default,
   unpluggedMs |-> row.unplugged_at, energyNeededKwh |-> row.energy_needed_kwh,
   energyDeliveredKwh |-> row.energy_delivered_kwh, maxPowerKw |-> row.max_power_kw,
   meterStartWh |-> row.meter_start_wh, lastMeterWh |-> row.last_meter_wh,
   currentPowerKw |-> row.current_power_kw, limitKw |-> row.limit_kw,
   deadlineRisk |-> row.deadline_risk, createdMs |-> row.created_at]

meterRow(reading) ==
  [recorded_at |-> reading.tsMs, energy_wh |-> Greater(0, RoundTo(reading.energyWh, 10)),
   power_w |-> RoundTo(reading.powerW, 10), soc |-> reading.soc]
signalRow(sample) ==
  [kind |-> sample.kind, slot_start |-> sample.slotStartMs, value |-> sample.value,
   fetched_at |-> sample.fetchedMs]
planRow(plan) ==
  [solved_at |-> plan.solvedMs, horizon_start |-> plan.startMs, horizon_now |-> plan.nowMs,
   slots |-> Len(plan.siteLoadKw), solver |-> plan.solver, status |-> plan.status,
   fallback_reason |-> plan.fallbackReason, solve_ms |-> plan.solveMs, peak_kw |-> plan.peakKw,
   site_load_kw |-> plan.siteLoadKw, base_load_kw |-> plan.baseLoadKw, cap_kw |-> plan.capKw,
   carbon_g_per_kwh |-> plan.carbonGPerKwh, price_per_kwh |-> plan.pricePerKwh,
   renewable_share |-> plan.renewableShare]
planScheduleRows(plan) == {[power_kw |-> row] : row \in plan.allocationsKw}
dispatchRow(record) ==
  [connector_id |-> record.connectorId, session_id |-> record.sessionId, sent_at |-> record.sentMs,
   limit_w |-> RoundTo(record.limitW, 10), status |-> record.status, error |-> record.error]
flexRow(event) ==
  [requested_by |-> event.requestedBy, starts_at |-> event.startsMs, ends_at |-> event.endsMs,
   cap_kw |-> event.capKw, reason |-> event.reason, status |-> event.status,
   created_at |-> event.createdMs, responded_at |-> event.respondedMs]

reportRow(report) ==
  [energy_kwh |-> report.energyKwh, cost |-> report.cost, co2_kg |-> report.co2Kg,
   renewable_share |-> report.renewableShare, avg_carbon_g_per_kwh |-> report.avgCarbonGPerKwh,
   baseline_cost |-> report.baselineCost, baseline_co2_kg |-> report.baselineCo2Kg,
   avoided_co2_kg |-> report.avoidedCo2Kg, cost_saved |-> report.costSaved,
   green_score |-> RoundTo(report.greenScore, K),
   window_min_carbon_g_per_kwh |-> report.windowMinCarbonGPerKwh,
   window_max_carbon_g_per_kwh |-> report.windowMaxCarbonGPerKwh,
   verified |-> report.verified, carbon_basis |-> report.carbonBasis, computed_at |-> report.computedMs]
rowToReport(row) ==
  [energyKwh |-> row.energy_kwh, cost |-> row.cost, co2Kg |-> row.co2_kg,
   renewableShare |-> row.renewable_share, avgCarbonGPerKwh |-> row.avg_carbon_g_per_kwh,
   baselineCost |-> row.baseline_cost, baselineCo2Kg |-> row.baseline_co2_kg,
   avoidedCo2Kg |-> row.avoided_co2_kg, costSaved |-> row.cost_saved, greenScore |-> row.green_score,
   windowMinCarbonGPerKwh |-> row.window_min_carbon_g_per_kwh,
   windowMaxCarbonGPerKwh |-> row.window_max_carbon_g_per_kwh, verified |-> row.verified,
   carbonBasis |-> IF row.carbon_basis = "actual" THEN "actual" ELSE "forecast",
   computedMs |-> row.computed_at]

\* The rows a save enqueues, with their tables.
RowsOf(t, x) ==
  CASE t = "sites" -> {<<t, siteRow(x)>>} [] t = "chargers" -> {<<t, chargerRow(x)>>}
    [] t = "connectors" -> {<<t, connectorRow(x)>>} [] t = "profiles" -> {<<t, profileRow(x)>>}
    [] t = "vehicles" -> {<<t, vehicleRow(x)>>} [] t = "sessions" -> {<<t, sessionRow(x)>>}
    [] t = "meter_readings" -> {<<t, meterRow(x)>>} [] t = "grid_signals" -> {<<t, signalRow(x)>>}
    [] t = "plans" -> {<<t, planRow(x)>>} \cup {<<"plan_schedules", row>> : row \in planScheduleRows(x)}
    [] t = "dispatch_log" -> {<<t, dispatchRow(x)>>} [] t = "flex_events" -> {<<t, flexRow(x)>>}
    [] t = "session_reports" -> {<<t, reportRow(x)>>}

\* What hydrate() reads back, and the object's row as it would be written again.
ReadBack == {"sites", "profiles", "vehicles", "chargers", "sessions", "session_reports"}
RowAgain(t, kept) ==
  CASE t = "sites" -> siteRow(rowToSite(kept))
    [] t = "profiles" -> profileRow(rowToProfile(kept))
    [] t = "vehicles" -> vehicleRow(rowToVehicle(kept))
    [] t = "chargers" -> chargerRow(rowToCharger(kept))
    [] t = "sessions" -> sessionRow(rowToSession(kept))
    [] t = "session_reports" -> reportRow(rowToReport(kept))

-----------------------------------------------------------------------------
(* Objects, as the code makes them.  Of the values that may be at an edge    *)
(* one is at a time.                                                        *)

Variants(base, edges) ==
  {base} \cup UNION {{[base EXCEPT ![f] = v] : v \in edges[f]} : f \in DOMAIN edges}

\* z.number().positive().max(n), and nonnegative().
UpTo(n) == {1, 499, 14000, n * K}
ZeroUpTo(n) == {0} \cup UpTo(n)
Flat(v, n) == [i \in 1..n |-> v]

ScenarioSite ==
  Variants([country |-> 2, currency |-> 3, gridConnectionKw |-> 60 * K, demandChargePerKwMonth |-> 8 * K,
            defaultMode |-> "balanced", baseLoadKw |-> Flat(55555, 24)],
           [gridConnectionKw |-> UpTo(100000), demandChargePerKwMonth |-> ZeroUpTo(1000),
            defaultMode |-> charging_mode, baseLoadKw |-> {Flat(0, 24)}])
ScenarioCharger ==
  Variants([maxPowerKw |-> 74 * 1000, minPowerKw |-> 14000, connectorCount |-> 1, online |-> FALSE,
            uncontrolled |-> FALSE, vendor |-> Null, lastSeenMs |-> Null],
           [maxPowerKw |-> UpTo(350), minPowerKw |-> ZeroUpTo(350), connectorCount |-> 1..4,
            vendor |-> {<<30>>}])
Person(role, site, tag, mode, dwell, energy) ==
  [role |-> role, siteId |-> site, idTag |-> tag, defaultMode |-> mode,
   defaultDwellHours |-> dwell, defaultEnergyKwh |-> energy]
ScenarioDriver ==
  Variants(Person("driver", <<8>>, <<8>>, "balanced", 8 * K, 20 * K),
           [idTag |-> {<<1>>, <<20>>}, defaultMode |-> charging_mode,
            defaultDwellHours |-> UpTo(48), defaultEnergyKwh |-> UpTo(250)])
ScenarioStaff ==
  {Person("operator", <<8>>, Null, mode, 8 * K, 20 * K) : mode \in charging_mode}
    \cup {Person("grid_operator", Null, Null, mode, 8 * K, 20 * K) : mode \in charging_mode}
seedNetworkOperator ==
  {Person(role, Null, Null, "balanced", 8 * K, 20 * K) : role \in {"grid_operator", "operator"}}
\* A scenario's, and createVehicleSchema's.
ScenarioVehicle ==
  Variants([batteryKwh |-> 60 * K, maxChargeKw |-> 11 * K],
           [batteryKwh |-> UpTo(250), maxChargeKw |-> UpTo(350)])
SeededConnector == {[connectorId |-> c, status |-> "Unavailable", sessionId |-> Null, updatedMs |-> 0] : c \in 1..4}

\* POST /sessions, and a tap with no session declared, by someone known or not.
Declared(driver, source, energy, deadline, isDefault, mode, power) ==
  [driverId |-> driver, transactionId |-> Null, source |-> source, status |-> "pending",
   mode |-> mode, pluggedInMs |-> 0, deadlineMs |-> deadline, deadlineIsDefault |-> isDefault,
   unpluggedMs |-> Null, energyNeededKwh |-> energy, energyDeliveredKwh |-> 0, maxPowerKw |-> power,
   meterStartWh |-> Null, lastMeterWh |-> Null, currentPowerKw |-> 0, limitKw |-> Null,
   deadlineRisk |-> FALSE, createdMs |-> 0]
\* checkDeadline
Feasible(energy, power, from, deadline) ==
  deadline > from /\ energy <= power * ((deadline - from) \div Hour)
DeclaredInApp ==
  LET All == Variants(Declared(<<8>>, "app", 20 * K, 8 * Hour, FALSE, "balanced", 74 * 1000),
                      [energyNeededKwh |-> UpTo(250), deadlineMs |-> {Hour, 40 * Hour},
                       mode |-> charging_mode, maxPowerKw |-> UpTo(350)])
  IN {s \in All : Feasible(s.energyNeededKwh, s.maxPowerKw, 0, s.deadlineMs)}
openFromDefaults ==
  {Declared(<<8>>, "rfid", p.defaultEnergyKwh, p.defaultDwellHours, TRUE, p.defaultMode, 74 * 1000) :
     p \in ScenarioDriver}
    \cup {Declared(Null, "rfid", 20 * K, 8 * K, TRUE, "balanced", power) : power \in UpTo(350)}

Reading ==
  Variants([tsMs |-> 0, energyWh |-> 1000, powerW |-> 74000, soc |-> Null],
           [energyWh |-> {0, -10, 1235}, powerW |-> {0, 74005, -100}, soc |-> {<<0>>, <<5005>>, <<K>>, <<12000>>}])
Sample ==
  Variants([kind |-> "carbon", slotStartMs |-> 0, value |-> 1804567, fetchedMs |-> 0],
           [kind |-> signal_kind, value |-> {0, -21234, 9999999}])
PlanRecord ==
  Variants([solvedMs |-> 1, startMs |-> 0, nowMs |-> 1, solver |-> "lp", status |-> "complete",
            fallbackReason |-> Null, solveMs |-> 123456, peakKw |-> 345678, siteLoadKw |-> Flat(345678, 2),
            baseLoadKw |-> Flat(55555, 2), capKw |-> Flat(57 * K, 2), carbonGPerKwh |-> Flat(1804567, 2),
            pricePerKwh |-> Flat(-1234, 2), renewableShare |-> Flat(4321, 2),
            allocationsKw |-> {Flat(74000, 2), <<0, 12345>>}],
           [solver |-> solver_name, status |-> plan_status, fallbackReason |-> {<<40>>},
            capKw |-> {<<>>, Flat(0, 2)}, allocationsKw |-> {{}}, renewableShare |-> {<<0, K>>}])
DispatchRecord ==
  Variants([connectorId |-> 1, sessionId |-> <<36>>, sentMs |-> 0, limitW |-> 74000,
            status |-> "Accepted", error |-> Null],
           [connectorId |-> 1..4, limitW |-> {0, 14005}, status |-> dispatch_status, error |-> {<<30>>}])
\* createFlexEventSchema
FlexEvent ==
  Variants([requestedBy |-> <<8>>, startsMs |-> 0, endsMs |-> 2 * Hour, capKw |-> 30 * K, reason |-> Null,
            status |-> "requested", createdMs |-> 0, respondedMs |-> Null],
           [endsMs |-> {1}, capKw |-> ZeroUpTo(100000), reason |-> {<<0>>, <<200>>}])
SessionReport ==
  Variants([energyKwh |-> 123456, cost |-> 21234, co2Kg |-> 17777, renewableShare |-> 4321,
            avgCarbonGPerKwh |-> 1804567, baselineCost |-> 31234, baselineCo2Kg |-> 27777,
            avoidedCo2Kg |-> K, costSaved |-> K, greenScore |-> 67 * K,
            windowMinCarbonGPerKwh |-> 900123, windowMaxCarbonGPerKwh |-> 3001234,
            verified |-> TRUE, carbonBasis |-> "forecast", computedMs |-> 0],
           [energyKwh |-> {0}, cost |-> {-5}, costSaved |-> {-4321}, avoidedCo2Kg |-> {-4321},
            renewableShare |-> {0, K}, greenScore |-> {0, 100 * K}, verified |-> {FALSE},
            carbonBasis |-> {"actual"}])

MadeFor(t) ==
  CASE t = "sites" -> ScenarioSite [] t = "chargers" -> ScenarioCharger
    [] t = "profiles" -> ScenarioDriver \cup ScenarioStaff \cup seedNetworkOperator
    [] t = "vehicles" -> ScenarioVehicle [] t = "connectors" -> SeededConnector
    [] t = "sessions" -> DeclaredInApp \cup openFromDefaults
    [] t = "meter_readings" -> Reading [] t = "grid_signals" -> Sample [] t = "plans" -> PlanRecord
    [] t = "dispatch_log" -> DispatchRecord [] t = "flex_events" -> FlexEvent
    [] t = "session_reports" -> SessionReport

Init ==
  /\ table \in Tables \ {"plan_schedules"}
  /\ object \in MadeFor(table)
  /\ now = 0 /\ changes = 0

-----------------------------------------------------------------------------
(* What the code changes about an object. *)

Changes(t, x) ==
  /\ table = t /\ changes < MaxChanges /\ changes' = changes + 1
  /\ object' = x /\ UNCHANGED table
SameTime == UNCHANGED now

\* PATCH /me, any of the three settings.
PatchesProfile ==
  /\ \E p \in Variants(object, [defaultMode |-> charging_mode, defaultDwellHours |-> UpTo(72),
                                defaultEnergyKwh |-> UpTo(500)]) : Changes("profiles", p)
  /\ SameTime

ChargerSeen ==
  /\ \E online \in BOOLEAN, vendor \in {object.vendor, <<20>>}, uncontrolled \in {object.uncontrolled, TRUE} :
       Changes("chargers", [object EXCEPT !.online = online, !.vendor = vendor,
                                          !.uncontrolled = uncontrolled, !.lastSeenMs = <<now>>])
  /\ SameTime

\* StatusNotification, of any connector number the schema takes; Start and StopTransaction.
ConnectorMoves ==
  /\ \/ \E status \in connector_status, c \in {object.connectorId, 0, 64} :
          Changes("connectors", [connectorId |-> c, status |-> status, updatedMs |-> now,
                                 sessionId |-> IF c = object.connectorId THEN object.sessionId ELSE Null])
     \/ \E s \in {Null, <<36>>} : Changes("connectors", [object EXCEPT !.sessionId = s, !.updatedMs = now])
  /\ SameTime

FlexAnswered ==
  /\ object.status \in {"requested", "accepted"} /\ object.endsMs > now
  /\ \E status \in {"accepted", "declined"} :
       Changes("flex_events", [object EXCEPT !.status = status, !.respondedMs = <<now>>])
  /\ SameTime

\* The charge point dates its messages itself, with a clock that may be off.
startTransaction ==
  /\ object.status = "pending"
  /\ \E ts \in {now, now - Hour, now + 2 * Hour}, register \in {0, 10} :
       Changes("sessions",
               [object EXCEPT !.transactionId = <<1001>>, !.status = "active", !.pluggedInMs = ts,
                  !.deadlineMs = IF object.deadlineIsDefault THEN ts + (object.deadlineMs - object.pluggedInMs) ELSE object.deadlineMs,
                  !.meterStartWh = <<register>>, !.lastMeterWh = <<register>>, !.energyDeliveredKwh = 0])
  /\ SameTime

\* Half a Wh, a fall of one Wh and a kW with four digits, which a charge point
\* of another make may report.
recordMeter ==
  /\ object.status = "active"
  /\ \E d \in {-10, 0, 5, 20000}, power \in {0, 74005} :
       LET register == object.lastMeterWh[1] + d IN
       Changes("sessions",
               [object EXCEPT !.lastMeterWh = <<register>>, !.currentPowerKw = RoundTo(power, 10),
                              !.energyDeliveredKwh = register - object.meterStartWh[1]])
  /\ SameTime

stopTransaction ==
  /\ object.transactionId # Null
  /\ \E stop \in {0, 10, 20010} :
       Changes("sessions",
               [object EXCEPT !.status = "complete", !.unpluggedMs = <<now>>, !.lastMeterWh = <<stop>>,
                              !.energyDeliveredKwh = Greater(0, stop - object.meterStartWh[1]),
                              !.currentPowerKw = 0, !.limitKw = Null])
  /\ SameTime

abandon ==
  /\ object.status = "active"
  /\ Changes("sessions", [object EXCEPT !.status = "aborted", !.unpluggedMs = <<now>>,
                                        !.currentPowerKw = 0, !.limitKw = Null])
  /\ SameTime

\* PATCH /sessions/:id, setLimit and setDeadlineRisk.
PatchesSession ==
  /\ object.status \in {"pending", "active"}
  /\ \/ \E deadline \in {now + Hour, now + 40 * Hour} :
          /\ Feasible(Greater(0, object.energyNeededKwh - object.energyDeliveredKwh),
                      object.maxPowerKw, now, deadline)
          /\ Changes("sessions", [object EXCEPT !.deadlineMs = deadline, !.deadlineIsDefault = FALSE])
     \/ \E energy \in UpTo(250) :
          /\ Feasible(Greater(0, energy - object.energyDeliveredKwh), object.maxPowerKw, now, object.deadlineMs)
          /\ Changes("sessions", [object EXCEPT !.energyNeededKwh = energy])
     \/ \E mode \in charging_mode : Changes("sessions", [object EXCEPT !.mode = mode])
  /\ SameTime
setLimit ==
  /\ \E limit \in {<<0>>, <<14010>>} : Changes("sessions", [object EXCEPT !.limitKw = limit])
  /\ SameTime
setDeadlineRisk ==
  /\ Changes("sessions", [object EXCEPT !.deadlineRisk = ~@])
  /\ SameTime

TimePasses ==
  /\ now < 10 * Hour /\ now' = now + 5 * Hour
  /\ table \in {"sessions", "flex_events", "chargers"}
  /\ UNCHANGED <<table, object, changes>>

Next ==
  \/ table = "profiles" /\ PatchesProfile
  \/ table = "chargers" /\ ChargerSeen
  \/ table = "connectors" /\ ConnectorMoves
  \/ table = "flex_events" /\ FlexAnswered
  \/ table = "sessions" /\ (startTransaction \/ recordMeter \/ stopTransaction \/ abandon
                              \/ PatchesSession \/ setLimit \/ setDeadlineRisk)
  \/ TimePasses

-----------------------------------------------------------------------------
(* Properties. *)

\* A session of the app whose car came after the deadline it was given.
StartedLate == table = "sessions" /\ object.deadlineMs <= object.pluggedInMs
\* A register that is no whole number of Wh, has fallen below its start, or a
\* state of charge beyond full.
OddReading ==
  \/ /\ table = "sessions"
     /\ object.energyDeliveredKwh < 0 \/ \E i \in DOMAIN object.lastMeterWh : object.lastMeterWh[i] % 10 # 0
  \/ table = "meter_readings" /\ \E i \in DOMAIN object.soc : object.soc[i] > K

\* Postgres takes every row the mirror writes, except where a number is too
\* small for its column's digits, a session began after its deadline, or a
\* charge point's reading is odd; and a restart reads back what was kept.
RecordsFit ==
  \A written \in RowsOf(table, object) :
    LET t == written[1]
        row == written[2]
    IN IF Takes(t, row)
       THEN t \in ReadBack => RowAgain(t, Kept(t, row)) = Kept(t, row)
       ELSE Vanishes(t, row) \/ StartedLate \/ OddReading
=============================================================================
