----------------------------- MODULE SimulatedBay ---------------------------
(***************************************************************************)
(* One simulated charge point and the scenario runner that drives it       *)
(* (apps/simulator), against the central system it talks to.               *)
(* plugIn and unplug are coroutines: each awaits one CALL after the other, *)
(* on a connection that sends one at a time, and up to three of them run   *)
(* at once: the runner's own, one opened by a remote start, one by a       *)
(* remote stop.                                                            *)
(***************************************************************************)
EXTENDS Integers, Sequences, FiniteSets, FiniteSetsExt

CONSTANTS
  Cars,             \* arrivals at this bay, in order: 1, 2, ...
  AppCars,          \* those whose driver declares in the app first
  UnknownCars,      \* those whose tag the server does not accept
  Arrive, Depart,   \* car -> time
  Room,             \* car -> energy its battery still takes
  MaxPower, Share,  \* the charger's power, and its TxDefaultProfile
  Limits,           \* limits a transaction profile may set
  ProfileTime,      \* how long a profile lasts
  MaxTick,          \* MAX_TICK_MS
  MaxNow, MaxBayFaults

BayAssumption ==
  /\ Cars = 1..Cardinality(Cars) /\ AppCars \cup UnknownCars \subseteq Cars
  /\ Arrive \in [Cars -> 0..MaxNow] /\ Depart \in [Cars -> 0..MaxNow]
  /\ \A c \in Cars : Arrive[c] < Depart[c]
  /\ \A c, d \in Cars : c < d => Depart[c] <= Arrive[d]
  /\ Room \in [Cars -> Nat]
  /\ Limits \subseteq 0..MaxPower
  /\ {MaxPower, Share, ProfileTime, MaxTick, MaxNow, MaxBayFaults} \subseteq Nat

VARIABLES
  now,
  loop,         \* the runner: [at, car]
  plugged,      \* pluggedIn
  gone,         \* unplugged
  routines,     \* routine -> the CALL it awaits, its car, transaction, begin and reading
  bayCalls,     \* the connection's queue, as the routines that wait on it
  transaction,  \* what the charger holds, or NoTransaction
  register,     \* meterRegister
  default,      \* defaultProfile is installed
  server,       \* [active, lastTx, meter]: the bay as the server sees it
  opened,       \* history: car -> transactions the server opened for it
  bayFaults

bayVars == <<now, loop, plugged, gone, routines, bayCalls, transaction, register,
          default, server, opened, bayFaults>>

Routines == {"runner", "remote start", "remote stop"}
Resting == [at |-> "idle", car |-> 0, tx |-> 0, since |-> 0, reading |-> 0]
NoProfile == [limit |-> 0, from |-> 0, until |-> -1]
NoTransaction == [id |-> 0, car |-> 0, energy |-> 0, drawn |-> 0, lastTick |-> 0,
                  profile |-> NoProfile]

BayInit ==
  /\ now = 0
  /\ loop = [at |-> "scan", car |-> 0]
  /\ plugged = {} /\ gone = {}
  /\ routines = [r \in Routines |-> Resting]
  /\ bayCalls = <<>>
  /\ transaction = NoTransaction
  /\ register = 0
  /\ default = FALSE
  /\ server = [active |-> 0, lastTx |-> 0, meter |-> 0]
  /\ opened = [c \in Cars |-> 0]
  /\ bayFaults = 0

IsCharging == transaction.id # 0
Running == loop.at # "exited"

(***************************************************************************)
(* The physics: tick, profileLimitW, deliveredPowerKw, chargeVehicle.      *)
(***************************************************************************)
ProfileLimit(t, safe) ==
  IF t.profile # NoProfile /\ now \in t.profile.from..t.profile.until
  THEN t.profile.limit
  ELSE IF safe THEN Share ELSE MaxPower

TickedUnder(t, safe) ==
  LET elapsed == Min({now - t.lastTick, MaxTick})
      energy == IF elapsed <= 0 THEN 0
                ELSE Min({Room[t.car] - t.drawn, Min({MaxPower, ProfileLimit(t, safe)}) * elapsed})
  IN [t EXCEPT !.energy = @ + energy, !.drawn = @ + energy, !.lastTick = now]

Ticked(t) == TickedUnder(t, default)

(***************************************************************************)
(* The coroutines.  A routine asks, waits in the queue, and goes on with   *)
(* the answer.  What a CALL says is what was so when it was put there.     *)
(***************************************************************************)
At(r, at) == routines[r].at = at
InFlight(r) == bayCalls # <<>> /\ Head(bayCalls) = r
Asks(r, on) ==
  /\ routines' = [routines EXCEPT ![r] = on]
  /\ bayCalls' = Append(Tail(bayCalls), r)
Goes(r, at) == Asks(r, [routines[r] EXCEPT !.at = at])
Begins(r, first) ==
  /\ routines' = [routines EXCEPT ![r] = first]
  /\ bayCalls' = Append(bayCalls, r)
Returns(r) ==
  /\ routines' = [routines EXCEPT ![r] = Resting]
  /\ bayCalls' = Tail(bayCalls)

\* Slip: only a car that is gone sends the runner on.
AwaitedUntilGone(r, done) ==
  /\ loop' = IF r = "runner" /\ done # {} THEN [at |-> "scan", car |-> 0] ELSE loop
  /\ gone' = IF r = "runner" THEN gone \cup done ELSE gone

\* The runner's loop goes on when its own routine returns.
Awaited(r, done) ==
  /\ loop' = IF r = "runner" THEN [at |-> "scan", car |-> 0] ELSE loop
  /\ gone' = IF r = "runner" THEN gone \cup done ELSE gone

Fault == bayFaults < MaxBayFaults /\ bayFaults' = bayFaults + 1

\* status(..., 'Preparing'), then Authorize, then StartTransaction.
Plugging(c) == [Resting EXCEPT !.at = "preparing", !.car = c, !.since = now]

Prepared(r) ==
  /\ InFlight(r) /\ At(r, "preparing")
  /\ Goes(r, "authorising")
  /\ UNCHANGED <<now, loop, plugged, gone, transaction, register, default, server, opened, bayFaults>>

Authorised(r) ==
  /\ InFlight(r) /\ At(r, "authorising")
  /\ IF routines[r].car \in UnknownCars THEN Goes(r, "refused")
     ELSE Asks(r, [routines[r] EXCEPT !.at = "starting", !.reading = register])
  /\ UNCHANGED <<now, loop, plugged, gone, transaction, register, default, server, opened, bayFaults>>

\* plugIn returned null: the runner counts the car as gone.
Refused(r) ==
  /\ InFlight(r) /\ At(r, "refused")
  /\ Returns(r)
  /\ Awaited(r, {routines[r].car})
  /\ UNCHANGED <<now, plugged, transaction, register, default, server, opened, bayFaults>>

\* The server opens a transaction and gives up the one that was open here.
ServerStarts(r) ==
  /\ server' = [active |-> server.lastTx + 1, lastTx |-> server.lastTx + 1,
                meter |-> routines[r].reading]
  /\ opened' = [opened EXCEPT ![routines[r].car] = @ + 1]

\* Time is counted from when the car was plugged in.
StartAnswered(r) ==
  /\ InFlight(r) /\ At(r, "starting")
  /\ ServerStarts(r)
  /\ transaction' = [id |-> server.lastTx + 1, car |-> routines[r].car, energy |-> register,
                     drawn |-> 0, lastTick |-> routines[r].since, profile |-> NoProfile]
  /\ Goes(r, "charging")
  /\ UNCHANGED <<now, loop, plugged, gone, register, default, bayFaults>>

\* sendMeterValues; the server keeps the last reading of the transaction that is active.  (It would
\* ignore one that falls by more than a Wh; none does.)
Meter(at, car) ==
  [Resting EXCEPT !.at = at, !.car = car, !.tx = transaction.id, !.reading = transaction.energy]
Metered(r) ==
  \/ server' = [server EXCEPT !.meter = IF server.active = routines[r].tx THEN routines[r].reading
                                        ELSE @] /\ UNCHANGED bayFaults
  \/ Fault /\ UNCHANGED server

ToldCharging(r) ==
  /\ InFlight(r) /\ At(r, "charging")
  /\ IF IsCharging THEN Asks(r, Meter("metering", routines[r].car)) /\ UNCHANGED <<loop, gone>>
     ELSE Returns(r) /\ Awaited(r, {})
  /\ UNCHANGED <<now, plugged, transaction, register, default, server, opened, bayFaults>>

MeterTaken(r) ==
  /\ InFlight(r) /\ At(r, "metering")
  /\ Metered(r)
  /\ Returns(r) /\ Awaited(r, {})
  /\ UNCHANGED <<now, plugged, transaction, register, default, opened>>

\* The energy of the transaction the routine unplugs.
Energy(r) == IF transaction.id = routines[r].tx THEN transaction.energy ELSE register

\* unplug: a last reading, then StopTransaction, then the bay is free.
LastMeterTaken(r) ==
  /\ InFlight(r) /\ At(r, "last meter")
  /\ Metered(r)
  /\ Asks(r, [routines[r] EXCEPT !.at = "stopping", !.reading = Energy(r)])
  /\ UNCHANGED <<now, loop, plugged, gone, transaction, register, default, opened>>

ServerStops(r) ==
  server' = IF server.active = routines[r].tx
            THEN [server EXCEPT !.active = 0, !.meter = routines[r].reading] ELSE server

Stopped(r) ==
  /\ InFlight(r) /\ At(r, "stopping")
  /\ ServerStops(r)
  /\ register' = Energy(r)
  /\ transaction' = NoTransaction
  /\ Goes(r, "available")
  /\ UNCHANGED <<now, loop, plugged, gone, default, opened, bayFaults>>

ToldAvailable(r) ==
  /\ InFlight(r) /\ At(r, "available")
  /\ Returns(r) /\ Awaited(r, {})
  /\ UNCHANGED <<now, plugged, transaction, register, default, server, opened, bayFaults>>

Answered(r) ==
  \/ Prepared(r) \/ Authorised(r) \/ Refused(r) \/ StartAnswered(r) \/ ToldCharging(r)
  \/ MeterTaken(r) \/ LastMeterTaken(r) \/ Stopped(r) \/ ToldAvailable(r)

Dead == [at |-> "dead", car |-> 0]
Exited == [at |-> "exited", car |-> 0]

\* A CALL fails, or its answer is lost.  Failed statuses and readings are logged and passed over; so
\* is the failure of a remote start.  That of the runner's own routine ends its day, while the
\* charger stays; that of an unplugging nobody awaits ends the process, with all that waits in it.
CallFails(r) ==
  /\ InFlight(r) /\ Fault
  /\ routines[r].at \in {"authorising", "starting", "stopping"}
  /\ \/ UNCHANGED <<server, opened>>
     \/ At(r, "starting") /\ ServerStarts(r)
     \/ At(r, "stopping") /\ ServerStops(r) /\ UNCHANGED opened
  /\ IF r = "remote stop"
     THEN loop' = Exited /\ routines' = [q \in Routines |-> Resting] /\ bayCalls' = <<>>
     ELSE Returns(r) /\ loop' = IF r = "runner" THEN Dead ELSE loop
  /\ UNCHANGED <<now, plugged, gone, transaction, register, default>>

(***************************************************************************)
(* The runner.                                                             *)
(***************************************************************************)
Scanning == loop.at = "scan" /\ At("runner", "idle")
Due(c) == c \notin plugged /\ now >= Arrive[c]
Leaving(c) == c \in plugged \ gone /\ now >= Depart[c]
FirstDue(c) == \A d \in Cars : d < c => ~Due(d) /\ ~Leaving(d)

PlugIn(c) == Begins("runner", Plugging(c))

\* arrive, for a car without the app.
ArriveWithCard(c) ==
  /\ Scanning /\ c \in Cars \ AppCars /\ Due(c) /\ FirstDue(c)
  /\ plugged' = plugged \cup {c}
  /\ loop' = [at |-> "busy", car |-> c]
  /\ PlugIn(c)
  /\ UNCHANGED <<now, gone, transaction, register, default, server, opened, bayFaults>>

\* arrive: declareIntent.  The server opens a session, which it refuses while one
\* is active here, and asks an idle charger to start.  A request that fails ends the day.
ArriveWithApp(c) ==
  /\ Scanning /\ c \in AppCars /\ Due(c) /\ FirstDue(c)
  /\ plugged' = plugged \cup {c}
  /\ \/ loop' = [at |-> "waiting", car |-> c] /\ UNCHANGED bayFaults
     \/ loop' = Dead /\ Fault
  /\ IF server.active = 0 /\ ~IsCharging /\ At("remote start", "idle")
     THEN Begins("remote start", Plugging(c)) ELSE UNCHANGED <<routines, bayCalls>>
  /\ UNCHANGED <<now, gone, transaction, register, default, server, opened>>

\* Slip: the runner does not wait for a remote start to show.
SeesOrGivesUpAtOnce ==
  /\ loop.at = "waiting"
  /\ loop' = [loop EXCEPT !.at = "busy"] /\ PlugIn(loop.car)
  /\ UNCHANGED <<now, plugged, gone, transaction, register, default, server, opened, bayFaults>>

\* waitForCharging: a transaction shows up, or the start that was asked for has
\* come to nothing.  A start is taken to need less than the 400 ms it is given.
SeesOrGivesUp ==
  /\ loop.at = "waiting"
  /\ IF IsCharging
     THEN loop' = [at |-> "scan", car |-> 0] /\ UNCHANGED <<routines, bayCalls>>
     ELSE /\ At("remote start", "idle")
          /\ loop' = [loop EXCEPT !.at = "busy"] /\ PlugIn(loop.car)
  /\ UNCHANGED <<now, plugged, gone, transaction, register, default, server, opened, bayFaults>>

\* depart, and the unplug it awaits.
DepartCar(c) ==
  /\ Scanning /\ Leaving(c) /\ FirstDue(c)
  /\ gone' = gone \cup {c}
  /\ IF IsCharging
     THEN /\ transaction' = Ticked(transaction)
          /\ loop' = [at |-> "busy", car |-> c]
          /\ Begins("runner", [Meter("last meter", c) EXCEPT !.reading = Ticked(transaction).energy])
     ELSE UNCHANGED <<transaction, loop, routines, bayCalls>>
  /\ UNCHANGED <<now, plugged, register, default, server, opened, bayFaults>>

\* pump, on a pass over the arrivals that found nothing to do; the reading that
\* is due is awaited as well.
PumpBay ==
  /\ Scanning /\ IsCharging /\ transaction.lastTick < now
  /\ \A c \in Cars : ~Due(c) /\ ~Leaving(c)
  /\ transaction' = Ticked(transaction)
  /\ loop' = [at |-> "busy", car |-> transaction.car]
  /\ Begins("runner", [Meter("metering", transaction.car) EXCEPT !.reading = Ticked(transaction).energy])
  /\ UNCHANGED <<now, plugged, gone, register, default, server, opened, bayFaults>>

(***************************************************************************)
(* Commands of the central system.                                         *)
(***************************************************************************)
\* SetChargingProfile: the limit is in place before the tick that follows.
SetProfile(limit) ==
  /\ Running /\ IsCharging /\ server.active = transaction.id
  /\ transaction' = Ticked([transaction EXCEPT
       !.profile = [limit |-> limit, from |-> now, until |-> now + ProfileTime]])
  /\ UNCHANGED <<now, loop, plugged, gone, routines, bayCalls, register, default, server, opened, bayFaults>>

\* The default is in place before the tick as well.
SetDefault ==
  /\ Running /\ ~default
  /\ default' = TRUE
  /\ transaction' = IF IsCharging THEN TickedUnder(transaction, TRUE) ELSE transaction
  /\ UNCHANGED <<now, loop, plugged, gone, routines, bayCalls, register, server, opened, bayFaults>>

ClearProfile ==
  /\ Running /\ IsCharging /\ transaction.profile # NoProfile
  /\ transaction' = [transaction EXCEPT !.profile = NoProfile]
  /\ UNCHANGED <<now, loop, plugged, gone, routines, bayCalls, register, default, server, opened, bayFaults>>

\* RemoteStopTransaction, from the driver's app; nobody is so fast that a waiting
\* runner, which looks every 50 ms, has not seen the transaction.
RemoteStop ==
  /\ Running /\ loop.at # "waiting" /\ At("remote stop", "idle")
  /\ IsCharging /\ server.active = transaction.id
  /\ transaction' = Ticked(transaction)
  /\ Begins("remote stop",
            [Meter("last meter", transaction.car) EXCEPT !.reading = Ticked(transaction).energy])
  /\ UNCHANGED <<now, loop, plugged, gone, register, default, server, opened, bayFaults>>

\* The clock runs, or is set ahead.
Advance ==
  /\ now < MaxNow
  /\ now' = now + 1
  /\ UNCHANGED <<loop, plugged, gone, routines, bayCalls, transaction, register, default,
                 server, opened, bayFaults>>

BayNext ==
  \/ \E r \in Routines : Answered(r) \/ CallFails(r)
  \/ \E c \in Cars : ArriveWithCard(c) \/ ArriveWithApp(c) \/ DepartCar(c)
  \/ SeesOrGivesUp \/ PumpBay
  \/ \E limit \in Limits : SetProfile(limit)
  \/ SetDefault \/ ClearProfile \/ RemoteStop \/ Advance

LoopGoesOn ==
  \/ \E c \in Cars : ArriveWithCard(c) \/ ArriveWithApp(c) \/ DepartCar(c)
  \/ SeesOrGivesUp \/ PumpBay
BayCallSettles == \E r \in Routines : Answered(r) \/ CallFails(r)

\* The CALL in flight is answered or fails, the loop's timer fires and time passes.
BayFairness == WF_bayVars(BayCallSettles) /\ WF_bayVars(LoopGoesOn) /\ WF_bayVars(Advance)

BaySpec == BayInit /\ [][BayNext]_bayVars /\ BayFairness

(***************************************************************************)
(* Properties.                                                             *)
(***************************************************************************)
\* "The car is already on the cable and plugging it in again would open a second
\* transaction" (runner.ts): as long as no CALL fails, the server opens at most
\* one for every arrival, however the app's remote start and the runner's own
\* plugIn fall together.
OneTransactionPerCar ==
  bayFaults = 0 => \A c \in Cars : opened[c] <= 1

\* That, and the register the server reads never falls, within a transaction or from one to the
\* next, also when CALLs fail: a report of readings that fall is refused (emissions.ts).
BayIsTold == [][OneTransactionPerCar' /\ server'.meter >= server.meter]_bayVars

\* The day is over: every car has come and gone, and nobody is left on the cable
\* (loop, depart, unplug).
DayIsOver == gone = Cars /\ ~IsCharging /\ server.active = 0
=============================================================================
