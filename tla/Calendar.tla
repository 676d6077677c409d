------------------------------- MODULE Calendar -----------------------------
(***************************************************************************)
(* A scenario's day, from the file to the cars that come and go: what is   *)
(* accepted as a scenario, the local times it is written in and the        *)
(* instants they become where clocks are put forward or back, its move to  *)
(* another day, the server's clock and the simulator's copy of it, and the *)
(* day that is played over and over.  What a car does at its bay is        *)
(* SimulatedBay's.                                                         *)
(*                                                                         *)
(* Instants and local times are numbers of one unit, which is longer than  *)
(* the minute two clocks may differ by; a local time is its day's number   *)
(* times DayLength and the time of day.                                    *)
(***************************************************************************)
EXTENDS Integers, Sequences, FiniteSets, FiniteSetsExt

CONSTANTS
  Scenarios,   \* the files: [timezone, day, simStart, chargers, drivers, vehicles, arrivals]
  DayLength,
  Targets,     \* days a scenario may be moved to
  SimStarts,   \* [how, at]: what SIM_START may say
  Scales,
  Jumps,       \* instants an operator may set the clock to
  MaxReal, MaxControls, MaxSyncs, MaxDays

VARIABLES
  stage,        \* "file", "refused", "accepted", "moved", "playing" or "over"
  scenario,
  written,      \* history: the scenario as it was accepted
  repeats,      \* --loop
  realNow,
  clock,        \* the server's: [kind, sim, real, scale]
  ownClock,     \* the simulator's
  sync,         \* the clock as the server answered, or NoAnswer
  timeShown,    \* history: the latest time the server has shown since a jump
  arrivals,     \* resolved: arrival -> [arriveMs, departMs, deadlineMs]
  pluggedIn, unplugged,
  day, dayBegan,   \* the day that is played, and when it was begun
  came,         \* history: the arrivals that came, with their day
  controls, syncs

calendarVars ==
  <<stage, scenario, written, repeats, realNow, clock, ownClock, sync, timeShown, arrivals,
    pluggedIn, unplugged, day, dayBegan, came, controls, syncs>>
playVars == <<arrivals, pluggedIn, unplugged, day, dayBegan, came>>

NoAnswer == [nowMs |-> 0, scale |-> 0]
NoClock == [kind |-> "none", sim |-> 0, real |-> 0, scale |-> 0]
Larger(a, b) == IF a > b THEN a ELSE b
CeilDiv(a, b) == -((-a) \div b)

-----------------------------------------------------------------------------
(* Time zones: an offset, which changes once at most in the time of interest. *)

timeZoneOffset(t, zone) == IF t < zone.at THEN zone.before ELSE zone.after
wallClockAt(t, zone) == t + timeZoneOffset(t, zone)
\* Slip: the offset at the local time read as UTC is taken.
zonedTimeByOneGuess(local, zone) == local - timeZoneOffset(local, zone)
\* The offset there is at the instant the first guess names.
zonedTimeToUtc(local, zone) ==
  LET guess == local - timeZoneOffset(local, zone) IN local - timeZoneOffset(guess, zone)
localDateOf(t, zone) == wallClockAt(t, zone) \div DayLength
shiftLocalDateTime(local, days) == local + days * DayLength

-----------------------------------------------------------------------------
(* Scenarios. *)

Ids(s) == {s[i].id : i \in DOMAIN s}
Called(s, id) == s[CHOOSE i \in DOMAIN s : s[i].id = id]
duplicates(values) == \E i, j \in DOMAIN values : i # j /\ values[i] = values[j]

\* Slip: the deadline is not looked at.
ArrivalFitsButDeadline(s, a) ==
  /\ a.chargerId \in Ids(s.chargers) /\ a.connectorId <= Called(s.chargers, a.chargerId).connectors
  /\ a.driverId \in Ids(s.drivers)
  /\ a.vehicleId \in Ids(s.vehicles) /\ Called(s.vehicles, a.vehicleId).driverId = a.driverId
  /\ a.departAt > a.arriveAt
ArrivalFits(s, a) ==
  /\ a.chargerId \in Ids(s.chargers) /\ a.connectorId <= Called(s.chargers, a.chargerId).connectors
  /\ a.driverId \in Ids(s.drivers)
  /\ a.vehicleId \in Ids(s.vehicles) /\ Called(s.vehicles, a.vehicleId).driverId = a.driverId
  /\ a.departAt > a.arriveAt
  /\ a.deadlineAt > a.arriveAt

scenarioSchema(s) ==
  /\ s.timezone.known
  /\ \A part \in {s.chargers, s.drivers, s.vehicles, s.arrivals} : ~duplicates([i \in DOMAIN part |-> part[i].id])
  /\ ~duplicates([i \in DOMAIN s.chargers |-> s.chargers[i].ocppIdentity])
  /\ ~duplicates([i \in DOMAIN s.drivers |-> s.drivers[i].idTag])
  /\ \A i \in DOMAIN s.vehicles : s.vehicles[i].driverId \in Ids(s.drivers)
  /\ \A i \in DOMAIN s.arrivals : ArrivalFits(s, s.arrivals[i])

arrivalLater(a, days) ==
  [a EXCEPT !.arriveAt = shiftLocalDateTime(@, days), !.departAt = shiftLocalDateTime(@, days),
            !.deadlineAt = shiftLocalDateTime(@, days)]
rebaseScenario(s, target) ==
  LET days == target - s.day IN
  [s EXCEPT !.day = target, !.simStart = shiftLocalDateTime(@, days),
            !.arrivals = [i \in DOMAIN s.arrivals |-> arrivalLater(s.arrivals[i], days)]]

resolveArrivals(s) ==
  [id \in Ids(s.arrivals) |->
     LET a == Called(s.arrivals, id) IN
     [arriveMs |-> zonedTimeToUtc(a.arriveAt, s.timezone), departMs |-> zonedTimeToUtc(a.departAt, s.timezone),
      deadlineMs |-> zonedTimeToUtc(a.deadlineAt, s.timezone)]]
scenarioStartMs(s) == zonedTimeToUtc(s.simStart, s.timezone)

-----------------------------------------------------------------------------
(* What the constants are taken to be. *)

Zones == [before : Int, after : Int, at : Int, known : BOOLEAN]
Arrivals ==
  [id : STRING, chargerId : STRING, connectorId : Nat, driverId : STRING, vehicleId : STRING,
   arriveAt : Int, departAt : Int, deadlineAt : Int]
IsFile(s) ==
  /\ DOMAIN s = {"timezone", "day", "simStart", "chargers", "drivers", "vehicles", "arrivals"}
  /\ s.timezone \in Zones /\ s.day \in Int /\ s.simStart \in Int
  /\ IsFiniteSet(DOMAIN s.arrivals) /\ \A i \in DOMAIN s.arrivals : s.arrivals[i] \in Arrivals

\* Days a file may be moved to.
TargetDays(s) ==
  Targets \cup {s.day} \cup {localDateOf(t, s.timezone) : t \in 0..MaxReal}

\* Instants count from 1970: nobody leaves before.
ASSUME CalendarAssumption ==
  /\ DayLength \in Nat \ {0} /\ Scales \subseteq Nat \ {0} /\ Targets \subseteq Int /\ Jumps \subseteq Int
  /\ {MaxReal, MaxControls, MaxSyncs, MaxDays} \subseteq Nat
  /\ SimStarts \subseteq [how : {"scenario", "real", "now", "local", "instant"}, at : Int]
  /\ \A s \in Scenarios :
       /\ IsFile(s)
       /\ scenarioSchema(s) =>
            \A target \in TargetDays(s) : \A id \in Ids(s.arrivals) :
              resolveArrivals(rebaseScenario(s, target))[id].departMs >= 0

-----------------------------------------------------------------------------
(* Clocks. *)

NowOf(c) == IF c.kind = "system" THEN realNow ELSE c.sim + (realNow - c.real) * c.scale
SimClock(start, scale) == [kind |-> "sim", sim |-> start, real |-> realNow, scale |-> scale]
SystemClock == [kind |-> "system", sim |-> 0, real |-> 0, scale |-> 1]
\* Slip: the time that has passed counts at the new scale.
setScaleInPlace(c, scale) == [c EXCEPT !.scale = scale]
setScale(c, scale) == SimClock(NowOf(c), scale)
jumpTo(c, t) == SimClock(t, c.scale)

\* What SIM_START says; "real" and "" are refused where a scale is asked for.
resolveStartMs(start) ==
  CASE start.how = "scenario" -> scenarioStartMs(scenario) [] start.how = "now" -> realNow
    [] start.how = "local" -> zonedTimeToUtc(start.at, scenario.timezone) [] start.how = "instant" -> start.at
createClock(start, scale) ==
  IF scale = 1 /\ start.how = "real" THEN SystemClock ELSE SimClock(resolveStartMs(start), scale)

-----------------------------------------------------------------------------
CalendarInit ==
  /\ stage = "file" /\ scenario \in Scenarios /\ written = scenario
  /\ repeats \in BOOLEAN
  /\ realNow = 0 /\ clock = NoClock /\ ownClock = NoClock /\ sync = NoAnswer /\ timeShown = 0
  /\ arrivals = <<>> /\ pluggedIn = {} /\ unplugged = {} /\ day = 1 /\ dayBegan = 0 /\ came = {}
  /\ controls = 0 /\ syncs = 0

parseScenario ==
  /\ stage = "file"
  /\ stage' = IF scenarioSchema(scenario) THEN "accepted" ELSE "refused"
  /\ UNCHANGED <<scenario, written, repeats, realNow, clock, ownClock, sync, timeShown, playVars, controls, syncs>>

\* The server starts; it reads the file as it is.
StartServer ==
  /\ stage = "accepted" /\ clock = NoClock
  /\ \E start \in SimStarts, scale \in Scales :
       /\ start.how = "real" => scale = 1
       /\ clock' = createClock(start, scale)
       /\ timeShown' = IF clock'.kind = "system" THEN realNow ELSE clock'.sim
  /\ UNCHANGED <<stage, scenario, written, repeats, realNow, ownClock, sync, playVars, controls, syncs>>

\* The simulator's own copy of the file, moved to another day, or to today, if that is asked for.
loadScenario ==
  /\ stage = "accepted" /\ clock # NoClock
  /\ stage' = "moved"
  /\ \E target \in Targets \cup {scenario.day, localDateOf(realNow, scenario.timezone)} :
       scenario' = rebaseScenario(scenario, target)
  /\ UNCHANGED <<written, repeats, realNow, clock, ownClock, sync, timeShown, playVars, controls, syncs>>

\* GET /clock, whose answer is on its way while time goes on.
fetchClock ==
  /\ stage \in {"moved", "playing"} /\ sync = NoAnswer /\ syncs < MaxSyncs
  /\ syncs' = syncs + 1
  /\ sync' = [nowMs |-> NowOf(clock), scale |-> clock.scale]
  /\ timeShown' = Larger(timeShown, NowOf(clock))
  /\ UNCHANGED <<stage, scenario, written, repeats, realNow, clock, ownClock, playVars, controls>>

lastDepartMs(a) == Max({0} \cup {a[id].departMs : id \in DOMAIN a})
\* Slip: whoever is there leaves at once.
departedOrHere(a, now) == {id \in DOMAIN a : a[id].arriveMs <= now}
\* Those whose stay is over do not come on the first day.
departedBy(a, now) == {id \in DOMAIN a : a[id].departMs <= now}

\* The simulator's start, up to its loop.
Begin ==
  /\ stage = "moved" /\ sync # NoAnswer
  /\ stage' = "playing"
  /\ ownClock' = SimClock(sync.nowMs, sync.scale) /\ sync' = NoAnswer
  /\ arrivals' = resolveArrivals(scenario)
  /\ pluggedIn' = departedBy(arrivals', sync.nowMs) /\ unplugged' = pluggedIn'
  /\ dayBegan' = sync.nowMs
  /\ UNCHANGED <<scenario, written, repeats, realNow, clock, timeShown, day, came, controls, syncs>>

\* The clock is set when it is off by more than a minute, its speed when it is another.
resync ==
  /\ stage = "playing" /\ sync # NoAnswer
  /\ LET set == IF NowOf(ownClock) # sync.nowMs THEN jumpTo(ownClock, sync.nowMs) ELSE ownClock
     IN ownClock' = IF set.scale # sync.scale THEN setScale(set, sync.scale) ELSE set
  /\ sync' = NoAnswer
  /\ UNCHANGED <<stage, scenario, written, repeats, realNow, clock, timeShown, playVars, controls, syncs>>

\* Slip: the day is moved by a day, however far the clock has run on.
replayNextDay(a, now) ==
  [id \in DOMAIN a |-> [a[id] EXCEPT !.arriveMs = @ + DayLength, !.departMs = @ + DayLength]]
replayAfter(a, now) ==
  LET days == Larger(1, CeilDiv(now - lastDepartMs(a), DayLength))
  IN [id \in DOMAIN a |-> [a[id] EXCEPT !.arriveMs = @ + days * DayLength, !.departMs = @ + days * DayLength]]

\* One pass of the loop: cars come, cars go, and when all have gone the day begins anew.
Tick ==
  /\ stage = "playing"
  /\ LET now == NowOf(ownClock)
         arriving == {id \in DOMAIN arrivals \ pluggedIn : now >= arrivals[id].arriveMs}
         leaving == {id \in (pluggedIn \cup arriving) \ unplugged : now >= arrivals[id].departMs}
         over == unplugged \cup leaving = DOMAIN arrivals /\ now > lastDepartMs(arrivals)
     IN /\ arriving # {} \/ leaving # {} \/ over
        /\ came' = came \cup {[id |-> id, day |-> day] : id \in arriving}
        /\ IF over /\ repeats
           THEN /\ day < MaxDays /\ day' = day + 1 /\ dayBegan' = now
                /\ arrivals' = replayAfter(arrivals, now)
                /\ pluggedIn' = {} /\ unplugged' = {}
           ELSE /\ pluggedIn' = pluggedIn \cup arriving /\ unplugged' = unplugged \cup leaving
                /\ UNCHANGED <<arrivals, day, dayBegan>>
        /\ stage' = IF over /\ ~repeats THEN "over" ELSE stage
  /\ UNCHANGED <<scenario, written, repeats, realNow, clock, ownClock, sync, timeShown, controls, syncs>>

\* POST /admin/clock, which a shared demo refuses: a new time, a new scale or both.
SetClock ==
  /\ clock.kind = "sim" /\ controls < MaxControls
  /\ controls' = controls + 1
  /\ \/ \E t \in Jumps : clock' = jumpTo(clock, t) /\ timeShown' = t
     \/ \E scale \in Scales : clock' = setScale(clock, scale) /\ UNCHANGED timeShown
     \/ \E t \in Jumps, scale \in Scales : clock' = setScale(SimClock(t, clock.scale), scale) /\ timeShown' = t
  /\ UNCHANGED <<stage, scenario, written, repeats, realNow, ownClock, sync, playVars, syncs>>

TimePasses ==
  /\ clock # NoClock /\ realNow < MaxReal
  /\ realNow' = realNow + 1
  /\ timeShown' = Larger(timeShown, NowOf(clock))
  /\ UNCHANGED <<stage, scenario, written, repeats, clock, ownClock, sync, playVars, controls, syncs>>

CalendarNext ==
  \/ parseScenario \/ StartServer \/ loadScenario \/ fetchClock \/ Begin \/ resync \/ Tick
  \/ SetClock \/ TimePasses

CalendarSpec == CalendarInit /\ [][CalendarNext]_calendarVars

-----------------------------------------------------------------------------
(* Properties. *)

\* A local time that exists is read as an instant that shows it; one that is left out when clocks
\* go forward shows as much later (east of Greenwich) or earlier (west) as they are put forward.
InGap(local, zone) ==
  zone.before < zone.after /\ local \in zone.at + zone.before..zone.at + zone.after - 1
LocalTimeKept ==
  stage # "file" /\ scenario.timezone.known =>
    \A local \in 0..2 * DayLength :
      LET zone == scenario.timezone
          shows == wallClockAt(zonedTimeToUtc(local, zone), zone)
          forward == zone.after - zone.before
      IN shows \in IF InGap(local, zone) THEN {local - forward, local + forward} ELSE {local}

\* Whoever an accepted scenario brings comes before leaving and before the deadline, also on
\* another day, unless the clocks going forward leave out one of these times; and keeps the times
\* of day.
EveryStayIsOne ==
  stage \in {"moved", "playing"} =>
    \A id \in Ids(scenario.arrivals) :
      LET a == Called(scenario.arrivals, id)
          was == Called(written.arrivals, id)
          r == resolveArrivals(scenario)[id]
      IN /\ ~InGap(a.arriveAt, scenario.timezone) =>
              /\ ~InGap(a.departAt, scenario.timezone) => r.arriveMs < r.departMs
              /\ ~InGap(a.deadlineAt, scenario.timezone) => r.arriveMs < r.deadlineMs
         /\ a.arriveAt % DayLength = was.arriveAt % DayLength
         /\ a.departAt - a.arriveAt = was.departAt - was.arriveAt

\* The server's clock goes back only when it is set back.
NeverBack == clock # NoClock => NowOf(clock) >= timeShown

\* A day that is played again is moved by whole days, and somebody, if anybody comes, is still
\* to leave in it.
ReplayIsAhead ==
  day > 1 =>
    /\ DOMAIN arrivals # {} => lastDepartMs(arrivals) >= dayBegan
    /\ \A id \in DOMAIN arrivals : (arrivals[id].arriveMs - resolveArrivals(scenario)[id].arriveMs) % DayLength = 0

\* On the first day those come whose stay was not over when the simulator began, and no others.
WhoIsDueComes ==
  /\ day = 1 => \A c \in came : arrivals[c.id].departMs > dayBegan
  /\ day = 1 /\ stage \in {"playing", "over"} =>
       \A id \in unplugged : arrivals[id].departMs > dayBegan => \E c \in came : c.id = id

DayIsSound == LocalTimeKept /\ EveryStayIsOne /\ NeverBack /\ ReplayIsAhead /\ WhoIsDueComes

\* "Move the whole day forward" (runner.ts): everything of it.
WholeDayMoves ==
  stage = "playing" =>
    LET first == resolveArrivals(scenario) IN
    \A id \in DOMAIN arrivals :
      arrivals[id].deadlineMs - arrivals[id].arriveMs = first[id].deadlineMs - first[id].arriveMs
=============================================================================
