# CleanGrid EV: a verification project

TLA+ modules of the parts of CleanGrid EV that decide who charges, when and how
fast, of those that keep the books about it, and of the programs at the other
end of the server. TLC checks them on small instances; of nine of them TLAPS
proves the invariants for every value of the constants, and of one that it
implements an abstract specification.

    tlc -config OcppRpc.cfg MCOcppRpc.tla      # check one run
    tlapm OcppRpcProofs.tla                    # check the proofs of a module

`PROJECT.json` lists the runs, the line of the source behind every definition,
the hazards, the findings and the theorems.

## The system

One Node process serves several sites. Chargers (or the simulator's charge
points) hold a WebSocket each; drivers and operators use a REST API, and the
operators' pages a second kind of WebSocket; an in-process event bus ties the
services together; Postgres, if configured, is a write-behind mirror of
repositories that live in memory.

| component | source | state it keeps | operations | talks to | hard because |
|---|---|---|---|---|---|
| OCPP-J end | `packages/ocpp/src/rpc.ts` | queue, pending map with timers, `inFlight`, `closed` | `call`, `receive`, `close`; `pump`, `dispatch`, `settle` | the socket; gateway and simulator | late, repeated, missing answers; writes that throw; close in between |
| sessions | `apps/server/src/sessions/service.ts`, `repo/memory.ts`, `api/routes/sessions.ts` | session rows, transaction counter, connector rows | declare, patch, start, meter, stop, abandon, remote stop | gateway (in), bus (out) | drivers who plug in elsewhere, repeated CALLs, restarted chargers |
| gateway | `apps/server/src/ocpp/gateway.ts` | map of connections, `online` column | accept, close events, boot and safety profile, `call`, shutdown | OcppRpc, sessions, bus | close events that come after the reconnect; shutdown while others go on |
| loop | `apps/server/src/optimiser/loop.ts` | debounce, `solving`, `queuedTrigger`, last plan, drivers at risk | request, solve, interval, stop | bus, forecast, scheduler, dispatcher | triggers during a solve, failing solves, its own events |
| dispatcher | `apps/server/src/optimiser/dispatcher.ts` | what was sent to whom, refusals, reserves | apply, send, handleRefusal, forget, reserve for idle bays | gateway, bus | sessions end and links break while answers are awaited |
| problem building, engine | `optimiser/problem.ts`, `packages/engine/src` | none | build, validate, solve by LP, solve greedily, judge a deadline | loop, intake | windows inside slots, shared room, peaks against shortfall, two solvers for one problem |
| OCPP messages | `packages/ocpp/src/messages.ts`, `gateway.ts`, `dispatcher.ts`, `chargePoint.ts` | what either end holds for true of the other | build, check, read each message | OcppRpc | limits that round, registers in Wh against kWh, profiles counted from a moment, types that admit more than a schema |
| demand meter | `optimiser/demandMeter.ts` | buckets, peak, last readings | record, close buckets, look | bus, loop | readings that come late and span intervals |
| forecast | `forecast/service.ts`, `live.ts` | snapshot cache, stored samples | snapshot, historical signals | providers, loop, reports | fetches that overlap, failing sources, series with steps of their own |
| reports | `reports/service.ts`, `engine/emissions.ts` | reports | build on `session.ended`, provisional on demand | bus, forecast | two builds of one report |
| flexibility | `api/routes/flex.ts`, `app/grid/page.tsx`, `lib/flexRead.ts` | requests and their status; each page's copy and draft | request, respond, plan under a cap, judge | bus, loop, meter, console | two pages and a loop with copies of different ages; intervals that a request covers in part |
| readings | `lib/planRead.ts`, `lib/bays.ts`, `lib/forecastRead.ts`, `apps/driver/src/plan.ts` | none | what a screen says of a session and a plan | loop, console, phone | sessions, plan and flags come at different times, and three screens speak of one car |
| terms | `SetupScreen.tsx`, `PlanScreen.tsx`, `OverrideControls.tsx`, `api/routes/sessions.ts` | what is chosen on phone and console, its price, what was sent | choose, price, confirm, preview, declare, patch, refuse | sessions, both screens | three parties change one deadline from copies, prices come out of turn, answers are lost |
| mirror, hydration | `repo/supabase/*.ts` | queue by key, retries, deferrals, `complete` | enqueue, drain, flush, stop, hydrate | Postgres | rows out of order, shedding, restarts |
| dashboard channel | `api/channel.ts` | clients by site | upgrade, broadcast, close | bus, console | events of a socket that is about to be replaced |
| operator console | `apps/dashboard/lib/useLiveSite.ts` | the page's copy of a site, `connected`, a retry timer | refresh, poll, hear, reconnect, switch site | REST, channel | answers of overlapping loads and events overwrite one another |
| driver app | `apps/driver/App.tsx`, `src/api.ts` | `resolvedBase`, `probe`, `offline`; current and finished session, `demo` | probe, request, fall back, poll | REST | a server that comes and goes while requests are under way |
| calendar | `shared/src/scenario.ts`, `time.ts`, `clock.ts`, `simulator/src/runner.ts` | the server's clock, the simulator's copy, the day | parse, resolve local times, move, set, replay | scenario files | clocks put forward and back, scales and jumps, a day that is played again |
| registry, records | `repo/supabase/*.ts`, `seed.ts`, `api/routes/*.ts`, `supabase/migrations` | sites, chargers, people, cars; rows and columns | seed, hydrate, patch, declare; row to object and back | mirror, gateway | what the files say against what the tables kept, columns that round or refuse |
| hosting script | `scripts/start.mjs`, `apps/server/src/index.ts`, `apps/simulator/src/index.ts` | the processes, `stopping`, a restart timer | launch, wait for health, restart, stop | the host's signals | a signal at each stage of each start, a simulator that stalls |
| authentication | `api/auth.ts`, `app/lib/access.ts`, `apps/driver` | book of codes, failures by address; the code a client keeps | check, count, lock out; sign in, be refused, sign out | REST | others at the same address, answers about a code that was replaced |
| simulator | `apps/simulator/src` | transaction, register, profiles, arrivals | plug in, meter, unplug, obey; the runner's day | gateway, API | remote starts that race arrivals, a loop that awaits everybody |
| upgrade routing, configuration, policies of the schema, scripts, screens | `upgrade.ts`, `config.ts`, `supabase`, `scripts`, `apps/*/components` | none of their own | | | |

What makes each correct, in a sentence: a connection tells every caller exactly
once and keeps one CALL on the wire; a bay and a transaction belong to one
session and energy is counted once; the gateway calls the connection that is
open; every change of the site reaches a plan; a plan is within every limit and
short only where it has to be; a deadline that was accepted can be met, and is
priced before it is confirmed; a charger does what the dispatcher believes it
does; the meter's peak is what was drawn; a report finds the signals that were
in force and credits nothing that was not shifted; the mirror says it is
complete only if it is, and a restart finds what was there before; a page ends
up with the state of its site over one line; a phone never shows an invented
figure once it has a server; a simulated day ends with one transaction per car;
both ends of a connection mean the same by a message; a request for flexibility
that was kept is reported as kept, and screens that speak of one car agree; a
local time is kept whatever the clocks do; a row the server makes fits its table
and comes back as it was; what was told to stop stops, and what stopped by
itself is started again; a code that is no longer accepted leads back to the
sign-in.

### Atomicity and fairness

There is one thread per process. The repositories live in memory and their
promises are already resolved, so a handler that awaits only them runs to its
end before any other macrotask: such a handler is one action. A handler is
split where it really waits: for a forecast (the fetch has a time limit), for
the scheduler (HiGHS has one, and the greedy fallback follows), for a CALL to a
charger (10 s), for an HTTP answer, for a timer, for a request to Postgres. The
bus is synchronous: its handlers belong to the action that emits. A write to a
socket that is closing is dropped without an error.

Weak fairness is assumed of timers and intervals, of waits that have a time
limit, of close events of the server's sockets, and of the next statement of a
function that is running. One wait of the server has no limit: `gateway.close()`
awaits the close of every WebSocket (`gateway.ts:149`) but closes only those in
its map, so a charger that has fallen out of the map (`reconnect`) holds it up
for as long as it stays. `ShutdownCompletes` and `EverythingStops` therefore say
"if no such charger stays connected for ever": without the condition TLC finds
the shutdown that never ends. Nothing is assumed of chargers, cars, drivers, peers,
the database's willingness to take a row, or a socket of a page: `PageConverges`
holds by the polls alone, as the interval does not depend on the socket. The
simulator's runner is our own program, so its loop and its clock go on; a CALL
of it settles because `OcppRpc` sees to that. A fetch of the phone or the page
ends, with an answer, an error or an abort; that the phone polls once more needs
a free place among `MaxCalls`, which the fetches before it vacate.

Of `Hosting`, each process that runs goes on, a signal sent arrives, and the
script hears of exits (weak fairness per process); a charger that the map has lost
(`Strays`) leaves with the simulator if it is one of its own, and of one from
elsewhere nothing is assumed. Of `Access`, the window of an
address that is locked out passes (weak), and a client that can ask does so, is
judged and hears the answer before its address is locked out again (strong:
others at the same address may lock it out over and over, but a request takes a
fraction of the window they have to wait each time).

All configurations switch deadlock checking off: the bounds on calls, sessions,
connections, solves, changes and faults let every model run dry, and so may the
system when nobody charges.

## The modules

| module | models | steps worth reading |
|---|---|---|
| `CallLine` | the promise of a connection to its callers: first come, first served, each told once | `Join`, `TurnAway`, `Leave`, `Shut` |
| `OcppRpc` | class `OcppRpc` with the socket, the peer and the handlers of incoming CALLs; `Line` maps it to `CallLine` | `Pump` is `pump`+`dispatch` with writes that throw; `Timeout`; `SocketBreaks` before the close event |
| `SessionLifecycle` | sessions, transaction ids, connector rows, and chargers that repeat CALLs, lose them, and restart | `HandleStart`, `HandleMeter`, `HandleStop`, `Repeat`, `Restart` |
| `OptimiserLoop` | one site's loop with its debounce, queue, cadence and the three waits of a solve | `Solve`, `Finally`, `PlanSolved`, `Tick`, `Stop` |
| `GatewayLink` | connections, boot and safety profile, the pass over idle bays, the shutdown | `Accept`, `HandleClose`, `Reserve`, `Release`, `LetGo`, `AllClosed` |
| `Dispatch` | profiles of active sessions: what is sent, remembered, refused, lost | `Decide`, `Send`, `Accepted`, `Refused`, `Fails` |
| `SiteProblem` | from sessions, flex events and load to the problem a scheduler gets, its validation, the objective, the LP's constraints, the check of a deadline | `BuildProblem`, `Caps`, `Objective`, `LpFeasible`, `CheckDeadline` |
| `Scheduler` | one run of the resilient scheduler: the LP, or the greedy plan slot by slot under one ceiling after another | `LpSolves`, `LpFails`, `FillSlot`, `AttemptEnds` |
| `DemandMeter` | readings spread over metering intervals, and their scoring after an interval of grace | `Record`, `CloseFinished`, `Look` |
| `GridSignals` | the snapshot cache under concurrent callers, the stored samples, the history reports read | `StartOf`, `Returns`, `Keeps`, `Found` |
| `Reports` | the report of one session, built at its end and on demand, at once | `Ends`, `Asks`, `Saves`, `Avoided` |
| `Mirror` | the repositories in memory, the queue, the drains, Postgres, crashes and hydration | `Enqueue`, `WriteLands`, `WriteDeferred`, `Stop`, `Hydrate` |
| `SimulatedBay` | one simulated charge point, the runner that drives it and the server it talks to; `plugIn` and `unplug` are coroutines of which three may run at once | `ServerStarts`, `Metered`, `CallFails`, `SeesOrGivesUp`, `RemoteStop` |
| `LiveSite` | a page of the console and the dashboard channel | `Hears`, `Closes`, `Switches`, `FirstArrives` |
| `DriverApp` | how the phone finds a server, falls back to the built-in snapshot, and follows its session | `ProbeMisses`, `FallsBack`, `ShowsCurrent` |
| `Conversation` | what the messages may say and what each end makes of it | `BuildChargingProfile`, `SendsPlan`, `StopsTransaction`, `StrangeCharger` |
| `Hosting` | the script, the server and the simulator as processes under signals and failures | `Stop`, `SimulatorExits`, `DayFails`, `Reaches` |
| `Access` | the book of codes, the guard against guessing, the console's gate, the phone's sign-in | `CheckCode`, `RecordFailure`, `Answered` |
| `FlexDesk` | a request from the button to the verdict, with both pages, the plan and the meter | `Requests`, `Solves`, `Held`, `Refreshed` |
| `Readings` | what three screens and a preview say of sessions and a plan that change under them | `Flags`, `Refreshes`, `Plans` |
| `Terms` | how much, by when and in which mode: declared, priced and changed on the phone, overridden on the console, checked by the server | `Grants`, `CreateArrives`, `Priced`, `PhoneHears` |
| `Calendar` | a scenario, local times, the two clocks, the day that is played again | `zonedTimeToUtc`, `replayAfter`, `setScale`, `departedBy` |
| `Registry` | sites, chargers, people, cars and sessions through restarts with other files | `Seeded`, `Hydrates`, `Declares` |
| `Records` | every mirrored object, its row, the table's columns and checks, and the way back | `MadeFor`, `Changes`, `rowToSession` |
| `LiveForecast` | a forecast made of five feeds, a model of the grid and the weather | `correctByWeather`, `SnapshotOf` |
| `MCOcppRpc` | `OcppRpc`, `Conversation` and `Records` side by side | `part` |
| `MCOptimiserLoop` | `OptimiserLoop`, `Dispatch` and `Registry` side by side | `part` |
| `MCDoors` | `GatewayLink`, `Access` and `Hosting` side by side | `part` |
| `MCScheduler` | `Scheduler`, `FlexDesk`, `Readings`, `Terms` and two instances of `Dispatch` side by side | `part` |
| `MCBookkeeping` | `DemandMeter`, `GridSignals`, `Reports`, `Mirror` and `LiveForecast` side by side | `part` |
| `MCClients` | `SimulatedBay`, `LiveSite`, `DriverApp` and `Calendar` side by side | `part` |
| `*Proofs` | inductive invariants and their proofs | |
| other `MC*` | model values, tables and symmetry for TLC | |

The modules meet at interfaces and abstract each other there. `GatewayLink` and
`Dispatch` see a connection as a list of CALLs that are answered in order or
fail, which is what `OcppRpc` shows to implement `CallLine`; `SimulatedBay` uses
the same line from the other side. `OptimiserLoop` sees the dispatcher as a wait
that ends, which is `SolveAlwaysEnds` of `Dispatch` and, for the pass over idle
bays, `NobodyWaitsInVain` of `GatewayLinkProofs`: every CALL the pass awaits is
one a timeout or a close settles. It sees the scheduler as an answer or a
failure, which `Scheduler` takes apart. `Dispatch` sees sessions that become
active and end, which is what `SessionLifecycle` has them do. `Mirror` repeats
of the sessions only what it writes; `Records` takes up which rows Postgres
accepts, `Registry` what a restart makes of them. `FlexDesk` and `Readings` take
plans as `Scheduler` makes them: any that leaves no room unused while a car goes
short, which is `ShortfallIsForced`. `Calendar` ends where a car comes and goes,
which is where `SimulatedBay` begins; `LiveForecast` where `GridSignals` does.

The six composite modules put components side by side that share no state and
meet only in the server: what one does cannot change what another may do, so a
behaviour of the composition is a behaviour of one of them while the others
rest (`part`), and the run visits the sum of their states, not the product.
Their liveness properties are those of the parts, each for its own `part`.

State corresponds to fields by name (`queue`, `pending`, `queuedTrigger` as
`queued`, `lastSentW`, `connections`, `lastDefaultW`, `resolvedBase` as `base`
and so on). Abstractions:

- `OcppRpc`: a call is its own `uniqueId`; payloads are dropped. Frames that do
  not parse are one value.
- `SessionLifecycle`: an idTag is its driver, a bay is a charger with one
  connector, energy is whole units of the meter's register. The charger's CALLs
  are handled one at a time per connection. A driver has one car. Ids of
  sessions are numbers in order of creation, so "newest" is "largest".
  `HasRoom` bounds sessions at the source, so that no handler waits for it.
- `OptimiserLoop`: a change of the site is a version number; which sessions a
  solve finds short or overdue is chosen freely. A `Tick` is a minute and the
  interval timer's look at the clock. The mode with the optimiser off does
  nothing and is left out.
- `GatewayLink`: profiles are "safety", "nothing" or "spare" (the shares of
  idle bays), or "none". The charger obeys OCPP: `ClearChargingProfile` with
  the default profile's id removes it. (The simulated charge point clears only
  the profile of its transaction, so a hand-over cannot be seen with it.) A
  break is noticed by the charger at once; the server's close event comes
  later; the bay counts as idle whenever a solve says so. A pass may begin after
  the loop was stopped, as `stop()` ends neither a running solve nor a queued one.
  The close of a socket that the gateway asks for always comes: `ws` cuts a peer
  off that does not reply in 30 s.
- `Dispatch`: each session has its own charger; limits are levels that differ
  by the hysteresis at least; between two sends nothing else runs. A profile on a
  charger is its limits and the number of the slot the first of them is for, as
  `startSchedule` is the start of the solve's slot; what the dispatcher remembers
  are the limits and the moment of the answer, as in the code.
- `SiteProblem`, `Scheduler`: time in ticks, `MinWindow` of them to a minute, and
  power in units chosen so that every division is exact on the instances; a site's
  chargers have one minimum power; the rounding of a plan to watts
  (`cleanKw`) is left out. HiGHS is external: any point that satisfies the
  model's rows, at a few power levels, or a failure. Weights are tenths.
- `DemandMeter`, `Reports`: energy in units that divisions leave whole.
- `GridSignals`: a value is known by the period it is about, so that taking one
  of another period can be told; what providers answer is left out.
- `Mirror`: a row is what the schema can refuse of it and a version; two tables,
  one of which refers to the other, stand for thirteen.
- `SimulatedBay`: a battery without taper; one day, one bay, three arrivals. A
  CALL says what was so when it was queued (`reading`, `since`). A CALL may fail,
  or be carried out and its answer lost; a reading may be lost. A routine that
  fails in the runner ends its day and leaves the charger (`Dead`); one that
  nobody awaits ends the process (`Exited`). Two waits are taken to suffice: a
  remote start comes about or fails within the 400 ms the runner gives it, and
  nobody stops a transaction from the app before the runner, which looks every
  50 ms, has seen it.
- `LiveSite`: a site has one session, versions stand for contents; a refresh
  has the two stages of the code, each read at the server at one moment.
- `Conversation`: a text is its length, a number counts halves so that rounding
  shows; a CALL and its answer are one step; of a message's optional fields one
  is left out at a time.
- `Hosting`: times are left out, a simulator whose day failed stays if a socket
  keeps its process ("stalled").
- `Access`: an account and its code are one value; one client, and all others at
  its address or elsewhere.
- `FlexDesk`: cars take all a plan gives them; a tick is a minute.
- `Readings`: a tick is a minute, the thresholds of the screens are less than a
  unit; the phone gets session and plan at once; who is offline stays so.
- `Terms`: a price is the request it answers, so that a price of something else
  can be told; power is the bay's; a minute of charging below full power counts
  as waiting; one driver and one session. The patch of a session awaits only
  repositories, so its check and its write are one step.
- `Calendar`: the unit is longer than a minute, a day has eight; a time zone
  changes its offset once; one scenario.
- `Records`: a number counts ten-thousandths; an object has one value at an edge
  at a time, the rest are ordinary.
- `Registry`: one connector per charger; a flush writes all; preferences, status
  and the limits of the history are left out.
- `LiveForecast`: minutes and per cent, rounded down; the sun is up from 6 to 18
  local time; the feeds settle in one step, each as it will.
- `DriverApp`: sessions are numbers, the snapshot's has one of its own; sign-in,
  forecast and history are left out. `Moves` is the phone or the server moving
  to an address where the other can be reached, or to none.

Where the text of a module says "slip", the operator after it is a mutated form
of the next one ("the flag is not reset", "the map is not told"). No
specification uses it; put in the place of the definition, it makes a property
fail, which shows that the property depends on that code.

## The runs

| run | bounds | what it shows |
|---|---|---|
| `ocpp_rpc` | 3 calls, 1 incoming CALL, 1 frame under way; 12 exchanges, 3 slots ahead, strangers at either end for 2 moments; 2 changes per object | `NoCallForgotten`: queue, map and promises agree; `AnswersAreOwn`: no late answer settles another call; `LineSpec`: OcppRpc implements CallLine, in which everybody is served; `UnderstoodAlike`: what one end says the other takes, and both mean the same limits, energy and transaction; Postgres takes every row the mirror makes, and it comes back as it was |
| `sessions` | 2 drivers, 2 bays, 3 sessions, clock 0..1, 1 fault | `OneOpenPerBay`, `ChargingIsActive`, `EnergyCountedOnce`, `FinishedStaysFinished` (but for a StopTransaction of its own), through repeated and lost CALLs and restarts |
| `loop` | 2 sessions, 2 announced changes, 1 failed solve or silent change; profiles: 2 sessions, 2 slots ahead, clock 0..1, 1 solve, 1 fault; 2 starts, 1 failed query, 4 moves, 2 session ids | `NoTriggerLost`, `EveryChangeIsPlanned`, `CalmsDown` (the faster cadence ends), `DoesNotFeedItself`; `SolveAlwaysEnds`, whatever the chargers do; `Remembered`: whoever was known still is after a restart, nobody waits at two bays, and what is connected has a row and is shown online |
| `doors` | 2 chargers, 3 connections, 1 pass, 1 break; 2 accounts, 2 guesses, 1 address tracked, 3 mishaps; 2 signals, 2 faults | `MapHoldsOpenRpc`, `ShutdownCompletes` unless a charger the map has lost stays, `GoneIsOffline`; `RefusedGoesToGate`; `EverythingStops`, `ChargersComeBack` |
| `planning` | every pair of 17 car states, 3 slots of 4 ticks (2 minutes), 3 moments, 2 sets of flex events, 2 peaks; desk: 2 requests, clock 0..5, slots of 2 ticks, 1 fault; page: 2 cars, 2 minutes, 2 solves, 1 change; terms: 2 bays, 2 needs, 2 modes, 1 minute, 3 choices or losses; profiles: 2 sessions, 2 slots ahead, 2 solves, 1 fault, and 1 session, 3 slots of 2 ticks ahead, clock 0..6, 2 solves, 1 fault | `PlanIsSafe`: connection, caps and cars; `ShortfallIsForced`: a car is short only if no room was left it; `ShavingCostsNobody`: a lower peak is not paid for in energy; `IntakeHolds`: what intake accepted is deliverable, but for what less than a minute of a slot would give; `SolversAgree` on what a plan is worth; `ToldAsItIs`: a request that was kept is reported so, the screens agree with each other and with the plan, and terms are priced before they are confirmed and can be met as long as the car is not made to wait; `RememberedIsInForce`: memory and charger agree on the limits; `PlanIsInForce`: at the end of a solve a charger holds this plan's limits, from this plan's first slot on but for plans that repeat what was sent, and none has run out |
| `bookkeeping` | meter: 2 sessions, 3 intervals; signals: 2 callers, horizon 12; reports: 3 readings, 2 builds; mirror: 2 sessions, 2 bays, queue of 3, 7 writes, 2 faults; forecast: 4 places, 2 starts, 5 skies | `BooksAreTrue`: what was metered was drawn, the peak is real, nothing is avoided where nothing was shifted, a forecast keeps to its sources; `SignalsAreTrue`: history is found, nothing of a forecast is called measured; `EndIsReported`; `MirrorIsTrue`: complete means whole, stored ids are unique; `DrainEnds` |
| `clients` | bay: 3 cars (app, card, unknown card), 1 failed CALL; page: 2 sites, 2 loads, 3 sockets, 1 change, 1 switch, 1 fault; phone: 2 addresses, 3 requests, 2 moves, 1 lapse; calendar: 4 days, 1 of each mistake in a file, scales 1 and 3, jumps ahead | `BayIsTold`: one transaction per car and a register that never falls, `DayEnds`; `OneLine`, `PageConverges`; `NeverInvented`, `PhoneRecovers`; `DayIsSound`: local times and stays are kept, clocks go back only when set, who is due comes |

Why the bounds suffice. Three calls are the least for one in flight and two
whose order matters. Two drivers on two bays give every mix of declared, own and
foreign bay; the third session comes after an aborted one; one fault is a
repeated, lost or late CALL or a restart. Two changes fall before and after
each wait of a solve. Three connections of two chargers give a reconnect while
the other charger goes on. Two solves are the least for a plan that meets the
memory of another one; for `SolveAlwaysEnds` one is enough, as all it takes over
from an earlier one is whom it need not send to, and the first sends to everybody. Two cars are the least that compete for room, three
slots the least in which a window can begin and end inside. A tick is half a
minute there, so that windows can lie in less than a minute of a slot: at moment 3
half a minute of slot 0 is left, which `windowHours` drops, and one car has less
power than its charger's minimum, so that `validateProblem` refuses. A clock of
six ticks over slots of two gives a plan that is solved again inside its slot, in a
later one before it is stale, and when it was due to be refreshed. Two callers make
two fetches that overlap, a queue of three sheds while two tables wait, seven
writes let a row be deferred, overtaken and read back. Three cars follow one
another by all three kinds of arrival. Two loads and a switch give an answer of
the site before; three sockets one that is replaced and one that is retried.
Two addresses give a probe that goes on to the next, three requests two that
race while a report is asked for. Two starts are a first one and one with other
files over what the first has left. A clock of six ticks over slots of two gives
a request that begins inside a slot and ends in the next, before and after the
meter has counted it. Three mishaps let a client lose a request, find the server
restarted and try once more; two signals reach a process that is starting and
one that is stopping.
Symmetry is used where chargers, bays and drivers are interchangeable, and only
in runs without liveness.

### What the code does otherwise than it says

Five runs show it (`findings` in `PROJECT.json` quotes both sides):

- `reconnect`: the close event of a replaced socket deletes the map's entry of
  the new one. The charger is connected and cannot be called; and as long as it
  stays connected, a shutdown waits for it, and does not come to write what the
  mirror still holds (`index.ts:184`).
- `marked_is_limited`: a charger marked uncontrolled is sent a limit of zero.
- `profile_anchor`: limits are compared by their place in the list, but a charger
  counts them from the slot of the solve that sent them. A plan of 7.4, 0 and 3 kW
  made at 10:00 and again at 10:15 is not sent the second time, and the charger is
  at 0 where the plan says 7.4 kW, until the plan changes or is refreshed.
- `last_write`: a batch deferred behind a missing parent is written after a
  newer row of the same key, and stays.
- `replay`: a day that is played again moves arrivals and departures, and leaves
  the deadlines where they were, in the past.

Noticed while translating, and not made runs of their own:

- Sessions. A car that comes after its declared deadline makes a row that the
  schema's check refuses (`service.ts:139`, `0001_schema.sql:130`). A declared
  session whose car never comes ends only by a start at its bay
  (`routes/sessions.ts:257`). A session whose charger forgot it stays active
  until the next start there (`service.ts:240`).
- `recordMeter` tolerates a register that falls by up to 1 Wh, a report of such
  readings throws (`service.ts:165`, `emissions.ts:39`).
- Between a charger's confirmed hand-over and the end of `close()`, a boot or a
  pass that is still running limits it again (`gateway.ts:132`).
- Collapsed periods are compared with one limit per slot, so unchanged plans are
  sent again (`dispatcher.ts:90`, against `docs/RISKS.md:17`). The cache of
  reserves survives what replaces them on the charger (`dispatcher.ts:211`). A
  profile's end is counted from a slot's start, its refresh from the answer
  (`dispatcher.ts:176`): one whose answer comes in a later slot than it starts with
  may run out before it is sent again (`PlanIsInForce` leaves it out).
- Planning. The check at intake counts every moment until the deadline
  (`feasibility.ts:25`), the plan none of a slot of which less than a minute is left
  (`slotGrid.ts:64`): a car accepted at 10:14:30 that needs full power until 10:30
  is planned to be short of half a minute, 90 Wh at 11 kW. Hence the second half of
  `IntakeHolds`; "The one thing we will not do is promise a deadline we cannot
  keep" (`docs/DEMO.md:32`) is true but for that.
- Demand meter. A reading that comes after more than the interval of grace opens
  an interval anew that was scored, and the score of its share alone replaces the
  first (`demandMeter.ts:132`). Nobody is silent for that long in `bookkeeping`,
  where `MaxSilence` is the interval of grace; with two intervals TLC finds
  `BooksAreTrue` violated. No property covers this.
- Reports. A provisional report whose signals come last is saved over the final
  one and stays (`reports/service.ts:78`, against "settled fact",
  `service.test.ts:245`). `EndIsReported` exempts it (`overtaken`), so it says that
  each end brings a report, and no more of that case.
- Problems. A car whose own maximum is below its charger's `minPowerKw` makes
  `validateProblem` refuse the whole site's problem (`problem.ts:113`,
  `validate.ts:40`), so that nobody there is planned while it is parked; no scenario
  has such a pair.
- The basis "actual" of a report follows the last stamp of one series
  (`live.ts:356`).
- Simulator. A failed CALL ends the runner's loop (hence "unless a CALL fails"
  in `DayEnds`); what is drawn between the request and the answer of
  `StopTransaction` is on no bill; `void this.unplug('Remote')` leaves a
  rejection unhandled (`chargePoint.ts:294`).
- Console. Until the next poll a late answer may show the site before; the late
  close event of its socket sets `connected` to false while the new one is open
  (`useLiveSite.ts:119`).
- Phone. Polls that answer out of order show the summary more than once
  (`App.tsx:160`, "once"). A base once found is kept when the server is at
  another address later (`PhoneRecovers` excludes it). After a probe that found
  nothing requests still go to the first address, and an answer from there is
  labelled as demo data. "Anything served from here is labelled as demo data"
  (`api.ts:265`), but sites, vehicles and name taken from the snapshot on mount
  stay when a poll has been answered and the label is gone (`App.tsx:171`, 193).
- Calendar. A replayed day moves only until its last departure is ahead, so stays
  of the past come and go in one pass (a scenario without arrivals, which the schema
  admits, counts a day in each), and by multiples of 24 h, so that local
  times move when the clocks change in between. A local time that does not exist
  is read later east and earlier west of Greenwich. `SIM_START` "real" or empty
  throws with a scale other than 1 (`config.ts:125`).
- Hosting. The server installs its signal handlers after its first solves. A
  simulator whose day failed while sockets are open never exits.
- Access. A late refusal of an old code signs out a newer sign-in.
- Flexibility. After a refresh that failed two requests can be open though one
  must end first (`page.tsx:322`); a request nobody answered shows "completed"
  and "Held" (`flexRead.ts:16`).
- Terms. Prices on the phone are not taken back when the choice changes, so one
  that comes late, or one before a lost one, may stand beside another choice and
  withhold the button (`SetupScreen.tsx:98`; `PhoneIsPriced` speaks of answers in
  turn). "Give the driver more time" adds to the deadline the panel was drawn with
  (`OverrideControls.tsx:45`): if the driver has moved it further meanwhile, it
  comes back. A refusal puts the phone's deadline back to the one in force when it
  was sent, which the operator may have moved (`PlanScreen.tsx:90`). "Every option
  meets your deadline" (`SetupScreen.tsx:294`) goes by the car's power alone, not
  by the room that is left at the site.
- Readings. A bay is "clean" by the forecast's window, not by the plan
  (`bays.ts:9`); "could safely move" looks at the deadline only
  (`forecastRead.ts:138`); the first and last slot count whole in a plan's energy
  and cost, which may exceed the need; a car at an offline charger is shown as
  "Guaranteed" (`HomeScreen.tsx:75`), as skipped sessions are never flagged; the
  overview counts cars of uncontrolled chargers twice (`sites.ts:62`); "today" is
  off by an hour on the day the clocks change; the end a preview shows is a
  slot's, and may lie after the deadline.
- Registry and records. Preferences and rows of a site are overwritten by the
  scenario at each start; a charger no longer in a scenario stays online; ids are
  compared within one file. The schema rounds 0.04 h to 0 (`numeric(4,1)`) and
  tiny positive numbers to nothing, takes unrounded registers for `bigint`, and
  refuses a state of charge above 100 % and a register that ends below its start.
  A declaration at a charger of a site that is not run saves the session, then
  answers 404. A failed closing of orphans at hydration leaves sessions open;
  abandoning one leaves its connector's `sessionId`.
- Messages. A scenario's vendor and model may be longer than the 20 characters
  BootNotification admits; a driver's id (64) stands in for an idTag (20);
  `readMeterValue` takes the last sample whatever its phase, and nothing as 0.
- Forecast. Starts at :15 and :45 never use the measured mix and are labelled
  'ESO mix' all the same; a mix feed that fails is not in the notes, and the label
  names the weather also when that failed. The replan button quotes a queued solve
  as "optimiser is off".

## Proofs

Each proof module states an inductive invariant `IInv`, that the initial states
satisfy it and every action keeps it, and draws the theorems from it. Why `IInv`
says more than the properties:

- `OcppRpcProofs`: `NoCallForgotten`, `OneOnTheWire`, `AnswersAreOwn`, and that a
  queued call has one in flight before it (`NeverIdleWithWork`), for any sets of
  calls and any peer. A closed end is empty; a CALL in the socket's history is in
  the map or settled (else an unsettled CALL outside the map would let `pump`
  send a second one); an answer under way is one the peer said. All goes through
  one lemma about `Pump`, which every operation ends with (`PumpKeepsTidy`).
- `OcppRpcProofs`, second part: `KeepsTheLine`, every step of OcppRpc is one of
  `CallLine` or leaves it as it was. The call in the map stands first in the line,
  the queue behind it; when a call is settled and the frames of the next ones
  cannot be written, as many leave together as `pump` takes from the queue. The
  invariant gives that the map holds one call at most and no call is queued twice.
- `OcppRpcProofs`, third part: `BayIsTold`, for any arrivals, charger, limits and
  failures of a simulated bay (`TheBayIsTold`), under the two waits named above.
  Its two halves need one invariant, `BayInv`. A routine waits in the queue once;
  cars come in order, and while one charges nobody plugs in. That no car gets a
  second transaction rests on `OpenedInv` (who is waited for or plugged in has
  none yet) and on the queue: a remote stop that is under way closes its
  transaction before the next StartTransaction, which stands behind it
  (`UnplugInv`). That the register never falls rests on the readings of the open
  transaction being on their way in order, none above the charger's register and
  none below the server's (`MeterInv`, `ReadingsInv`).
- `OptimiserLoopProofs`: `NoTriggerLost`, for any finite set of sessions and any
  intervals. `ReadInOrder`: what a solve has read is never ahead of the site,
  and neither a plan nor a failure is of a version no solve has read.
- `OptimiserLoopProofs`, second part: `Remembered` of `Registry`, for any files,
  members, cards and chargers, failed queries and restarts. `KnownInv` adds what
  memory and Postgres hold of each kind (`KnownTypeOK`), and that a connected
  charger, and every charger of the files, has a row (`ConnectedIsKnown`): without
  it a charger that leaves would not be marked, and one the files name be read from
  a row that is not there. A step that changes sessions keeps it as long as it adds
  none that waits and opens none whose driver was told of it (`BayStepKeeps`); the
  declaration, which does, is proved by itself (`DeclaringKeeps`).
- `SessionLifecycleProofs`: `OneOpenPerBay`, `TransactionsNameSessions`,
  `FinishedStaysFinished`, for any drivers, bays, clocks and meters.
  `FinishedStaysFinished` says what of a finished session may change at all: a
  StopTransaction of its own transaction makes it complete, also if it was aborted,
  and sets its last reading, as `stopTransaction` looks at no status.
  `CreatedIsPrefix`: the sessions are those numbered up to the last, so that the
  next id is free; transaction ids are below the counter. These rest on the
  server's state alone, whatever a charger sends. `ChargingIsActive` and
  `EnergyCountedOnce` need `Inv`, which relates the server to the charger and to
  the CALLs on their way: what a charger believes is so, or will be when its mail
  has been handled; nothing of a transaction comes after the next start; no count
  of the server is ahead of the register at the last message, and the sessions of a bay count intervals of the
  register that follow one another. (That energy is counted once is stated as
  disjoint intervals, not as a sum, so it needs no induction over sessions.)
- `GatewayLinkProofs`: `MapHoldsOpenRpc`, and that whoever awaits a CALL awaits
  one that is watched, for any chargers and numbers of connections, solves and
  breaks. `RpcIsInUse`: an OcppRpc exists only for an accepted socket, which has
  a charger; a socket's charger never changes.
- `DispatchProofs`: `RememberedIsInForce`, `PlanIsInForce`,
  and that a refusal is retried by the next solve. `DoneIsInForce`: whoever a running
  solve is done with follows it already, with a profile of this solve, or with one
  that was not stale when the solve began and has the same limits; `RefusedIsForgotten`: nothing is remembered of a
  charger that has refused; `NewIsBlank`: nor of one that has not begun. That no
  profile has run out is a matter of its age (`RefreshedInTime`). A lemma about `Collapse` shows that equal collapsed plans of full length are equal.
- `SchedulerProofs`: `PlanIsSafe`, `ShortfallIsForced`, and that what a plan says
  it draws is what its rows add up to, for any cars, slots, prices and ceilings,
  and any point of the linear program. `Filling`: in every slot already visited a
  car that is still short is at full power, or the site is at its limit, and stays
  there, as nothing given is taken back. The sums of the model are folds over
  finite sets; the facts about them (one row changed, a sum of parts not above a
  bound) are proved by induction on the size of the set, from the least
  counterexample (`NatLessThanWellFounded`), which needs no operator parameter.
- `SchedulerProofs`, second part: what a plan is worth. `WorthInv` says that what is
  noted of a plan is what its rows are worth, that rows are only where the linear
  program has a variable, and that what a greedy attempt still wants for a car is what
  its rows do not deliver (`Accounted`, `FillSlotAccounts`). `SolversAgree` follows
  where no car is given more than it wants (`SolversAgreeInWhole`): the peak over the
  slots that have a variable, from the floor of the building alone, is the peak over
  all (`PeaksAgree`), and a shortfall is not cut off at nought. More than it wants is
  given only by rounding a power up, as powers here are whole; `SolversAgreeOnWholeSlots`
  shows that none is rounded where windows begin and end with slots (`SlotLength = 1`).
  `PlansLeaveNoRoom`: `pickBest` keeps a plan together with its ceiling, so that
  the plan given out still leaves nobody short where that ceiling had room.
  `SearchInv` follows the search: the plan without a ceiling is the first, and what is
  picked later has a lower objective. Hence `SearchPays`, the exchange the penalty
  makes in general, and `ShavingCostsNobody` where the penalty outweighs what two plans can
  differ by otherwise (`PenaltyCovers`). The instance that TLC checks is such a case: there a unit
  undelivered costs 2.88 million, and two plans differ by less than half of that. The
  code has no such bound, as its energies are not multiples of anything;
  `SearchPays` is what it keeps whatever the numbers.
- `SchedulerProofs`, last part: `HeldIsReported` of `FlexDesk`, for any slots, windows,
  reductions, faults and length of the day. `PlanIsUnderCaps`: no tick passes while a
  change of the requests is not planned yet, and a plan is under every accepted cap in
  each slot its window touches. `KeptSoFar`: of a request accepted by its start, no
  interval has counted more than its cap for each tick that has passed of it; an
  answer that comes before the start finds nothing counted yet (`NothingAhead`).
- `MirrorProofs`: `MirrorIsTrue`, for any sessions, bays, queue and batch sizes,
  losses and crashes. `IdsAreIssued`: wherever a row waits, in memory, table,
  batch, retry or database, its transaction id was issued by the counter and
  belongs to one session, unless `hydrate()` was blind. `DownIsEmpty`: a process
  that is down has no queue. `NothingOvertakes`: while nothing is lost nothing is
  deferred, because the session a connector's row refers to is on record or in an
  earlier batch, so that of each object's rows the newest arrives last. (Deferral
  without loss is what `last_write` shows: it needs a row that is refused or a
  failed write before it.)
- `MirrorProofs`, second part: `SignalsAreTrue` of `GridSignals`, for any steps of
  the two grids, lookback, horizon, jumps of the clock, callers and failures.
  `CoveredIsStored`: every quarter hour a snapshot covered is in store, whoever of two
  overlapping callers finishes last. `MeasuredInTime`: a series starts inside a half
  hour, so the half hour a measured value is of is its slot's own or the one before.
- `ClientProofs`: `OneLine`, for any sites, sockets, loads, changes and faults.
  `CleanedUpIsEarlier`: sockets are of effects that have run, and those closed by
  a cleanup of earlier ones, so that their close event sets no timer. And
  `NeverInvented`, for any addresses, requests and sessions: a server found
  excludes being offline, and no answer of a server is the snapshot's.
- `ClientProofs`, third part: `Terms`, for any bays, needs, modes and extensions,
  any choices, polls, losses and order of answers. `PromiseCanBeKept` is kept as a
  tick at full power takes a tick off what is left to charge, a wait is recorded
  in `held`, and every other new need or deadline is checked (`TicksOfACharge`,
  `PatchKeeps`). The two prices are not inductive: an answer is right because of
  what was asked, so the invariant says that the panel listens for its own price
  alone (`PanelAsksForIt`) and that the last price the phone has asked for is that
  of what is chosen (`AsksForWhatIsChosen`), which answers in turn preserve.
- `ClientProofs`, last part: `DayIsSound` of `Calendar`, for any files, zones, days,
  clocks, jumps and scales. `FileIsMoved`: what is played is the accepted file on
  another day, so a stay's two local times are moved alike and read in one zone,
  where the later of two that exist is the later instant (`ZoneRises`).
  `ClockGoesOn`: a clock that is given a new scale starts again from what it shows.
  `StaysAreMoved` and `ReplayGoesOn`: the last departure, moved by as many whole days
  as it lies behind, rounded up, is not in the past. `ListsAreTrue`: whoever is on
  the runner's list has come or had left before the day began.

Assumptions: those named in the modules (`IntervalAssumption`,
`SessionsAssumption`, `BoundsAssumption`, `DispatchAssumption`, `ProblemAssumption`, `SchedulerAssumption`,
`LiveSiteAssumption`, `DriverAssumption`, `TermsAssumption`, `DeskAssumption`,
`MirrorAssumption`, `BayAssumption`, `RegistryAssumption`, `SignalAssumption`,
`CalendarAssumption`), which say that bounds are numbers, sets
of cars, sessions and bays are finite, and a model value is none of another
kind. TLC evaluates them in the runs. `BayAssumption` says besides that the
cars of a bay follow one another, each gone before the next comes: so it is in
every file under `scenarios/`, though the schema does not ask for it, and `CalendarAssumption` that
nobody departs before 1970, from where the runner's search for the last departure
counts. The theorems about `Dispatch`, `LiveSite`, `DriverApp`, `Terms`, `FlexDesk`, `Mirror` and `SimulatedBay`
carry theirs as a hypothesis, because these modules also stand beside others in
one run, where the composite module assumes them.

Only model-checked:

- liveness, and the fairness of `LineSpec` (its safety part is `KeepsTheLine`):
  out of the prover's reach;
- `IntakeHolds`, which rests on the choice among the ceilings and adds up the ticks of
  a window slot by slot; `ShavingCostsNobody` and `SolversAgree` beyond the hypotheses named
  above, on how the penalty compares with the prices and on powers that are not
  rounded, which the instance provides and no assumption of the code does;
- `BooksAreTrue`: the spreading of energy over intervals is a sum of quotients,
  exact in the units of the instance, and a forecast is tables and feeds by cases;
- `ToldAsItIs` (but for its parts about `Terms` and `FlexDesk`) and `UnderstoodAlike`: statements
  about many tables, messages and screens by cases, which TLC enumerates;
- what recursive or folded definitions compute for every input.

## Not modelled

- Of the screens of the console and the app: markup, style sheets, drawings, the
  3D scene, the impact screens and the sample figures of the demo. These turn
  state into pictures and are most of the repository's lines. What the screens say
  of a plan and a request is in `Readings` and `FlexDesk`, what they send of a
  session's terms in `Terms`.
- Upgrade routing and configuration; what a preview says a mode would cost:
  stateless functions of one request each.
- The addresses and formats of the providers of weather, prices and carbon
  intensity, and the sun's path: pure I/O and formulas without a behaviour.
- `HiGHS`, the `ws` library and Postgres: external, modelled as far as they are
  used.
- Of the gateway, `Heartbeat`, `Authorize` and `DataTransfer` keep no state; of the
  simulator the battery's taper and the bargaining about a refused declaration; of
  reports cost and renewable share, which are weighted like carbon. No property
  depends on them.
- The schema's policies, which the server's service key bypasses, and the scripts
  that are run by hand.
