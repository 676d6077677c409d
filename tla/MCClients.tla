------------------------------ MODULE MCClients -----------------------------
(***************************************************************************)
(* The programs at the server's other end, which meet only in the server:  *)
(* the simulated chargers and the day they play, a page of the console, a  *)
(* driver's phone.  One behaviour is a behaviour of one of them, the       *)
(* others rest.                                                            *)
(***************************************************************************)
EXTENDS Integers, LiveSite, DriverApp, SimulatedBay, Calendar

VARIABLE part

\* Three cars at the bay: by app, by card, and with a card nobody knows.
ArriveAt == <<0, 2, 3>>
DepartAt == <<2, 3, 4>>
RoomOf == <<3, 6, 6>>

Zone(before, after, at) == [before |-> before, after |-> after, at |-> at, known |-> TRUE]
Charger(id, identity) == [id |-> id, ocppIdentity |-> identity, connectors |-> 1]
Arrival(id, charger, driver, vehicle, arrive, depart, deadline) ==
  [id |-> id, chargerId |-> charger, connectorId |-> 1, driverId |-> driver, vehicleId |-> vehicle,
   arriveAt |-> arrive, departAt |-> depart, deadlineAt |-> deadline]
TheDay(zone, arrive, depart, deadline) ==
  [timezone |-> zone, day |-> 0, simStart |-> 1,
   chargers |-> <<Charger("c1", "C1"), Charger("c2", "C2")>>,
   drivers |-> <<[id |-> "d1", idTag |-> "t1"], [id |-> "d2", idTag |-> "t2"]>>,
   vehicles |-> <<[id |-> "v1", driverId |-> "d1"], [id |-> "v2", driverId |-> "d2"]>>,
   arrivals |-> <<Arrival("a1", "c1", "d1", "v1", arrive, depart, deadline),
                  Arrival("a2", "c2", "d2", "v2", 6, 9, 8)>>]
Plain == TheDay(Zone(0, 0, 0), 2, 5, 4)
Faulty ==
  {[Plain EXCEPT !.chargers[2].id = "c1"], [Plain EXCEPT !.chargers[2].ocppIdentity = "C1"],
   [Plain EXCEPT !.drivers[2].idTag = "t1"], [Plain EXCEPT !.vehicles[2].driverId = "d3"],
   [Plain EXCEPT !.arrivals[2].vehicleId = "v1"], [Plain EXCEPT !.arrivals[2].connectorId = 2],
   [Plain EXCEPT !.arrivals[2].chargerId = "c3"], [Plain EXCEPT !.timezone.known = FALSE],
   [Plain EXCEPT !.arrivals[1].id = "a2"], [Plain EXCEPT !.arrivals[2].departAt = 6],
   [Plain EXCEPT !.arrivals[2].deadlineAt = 5]}
\* Clocks go forward at 4 (east), back at 4, forward at 12 (west).
TheFiles ==
  Faulty \cup {Plain, TheDay(Zone(0, 2, 4), 5, 6, 6), TheDay(Zone(2, 0, 4), 3, 13, 12),
              TheDay(Zone(-4, -2, 12), 7, 12, 11)}
StartsAsked == {[how |-> how, at |-> 3] : how \in {"scenario", "real", "now", "local", "instant"}}

ASSUME BayAssumption /\ LiveSiteAssumption /\ DriverAssumption

vars == <<part, bayVars, siteVars, driverVars, calendarVars>>

ClientsInit ==
  /\ part \in {"chargers", "day", "page", "phone"}
  /\ BayInit /\ Init /\ AppInit /\ CalendarInit
  /\ part # "day" => scenario = Plain /\ repeats
  /\ part # "phone" => reach = 0 /\ begun = 0

InBay(Action) == part = "chargers" /\ Action /\ UNCHANGED <<part, siteVars, driverVars, calendarVars>>
InPage(Action) == part = "page" /\ Action /\ UNCHANGED <<part, bayVars, driverVars, calendarVars>>
InPhone(Action) == part = "phone" /\ Action /\ UNCHANGED <<part, bayVars, siteVars, calendarVars>>
InDay(Action) == part = "day" /\ Action /\ UNCHANGED <<part, bayVars, siteVars, driverVars>>

ClientsNext == InBay(BayNext) \/ InDay(CalendarNext) \/ InPage(Next) \/ InPhone(AppNext)

\* Each part's own fairness, see the modules; as only one part runs, a condition of each is one.
ClientsFairness ==
  /\ WF_vars(InBay(BayCallSettles) \/ InPage(PollsGoOn) \/ InPhone(PollSession))
  /\ WF_vars(InBay(LoopGoesOn) \/ InPage(Settles(1)) \/ InPhone(CallSettles(1)))
  /\ WF_vars(InBay(Advance) \/ InPage(Settles(2)) \/ InPhone(CallSettles(2)))
  /\ WF_vars(InPhone(CallSettles(3)))
  /\ WF_vars(InPhone(ProbeFinds \/ ProbeMisses))

ClientsSpec == ClientsInit /\ [][ClientsNext]_vars /\ ClientsFairness

\* Unless a CALL fails, every car comes, charges and goes (SimulatedBay).
DayEnds == <>[](part = "chargers" => bayFaults > 0 \/ DayIsOver)
\* The page ends up with the state of the site that is chosen (LiveSite).
PageConverges == <>[](part = "page" => ShowsTheSite)
\* The app finds back from the snapshot to the server (DriverApp).
PhoneRecovers == <>[](part = "phone" => ShowsTheSession)
=============================================================================
