----------------------------- MODULE MCScheduler ----------------------------
(***************************************************************************)
(* Planning: the terms on which a car is planned for, one run of the       *)
(* scheduler, a flexibility request on its way from the grid operator into *)
(* the plan and onto the meter, what people are told of a plan, and what   *)
(* the chargers are given of it, two at a time and one over several slots. *)
(* One behaviour is a behaviour of one of them, the others rest.           *)
(***************************************************************************)
EXTENDS Scheduler

VARIABLES part, clock, automatic, events, dirty, plan, energy, seen, doing, faults
VARIABLES minute, fleet, latest, flagging, changed, page, solves, changes
VARIABLES time, session, held, copy, form, panel, acts
VARIABLES moment, status, points, linked, profile, lastSentW, lastSentAt, rejections, uncontrolled,
          solve, sent, troubles

Desk == INSTANCE FlexDesk WITH
  SlotTicks <- 2, Durations <- {2}, SiteConnection <- 4, Reductions <- {50},
  MaxClock <- 5, MaxRequests <- 2, MaxFaults <- 1

MCBase == [slot \in 0..4 |-> IF slot = 2 THEN 1 ELSE 0]
MCForecast == [t \in 0..8 |-> (t * 3) % 5]
MCCar(online, needed, kw, deadline) ==
  [status |-> "active", online |-> online, needed |-> needed, delivered |-> 0, maxPower |-> kw,
   deadline |-> deadline, deadlineRisk |-> FALSE, currentPower |-> 0]
MCFleets ==
  {[c \in Cars |-> IF c = 1 THEN mine ELSE MCCar(online, 2, 1, 5)] :
     mine \in {MCCar(TRUE, 2, 2, 1), MCCar(TRUE, 3, 2, 3), MCCar(TRUE, 3, 2, 6)}, online \in BOOLEAN}

Read == INSTANCE Readings WITH
  Mine <- 1, Fleets <- MCFleets, SlotTicks <- 2, Slots <- 3, Connection <- 2, Base <- MCBase,
  Carbon <- MCForecast, Hours <- 4, Width <- 2, Soon <- 2, Deadlines <- {4},
  Durations <- {2}, Reductions <- {50}, MaxMinute <- 2, MaxSolves <- 2, MaxChanges <- 1

Agreed == INSTANCE Terms WITH
  Bays <- {1, 2}, Needs <- {2, 4}, Modes <- {"usual", "fastest"}, UsualNeed <- 2, UsualTime <- 3,
  Extensions <- {1}, MaxTime <- 1, MaxActs <- 3

Pair == INSTANCE Dispatch WITH
  Sessions <- {"van", "shopper"}, Levels <- {0, 1}, Lookahead <- 2, SlotLength <- 1,
  MaxNow <- 0, MaxSolves <- 2, MaxFaults <- 1,
  now <- moment, cp <- points, solves <- sent, faults <- troubles

\* Slots of two ticks, profiles of three slots, and time to outlive them.
Single == INSTANCE Dispatch WITH
  Sessions <- {"van"}, Levels <- {0, 1}, Lookahead <- 3, SlotLength <- 2,
  MaxNow <- 6, MaxSolves <- 2, MaxFaults <- 1,
  now <- moment, cp <- points, solves <- sent, faults <- troubles

ASSUME Desk!DeskAssumption
ASSUME Read!ReadingsAssumption
ASSUME Agreed!TermsAssumption
ASSUME Pair!DispatchAssumption /\ Single!DispatchAssumption

deskVars == <<clock, automatic, events, dirty, plan, energy, seen, doing, faults>>
readVars == <<minute, fleet, latest, flagging, changed, page, solves, changes>>
termVars == <<time, session, held, copy, form, panel, acts>>
profileVars == <<moment, status, points, linked, profile, lastSentW, lastSentAt, rejections,
                 uncontrolled, solve, sent, troubles>>
planningVars == <<part, vars, deskVars, readVars, termVars, profileVars>>

\* The parts that rest start from one state.
PlanningInit ==
  /\ part \in {"scheduler", "desk", "page", "terms", "pair", "single"}
  /\ Init /\ Desk!DeskInit /\ Read!Init /\ Agreed!TermsInit
  /\ IF part = "single" THEN Single!Init ELSE Pair!Init
  /\ part # "desk" => automatic = FALSE
  /\ part # "page" => fleet = CHOOSE f \in MCFleets : TRUE
  /\ part # "scheduler" =>
       /\ now = 0 /\ cars = [c \in Cars |-> CHOOSE car \in CarStates : TRUE]
       /\ problem = BuildProblem(now, cars, {}, 0)

PlanningNext ==
  \/ part = "scheduler" /\ Next /\ UNCHANGED <<part, deskVars, readVars, termVars, profileVars>>
  \/ part = "desk" /\ Desk!DeskNext /\ UNCHANGED <<part, vars, readVars, termVars, profileVars>>
  \/ part = "page" /\ Read!Next /\ UNCHANGED <<part, vars, deskVars, termVars, profileVars>>
  \/ part = "terms" /\ Agreed!TermsNext /\ UNCHANGED <<part, vars, deskVars, readVars, profileVars>>
  \/ part = "pair" /\ Pair!Next /\ UNCHANGED <<part, vars, deskVars, readVars, termVars>>
  \/ part = "single" /\ Single!Next /\ UNCHANGED <<part, vars, deskVars, readVars, termVars>>

PlanningSpec == PlanningInit /\ [][PlanningNext]_planningVars

\* A request that was kept is reported as kept (FlexDesk), what the screens say of a plan
\* agrees and is so (Readings), and the terms it is made for are those that were priced and
\* could be met (Terms).
ToldAsItIs == /\ part = "desk" => Desk!HeldIsReported
              /\ part = "page" => Read!AllToldTrue
              /\ part = "terms" => Agreed!TermsAreSound

\* What the dispatcher remembers is what the chargers do (Dispatch).
RememberedIsInForce == /\ part = "pair" => Pair!RememberedIsInForce
                       /\ part = "single" => Single!RememberedIsInForce
\* A solve leaves its plan on the chargers that take it, and no profile that has run out (Dispatch).
PlanIsInForce == [][/\ part = "pair" => Pair!TakesEffect
                    /\ part = "single" => Single!TakesEffect]_planningVars

\* Weights of modes.ts in tenths; the hundredth of "speed" only breaks ties, which
\* the greedy search gives to the earlier slot anyway.
MCModes == [cheapest |-> [cost |-> 10, co2 |-> 1, peak |-> 3, speed |-> 0],
            fastest  |-> [cost |-> 0, co2 |-> 0, peak |-> 0, speed |-> 10]]
MCPrice == [s \in 0..2 |-> CASE s = 0 -> 3 [] s = 1 -> 1 [] s = 2 -> 2]
MCCarbon == [s \in 0..2 |-> CASE s = 0 -> 2 [] s = 1 -> 3 [] s = 2 -> 1]
MCBuilding == [s \in 0..2 |-> IF s = 2 THEN 16 ELSE 0]

Car(charger, deadline, remaining, power, mode) ==
  [charger |-> charger, pluggedIn |-> 0, deadline |-> deadline,
   remaining |-> remaining, maxPower |-> power, mode |-> mode]
MCCarStates ==
  {Car("controlled", d, 64 * e, 32, m) : d \in {2, 5, 12}, e \in {1, 3}, m \in DOMAIN MCModes}
    \cup {Car("controlled", 10, 96, 16, "cheapest"), Car("controlled", 10, 16, 4, "cheapest"),
          Car("uncontrolled", 10, 192, 32, "cheapest"), Car("uncontrolled", 6, 256, 32, "cheapest"),
          Car("offline", 8, 128, 32, "cheapest")}
MCFlexEvents ==
  {{}, {[status |-> "accepted", starts |-> 2, ends |-> 6, cap |-> 32],
        [status |-> "requested", starts |-> 0, ends |-> 12, cap |-> 16]}}
=============================================================================
