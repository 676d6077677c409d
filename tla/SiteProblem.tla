----------------------------- MODULE SiteProblem ----------------------------
(***************************************************************************)
(* From the live state of a site to the problem a scheduler is given: the  *)
(* slot grid, the cars' windows, the building's load, the caps, and the    *)
(* objective every scheduler is measured by.                               *)
(* Time runs in ticks, MinWindow of them to a minute; power in units so    *)
(* small that the divisions of the instances checked are exact; energy is  *)
(* power times ticks.                                                      *)
(***************************************************************************)
EXTENDS Integers, FiniteSets, FiniteSetsExt, Functions

CONSTANTS
  Cars,             \* the sessions of the site
  SlotLength,       \* slotMinutes
  Slots,            \* slots of the horizon
  MinWindow,        \* MIN_WINDOW_MS
  MinPower,         \* minPowerKw, of all chargers alike
  Connection,       \* gridConnectionKw
  MarginShare,      \* one part in so many of every ceiling is held back
  BuildingKw,       \* slot -> the building's load
  Price, Carbon,    \* slot -> signal, as a multiple of its mean over NormUnit
  NormUnit,
  Modes,            \* mode -> [cost, co2, peak, speed], in parts of one
  SiteMode,         \* defaultMode of the site
  WeightUnit,       \* the parts
  ShortfallPenalty  \* SHORTFALL_PENALTY

SlotSet == 0..(Slots - 1)

ASSUME ProblemAssumption ==
  /\ IsFiniteSet(Cars)
  /\ {SlotLength, Slots, MinWindow, Connection, MarginShare, NormUnit,
      WeightUnit, ShortfallPenalty} \subseteq Nat \ {0}
  /\ MinPower \in Nat
  /\ BuildingKw \in [SlotSet -> Nat]
  /\ Price \in [SlotSet -> Int] /\ Carbon \in [SlotSet -> Nat]
  /\ \A m \in DOMAIN Modes :
       Modes[m] \in [cost : Nat, co2 : Nat, peak : Nat, speed : Nat]
  /\ SiteMode \in DOMAIN Modes

Larger(a, b) == IF a >= b THEN a ELSE b
Smaller(a, b) == IF a <= b THEN a ELSE b

(***************************************************************************)
(* The slot grid.                                                          *)
(***************************************************************************)
FloorToStep(t) == t - (t % SlotLength)
SlotStart(now, slot) == FloorToStep(now) + slot * SlotLength
SlotEnd(now, slot) == SlotStart(now, slot + 1)

\* Slip: only slots that lie within the window as a whole are used.
WholeSlotsOnly(now, from, to) ==
  [slot \in SlotSet |->
     IF SlotStart(now, slot) >= from /\ SlotEnd(now, slot) <= to
     THEN SlotLength ELSE 0]

\* Ticks of [from, to) within each slot, none of them before now, and none where
\* they are less than a minute.
WindowHours(now, from, to) ==
  [slot \in SlotSet |->
     LET overlap == Smaller(to, SlotEnd(now, slot))
                      - Larger(Larger(from, now), SlotStart(now, slot))
     IN IF overlap >= MinWindow THEN overlap ELSE 0]

\* The sum of the values of a function: a row, or what every car has.
SumOver(f) == MapThenSumSet(LAMBDA x : f[x], DOMAIN f)
Total(hours) == SumOver(hours)

(***************************************************************************)
(* buildProblem.  A car is [charger, pluggedIn, deadline, remaining,       *)
(* maxPower, mode]; charger is what the server knows of it.                *)
(***************************************************************************)
Kept(kw) == kw - kw \div MarginShare

\* capsForGrid.
Caps(now, events) ==
  [slot \in SlotSet |->
     Min({Kept(Connection)} \cup
         {Kept(e.cap) : e \in {e \in events :
             /\ e.status \in {"accepted", "active"}
             /\ e.starts < SlotEnd(now, slot) /\ e.ends > SlotStart(now, slot)}})]

\* addUncontrolledLoad: a car that obeys nobody charges from its first slot on
\* until it is full or its deadline comes.
UncontrolledLoad(now, car) ==
  LET hours == WindowHours(now, car.pluggedIn, car.deadline)
      left[slot \in 0..Slots] ==
        IF slot = 0 THEN car.remaining
        ELSE Larger(0, left[slot - 1] - car.maxPower * hours[slot - 1])
  IN [slot \in SlotSet |->
        IF hours[slot] > 0 THEN (left[slot] - left[slot + 1]) \div hours[slot] ELSE 0]

Uncontrolled(cars) == {c \in Cars : cars[c].charger = "uncontrolled"}
Planned(cars) == {c \in Cars : cars[c].charger = "controlled"}

BaseLoad(now, cars) ==
  [slot \in SlotSet |->
     BuildingKw[slot]
       + SumOver([c \in Uncontrolled(cars) |-> UncontrolledLoad(now, cars[c])[slot]])]

Overdue(now, car) == car.remaining > 0 /\ car.deadline <= now

\* The end of a car's window: one that has missed its deadline charges flat out.
WindowEnd(now, car) ==
  IF Overdue(now, car) THEN now + car.remaining \div car.maxPower ELSE car.deadline

Need(now, car) ==
  [energy |-> car.remaining, maxPower |-> car.maxPower, minPower |-> MinPower,
   weights |-> Modes[car.mode],
   hours |-> WindowHours(now, car.pluggedIn, WindowEnd(now, car))]

BuildProblem(now, cars, events, peak) ==
  [needs        |-> [c \in Planned(cars) |-> Need(now, cars[c])],
   base         |-> BaseLoad(now, cars),
   cap          |-> Caps(now, events),
   existingPeak |-> peak,
   peakWeight   |-> Modes[SiteMode].peak]

(***************************************************************************)
(* validateProblem, as far as a built problem could fail it.               *)
(***************************************************************************)
ValidateProblem(p) ==
  /\ p.existingPeak >= 0
  /\ \A slot \in SlotSet : p.base[slot] >= 0 /\ p.cap[slot] >= 0
  /\ \A c \in DOMAIN p.needs :
       /\ p.needs[c].energy >= 0 /\ p.needs[c].maxPower > 0
       /\ p.needs[c].minPower \in 0..p.needs[c].maxPower
       /\ \A slot \in SlotSet : p.needs[c].hours[slot] \in 0..SlotLength

(***************************************************************************)
(* The objective.  Everything is scaled by WeightUnit, NormUnit, Slots and *)
(* the connection, so that it stays whole.                                 *)
(***************************************************************************)
TotalEnergy(p) == SumOver([c \in DOMAIN p.needs |-> p.needs[c].energy])
PeakCoefficient(p) == p.peakWeight * TotalEnergy(p) * NormUnit * Slots

SlotScore(weights, slot) ==
  Slots * (weights.cost * Price[slot] + weights.co2 * Carbon[slot])
    + weights.speed * NormUnit * slot

\* chargingHeadroomKw: the cap of a slot is never above the connection's.
Headroom(p) ==
  [slot \in SlotSet |->
     Larger(0, Smaller(Kept(Connection), p.cap[slot]) - p.base[slot])]

Delivered(p, rows, c) ==
  SumOver([slot \in SlotSet |-> rows[c][slot] * p.needs[c].hours[slot]])
Missing(p, rows, c) == Larger(0, p.needs[c].energy - Delivered(p, rows, c))
Shortfall(p, rows) == SumOver([c \in DOMAIN p.needs |-> Missing(p, rows, c)])
Charging(p, rows, slot) == SumOver([c \in DOMAIN p.needs |-> rows[c][slot]])

EnergyScore(p, rows) ==
  SumOver([c \in DOMAIN p.needs |-> SumOver([slot \in SlotSet |->
    rows[c][slot] * p.needs[c].hours[slot] * SlotScore(p.needs[c].weights, slot)])])

\* Slip: what is not delivered costs nothing.
ObjectiveOfEnergyAndPeak(p, rows) ==
  LET peak == Max({p.existingPeak}
                    \cup {p.base[slot] + Charging(p, rows, slot) : slot \in SlotSet})
  IN Kept(Connection) * EnergyScore(p, rows) + PeakCoefficient(p) * peak

\* evaluatePlan.
Objective(p, rows) ==
  LET peak == Max({p.existingPeak}
                    \cup {p.base[slot] + Charging(p, rows, slot) : slot \in SlotSet})
  IN Kept(Connection) * EnergyScore(p, rows)
       + PeakCoefficient(p) * peak
       + Kept(Connection) * ShortfallPenalty * WeightUnit * NormUnit * Slots * Shortfall(p, rows)

(***************************************************************************)
(* buildLpModel: a variable for every slot a car can charge in, and the    *)
(* constraints and the objective of the text HiGHS is given.               *)
(***************************************************************************)
LpVariables(p) ==
  {v \in (DOMAIN p.needs) \X SlotSet :
     /\ p.needs[v[1]].energy > 0
     /\ p.needs[v[1]].hours[v[2]] > 0
     /\ Headroom(p)[v[2]] > 0}

LpFeasible(p, rows) ==
  /\ \A c \in DOMAIN p.needs : \A slot \in SlotSet :
       /\ rows[c][slot] \in 0..p.needs[c].maxPower
       /\ <<c, slot>> \notin LpVariables(p) => rows[c][slot] = 0
  /\ \A slot \in SlotSet : Charging(p, rows, slot) <= Headroom(p)[slot]
  /\ \A c \in DOMAIN p.needs : Delivered(p, rows, c) <= p.needs[c].energy

\* Slip: the peak variable starts from the metered peak alone.
LpPeakFloorMeteredOnly(p) == p.existingPeak

\* The lower bound of the peak variable.
LpPeakFloor(p) == Max({p.existingPeak} \cup {p.base[slot] : slot \in SlotSet})

LpObjective(p, rows) ==
  LET busy == {v[2] : v \in LpVariables(p)}
      peak == Max({LpPeakFloor(p)}
                    \cup {p.base[slot] + Charging(p, rows, slot) : slot \in busy})
      unserved == [c \in DOMAIN p.needs |-> p.needs[c].energy - Delivered(p, rows, c)]
  IN Kept(Connection) * EnergyScore(p, rows)
       + (IF PeakCoefficient(p) > 0 THEN PeakCoefficient(p) * peak ELSE 0)
       + Kept(Connection) * ShortfallPenalty * WeightUnit * NormUnit * Slots
           * SumOver(unserved)

(***************************************************************************)
(* checkDeadline, the check at intake.                                     *)
(***************************************************************************)
CheckDeadline(start, car) ==
  car.remaining = 0 \/ start * car.maxPower + car.remaining <= car.deadline * car.maxPower
=============================================================================
