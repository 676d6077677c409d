------------------------------ MODULE Scheduler -----------------------------
(***************************************************************************)
(* One run of the ResilientScheduler on a problem: the linear program, or, *)
(* when its solver fails, the greedy plan, built slot by slot under one    *)
(* ceiling after another.  HiGHS is external: it returns some feasible     *)
(* point of the model it is given, or it fails.                            *)
(***************************************************************************)
EXTENDS SiteProblem, Sequences

CONSTANTS
  Times,         \* moments at which a solve may start
  CarStates,     \* states a session and its charger may be in
  FlexEvents,    \* sets of flex events that may be on file
  Peaks,         \* peaks the demand meter may have seen
  LpLevels,      \* the fractions of a car's power, over four, an LP point uses
  CeilingSteps   \* ceilingSteps

ASSUME SchedulerAssumption ==
  /\ Cars \subseteq Nat
  /\ Times \subseteq Nat /\ Peaks \subseteq Nat
  /\ CeilingSteps \in Nat \ {0}
  /\ \A car \in CarStates :
       /\ car.maxPower \in Nat \ {0} /\ car.remaining \in Nat
       /\ car.pluggedIn \in Nat /\ car.deadline \in Nat
       /\ car.mode \in DOMAIN Modes
  /\ \A events \in FlexEvents : \A e \in events : e.cap \in Nat

VARIABLES
  now, cars,   \* the site as the solve found it
  problem,
  stage,       \* "built", "greedy" or "done"
  pass,        \* which search for a ceiling: "open", "coarse" or "fine"
  ceilings,    \* ceilings of this pass still to be tried
  ceiling,     \* the one being tried
  rows,        \* car -> slot -> power
  used,        \* slot -> power given away
  left,        \* car -> energy still wanted
  visited,     \* car -> slots looked at
  best,        \* attempts so far: <<>> or the best one, with its evaluation
  open         \* history: the attempt without a ceiling

vars == <<now, cars, problem, stage, pass, ceilings, ceiling, rows, used, left,
          visited, best, open>>

Fleet == DOMAIN problem.needs
NoRows == [c \in Fleet |-> [slot \in SlotSet |-> 0]]
NoLoad == [slot \in SlotSet |-> 0]
Evaluated(r, u, limit) ==
  [rows |-> r, used |-> u, ceiling |-> limit,
   missing |-> Shortfall(problem, r), objective |-> Objective(problem, r)]

Init ==
  /\ now \in Times
  /\ cars \in [Cars -> CarStates]
  /\ \E events \in FlexEvents : \E peak \in Peaks :
       problem = BuildProblem(now, cars, events, peak)
  /\ stage = "built" /\ pass = "open" /\ ceilings = <<>> /\ ceiling = 0
  /\ rows = NoRows /\ used = NoLoad /\ visited = [c \in Fleet |-> {}]
  /\ left = [c \in Fleet |-> problem.needs[c].energy]
  /\ best = <<>> /\ open = <<>>

(***************************************************************************)
(* The primary solver.  A malformed problem is not approximated: with      *)
(* validateProblem refusing it, the solve ends without a plan.             *)
(***************************************************************************)
LpPoints ==
  {r \in [Fleet -> [SlotSet -> UNION {{(problem.needs[c].maxPower * k) \div 4 :
                                         k \in LpLevels} : c \in Fleet}]] :
     LpFeasible(problem, r)}

\* solveLp; without a variable the solver is not asked.
LpSolves ==
  /\ stage = "built" /\ ValidateProblem(problem)
  /\ \E r \in (IF LpVariables(problem) = {} THEN {NoRows} ELSE LpPoints) :
       /\ rows' = r
       /\ used' = [slot \in SlotSet |-> Charging(problem, r, slot)]
       /\ best' = Evaluated(r, used', Kept(Connection))
  /\ stage' = "done"
  /\ UNCHANGED <<now, cars, problem, pass, ceilings, ceiling, left, visited, open>>

(***************************************************************************)
(* solveGreedy.                                                            *)
(***************************************************************************)
Upper == Max({Headroom(problem)[slot] + problem.base[slot] : slot \in SlotSet})
Lower == Smaller(Upper, Max({problem.existingPeak} \cup {problem.base[slot] : slot \in SlotSet}))
ShavePeak == problem.peakWeight > 0 /\ Fleet # {} /\ Upper > Lower

Linspace(from, to) ==
  IF to <= from THEN <<to>>
  ELSE [k \in 1..(CeilingSteps + 1) |-> from + ((to - from) * (k - 1)) \div CeilingSteps]

\* Slip: the building's load is not taken off the ceiling.
LimitOfTheGridOnly(slot) == Smaller(Kept(Connection), ceiling)

\* What charging may draw in a slot under the ceiling.
Limit(slot) ==
  Smaller(Headroom(problem)[slot], Larger(0, ceiling - problem.base[slot]))

\* orderByLaxity: least slack first, then the earlier last slot, then the index.
Active(c) == {slot \in SlotSet : problem.needs[c].hours[slot] > 0}
Laxity(c) == problem.needs[c].maxPower * Total(problem.needs[c].hours) - problem.needs[c].energy
LastSlot(c) == Max({-1} \cup Active(c))
Before(c, d) ==
  LET lc == Laxity(c) * problem.needs[d].maxPower
      ld == Laxity(d) * problem.needs[c].maxPower
  IN \/ lc < ld
     \/ lc = ld /\ LastSlot(c) < LastSlot(d)
     \/ lc = ld /\ LastSlot(c) = LastSlot(d) /\ c < d

\* rankSlots: the better score, then the earlier slot.
Better(c, s, t) ==
  LET ss == SlotScore(problem.needs[c].weights, s)
      st == SlotScore(problem.needs[c].weights, t)
  IN ss < st \/ (ss = st /\ s < t)

Unserved(c) == left[c] > 0 /\ Active(c) \ visited[c] # {}
NextCar(c) == Unserved(c) /\ \A d \in Fleet \ {c} : Unserved(d) => Before(c, d)
NextSlot(c, slot) ==
  /\ slot \in Active(c) \ visited[c]
  /\ \A t \in Active(c) \ (visited[c] \cup {slot}) : Better(c, slot, t)

Begin(limit) ==
  /\ ceiling' = limit
  /\ rows' = NoRows /\ used' = NoLoad /\ visited' = [c \in Fleet |-> {}]
  /\ left' = [c \in Fleet |-> problem.needs[c].energy]

\* The solver threw: no solution within the time limit, or no working module.
LpFails ==
  /\ stage = "built" /\ ValidateProblem(problem) /\ LpVariables(problem) # {}
  /\ stage' = "greedy"
  /\ Begin(Upper)
  /\ UNCHANGED <<now, cars, problem, pass, ceilings, best, open>>

\* Slip: every car is given the slot as if it were alone.
RoomOfOne(c, slot) == Smaller(problem.needs[c].maxPower, Limit(slot))

Room(c, slot) == Smaller(problem.needs[c].maxPower, Limit(slot) - used[slot])

\* The power that delivers the energy in these ticks.
PowerFor(energy, hours) == (energy + hours - 1) \div hours

\* One slot of fillUnderCeiling.
FillSlot(c, slot) ==
  LET hours == problem.needs[c].hours[slot]
      power == Smaller(Room(c, slot), PowerFor(left[c], hours))
  IN /\ stage = "greedy" /\ NextCar(c) /\ NextSlot(c, slot)
     /\ visited' = [visited EXCEPT ![c] = @ \cup {slot}]
     /\ IF Room(c, slot) > 0
        THEN /\ rows' = [rows EXCEPT ![c][slot] = power]
             /\ used' = [used EXCEPT ![slot] = @ + power]
             /\ left' = [left EXCEPT ![c] = Larger(0, @ - power * hours)]
        ELSE UNCHANGED <<rows, used, left>>
     /\ UNCHANGED <<now, cars, problem, stage, pass, ceilings, ceiling, best, open>>

\* pickBest: a later attempt has to be better.
Picked(attempt) ==
  IF best = <<>> THEN attempt
  ELSE IF attempt.objective < best.objective THEN attempt ELSE best

\* The ceilings of the next pass: the whole range, then around the best one.
Width == (Upper - Lower) \div CeilingSteps
NextCeilings(winner) ==
  CASE pass = "open"   -> Linspace(Lower, Upper)
    [] pass = "coarse" -> Linspace(Larger(Lower, winner.ceiling - Width),
                                   Smaller(Upper, winner.ceiling + Width))
    [] pass = "fine"   -> <<>>

AttemptEnds ==
  LET attempt == Evaluated(rows, used, ceiling)
      winner == Picked(attempt)
      more == IF ceilings # <<>> THEN ceilings
              ELSE IF ShavePeak THEN NextCeilings(winner) ELSE <<>>
  IN /\ stage = "greedy" /\ \A c \in Fleet : ~Unserved(c)
     /\ best' = winner
     /\ open' = IF pass = "open" THEN attempt ELSE open
     /\ IF more # <<>>
        THEN /\ Begin(Head(more))
             /\ ceilings' = Tail(more)
             /\ pass' = IF ceilings # <<>> THEN pass
                        ELSE IF pass = "open" THEN "coarse" ELSE "fine"
             /\ UNCHANGED stage
        ELSE /\ stage' = "done"
             /\ UNCHANGED <<pass, ceilings, ceiling, rows, used, left, visited>>
     /\ UNCHANGED <<now, cars, problem>>

Next ==
  \/ LpSolves \/ LpFails \/ AttemptEnds
  \/ \E c \in Fleet : \E slot \in SlotSet : FillSlot(c, slot)

Spec == Init /\ [][Next]_vars

(***************************************************************************)
(* Properties.                                                             *)
(***************************************************************************)
\* No plan, under construction or finished, gives away more than a slot has left
\* of the connection or the cap, more than a car takes, or anything to a car that
\* is not there (fillUnderCeiling, buildLpModel).
PlanIsSafe ==
  /\ \A slot \in SlotSet :
       /\ used[slot] <= Headroom(problem)[slot]
       /\ best # <<>> => best.used[slot] <= Headroom(problem)[slot]
  /\ \A c \in Fleet : \A slot \in SlotSet :
       /\ rows[c][slot] \in 0..problem.needs[c].maxPower
       /\ rows[c][slot] > 0 => problem.needs[c].hours[slot] > 0

\* When a greedy attempt leaves a car short, every slot of the car's window has
\* the car at full power or the site at the ceiling: what is given away is just
\* what the rows add up to, and no room is left lying (fillUnderCeiling).
ShortfallIsForced ==
  (stage = "greedy" /\ \A c \in Fleet : ~Unserved(c)) =>
    \A c \in Fleet : left[c] > 0 =>
      \A slot \in Active(c) :
        \/ rows[c][slot] = problem.needs[c].maxPower
        \/ Charging(problem, rows, slot) = Limit(slot)

\* The search for a lower peak never costs a driver energy: the plan that is
\* chosen leaves no more undelivered than the one without a ceiling
\* (solveGreedy, evaluatePlan's SHORTFALL_PENALTY).
ShavingCostsNobody ==
  (stage = "done" /\ open # <<>>) => best.missing <= open.missing

\* A car of the plan that the intake check calls feasible now, whose deadline lies
\* within the horizon, and that the site could charge with all the others at once.
Promised(c) ==
  /\ CheckDeadline(Larger(now, cars[c].pluggedIn), cars[c])
  /\ cars[c].deadline <= SlotStart(now, Slots)
  /\ \A slot \in Active(c) :
       Headroom(problem)[slot] >= SumOver([d \in Fleet |-> problem.needs[d].maxPower])

\* The ticks of a car's stay that lie in a slot of which it has less than a minute.
Scraps(c) ==
  LET stay == Larger(now, cars[c].pluggedIn)..(cars[c].deadline - 1)
      shared(t) == {u \in stay : FloorToStep(u) = FloorToStep(t)}
  IN  {t \in stay : Cardinality(shared(t)) < MinWindow}

\* What the intake check calls feasible is kept by the plan, but for what the car
\* could take in the scraps of a minute at either end of its stay (checkDeadline,
\* windowHours, solveGreedy).
IntakeHolds ==
  (stage = "done" /\ open # <<>>) =>
    \A c \in Fleet : Promised(c) =>
      Missing(problem, best.rows, c) <= cars[c].maxPower * Cardinality(Scraps(c))

\* "Normalised objective, computed the same way for every solver so plans are
\* comparable" (schedule.ts): the greedy plan is a point of the linear program,
\* and what the program minimises is what evaluatePlan reports.
SolversAgree ==
  stage = "done" =>
    /\ LpFeasible(problem, best.rows)
    /\ LpObjective(problem, best.rows) = best.objective

=============================================================================
