---------------------------- MODULE OptimiserLoop ----------------------------
(***************************************************************************)
(* The rolling horizon of one site: class OptimiserLoop                    *)
(* (apps/server/src/optimiser/loop.ts).                                    *)
(*                                                                         *)
(* Events ask for a solve, a debounce timer collapses them, and a solve in *)
(* progress queues one more.  A solve yields to the rest of the process    *)
(* three times: while it waits for the forecast, for the scheduler and for *)
(* the chargers.  All it knows of the sessions it read before the first of *)
(* them.  Sessions come and go and drivers become short of time as they    *)
(* will; every such change counts as a version of the site.                *)
(***************************************************************************)
EXTENDS Naturals, FiniteSets

CONSTANTS Sessions,
          OrdinaryInterval,   \* RESOLVE_INTERVAL_MIN
          AtRiskInterval,     \* AT_RISK_INTERVAL_MS, in minutes
          MaxVersion,         \* bound: changes that are announced by an event
          MaxFaults           \* bound: solves that fail, and silent changes

ASSUME IntervalAssumption ==
  /\ {OrdinaryInterval, AtRiskInterval, MaxVersion, MaxFaults} \subseteq Nat
  /\ AtRiskInterval \in 1..OrdinaryInterval

ASSUME SessionsAssumption == IsFiniteSet(Sessions)

VARIABLES started,       \* the interval timer runs and the bus is listened to
          debounce,      \* trigger of the armed debounce timer, or "none"
          phase,         \* where solve() waits; "idle" when solving is false
          queued,        \* queuedTrigger, "none" for null
          age,           \* minutes since lastSolveMs, up to OrdinaryInterval
          snapshot,      \* sessions the running (or last) solve has read
          verdict,       \* those of them it finds short or overdue
          atRisk,        \* atRiskCount
          seen,          \* version the running (or last) solve has read
          planned,       \* version of lastPlan
          failedAt,      \* version of the last solve that failed
          status,        \* the sessions in the repository
          flagged,       \* sessions marked deadlineRisk
          short,         \* sessions whose deadline is out of reach by now
          version,       \* announced changes so far
          faults         \* bounded: failures and silent changes so far

runVars == <<started, age, snapshot, verdict, atRisk, seen, planned, failedAt>>
worldVars == <<status, flagged, short, version, faults>>
vars == <<runVars, debounce, phase, queued, worldVars>>

Triggers == {"event", "session_updated", "deadline_risk", "interval", "operator_request"}
Phases == {"idle", "forecast", "scheduler", "dispatch"}

Active == {s \in Sessions : status[s] = "active"}

Init ==
  /\ started = TRUE
  /\ debounce = "none"
  /\ phase = "idle"
  /\ queued = "none"
  /\ age = OrdinaryInterval
  /\ snapshot = {}
  /\ verdict = {}
  /\ atRisk = 0
  /\ seen = 0
  /\ planned = 0
  /\ failedAt = 0
  /\ status = [s \in Sessions |-> "pending"]
  /\ flagged = {}
  /\ short = {}
  /\ version = 0
  /\ faults = 0

\* request(trigger): nothing more while the debounce timer is armed.
Request(trigger) == debounce' = IF debounce = "none" THEN trigger ELSE debounce

\* A handler of the bus, which stop() unsubscribes.
Hear(trigger) == IF started THEN Request(trigger) ELSE UNCHANGED debounce

\* Slip: a trigger that comes during a solve is dropped.
DropWhileSolving(trigger) ==
  IF phase = "idle"
  THEN /\ phase' = "forecast"
       /\ age' = 0
       /\ snapshot' = Active
       /\ verdict' = short
       /\ seen' = version
       /\ UNCHANGED <<started, queued, atRisk, planned, failedAt>>
  ELSE UNCHANGED <<runVars, phase, queued>>

\* solve(trigger), as far as its first wait.
Solve(trigger) ==
  IF phase = "idle"
  THEN /\ phase' = "forecast"
       /\ age' = 0
       /\ snapshot' = Active
       /\ verdict' = short
       /\ seen' = version
       /\ UNCHANGED <<started, queued, atRisk, planned, failedAt>>
  ELSE /\ queued' = trigger
       /\ UNCHANGED <<runVars, phase>>

DebounceFires ==
  /\ debounce # "none"
  /\ debounce' = "none"
  /\ Solve(debounce)
  /\ UNCHANGED worldVars

\* POST /sites/:siteId/replan, and index.ts at startup.
Operator ==
  /\ Solve("operator_request")
  /\ UNCHANGED <<debounce, worldVars>>

\* The finally of solve(), whatever became of the solve.
Finally ==
  /\ phase' = "idle"
  /\ queued' = "none"
  /\ IF queued = "none" THEN UNCHANGED debounce ELSE Request(queued)

ForecastReady ==
  /\ phase = "forecast"
  /\ phase' = "scheduler"
  /\ UNCHANGED <<runVars, debounce, queued, worldVars>>

\* Slip: solving is reset only where the solve succeeds.
SolveFailsForGood ==
  /\ phase \in {"forecast", "scheduler"}
  /\ faults < MaxFaults
  /\ faults' = faults + 1
  /\ failedAt' = seen
  /\ phase' = "failed"
  /\ UNCHANGED <<started, age, snapshot, verdict, atRisk, seen, planned, debounce, queued,
                 status, flagged, short, version>>

\* An exception on the way to the plan is caught by solve().
SolveFails ==
  /\ phase \in {"forecast", "scheduler"}
  /\ faults < MaxFaults
  /\ faults' = faults + 1
  /\ failedAt' = seen
  /\ Finally
  /\ UNCHANGED <<started, age, snapshot, verdict, atRisk, seen, planned, status, flagged, short, version>>

\* Slip: every session that was ever marked stays in the tally.
TallyOfAll(marks) == Cardinality(marks)

\* "Only sessions still in this plan count."
Tally(marks) == Cardinality(marks \cap snapshot)

\* Slip: setDeadlineRisk announces each session, changed or not.
AnnounceAll(marks) == IF snapshot = {} THEN UNCHANGED debounce ELSE Hear("session_updated")

\* setDeadlineRisk emits session.updated for a session whose mark changes.
Announce(marks) == IF marks = flagged THEN UNCHANGED debounce ELSE Hear("session_updated")

\* The scheduler answers: the plan is saved and emitted, and
\* flagDeadlineRisk marks every session of the snapshot.
PlanSolved ==
  LET marks == (flagged \ snapshot) \cup verdict
  IN  /\ phase = "scheduler"
      /\ phase' = "dispatch"
      /\ planned' = seen
      /\ flagged' = marks
      /\ atRisk' = Tally(marks)
      /\ Announce(marks)
      /\ UNCHANGED <<queued, started, age, snapshot, verdict, seen, failedAt,
                     status, short, version, faults>>

\* dispatcher.apply returns: it catches what the chargers do.
Dispatched ==
  /\ phase = "dispatch"
  /\ Finally
  /\ UNCHANGED <<runVars, worldVars>>

Interval == IF atRisk > 0 THEN AtRiskInterval ELSE OrdinaryInterval

\* A minute passes, and the interval timer looks at the clock.
Tick ==
  /\ age' = IF age < OrdinaryInterval THEN age + 1 ELSE age
  /\ IF started /\ age' >= Interval
     THEN Request(IF atRisk > 0 THEN "deadline_risk" ELSE "interval")
     ELSE UNCHANGED debounce
  /\ UNCHANGED <<started, phase, queued, snapshot, verdict, atRisk, seen, planned, failedAt, worldVars>>

Stop ==
  /\ started
  /\ started' = FALSE
  /\ debounce' = "none"
  /\ UNCHANGED <<phase, queued, age, snapshot, verdict, atRisk, seen, planned, failedAt, worldVars>>

-----------------------------------------------------------------------------
(* The site. *)

\* An announced change: a car comes or goes, a deadline or a flexibility
\* request moves, a charger drops.  Any active session may come to be short.
Change ==
  /\ version < MaxVersion
  /\ version' = version + 1
  /\ \/ UNCHANGED status
     \/ \E s \in Sessions : status[s] = "pending" /\ status' = [status EXCEPT ![s] = "active"]
     \/ \E s \in Active : status' = [status EXCEPT ![s] = "ended"]
  /\ short' \in SUBSET {s \in Sessions : status'[s] = "active"}
  /\ Hear("event")
  /\ UNCHANGED <<runVars, phase, queued, flagged, faults>>

\* Time and the forecast move on without an event.
Drift ==
  /\ faults < MaxFaults
  /\ faults' = faults + 1
  /\ short' \in SUBSET Active
  /\ UNCHANGED <<runVars, debounce, phase, queued, status, flagged, version>>

Next ==
  \/ DebounceFires \/ Operator \/ ForecastReady \/ SolveFails \/ PlanSolved \/ Dispatched
  \/ Tick \/ Stop
  \/ Change \/ Drift

Spec == Init /\ [][Next]_vars

\* Timers fire, time passes, and every wait of a solve ends: the forecast and the
\* scheduler have time limits, and so has every CALL to a charger.
FairSpec ==
  /\ Spec
  /\ WF_vars(DebounceFires) /\ WF_vars(Tick)
  /\ WF_vars(ForecastReady \/ SolveFails) /\ WF_vars(PlanSolved \/ SolveFails) /\ WF_vars(Dispatched)

-----------------------------------------------------------------------------
(* Properties. *)

TypeOK ==
  /\ started \in BOOLEAN
  /\ debounce \in Triggers \cup {"none"}
  /\ phase \in Phases
  /\ queued \in Triggers \cup {"none"}
  /\ age \in 0..OrdinaryInterval
  /\ snapshot \in SUBSET Sessions
  /\ verdict \in SUBSET snapshot
  /\ atRisk \in 0..Cardinality(Sessions)
  /\ seen \in Nat /\ planned \in Nat /\ failedAt \in Nat
  /\ status \in [Sessions -> {"pending", "active", "ended"}]
  /\ flagged \in SUBSET Sessions
  /\ short \in SUBSET Active
  /\ version \in Nat
  /\ faults \in Nat

\* A change that no plan has seen yet is on its way into one: the debounce timer
\* is armed, or a solve is queued, or the running solve has read it.  Only a
\* solve that failed on this very version leaves it to the interval timer.
NoTriggerLost ==
  started /\ version \notin {planned, failedAt} =>
    \/ debounce # "none"
    \/ queued # "none"
    \/ phase \in {"forecast", "scheduler"} /\ seen = version

\* A queued trigger waits for a running solve, whose end picks it up.
QueuedOnlyWhileSolving == queued # "none" => phase # "idle"

\* Every change gets into a plan, even if solves fail on the way, unless the loop
\* is stopped.
EveryChangeIsPlanned == \A v \in 1..MaxVersion : version = v ~> planned >= v \/ ~started

\* "leaving it in the tally would hold the loop at the faster cadence forever":
\* once nobody is short any more, the loop is back at the ordinary cadence.
CalmsDown == <>[](short = {}) => <>[](atRisk = 0 \/ ~started)

\* Marking the sessions announces itself to the loop, but the loop does not keep
\* itself awake with that: once the site and the operator are quiet, no solve is
\* due to an announcement any more.
DoesNotFeedItself == <>[][~Operator]_vars => <>[](debounce # "session_updated")
=============================================================================
