------------------------------- MODULE Reports ------------------------------
(***************************************************************************)
(* The impact report of one session (ReportService, engine/emissions):     *)
(* meter readings weighted by the grid's intensity when they were drawn,   *)
(* against a charger that gives the same energy at full power at once.     *)
(* Time and energy are in units in which full power is one unit of energy  *)
(* per unit of time; the clock runs in steps of Tick units.                *)
(***************************************************************************)
EXTENDS Integers, Sequences, FiniteSets, FiniteSetsExt, SequencesExt

CONSTANTS
  Tick,
  Step,        \* SIGNAL_STEP_MINUTES
  PluggedIn,
  Powers,      \* energy a tick may take, 0..Tick
  Curves,      \* carbon intensity by step, as the grid may have it
  Scale,       \* a multiple of every interval's length, for whole divisions
  MaxTime

\* What the constants are taken to be.
ReportAssumption ==
  /\ {Tick, Step, Scale} \subseteq Nat \ {0} /\ {PluggedIn, MaxTime} \subseteq Nat
  /\ Powers \subseteq 0..Tick
  /\ Curves \subseteq [0..(MaxTime \div Step) -> Nat]
  /\ \A d \in 1..(MaxTime - PluggedIn) : d % Tick = 0 => Scale % d = 0

VARIABLES
  curve,
  now,
  register,
  readings,   \* what recordMeter stored: <<[ts, energy], ...>>
  ended,      \* unpluggedMs, or 0
  builds,     \* "end", "ask" -> what that buildFor works with, or Nothing
  report,     \* the one saved last, or Nothing
  overtaken   \* history: a provisional report was saved over the final one

reportVars == <<curve, now, register, readings, ended, builds, report, overtaken>>

Nothing == [readings |-> <<>>, until |-> -1, planned |-> 0]
Failed(build) == \E i \in 2..Len(build.readings) :
  build.readings[i].energy < build.readings[i - 1].energy

-----------------------------------------------------------------------------
(***************************************************************************)
(* engine/emissions.                                                       *)
(***************************************************************************)
\* intervalsFromReadings: [from, to, energy], with those that drew nothing left out.
IntervalsFromReadings(rs) ==
  {[from |-> rs[i - 1].ts, to |-> rs[i].ts, energy |-> rs[i].energy - rs[i - 1].energy] :
     i \in {i \in 2..Len(rs) : rs[i].energy > rs[i - 1].energy}}

TotalEnergy(intervals) == MapThenSumSet(LAMBDA v : v.energy, intervals)

Overlap(v, k) == Min({v.to, (k + 1) * Step}) - Max({v.from, k * Step})

\* weightedSum, Scale times over.
WeightedSum(intervals) ==
  MapThenSumSet(
    LAMBDA v : MapThenSumSet(
      LAMBDA k : ((v.energy * Scale * Overlap(v, k)) \div (v.to - v.from)) * curve[k],
      (v.from \div Step)..((v.to - 1) \div Step)),
    intervals)

\* Slip: the dumb charger gives what the session was planned to take.
BaselineOfThePlan(build, energy) ==
  IF build.planned <= 0 THEN {}
  ELSE {[from |-> PluggedIn, to |-> PluggedIn + build.planned, energy |-> build.planned]}

\* baselineIntervals: full power from plug-in until the same energy is delivered.
BaselineIntervals(build, energy) ==
  IF energy <= 0 THEN {}
  ELSE {[from |-> PluggedIn, to |-> PluggedIn + energy, energy |-> energy]}

\* Without readings the session's own count stands in, as if drawn at once.
Drawn(build) ==
  LET measured == IntervalsFromReadings(build.readings)
  IN IF measured # {} THEN measured ELSE BaselineIntervals(build, build.planned)

Energy(build) == TotalEnergy(Drawn(build))
Baseline(build) == BaselineIntervals(build, Energy(build))

\* buildSessionReport: what was avoided, Scale times over.
Avoided(build) == WeightedSum(Baseline(build)) - WeightedSum(Drawn(build))

\* greenScore: where the mean intensity lies in what the window offered.
Offered(build) == {curve[k] : k \in (PluggedIn \div Step)..Max({PluggedIn \div Step, (build.until - 1) \div Step})}
GreenScore(build) ==
  LET offered == Offered(build)
      spread == Max(offered) - Min(offered)
      under == Max(offered) * Energy(build) * Scale - WeightedSum(Drawn(build))
  IN IF spread < 1 \/ Energy(build) = 0 THEN 100
     ELSE Max({0, Min({100, (100 * under) \div (spread * Energy(build) * Scale)})})

-----------------------------------------------------------------------------
Init ==
  /\ curve \in Curves
  /\ now = PluggedIn
  /\ register = 0
  /\ readings = <<>>
  /\ ended = 0
  /\ builds = [b \in {"end", "ask"} |-> Nothing]
  /\ report = Nothing
  /\ overtaken = FALSE

Draws(energy) ==
  /\ ended = 0 /\ now + Tick <= MaxTime
  /\ now' = now + Tick
  /\ register' = register + energy
  /\ UNCHANGED <<curve, readings, ended, builds, report, overtaken>>

\* MemoryMeterRepo: the readings of a session, in the order they came.
Appended(reading) == Append(readings, reading)

\* recordMeter.  A register that falls by no more than one is taken as it comes.
Reads(energy) ==
  /\ ended = 0
  /\ readings # <<>> => Last(readings).ts < now /\ energy + 1 >= Last(readings).energy
  /\ readings' = Appended([ts |-> now, energy |-> energy])
  /\ UNCHANGED <<curve, now, register, ended, builds, report, overtaken>>

\* buildFor, as far as the signals it awaits: the readings are those of now.
Work == [readings |-> readings, until |-> now, planned |-> register]

\* Slip: a report that is being built is not built again.
EndsUnlessAsked ==
  /\ ended = 0 /\ now > PluggedIn
  /\ ended' = now
  /\ builds' = IF builds["ask"] = Nothing THEN [builds EXCEPT !["end"] = Work] ELSE builds
  /\ UNCHANGED <<curve, now, register, readings, report, overtaken>>

\* session.ended starts a report.
Ends ==
  /\ ended = 0 /\ now > PluggedIn
  /\ ended' = now
  /\ builds' = [builds EXCEPT !["end"] = Work]
  /\ UNCHANGED <<curve, now, register, readings, report, overtaken>>

\* provisionalFor: a finished session's report is read, any other is built.
Asks ==
  /\ builds["ask"] = Nothing
  /\ ended = 0 \/ report = Nothing
  /\ builds' = [builds EXCEPT !["ask"] = Work]
  /\ UNCHANGED <<curve, now, register, readings, ended, report, overtaken>>

Finishes(b) == builds' = [builds EXCEPT ![b] = Nothing]

\* MemoryReportRepo: one report of a session, the one that came last.
Save(build) == report' = build

\* The signals are there: the report is saved and announced.
Saves(b) ==
  /\ builds[b] # Nothing /\ ~Failed(builds[b])
  /\ Finishes(b)
  /\ Save(builds[b])
  /\ overtaken' = (overtaken \/ (/\ b = "ask" /\ ended > 0 /\ report.until = ended
                                  /\ builds[b].readings # readings))
  /\ UNCHANGED <<curve, now, register, readings, ended>>

\* "meter register fell ...; readings cannot be trusted"
Throws(b) ==
  /\ builds[b] # Nothing /\ Failed(builds[b])
  /\ Finishes(b)
  /\ UNCHANGED <<curve, now, register, readings, ended, report, overtaken>>

Next ==
  \/ \E energy \in Powers : Draws(energy)
  \/ \E energy \in {register, register - 1} \cap Nat : Reads(energy)
  \/ Ends \/ Asks
  \/ \E b \in {"end", "ask"} : Saves(b) \/ Throws(b)

\* Sources time out, so a build ends one way or the other; cars leave.
Fairness ==
  /\ \A b \in {"end", "ask"} : WF_reportVars(Saves(b) \/ Throws(b))
  /\ WF_reportVars(Ends)

Spec == Init /\ [][Next]_reportVars /\ Fairness

-----------------------------------------------------------------------------
Built == {report} \cup {builds[b] : b \in {"end", "ask"}}
Sound == {build \in Built : build # Nothing /\ ~Failed(build)}

\* No choice, no credit: where the grid offered one intensity only nothing was
\* avoided and the score is full, and a session that was charged at full power
\* from the start is its own baseline.
NothingShiftedNothingAvoided ==
  \A build \in Sound :
    /\ Cardinality(Offered(build)) = 1 => Avoided(build) = 0 /\ GreenScore(build) = 100
    /\ (build.readings # <<>> /\ Head(build.readings).ts = PluggedIn
          /\ \A i \in DOMAIN build.readings : build.readings[i].energy = build.readings[i].ts - PluggedIn)
         => Avoided(build) = 0

\* A session that ends with a meter that never fell is reported for good, and the
\* report holds all its readings unless one asked for before the end was finished
\* after it.
EndIsReported ==
  <>[](ended > 0 /\ ~Failed(Work) =>
         report # Nothing /\ (overtaken \/ report.readings = readings))
=============================================================================
