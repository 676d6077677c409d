----------------------------- MODULE GridSignals ----------------------------
(***************************************************************************)
(* The grid signals of one site (ForecastService with the live provider):  *)
(* a cached snapshot that several callers refresh at once, the samples it  *)
(* leaves on a grid of quarter hours, and the history a report reads back. *)
(* A value of a series is known by the period it is about; a snapshot is   *)
(* known by where it starts, which source answered and when it was asked.  *)
(***************************************************************************)
EXTENDS Integers, FiniteSets, FiniteSetsExt

CONSTANTS
  Callers,     \* the solves and routes that ask for a snapshot
  Step,        \* SIGNAL_STEP_MINUTES, in ticks
  LiveStep,    \* STEP_MINUTES of the live provider
  Refresh,     \* refreshMinutes
  Lookback,    \* how far before now a snapshot starts
  Horizon,     \* how much a snapshot spans
  Jumps,       \* times the demo clock may be set to
  MaxTime

\* What the constants are taken to be.
ASSUME SignalAssumption ==
  /\ {Step, LiveStep, Refresh, Lookback, Horizon} \subseteq Nat \ {0}
  /\ LiveStep % Step = 0 /\ Lookback + Refresh + Step <= Horizon
  /\ MaxTime \in Nat /\ Lookback <= MaxTime /\ Jumps \subseteq Lookback..MaxTime

VARIABLES
  now,
  cache,     \* the snapshot kept, and fetchedMs; NoSnapshot if there is none
  callers,   \* caller -> [at, asked, held]: a fetch it awaits
  stored,    \* kind -> slot -> the period its sample is about
  covered    \* history: quarter hours that some snapshot covered

signalVars == <<now, cache, callers, stored, covered>>

NoSnapshot == [start |-> 0, source |-> "none", fetched |-> 0]
Idle == [at |-> "idle", asked |-> 0, held |-> NoSnapshot]

FloorTo(t, step) == t - (t % step)
CeilTo(t, step) == FloorTo(t + step - 1, step)
Round(n, d) == (2 * n + d) \div (2 * d)
Clamp(i, lo, hi) == Max({lo, Min({i, hi})})

-----------------------------------------------------------------------------
(***************************************************************************)
(* Series.  A live one holds the last half hour that had begun when a step *)
(* of it starts (alignedSeries), whether or not the step starts on one.    *)
(***************************************************************************)
StepOf(snap) == IF snap.source = "live" THEN LiveStep ELSE Step
Length(snap) == (Horizon + StepOf(snap) - 1) \div StepOf(snap)
Series(snap) ==
  [i \in 0..(Length(snap) - 1) |->
     LET point == snap.start + i * StepOf(snap)
     IN IF snap.source = "live" THEN FloorTo(point, LiveStep) ELSE point]

\* Half hours of a snapshot that the grid operator has measured when it answers;
\* it does not forget them when the demo clock is set back.
Measured(snap) ==
  {p \in FloorTo(snap.start, LiveStep)..(Max({now, snap.fetched}) - LiveStep) : p % LiveStep = 0}

ActualSteps(snap) == Max({1, Round(Max(Measured(snap)) - snap.start, LiveStep) + 1})

\* The last half hour measured is held to the end.
ActualSeries(snap) ==
  [i \in 0..(ActualSteps(snap) - 1) |->
     Min({FloorTo(snap.start + i * LiveStep, LiveStep), Max(Measured(snap))})]

HasActual(snap) == snap.source = "live" /\ Measured(snap) # {}

\* valueAtClamped
ValueAt(series, start, step, t) ==
  series[Clamp((t - start) \div step, 0, Cardinality(DOMAIN series) - 1)]

\* Slip: stored at the step the provider answered in.
SlotsAtProvidersStep(start, n, step) == {start + i * step : i \in 0..(n - 1)}

\* The quarter hours that a series of n steps is stored under.
SlotsOf(start, n, step) ==
  {FloorTo(start, Step) + i * Step : i \in 0..(Max({1, Round(n * step, Step)}) - 1)}

\* toSamples: every slot read at its middle.
Samples(series, start, step) ==
  [slot \in SlotsOf(start, Cardinality(DOMAIN series), step) |->
     ValueAt(series, start, step, slot + Step \div 2)]

-----------------------------------------------------------------------------
SignalsInit ==
  /\ now = Lookback
  /\ cache = NoSnapshot
  /\ callers = [c \in Callers |-> Idle]
  /\ stored = [kind \in {"carbon", "actual_carbon"} |-> [slot \in {} |-> 0]]
  /\ covered = {}

Serves ==
  /\ cache # NoSnapshot
  /\ cache.start <= now
  /\ now - cache.fetched < Refresh

\* snapshot, served from the cache.
Cached(c) ==
  /\ callers[c].at = "idle" /\ Serves
  /\ UNCHANGED signalVars

\* snapshot, as far as the provider's answer it awaits.
Asks(c) ==
  /\ callers[c].at = "idle" /\ ~Serves
  /\ callers' = [callers EXCEPT ![c] = [at |-> "fetching", asked |-> now, held |-> cache]]
  /\ UNCHANGED <<now, cache, stored, covered>>

StartOf(c) == FloorTo(callers[c].asked - Lookback, Step)
Returns(c) == callers' = [callers EXCEPT ![c] = Idle]

\* MemorySignalRepo.upsertMany: a sample takes the place of its slot's.
upsertMany(kind, samples) ==
  [slot \in DOMAIN samples \cup DOMAIN stored[kind] |->
     IF slot \in DOMAIN samples THEN samples[slot] ELSE stored[kind][slot]]

\* The snapshot is cached under the time it was asked for, its samples replace
\* those of their slots (persist), and it is announced.
Keeps(snap) ==
  /\ cache' = snap
  /\ stored' =
       [stored EXCEPT
          !["carbon"] = upsertMany("carbon", Samples(Series(snap), snap.start, StepOf(snap))),
          !["actual_carbon"] = IF HasActual(snap)
                               THEN upsertMany("actual_carbon",
                                               Samples(ActualSeries(snap), snap.start, LiveStep))
                               ELSE @]
  /\ covered' = covered \cup
       {q \in 0..(snap.start + Horizon - 1) : q >= snap.start /\ q % Step = 0}

Answers(c) ==
  /\ callers[c].at = "fetching"
  /\ LET snap == [start |-> StartOf(c), source |-> "live", fetched |-> callers[c].asked]
     IN Keeps(snap) /\ Returns(c)
  /\ UNCHANGED now

\* The source fails: the snapshot held when the caller asked is as good as it
\* gets, and the daily model stands in where there is none.
Fails(c) ==
  /\ callers[c].at = "fetching"
  /\ IF callers[c].held # NoSnapshot
     THEN Returns(c) /\ UNCHANGED <<cache, stored, covered>>
     ELSE LET snap == [start |-> StartOf(c), source |-> "synthetic", fetched |-> callers[c].asked]
          IN Keeps(snap) /\ Returns(c)
  /\ UNCHANGED now

Tick ==
  /\ now < MaxTime
  /\ now' = now + 1
  /\ UNCHANGED <<cache, callers, stored, covered>>

\* SimClock.jumpTo, either way.
Jump(t) ==
  /\ t # now
  /\ now' = t
  /\ UNCHANGED <<cache, callers, stored, covered>>

SignalsNext ==
  \/ \E c \in Callers : Cached(c) \/ Asks(c) \/ Answers(c) \/ Fails(c)
  \/ Tick
  \/ \E t \in Jumps : Jump(t)

SignalsSpec == SignalsInit /\ [][SignalsNext]_signalVars

-----------------------------------------------------------------------------
(***************************************************************************)
(* historicalSignals, for the carbon of a window that has passed.          *)
(***************************************************************************)
Window(from, to) ==
  LET start == FloorTo(from, Step)
      end == Max({CeilTo(to, Step), start + Step})
  IN {q \in start..(end - 1) : q % Step = 0}

ListedSlots(kind, from, to) == {slot \in DOMAIN stored[kind] :
  FloorTo(from, Step) <= slot /\ slot < Max({CeilTo(to, Step), FloorTo(from, Step) + Step})}

Basis(from, to) ==
  IF Cardinality(ListedSlots("actual_carbon", from, to)) >= Cardinality(Window(from, to))
  THEN "actual" ELSE "forecast"

SourceOf(from, to) == IF Basis(from, to) = "actual" THEN "actual_carbon" ELSE "carbon"

\* Quarter hours of the window that are found in the store; the others are
\* asked for again.
Found(from, to) == Window(from, to) \cap DOMAIN stored[SourceOf(from, to)]

\* Sessions in the past, up to the quarter hours they began and ended in.
Windows == {w \in (0..now) \X (0..now) : w[1] < w[2] /\ w[1] % Step = 0 /\ w[2] % Step = 0}

\* "A stored signal is only useful if it can be found again" (service.ts:22):
\* whatever steps the source answers in and whatever time the snapshot was asked
\* at, a report finds every quarter hour some snapshot covered.
HistoryIsFound ==
  \A w \in Windows : Window(w[1], w[2]) \cap covered \subseteq Found(w[1], w[2])

\* A report that says "actual" leaves no quarter hour to a forecast: each is
\* stored, with the measurement of its own half hour or of the one before
\* (actualSteps, alignedSeries, persist).
ActualIsNotForecast ==
  \A w \in Windows : Basis(w[1], w[2]) = "actual" =>
    /\ Window(w[1], w[2]) \subseteq Found(w[1], w[2])
    /\ \A q \in Window(w[1], w[2]) :
         FloorTo(q, LiveStep) - stored["actual_carbon"][q] \in {0, LiveStep}

SignalsAreTrue == HistoryIsFound /\ ActualIsNotForecast
=============================================================================
