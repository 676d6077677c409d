---------------------------- MODULE MCBookkeeping ---------------------------
(***************************************************************************)
(* The keepers of a site's books, which share no state: demand meter, grid *)
(* signals and their forecast, reports, and the mirror of the repositories.*)
(* One behaviour is a behaviour of one of them, the others rest.           *)
(***************************************************************************)
EXTENDS Integers, Mirror, GridSignals

CONSTANTS a, b, c1, c2, s1, s2, b1, b2

VARIABLES
  part,
  meterNow, lastReading, firstKwh, endedSessions, bucketsKwh, closed, peakKwSeen,
  curve, reportNow, register, readings, ended, builds, report, overtaken,
  place, startMs, wallNow, answers, snapshot

Demand == INSTANCE DemandMeter WITH
  Sessions <- {a, b}, SlotLength <- 2, BaseLoadKw <- [t \in 0..7 |-> IF t < 4 THEN 1 ELSE 3],
  Power <- 6, MaxSilence <- 2, MaxTime <- 7, now <- meterNow, ended <- endedSessions

Report == INSTANCE Reports WITH
  Tick <- 2, Step <- 4, PluggedIn <- 2, Powers <- {0, 1, 2}, Scale <- 12, MaxTime <- 8,
  Curves <- {[i \in 0..2 |-> c[i + 1]] : c \in {<<3, 3, 3>>, <<1, 3, 1>>}},
  now <- reportNow

Sky(clearness, station, hub) == [clearness |-> clearness, station |-> station, hub |-> hub]
Place(country, region, offset) == [country |-> country, region |-> region, offset |-> offset]
Forecast == INSTANCE LiveForecast WITH
  Places <- {Place("GB", "H", 60), Place("IN", "GJ", 330), Place("IN", "KA", 330), Place("FR", "X", 120)},
  Starts <- {690, 1065}, Hours <- 2, Carbons <- {100, 800}, Prices <- {-2}, Shares <- {0, 90},
  Skies <- {Sky(0, 0, 0), Sky(70, 20, -1), Sky(0, 0, 50), Sky(50, 30, 30), Sky(120, 5, 95)}

ASSUME /\ Forecast!LiveAssumption
       /\ Demand!MeterAssumption
       /\ Report!ReportAssumption /\ MirrorAssumption

meterVars == <<meterNow, lastReading, firstKwh, endedSessions, bucketsKwh, closed, peakKwSeen>>
reportVars == <<curve, reportNow, register, readings, ended, builds, report, overtaken>>
forecastVars == <<place, startMs, wallNow, answers, snapshot>>

BooksInit ==
  /\ part \in {"meter", "signals", "reports", "mirror", "forecast"}
  /\ Demand!MeterInit /\ SignalsInit /\ Report!Init /\ Init /\ Forecast!Init
  /\ part # "reports" => curve = [i \in 0..2 |-> 3]
  /\ part # "forecast" => place.country = "GB" /\ startMs = 690 /\ wallNow = 690

InMeter(Action) == part = "meter" /\ Action /\ UNCHANGED <<part, signalVars, reportVars, vars, forecastVars>>
InSignals(Action) == part = "signals" /\ Action /\ UNCHANGED <<part, meterVars, reportVars, vars, forecastVars>>
InReports(Action) == part = "reports" /\ Action /\ UNCHANGED <<part, meterVars, signalVars, vars, forecastVars>>
InMirror(Action) == part = "mirror" /\ Action /\ UNCHANGED <<part, meterVars, signalVars, reportVars, forecastVars>>
InForecast(Action) == part = "forecast" /\ Action /\ UNCHANGED <<part, meterVars, signalVars, reportVars, vars>>

BooksNext ==
  \/ InMeter(Demand!MeterNext) \/ InSignals(SignalsNext) \/ InReports(Report!Next)
  \/ InMirror(Next) \/ InForecast(Forecast!Next)

allVars == <<part, meterVars, signalVars, reportVars, vars, forecastVars>>

\* A build ends, a car leaves (Reports); a timer fires, a request to the database ends (Mirror).
BooksFairness ==
  /\ \A d \in {"end", "ask"} : WF_allVars(InReports(Report!Saves(d) \/ Report!Throws(d)))
  /\ WF_allVars(InReports(Report!Ends))
  /\ WF_allVars(InMirror(TimerFires)) /\ WF_allVars(InMirror(WriteAnswered))

BooksSpec == BooksInit /\ [][BooksNext]_allVars /\ BooksFairness

\* Every unit a car drew is in exactly one interval, the peak is one the site had (DemandMeter), a
\* report avoids nothing where nothing was shifted or nothing was to choose from (Reports), and a
\* forecast is whole, keeps to its sources and to the site's own grid, whichever feeds fail
\* (LiveForecast).
BooksAreTrue ==
  /\ Demand!MeteredIsDrawn /\ Demand!PeakIsReal /\ Report!NothingShiftedNothingAvoided
  /\ Forecast!ForecastIsSound
\* A session that ends is reported for good (Reports).
EndIsReported == Report!EndIsReported
=============================================================================
