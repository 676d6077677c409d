----------------------------- MODULE LiveForecast ----------------------------
(***************************************************************************)
(* How a forecast of the grid is put together: five feeds, which answer,   *)
(* answer with nothing or fail each on its own, a model of the grid for    *)
(* what they leave out, and the weather that corrects the model.  What     *)
(* becomes of a snapshot is GridSignals'.                                  *)
(*                                                                         *)
(* Times are minutes, shares and factors per cent, carbon g/kWh and prices *)
(* hundredths of the site's currency; results are rounded down.            *)
(***************************************************************************)
EXTENDS Integers, Sequences, FiniteSets

CONSTANTS
  Places,      \* a site's [country, region, offset (of its local time)]
  Starts,      \* when a forecast may begin
  Hours,       \* its length
  Carbons, Prices, Shares, Skies   \* values the feeds may give

LiveAssumption ==
  /\ Starts \subseteq Nat /\ Hours \in Nat /\ Carbons \subseteq Nat /\ Prices \subseteq Int
  /\ Shares \subseteq 0..100

VARIABLES
  place, startMs,
  wallNow,     \* the real clock, which the site's may be ahead of
  answers,     \* what each feed gave, Waiting or Failed
  snapshot     \* Nothing until all have

vars == <<place, startMs, wallNow, answers, snapshot>>

STEP_MINUTES == 30
None == -1     \* null: no figure, no sun to be clear
Answer(how, points) == [how |-> how, points |-> points]
Waiting == Answer("waiting", {})
Failed == Answer("failed", {})
Nothing == <<>>
Feeds == {"carbon", "price", "mix", "weather", "maps"}
steps == (Hours * 60) \div STEP_MINUTES
SlotAt(i) == startMs + (i - 1) * STEP_MINUTES

Smaller(a, b) == IF a < b THEN a ELSE b
Greater(a, b) == IF a > b THEN a ELSE b
Clamp(v, low, high) == Smaller(high, Greater(v, low))
MaxOf(s) == CHOOSE v \in s : \A w \in s : w <= v
MinOf(s) == CHOOSE v \in s : \A w \in s : v <= w
ValuesOf(s) == {s[i] : i \in DOMAIN s}

-----------------------------------------------------------------------------
(* The grids that are modelled; a curve has a value for every third hour.    *)

GB ==
  [carbon |-> <<230, 195, 300, 420, 190, 210, 690, 420>>, price |-> <<9, 8, 14, 22, 16, 18, 42, 24>>,
   renewable |-> <<46, 52, 38, 30, 72, 66, 18, 36>>, solar |-> 25, firmShare |-> 6, mapsZone |-> "GB"]
INDIA ==
  [carbon |-> <<715, 700, 675, 590, 470, 515, 790, 760>>,
   price |-> <<700, 650, 800, 920, 760, 810, 1240, 1020>>,
   renewable |-> <<22, 25, 20, 35, 54, 45, 11, 15>>, solar |-> 62, firmShare |-> 10, mapsZone |-> "IN-SO"]
GUJARAT ==
  [carbon |-> <<655, 635, 605, 470, 330, 405, 725, 700>>,
   price |-> <<420, 420, 490, 670, 520, 520, 670, 620>>,
   renewable |-> <<18, 20, 23, 43, 62, 50, 13, 16>>, solar |-> 55, firmShare |-> 4, mapsZone |-> "IN-WE"]

Regional(p) == p.country = "IN" /\ p.region = "GJ"
gridProfileFor(p) == CASE Regional(p) -> GUJARAT [] p.country = "IN" -> INDIA [] OTHER -> GB
\* Slip: the zone of whatever profile is used.
mapsZoneOfProfile(p) == gridProfileFor(p).mapsZone
mapsZoneFor(p) == IF p.country \in {"GB", "IN"} THEN gridProfileFor(p).mapsZone ELSE "by coordinates"
gridNameFor(p) == IF Regional(p) THEN "IN-GJ" ELSE p.country

\* Piecewise linear around the clock.
interpolateDaily(curve, minute) ==
  LET wrapped == minute % 1440
      before == curve[(wrapped \div 180) + 1]
      after == curve[(((wrapped \div 180) + 1) % 8) + 1]
  IN before + ((after - before) * (wrapped % 180)) \div 180
syntheticValues(curve) ==
  [i \in 1..steps |-> interpolateDaily(curve, SlotAt(i) + STEP_MINUTES \div 2 + place.offset)]
syntheticForecast ==
  LET profile == gridProfileFor(place) IN
  [carbon |-> syntheticValues(profile.carbon), price |-> syntheticValues(profile.price),
   renewable |-> syntheticValues(profile.renewable)]

-----------------------------------------------------------------------------
(* The weather, read against the grid it is over.  A sky has the irradiance   *)
(* as a share of a clear sky's, None where that is nothing, and the wind in *)
(* km/h at 10 m, at hub height or both.                                      *)

toHubHeight(kph) == (kph * 139) \div 100
windCapacityFactor(kph) ==
  CASE kph <= 11 \/ kph >= 90 -> 0
    [] kph >= 45 /\ kph < 90 -> 100
    [] OTHER -> (100 * (kph - 11) * (kph - 11) * (kph - 11)) \div (34 * 34 * 34)
WindSpeed(sky) == IF sky.hub # None THEN sky.hub ELSE toHubHeight(sky.station)
weatherFactor(profile, sky) ==
  LET wind == (windCapacityFactor(WindSpeed(sky)) * 100) \div 30
      sun == (Smaller(sky.clearness, 110) * 100) \div 72
  IN IF sky.clearness = None THEN Clamp(wind, 10, 200)
     ELSE Clamp((profile.solar * sun + (100 - profile.solar) * wind) \div 100, 10, 200)
applyWeather(profile, share, factor) ==
  LET firm == Smaller(profile.firmShare, share)
  IN Clamp(firm + ((share - firm) * factor) \div 100, 0, 100)

\* Slip: the ratio stands on its head.
correctUpsideDown(profile, carbon, shares, factors) ==
  [i \in 1..steps |->
     LET normally == 100 - shares[i]
         today == 100 - applyWeather(profile, shares[i], factors[i])
     IN IF normally <= 5 \/ today = 0 THEN carbon[i] ELSE (carbon[i] * Clamp((100 * normally) \div today, 60, 140)) \div 100]
correctByWeather(profile, carbon, shares, factors) ==
  [i \in 1..steps |->
     LET normally == 100 - shares[i]
         today == 100 - applyWeather(profile, shares[i], factors[i])
     IN IF normally <= 5 THEN carbon[i] ELSE (carbon[i] * Clamp((100 * today) \div normally, 60, 140)) \div 100]

\* Carbon read backwards into a share, on the scale of the grid's own curves.
shareFromCarbon(profile, g) ==
  LET dirtiest == MaxOf(ValuesOf(profile.carbon))
      span == dirtiest - MinOf(ValuesOf(profile.carbon))
      lowest == MinOf(ValuesOf(profile.renewable))
      highest == MaxOf(ValuesOf(profile.renewable))
  IN Clamp(lowest + ((dirtiest - g) * (highest - lowest)) \div span, 0, 100)

-----------------------------------------------------------------------------
(* The feeds. *)

isGb == place.country = "GB"
Point(t, v) == [start |-> t, value |-> v]
Reading(t, forecast, actual) == [start |-> t, forecast |-> forecast, actual |-> actual]

\* Readings of the window, with a forecast, an actual, both or neither.
carbonReadings ==
  IF ~isGb THEN {{}}
  ELSE {{}} \cup {{Reading(SlotAt(i), f, a)} : i \in {1, 2}, f \in Carbons, a \in Carbons \cup {None}}
        \cup {{Reading(SlotAt(1), None, a), Reading(SlotAt(2), f, None)} :
                a \in Carbons \cup {None}, f \in Carbons \cup {None}}
agilePrices ==
  IF ~isGb THEN {{}} ELSE {{}} \cup {{Point(SlotAt(i), v)} : i \in {0, 2}, v \in Prices}
\* Of what has been generated; the first half hour of it began before the window.
generationMix ==
  IF ~isGb \/ Smaller(startMs + Hours * 60, wallNow) <= startMs THEN {{}}
  ELSE {{}} \cup {{Point(SlotAt(i) - (SlotAt(i) % STEP_MINUTES), v)} : i \in {1}, v \in Shares}
\* Whole days, by the hour; the sun is over the site from six to six.
IsDark(t) == (t + place.offset) % 1440 \notin 360..1080
weather ==
  {{}} \cup {{LET t == SlotAt(1) - (SlotAt(1) % 60) + 60 * h
              IN Point(t, IF IsDark(t) THEN [s EXCEPT !.clearness = None] ELSE s) : h \in 0..Hours} : s \in Skies}
\* With a token, for a grid that is not British.
electricityMaps ==
  IF isGb THEN {{}} ELSE {{}} \cup {{Point(SlotAt(i), v)} : i \in {0, 1}, v \in Carbons}
ZoneAsked == mapsZoneFor(place)

AnswersOf(feed) ==
  CASE feed = "carbon" -> carbonReadings [] feed = "price" -> agilePrices
    [] feed = "mix" -> generationMix [] feed = "weather" -> weather
    [] feed = "maps" -> electricityMaps

-----------------------------------------------------------------------------
(* The snapshot. *)

\* A step holds until the next, the first also before it.
alignedSeries(points) ==
  [i \in 1..steps |->
     LET past == {p \in points : p.start <= SlotAt(i)}
     IN IF past = {} THEN (CHOOSE p \in points : \A q \in points : p.start <= q.start).value
        ELSE (CHOOSE p \in past : \A q \in past : q.start <= p.start).value]

Given(a, feed) == a[feed].points
esoPoints(a) ==
  {Point(r.start, IF r.actual # None THEN r.actual ELSE r.forecast) :
     r \in {x \in Given(a, "carbon") : x.actual # None \/ x.forecast # None}}
Factors(a) ==
  alignedSeries({Point(p.start, weatherFactor(gridProfileFor(place), p.value)) : p \in Given(a, "weather")})

carbonIsMeasured(a) == esoPoints(a) # {} \/ Given(a, "maps") # {}
carbonSource(a) ==
  CASE esoPoints(a) # {} -> "National Grid ESO"
    [] esoPoints(a) = {} /\ Given(a, "maps") # {} -> "Electricity Maps"
    [] ~carbonIsMeasured(a) /\ Given(a, "weather") # {} -> "a model corrected by live weather"
    [] OTHER -> "a model"
carbonSeries(a) ==
  CASE carbonSource(a) = "National Grid ESO" -> alignedSeries(esoPoints(a))
    [] carbonSource(a) = "Electricity Maps" -> alignedSeries(Given(a, "maps"))
    [] carbonSource(a) = "a model corrected by live weather" ->
         correctByWeather(gridProfileFor(place), syntheticForecast.carbon, syntheticForecast.renewable, Factors(a))
    [] OTHER -> syntheticForecast.carbon

renewableSeries(a) ==
  LET profile == gridProfileFor(place)
      model == syntheticForecast.renewable
      factors == IF Given(a, "weather") = {} THEN [i \in 1..steps |-> 100] ELSE Factors(a)
      carbon == carbonSeries(a)
      fromWeather == [i \in 1..steps |-> applyWeather(profile, model[i], factors[i])]
  IN [i \in 1..steps |->
        LET measured == {p \in Given(a, "mix") : p.start = SlotAt(i)} IN
        IF measured # {} THEN (CHOOSE p \in measured : TRUE).value
        ELSE IF ~carbonIsMeasured(a) THEN fromWeather[i]
        ELSE Clamp((70 * shareFromCarbon(profile, carbon[i]) + 30 * fromWeather[i]) \div 100, 0, 100)]
renewableSource(a) ==
  CASE Given(a, "mix") # {} -> "ESO mix and Open-Meteo"
    [] Given(a, "mix") = {} /\ Given(a, "weather") = {} -> "a model"
    [] Given(a, "mix") = {} /\ Given(a, "weather") # {} /\ carbonIsMeasured(a) -> "measured carbon and Open-Meteo"
    [] OTHER -> "a model scaled by Open-Meteo"

\* What is said of the feeds that failed: nothing of the mix.
notes(a) ==
  {f \in {"carbon", "weather", "maps", "price"} : a[f] = Failed}
    \cup (IF isGb /\ a["price"].points = {} THEN {"price"} ELSE {})

SnapshotOf(a) ==
  [carbon |-> carbonSeries(a), renewable |-> renewableSeries(a),
   price |-> IF Given(a, "price") = {} THEN syntheticForecast.price ELSE alignedSeries(Given(a, "price")),
   sources |-> [carbon |-> carbonSource(a), renewable |-> renewableSource(a),
                price |-> IF Given(a, "price") = {} THEN "a tariff" ELSE "Octopus Agile"],
   grid |-> gridNameFor(place), notes |-> notes(a)]

-----------------------------------------------------------------------------
Init ==
  /\ place \in Places /\ startMs \in Starts
  /\ wallNow \in {startMs, startMs + STEP_MINUTES}
  /\ answers = [f \in Feeds |-> Waiting] /\ snapshot = Nothing

\* Each feed answers on its own or fails; a time limit makes silence a failure.
Settled(f) ==
  {Answer("answered", points) : points \in AnswersOf(f)}
    \cup (IF AnswersOf(f) = {{}} THEN {} ELSE {Failed})
\* All are waited for, whichever is the last.
fetch ==
  /\ snapshot = Nothing
  /\ \E carbon \in Settled("carbon"), price \in Settled("price"), mix \in Settled("mix"),
        sky \in Settled("weather"), maps \in Settled("maps") :
       LET all == [f \in Feeds |-> CASE f = "carbon" -> carbon [] f = "price" -> price [] f = "mix" -> mix
                                     [] f = "weather" -> sky [] f = "maps" -> maps]
       IN answers' = all /\ snapshot' = SnapshotOf(all)
  /\ UNCHANGED <<place, startMs, wallNow>>

Next == fetch

-----------------------------------------------------------------------------
(* Properties, of a snapshot that is done. *)

\* Whatever answers, every slot has a carbon intensity, a share that is one, and a source.
WholeWindow ==
  /\ DOMAIN snapshot.carbon = 1..steps /\ \A i \in 1..steps : snapshot.carbon[i] > 0
  /\ DOMAIN snapshot.renewable = 1..steps /\ ValuesOf(snapshot.renewable) \subseteq 0..100

\* What is called measured was, and what is called a model stays near it.
SourceIsTrue ==
  /\ snapshot.sources.carbon \in {"National Grid ESO", "Electricity Maps"} =>
       ValuesOf(snapshot.carbon) \subseteq
         {p.value : p \in esoPoints(answers) \cup Given(answers, "maps")}
  /\ snapshot.sources.carbon = "a model" => snapshot.carbon = syntheticForecast.carbon
  /\ snapshot.sources.carbon = "a model corrected by live weather" =>
       \A i \in 1..steps :
         LET model == syntheticForecast.carbon[i]
         IN snapshot.carbon[i] \in (60 * model) \div 100..(140 * model) \div 100
  /\ snapshot.sources.price = "Octopus Agile" => isGb

\* The zone asked for is the site's own grid's: no other country's carbon is passed off as its.
OwnZone ==
  ZoneAsked = CASE place.country = "GB" -> "GB"
                [] Regional(place) -> "IN-WE"
                [] place.country = "IN" /\ ~Regional(place) -> "IN-SO"
                [] OTHER -> "by coordinates"

\* A better day for this grid never makes the forecast dirtier or less renewable.
BetterDayIsGreener ==
  Given(answers, "weather") # {} =>
    \A other \in weather \ {{}} :
      LET better == [answers EXCEPT !["weather"] = Answer("answered", other)] IN
      (\A i \in 1..steps : Factors(better)[i] >= Factors(answers)[i]) =>
        \A i \in 1..steps : /\ carbonSeries(better)[i] <= snapshot.carbon[i]
                            /\ renewableSeries(better)[i] >= snapshot.renewable[i]

\* A feed that fails moves nothing that others measured, and is named in the notes unless
\* it is the mix.
FailureStaysLocal ==
  \A f \in Feeds :
    LET without == SnapshotOf([answers EXCEPT ![f] = Failed]) IN
    /\ f # "price" => without.price = snapshot.price
    /\ f \in {"price", "mix"} => without.carbon = snapshot.carbon
    /\ f = "weather" /\ carbonIsMeasured(answers) => without.carbon = snapshot.carbon
    /\ f # "mix" => f \in without.notes

ForecastIsSound ==
  snapshot # Nothing => WholeWindow /\ SourceIsTrue /\ OwnZone /\ BetterDayIsGreener /\ FailureStaysLocal
=============================================================================
