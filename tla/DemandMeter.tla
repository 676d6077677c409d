----------------------------- MODULE DemandMeter ----------------------------
(***************************************************************************)
(* The metered demand of one site: cumulative readings of the sessions are *)
(* spread over the metering intervals they span, and an interval is scored *)
(* once it and one more interval of grace have passed.                     *)
(* Time runs in ticks; energy in units that every division leaves whole.   *)
(***************************************************************************)
EXTENDS Integers, FiniteSets, FiniteSetsExt, TLC

CONSTANTS
  Sessions,
  SlotLength,      \* slotMinutes, in ticks
  BaseLoadKw,      \* the building's load at each tick, in 0..MaxTime
  Power,           \* the most a session draws in a tick
  MaxSilence,      \* the longest a charging car goes without a reading
  MaxTime

\* What the constants are taken to be.
MeterAssumption ==
  /\ SlotLength \in Nat \ {0}
  /\ BaseLoadKw \in [0..MaxTime -> Nat]
  /\ {Power, MaxSilence, MaxTime} \subseteq Nat

VARIABLES
  now,
  lastReading,  \* session -> [ts, kwh]; kwh is -1 before its first reading
  firstKwh,     \* history: the energy of that first reading
  ended,        \* sessions that have ended
  bucketsKwh,   \* start of an open interval -> energy
  closed,       \* start of a scored interval -> its energy
  peakKwSeen

meterVars == <<now, lastReading, firstKwh, ended, bucketsKwh, closed, peakKwSeen>>

FloorToStep(t) == t - (t % SlotLength)
Never == [ts |-> 0, kwh |-> -1]

\* Energy of an interval and the building's load in its middle, as power.
ChargingKw(kwh) == kwh \div SlotLength
TotalKw(bucket, kwh) == ChargingKw(kwh) + BaseLoadKw[bucket + SlotLength \div 2]

\* What a span from one reading to the next leaves in an interval.
Overlap(bucket, from, to) ==
  Min({to, bucket + SlotLength}) - Max({from, bucket})

\* The energy of a reading by interval.
Spread(from, to, delta) ==
  IF to <= from
  THEN [b \in {FloorToStep(to)} |-> delta]
  ELSE [b \in {b \in FloorToStep(from)..(to - 1) :
                 b % SlotLength = 0 /\ Overlap(b, from, to) > 0} |->
          (delta * Overlap(b, from, to)) \div (to - from)]

\* addToBucket, for all intervals of a reading.
AddToBuckets(buckets, energy) ==
  [b \in DOMAIN buckets \cup DOMAIN energy |->
     (IF b \in DOMAIN buckets THEN buckets[b] ELSE 0)
       + (IF b \in DOMAIN energy THEN energy[b] ELSE 0)]

\* Slip: no interval of grace.
SettledAtOnce == FloorToStep(now)

SettledBefore == FloorToStep(now) - SlotLength

\* closeFinishedBuckets: scored intervals leave the map, and the building's
\* load alone counts for the peak as well.
CloseFinished(buckets) ==
  LET done == {b \in DOMAIN buckets : b < SettledBefore}
  IN /\ closed' = [b \in done |-> buckets[b]] @@ closed
     /\ bucketsKwh' = [b \in DOMAIN buckets \ done |-> buckets[b]]
     /\ peakKwSeen' = Max({TotalKw(b, buckets[b]) : b \in done}
                            \cup {peakKwSeen, BaseLoadKw[now]})

\* record, on meter.updated and session.ended.  The first reading of a session
\* only sets its register; one that does not rise closes nothing.
Record(s, kwh) ==
  LET last == lastReading[s]
      delta == kwh - last.kwh
  IN /\ lastReading' = [lastReading EXCEPT ![s] = [ts |-> now, kwh |-> kwh]]
     /\ IF last = Never
        THEN /\ firstKwh' = [firstKwh EXCEPT ![s] = kwh]
             /\ UNCHANGED <<bucketsKwh, closed, peakKwSeen>>
        ELSE IF delta <= 0
        THEN UNCHANGED <<firstKwh, bucketsKwh, closed, peakKwSeen>>
        ELSE /\ CloseFinished(AddToBuckets(bucketsKwh, Spread(last.ts, now, delta)))
             /\ UNCHANGED firstKwh

\* What the register of a charging car may show by now.
Registers(s) ==
  IF lastReading[s] = Never THEN {0}
  ELSE {lastReading[s].kwh + p * (now - lastReading[s].ts) : p \in {0, Power}}

MeterUpdated(s) ==
  /\ s \notin ended
  /\ \E kwh \in Registers(s) : Record(s, kwh)
  /\ UNCHANGED <<now, ended>>

SessionEnded(s) ==
  /\ s \notin ended
  /\ \E kwh \in Registers(s) : Record(s, kwh)
  /\ ended' = ended \cup {s}
  /\ UNCHANGED now

\* A look at peakKw or history().
Look ==
  /\ CloseFinished(bucketsKwh)
  /\ UNCHANGED <<now, lastReading, firstKwh, ended>>

\* The clock, which a demo may also jump: nobody is silent for longer than
\* MaxSilence while charging.
MeterTick ==
  /\ now < MaxTime
  /\ now' = now + 1
  /\ \A s \in Sessions \ ended :
       lastReading[s] = Never \/ now' - lastReading[s].ts <= MaxSilence
  /\ UNCHANGED <<lastReading, firstKwh, ended, bucketsKwh, closed, peakKwSeen>>

MeterInit ==
  /\ now = 0
  /\ lastReading = [s \in Sessions |-> Never]
  /\ firstKwh = [s \in Sessions |-> 0]
  /\ ended = {}
  /\ bucketsKwh = [b \in {} |-> 0]
  /\ closed = [b \in {} |-> 0]
  /\ peakKwSeen = 0

MeterNext ==
  \/ \E s \in Sessions : MeterUpdated(s) \/ SessionEnded(s)
  \/ Look \/ MeterTick

MeterSpec == MeterInit /\ [][MeterNext]_meterVars

-----------------------------------------------------------------------------
\* "What the site actually drew, interval by interval" (demandMeter.ts:70):
\* the open and the scored intervals hold the energy between the first and the
\* last reading of every session, neither less nor twice.
MeteredIsDrawn ==
  MapThenSumSet(LAMBDA b : bucketsKwh[b], DOMAIN bucketsKwh)
    + MapThenSumSet(LAMBDA b : closed[b], DOMAIN closed)
  = MapThenSumSet(LAMBDA s : IF lastReading[s] = Never THEN 0
                             ELSE lastReading[s].kwh - firstKwh[s], Sessions)

\* The peak a demand charge is billed on: at least every scored interval, and
\* never more than all cars at full power beside the building.  "crediting all
\* of it to the later interval would invent a peak" (demandMeter.ts:88).
PeakIsReal ==
  /\ \A b \in DOMAIN closed : peakKwSeen >= TotalKw(b, closed[b])
  /\ peakKwSeen <= Power * Cardinality(Sessions) + Max({BaseLoadKw[t] : t \in 0..now})
=============================================================================
