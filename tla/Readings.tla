------------------------------ MODULE Readings ------------------------------
(***************************************************************************)
(* What people are told of a plan: the row of a car (planRead.ts), the bay *)
(* it stands on (bays.ts), the driver's own screen (plan.ts), and what a   *)
(* request to give way would do (flexRead.ts).  Each reads copies of the   *)
(* sessions and of the plan that came at different times; the loop plans   *)
(* (loop.ts), flags who will be late afterwards, and the cars charge.      *)
(* A tick is a minute; power and energy are whole, and the thresholds      *)
(* below which the screens ignore a difference are less than one of them.  *)
(* Which plans there are is Scheduler's: here any that leaves no room      *)
(* unused while a car goes short.                                          *)
(***************************************************************************)
EXTENDS Integers, Sequences, FiniteSets, FiniteSetsExt

CONSTANTS
  Cars, Mine,             \* the cars, and the one whose driver looks at a phone
  Fleets,                 \* the sessions there may be to begin with
  SlotTicks, Slots,
  Connection, Base,       \* Base: slot of the day -> the building's load
  Carbon, Hours, Width,   \* tick -> the grid's carbon; a forecast's ticks; greenestWindow's width
  Soon,                   \* URGENT_WITHIN_MS
  Deadlines,              \* to which a driver may move a deadline
  Durations, Reductions,  \* of the requests that are previewed
  MaxMinute, MaxSolves, MaxChanges

SlotSet == 0..(Slots - 1)
ReadingsAssumption ==
  /\ Mine \in Cars /\ {SlotTicks, Slots, Connection, Hours, Width} \subseteq Nat \ {0}
  /\ Deadlines \subseteq Nat /\ Durations \subseteq Nat \ {0} /\ Reductions \subseteq 0..100
  /\ {Soon, MaxMinute, MaxSolves, MaxChanges} \subseteq Nat

VARIABLES
  minute,
  fleet,      \* car -> [status, online, needed, delivered, maxPower, deadline, deadlineRisk, currentPower]
  latest,     \* latestPlan, NoPlan before the first
  flagging,   \* the plan is out, the sessions have not been flagged after it
  changed,    \* a session has changed since the plan was solved
  page,       \* the dashboard's [sessions, plan]; the driver's screen gets both at once
  solves, changes

vars == <<minute, fleet, latest, flagging, changed, page, solves, changes>>

NoPlan == [start |-> -1]
Larger(a, b) == IF a > b THEN a ELSE b
Smaller(a, b) == IF a < b THEN a ELSE b
FloorToSlot(t) == t - (t % SlotTicks)
Sum(f(_), S) == MapThenSumSet(f, S)

Init ==
  /\ minute = 0 /\ fleet \in Fleets /\ latest = NoPlan
  /\ flagging = FALSE /\ changed = TRUE
  /\ page = [sessions |-> fleet, plan |-> NoPlan]
  /\ solves = 0 /\ changes = 0

-----------------------------------------------------------------------------
(* The loop and the cars. *)

remaining(s) == Larger(0, s.needed - s.delivered)
Overlap(from, to, start, slot) ==
  Larger(0, Smaller(to, start + (slot + 1) * SlotTicks) - Larger(from, start + slot * SlotTicks))

Overdue(s) == remaining(s) > 0 /\ s.deadline <= minute
WindowEnd(s) == IF Overdue(s) THEN minute + (remaining(s) + s.maxPower - 1) \div s.maxPower ELSE s.deadline
Planned == {c \in Cars : fleet[c].status = "active" /\ fleet[c].online}

\* What the scheduler may return for the site as it is.
Plans ==
  LET start == FloorToSlot(minute)
      base == [slot \in SlotSet |-> Base[start \div SlotTicks + slot]]
      hours == [c \in Planned |-> [slot \in SlotSet |-> Overlap(minute, WindowEnd(fleet[c]), start, slot)]]
      missing(row, c) == remaining(fleet[c]) - Sum(LAMBDA slot : row[slot] * hours[c][slot], SlotSet)
      options == [c \in Planned |->
        {row \in [SlotSet -> 0..fleet[c].maxPower] :
           missing(row, c) >= 0 /\ \A slot \in SlotSet : hours[c][slot] = 0 => row[slot] = 0}]
      load(rows) == [slot \in SlotSet |-> base[slot] + Sum(LAMBDA c : rows[c][slot], Planned)]
      Sound(rows) ==
        LET loads == load(rows) IN
        /\ \A slot \in SlotSet : loads[slot] <= Larger(base[slot], Connection)
        /\ \A c \in Planned : \A slot \in SlotSet :
             hours[c][slot] > 0 /\ missing(rows[c], c) >= hours[c][slot] =>
               rows[c][slot] = fleet[c].maxPower \/ loads[slot] >= Connection
  IN {[start |-> start, solved |-> minute, rows |-> rows, base |-> base, load |-> load(rows),
       shortfalls |-> {c \in Planned : missing(rows[c], c) > 0}] :
        rows \in {r \in [Planned -> UNION {options[c] : c \in Planned}] :
                    (\A c \in Planned : r[c] \in options[c]) /\ Sound(r)}}

\* The plan is stored and announced.
Solves ==
  /\ ~flagging /\ solves < MaxSolves
  /\ latest' \in Plans
  /\ flagging' = TRUE /\ changed' = FALSE /\ solves' = solves + 1
  /\ UNCHANGED <<minute, fleet, page, changes>>

\* Slip: a car whose deadline has passed is not late, as long as its plan gives it all it needs.
lateByPlanOnly(c) == c \in latest.shortfalls
late(c) == c \in latest.shortfalls \/ (c \in DOMAIN latest.rows /\ Overdue(fleet[c]))

\* flagDeadlineRisk, after it.
Flags ==
  /\ flagging /\ flagging' = FALSE
  /\ fleet' = [c \in Cars |-> IF fleet[c].status # "active" THEN fleet[c]
                              ELSE [fleet[c] EXCEPT !.deadlineRisk = late(c)]]
  /\ UNCHANGED <<minute, latest, changed, page, solves, changes>>

\* A minute of charging: a car takes what the plan in force gives it, or, when it will not, nothing.
Passes ==
  /\ ~flagging /\ minute < MaxMinute /\ latest # NoPlan
  /\ minute' = minute + 1
  /\ LET slot == (minute - latest.start) \div SlotTicks
         due(c) == IF c \in DOMAIN latest.rows /\ slot \in SlotSet
                   THEN Smaller(latest.rows[c][slot], remaining(fleet[c])) ELSE 0
     IN \E idle \in SUBSET {c \in Planned : due(c) > 0} :
          /\ changes + Cardinality(idle) <= MaxChanges
          /\ changes' = changes + Cardinality(idle)
          /\ fleet' = [c \in Cars |->
               IF c \notin Planned THEN fleet[c]
               ELSE LET kw == IF c \in idle THEN 0 ELSE due(c)
                    IN [fleet[c] EXCEPT !.currentPower = kw, !.delivered = @ + kw]]
  /\ UNCHANGED <<latest, flagging, changed, page, solves>>

\* A driver moves a deadline, or leaves.
Changes(c) ==
  /\ changes < MaxChanges /\ fleet[c].status = "active"
  /\ \/ \E deadline \in Deadlines \ {fleet[c].deadline} : fleet' = [fleet EXCEPT ![c].deadline = deadline]
     \/ fleet' = [fleet EXCEPT ![c].status = "completed", ![c].currentPower = 0]
  /\ changed' = TRUE /\ changes' = changes + 1
  /\ UNCHANGED <<minute, latest, flagging, page, solves>>

SessionsCome == page.sessions # fleet /\ page' = [page EXCEPT !.sessions = fleet]
PlanComes == page.plan # latest /\ page' = [page EXCEPT !.plan = latest]
Refreshes ==
  /\ SessionsCome \/ PlanComes
  /\ UNCHANGED <<minute, fleet, latest, flagging, changed, solves, changes>>

Next == Solves \/ Flags \/ Passes \/ (\E c \in Cars : Changes(c)) \/ Refreshes
Spec == Init /\ [][Next]_vars

-----------------------------------------------------------------------------
(* The row of a car. *)

slotAt(plan, t) == (t - plan.start) \div SlotTicks
rowOf(plan, c) ==
  IF plan # NoPlan /\ c \in DOMAIN plan.rows THEN plan.rows[c] ELSE [slot \in SlotSet |-> 0]
powerAt(plan, c, slot) == IF slot \in SlotSet THEN rowOf(plan, c)[slot] ELSE 0

\* At four fifths and more of the time left a car is ahead of flexible ones.
tight(s) == s.deadline <= minute \/ 5 * remaining(s) >= 4 * s.maxPower * (s.deadline - minute)

\* Slip: the first block of the plan, which may lie behind.
firstBlock(plan, c) == {slot \in SlotSet : powerAt(plan, c, slot) > 0}
laterBlocks(plan, c) == {slot \in SlotSet : slot > slotAt(plan, minute) /\ powerAt(plan, c, slot) > 0}

drawingNow(plan, c) == powerAt(plan, c, Larger(0, slotAt(plan, minute))) > 0
nextBlock(plan, c) == plan.start + SlotTicks * Min(laterBlocks(plan, c))

stance(s, plan, c) ==
  CASE remaining(s) = 0 -> "charged"
    [] remaining(s) > 0 /\ plan = NoPlan -> "unplanned"
    [] remaining(s) > 0 /\ plan # NoPlan /\ (s.deadlineRisk \/ c \in plan.shortfalls) -> "risk"
    [] OTHER -> IF drawingNow(plan, c) THEN IF tight(s) THEN "prioritised" ELSE "charging"
                ELSE IF laterBlocks(plan, c) # {} THEN "holding" ELSE "unplanned"

-----------------------------------------------------------------------------
(* The bay. *)

\* Slip: the last stretch of the forecast is not looked at.
stretchesButLast(from) == from..(from + Hours - Width - 1)
stretches(from) == from..(from + Hours - Width)
carbonOf(t) == Sum(LAMBDA i : Carbon[i], t..(t + Width - 1))

\* The start of the first of the cleanest stretches; -1 when the forecast is too short for one.
greenestWindow(from) ==
  IF stretches(from) = {} THEN -1
  ELSE Min({t \in stretches(from) : \A u \in stretches(from) : carbonOf(t) <= carbonOf(u)})

bay(s) ==
  CASE ~s.online -> "offline"
    [] s.online /\ s.status # "active" -> "free"
    [] OTHER -> IF remaining(s) = 0 THEN "charged"
                ELSE IF s.deadlineRisk \/ s.deadline - minute < Soon THEN "urgent"
                ELSE IF s.currentPower > 0 THEN "charging"
                ELSE LET window == greenestWindow(minute)
                     IN IF window > minute /\ window < s.deadline THEN "clean" ELSE "waiting"

bayCounts ==
  LET bays == [c \in Cars |-> bay(page.sessions[c])]
      count(states) == Cardinality({c \in Cars : bays[c] \in states})
  IN [charging |-> count({"charging"}), holding |-> count({"clean", "waiting"}), charged |-> count({"charged"}),
      urgent |-> count({"urgent"}), free |-> count({"free"}), offline |-> count({"offline"})]

-----------------------------------------------------------------------------
(* The driver's screen. *)

\* Blocks of the plan; the server says nothing of a session its plan does not know.
blocks == {slot \in SlotSet : powerAt(latest, Mine, slot) > 0}
summary ==
  IF blocks = {} THEN [planned |-> FALSE]
  ELSE LET start == latest.start + SlotTicks * Min(blocks)
       IN [planned |-> TRUE, start |-> start, end |-> latest.start + SlotTicks * (Max(blocks) + 1),
           energy |-> Sum(LAMBDA slot : SlotTicks * powerAt(latest, Mine, slot), blocks),
           chargingNow |-> start <= minute + 1, wait |-> Larger(0, start - minute)]

\* Slip: the last block counts as a whole.
baselineInWholeSlots(need, kw) == SlotTicks * kw * ((need + SlotTicks * kw - 1) \div (SlotTicks * kw))
\* What charging at full power from now on would take, over the slots that are not over.
baseline(need, kw) ==
  LET open == {slot \in SlotSet : latest.start + (slot + 1) * SlotTicks > minute}
  IN Smaller(need, SlotTicks * kw * Cardinality(open))

-----------------------------------------------------------------------------
(* A request to give way, before it is sent. *)

inWindow(plan, starts, ends) ==
  {slot \in SlotSet : plan.start + slot * SlotTicks < ends /\ plan.start + (slot + 1) * SlotTicks > starts}

\* Slip: the ticks before the window are not counted as outside of it.
outsideAfterOnly(s, starts, ends) == Larger(0, s.deadline - ends)

\* Ticks of a car's stay that lie in the window, and outside of it.
inside(s, starts, ends) == Larger(0, Smaller(ends, s.deadline) - Larger(starts, minute))
outside(s, starts, ends) == Larger(0, s.deadline - minute - inside(s, starts, ends))
short(s, starts, ends) == remaining(s) - s.maxPower * outside(s, starts, ends)

mustCharge(starts, ends) ==
  {c \in Cars : LET s == page.sessions[c] IN
     /\ s.status = "active" /\ remaining(s) > 0
     /\ short(s, starts, ends) > 0 /\ inside(s, starts, ends) > 0}

\* The least a car can draw in the window, in twelfths of a unit of power.
leastDraw(s, starts, ends) ==
  Smaller(12 * s.maxPower, (12 * short(s, starts, ends)) \div inside(s, starts, ends))

previewRequest(percent, duration) ==
  LET drawn == Sum(LAMBDA c : page.sessions[c].currentPower, Cars)
      from == IF drawn > 0 THEN drawn ELSE Connection
      cap == from - (from * percent) \div 100
      starts == minute + 1
      ends == starts + duration
      slots == IF page.plan = NoPlan THEN {} ELSE inWindow(page.plan, starts, ends)
      peak == IF slots = {} THEN drawn ELSE Max({page.plan.load[slot] : slot \in slots})
      basePeak == IF slots = {} THEN 0 ELSE Max({page.plan.base[slot] : slot \in slots})
      must == mustCharge(starts, ends)
      least == Sum(LAMBDA c : leastDraw(page.sessions[c], starts, ends), must)
  IN [starts |-> starts, ends |-> ends, cap |-> cap, slots |-> slots,
      released |-> Larger(0, peak - Larger(cap, basePeak)),
      must |-> must, atRisk |-> IF 12 * basePeak + least > 12 * cap THEN Cardinality(must) ELSE 0]

\* windowEffect, for a request in force.
windowEffect(starts, ends) ==
  LET slots == inWindow(page.plan, starts, ends)
      active == {c \in DOMAIN page.plan.rows : page.sessions[c].status = "active"}
  IN [charging |-> {c \in active : \E slot \in slots : powerAt(page.plan, c, slot) > 0},
      heldBack |-> {c \in active : /\ remaining(page.sessions[c]) > 0
                                  /\ \E slot \in slots : powerAt(page.plan, c, slot) < page.sessions[c].maxPower}]

-----------------------------------------------------------------------------
(* What is said agrees, and is so. *)

\* Nothing has happened since the last plan that the page has not been told of.
Fresh ==
  /\ latest # NoPlan /\ latest.solved = minute /\ ~flagging /\ ~changed
  /\ page.sessions = fleet /\ page.plan = latest

\* Energy the plan has for a car before its deadline.
inTime(s, c) ==
  Sum(LAMBDA slot : rowOf(page.plan, c)[slot] * Overlap(minute, s.deadline, page.plan.start, slot), SlotSet)

(* Whatever mix of old and new a page has put together, no car is finished  *)
(* on one screen and on its way on another, none that is flagged is         *)
(* reassured about, the block a car is held for lies ahead, and every bay   *)
(* is counted once (bays.ts:17 "they must agree", planRead.ts, bays.ts).    *)
ScreensAgree ==
  /\ \A c \in Cars :
       LET s == page.sessions[c]
           read == stance(s, page.plan, c)
       IN s.online /\ s.status = "active" =>
            /\ bay(s) = "charged" <=> read = "charged"
            /\ s.deadlineRisk => bay(s) \in {"urgent", "charged"} /\ read \in {"risk", "charged", "unplanned"}
            /\ read = "holding" => nextBlock(page.plan, c) > minute
  /\ LET counts == bayCounts IN Sum(LAMBDA state : counts[state], DOMAIN counts) = Cardinality(Cars)

(* Once everything is up to date, a car of which any screen says that it    *)
(* will finish in time has all it needs in the plan, before its deadline:   *)
(* the phone's "Guaranteed" and the bays that wait (HomeScreen.tsx:75,      *)
(* planRead.ts:110, bays.ts:105-117, loop.ts:244).                          *)
PromisesArePlanned ==
  Fresh => \A c \in Cars :
    LET s == fleet[c]
    IN s.status = "active" /\ s.online
       /\ (~s.deadlineRisk \/ stance(s, latest, c) = "holding" \/ bay(s) \in {"clean", "waiting"})
         => inTime(s, c) = remaining(s)

(* The phone then says what the dashboard says: charging now, or from the   *)
(* same block on; and what it compares the plan with is not more energy     *)
(* than the plan's (plan.ts, planRead.ts).                                  *)
PhoneAgrees ==
  LET s == fleet[Mine] IN
  Fresh /\ s.status = "active" /\ s.online /\ remaining(s) > 0 =>
    /\ drawingNow(latest, Mine) => summary.planned /\ summary.chargingNow
    /\ ~drawingNow(latest, Mine) /\ laterBlocks(latest, Mine) # {} =>
         /\ summary.start = nextBlock(latest, Mine) /\ summary.wait = summary.start - minute
    /\ summary.planned /\ Mine \notin latest.shortfalls =>
         summary.energy >= baseline(remaining(s), s.maxPower)

Away(s, starts, ends) == {t \in minute..(s.deadline - 1) : t < starts \/ t >= ends}

(* What the grid operator is told before asking is so, minute by minute: a  *)
(* car that is not counted among those that must charge can do without the  *)
(* window, one that is counted cannot, and charges in it in every plan that *)
(* gives it all it needs; when none is at risk, the least they need fits    *)
(* under the cap; and what is released is charging, never the building's    *)
(* own load (flexRead.ts:60-125).                                           *)
PreviewIsSound ==
  \A percent \in Reductions, duration \in Durations :
    LET told == previewRequest(percent, duration)
        seen(c) == page.sessions[c]
        away(c) == seen(c).maxPower * Cardinality(Away(seen(c), told.starts, told.ends))
    IN /\ \A c \in Cars :
            seen(c).status = "active" /\ remaining(seen(c)) > 0
              /\ remaining(seen(c)) <= seen(c).maxPower * (seen(c).deadline - minute)
              => (c \in told.must <=> remaining(seen(c)) > away(c))
       /\ Fresh => \A c \in told.must \ latest.shortfalls :
            seen(c).online /\ inWindow(latest, told.starts, told.ends) # {}
              => c \in windowEffect(told.starts, told.ends).charging
       /\ told.atRisk = 0 /\ told.must # {} =>
            \A slot \in told.slots : \A t \in told.starts..(told.ends - 1) :
              12 * page.plan.base[slot]
                + Sum(LAMBDA c : leastDraw(seen(c), told.starts, told.ends),
                      {c \in told.must : t < seen(c).deadline}) <= 12 * told.cap
       /\ told.slots # {} =>
            told.released <= Max({page.plan.load[slot] - page.plan.base[slot] : slot \in told.slots})

AllToldTrue == ScreensAgree /\ PromisesArePlanned /\ PhoneAgrees /\ PreviewIsSound
=============================================================================
