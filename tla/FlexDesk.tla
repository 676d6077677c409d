------------------------------- MODULE FlexDesk -----------------------------
(***************************************************************************)
(* A flexibility request from the button to the result: the grid           *)
(* operator's page asks (app/grid/page.tsx), the server stores and maybe   *)
(* accepts (routes/flex.ts), the site's page answers, the loop plans under *)
(* the cap (problem.ts), the meter counts, and both pages say whether the  *)
(* site has held (lib/flexRead.ts).  Cars take all that a plan gives them. *)
(***************************************************************************)
EXTENDS Integers, Sequences, FiniteSets

CONSTANTS
  SlotTicks,              \* ticks of a slot, and of a metering interval
  Durations,              \* what can be asked for, in ticks
  SiteConnection, Reductions, \* power, and the percentages that can be asked for
  MaxClock, MaxRequests, MaxFaults

DeskAssumption ==
  /\ SlotTicks \in Nat \ {0} /\ Durations \subseteq Nat \ {0}
  /\ SiteConnection \in Nat \ {0} /\ Reductions \subseteq 0..100
  /\ {MaxClock, MaxRequests, MaxFaults} \subseteq Nat

Pages == {"grid", "site"}        \* of the grid operator, of the site's operator
SlotOf(t) == t \div SlotTicks
PlanSlots == 0..SlotOf(MaxClock)
None == 0                        \* no request: they are numbered from 1

VARIABLES
  clock,
  automatic,   \* AUTO_ACCEPT_FLEX
  events,      \* the requests as the server has them, in the order they were made
  dirty,       \* the loop has been told of a change and has not solved since
  plan,        \* what the plan in force lets the site draw, by slot
  energy,      \* what the meter has counted, by interval
  seen,        \* per page the requests it shows
  doing,       \* per page what it has sent and waits for (busy)
  faults

deskVars == <<clock, automatic, events, dirty, plan, energy, seen, doing, faults>>

Statuses == {"requested", "accepted", "declined"}
Idle == [what |-> "nothing"]

DeskTypeOK ==
  /\ clock \in 0..MaxClock /\ automatic \in BOOLEAN /\ dirty \in BOOLEAN
  /\ \A i \in DOMAIN events :
       events[i].status \in Statuses /\ events[i].starts < events[i].ends
  /\ plan \in [PlanSlots -> 0..SiteConnection] /\ energy \in [PlanSlots -> Nat]
  /\ \A page \in Pages : Len(seen[page]) <= Len(events)
  /\ faults \in 0..MaxFaults

DeskInit ==
  /\ clock = 0 /\ automatic \in BOOLEAN /\ events = <<>> /\ dirty = FALSE
  /\ plan = [slot \in PlanSlots |-> SiteConnection] /\ energy = [slot \in PlanSlots |-> 0]
  /\ seen = [page \in Pages |-> <<>>]
  /\ doing = [page \in Pages |-> Idle] /\ faults = 0

-----------------------------------------------------------------------------
(* What the pages make of a request (flexRead.ts).                          *)

StageOf(event) ==
  CASE event.status = "declined" -> "declined"
    [] event.status # "declined" /\ clock >= event.ends -> "completed"
    [] event.status = "requested" /\ clock < event.ends -> "requested"
    [] event.status = "accepted" /\ clock < event.starts -> "accepted"
    [] event.status = "accepted" /\ clock >= event.starts /\ clock < event.ends -> "active"

Rank == [active |-> 0, accepted |-> 1, requested |-> 2]
Open(page) == {i \in DOMAIN seen[page] : StageOf(seen[page][i]) \in DOMAIN Rank}

\* The request that matters now: one in force, one about to start, one that waits; then the newest.
Current(page) ==
  LET rank(i) == Rank[StageOf(seen[page][i])]
  IN IF Open(page) = {} THEN None
     ELSE CHOOSE i \in Open(page) :
            \A j \in Open(page) : rank(i) < rank(j) \/ (rank(i) = rank(j) /\ i >= j)

\* The intervals that count for a request, of those the meter has closed.
Measured(event) ==
  {slot \in PlanSlots : /\ slot * SlotTicks >= event.starts /\ slot * SlotTicks < event.ends
                    /\ (slot + 1) * SlotTicks <= clock}

Held(event) == \A slot \in Measured(event) : energy[slot] <= event.cap * SlotTicks

-----------------------------------------------------------------------------
(* The plan.                                                                *)

\* Slip: a slot is capped if it begins while the request is in force, and ends in it too.
CoversInside(event, slot) ==
  slot * SlotTicks >= event.starts /\ (slot + 1) * SlotTicks <= event.ends

Covers(event, slot) == event.starts < (slot + 1) * SlotTicks /\ event.ends > slot * SlotTicks

\* MemoryFlexRepo.listBySite
listBySite(statuses) == {i \in DOMAIN events : events[i].status \in statuses}

CapFor(slot) ==
  LET caps == {events[i].cap : i \in {i \in listBySite({"accepted"}) : Covers(events[i], slot)}}
  IN CHOOSE cap \in caps \cup {SiteConnection} : \A other \in caps \cup {SiteConnection} : cap <= other

Solves ==
  /\ dirty /\ dirty' = FALSE
  /\ plan' = [slot \in PlanSlots |-> IF slot < SlotOf(clock) THEN plan[slot] ELSE CapFor(slot)]
  /\ UNCHANGED <<clock, automatic, events, energy, seen, doing, faults>>

\* A tick is the minute between a request and its start: the loop's debounce and its solve are over
\* by then.  The meter counts what was drawn.
Ticks ==
  /\ ~dirty /\ clock < MaxClock
  /\ clock' = clock + 1
  /\ energy' = [energy EXCEPT ![SlotOf(clock)] = @ + plan[SlotOf(clock)]]
  /\ UNCHANGED <<automatic, events, dirty, plan, seen, doing, faults>>

-----------------------------------------------------------------------------
(* The grid operator asks.                                                  *)

\* requestReduction: a share of what the site draws now, or of its connection if it draws nothing.
CapAsked(percent) ==
  LET draw == plan[SlotOf(clock)]
      from == IF draw > 0 THEN draw ELSE SiteConnection
  IN from - (from * percent) \div 100

\* The button is there when the page shows no open request and waits for nothing.
Requests ==
  /\ doing["grid"] = Idle /\ Current("grid") = None
  /\ \E duration \in Durations, percent \in Reductions :
       doing' = [doing EXCEPT !["grid"] =
                  [what |-> "ask", starts |-> clock + 1, ends |-> clock + 1 + duration,
                   cap |-> CapAsked(percent)]]
  /\ UNCHANGED <<clock, automatic, events, dirty, plan, energy, seen, faults>>

\* The server's part: the bus tells the loop, and both pages, which put the request in their lists.
Stored(list) ==
  /\ events' = list
  /\ dirty' = TRUE
  /\ UNCHANGED <<clock, automatic, plan, energy, faults>>

RequestStored ==
  /\ doing["grid"].what = "ask" /\ Len(events) < MaxRequests
  /\ LET ask == doing["grid"]
         event == [starts |-> ask.starts, ends |-> ask.ends, cap |-> ask.cap,
                   status |-> IF automatic THEN "accepted" ELSE "requested",
                   answered |-> clock]
     IN Stored(Append(events, event))
  /\ doing' = [doing EXCEPT !["grid"] = [what |-> "refresh"]]
  /\ UNCHANGED seen

-----------------------------------------------------------------------------
(* The site answers.                                                        *)

\* Accept and decline while it waits, withdraw once it is accepted.
Responds(accept) ==
  /\ doing["site"] = Idle /\ Current("site") # None
  /\ LET i == Current("site")
         stage == StageOf(seen["site"][i])
     IN /\ stage = "requested" \/ ~accept
        /\ doing' = [doing EXCEPT !["site"] =
                      [what |-> "answer", of |-> i, accept |-> accept]]
  /\ UNCHANGED <<clock, automatic, events, dirty, plan, energy, seen, faults>>

Answerable(event) == event.status \in {"requested", "accepted"} /\ event.ends > clock

ResponseStored ==
  /\ doing["site"].what = "answer"
  /\ LET answer == doing["site"]
     IN /\ Answerable(events[answer.of])
        /\ Stored([events EXCEPT ![answer.of].status = IF answer.accept THEN "accepted" ELSE "declined",
                                 ![answer.of].answered = clock])
  /\ doing' = [doing EXCEPT !["site"] = [what |-> "refresh"]]
  /\ UNCHANGED seen

\* Answered already, or over; or the request is lost on its way, or the refresh after it.
Refused(page) ==
  /\ \/ /\ doing[page].what = "answer" /\ ~Answerable(events[doing[page].of])
        /\ UNCHANGED faults
     \/ /\ doing[page] # Idle /\ faults < MaxFaults
        /\ faults' = faults + 1
  /\ doing' = [doing EXCEPT ![page] = Idle]
  /\ UNCHANGED <<clock, automatic, events, dirty, plan, energy, seen>>

-----------------------------------------------------------------------------
(* What the pages show.                                                     *)

\* A poll, or the refresh when the bus tells of a change: at any time after it, or never.
Polls(page) ==
  /\ seen[page] # events
  /\ seen' = [seen EXCEPT ![page] = events]
  /\ UNCHANGED <<clock, automatic, events, dirty, plan, energy, doing, faults>>

\* The refresh after what was sent.
Refreshed(page) ==
  /\ doing[page].what = "refresh"
  /\ seen' = [seen EXCEPT ![page] = events]
  /\ doing' = [doing EXCEPT ![page] = Idle]
  /\ UNCHANGED <<clock, automatic, events, dirty, plan, energy, faults>>

DeskNext ==
  \/ Solves \/ Ticks \/ Requests \/ RequestStored \/ ResponseStored
  \/ \E accept \in BOOLEAN : Responds(accept)
  \/ \E page \in Pages : Refused(page) \/ Polls(page) \/ Refreshed(page)

DeskSpec == DeskInit /\ [][DeskNext]_deskVars

-----------------------------------------------------------------------------
(* A request that the site had accepted by its start and never withdrew is  *)
(* reported as held once it is over, however its window lies across the     *)
(* slots of the plan and the intervals of the meter, and whatever else was  *)
(* asked for meanwhile (page.tsx, flex.ts, problem.ts, flexRead.ts).        *)
HeldIsReported ==
  \A i \in DOMAIN events :
    LET event == events[i]
    IN event.status = "accepted" /\ event.answered <= event.starts /\ clock >= event.ends
         => Held(event)
=============================================================================
