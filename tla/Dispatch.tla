------------------------------ MODULE Dispatch ------------------------------
(***************************************************************************)
(* How a plan becomes the profile of a charger: buildDispatch and          *)
(* DispatchService (apps/server/src/optimiser/dispatcher.ts), with what    *)
(* the loop hands them and what buildProblem leaves out of a plan.         *)
(*                                                                         *)
(* A solve reads the sessions, yields until the scheduler is done, then    *)
(* sends one profile after the other, each awaited; the sessions it works  *)
(* with are those it read.  Every session has a charger of its own here.   *)
(* A row is the limits of the next Lookahead slots, after rounding; on the *)
(* charger it counts from the start of the slot in which the solve began.  *)
(***************************************************************************)
EXTENDS Naturals, FiniteSets, Sequences

CONSTANTS Sessions,
          Levels,        \* limits that differ by the hysteresis at least
          Lookahead,     \* LOOKAHEAD_PERIODS
          SlotLength,    \* of one slot, in units of time
          MaxNow,        \* bound: the clock
          MaxSolves,     \* bound: solves
          MaxFaults      \* bound: lost links, restarts, late answers

\* Who runs the module, or proves about it, assumes this.
DispatchAssumption ==
  /\ Levels \subseteq Nat /\ 0 \in Levels
  /\ {Lookahead, SlotLength} \subseteq Nat \ {0}
  /\ {MaxNow, MaxSolves, MaxFaults} \subseteq Nat
  /\ "nobody" \notin Sessions

VARIABLES now,           \* clock.now()
          status,        \* of each session: "new", "active", "ended"
          cp,            \* its charger: "idle", "charging", "left", "restarted"
          linked,        \* chargers the gateway has a connection of
          profile,       \* TxProfile on each charger: limits, and the slot they start in
          lastSentW,     \* remembered limits of each session, <<>> for no entry
          lastSentAt,    \* when they were accepted
          rejections,    \* failed sends in a row, 0 for no entry
          uncontrolled,  \* chargers marked so
          solve,         \* the solve that is running
          solves, faults \* bounded counters

memoryVars == <<lastSentW, lastSentAt, rejections>>
siteVars == <<status, cp, linked>>
vars == <<now, siteVars, profile, memoryVars, uncontrolled, solve, solves, faults>>

Rows == [1..Lookahead -> Levels]
NoPower == [i \in 1..Lookahead |-> 0]

\* A charger without a TxProfile follows none of the limits.
NoProfile == [from |-> 0, limits |-> <<>>]

\* The number of the slot at a time: createSlotGrid starts every grid with a whole slot.
SlotAt(t) == t \div SlotLength

Idle == [phase |-> "idle", at |-> 0, sessions |-> {}, planned |-> {},
         rows |-> [s \in Sessions |-> NoPower], todo |-> {}, awaits |-> "nobody"]

Active == {s \in Sessions : status[s] = "active"}

Init ==
  /\ now = 0
  /\ status = [s \in Sessions |-> "new"]
  /\ cp = [s \in Sessions |-> "idle"]
  /\ linked = Sessions
  /\ profile = [s \in Sessions |-> NoProfile]
  /\ lastSentW = [s \in Sessions |-> <<>>]
  /\ lastSentAt = [s \in Sessions |-> 0]
  /\ rejections = [s \in Sessions |-> 0]
  /\ uncontrolled = {}
  /\ solve = Idle
  /\ solves = 0
  /\ faults = 0

\* Between the answer to one send and the next send nothing else runs.
Quiet == ~(solve.phase = "sending" /\ solve.awaits = "nobody")

-----------------------------------------------------------------------------
(* One solve. *)

\* listActive, and the chargers that buildProblem plans for.
SolveBegins ==
  /\ Quiet
  /\ solve.phase = "idle"
  /\ solves < MaxSolves
  /\ solves' = solves + 1
  /\ solve' = [Idle EXCEPT !.phase = "planning", !.at = now, !.sessions = Active,
                           !.planned = (Active \cap linked) \ uncontrolled]
  /\ UNCHANGED <<now, siteVars, profile, memoryVars, uncontrolled, faults>>

\* collapse: a limit that repeats the one before it needs no period.
Collapse(row) ==
  LET kept == {i \in DOMAIN row : i > 1 => row[i] # row[i - 1]}
      nth(k) == CHOOSE i \in kept : Cardinality({j \in kept : j <= i}) = k
  IN  [k \in 1..Cardinality(kept) |-> row[nth(k)]]

\* Slip: what was collapsed is padded instead of being sent anew.
ChangedPadded(s, row) ==
  \/ lastSentW[s] = <<>>
  \/ \E i \in 1..Lookahead : row[i] # (IF i \in DOMAIN lastSentW[s] THEN lastSentW[s][i] ELSE 0)

\* Slip: what was sent is refreshed when its last slot ends.
ChangedRefreshedLate(s, row) ==
  \/ lastSentW[s] = <<>>
  \/ solve.at >= lastSentAt[s] + Lookahead * SlotLength
  \/ Len(lastSentW[s]) # Lookahead
  \/ \E i \in 1..Lookahead : row[i] # lastSentW[s][i]

StaleAfter == (IF Lookahead > 1 THEN Lookahead - 1 ELSE 1) * SlotLength

\* stale, or different from what is remembered, limit by limit: the first limit
\* of this plan is compared with the first that was sent, whenever that was.
Changed(s, row) ==
  \/ lastSentW[s] = <<>>
  \/ solve.at >= lastSentAt[s] + StaleAfter
  \/ Len(lastSentW[s]) # Lookahead
  \/ \E i \in 1..Lookahead : row[i] # lastSentW[s][i]

\* The scheduler answers and apply() compares: a session without a row in the
\* plan is asked for nothing.
Decide ==
  /\ Quiet
  /\ solve.phase = "planning"
  /\ \E plan \in [solve.planned -> Rows] :
       LET row(s) == IF s \in solve.planned THEN plan[s] ELSE NoPower
       IN  solve' = [solve EXCEPT !.phase = "sending",
                                  !.rows = [s \in Sessions |-> row(s)],
                                  !.todo = {s \in solve.sessions : Changed(s, row(s))}]
  /\ UNCHANGED <<now, siteVars, profile, memoryVars, uncontrolled, solves, faults>>

\* Slip: what is sent counts as sent before the answer is known.
RememberedBeforehand(s, refused) ==
  /\ rejections' = [rejections EXCEPT ![s] = @ + 1]
  /\ uncontrolled' = IF refused /\ rejections[s] >= 1 THEN uncontrolled \cup {s} ELSE uncontrolled
  /\ lastSentW' = [lastSentW EXCEPT ![s] = Collapse(solve.rows[s])]
  /\ UNCHANGED lastSentAt

\* handleRefusal(intent, status): refused is Rejected or NotSupported.
HandleRefusal(s, refused) ==
  /\ rejections' = [rejections EXCEPT ![s] = @ + 1]
  /\ uncontrolled' = IF refused /\ rejections[s] >= 1 THEN uncontrolled \cup {s} ELSE uncontrolled
  /\ lastSentW' = [lastSentW EXCEPT ![s] = <<>>]
  /\ UNCHANGED lastSentAt

\* send(): a charger without a connection is refused at once.
Send(s) ==
  /\ solve.phase = "sending" /\ solve.awaits = "nobody"
  /\ s \in solve.todo
  /\ IF s \in linked
     THEN /\ solve' = [solve EXCEPT !.todo = @ \ {s}, !.awaits = s]
          /\ UNCHANGED <<lastSentW, lastSentAt, rejections, uncontrolled>>
     ELSE /\ solve' = [solve EXCEPT !.todo = @ \ {s}]
          /\ HandleRefusal(s, FALSE)
  /\ UNCHANGED <<now, siteVars, profile, solves, faults>>

\* A charger keeps its transaction until its StopTransaction is answered.
InTransaction(s) == cp[s] \in {"charging", "left"}

\* buildChargingProfile: startSchedule is the start of the solve's first slot.
Sent(s) == [from |-> SlotAt(solve.at), limits |-> solve.rows[s]]

Answered == solve' = [solve EXCEPT !.awaits = "nobody"]

\* The charger obeys, and send() goes on with its answer.
Accepted(s) ==
  /\ solve.awaits = s
  /\ s \in linked
  /\ InTransaction(s)
  /\ profile' = [profile EXCEPT ![s] = Sent(s)]
  /\ lastSentW' = [lastSentW EXCEPT ![s] = Collapse(solve.rows[s])]
  /\ lastSentAt' = [lastSentAt EXCEPT ![s] = now]
  /\ rejections' = [rejections EXCEPT ![s] = 0]
  /\ Answered
  /\ UNCHANGED <<now, siteVars, uncontrolled, solves, faults>>

\* It refuses: because it runs no transaction, or because it will not obey.
Refused(s) ==
  /\ solve.awaits = s
  /\ s \in linked
  /\ IF InTransaction(s) THEN faults < MaxFaults /\ faults' = faults + 1 ELSE UNCHANGED faults
  /\ HandleRefusal(s, TRUE)
  /\ Answered
  /\ UNCHANGED <<now, siteVars, profile, solves>>

\* Slip: a CALL whose connection is lost is not watched any more.
FailsWhileLinked(s) ==
  /\ solve.awaits = s
  /\ s \in linked
  /\ faults < MaxFaults
  /\ faults' = faults + 1
  /\ \/ UNCHANGED profile
     \/ InTransaction(s) /\ profile' = [profile EXCEPT ![s] = Sent(s)]
  /\ HandleRefusal(s, FALSE)
  /\ Answered
  /\ UNCHANGED <<now, siteVars, solves>>

\* No answer: the connection is lost or the time limit has run out, and the
\* charger may or may not have received the profile.
Fails(s) ==
  /\ solve.awaits = s
  /\ IF s \in linked THEN faults < MaxFaults /\ faults' = faults + 1 ELSE UNCHANGED faults
  /\ \/ UNCHANGED profile
     \/ InTransaction(s) /\ profile' = [profile EXCEPT ![s] = Sent(s)]
  /\ HandleRefusal(s, FALSE)
  /\ Answered
  /\ UNCHANGED <<now, siteVars, solves>>

SolveEnds ==
  /\ solve.phase = "sending" /\ solve.awaits = "nobody" /\ solve.todo = {}
  /\ solve' = Idle
  /\ UNCHANGED <<now, siteVars, profile, memoryVars, uncontrolled, solves, faults>>

-----------------------------------------------------------------------------
(* The site. *)

\* forget(sessionId), on session.ended.
Forget(s) ==
  /\ lastSentW' = [lastSentW EXCEPT ![s] = <<>>]
  /\ lastSentAt' = [lastSentAt EXCEPT ![s] = 0]
  /\ rejections' = [rejections EXCEPT ![s] = 0]

PlugIn(s) ==
  /\ Quiet
  /\ status[s] = "new"
  /\ status' = [status EXCEPT ![s] = "active"]
  /\ cp' = [cp EXCEPT ![s] = "charging"]
  /\ UNCHANGED <<now, linked, profile, memoryVars, uncontrolled, solve, solves, faults>>

\* The car is unplugged, and StopTransaction is on its way.
Leave(s) ==
  /\ Quiet
  /\ cp[s] = "charging"
  /\ cp' = [cp EXCEPT ![s] = "left"]
  /\ UNCHANGED <<now, status, linked, profile, memoryVars, uncontrolled, solve, solves, faults>>

SessionEnds(s) ==
  /\ Quiet
  /\ cp[s] = "left" /\ status[s] = "active" /\ s \in linked
  /\ status' = [status EXCEPT ![s] = "ended"]
  /\ Forget(s)
  /\ UNCHANGED <<now, cp, linked, profile, uncontrolled, solve, solves, faults>>

\* The answer to StopTransaction closes the transaction and its profile.
TransactionCloses(s) ==
  /\ Quiet
  /\ cp[s] = "left" /\ status[s] = "ended" /\ s \in linked
  /\ cp' = [cp EXCEPT ![s] = "idle"]
  /\ profile' = [profile EXCEPT ![s] = NoProfile]
  /\ UNCHANGED <<now, status, linked, memoryVars, uncontrolled, solve, solves, faults>>

\* The charger restarts: its transaction is gone, the server's session is not.
Restart(s) ==
  /\ Quiet
  /\ InTransaction(s)
  /\ faults < MaxFaults
  /\ faults' = faults + 1
  /\ cp' = [cp EXCEPT ![s] = "restarted"]
  /\ profile' = [profile EXCEPT ![s] = NoProfile]
  /\ UNCHANGED <<now, status, linked, memoryVars, uncontrolled, solve, solves>>

\* A connection is lost, or made again.
LinkChanges(s) ==
  /\ Quiet
  /\ \/ s \in linked /\ faults < MaxFaults /\ faults' = faults + 1 /\ linked' = linked \ {s}
     \/ s \notin linked /\ solve.awaits # s /\ linked' = linked \cup {s} /\ UNCHANGED faults
  /\ UNCHANGED <<now, status, cp, profile, memoryVars, uncontrolled, solve, solves>>

Tick ==
  /\ Quiet
  /\ now < MaxNow
  /\ now' = now + 1
  /\ UNCHANGED <<siteVars, profile, memoryVars, uncontrolled, solve, solves, faults>>

Next ==
  \/ SolveBegins \/ Decide \/ SolveEnds \/ Tick
  \/ \E s \in Sessions : \/ Send(s) \/ Accepted(s) \/ Refused(s) \/ Fails(s)
                         \/ PlugIn(s) \/ Leave(s) \/ SessionEnds(s) \/ TransactionCloses(s)
                         \/ Restart(s) \/ LinkChanges(s)

Spec == Init /\ [][Next]_vars

\* Schedulers and CALLs have time limits; nothing is assumed of cars and chargers.
FairSpec ==
  /\ Spec
  /\ WF_vars(Decide) /\ WF_vars(SolveEnds)
  /\ \A s \in Sessions : WF_vars(Send(s)) /\ WF_vars(Accepted(s) \/ Refused(s) \/ Fails(s))

-----------------------------------------------------------------------------
(* Properties. *)

TypeOK ==
  /\ now \in 0..MaxNow
  /\ status \in [Sessions -> {"new", "active", "ended"}]
  /\ cp \in [Sessions -> {"idle", "charging", "left", "restarted"}]
  /\ linked \in SUBSET Sessions
  /\ profile \in [Sessions -> [from : 0..MaxNow, limits : Rows] \cup {NoProfile}]
  /\ \A s \in Sessions : lastSentW[s] \in Seq(Levels) /\ Len(lastSentW[s]) <= Lookahead
  /\ lastSentAt \in [Sessions -> 0..MaxNow]
  /\ rejections \in [Sessions -> Nat]
  /\ uncontrolled \in SUBSET Sessions
  /\ solve.todo \subseteq solve.sessions /\ solve.planned \subseteq solve.sessions
  /\ solve.awaits \in solve.sessions \cup {"nobody"}

\* What is remembered as sent is what the charger does, as long as it runs the
\* transaction: refusals, lost answers and late ones have never left the two
\* apart, or an unchanged plan would not be sent where it is needed.
RememberedIsInForce ==
  \A s \in Sessions :
    lastSentW[s] # <<>> /\ cp[s] = "charging" => Collapse(profile[s].limits) = lastSentW[s]

\* Sessions of a solve whose chargers have not failed to take their last profile.
Obedient == {s \in solve.sessions : cp[s] = "charging" /\ rejections[s] = 0}

\* A profile of an earlier plan counts as this one's: it has the same limits, no
\* two neighbours alike, and was accepted less than StaleAfter before the solve.
Kept(s) ==
  /\ \A i \in 2..Lookahead : solve.rows[s][i] # solve.rows[s][i - 1]
  /\ solve.at < lastSentAt[s] + StaleAfter

Follows(s) ==
  /\ profile[s].limits = solve.rows[s]
  /\ profile[s].from = SlotAt(solve.at) \/ Kept(s)

\* A profile of more than one slot, accepted within its first, has a limit for the
\* slot the solve began in.
StillCovers(s) ==
  Lookahead > 1 /\ SlotAt(lastSentAt[s]) = profile[s].from =>
    SlotAt(solve.at) < profile[s].from + Lookahead

\* At the end of a solve each charger that has not failed to take it has a
\* profile with the limits of this plan, and one that starts with this plan's
\* first slot but for the plans that repeat, limit by limit, what was last sent;
\* none has run out: "an unchanged plan let one expire ... a profile is
\* refreshed before it expires" (docs/REVIEW.md).
TakesEffect == SolveEnds => \A s \in Obedient : Follows(s) /\ StillCovers(s)
PlanIsInForce == [][TakesEffect]_vars

\* The limit a profile sets in a slot, if it still covers it.
LimitIn(slot, held) ==
  LET i == 1 + slot - held.from
  IN  IF i \in DOMAIN held.limits THEN {held.limits[i]} ELSE {}

\* "The immediate slot is binding ... Every re-solve overwrites it"
\* (docs/REVIEW.md): when a solve ends, a charger that has not failed to take
\* its plan holds the limit that this plan sets for its first slot.
ImmediateSlotIsBinding ==
  [][SolveEnds => \A s \in Obedient :
       LimitIn(SlotAt(solve.at), profile[s]) = {solve.rows[s][1]}]_vars

\* "One refusal is retried on the next solve."
RefusalIsRetried ==
  [][Decide => \A s \in solve.sessions : rejections[s] > 0 => s \in solve'.todo]_vars

\* A solve ends although chargers drop off, refuse or fall silent on the way.
SolveAlwaysEnds == solve.phase # "idle" ~> solve.phase = "idle"

\* "it runs at full power and the optimiser plans around it as fixed load": no
\* limit is put on a charger while it is marked.
RunsFreeWhileMarked ==
  [][\A s \in uncontrolled : profile'[s] \in {profile[s], NoProfile}]_vars
=============================================================================
