-------------------------- MODULE MCOptimiserLoop --------------------------
(***************************************************************************)
(* A site's loop, the sending of what it has planned, and what outlives    *)
(* both: who and what the server knows.  One behaviour is a behaviour of   *)
(* one of them, the others rest.                                           *)
(***************************************************************************)
EXTENDS OptimiserLoop, Registry

CONSTANTS van, shopper, newCar, first, second

VARIABLES
  part,
  clock, held, charger, linked, profile, lastSentW, lastSentAt, rejections, uncontrolled,
  solve, solves, troubles

\* Two sites of a charger each; the one driver parks at the first.
MCHomes == [c1 |-> "s1", c2 |-> "s2"]
MCMembers == [d1 |-> "s1"]
MCTags == [d1 |-> "t1"]

\* The sessions of the site, each on a charger of its own.
Profiles == INSTANCE Dispatch WITH
  Levels <- {0, 1}, Lookahead <- 2, SlotLength <- 1,
  MaxNow <- 1, MaxSolves <- 1, MaxFaults <- 1,
  now <- clock, status <- held, cp <- charger, faults <- troubles

ASSUME Profiles!DispatchAssumption

profileVars == <<clock, held, charger, linked, profile, lastSentW, lastSentAt, rejections,
                 uncontrolled, solve, solves, troubles>>
serverVars == <<part, vars, profileVars, knownVars>>

ServerInit == part \in {"loop", "profiles", "known"} /\ Init /\ Profiles!Init /\ RegistryInit

InLoop(Action) == part = "loop" /\ Action /\ UNCHANGED <<part, profileVars, knownVars>>
InProfiles(Action) == part = "profiles" /\ Action /\ UNCHANGED <<part, vars, knownVars>>

ServerNext ==
  \/ InLoop(Next)
  \/ InProfiles(Profiles!Next)
  \/ part = "known" /\ RegistryNext /\ UNCHANGED <<part, vars, profileVars>>

Answers(s) == Profiles!Accepted(s) \/ Profiles!Refused(s) \/ Profiles!Fails(s)

\* Each part's own fairness, see the modules; as only one part runs, a condition of each is one.
ServerSpec ==
  /\ ServerInit /\ [][ServerNext]_serverVars
  /\ WF_serverVars(InLoop(DebounceFires) \/ InProfiles(Profiles!Decide))
  /\ WF_serverVars(InLoop(Tick) \/ InProfiles(Profiles!SolveEnds))
  /\ WF_serverVars(InLoop(ForecastReady \/ SolveFails) \/ InProfiles(Profiles!Send(van)))
  /\ WF_serverVars(InLoop(PlanSolved \/ SolveFails) \/ InProfiles(Profiles!Send(shopper)))
  /\ WF_serverVars(InLoop(Dispatched) \/ InProfiles(Answers(van)))
  /\ WF_serverVars(InProfiles(Answers(shopper)))

\* A solve ends although chargers drop off, refuse or fall silent on the way (Dispatch).
SolveAlwaysEnds == Profiles!SolveAlwaysEnds
=============================================================================
