------------------------------- MODULE MCDoors ------------------------------
(***************************************************************************)
(* How the server is entered and left: by chargers over their connections, *)
(* by people with an access code, and as a process of the script that      *)
(* hosts it.  One behaviour is a behaviour of one of them, the others rest.*)
(***************************************************************************)
EXTENDS GatewayLink

CONSTANTS Driver, Operator, Nobody, Snapshot

VARIABLES
  part,
  up, admitted, failures, client, kept, asked, mishaps,
  script, health, server, sim, stray, timer, pending, signals, breakdowns

Gate == INSTANCE Access WITH
  Drivers <- {Driver}, Operators <- {Operator}, None <- Nobody, Demo <- Snapshot,
  GuessesAllowed <- 2, MaxTracked <- 1, MaxMishaps <- 3

Host == INSTANCE Hosting WITH MaxSignals <- 2, MaxFaults <- 2, faults <- breakdowns

ASSUME Gate!AccessAssumption /\ Host!HostingAssumption

gateVars == <<up, admitted, failures, client, kept, asked, mishaps>>
hostVars == <<script, health, server, sim, stray, timer, pending, signals, breakdowns>>
doorVars == <<part, vars, gateVars, hostVars>>

DoorsInit ==
  /\ part \in {"chargers", "people", "process"}
  /\ Init /\ Gate!Init /\ Host!Init
  /\ part # "people" => client = "console"
  /\ part # "process" => health = "off"

ByCharger(Action) == part = "chargers" /\ Action /\ UNCHANGED <<part, gateVars, hostVars>>
ByPerson(Action) == part = "people" /\ Action /\ UNCHANGED <<part, vars, hostVars>>
ByHost(Action) == part = "process" /\ Action /\ UNCHANGED <<part, vars, gateVars>>

DoorsNext == ByCharger(Next) \/ ByPerson(Gate!Next) \/ ByHost(Host!Next)

\* Each part's own fairness, see the modules; as only one part runs, a condition of each is one.
DoorsFairness ==
  /\ \A s \in Sockets :
       /\ WF_doorVars(ByCharger(HandleClose(s)) \/ ByHost(s = 1 /\ Host!ServerGoesOn))
       /\ WF_doorVars(ByCharger(Deliver(s) \/ Timeout(s)) \/ ByHost(s = 1 /\ Host!SimulatorGoesOn))
  /\ \A c \in Chargers : WF_doorVars(ByCharger(Reserve(c)))
  /\ WF_doorVars(ByCharger(PassEnds) \/ ByHost(Host!ServerExits))
  /\ WF_doorVars(ByCharger(Release) \/ ByHost(Host!HealthAnswered))
  /\ WF_doorVars(ByCharger(LetGo \/ AllClosed) \/ ByHost(Host!RestartDue))
  /\ WF_doorVars(ByPerson(Gate!WindowPasses("here")) \/ ByHost(Host!SignalsReach))
  /\ SF_doorVars(ByPerson(Gate!Admitted(Gate!Loads)))
  /\ SF_doorVars(ByPerson(Gate!Admitted(Gate!Judges)))
  /\ SF_doorVars(ByPerson(Gate!Admitted(Gate!Hears)))

DoorsSpec == DoorsInit /\ [][DoorsNext]_doorVars /\ DoorsFairness

\* A refused code ends the sign-in (Access).
RefusedGoesToGate == Gate!RefusedGoesToGate
\* Once the script has begun to stop nothing is launched, and nothing stays, as long
\* as no charger from outside that fell out of the gateway's map stays connected (Hosting).
EverythingStops == Host!StopIsFinal /\ Host!EverythingStops
\* A simulator that stops comes back (Hosting).
ChargersComeBack == Host!ChargersComeBack
=============================================================================
