------------------------------- MODULE Hosting ------------------------------
(***************************************************************************)
(* The hosted demo as one tree of processes: scripts/start.mjs launches    *)
(* the server, waits for its health, launches the simulator, launches it   *)
(* again when it stops, and stops with the server.  Signals come from the  *)
(* host, to the script alone or, from a terminal, to every process.        *)
(***************************************************************************)
EXTENDS Naturals

CONSTANTS MaxSignals, MaxFaults   \* bounds on what the host and bad luck do

HostingAssumption == {MaxSignals, MaxFaults} \subseteq Nat

VARIABLES
  script,     \* "running", "stopping" (the flag is set) or "gone"
  health,     \* waitForHealth: "asking", "answered", or "off" if it is not or no more asked
  server,     \* "booting", "open" (it listens, the first solves run, no signal handlers yet),
              \* "ready", "draining" (in its shutdown) or "down"
  sim,        \* "none", "starting", "driving", "stalled" (no day is driven, but open sockets
              \* keep the process), "leaving", or "exited" (and the script does not know)
  stray,      \* who holds a connection the gateway has lost from its map: "nobody",
              \* "simulator" (one of its chargers), "outsider" (a charger of its own)
  timer,      \* startSimulator is due in SIMULATOR_RESTART_MS
  pending,    \* processes a signal from the terminal is yet to reach
  signals, faults

vars == <<script, health, server, sim, stray, timer, pending, signals, faults>>

HostingTypeOK ==
  /\ script \in {"running", "stopping", "gone"}
  /\ health \in {"asking", "answered", "off"}
  /\ server \in {"booting", "open", "ready", "draining", "down"}
  /\ sim \in {"none", "starting", "driving", "stalled", "leaving", "exited"}
  /\ stray \in {"nobody", "simulator", "outsider"}
  /\ timer \in BOOLEAN
  /\ pending \subseteq {"script", "server", "simulator"}
  /\ signals \in 0..MaxSignals /\ faults \in 0..MaxFaults

\* SIMULATOR=off leaves the simulator out.
Init ==
  /\ script = "running" /\ server = "booting" /\ sim = "none"
  /\ health \in {"asking", "off"}
  /\ stray = "nobody" /\ timer = FALSE /\ pending = {}
  /\ signals = 0 /\ faults = 0

-----------------------------------------------------------------------------
(* What a signal does to a process.                                         *)

\* The server's handlers are the last thing main() does; a second signal adds nothing.
ServerTold(s) == CASE s \in {"booting", "open"} -> "down"
                   [] s = "ready" -> "draining"
                   [] OTHER -> s

\* The simulator's handlers come before its first connection.
SimTold(s) == CASE s = "starting" -> {"leaving", "exited"}
                [] s \in {"driving", "stalled"} -> {"leaving"}
                [] OTHER -> {s}

\* The sockets of a process end with it.
SimulatorIs(state) ==
  /\ sim' = state
  /\ stray' = IF state = "exited" /\ stray = "simulator" THEN "nobody" ELSE stray

TellSimulator == \E state \in SimTold(sim) : SimulatorIs(state)

\* Slip: only the simulator is told.
StopKeepsServer ==
  /\ script' = "stopping"
  /\ TellSimulator
  /\ UNCHANGED server

\* The script's own handler.
Stop ==
  /\ script' = "stopping"
  /\ TellSimulator
  /\ server' = ServerTold(server)

StartSimulator == sim' = IF script = "running" THEN "starting" ELSE sim

-----------------------------------------------------------------------------
(* The server.                                                              *)

Listens ==
  /\ server = "booting"
  /\ server' = "open"
  /\ UNCHANGED <<script, health, sim, stray, timer, pending, signals, faults>>

StartupSolved ==
  /\ server = "open"
  /\ server' = "ready"
  /\ UNCHANGED <<script, health, sim, stray, timer, pending, signals, faults>>

\* A reconnected charger falls out of the gateway's map (module GatewayLink): one of the
\* simulator's, or another that found the server.
Strays ==
  /\ server \in {"open", "ready", "draining"} /\ stray = "nobody" /\ faults < MaxFaults
  /\ stray' \in {"outsider"} \cup {p \in {"simulator"} : sim \in {"driving", "stalled"}}
  /\ faults' = faults + 1
  /\ UNCHANGED <<script, health, server, sim, timer, pending, signals>>

OutsiderLeaves ==
  /\ stray = "outsider"
  /\ stray' = "nobody"
  /\ UNCHANGED <<script, health, server, sim, timer, pending, signals, faults>>

\* shutdown() ends in process.exit(0).  Its waits have time limits, but for gateway.close(),
\* which waits for a connection that it does not know of.
ShutdownEnds ==
  /\ server = "draining" /\ stray = "nobody"
  /\ server' = "down"
  /\ UNCHANGED <<script, health, sim, stray, timer, pending, signals, faults>>

\* A configuration that is refused, a port that is taken, an exception.
ServerFails ==
  /\ server # "down" /\ faults < MaxFaults
  /\ server' = "down" /\ faults' = faults + 1
  /\ UNCHANGED <<script, health, sim, stray, timer, pending, signals>>

-----------------------------------------------------------------------------
(* The script.                                                              *)

HealthAnswered ==
  /\ script # "gone" /\ health = "asking"
  /\ server \in {"open", "ready", "draining"}
  /\ health' = "answered"
  /\ StartSimulator
  /\ UNCHANGED <<script, server, stray, timer, pending, signals, faults>>

\* The server did not answer within HEALTH_TIMEOUT_MS.
HealthGivesUp ==
  /\ script # "gone" /\ health = "asking"
  /\ server \in {"booting", "draining"}
  /\ health' = "off"
  /\ script' = "stopping"
  /\ server' = ServerTold(server)
  /\ UNCHANGED <<sim, stray, timer, pending, signals, faults>>

ServerExits ==
  /\ script # "gone" /\ server = "down"
  /\ script' = "gone"
  /\ TellSimulator
  /\ timer' = FALSE /\ health' = "off"
  /\ UNCHANGED <<server, pending, signals, faults>>

\* Slip: a simulator that did not get as far as its first car is left alone.
SimulatorExitsOnce ==
  /\ script # "gone" /\ sim = "exited"
  /\ sim' = "none"
  /\ timer' = (script = "running" /\ faults = 0)
  /\ UNCHANGED <<script, health, server, stray, pending, signals, faults>>

SimulatorExits ==
  /\ script # "gone" /\ sim = "exited"
  /\ sim' = "none"
  /\ timer' = (script = "running")
  /\ UNCHANGED <<script, health, server, stray, pending, signals, faults>>

RestartDue ==
  /\ script # "gone" /\ timer
  /\ timer' = FALSE
  /\ StartSimulator
  /\ UNCHANGED <<script, health, server, stray, pending, signals, faults>>

-----------------------------------------------------------------------------
(* The simulator.                                                           *)

Connects ==
  /\ sim = "starting" /\ server # "down"
  /\ sim' = "driving"
  /\ UNCHANGED <<script, health, server, stray, timer, pending, signals, faults>>

\* A runner's start or its day fails, and main() only sets the exit code: the process ends
\* if no other charger holds a socket.
DayFails ==
  /\ sim \in {"starting", "driving"} /\ faults < MaxFaults
  /\ \E state \in {"stalled", "exited"} : SimulatorIs(state)
  /\ faults' = faults + 1
  /\ UNCHANGED <<script, health, server, timer, pending, signals>>

\* Without a server every socket closes, every CALL fails, and nothing is left to wait for.
LosesServer ==
  /\ sim \in {"starting", "driving", "stalled"} /\ server = "down"
  /\ SimulatorIs("exited")
  /\ UNCHANGED <<script, health, server, timer, pending, signals, faults>>

Leaves ==
  /\ sim = "leaving"
  /\ SimulatorIs("exited")
  /\ UNCHANGED <<script, health, server, timer, pending, signals, faults>>

-----------------------------------------------------------------------------
(* The host.                                                                *)

HostStops ==
  /\ script # "gone" /\ signals < MaxSignals
  /\ signals' = signals + 1
  /\ Stop
  /\ UNCHANGED <<health, timer, pending, faults>>

\* Ctrl-C reaches the processes in any order, and the script passes its own on.
TerminalStops ==
  /\ script # "gone" /\ signals < MaxSignals
  /\ signals' = signals + 1
  /\ pending' = {"script", "server", "simulator"}
  /\ UNCHANGED <<script, health, server, sim, stray, timer, faults>>

Reaches(process) ==
  /\ process \in pending
  /\ pending' = pending \ {process}
  /\ CASE process = "script" -> IF script = "gone" THEN UNCHANGED <<script, server, sim, stray>> ELSE Stop
       [] process = "server" -> server' = ServerTold(server) /\ UNCHANGED <<script, sim, stray>>
       [] process = "simulator" -> TellSimulator /\ UNCHANGED <<script, server>>
  /\ UNCHANGED <<health, timer, signals, faults>>

Next ==
  \/ Listens \/ StartupSolved \/ ShutdownEnds \/ ServerFails \/ Strays \/ OutsiderLeaves
  \/ HealthAnswered \/ HealthGivesUp \/ ServerExits \/ SimulatorExits \/ RestartDue
  \/ Connects \/ DayFails \/ LosesServer \/ Leaves
  \/ HostStops \/ TerminalStops \/ \E process \in pending : Reaches(process)

\* Each process and the system under it goes on with what it has begun.  The simulator is not
\* promised to connect before its server is gone, no outsider to leave, nor anyone that the host
\* or bad luck strikes.
\* (Steps that share a conjunct wait for different values of one variable.)
ServerGoesOn == Listens \/ StartupSolved \/ ShutdownEnds
SimulatorGoesOn == SimulatorExits \/ Connects \/ LosesServer \/ Leaves
SignalsReach == \E process \in pending : Reaches(process)

Fairness ==
  /\ WF_vars(ServerGoesOn)
  /\ WF_vars(ServerExits)
  /\ WF_vars(HealthAnswered)
  /\ WF_vars(SimulatorGoesOn)
  /\ WF_vars(RestartDue)
  /\ WF_vars(SignalsReach)

Spec == Init /\ [][Next]_vars /\ Fairness

-----------------------------------------------------------------------------
(* Once the script has begun to stop it launches no simulator, whatever was *)
(* under way: the wait for health, a restart that is due (start.mjs).       *)
StopIsFinal == [][script # "running" /\ sim # "starting" => sim' # "starting"]_vars

(* A script that has begun to stop, because it was told or the server never *)
(* answered, goes, and leaves neither server nor simulator behind: a charger*)
(* of the simulator that fell out of the gateway's map goes with it, and the*)
(* end waits only for one from outside that did and stays connected.        *)
Stopped == script = "gone" /\ server = "down" /\ sim \in {"none", "exited"}
EverythingStops == []<>(stray # "outsider") => (script = "stopping" ~> Stopped)

(* A simulator that stops is started again, for as long as the script runs. *)
(* One whose day has failed but which other sockets keep alive has not      *)
(* stopped, and is not.                                                     *)
ChargersComeBack ==
  (health = "answered" /\ script = "running") ~>
    (sim \in {"driving", "stalled"} \/ script # "running")
=============================================================================
