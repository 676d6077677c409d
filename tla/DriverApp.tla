------------------------------ MODULE DriverApp -----------------------------
(***************************************************************************)
(* The driver's phone: how it finds a server among the addresses it was    *)
(* built with (api.ts: resolveBase, request, orDemo), what it puts in the  *)
(* place of answers when there is none, and how the app follows the        *)
(* driver's session by polling (App.tsx: loadSession, the load on mount).  *)
(***************************************************************************)
EXTENDS Naturals

CONSTANTS
  Candidates,   \* how many addresses the app knows, probed in order
  MaxCalls,     \* requests under way at once
  MaxSessions,
  MaxMoves,     \* of the phone or the server, from one address to another or to none
  MaxLapses

DriverAssumption ==
  /\ {Candidates, MaxCalls, MaxSessions} \subseteq Nat \ {0}
  /\ {MaxMoves, MaxLapses} \subseteq Nat

VARIABLES
  reach,      \* the address at which a server can be reached, 0: at none
  begun,      \* sessions of this driver so far
  live,       \* the one that goes on at the server, or NoSession
  moves,
  base,       \* resolvedBase, 0: null
  probe,      \* the address being probed, 0: no probe, Settled: the promise is
  offline,
  calls,      \* the requests under way
  current, previous, finished, demo, shownError,   \* the app's state (error)
  sites,      \* what the load on mount brought: also its vehicles and the driver's name
  loading,
  lapses

driverVars == <<reach, begun, live, moves, base, probe, offline, calls, current, previous,
                finished, demo, shownError, sites, loading, lapses>>
serverVars == <<reach, begun, live, moves>>
apiVars == <<base, probe, offline>>
screenVars == <<current, previous, finished, demo, shownError, sites, loading>>

Slots == 1..MaxCalls
NoSession == 0
Demo == MaxSessions + 1         \* the session, report or sites of the built-in snapshot
Real == 1..MaxSessions
Settled == Candidates + 1
Shown == {NoSession, Demo} \cup Real

NoCall == [what |-> "idle", phase |-> "none", at |-> 0, value |-> NoSession]

AppTypeOK ==
  /\ reach \in 0..Candidates /\ begun \in 0..MaxSessions /\ live \in {NoSession} \cup Real
  /\ moves \in 0..MaxMoves /\ lapses \in 0..MaxLapses
  /\ base \in 0..Candidates /\ probe \in 0..Settled
  /\ {current, previous, finished} \subseteq Shown
  /\ {offline, demo, shownError, loading} \subseteq BOOLEAN
  /\ sites \in {"none", "real", "demo"}
  /\ calls \in [Slots -> [what : {"idle", "current", "report", "sites"},
                          phase : {"none", "resolving", "sent", "answered"},
                          at : 0..Candidates, value : Shown]]

-----------------------------------------------------------------------------
(***************************************************************************)
(* The server and the way to it.                                           *)
(***************************************************************************)
Moves(r) ==
  /\ moves < MaxMoves /\ moves' = moves + 1
  /\ r # reach /\ reach' = r
  /\ UNCHANGED <<begun, live, apiVars, calls, screenVars, lapses>>

\* The driver's session begins (from this phone or by card) and ends.
SessionTurns ==
  /\ \/ live = NoSession /\ begun < MaxSessions /\ begun' = begun + 1 /\ live' = begun'
     \/ live # NoSession /\ live' = NoSession /\ UNCHANGED begun
  /\ UNCHANGED <<reach, moves, apiVars, calls, screenVars, lapses>>

-----------------------------------------------------------------------------
(***************************************************************************)
(* resolveBase.                                                            *)
(***************************************************************************)
\* Where a request goes once the base is known, or known not to be.
Target == IF base # 0 THEN base ELSE 1
Resolved == base # 0 \/ probe = Settled

Request(what, value) ==
  IF Resolved THEN [what |-> what, phase |-> "sent", at |-> Target, value |-> value]
  ELSE [what |-> what, phase |-> "resolving", at |-> 0, value |-> value]
Joined == IF Resolved THEN probe ELSE IF probe = 0 THEN 1 ELSE probe

\* Everything that awaits the probe goes to the address it came to.
SentTo(candidate) ==
  [c \in Slots |-> IF calls[c].phase = "resolving"
                   THEN [calls[c] EXCEPT !.phase = "sent", !.at = candidate] ELSE calls[c]]

\* Slip: a server is found and the app goes on as if none had been.
StaysOffline == offline
\* The health check of a candidate is answered.
OfflineNoMore == FALSE

ProbeFinds ==
  /\ base = 0 /\ probe \in 1..Candidates /\ reach = probe
  /\ base' = probe /\ probe' = Settled /\ offline' = OfflineNoMore
  /\ calls' = SentTo(probe)
  /\ UNCHANGED <<serverVars, screenVars, lapses>>

\* Slip: the attempt that found nothing is kept.
KeepAttempt == Settled
\* "Forget the attempt so the next request probes again."
ForgetAttempt == 0

\* No answer in time, or an error: the next candidate, and after the last one the snapshot.
ProbeMisses ==
  /\ base = 0 /\ probe \in 1..Candidates
  /\ IF reach # probe THEN UNCHANGED lapses ELSE lapses < MaxLapses /\ lapses' = lapses + 1
  /\ \/ probe < Candidates /\ probe' = probe + 1 /\ UNCHANGED <<offline, calls>>
     \/ probe = Candidates /\ probe' = ForgetAttempt /\ offline' = TRUE /\ calls' = SentTo(1)
  /\ UNCHANGED <<serverVars, base, screenVars>>

-----------------------------------------------------------------------------
(***************************************************************************)
(* The app.                                                                *)
(***************************************************************************)
Free == {c \in Slots : calls[c] = NoCall}
NextFree == CHOOSE c \in Free : \A d \in Free : c <= d

\* loadSession, every five seconds; beyond MaxCalls a poll waits until one has settled.
\* One call is left for a report.
PollSession ==
  /\ \E c \in Free : c # NextFree
  /\ calls' = [calls EXCEPT ![NextFree] = Request("current", NoSession)]
  /\ probe' = Joined
  /\ UNCHANGED <<serverVars, base, offline, screenVars, lapses>>

\* The driver has read the summary.
Dismisses ==
  /\ finished # NoSession /\ finished' = NoSession
  /\ UNCHANGED <<serverVars, apiVars, calls, current, previous, demo,
                 shownError, sites, loading, lapses>>

\* current() is settled with a session, its null, or the snapshot's: one that has gone is reported on.
ShowsCurrent(c, next) ==
  /\ IF previous # NoSession /\ next # previous
     THEN calls' = [calls EXCEPT ![c] = Request("report", previous)] /\ probe' = Joined
     ELSE calls' = [calls EXCEPT ![c] = NoCall] /\ UNCHANGED probe
  /\ previous' = next /\ current' = next
  /\ demo' = offline /\ shownError' = FALSE /\ loading' = FALSE
  /\ UNCHANGED <<finished, sites>>

ShowsReport(c, about) ==
  /\ finished' = about
  /\ calls' = [calls EXCEPT ![c] = NoCall]
  /\ UNCHANGED <<probe, current, previous, demo, shownError, sites, loading>>

ShowsSites(c, origin) ==
  /\ sites' = origin
  /\ calls' = [calls EXCEPT ![c] = NoCall]
  /\ UNCHANGED <<probe, current, previous, finished, demo, shownError, loading>>

\* The server has what it is asked for; a report of the snapshot's session it has not.
Serves(c) ==
  /\ calls[c].phase = "sent" /\ reach = calls[c].at
  /\ ~(calls[c].what = "report" /\ calls[c].value = Demo)
  /\ calls' = [calls EXCEPT ![c].phase = "answered",
                            ![c].value = IF calls[c].what = "current" THEN live ELSE @]
  /\ UNCHANGED <<serverVars, apiVars, screenVars, lapses>>

Arrives(c) ==
  /\ calls[c].phase = "answered"
  /\ \/ calls[c].what = "current" /\ ShowsCurrent(c, calls[c].value)
     \/ calls[c].what = "report" /\ ShowsReport(c, calls[c].value)
     \/ calls[c].what = "sites" /\ ShowsSites(c, "real")
  /\ UNCHANGED <<serverVars, base, offline, lapses>>

Lost(c) ==
  \/ /\ calls[c].phase = "sent"
     /\ reach # calls[c].at \/ (calls[c].what = "report" /\ calls[c].value = Demo)
     /\ UNCHANGED lapses
  \/ /\ calls[c].phase \in {"sent", "answered"}
     /\ lapses < MaxLapses /\ lapses' = lapses + 1

\* orDemo: the snapshot stands in while the app is offline at the moment of the failure.
FallsBack(c) ==
  /\ Lost(c) /\ offline
  /\ \/ calls[c].what = "current" /\ ShowsCurrent(c, Demo)
     \/ calls[c].what = "report" /\ ShowsReport(c, Demo)
     \/ calls[c].what = "sites" /\ ShowsSites(c, "demo")
  /\ UNCHANGED <<serverVars, base, offline>>

\* Otherwise the error is shown, except a report's, and the figures stay.
Errs(c) ==
  /\ Lost(c) /\ ~offline
  /\ shownError' = (shownError \/ calls[c].what # "report")
  /\ loading' = (loading /\ calls[c].what # "current")
  /\ calls' = [calls EXCEPT ![c] = NoCall]
  /\ UNCHANGED <<serverVars, apiVars, current, previous, finished, demo, sites>>

-----------------------------------------------------------------------------
\* The app is mounted: the sites are loaded once and the first poll goes out; both await one probe.
AppInit ==
  /\ reach \in 0..Candidates /\ moves = 0
  /\ begun \in {0, 1} /\ live = begun
  /\ base = 0 /\ probe = 1 /\ offline = FALSE
  /\ calls = [c \in Slots |->
       CASE c = 1 -> [NoCall EXCEPT !.what = "sites", !.phase = "resolving"]
         [] c = 2 -> [NoCall EXCEPT !.what = "current", !.phase = "resolving"]
         [] OTHER -> NoCall]
  /\ current = NoSession /\ previous = NoSession /\ finished = NoSession
  /\ demo = FALSE /\ shownError = FALSE /\ sites = "none" /\ loading = TRUE
  /\ lapses = 0

AppNext ==
  \/ \E r \in 0..Candidates : Moves(r)
  \/ SessionTurns
  \/ ProbeFinds \/ ProbeMisses
  \/ PollSession \/ Dismisses
  \/ \E c \in Slots : Serves(c) \/ Arrives(c) \/ FallsBack(c) \/ Errs(c)

CallSettles(c) == Serves(c) \/ Arrives(c) \/ FallsBack(c) \/ Errs(c)

\* The interval goes on, and a fetch is answered, fails or is aborted.
AppFairness ==
  /\ WF_driverVars(ProbeFinds \/ ProbeMisses) /\ WF_driverVars(PollSession)
  /\ \A c \in Slots : WF_driverVars(CallSettles(c))

AppSpec == AppInit /\ [][AppNext]_driverVars /\ AppFairness

-----------------------------------------------------------------------------
\* "if one was reachable and later drops, errors surface instead": once a server has answered,
\* no figure of the built-in snapshot enters the screens, whenever the request for it was made.
NeverInvented ==
  [][base # 0 => /\ current' = Demo => current = Demo
                 /\ finished' = Demo => finished = Demo
                 /\ sites' = "demo" => sites = "demo"]_<<current, finished, sites>>

\* A phone that fell back to the snapshot comes back: with a server at an address that no other
\* one has taken the place of, the app ends up showing the driver's session as it is, unlabelled.
ShowsTheSession == reach # 0 /\ base \in {0, reach} => current = live /\ ~demo
Recovers == <>[]ShowsTheSession
=============================================================================
