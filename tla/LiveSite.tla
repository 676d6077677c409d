------------------------------ MODULE LiveSite ------------------------------
(***************************************************************************)
(* A page of the operator console that follows one site (useLiveSite)      *)
(* through the dashboard channel of the server (DashboardChannel): the     *)
(* state is loaded over REST every five seconds and, between two loads,    *)
(* kept current by the events of a socket that is opened anew when it      *)
(* drops.  A site has one session here, and versions stand for contents.   *)
(***************************************************************************)
EXTENDS Naturals, Sequences

CONSTANTS
  Sites,
  FirstSite,
  MaxLoads,     \* refreshes that may be under way at once
  MaxSockets,
  MaxChanges,
  MaxSwitches,
  MaxFaults

LiveSiteAssumption ==
  /\ FirstSite \in Sites
  /\ {MaxLoads, MaxSockets, MaxChanges, MaxSwitches, MaxFaults} \subseteq Nat

VARIABLES
  truth,      \* the server's sessions and plan of each site, by version
  effects,    \* the sites chosen so far: each ran the effects once, the last is in force
  sessions,   \* the page's list: site -> version of its session, or Absent
  plan,       \* [site, version], or Nothing
  connected,
  error,
  loads,      \* the refreshes under way
  sockets,    \* by number, in the order they were opened
  timers,     \* effects whose retry timer is set
  changes,    \* of the truth, so far
  faults

siteVars == <<truth, effects, sessions, plan, connected, error, loads, sockets, timers,
              changes, faults>>
boundVars == <<changes, faults>>
viewVars == <<sessions, plan, error>>

Loads == 1..MaxLoads
Absent == MaxChanges + 1
Versions == 0..MaxChanges
Nothing == [site |-> "none", version |-> 0]
Idle == [stage |-> "idle", site |-> "none", version |-> Absent]

Effect == Len(effects)
Site == effects[Effect]
Live(k) == sockets[k].state \in {"connecting", "open", "lost"}

Events == [kind : {"open", "session.updated", "meter.updated", "plan.solved"},
           site : Sites, version : Versions]
Refreshes == [stage : {"idle", "first", "firstRead", "second", "secondRead"},
              site : Sites \cup {"none"}, version : Versions \cup {Absent}]
Sockets == [effect : Nat, state : {"connecting", "open", "lost", "closing", "closed"},
            inbox : Seq(Events)]

TypeOK ==
  /\ truth \in [Sites -> [sessions : Versions, plan : Versions]]
  /\ effects \in Seq(Sites) /\ effects # <<>>
  /\ sessions \in [Sites -> Versions \cup {Absent}]
  /\ plan \in [site : Sites \cup {"none"}, version : Versions]
  /\ {connected, error} \subseteq BOOLEAN
  /\ loads \in [Loads -> Refreshes]
  /\ sockets \in Seq(Sockets)
  /\ timers \subseteq Nat
  /\ changes \in 0..MaxChanges /\ faults \in 0..MaxFaults

-----------------------------------------------------------------------------
(***************************************************************************)
(* The server and the channel.                                             *)
(***************************************************************************)
\* broadcast: to the open sockets of the site; each gets its events in order.
Broadcast(s, event) ==
  sockets' = [k \in DOMAIN sockets |->
    IF sockets[k].state = "open" /\ effects[sockets[k].effect] = s
    THEN [sockets[k] EXCEPT !.inbox = Append(@, event)] ELSE sockets[k]]

\* The events of SessionService and of a solve that the channel passes on.
Changed(s) ==
  /\ changes < MaxChanges /\ changes' = changes + 1
  /\ \/ \E kind \in {"session.updated", "meter.updated"} :
          /\ truth' = [truth EXCEPT ![s].sessions = @ + 1]
          /\ Broadcast(s, [kind |-> kind, site |-> s, version |-> truth'[s].sessions])
     \/ /\ truth' = [truth EXCEPT ![s].plan = @ + 1]
        /\ Broadcast(s, [kind |-> "plan.solved", site |-> s, version |-> truth'[s].plan])
  /\ UNCHANGED <<effects, viewVars, connected, loads, timers, faults>>

\* handleUpgrade: the first thing on a new socket is its opening.
Accepted(k) ==
  /\ sockets[k].state = "connecting"
  /\ sockets' = [sockets EXCEPT ![k].state = "open",
                   ![k].inbox = <<[kind |-> "open", site |-> Site, version |-> 0]>>]
  /\ UNCHANGED <<truth, effects, viewVars, connected, loads, timers, boundVars>>

\* Refused, shut down or cut off: what was on its way may be lost with it.
Dropped(k) ==
  /\ faults < MaxFaults /\ faults' = faults + 1
  /\ sockets[k].state \in {"connecting", "open"}
  /\ \E n \in 0..Len(sockets[k].inbox) :
       sockets' = [sockets EXCEPT ![k].state = "lost", ![k].inbox = SubSeq(@, 1, n)]
  /\ UNCHANGED <<truth, effects, viewVars, connected, loads, timers, changes>>

-----------------------------------------------------------------------------
(***************************************************************************)
(* The effect that keeps a socket.                                         *)
(***************************************************************************)
NewSocket(e) == [effect |-> e, state |-> "connecting", inbox |-> <<>>]

\* What an event does to the page, whichever site the page shows by now.
Apply(event) ==
  /\ connected' = (connected \/ event.kind = "open")
  /\ sessions' = CASE event.kind = "session.updated" -> [sessions EXCEPT ![event.site] = event.version]
                   [] event.kind = "meter.updated" /\ sessions[event.site] # Absent ->
                        [sessions EXCEPT ![event.site] = event.version]
                   [] OTHER -> sessions
  /\ plan' = IF event.kind = "plan.solved" THEN [site |-> event.site, version |-> event.version] ELSE plan

\* onopen and onmessage; a socket that was closed from here says nothing more.
Hears(k) ==
  /\ sockets[k].state \in {"open", "lost"} /\ sockets[k].inbox # <<>>
  /\ Apply(Head(sockets[k].inbox))
  /\ sockets' = [sockets EXCEPT ![k].inbox = Tail(@)]
  /\ UNCHANGED <<truth, effects, error, loads, timers, boundVars>>

\* onclose; `closed` is true of every effect but the one in force.
Closes(k) ==
  /\ sockets[k].state \in {"lost", "closing"} /\ sockets[k].inbox = <<>>
  /\ sockets' = [sockets EXCEPT ![k].state = "closed"]
  /\ connected' = FALSE
  /\ timers' = IF sockets[k].effect = Effect THEN timers \cup {Effect} ELSE timers
  /\ UNCHANGED <<truth, effects, viewVars, loads, boundVars>>

Reconnects(e) ==
  /\ e \in timers /\ Len(sockets) < MaxSockets
  /\ timers' = timers \ {e}
  /\ sockets' = Append(sockets, NewSocket(e))
  /\ UNCHANGED <<truth, effects, viewVars, connected, loads, boundVars>>

\* Slip: only the socket is cleaned up.
SocketsOnly == timers
\* The effect's cleanup: no further retry, and the socket it has is closed.
TimersLeft == timers \ {Effect}
SocketsLeft == [k \in DOMAIN sockets |->
  IF sockets[k].effect = Effect /\ sockets[k].state # "closed"
  THEN [sockets[k] EXCEPT !.state = "closing", !.inbox = <<>>] ELSE sockets[k]]

-----------------------------------------------------------------------------
(***************************************************************************)
(* The effect that loads.                                                  *)
(***************************************************************************)
Asked(l) == loads[l].stage \in {"first", "second"}
Started(s) == [stage |-> "first", site |-> s, version |-> Absent]

\* A poll beyond MaxLoads waits until a refresh has settled; which number it has tells nothing.
Starts(l, s) ==
  /\ loads[l] = Idle /\ \A m \in 1..(l - 1) : loads[m] # Idle
  /\ loads' = [loads EXCEPT ![l] = Started(s)]

\* Slip: polling is for when there is no socket.
PollIfNotConnected(l) ==
  /\ ~connected
  /\ Starts(l, Site)
  /\ UNCHANGED <<truth, effects, viewVars, connected, sockets, timers, boundVars>>

\* Every five seconds, whether the socket is open or not.
Poll(l) ==
  /\ Starts(l, Site)
  /\ UNCHANGED <<truth, effects, viewVars, connected, sockets, timers, boundVars>>

\* The server reads what it will answer: first the sessions, then the plan.
Reads(l) ==
  /\ Asked(l)
  /\ loads' = [loads EXCEPT
       ![l].stage = IF @ = "first" THEN "firstRead" ELSE "secondRead",
       ![l].version = IF loads[l].stage = "first" THEN truth[loads[l].site].sessions
                      ELSE truth[loads[l].site].plan]
  /\ UNCHANGED <<truth, effects, viewVars, connected, sockets, timers, boundVars>>

\* The answer is put into the page, for the site it was asked for.
FirstArrives(l) ==
  /\ loads[l].stage = "firstRead"
  /\ sessions' = [s \in Sites |-> IF s = loads[l].site THEN loads[l].version ELSE Absent]
  /\ error' = FALSE
  /\ loads' = [loads EXCEPT ![l].stage = "second", ![l].version = Absent]
  /\ UNCHANGED <<truth, effects, plan, connected, sockets, timers, boundVars>>

SecondArrives(l) ==
  /\ loads[l].stage = "secondRead"
  /\ plan' = [site |-> loads[l].site, version |-> loads[l].version]
  /\ loads' = [loads EXCEPT ![l] = Idle]
  /\ UNCHANGED <<truth, effects, sessions, error, connected, sockets, timers, boundVars>>

\* A failed first part ends the refresh; a failed plan is shown as none.
Fails(l) ==
  /\ faults < MaxFaults /\ faults' = faults + 1
  /\ loads[l] # Idle
  /\ loads' = [loads EXCEPT ![l] = Idle]
  /\ \/ loads[l].stage \in {"first", "firstRead"} /\ error' = TRUE /\ UNCHANGED plan
     \/ loads[l].stage \in {"second", "secondRead"} /\ plan' = Nothing /\ UNCHANGED error
  /\ UNCHANGED <<truth, effects, sessions, connected, sockets, timers, changes>>

-----------------------------------------------------------------------------
\* Another site is chosen: both effects clean up and run again, the page keeps its state.
Switches(s) ==
  /\ s # Site /\ Effect <= MaxSwitches /\ Len(sockets) < MaxSockets
  /\ effects' = Append(effects, s)
  /\ timers' = TimersLeft
  /\ sockets' = Append(SocketsLeft, NewSocket(Effect + 1))
  /\ \E l \in Loads : Starts(l, s)
  /\ UNCHANGED <<truth, viewVars, connected, boundVars>>

\* The page is mounted for a site: a refresh is started and a socket opened.
Init ==
  /\ truth = [s \in Sites |-> [sessions |-> 0, plan |-> 0]]
  /\ effects = <<FirstSite>>
  /\ sessions = [s \in Sites |-> Absent] /\ plan = Nothing
  /\ connected = FALSE /\ error = FALSE
  /\ loads = [l \in Loads |-> IF l = 1 THEN Started(Site) ELSE Idle]
  /\ sockets = <<NewSocket(1)>> /\ timers = {} /\ changes = 0 /\ faults = 0

Next ==
  \/ \E s \in Sites : Changed(s) \/ Switches(s)
  \/ \E k \in DOMAIN sockets : Accepted(k) \/ Dropped(k) \/ Hears(k) \/ Closes(k)
  \/ \E e \in timers : Reconnects(e)
  \/ \E l \in Loads : Poll(l) \/ Reads(l) \/ FirstArrives(l) \/ SecondArrives(l) \/ Fails(l)

PollsGoOn == \E l \in Loads : Poll(l)
Settles(l) == Reads(l) \/ FirstArrives(l) \/ SecondArrives(l) \/ Fails(l)

\* The interval goes on, and every request is answered or fails.
Fairness == WF_siteVars(PollsGoOn) /\ \A l \in Loads : WF_siteVars(Settles(l))

Spec == Init /\ [][Next]_siteVars /\ Fairness

-----------------------------------------------------------------------------
\* However loads, events and a change of the site overlap, and whatever was missed while the
\* socket was down, the page ends up with the state of the site that is chosen and no other's:
\* "so the numbers are never silently stale".
ShowsTheSite ==
  /\ sessions = [s \in Sites |-> IF s = Site THEN truth[s].sessions ELSE Absent]
  /\ plan = [site |-> Site, version |-> truth[Site].plan]
Converges == <>[]ShowsTheSite

\* The page has exactly one line to the server at any moment, a socket or a timer that will open
\* one, and it is the chosen site's: no retry of an earlier choice comes back later.
OneLine ==
  /\ IF timers = {} THEN \E k \in DOMAIN sockets : \A m \in DOMAIN sockets : Live(m) <=> m = k
     ELSE \A k \in DOMAIN sockets : ~Live(k)
  /\ timers \subseteq {Effect}
  /\ \A k \in DOMAIN sockets : Live(k) => sockets[k].effect = Effect
=============================================================================
