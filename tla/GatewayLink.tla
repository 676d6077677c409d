----------------------------- MODULE GatewayLink -----------------------------
(***************************************************************************)
(* Which connection speaks for a charger, and who waits for it: the        *)
(* connection handling, BootNotification and close() of OcppGateway        *)
(* (apps/server/src/ocpp/gateway.ts), reserveForIdleBays of the dispatcher *)
(* (optimiser/dispatcher.ts) and the shutdown of index.ts.                 *)
(*                                                                         *)
(* The CALLs of one connection are the queue of its OcppRpc: one at a time *)
(* and in order (module OcppRpc).  A break is noticed by the charger at    *)
(* once and by the server whenever the close event comes.                  *)
(***************************************************************************)
EXTENDS Naturals, FiniteSets, Sequences, SequencesExt

CONSTANTS Chargers,
          MaxSockets,    \* bound: connections ever opened
          MaxSolves,     \* bound: solves that reach the idle bays
          MaxFaults      \* bound: broken connections, and answers that are late

ASSUME BoundsAssumption == MaxSockets \in Nat \ {0} /\ MaxSolves \in Nat /\ MaxFaults \in Nat

VARIABLES owner,         \* charger of each socket, or "nobody" while unused
          sock,          \* "unused", "open", "gone" (close event to come), "closed"
          booted,        \* sockets on which BootNotification was sent
          rpc,           \* sockets whose OcppRpc is not closed
          calls,         \* CALLs of each socket's OcppRpc, the oldest first
          connections,   \* the gateway's map, 0 for none
          online,        \* the online column of each charger's row
          lastDefaultW,  \* what the dispatcher remembers to have sent it
          solve,         \* the pass over the idle bays of the running solve
          shut,          \* how far the shutdown has come
          handing,       \* chargers whose ClearChargingProfile close() awaits
          solves, faults \* bounded counters

linkVars == <<owner, sock, booted, rpc, connections, online>>
shutVars == <<shut, handing>>
vars == <<linkVars, calls, lastDefaultW, solve, shutVars, solves, faults>>

Sockets == 1..MaxSockets

\* Power an idle bay may offer: the share sized at boot, or what a plan leaves.
Shares == {"nothing", "spare"}

Cmd(kind, level) == [kind |-> kind, level |-> level]

\* The CALLs the server sends: the safety profile, the hand-back, a share.
Commands == {Cmd("safety", "safety"), Cmd("clear", "none")} \cup {Cmd("reserve", s) : s \in Shares}

\* A pass that is not running.
NoPass == [on |-> FALSE, share |-> "nothing", todo |-> {}, awaits |-> 0]

IsOpen(s) == sock[s] = "open"
Linked(c) == \E s \in Sockets : owner[s] = c /\ IsOpen(s)

Init ==
  /\ owner = [s \in Sockets |-> "nobody"]
  /\ sock = [s \in Sockets |-> "unused"]
  /\ booted = {}
  /\ rpc = {}
  /\ calls = [s \in Sockets |-> <<>>]
  /\ connections = [c \in Chargers |-> 0]
  /\ online = [c \in Chargers |-> FALSE]
  /\ lastDefaultW = [c \in Chargers |-> "none"]
  /\ solve = NoPass
  /\ shut = "up"
  /\ handing = {}
  /\ solves = 0
  /\ faults = 0

\* A pass or close() that waits only for promises that are settled runs on
\* before anything else happens.
Quiet == ~(solve.on /\ solve.awaits = 0) /\ ~(shut = "releasing" /\ handing = {})

-----------------------------------------------------------------------------
(* CALLs to chargers. *)

\* Slip: the CALLs are dropped without a word.
CallersNotTold(closing) ==
  /\ calls' = [s \in Sockets |-> IF s \in closing THEN <<>> ELSE calls[s]]
  /\ UNCHANGED <<solve, handing>>

\* rpc.close of these sockets: whoever awaits one of their CALLs learns that it
\* has failed.
CallersTold(closing) ==
  /\ calls' = [s \in Sockets |-> IF s \in closing THEN <<>> ELSE calls[s]]
  /\ solve' = IF solve.awaits \in closing THEN [solve EXCEPT !.awaits = 0] ELSE solve
  /\ handing' = handing \ {owner[s] : s \in {r \in closing : Cmd("clear", "none") \in Range(calls[r])}}

Remember(c, m) == IF m.kind = "reserve" THEN [lastDefaultW EXCEPT ![c] = m.level] ELSE lastDefaultW

\* The promise of the oldest CALL of s is settled; only an answer counts as done.
SettleCall(s, answered) ==
  LET c == owner[s]
      m == Head(calls[s])
  IN  /\ calls' = [calls EXCEPT ![s] = Tail(@)]
      /\ lastDefaultW' = IF answered THEN Remember(c, m) ELSE lastDefaultW
      /\ solve' = IF m.kind # "reserve" THEN solve
                  ELSE [solve EXCEPT !.awaits = 0]
      /\ handing' = IF m.kind = "clear" THEN handing \ {c} ELSE handing
  /\ UNCHANGED <<linkVars, shut, solves>>

\* The charger answers the CALL in flight.
Deliver(s) ==
  /\ Quiet
  /\ IsOpen(s) /\ s \in rpc /\ calls[s] # <<>>
  /\ SettleCall(s, TRUE)
  /\ UNCHANGED faults

\* The time limit of the CALL in flight; on an open socket the charger is late.
Timeout(s) ==
  /\ Quiet
  /\ s \in rpc /\ calls[s] # <<>>
  /\ IF IsOpen(s)
     THEN faults < MaxFaults /\ faults' = faults + 1
     ELSE UNCHANGED faults
  /\ SettleCall(s, FALSE)

-----------------------------------------------------------------------------
(* The gateway. *)

\* accept(identity, socket) of a charger that has no open socket (any more).
\* wss.close(), called at the end of gateway.close(), refuses further upgrades.
Accept(c) ==
  LET existing == {connections[c]} \ {0}
  IN  /\ Quiet
      /\ shut \notin {"closing", "closed"}
      /\ ~Linked(c)
      /\ \E s \in Sockets :
           /\ sock[s] = "unused" /\ \A r \in Sockets : r < s => sock[r] # "unused"
           /\ owner' = [owner EXCEPT ![s] = c]
           /\ sock' = [sock EXCEPT ![s] = "open"]
           /\ connections' = [connections EXCEPT ![c] = s]
           /\ rpc' = (rpc \ existing) \cup {s}
      /\ CallersTold(existing)
      /\ online' = [online EXCEPT ![c] = TRUE]
      /\ UNCHANGED <<booted, lastDefaultW, shut, solves, faults>>

\* Slips: the row is not told, and the map is not.
HandleCloseKeepRow(s) ==
  /\ Quiet
  /\ sock[s] = "gone"
  /\ sock' = [sock EXCEPT ![s] = "closed"]
  /\ rpc' = rpc \ {s}
  /\ CallersTold({s})
  /\ connections' = [connections EXCEPT ![owner[s]] = 0]
  /\ UNCHANGED <<owner, booted, online, lastDefaultW, shut, solves, faults>>

HandleCloseKeepMap(s) ==
  /\ Quiet
  /\ sock[s] = "gone"
  /\ sock' = [sock EXCEPT ![s] = "closed"]
  /\ rpc' = rpc \ {s}
  /\ CallersTold({s})
  /\ online' = [online EXCEPT ![owner[s]] = FALSE]
  /\ UNCHANGED <<owner, booted, connections, lastDefaultW, shut, solves, faults>>

\* handleClose: whichever socket the close event is of, the charger's entry goes.
HandleClose(s) ==
  /\ Quiet
  /\ sock[s] = "gone"
  /\ sock' = [sock EXCEPT ![s] = "closed"]
  /\ rpc' = rpc \ {s}
  /\ CallersTold({s})
  /\ connections' = [connections EXCEPT ![owner[s]] = 0]
  /\ online' = [online EXCEPT ![owner[s]] = FALSE]
  /\ UNCHANGED <<owner, booted, lastDefaultW, shut, solves, faults>>

\* call(): a charger that is not in the map is offline.
Reachable(c) == connections[c] # 0

Enqueued(c, m) == [calls EXCEPT ![connections[c]] = Append(@, m)]

\* onBootNotification with the installSafetyProfile it sets off.
BootNotification(s) ==
  LET c == owner[s]
  IN  /\ Quiet
      /\ IsOpen(s) /\ s \notin booted
      /\ booted' = booted \cup {s}
      /\ online' = [online EXCEPT ![c] = TRUE]
      /\ calls' = IF Reachable(c) THEN Enqueued(c, Cmd("safety", "safety")) ELSE calls
      /\ UNCHANGED <<owner, sock, rpc, connections, lastDefaultW, solve, shutVars, solves, faults>>

\* The connection breaks, whether or not the charger restarts.
Break(s) ==
  /\ Quiet
  /\ IsOpen(s)
  /\ faults < MaxFaults
  /\ faults' = faults + 1
  /\ sock' = [sock EXCEPT ![s] = "gone"]
  /\ UNCHANGED <<owner, booted, rpc, connections, online, calls, lastDefaultW, solve, shutVars, solves>>

-----------------------------------------------------------------------------
(* reserveForIdleBays, the last part of a solve. *)

\* The idle bays are found by the online column; a plan leaves them a share.
\* loop.stop() ends neither the solve that runs nor the one queued behind it.
PassBegins ==
  /\ Quiet
  /\ ~solve.on
  /\ solves < MaxSolves
  /\ solves' = solves + 1
  /\ \E share \in Shares, idle \in SUBSET {c \in Chargers : online[c]} :
       solve' = [NoPass EXCEPT !.on = TRUE, !.share = share, !.todo = idle]
  /\ UNCHANGED <<linkVars, calls, lastDefaultW, shutVars, faults>>

\* One charger after the other: nothing is sent where the remembered share is
\* this one, and the failure of a charger that is offline is only logged.
Reserve(c) ==
  LET same == lastDefaultW[c] = solve.share
  IN  /\ solve.on /\ solve.awaits = 0
      /\ c \in solve.todo
      /\ calls' = IF ~same /\ Reachable(c) THEN Enqueued(c, Cmd("reserve", solve.share)) ELSE calls
      /\ solve' = [solve EXCEPT !.todo = @ \ {c},
                                !.awaits = IF same THEN 0 ELSE connections[c]]
      /\ UNCHANGED <<linkVars, lastDefaultW, shutVars, solves, faults>>

PassEnds ==
  /\ solve.on /\ solve.awaits = 0 /\ solve.todo = {}
  /\ solve' = NoPass
  /\ UNCHANGED <<linkVars, calls, lastDefaultW, shutVars, solves, faults>>

-----------------------------------------------------------------------------
(* Shutdown. *)

\* loop.stop() and whatever index.ts awaits before gateway.close().
StopLoop ==
  /\ Quiet
  /\ shut = "up"
  /\ shut' = "stopping"
  /\ UNCHANGED <<linkVars, calls, lastDefaultW, solve, handing, solves, faults>>

\* close(), first part: ClearChargingProfile to every charger in the map.
Release ==
  /\ Quiet
  /\ shut = "stopping"
  /\ shut' = "releasing"
  /\ handing' = {c \in Chargers : Reachable(c)}
  /\ calls' = [s \in Sockets |-> IF \E c \in Chargers : connections[c] = s
                                 THEN Append(calls[s], Cmd("clear", "none")) ELSE calls[s]]
  /\ UNCHANGED <<linkVars, lastDefaultW, solve, solves, faults>>

\* close(), second part, once every answer has come or failed: the sockets of
\* the map are closed, a charger that does not reply within 30 seconds is cut off,
\* and wss.close() is called.
LetGo ==
  /\ shut = "releasing"
  /\ handing = {}
  /\ shut' = "closing"
  /\ LET closing == {connections[c] : c \in Chargers} \ {0}
     IN  /\ rpc' = rpc \ closing
         /\ CallersTold(closing)
         /\ sock' = [s \in Sockets |-> IF s \in closing THEN "gone" ELSE sock[s]]
  /\ connections' = [c \in Chargers |-> 0]
  /\ UNCHANGED <<owner, booted, online, lastDefaultW, solves, faults>>

\* wss.close() calls back once the close event of every client has come, also of
\* those close() does not know of.
AllClosed ==
  /\ Quiet
  /\ shut = "closing"
  /\ \A s \in Sockets : sock[s] \in {"unused", "closed"}
  /\ shut' = "closed"
  /\ UNCHANGED <<linkVars, calls, lastDefaultW, solve, handing, solves, faults>>

Next ==
  \/ \E c \in Chargers : Accept(c) \/ Reserve(c)
  \/ \E s \in Sockets : \/ Deliver(s) \/ Timeout(s) \/ HandleClose(s)
                        \/ BootNotification(s) \/ Break(s)
  \/ PassBegins \/ PassEnds
  \/ StopLoop \/ Release \/ LetGo \/ AllClosed

Spec == Init /\ [][Next]_vars

\* Close events come, CALLs are answered or time out, and the steps of close()
\* and of a pass follow each other.  No charger is obliged to come or to stay.
FairSpec ==
  /\ Spec
  /\ \A s \in Sockets :
       WF_vars(HandleClose(s)) /\ WF_vars(Deliver(s) \/ Timeout(s))
  /\ \A c \in Chargers : WF_vars(Reserve(c))
  /\ WF_vars(PassEnds) /\ WF_vars(Release) /\ WF_vars(LetGo) /\ WF_vars(AllClosed)

-----------------------------------------------------------------------------
(* Properties. *)

TypeOK ==
  /\ owner \in [Sockets -> Chargers \cup {"nobody"}]
  /\ sock \in [Sockets -> {"unused", "open", "gone", "closed"}]
  /\ booted \in SUBSET Sockets
  /\ rpc \in SUBSET Sockets
  /\ calls \in [Sockets -> Seq(Commands)]
  /\ connections \in [Chargers -> Sockets \cup {0}]
  /\ online \in [Chargers -> BOOLEAN]
  /\ lastDefaultW \in [Chargers -> Shares \cup {"none"}]
  /\ solve \in [on : BOOLEAN, share : Shares, todo : SUBSET Chargers,
                awaits : Sockets \cup {0}]
  /\ shut \in {"up", "stopping", "releasing", "closing", "closed"}
  /\ handing \in SUBSET Chargers
  /\ solves \in 0..MaxSolves
  /\ faults \in 0..MaxFaults

\* A CALL is only ever given to the connection of its charger, and one whose
\* OcppRpc still takes it, however breaks, reconnects and late close events mix.
MapHoldsOpenRpc ==
  \A c \in Chargers : Reachable(c) => connections[c] \in rpc /\ owner[connections[c]] = c

\* Whoever awaits a charger awaits a CALL that a running time limit watches: the
\* pass over the idle bays and close() are never left with a promise nobody keeps.
AwaitedCallsAreWatched ==
  /\ solve.awaits # 0 =>
       solve.awaits \in rpc /\ \E m \in Range(calls[solve.awaits]) : m.kind = "reserve"
  /\ \A c \in handing : \E s \in rpc : owner[s] = c /\ Cmd("clear", "none") \in Range(calls[s])

\* A connection that is open and that the gateway does not know of (any more).
Stray(s) == IsOpen(s) /\ connections[owner[s]] # s

\* A shutdown comes to its end whatever answers are lost, breaks and passes it
\* meets, unless a charger the map has lost stays connected: the one wait of
\* close() that has no time limit is for that charger to leave.
ShutdownCompletes ==
  []<>(\A s \in Sockets : ~Stray(s)) => (shut = "stopping" ~> shut = "closed")

\* A charger that is gone for good is marked offline for good, whatever it had
\* sent before.
GoneIsOffline ==
  \A c \in Chargers : <>[]~Linked(c) => <>[](~online[c] \/ shut = "closed")

\* "charge point reconnected, dropping the previous socket": it is the previous
\* one that goes, and a charger that is connected can be called.
ConnectedIsReachable ==
  shut \notin {"closing", "closed"} => \A s \in Sockets : ~Stray(s)

=============================================================================
