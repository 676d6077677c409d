-------------------------- MODULE SessionLifecycle --------------------------
(***************************************************************************)
(* Charging sessions: class SessionService                                 *)
(* (apps/server/src/sessions/service.ts), the session queries of the       *)
(* in-memory repository, the StartTransaction, MeterValues and             *)
(* StopTransaction handlers of the gateway, and the driver's routes        *)
(* (api/routes/sessions.ts), with the chargers they serve.                 *)
(*                                                                         *)
(* A handler awaits only the in-memory repositories between two messages,  *)
(* so it is one step here.  A charger sends one CALL at a time and in      *)
(* order; it repeats a CALL whose answer does not come, so the server may  *)
(* handle it twice.  An idTag stands for its driver, a bay for one         *)
(* connector of one charger; times are hours and registers are whole       *)
(* units of energy.                                                        *)
(***************************************************************************)
EXTENDS Naturals, FiniteSets, Sequences, FiniteSetsExt

CONSTANTS Drivers, Bays,
          DwellHours,    \* defaultDwellHours of every profile
          MaxSessions,   \* bound: sessions ever created
          MaxNow,        \* bound: the clock
          MaxWh,         \* bound: a bay's meter register
          MaxFaults      \* bound: restarts of chargers, lost messages, repeated CALLs

ASSUME BoundsAssumption ==
  /\ MaxSessions \in Nat \ {0}
  /\ {DwellHours, MaxNow, MaxWh, MaxFaults} \subseteq Nat

VARIABLES now,           \* clock.now()
          sessions,      \* the session repository, by id in order of creation
          lastTx,        \* transactionCounter
          link,          \* sessionId of each bay's connector row, 0 for null
          cp,            \* what each bay's charger is doing
          register,      \* each bay's meter
          mail,          \* CALLs of each bay's charger not yet handled
          faults         \* bounded: faults so far

vars == <<now, sessions, lastTx, link, cp, register, mail, faults>>
chargerVars == <<cp, register, mail, faults>>

Ids == 1..MaxSessions
Statuses == {"none", "pending", "active", "complete", "aborted"}

Nothing == [status |-> "none", driver |-> "nobody", bay |-> "nowhere", source |-> "none",
            tx |-> 0, pluggedIn |-> 0, deadline |-> 0, start |-> 0, last |-> 0]

Idle == [mode |-> "idle", driver |-> "nobody", tx |-> 0, answer |-> 0]

CreatedIds == {s \in Ids : sessions[s].status # "none"}
LastId == Cardinality(CreatedIds)

IsOpen(s) == sessions[s].status \in {"pending", "active"}
IsFinished(s) == sessions[s].status \in {"complete", "aborted"}

\* The units of its bay's meter that a session counts as delivered; with its
\* last reading below its first, none.
Counted(s) == (sessions[s].start + 1)..sessions[s].last

Newest(S) == IF S = {} THEN 0 ELSE Max(S)

ActiveOn(b) == {s \in Ids : sessions[s].status = "active" /\ sessions[s].bay = b}
PendingOn(b) == {s \in Ids : sessions[s].status = "pending" /\ sessions[s].bay = b}

\* getByTransaction
WithTx(t) == {s \in CreatedIds : sessions[s].tx = t /\ t # 0}

\* The bound on sessions: a message that may need one is sent only while there
\* is room, so that no handler is ever held up by the bound.
StartsSent(b) == Cardinality({i \in DOMAIN mail[b] : mail[b][i].kind = "start"})
HasRoom == LastId + FoldSet(LAMBDA b, n : n + StartsSent(b), 0, Bays) < MaxSessions

-----------------------------------------------------------------------------

Init ==
  /\ now = 0
  /\ sessions = [s \in Ids |-> Nothing]
  /\ lastTx = 0
  /\ link = [b \in Bays |-> 0]
  /\ cp = [b \in Bays |-> Idle]
  /\ register = [b \in Bays |-> 0]
  /\ mail = [b \in Bays |-> <<>>]
  /\ faults = 0

(* The driver's app. *)

\* declareIntent, with the fields the models below need.
Declared(d, b, source, deadline) ==
  [Nothing EXCEPT !.status = "pending", !.driver = d, !.bay = b, !.source = source,
                  !.pluggedIn = now, !.deadline = deadline]

\* findOpenByDriver and findOpenByConnector both come back empty.
FreeForIntent(d, b) ==
  \A s \in Ids : IsOpen(s) => sessions[s].driver # d /\ sessions[s].bay # b

\* POST /sessions.  checkDeadline has accepted the deadline; a remote start, if
\* one is sent, is the charger's PlugIn.
Declare(d, b, deadline) ==
  /\ HasRoom
  /\ deadline > now
  /\ FreeForIntent(d, b)
  /\ sessions' = [sessions EXCEPT ![LastId + 1] = Declared(d, b, "app", deadline)]
  /\ UNCHANGED <<now, lastTx, link, chargerVars>>

\* PATCH /sessions/:id with a new deadline.
Patch(s, deadline) ==
  /\ IsOpen(s)
  /\ deadline > now
  /\ sessions' = [sessions EXCEPT ![s].deadline = deadline]
  /\ UNCHANGED <<now, lastTx, link, chargerVars>>

(* The handlers of the charger's messages. *)

Message(kind, d, t, wh) == [kind |-> kind, driver |-> d, tx |-> t, wh |-> wh]

HasMail(b, kind) == mail[b] # <<>> /\ Head(mail[b]).kind = kind

\* The CALL is answered: with value, if the charger still waits for this
\* answer and has not repeated the CALL in the meantime.
Answer(b, mode, value) ==
  /\ mail' = [mail EXCEPT ![b] = Tail(@)]
  /\ cp' = IF cp[b].mode = mode /\ Len(mail[b]) = 1
           THEN [cp EXCEPT ![b].answer = value] ELSE cp
  /\ UNCHANGED <<register, faults>>

\* abandon(): only an active session is closed this way.
Aborted(session) == [session EXCEPT !.status = "aborted"]

\* Slip: only a session of this very driver will do.
FindOwnPending(b, d) == Newest({s \in PendingOn(b) : sessions[s].driver = d})

\* Slip: any session of the driver on the bay that is not charging.
FindUnfinishedBusiness(b, d) ==
  Newest({s \in CreatedIds : sessions[s].bay = b /\ sessions[s].status \in {"pending", "aborted"}})

\* findPending: the driver's own declared session, or else anybody's.
FindPending(b, d) ==
  LET own == {s \in PendingOn(b) : sessions[s].driver = d}
  IN  Newest(IF own # {} THEN own ELSE PendingOn(b))

\* nextTransactionId
NextTx == lastTx + 1

\* Slip: a session that goes on from the register of whoever charged before.
StartedFromZero(base, t, wh) ==
  [base EXCEPT !.status = "active", !.tx = t, !.pluggedIn = now, !.start = 0, !.last = wh]

\* The session that a transaction starts, from the declared one or from the
\* driver's defaults (openFromDefaults).
Started(base, t, wh) ==
  [base EXCEPT !.status = "active", !.tx = t, !.pluggedIn = now, !.start = wh, !.last = wh]

\* Slip: the query looks at the whole site.
StaleAnywhere(b) == UNION {ActiveOn(c) : c \in Bays}

\* findActiveByConnector: of several it would pick the latest to plug in.
Stale(b) == {s \in ActiveOn(b) : \A r \in ActiveOn(b) : sessions[r].pluggedIn <= sessions[s].pluggedIn}

\* onStartTransaction: startTransaction, then the connector's row.
HandleStart(b) ==
  LET m == Head(mail[b])
      found == FindPending(b, m.driver)
      id == IF found = 0 THEN LastId + 1 ELSE found
      base == IF found = 0 THEN Declared(m.driver, b, "rfid", now + DwellHours) ELSE sessions[found]
  IN  /\ HasMail(b, "start")
      /\ id \in Ids  \* bound, which HasRoom leaves open
      /\ lastTx' = NextTx
      /\ sessions' = [s \in Ids |->
                        IF s \in Stale(b) THEN Aborted(sessions[s])
                        ELSE IF s = id THEN Started(base, NextTx, m.wh)
                        ELSE sessions[s]]
      /\ link' = [link EXCEPT ![b] = id]
      /\ Answer(b, "starting", NextTx)
      /\ UNCHANGED now

\* onMeterValues: recordMeter ignores an unknown transaction, a session that is
\* not active, and a register that went backwards.
HandleMeter(b) ==
  LET m == Head(mail[b])
      heard == {s \in WithTx(m.tx) : sessions[s].status = "active" /\ m.wh + 1 >= sessions[s].last}
  IN  /\ HasMail(b, "meter")
      /\ sessions' = [s \in Ids |-> IF s \in heard THEN [sessions[s] EXCEPT !.last = m.wh]
                                    ELSE sessions[s]]
      /\ Answer(b, "charging", 0)
      /\ UNCHANGED <<now, lastTx, link>>

\* onStopTransaction: stopTransaction looks at no status, and the row of the
\* session's connector is cleared whoever is on it.
HandleStop(b) ==
  LET m == Head(mail[b])
      ended == WithTx(m.tx)
  IN  /\ HasMail(b, "stop")
      /\ sessions' = [s \in Ids |->
                        IF s \in ended
                        THEN [sessions[s] EXCEPT !.status = "complete", !.last = m.wh]
                        ELSE sessions[s]]
      /\ link' = [c \in Bays |-> IF \E s \in ended : sessions[s].bay = c THEN 0 ELSE link[c]]
      /\ Answer(b, "stopping", m.tx)
      /\ UNCHANGED <<now, lastTx>>

-----------------------------------------------------------------------------
(* The chargers and their cars. *)

serverVars == <<now, sessions, lastTx, link>>

Ask(b, m) == mail' = [mail EXCEPT ![b] = Append(@, m)]

\* A driver's one car is plugged in and StartTransaction is sent.
PlugIn(b, d) ==
  /\ HasRoom
  /\ cp[b].mode = "idle"
  /\ \A c \in Bays : cp[c].driver # d
  /\ cp' = [cp EXCEPT ![b] = [Idle EXCEPT !.mode = "starting", !.driver = d]]
  /\ Ask(b, Message("start", d, 0, register[b]))
  /\ UNCHANGED <<serverVars, register, faults>>

\* The charger has its transaction id and charges, or its stop is confirmed.
TakeAnswer(b) ==
  /\ cp[b].answer # 0
  /\ cp' = [cp EXCEPT ![b] =
              IF cp[b].mode = "starting"
              THEN [cp[b] EXCEPT !.mode = "charging", !.tx = cp[b].answer, !.answer = 0]
              ELSE Idle]
  /\ UNCHANGED <<serverVars, register, mail, faults>>

Meter(b) ==
  /\ cp[b].mode = "charging"
  /\ register[b] < MaxWh
  /\ register' = [register EXCEPT ![b] = @ + 1]
  /\ Ask(b, Message("meter", cp[b].driver, cp[b].tx, register[b] + 1))
  /\ UNCHANGED <<serverVars, cp, faults>>

\* The car leaves, or a RemoteStopTransaction for this transaction arrives.
Unplug(b) ==
  /\ cp[b].mode = "charging"
  /\ cp' = [cp EXCEPT ![b].mode = "stopping"]
  /\ Ask(b, Message("stop", cp[b].driver, cp[b].tx, register[b]))
  /\ UNCHANGED <<serverVars, register, faults>>

\* POST /sessions/:id/stop: refused without a transaction; the charger refuses
\* a transaction it does not run.
RemoteStop(s) ==
  /\ IsOpen(s)
  /\ sessions[s].tx # 0
  /\ cp[sessions[s].bay].tx = sessions[s].tx
  /\ Unplug(sessions[s].bay)

\* No answer within the time limit, whether the CALL or its answer is lost or
\* late: the charger sends it again.
Repeat(b) ==
  /\ cp[b].mode = "stopping" \/ (cp[b].mode = "starting" /\ HasRoom)
  /\ faults < MaxFaults
  /\ faults' = faults + 1
  /\ cp' = [cp EXCEPT ![b].answer = 0]
  /\ \E lost \in BOOLEAN :
       mail' = [mail EXCEPT ![b] =
                  (IF lost THEN <<>> ELSE @) \o
                  <<IF cp[b].mode = "starting" THEN Message("start", cp[b].driver, 0, register[b])
                    ELSE Message("stop", cp[b].driver, cp[b].tx, register[b])>>]
  /\ UNCHANGED <<serverVars, register>>

\* The charger restarts and has forgotten its transaction; what it sent may
\* still arrive.  Its meter keeps its register.
Restart(b) ==
  /\ cp[b].mode # "idle"
  /\ faults < MaxFaults
  /\ faults' = faults + 1
  /\ cp' = [cp EXCEPT ![b] = Idle]
  /\ mail' \in {mail, [mail EXCEPT ![b] = <<>>]}
  /\ UNCHANGED <<serverVars, register>>

Tick ==
  /\ now < MaxNow
  /\ now' = now + 1
  /\ UNCHANGED <<sessions, lastTx, link, chargerVars>>

Handle(b) == HandleStart(b) \/ HandleMeter(b) \/ HandleStop(b)

Next ==
  \/ \E d \in Drivers, b \in Bays, t \in 1..(MaxNow + DwellHours) : Declare(d, b, t)
  \/ \E s \in Ids, t \in 1..(MaxNow + DwellHours) : Patch(s, t)
  \/ \E s \in Ids : RemoteStop(s)
  \/ \E b \in Bays : Handle(b) \/ TakeAnswer(b) \/ Meter(b) \/ Unplug(b) \/ Repeat(b) \/ Restart(b)
  \/ \E b \in Bays, d \in Drivers : PlugIn(b, d)
  \/ Tick

Spec == Init /\ [][Next]_vars

-----------------------------------------------------------------------------
(* Properties. *)

TypeOK ==
  /\ now \in 0..MaxNow
  /\ sessions \in [Ids -> [status : Statuses, driver : Drivers \cup {"nobody"},
                           bay : Bays \cup {"nowhere"}, source : {"none", "app", "rfid"},
                           tx : Nat, pluggedIn : Nat, deadline : Nat,
                           start : Nat, last : Nat]]
  /\ lastTx \in Nat
  /\ link \in [Bays -> Ids \cup {0}]
  /\ cp \in [Bays -> [mode : {"idle", "starting", "charging", "stopping"},
                      driver : Drivers \cup {"nobody"}, tx : Nat, answer : Nat]]
  /\ register \in [Bays -> 0..MaxWh]
  /\ faults \in 0..MaxFaults
  /\ mail \in [Bays -> Seq([kind : {"start", "meter", "stop"}, driver : Drivers, tx : Nat, wh : Nat])]

\* A bay is held by one session at most, charging or declared, whoever plugs in
\* where and however often a StartTransaction is repeated.
OneOpenPerBay ==
  \A r, s \in Ids : IsOpen(r) /\ IsOpen(s) /\ sessions[r].bay = sessions[s].bay => r = s

\* A transaction id names one session, for good, and exactly the sessions that
\* were ever started have one.
TransactionsNameSessions ==
  /\ \A r, s \in CreatedIds : sessions[r].tx = sessions[s].tx /\ sessions[r].tx # 0 => r = s
  /\ \A s \in CreatedIds : sessions[s].tx # 0 <=> sessions[s].status # "pending"
  /\ \A s \in CreatedIds : sessions[s].tx <= lastTx

\* While a charger runs a transaction, the server holds an active session with
\* that id on that bay, and the bay's connector row points at it.
ChargingIsActive ==
  \A b \in Bays : cp[b].mode = "charging" =>
    \E s \in ActiveOn(b) : sessions[s].tx = cp[b].tx /\ link[b] = s

\* Sessions on one bay never count the same energy twice, and none that the
\* bay's meter does not show: what they have delivered adds up to no more than
\* its register.
EnergyCountedOnce ==
  \A b \in Bays : \A s \in CreatedIds : sessions[s].bay = b =>
    /\ Counted(s) \subseteq 1..register[b]
    /\ \A r \in CreatedIds \ {s} : sessions[r].bay = b => Counted(r) \cap Counted(s) = {}

\* A finished session is never open again and nothing about it changes, but for
\* one thing: a StopTransaction of its own transaction, repeated or late, makes it
\* complete, whether it was that or aborted, with the reading that message brings.
FinishedStaysFinished ==
  [][\A s \in Ids : IsFinished(s) =>
       \/ sessions'[s] = sessions[s]
       \/ \E b \in Bays :
            /\ HandleStop(b)
            /\ Head(mail[b]).tx = sessions[s].tx
            /\ sessions'[s] = [sessions[s] EXCEPT !.status = "complete",
                                                  !.last = Head(mail[b]).wh]]_vars

=============================================================================
