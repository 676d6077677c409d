------------------------------ MODULE Registry ------------------------------
(***************************************************************************)
(* Who and what the server knows: sites, chargers, people and cars, kept   *)
(* in memory, mirrored in Postgres, read back by a restart and overlaid by *)
(* the scenario files it was started with; and who is served by it: the    *)
(* console, the drivers, the charge points.  (How a row gets to Postgres   *)
(* is Mirror's, whether it fits Records'; here a flush writes all.)        *)
(***************************************************************************)
EXTENDS Naturals, FiniteSets

CONSTANTS
  Homes,        \* site of each charger, charger |-> site
  Members,      \* site of each driver of a scenario, driver |-> site
  Tags,         \* idTag of each driver
  Cars,         \* cars drivers may add
  SessionIds,
  MaxStarts, MaxLosses,
  MaxMoves    \* steps of drivers and charge points

ASSUME RegistryAssumption ==
  /\ DOMAIN Tags = DOMAIN Members
  /\ MaxStarts \in Nat /\ MaxLosses \in Nat /\ MaxMoves \in Nat

Chargers == DOMAIN Homes
Drivers == DOMAIN Members
Sites == {Homes[c] : c \in Chargers}
Nobody == "nobody"
None == "none"

VARIABLES
  up,        \* "down", "starting" or "serving"
  files,     \* the chargers the scenario files of this process name
  mem,       \* the repositories
  db,        \* the same tables in Postgres
  blind,     \* tables hydrate() could not read, or orphans it could not close
  sockets,   \* chargers with a connection
  issued,    \* ids of sessions that were ever given out
  told,      \* sessions whose driver was told they are open
  starts, losses, moves

knownVars == <<up, files, mem, db, blind, sockets, issued, told, starts, losses, moves>>

Empty == [k \in {} |-> 0]
Tables == {"sites", "profiles", "vehicles", "chargers", "connectors", "sessions"}
NoRows == [t \in Tables |-> Empty]
Run == {Homes[c] : c \in files}

\* Rows that take the place of others, where there are any.
Over(rows, others) ==
  [i \in DOMAIN rows \cup DOMAIN others |-> IF i \in DOMAIN rows THEN rows[i] ELSE others[i]]

\* Store.save and Store.update: a Map keeps one value per id, update wants it there.
Saved(rows, id, x) == [i \in DOMAIN rows \cup {id} |-> IF i = id THEN x ELSE rows[i]]
Has(t, id) == id \in DOMAIN mem[t]
Save(t, id, x) == mem' = [mem EXCEPT ![t] = Saved(@, id, x)]

Site == [known |-> TRUE]   \* what a scenario says of it stays as it is
Charger(site, online) == [site |-> site, online |-> online]
Connector(session) == [session |-> session]
Profile(site, tag) == [site |-> site, tag |-> tag]   \* and preferences
Session(driver, car, charger, status) ==
  [driver |-> driver, car |-> car, charger |-> charger, status |-> status]

-----------------------------------------------------------------------------
(* The questions the repositories answer. *)

open == {"pending", "active"}
Open(rows) == {i \in DOMAIN rows : rows[i].status \in open}
\* charging before waiting; that at most one is open is what the routes see to.
openest(these) ==
  LET active == {i \in these : mem["sessions"][i].status = "active"}
  IN IF active # {} THEN active ELSE these
findOpenByDriver(d) == openest({i \in Open(mem["sessions"]) : mem["sessions"][i].driver = d})
findOpenByConnector(c) == openest({i \in Open(mem["sessions"]) : mem["sessions"][i].charger = c})
findPending(c, tag) ==
  LET those == {i \in DOMAIN mem["sessions"] : mem["sessions"][i].status = "pending"
                                                /\ mem["sessions"][i].charger = c}
      exact == {i \in those : \E d \in Drivers : mem["sessions"][i].driver = d /\ Tags[d] = tag}
  IN IF exact # {} THEN exact ELSE those
findActiveByConnector(c) ==
  {i \in DOMAIN mem["sessions"] : mem["sessions"][i].status = "active" /\ mem["sessions"][i].charger = c}
getByIdTag(tag) == {d \in DOMAIN mem["profiles"] : mem["profiles"][d].tag = tag}
listByDriver(d) == {v \in DOMAIN mem["vehicles"] : mem["vehicles"][v].driver = d}
listBySite(s) == {c \in DOMAIN mem["chargers"] : mem["chargers"][c].site = s}
\* [0] ?? null of a list.
FirstOf(set) == IF set = {} THEN {None} ELSE set

-----------------------------------------------------------------------------
(* Start: hydrate, seed, flush; then the runtimes, and the server listens.   *)

\* seedFromScenario, for the files' sites; cars of drivers are left as they are.
\* Slip: a charger is seeded as it was.
SeededAsItWas(rows) ==
  LET members == {d \in Drivers : Members[d] \in Run'} IN
  [rows EXCEPT
     !["sites"] = Over([s \in Run' |-> Site], @),
     !["chargers"] = Over(@, [c \in files' |-> Charger(Homes[c], FALSE)]),
     !["connectors"] = Over([c \in files' |-> Connector(None)], @),
     !["profiles"] = Over([d \in members |-> Profile(Members[d], Tags[d])], @),
     !["vehicles"] = Over([d \in members |-> [driver |-> d]], @)]
Seeded(rows) ==
  LET members == {d \in Drivers : Members[d] \in Run'} IN
  [rows EXCEPT
     !["sites"] = Over([s \in Run' |-> Site], @),
     !["chargers"] = Over([c \in files' |-> Charger(Homes[c], FALSE)], @),
     !["connectors"] = Over([c \in files' |-> Connector(None)], @),
     !["profiles"] = Over([d \in members |-> Profile(Members[d], Tags[d])], @),
     !["vehicles"] = Over([d \in members |-> [driver |-> d]], @)]

seedNetworkOperator(rows) ==
  [rows EXCEPT !["profiles"] =
     Over([p \in {"grid-ops", "ops-network"} |-> Profile(Nobody, None)], @)]

\* A query that fails is logged, and what it would have brought is not there.
\* The orphans are closed in Postgres before the history is read.
Aborted(rows) ==
  [i \in DOMAIN rows |-> IF rows[i].status \in open THEN [rows[i] EXCEPT !.status = "aborted"] ELSE rows[i]]
Hydrates ==
  /\ up = "down" /\ starts < MaxStarts /\ starts' = starts + 1
  /\ \E named \in SUBSET Chargers \ {{}}, lost \in SUBSET ((Tables \ {"connectors"}) \cup {"orphans"}) :
       /\ losses + Cardinality(lost) <= MaxLosses /\ losses' = losses + Cardinality(lost)
       /\ files' = named /\ blind' = lost
       /\ db' = IF "orphans" \in lost THEN db ELSE [db EXCEPT !["sessions"] = Aborted(@)]
       /\ mem' = seedNetworkOperator(Seeded(
                   [t \in Tables |-> IF t \in lost \cup {"connectors"} THEN Empty ELSE db'[t]]))
  /\ up' = "starting" /\ UNCHANGED <<sockets, issued, told, moves>>

\* A flush, also the one that is waited for before the first session can come.
Flush ==
  /\ up \in {"starting", "serving"}
  /\ db' = [t \in Tables |-> Over(mem[t], db[t])]
  /\ up' = "serving" /\ UNCHANGED <<files, mem, blind, sockets, issued, told, starts, losses, moves>>

\* The process dies, with what it had not flushed.
Dies ==
  /\ up = "serving" /\ up' = "down"
  /\ mem' = NoRows /\ sockets' = {} /\ files' = {} /\ blind' = {}
  /\ UNCHANGED <<db, issued, told, starts, losses, moves>>

-----------------------------------------------------------------------------
(* Charge points. *)

Serving ==
  /\ up = "serving" /\ moves < MaxMoves /\ moves' = moves + 1
  /\ UNCHANGED <<up, files, db, blind, starts, losses>>

\* getByIdentity: any charger the server has heard of, also one of an earlier file.
Connects(c) ==
  /\ Serving /\ Has("chargers", c) /\ c \notin sockets
  /\ sockets' = sockets \cup {c}
  /\ Save("chargers", c, [mem["chargers"][c] EXCEPT !.online = TRUE])
  /\ UNCHANGED <<issued, told>>
Leaves(c) ==
  /\ Serving /\ c \in sockets /\ sockets' = sockets \ {c}
  /\ Save("chargers", c, [mem["chargers"][c] EXCEPT !.online = FALSE])
  /\ UNCHANGED <<issued, told>>
ReportsStatus(c) ==
  /\ Serving /\ c \in sockets
  /\ Save("connectors", c, Connector(IF Has("connectors", c)
                                      THEN mem["connectors"][c].session ELSE None))
  /\ UNCHANGED <<sockets, issued, told>>

\* StartTransaction: what is active there is abandoned, what was declared for
\* the bay is taken, else a session is opened for whoever has the tag.
Starts(c, i) ==
  /\ Serving /\ c \in sockets
  /\ \E tag \in {Tags[d] : d \in Drivers} \cup {"unknown"} :
       LET stale == findActiveByConnector(c)
           declared == findPending(c, tag)
           left == [s \in DOMAIN mem["sessions"] |->
                      IF s \in stale THEN [mem["sessions"][s] EXCEPT !.status = "aborted"]
                      ELSE mem["sessions"][s]]
       IN \E driver \in FirstOf(getByIdTag(tag)) :
          \E car \in FirstOf(IF driver = None THEN {} ELSE listByDriver(driver)) :
            /\ IF declared # {} THEN i \in declared /\ UNCHANGED issued
               ELSE i \notin issued /\ issued' = issued \cup {i}
            /\ mem' = [mem EXCEPT
                 !["sessions"] = Saved(left, i, IF declared # {} THEN [left[i] EXCEPT !.status = "active"]
                                                ELSE Session(driver, car, c, "active")),
                 !["connectors"] = Saved(@, c, Connector(i))]
  /\ UNCHANGED <<sockets, told>>
Stops(i) ==
  /\ Serving /\ Has("sessions", i) /\ mem["sessions"][i].status = "active"
  /\ LET c == mem["sessions"][i].charger IN
       /\ c \in sockets
       /\ mem' = [mem EXCEPT !["sessions"][i].status = "complete",
                             !["connectors"] = Saved(@, c, Connector(None))]
  /\ UNCHANGED <<sockets, issued, told>>

-----------------------------------------------------------------------------
(* Drivers and the console. *)

\* GET /sites, /grid/sites: only those this process runs.
ListedSites == {s \in DOMAIN mem["sites"] : s \in Run}
\* GET /me: the profile's fields, where there is one.
Me(d) == IF Has("profiles", d) THEN mem["profiles"][d] ELSE Profile(Members[d], None)
\* GET /sites/:siteId/overview, of the chargers.
ChargersOnline(s) == {c \in listBySite(s) : mem["chargers"][c].online}

\* PATCH /me
PatchesMe(d) ==
  /\ Serving /\ UNCHANGED <<sockets, issued, told>>
  /\ Save("profiles", d, Me(d))
\* POST /vehicles
AddsCar(d, v) ==
  /\ Serving /\ UNCHANGED <<sockets, issued, told>>
  /\ ~Has("vehicles", v) /\ v \notin DOMAIN db["vehicles"]
  /\ Save("vehicles", v, [driver |-> d])

\* POST /sessions.  The session is saved before the runtime of its site is
\* looked up; where there is none the driver is told "not found".
\* Slip: nobody asks whether the driver has one open.
DeclaresSecond(d, c, i) ==
  /\ Serving /\ i \notin issued /\ issued' = issued \cup {i}
  /\ Has("chargers", c)
  /\ findOpenByConnector(c) = {}
  /\ \E car \in FirstOf(listByDriver(d)) :
       Save("sessions", i, Session(d, car, c, "pending"))
  /\ told' = IF Homes[c] \in Run THEN told \cup {i} ELSE told
  /\ UNCHANGED sockets
Declares(d, c, i) ==
  /\ Serving /\ i \notin issued /\ issued' = issued \cup {i}
  /\ Has("chargers", c)
  /\ findOpenByDriver(d) = {} /\ findOpenByConnector(c) = {}
  /\ \E car \in FirstOf(listByDriver(d)) :
       Save("sessions", i, Session(d, car, c, "pending"))
  /\ told' = IF Homes[c] \in Run THEN told \cup {i} ELSE told
  /\ UNCHANGED sockets

RegistryInit ==
  /\ up = "down" /\ files = {} /\ mem = NoRows /\ db = NoRows /\ blind = {}
  /\ sockets = {} /\ issued = {} /\ told = {} /\ starts = 0 /\ losses = 0 /\ moves = 0

RegistryNext ==
  \/ Hydrates \/ Flush \/ Dies
  \/ \E c \in Chargers : Connects(c) \/ Leaves(c) \/ ReportsStatus(c)
  \/ \E c \in Chargers, i \in SessionIds : Starts(c, i)
  \/ \E i \in SessionIds : Stops(i)
  \/ \E d \in Drivers : PatchesMe(d) \/ \E v \in Cars : AddsCar(d, v)
  \/ \E d \in Drivers, c \in Chargers, i \in SessionIds : Declares(d, c, i)

RegistrySpec == RegistryInit /\ [][RegistryNext]_knownVars

-----------------------------------------------------------------------------
(* Properties. *)

\* A charger that the files name is shown online exactly while it is connected,
\* and its row of an earlier process does not show through.  (One that an
\* earlier file named keeps the row the mirror had.)
OnlineIsConnected ==
  up # "down" => \A c \in files : mem["chargers"][c].online <=> c \in sockets

\* A restart loses nothing of the record that it can read: what Postgres has
\* of drivers, cars and sessions, memory has; and no session is open that
\* nobody in this process opened.
RecordSurvives ==
  up # "down" => \A t \in Tables \ (blind \cup {"connectors"}) : DOMAIN db[t] \subseteq DOMAIN mem[t]
NoneLeftOpen ==
  up = "starting" /\ "orphans" \notin blind => Open(mem["sessions"]) = {}

\* A driver waits at one bay at most: of the sessions a driver declared, or that
\* are open at a bay, only one is.
OneWaiting ==
  up # "down" /\ blind = {} =>
    \A i, j \in DOMAIN mem["sessions"] :
      LET x == mem["sessions"][i]
          y == mem["sessions"][j]
      IN i # j /\ x.status = "pending" /\ y.status = "pending" => x.driver # y.driver /\ x.charger # y.charger

\* A session whose driver was told that it is open is at a site with a loop.
ToldIsRun ==
  up # "down" /\ blind = {} =>
    \A i \in told \cap Open(mem["sessions"]) : Homes[mem["sessions"][i].charger] \in Run

Remembered == OnlineIsConnected /\ RecordSurvives /\ NoneLeftOpen /\ OneWaiting /\ ToldIsRun
=============================================================================
