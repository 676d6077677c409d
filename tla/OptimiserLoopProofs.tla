------------------------- MODULE OptimiserLoopProofs -------------------------
(***************************************************************************)
(* No change of the site is lost on its way into a plan: the proof that    *)
(* NoTriggerLost and QueuedOnlyWhileSolving hold of OptimiserLoop for any  *)
(* finite set of sessions and any intervals and bounds.  And whoever is    *)
(* known stays known: the proof that Remembered holds of Registry for any  *)
(* chargers, drivers, files, failed queries and restarts.                  *)
(***************************************************************************)
EXTENDS OptimiserLoop, Registry, FiniteSetTheorems, TLAPS

\* What a solve has read never goes backwards, and neither a plan nor a failure
\* is ever of a version that no solve has read: without this, a solve that ends
\* could move planned or failedAt away from the present version.
ReadInOrder == planned <= seen /\ failedAt <= seen /\ seen <= version

IInv == TypeOK /\ ReadInOrder /\ QueuedOnlyWhileSolving /\ NoTriggerLost

\* The tally of flagDeadlineRisk is a number of sessions.
LEMMA TallyIsSmall ==
  ASSUME NEW marks \in SUBSET Sessions
  PROVE  Tally(marks) \in 0..Cardinality(Sessions)
<1>1. marks \cap snapshot \in SUBSET Sessions
  OBVIOUS
<1>2. IsFiniteSet(marks \cap snapshot) /\ Cardinality(marks \cap snapshot) <= Cardinality(Sessions)
  BY <1>1, SessionsAssumption, FS_Subset
<1>3. Cardinality(marks \cap snapshot) \in Nat /\ Cardinality(Sessions) \in Nat
  BY <1>2, SessionsAssumption, FS_CardinalityType
<1> QED
  BY <1>2, <1>3 DEF Tally

\* The invariant holds before the first solve.
LEMMA InitIInv == Init => IInv
<1> SUFFICES ASSUME Init PROVE IInv
  OBVIOUS
<1>1. Cardinality(Sessions) \in Nat
  BY SessionsAssumption, FS_CardinalityType
<1>2. TypeOK
  BY <1>1, IntervalAssumption DEF Init, TypeOK, Triggers, Phases, Active
<1>3. ReadInOrder /\ QueuedOnlyWhileSolving /\ NoTriggerLost
  BY DEF Init, ReadInOrder, QueuedOnlyWhileSolving, NoTriggerLost
<1> QED
  BY <1>2, <1>3 DEF IInv

\* Asking for a solve leaves the debounce timer armed.
LEMMA RequestArms ==
  ASSUME TypeOK, NEW trigger \in Triggers, Request(trigger)
  PROVE  debounce' \in Triggers
BY DEF Request, TypeOK, Triggers

\* solve() either reads the present version or leaves its trigger in the queue.
LEMMA SolveKeepsIInv ==
  ASSUME IInv, NEW trigger \in Triggers, Solve(trigger),
         debounce' \in {debounce, "none"}, UNCHANGED worldVars
  PROVE  IInv'
<1> USE DEF worldVars
<1>1. CASE phase = "idle"
  <2>1. /\ phase' = "forecast" /\ age' = 0 /\ snapshot' = Active /\ verdict' = short /\ seen' = version
        /\ UNCHANGED <<started, queued, atRisk, planned, failedAt>>
    BY <1>1 DEF Solve
  <2>2. queued = "none"
    BY <1>1 DEF IInv, QueuedOnlyWhileSolving
  <2>3. TypeOK'
    BY <2>1, IntervalAssumption DEF IInv, TypeOK, Triggers, Phases, Active
  <2>4. ReadInOrder' /\ QueuedOnlyWhileSolving' /\ NoTriggerLost'
    BY <2>1, <2>2 DEF IInv, TypeOK, ReadInOrder, QueuedOnlyWhileSolving, NoTriggerLost
  <2> QED
    BY <2>3, <2>4 DEF IInv
<1>2. CASE phase # "idle"
  <2>1. queued' = trigger /\ UNCHANGED <<runVars, phase>>
    BY <1>2 DEF Solve
  <2>2. TypeOK'
    BY <2>1 DEF IInv, TypeOK, Triggers, Active, runVars
  <2>3. trigger # "none"
    BY DEF Triggers
  <2>4. ReadInOrder' /\ QueuedOnlyWhileSolving' /\ NoTriggerLost'
    BY <1>2, <2>1, <2>3 DEF IInv, ReadInOrder, QueuedOnlyWhileSolving, NoTriggerLost, runVars
  <2> QED
    BY <2>2, <2>4 DEF IInv
<1> QED
  BY <1>1, <1>2

\* What was queued is asked for again when the solve ends, success or not.
LEMMA FinallyAsks ==
  ASSUME TypeOK, Finally
  PROVE  /\ phase' = "idle" /\ queued' = "none"
         /\ debounce' \in Triggers \cup {"none"}
         /\ debounce # "none" \/ queued # "none" => debounce' # "none"
BY DEF Finally, Request, TypeOK, Triggers

\* Every step of the loop and of the site keeps the invariant.
LEMMA NextIInv == IInv /\ [Next]_vars => IInv'
<1> SUFFICES ASSUME IInv, [Next]_vars PROVE IInv'
  OBVIOUS
<1> USE DEF worldVars, runVars
<1>0. TypeOK /\ ReadInOrder /\ QueuedOnlyWhileSolving /\ NoTriggerLost
  BY DEF IInv
<1>1. CASE DebounceFires
  <2>1. debounce \in Triggers
    BY <1>0, <1>1 DEF DebounceFires, TypeOK
  <2> QED
    BY <1>1, <2>1, SolveKeepsIInv DEF DebounceFires
<1>2. CASE Operator
  <2>1. "operator_request" \in Triggers
    BY DEF Triggers
  <2> QED
    BY <1>2, <2>1, SolveKeepsIInv DEF Operator
<1>3. CASE ForecastReady
  <2>1. TypeOK'
    BY <1>0, <1>3 DEF ForecastReady, TypeOK, Phases, Active
  <2>2. ReadInOrder' /\ QueuedOnlyWhileSolving' /\ NoTriggerLost'
    BY <1>0, <1>3 DEF ForecastReady, ReadInOrder, QueuedOnlyWhileSolving, NoTriggerLost
  <2> QED
    BY <2>1, <2>2 DEF IInv
<1>4. CASE SolveFails
  <2>1. /\ phase' = "idle" /\ queued' = "none"
        /\ debounce' \in Triggers \cup {"none"}
        /\ debounce # "none" \/ queued # "none" => debounce' # "none"
    BY <1>0, <1>4, FinallyAsks DEF SolveFails
  <2>2. TypeOK'
    BY <1>0, <1>4, <2>1 DEF SolveFails, TypeOK, Phases, Active
  <2>3. ReadInOrder' /\ QueuedOnlyWhileSolving'
    BY <1>0, <1>4, <2>1 DEF SolveFails, TypeOK, ReadInOrder, QueuedOnlyWhileSolving
  <2>4. NoTriggerLost'
    BY <1>0, <1>4, <2>1 DEF SolveFails, TypeOK, ReadInOrder, NoTriggerLost
  <2> QED
    BY <2>2, <2>3, <2>4 DEF IInv
<1>5. CASE PlanSolved
  <2> DEFINE marks == (flagged \ snapshot) \cup verdict
  <2>1. marks \in SUBSET Sessions
    BY <1>0 DEF TypeOK
  <2>2. Tally(marks) \in 0..Cardinality(Sessions)
    BY <2>1, TallyIsSmall
  <2>3. flagged' = marks /\ atRisk' = Tally(marks)
    BY <1>5 DEF PlanSolved
  <2>4. debounce' \in Triggers \cup {"none"} /\ (debounce # "none" => debounce' # "none")
    BY <1>0, <1>5 DEF PlanSolved, Announce, Hear, Request, TypeOK, Triggers
  <2> HIDE DEF marks
  <2>5. TypeOK'
    BY <1>0, <1>5, <2>1, <2>2, <2>3, <2>4 DEF PlanSolved, TypeOK, Phases, Active
  <2>6. ReadInOrder' /\ QueuedOnlyWhileSolving'
    BY <1>0, <1>5 DEF PlanSolved, TypeOK, ReadInOrder, QueuedOnlyWhileSolving
  <2>7. NoTriggerLost'
    BY <1>0, <1>5, <2>4 DEF PlanSolved, TypeOK, ReadInOrder, NoTriggerLost
  <2> QED
    BY <2>5, <2>6, <2>7 DEF IInv
<1>6. CASE Dispatched
  <2>1. /\ phase' = "idle" /\ queued' = "none"
        /\ debounce' \in Triggers \cup {"none"}
        /\ debounce # "none" \/ queued # "none" => debounce' # "none"
    BY <1>0, <1>6, FinallyAsks DEF Dispatched
  <2>2. TypeOK'
    BY <1>0, <1>6, <2>1 DEF Dispatched, TypeOK, Phases, Active
  <2>3. ReadInOrder' /\ QueuedOnlyWhileSolving' /\ NoTriggerLost'
    BY <1>0, <1>6, <2>1 DEF Dispatched, ReadInOrder, QueuedOnlyWhileSolving, NoTriggerLost
  <2> QED
    BY <2>2, <2>3 DEF IInv
<1>7. CASE Tick
  <2>1. debounce' \in Triggers \cup {"none"} /\ (debounce # "none" => debounce' # "none")
    BY <1>0, <1>7 DEF Tick, Request, TypeOK, Triggers
  <2>2. age' \in 0..OrdinaryInterval
    BY <1>0, <1>7, IntervalAssumption DEF Tick, TypeOK
  <2>3. TypeOK'
    BY <1>0, <1>7, <2>1, <2>2 DEF Tick, TypeOK, Active
  <2>4. ReadInOrder' /\ QueuedOnlyWhileSolving' /\ NoTriggerLost'
    BY <1>0, <1>7, <2>1 DEF Tick, ReadInOrder, QueuedOnlyWhileSolving, NoTriggerLost
  <2> QED
    BY <2>3, <2>4 DEF IInv
<1>8. CASE Stop
  <2>1. TypeOK'
    BY <1>0, <1>8 DEF Stop, TypeOK, Active
  <2>2. ReadInOrder' /\ QueuedOnlyWhileSolving' /\ NoTriggerLost'
    BY <1>0, <1>8 DEF Stop, ReadInOrder, QueuedOnlyWhileSolving, NoTriggerLost
  <2> QED
    BY <2>1, <2>2 DEF IInv
<1>9. CASE Change
  <2>1. /\ debounce' \in Triggers \cup {"none"} /\ (debounce # "none" => debounce' # "none")
        /\ started => debounce' # "none"
    BY <1>0, <1>9 DEF Change, Hear, Request, TypeOK, Triggers
  <2>2. status' \in [Sessions -> {"pending", "active", "ended"}]
    BY <1>0, <1>9 DEF Change, TypeOK
  <2>3. TypeOK'
    BY <1>0, <1>9, <2>1, <2>2 DEF Change, TypeOK, Active
  <2>4. ReadInOrder' /\ QueuedOnlyWhileSolving' /\ NoTriggerLost'
    BY <1>0, <1>9, <2>1 DEF Change, TypeOK, ReadInOrder, QueuedOnlyWhileSolving, NoTriggerLost
  <2> QED
    BY <2>3, <2>4 DEF IInv
<1>10. CASE Drift
  <2>1. TypeOK'
    BY <1>0, <1>10 DEF Drift, TypeOK, Active
  <2>2. ReadInOrder' /\ QueuedOnlyWhileSolving' /\ NoTriggerLost'
    BY <1>0, <1>10 DEF Drift, ReadInOrder, QueuedOnlyWhileSolving, NoTriggerLost
  <2> QED
    BY <2>1, <2>2 DEF IInv
<1>11. CASE UNCHANGED vars
  BY <1>0, <1>11 DEF vars, IInv, TypeOK, Active, ReadInOrder, QueuedOnlyWhileSolving, NoTriggerLost
<1> HIDE DEF IInv
<1> QED
  BY <1>1, <1>2, <1>3, <1>4, <1>5, <1>6, <1>7, <1>8, <1>9, <1>10, <1>11 DEF Next

\* The inductive invariant holds of every behaviour of the loop.
THEOREM InductiveInvariant == Spec => []IInv
BY InitIInv, NextIInv, PTL DEF Spec

\* The variables keep their types; in particular a verdict is only ever about
\* sessions of the snapshot, and the tally counts sessions.
THEOREM TypeCorrect == Spec => []TypeOK
<1>1. IInv => TypeOK
  BY DEF IInv
<1> QED
  BY <1>1, InductiveInvariant, PTL

\* No announced change is lost between the debounce timer, the queue and the
\* running solve, unless the very solve that had read it failed.
THEOREM NoChangeIsLost == Spec => []NoTriggerLost
<1>1. IInv => NoTriggerLost
  BY DEF IInv
<1> QED
  BY <1>1, InductiveInvariant, PTL

\* A queued trigger always has a running solve to pick it up at its end.
THEOREM QueueIsPickedUp == Spec => []QueuedOnlyWhileSolving
<1>1. IInv => QueuedOnlyWhileSolving
  BY DEF IInv
<1> QED
  BY <1>1, InductiveInvariant, PTL

-----------------------------------------------------------------------------
(* Who and what the server knows (Registry).                                *)

People == Drivers \cup {"grid-ops", "ops-network"}
VehicleIds == Drivers \cup Cars
ProfileRows ==
  [site : {Members[d] : d \in Drivers} \cup {Nobody}, tag : {Tags[d] : d \in Drivers} \cup {None}]
SessionRows ==
  [driver : People \cup {None}, car : VehicleIds \cup {None}, charger : Chargers,
   status : {"pending", "active", "complete", "aborted"}]
ChargerRows == [site : Sites, online : BOOLEAN]
ConnectorRows == [session : SessionIds \cup {None}]
VehicleRows == [driver : Drivers]

IsTable(rows, Ids, Row) == DOMAIN rows \subseteq Ids /\ rows \in [DOMAIN rows -> Row]

\* What the repositories hold, and Postgres.
RowsTypeOK(rows) ==
  /\ rows = [t \in Tables |-> rows[t]]
  /\ IsTable(rows["sites"], Sites, {Site})
  /\ IsTable(rows["profiles"], People, ProfileRows)
  /\ IsTable(rows["vehicles"], VehicleIds, VehicleRows)
  /\ IsTable(rows["chargers"], Chargers, ChargerRows)
  /\ IsTable(rows["connectors"], Chargers, ConnectorRows)
  /\ IsTable(rows["sessions"], SessionIds, SessionRows)

KnownTypeOK ==
  /\ up \in {"down", "starting", "serving"}
  /\ files \subseteq Chargers /\ RowsTypeOK(mem) /\ RowsTypeOK(db)
  /\ blind \subseteq (Tables \ {"connectors"}) \cup {"orphans"}
  /\ sockets \subseteq Chargers /\ told \subseteq issued /\ issued \subseteq SessionIds
  /\ starts \in 0..MaxStarts /\ losses \in 0..MaxLosses /\ moves \in 0..MaxMoves

\* Nothing is connected before the server listens, and what is connected has a row; the chargers of
\* the files have theirs.
ConnectedIsKnown ==
  /\ up # "serving" => sockets = {}
  /\ sockets \subseteq DOMAIN mem["chargers"]
  /\ up # "down" => files \subseteq DOMAIN mem["chargers"]

KnownInv == KnownTypeOK /\ ConnectedIsKnown /\ Remembered

\* Tables laid over one another: the rows of the first, and of the second those the first has not.
LEMMA LaidOver ==
  ASSUME NEW f, NEW g
  PROVE  /\ DOMAIN Over(f, g) = DOMAIN f \cup DOMAIN g
         /\ \A x \in DOMAIN f : Over(f, g)[x] = f[x]
         /\ \A x \in DOMAIN g \ DOMAIN f : Over(f, g)[x] = g[x]
BY DEF Over

\* What is laid over a table of a kind is of that kind.
LEMMA TablesMerge ==
  ASSUME NEW f, NEW g, NEW Ids, NEW Row, IsTable(f, Ids, Row), IsTable(g, Ids, Row)
  PROVE  IsTable(Over(f, g), Ids, Row)
<1>1. Over(f, g) = [x \in DOMAIN f \cup DOMAIN g |-> IF x \in DOMAIN f THEN f[x] ELSE g[x]]
  BY DEF Over
<1>2. ASSUME NEW x \in DOMAIN f \cup DOMAIN g
      PROVE  (IF x \in DOMAIN f THEN f[x] ELSE g[x]) \in Row
  BY DEF IsTable
<1>3. Over(f, g) \in [DOMAIN f \cup DOMAIN g -> Row]
  BY <1>1, <1>2
<1>4. DOMAIN Over(f, g) = DOMAIN f \cup DOMAIN g
  BY <1>1
<1> QED
  BY <1>3, <1>4 DEF IsTable

\* A row that is saved.
LEMMA SavedRow ==
  ASSUME NEW rows, NEW id, NEW x
  PROVE  /\ DOMAIN Saved(rows, id, x) = DOMAIN rows \cup {id}
         /\ Saved(rows, id, x)[id] = x
         /\ \A i \in DOMAIN rows \ {id} : Saved(rows, id, x)[i] = rows[i]
BY DEF Saved

LEMMA SavedTable ==
  ASSUME NEW rows, NEW Ids, NEW Row, IsTable(rows, Ids, Row), NEW id \in Ids, NEW x \in Row
  PROVE  IsTable(Saved(rows, id, x), Ids, Row)
<1>1. ASSUME NEW i \in DOMAIN rows \cup {id} PROVE (IF i = id THEN x ELSE rows[i]) \in Row
  BY DEF IsTable
<1>2. Saved(rows, id, x) \in [DOMAIN rows \cup {id} -> Row] /\ DOMAIN Saved(rows, id, x) = DOMAIN rows \cup {id}
  BY <1>1 DEF Saved
<1> QED
  BY <1>2 DEF IsTable

\* Nothing is of any kind.
LEMMA EmptyTable == \A Ids, Row : IsTable(Empty, Ids, Row) /\ DOMAIN Empty = {}
<1>1. DOMAIN Empty = {} /\ Empty = [k \in {} |-> 0]
  BY DEF Empty
<1> QED
  BY <1>1 DEF IsTable

LEMMA NoRowsAreRows == RowsTypeOK(NoRows)
<1>1. NoRows = [t \in Tables |-> NoRows[t]] /\ \A t \in Tables : NoRows[t] = Empty
  BY DEF NoRows
<1> QED
  BY <1>1, EmptyTable DEF RowsTypeOK, Tables

\* The orphans are closed, no row comes or goes.
LEMMA OrphansAreClosed ==
  ASSUME NEW rows, IsTable(rows, SessionIds, SessionRows)
  PROVE  /\ IsTable(Aborted(rows), SessionIds, SessionRows)
         /\ DOMAIN Aborted(rows) = DOMAIN rows
         /\ Open(Aborted(rows)) = {}
<1>1. Aborted(rows) = [i \in DOMAIN rows |->
        IF rows[i].status \in open THEN [rows[i] EXCEPT !.status = "aborted"] ELSE rows[i]]
  BY DEF Aborted
<1>2. ASSUME NEW i \in DOMAIN rows
      PROVE  Aborted(rows)[i] \in SessionRows /\ Aborted(rows)[i].status \notin open
  <2>1. rows[i] \in SessionRows
    BY DEF IsTable
  <2> QED
    BY <1>1, <2>1 DEF SessionRows, open
<1>3. Aborted(rows) \in [DOMAIN rows -> SessionRows] /\ DOMAIN Aborted(rows) = DOMAIN rows
  BY <1>1, <1>2
<1> QED
  BY <1>2, <1>3 DEF IsTable, Open

\* What the scenario files are laid over stays: rows only come, and the sessions are as they were.
LEMMA SeededRows ==
  ASSUME NEW rows, RowsTypeOK(rows), files' \subseteq Chargers,
         NEW seeded, seeded = seedNetworkOperator(Seeded(rows))
  PROVE  /\ RowsTypeOK(seeded)
         /\ \A t \in Tables : DOMAIN rows[t] \subseteq DOMAIN seeded[t]
         /\ seeded["sessions"] = rows["sessions"]
         /\ files' \subseteq DOMAIN seeded["chargers"]
         /\ \A c \in files' : ~seeded["chargers"][c].online
<1> DEFINE members == {d \in Drivers : Members[d] \in Run'}
           sites == [s \in Run' |-> Site]
           chargers == [c \in files' |-> Charger(Homes[c], FALSE)]
           connectors == [c \in files' |-> Connector(None)]
           profiles == [d \in members |-> Profile(Members[d], Tags[d])]
           vehicles == [d \in members |-> [driver |-> d]]
           grid == [p \in {"grid-ops", "ops-network"} |-> Profile(Nobody, None)]
<1>1. rows = [t \in Tables |-> rows[t]] /\ DOMAIN rows = Tables
  BY DEF RowsTypeOK
<1>2. /\ seeded["sites"] = Over(sites, rows["sites"])
      /\ seeded["chargers"] = Over(chargers, rows["chargers"])
      /\ seeded["connectors"] = Over(connectors, rows["connectors"])
      /\ seeded["profiles"] = Over(grid, Over(profiles, rows["profiles"]))
      /\ seeded["vehicles"] = Over(vehicles, rows["vehicles"])
      /\ seeded["sessions"] = rows["sessions"]
  BY <1>1 DEF seedNetworkOperator, Seeded, Tables
<1>3. seeded = [t \in Tables |-> seeded[t]]
  BY <1>1 DEF seedNetworkOperator, Seeded, Tables
<1>4. IsTable(sites, Sites, {Site})
  <2>1. Run' \subseteq Sites
    BY DEF Run, Sites
  <2> QED
    BY <2>1 DEF IsTable
<1>5. IsTable(chargers, Chargers, ChargerRows)
  <2>1. ASSUME NEW c \in files' PROVE Charger(Homes[c], FALSE) \in ChargerRows
    BY DEF Charger, ChargerRows, Sites
  <2> QED
    BY <2>1 DEF IsTable
<1>6. IsTable(connectors, Chargers, ConnectorRows)
  <2>1. Connector(None) \in ConnectorRows
    BY DEF Connector, ConnectorRows
  <2> QED
    BY <2>1 DEF IsTable
<1>7. IsTable(profiles, People, ProfileRows) /\ IsTable(grid, People, ProfileRows)
  <2>1. ASSUME NEW d \in members PROVE Profile(Members[d], Tags[d]) \in ProfileRows
    BY DEF Profile, ProfileRows
  <2>2. Profile(Nobody, None) \in ProfileRows
    BY DEF Profile, ProfileRows
  <2> QED
    BY <2>1, <2>2 DEF IsTable, People
<1>8. IsTable(vehicles, VehicleIds, VehicleRows)
  <2>1. ASSUME NEW d \in members PROVE [driver |-> d] \in VehicleRows
    BY DEF VehicleRows
  <2> QED
    BY <2>1 DEF IsTable, VehicleIds
<1>9. RowsTypeOK(seeded)
  <2>1. IsTable(Over(sites, rows["sites"]), Sites, {Site})
    BY <1>4, TablesMerge DEF RowsTypeOK
  <2>2. IsTable(Over(chargers, rows["chargers"]), Chargers, ChargerRows)
    BY <1>5, TablesMerge DEF RowsTypeOK
  <2>3. IsTable(Over(connectors, rows["connectors"]), Chargers, ConnectorRows)
    BY <1>6, TablesMerge DEF RowsTypeOK
  <2>4. IsTable(Over(profiles, rows["profiles"]), People, ProfileRows)
    BY <1>7, TablesMerge DEF RowsTypeOK
  <2>5. IsTable(Over(grid, Over(profiles, rows["profiles"])), People, ProfileRows)
    BY <1>7, <2>4, TablesMerge
  <2>6. IsTable(Over(vehicles, rows["vehicles"]), VehicleIds, VehicleRows)
    BY <1>8, TablesMerge DEF RowsTypeOK
  <2> QED
    BY <1>2, <1>3, <2>1, <2>2, <2>3, <2>5, <2>6 DEF RowsTypeOK
<1>10. ASSUME NEW t \in Tables PROVE DOMAIN rows[t] \subseteq DOMAIN seeded[t]
  <2>1. \A f, g : DOMAIN g \subseteq DOMAIN Over(f, g)
    BY LaidOver
  <2>2. DOMAIN rows["profiles"] \subseteq DOMAIN Over(grid, Over(profiles, rows["profiles"]))
    BY <2>1
  <2> HIDE DEF sites, chargers, connectors, profiles, vehicles, grid
  <2> QED
    BY <1>2, <2>1, <2>2 DEF Tables
<1>11. files' \subseteq DOMAIN seeded["chargers"] /\ \A c \in files' : ~seeded["chargers"][c].online
  <2>1. DOMAIN chargers = files' /\ \A c \in files' : chargers[c] = Charger(Homes[c], FALSE)
    OBVIOUS
  <2>2. \A f, g : DOMAIN f \subseteq DOMAIN Over(f, g) /\ \A x \in DOMAIN f : Over(f, g)[x] = f[x]
    BY LaidOver
  <2> HIDE DEF chargers
  <2> QED
    BY <1>2, <2>1, <2>2 DEF Charger
<1> QED
  BY <1>2, <1>9, <1>10, <1>11

\* Before the first start nothing is known.
LEMMA NothingKnown == RegistryInit => KnownInv
<1> SUFFICES ASSUME RegistryInit PROVE KnownInv
  OBVIOUS
<1>1. KnownTypeOK
  BY NoRowsAreRows, RegistryAssumption DEF RegistryInit, KnownTypeOK
<1>2. ConnectedIsKnown /\ Remembered
  BY DEF RegistryInit, ConnectedIsKnown, Remembered, OnlineIsConnected, RecordSurvives, NoneLeftOpen,
         OneWaiting, ToldIsRun
<1> QED
  BY <1>1, <1>2 DEF KnownInv

\* A restart: what could be read is there, and the files are laid over it; what was open is closed.
LEMMA HydratingKeeps == KnownInv /\ Hydrates => KnownInv'
<1> SUFFICES ASSUME KnownInv, Hydrates PROVE KnownInv'
  OBVIOUS
<1> USE DEF KnownInv
<1>1. PICK lost \in SUBSET ((Tables \ {"connectors"}) \cup {"orphans"}) :
        /\ losses + Cardinality(lost) <= MaxLosses /\ losses' = losses + Cardinality(lost)
        /\ files' \subseteq Chargers /\ blind' = lost
        /\ db' = IF "orphans" \in lost THEN db ELSE [db EXCEPT !["sessions"] = Aborted(@)]
        /\ mem' = seedNetworkOperator(Seeded(
                    [t \in Tables |-> IF t \in lost \cup {"connectors"} THEN Empty ELSE db'[t]]))
  BY DEF Hydrates
<1>2. /\ up = "down" /\ up' = "starting" /\ starts < MaxStarts /\ starts' = starts + 1
      /\ UNCHANGED <<sockets, issued, told, moves>>
  BY DEF Hydrates
<1> DEFINE read == [t \in Tables |-> IF t \in lost \cup {"connectors"} THEN Empty ELSE db'[t]]
<1>3. RowsTypeOK(db') /\ (\A t \in Tables : DOMAIN db'[t] = DOMAIN db[t])
      /\ ("orphans" \notin lost => Open(db'["sessions"]) = {})
  <2>1. RowsTypeOK(db) /\ db = [t \in Tables |-> db[t]] /\ IsTable(db["sessions"], SessionIds, SessionRows)
    BY DEF KnownTypeOK, RowsTypeOK
  <2>2. CASE "orphans" \in lost
    BY <1>1, <2>1, <2>2
  <2>3. CASE "orphans" \notin lost
    <3>1. db' = [t \in Tables |-> IF t = "sessions" THEN Aborted(db["sessions"]) ELSE db[t]]
      BY <1>1, <2>1, <2>3
    <3>2. db'["sessions"] = Aborted(db["sessions"]) /\ \A t \in Tables \ {"sessions"} : db'[t] = db[t]
      BY <3>1 DEF Tables
    <3> QED
      BY <2>1, <3>1, <3>2, OrphansAreClosed DEF RowsTypeOK, Tables
  <2> QED
    BY <2>2, <2>3
<1>4. RowsTypeOK(read)
  BY <1>3, EmptyTable DEF RowsTypeOK, Tables
<1>5. mem' = seedNetworkOperator(Seeded(read))
  BY <1>1
<1>6. /\ RowsTypeOK(mem')
      /\ \A t \in Tables : DOMAIN read[t] \subseteq DOMAIN mem'[t]
      /\ mem'["sessions"] = read["sessions"]
      /\ files' \subseteq DOMAIN mem'["chargers"]
      /\ \A c \in files' : ~mem'["chargers"][c].online
  <2> HIDE DEF read
  <2> QED
    BY <1>1, <1>4, <1>5, SeededRows
<1>7. "orphans" \notin lost => Open(mem'["sessions"]) = {}
  <2>1. mem'["sessions"] = Empty \/ mem'["sessions"] = db'["sessions"]
    BY <1>6 DEF Tables
  <2> QED
    BY <1>3, <2>1 DEF Open, Empty
<1>8. sockets' = {}
  BY <1>2 DEF ConnectedIsKnown
<1>9. KnownTypeOK'
  <2>1. Cardinality(lost) \in Nat
    <3>1. lost \in SUBSET {"sites", "profiles", "vehicles", "chargers", "connectors", "sessions", "orphans"}
      BY DEF Tables
    <3>2. IsFiniteSet({"sites", "profiles", "vehicles", "chargers", "connectors", "sessions", "orphans"})
      <4>1. \A S, x : IsFiniteSet(S) => IsFiniteSet(S \cup {x})
        BY FS_AddElement
      <4>2. IsFiniteSet({} \cup {"sites"} \cup {"profiles"} \cup {"vehicles"} \cup {"chargers"})
        BY <4>1, FS_EmptySet
      <4>3. IsFiniteSet({} \cup {"sites"} \cup {"profiles"} \cup {"vehicles"} \cup {"chargers"}
                        \cup {"connectors"} \cup {"sessions"} \cup {"orphans"})
        BY <4>1, <4>2
      <4> QED
        BY <4>3
    <3> QED
      BY <3>1, <3>2, FS_Subset, FS_CardinalityType
  <2>2. losses' \in 0..MaxLosses /\ starts' \in 0..MaxStarts
    BY <1>1, <1>2, <2>1, RegistryAssumption DEF KnownTypeOK
  <2> QED
    BY <1>1, <1>2, <1>3, <1>6, <1>8, <2>2 DEF KnownTypeOK
<1>10. ConnectedIsKnown'
  BY <1>6, <1>8 DEF ConnectedIsKnown
<1>11. OnlineIsConnected'
  BY <1>6, <1>8 DEF OnlineIsConnected
<1>12. RecordSurvives'
  <2>1. ASSUME NEW t \in Tables \ (blind' \cup {"connectors"}) PROVE DOMAIN db'[t] \subseteq DOMAIN mem'[t]
    BY <1>1, <1>6
  <2> QED
    BY <2>1 DEF RecordSurvives
<1>13. NoneLeftOpen'
  BY <1>1, <1>7 DEF NoneLeftOpen
<1>14. OneWaiting' /\ ToldIsRun'
  BY <1>1, <1>7 DEF OneWaiting, ToldIsRun, Open, open
<1> QED
  BY <1>9, <1>10, <1>11, <1>12, <1>13, <1>14 DEF Remembered

\* A flush brings Postgres up to memory.
LEMMA FlushingKeeps == KnownInv /\ Flush => KnownInv'
<1> SUFFICES ASSUME KnownInv, Flush PROVE KnownInv'
  OBVIOUS
<1> USE DEF KnownInv
<1>1. /\ db' = [t \in Tables |-> Over(mem[t], db[t])] /\ up' = "serving" /\ up # "down"
      /\ UNCHANGED <<files, mem, blind, sockets, issued, told, starts, losses, moves>>
  BY DEF Flush
<1>2. \A t \in Tables : db'[t] = Over(mem[t], db[t])
  BY <1>1
<1>3. RowsTypeOK(db')
  BY <1>1, <1>2, TablesMerge DEF RowsTypeOK, KnownTypeOK, Tables
<1>4. ASSUME NEW t \in Tables \ (blind' \cup {"connectors"}) PROVE DOMAIN db'[t] \subseteq DOMAIN mem'[t]
  <2>1. DOMAIN db[t] \subseteq DOMAIN mem[t]
    BY <1>1 DEF Remembered, RecordSurvives
  <2>2. DOMAIN Over(mem[t], db[t]) = DOMAIN mem[t] \cup DOMAIN db[t]
    BY LaidOver
  <2> QED
    BY <1>1, <1>2, <2>1, <2>2
<1>5. KnownTypeOK'
  BY <1>1, <1>3 DEF KnownTypeOK
<1>6. ConnectedIsKnown' /\ OnlineIsConnected' /\ NoneLeftOpen'
  BY <1>1 DEF ConnectedIsKnown, Remembered, OnlineIsConnected, NoneLeftOpen
<1>7. RecordSurvives'
  BY <1>4 DEF RecordSurvives
<1>8. OneWaiting'
  BY <1>1 DEF Remembered, OneWaiting
<1>9. ToldIsRun'
  BY <1>1 DEF Remembered, ToldIsRun, Run, Open
<1> QED
  BY <1>5, <1>6, <1>7, <1>8, <1>9 DEF Remembered

\* With the process goes all that it knew.
LEMMA DyingKeeps == KnownInv /\ Dies => KnownInv'
<1> SUFFICES ASSUME KnownInv, Dies PROVE KnownInv'
  OBVIOUS
<1> USE DEF KnownInv
<1>1. /\ up' = "down" /\ mem' = NoRows /\ sockets' = {} /\ files' = {} /\ blind' = {}
      /\ UNCHANGED <<db, issued, told, starts, losses, moves>>
  BY DEF Dies
<1>2. KnownTypeOK'
  BY <1>1, NoRowsAreRows DEF KnownTypeOK
<1> QED
  BY <1>1, <1>2 DEF ConnectedIsKnown, Remembered, OnlineIsConnected, RecordSurvives, NoneLeftOpen,
                    OneWaiting, ToldIsRun

\* A step of a process that serves, by which rows only come.
LEMMA ServedStep ==
  ASSUME KnownInv, Serving, RowsTypeOK(mem'),
         \A t \in Tables : DOMAIN mem[t] \subseteq DOMAIN mem'[t],
         sockets' \subseteq DOMAIN mem'["chargers"], told' \subseteq issued', issued' \subseteq SessionIds
  PROVE  KnownTypeOK' /\ ConnectedIsKnown' /\ RecordSurvives' /\ NoneLeftOpen'
<1> USE DEF KnownInv
<1>1. /\ up = "serving" /\ moves < MaxMoves /\ moves' = moves + 1
      /\ UNCHANGED <<up, files, db, blind, starts, losses>>
  BY DEF Serving
<1>2. KnownTypeOK'
  <2>1. sockets' \subseteq Chargers
    BY DEF RowsTypeOK, IsTable
  <2>2. moves' \in 0..MaxMoves
    BY <1>1, RegistryAssumption DEF KnownTypeOK
  <2> QED
    BY <1>1, <2>1, <2>2 DEF KnownTypeOK
<1>3. ConnectedIsKnown'
  <2>1. files \subseteq DOMAIN mem["chargers"] /\ "chargers" \in Tables
    BY <1>1 DEF ConnectedIsKnown, Tables
  <2> QED
    BY <1>1, <2>1 DEF ConnectedIsKnown
<1>4. RecordSurvives'
  <2>1. ASSUME NEW t \in Tables \ (blind' \cup {"connectors"}) PROVE DOMAIN db'[t] \subseteq DOMAIN mem'[t]
    <3>1. DOMAIN db[t] \subseteq DOMAIN mem[t]
      BY <1>1 DEF Remembered, RecordSurvives
    <3> QED
      BY <1>1, <3>1
  <2> QED
    BY <2>1 DEF RecordSurvives
<1>5. NoneLeftOpen'
  BY <1>1 DEF NoneLeftOpen
<1> QED
  BY <1>2, <1>3, <1>4, <1>5

\* Of a step that leaves the sessions, or the chargers, alone.
LEMMA SessionsStay ==
  ASSUME KnownInv, Serving, mem'["sessions"] = mem["sessions"], told' = told
  PROVE  OneWaiting' /\ ToldIsRun'
BY DEF KnownInv, Remembered, OneWaiting, ToldIsRun, Serving, Run, Open

LEMMA ChargersStay ==
  ASSUME KnownInv, Serving, mem'["chargers"] = mem["chargers"], sockets' = sockets
  PROVE  OnlineIsConnected' /\ sockets' \subseteq DOMAIN mem'["chargers"]
BY DEF KnownInv, Remembered, ConnectedIsKnown, OnlineIsConnected, Serving

\* One row of one table.
LEMMA OneRow ==
  ASSUME RowsTypeOK(mem), NEW t \in Tables, NEW id, NEW x, Save(t, id, x)
  PROVE  /\ mem' = [u \in Tables |-> mem'[u]]
         /\ mem'[t] = Saved(mem[t], id, x) /\ \A u \in Tables \ {t} : mem'[u] = mem[u]
         /\ \A u \in Tables : DOMAIN mem[u] \subseteq DOMAIN mem'[u]
<1>1. mem' = [u \in Tables |-> IF u = t THEN Saved(mem[t], id, x) ELSE mem[u]]
  BY DEF Save, RowsTypeOK
<1>2. mem'[t] = Saved(mem[t], id, x) /\ \A u \in Tables \ {t} : mem'[u] = mem[u]
  BY <1>1
<1>3. DOMAIN Saved(mem[t], id, x) = DOMAIN mem[t] \cup {id}
  BY SavedRow
<1> QED
  BY <1>1, <1>2, <1>3

\* A charge point connects: its row says so.
LEMMA ConnectingKeeps == \A c \in Chargers : KnownInv /\ Connects(c) => KnownInv'
<1> SUFFICES ASSUME NEW c \in Chargers, KnownInv, Connects(c) PROVE KnownInv'
  OBVIOUS
<1> DEFINE x == [mem["chargers"][c] EXCEPT !.online = TRUE]
<1>1. /\ Serving /\ c \in DOMAIN mem["chargers"] /\ sockets' = sockets \cup {c}
      /\ Save("chargers", c, x) /\ UNCHANGED <<issued, told>>
  BY DEF Connects, Has
<1>2. RowsTypeOK(mem) /\ IsTable(mem["chargers"], Chargers, ChargerRows) /\ "chargers" \in Tables
  BY DEF KnownInv, KnownTypeOK, RowsTypeOK, Tables
<1>3. mem["chargers"][c] \in ChargerRows
  BY <1>1, <1>2 DEF IsTable
<1>4. x \in ChargerRows /\ x.online
  BY <1>3 DEF ChargerRows
<1> HIDE DEF x
<1>5. /\ mem' = [u \in Tables |-> mem'[u]]
      /\ mem'["chargers"] = Saved(mem["chargers"], c, x)
      /\ \A u \in Tables \ {"chargers"} : mem'[u] = mem[u]
      /\ \A u \in Tables : DOMAIN mem[u] \subseteq DOMAIN mem'[u]
  BY <1>1, <1>2, OneRow
<1>6. IsTable(mem'["chargers"], Chargers, ChargerRows)
  BY <1>2, <1>4, <1>5, SavedTable
<1>7. RowsTypeOK(mem')
  BY <1>2, <1>5, <1>6 DEF RowsTypeOK, Tables
<1>8. /\ DOMAIN mem'["chargers"] = DOMAIN mem["chargers"] \cup {c} /\ mem'["chargers"][c] = x
      /\ \A i \in DOMAIN mem["chargers"] \ {c} : mem'["chargers"][i] = mem["chargers"][i]
  <2>1. /\ DOMAIN Saved(mem["chargers"], c, x) = DOMAIN mem["chargers"] \cup {c}
        /\ Saved(mem["chargers"], c, x)[c] = x
        /\ \A i \in DOMAIN mem["chargers"] \ {c} : Saved(mem["chargers"], c, x)[i] = mem["chargers"][i]
    BY DEF Saved
  <2> QED
    BY <1>5, <2>1
<1>9. sockets' \subseteq DOMAIN mem'["chargers"] /\ told' \subseteq issued' /\ issued' \subseteq SessionIds
  BY <1>1, <1>8 DEF KnownInv, KnownTypeOK, ConnectedIsKnown
<1>10. KnownTypeOK' /\ ConnectedIsKnown' /\ RecordSurvives' /\ NoneLeftOpen'
  BY <1>1, <1>5, <1>7, <1>9, ServedStep
<1>11. OnlineIsConnected'
  <2>1. ASSUME NEW d \in files PROVE mem'["chargers"][d].online <=> d \in sockets'
    <3>1. d \in DOMAIN mem["chargers"] /\ (mem["chargers"][d].online <=> d \in sockets)
      BY <1>1 DEF KnownInv, ConnectedIsKnown, Remembered, OnlineIsConnected, Serving
    <3> QED
      BY <1>1, <1>4, <1>8, <3>1
  <2> QED
    BY <1>1, <2>1 DEF OnlineIsConnected, Serving
<1>12. OneWaiting' /\ ToldIsRun'
  <2>1. mem'["sessions"] = mem["sessions"]
    BY <1>5 DEF Tables
  <2> QED
    BY <1>1, <2>1, SessionsStay
<1> QED
  BY <1>10, <1>11, <1>12 DEF KnownInv, Remembered

\* A charge point leaves: its row says so.
LEMMA LeavingKeeps == \A c \in Chargers : KnownInv /\ Leaves(c) => KnownInv'
<1> SUFFICES ASSUME NEW c \in Chargers, KnownInv, Leaves(c) PROVE KnownInv'
  OBVIOUS
<1> DEFINE x == [mem["chargers"][c] EXCEPT !.online = FALSE]
<1>1. /\ Serving /\ c \in sockets /\ sockets' = sockets \ {c}
      /\ Save("chargers", c, x) /\ UNCHANGED <<issued, told>>
  BY DEF Leaves
<1>2. /\ RowsTypeOK(mem) /\ IsTable(mem["chargers"], Chargers, ChargerRows) /\ "chargers" \in Tables
      /\ c \in DOMAIN mem["chargers"]
  BY <1>1 DEF KnownInv, KnownTypeOK, RowsTypeOK, Tables, ConnectedIsKnown
<1>3. mem["chargers"][c] \in ChargerRows
  BY <1>2 DEF IsTable
<1>4. x \in ChargerRows /\ ~x.online
  BY <1>3 DEF ChargerRows
<1> HIDE DEF x
<1>5. /\ mem' = [u \in Tables |-> mem'[u]]
      /\ mem'["chargers"] = Saved(mem["chargers"], c, x)
      /\ \A u \in Tables \ {"chargers"} : mem'[u] = mem[u]
      /\ \A u \in Tables : DOMAIN mem[u] \subseteq DOMAIN mem'[u]
  BY <1>1, <1>2, OneRow
<1>6. IsTable(mem'["chargers"], Chargers, ChargerRows)
  BY <1>2, <1>4, <1>5, SavedTable
<1>7. RowsTypeOK(mem')
  BY <1>2, <1>5, <1>6 DEF RowsTypeOK, Tables
<1>8. /\ DOMAIN mem'["chargers"] = DOMAIN mem["chargers"] \cup {c} /\ mem'["chargers"][c] = x
      /\ \A i \in DOMAIN mem["chargers"] \ {c} : mem'["chargers"][i] = mem["chargers"][i]
  <2>1. /\ DOMAIN Saved(mem["chargers"], c, x) = DOMAIN mem["chargers"] \cup {c}
        /\ Saved(mem["chargers"], c, x)[c] = x
        /\ \A i \in DOMAIN mem["chargers"] \ {c} : Saved(mem["chargers"], c, x)[i] = mem["chargers"][i]
    BY DEF Saved
  <2> QED
    BY <1>5, <2>1
<1>9. sockets' \subseteq DOMAIN mem'["chargers"] /\ told' \subseteq issued' /\ issued' \subseteq SessionIds
  BY <1>1, <1>8 DEF KnownInv, KnownTypeOK, ConnectedIsKnown
<1>10. KnownTypeOK' /\ ConnectedIsKnown' /\ RecordSurvives' /\ NoneLeftOpen'
  BY <1>1, <1>5, <1>7, <1>9, ServedStep
<1>11. OnlineIsConnected'
  <2>1. ASSUME NEW d \in files PROVE mem'["chargers"][d].online <=> d \in sockets'
    <3>1. d \in DOMAIN mem["chargers"] /\ (mem["chargers"][d].online <=> d \in sockets)
      BY <1>1 DEF KnownInv, ConnectedIsKnown, Remembered, OnlineIsConnected, Serving
    <3> QED
      BY <1>1, <1>4, <1>8, <3>1
  <2> QED
    BY <1>1, <2>1 DEF OnlineIsConnected, Serving
<1>12. OneWaiting' /\ ToldIsRun'
  <2>1. mem'["sessions"] = mem["sessions"]
    BY <1>5 DEF Tables
  <2> QED
    BY <1>1, <2>1, SessionsStay
<1> QED
  BY <1>10, <1>11, <1>12 DEF KnownInv, Remembered

\* A step that saves one row of a table of people, cars or bays.
LEMMA OtherRowKeeps ==
  ASSUME KnownInv, Serving, UNCHANGED <<sockets, issued, told>>,
         NEW t \in {"profiles", "vehicles", "connectors"}, NEW id, NEW x, Save(t, id, x),
         IsTable(mem'["profiles"], People, ProfileRows),
         IsTable(mem'["vehicles"], VehicleIds, VehicleRows),
         IsTable(mem'["connectors"], Chargers, ConnectorRows)
  PROVE  KnownInv'
<1>1. RowsTypeOK(mem) /\ t \in Tables
  BY DEF KnownInv, KnownTypeOK, Tables
<1>2. /\ mem' = [u \in Tables |-> mem'[u]]
      /\ \A u \in Tables \ {t} : mem'[u] = mem[u]
      /\ \A u \in Tables : DOMAIN mem[u] \subseteq DOMAIN mem'[u]
  BY <1>1, OneRow
<1>3. mem'["sites"] = mem["sites"] /\ mem'["chargers"] = mem["chargers"] /\ mem'["sessions"] = mem["sessions"]
  BY <1>2 DEF Tables
<1>4. RowsTypeOK(mem')
  BY <1>1, <1>2, <1>3 DEF RowsTypeOK
<1>5. OnlineIsConnected' /\ sockets' \subseteq DOMAIN mem'["chargers"] /\ OneWaiting' /\ ToldIsRun'
  BY <1>3, ChargersStay, SessionsStay
<1>6. told' \subseteq issued' /\ issued' \subseteq SessionIds
  BY DEF KnownInv, KnownTypeOK
<1>7. KnownTypeOK' /\ ConnectedIsKnown' /\ RecordSurvives' /\ NoneLeftOpen'
  BY <1>2, <1>4, <1>5, <1>6, ServedStep
<1> QED
  BY <1>5, <1>7 DEF KnownInv, Remembered

\* A status report, a driver's settings, a car: no session and no charger is touched.
LEMMA ReportingKeeps == \A c \in Chargers : KnownInv /\ ReportsStatus(c) => KnownInv'
<1> SUFFICES ASSUME NEW c \in Chargers, KnownInv, ReportsStatus(c) PROVE KnownInv'
  OBVIOUS
<1> DEFINE x == Connector(IF Has("connectors", c) THEN mem["connectors"][c].session ELSE None)
<1>1. Serving /\ Save("connectors", c, x) /\ UNCHANGED <<sockets, issued, told>>
  BY DEF ReportsStatus
<1>2. RowsTypeOK(mem) /\ "connectors" \in Tables
  BY DEF KnownInv, KnownTypeOK, Tables
<1>3. x \in ConnectorRows
  BY <1>2 DEF Connector, ConnectorRows, Has, RowsTypeOK, IsTable
<1> HIDE DEF x
<1>4. mem'["connectors"] = Saved(mem["connectors"], c, x) /\ \A u \in Tables \ {"connectors"} : mem'[u] = mem[u]
  BY <1>1, <1>2, OneRow
<1>5. IsTable(mem'["connectors"], Chargers, ConnectorRows)
  BY <1>2, <1>3, <1>4, SavedTable DEF RowsTypeOK
<1>6. IsTable(mem'["profiles"], People, ProfileRows) /\ IsTable(mem'["vehicles"], VehicleIds, VehicleRows)
  BY <1>2, <1>4 DEF RowsTypeOK, Tables
<1> QED
  BY <1>1, <1>5, <1>6, OtherRowKeeps

LEMMA PatchingKeeps == \A d \in Drivers : KnownInv /\ PatchesMe(d) => KnownInv'
<1> SUFFICES ASSUME NEW d \in Drivers, KnownInv, PatchesMe(d) PROVE KnownInv'
  OBVIOUS
<1>1. Serving /\ Save("profiles", d, Me(d)) /\ UNCHANGED <<sockets, issued, told>>
  BY DEF PatchesMe
<1>2. RowsTypeOK(mem) /\ "profiles" \in Tables /\ d \in People
  BY DEF KnownInv, KnownTypeOK, Tables, People
<1>3. Me(d) \in ProfileRows
  BY <1>2 DEF Me, Has, Profile, ProfileRows, RowsTypeOK, IsTable
<1>4. mem'["profiles"] = Saved(mem["profiles"], d, Me(d)) /\ \A u \in Tables \ {"profiles"} : mem'[u] = mem[u]
  BY <1>1, <1>2, OneRow
<1>5. IsTable(mem'["profiles"], People, ProfileRows)
  BY <1>2, <1>3, <1>4, SavedTable DEF RowsTypeOK
<1>6. IsTable(mem'["connectors"], Chargers, ConnectorRows) /\ IsTable(mem'["vehicles"], VehicleIds, VehicleRows)
  BY <1>2, <1>4 DEF RowsTypeOK, Tables
<1> QED
  BY <1>1, <1>5, <1>6, OtherRowKeeps

LEMMA AddingKeeps == \A d \in Drivers, v \in Cars : KnownInv /\ AddsCar(d, v) => KnownInv'
<1> SUFFICES ASSUME NEW d \in Drivers, NEW v \in Cars, KnownInv, AddsCar(d, v) PROVE KnownInv'
  OBVIOUS
<1> DEFINE x == [driver |-> d]
<1>1. Serving /\ Save("vehicles", v, x) /\ UNCHANGED <<sockets, issued, told>>
  BY DEF AddsCar
<1>2. RowsTypeOK(mem) /\ "vehicles" \in Tables /\ v \in VehicleIds
  BY DEF KnownInv, KnownTypeOK, Tables, VehicleIds
<1>3. x \in VehicleRows
  BY DEF VehicleRows
<1> HIDE DEF x
<1>4. mem'["vehicles"] = Saved(mem["vehicles"], v, x) /\ \A u \in Tables \ {"vehicles"} : mem'[u] = mem[u]
  BY <1>1, <1>2, OneRow
<1>5. IsTable(mem'["vehicles"], VehicleIds, VehicleRows)
  BY <1>2, <1>3, <1>4, SavedTable DEF RowsTypeOK
<1>6. IsTable(mem'["connectors"], Chargers, ConnectorRows) /\ IsTable(mem'["profiles"], People, ProfileRows)
  BY <1>2, <1>4 DEF RowsTypeOK, Tables
<1> QED
  BY <1>1, <1>5, <1>6, OtherRowKeeps

\* A declaration: nobody who waits is given a second bay, and no bay a second driver.
LEMMA DeclaringKeeps ==
  \A d \in Drivers, c \in Chargers, i \in SessionIds : KnownInv /\ Declares(d, c, i) => KnownInv'
<1> SUFFICES ASSUME NEW d \in Drivers, NEW c \in Chargers, NEW i \in SessionIds,
                    KnownInv, Declares(d, c, i)
             PROVE  KnownInv'
  OBVIOUS
<1>1. PICK car \in FirstOf(listByDriver(d)) : Save("sessions", i, Session(d, car, c, "pending"))
  BY DEF Declares
<1> DEFINE x == Session(d, car, c, "pending")
<1>2. /\ Serving /\ i \notin issued /\ issued' = issued \cup {i} /\ UNCHANGED sockets
      /\ findOpenByDriver(d) = {} /\ findOpenByConnector(c) = {}
      /\ told' = IF Homes[c] \in Run THEN told \cup {i} ELSE told
  BY DEF Declares
<1>3. RowsTypeOK(mem) /\ "sessions" \in Tables
  BY DEF KnownInv, KnownTypeOK, Tables
<1>4. x \in SessionRows /\ x.driver = d /\ x.charger = c /\ x.status = "pending"
  <2>1. car \in VehicleIds \cup {None}
    BY <1>3 DEF FirstOf, listByDriver, RowsTypeOK, IsTable
  <2> QED
    BY <2>1 DEF Session, SessionRows, People
<1> HIDE DEF x
<1>5. /\ mem' = [u \in Tables |-> mem'[u]]
      /\ mem'["sessions"] = Saved(mem["sessions"], i, x)
      /\ \A u \in Tables \ {"sessions"} : mem'[u] = mem[u]
      /\ \A u \in Tables : DOMAIN mem[u] \subseteq DOMAIN mem'[u]
  BY <1>1, <1>3, OneRow DEF x
<1>6. RowsTypeOK(mem')
  <2>1. IsTable(mem'["sessions"], SessionIds, SessionRows)
    BY <1>3, <1>4, <1>5, SavedTable DEF RowsTypeOK
  <2> QED
    BY <1>3, <1>5, <2>1 DEF RowsTypeOK, Tables
<1>7. OnlineIsConnected' /\ sockets' \subseteq DOMAIN mem'["chargers"]
  <2>1. mem'["chargers"] = mem["chargers"]
    BY <1>5 DEF Tables
  <2> QED
    BY <1>2, <2>1, ChargersStay
<1>8. told' \subseteq issued' /\ issued' \subseteq SessionIds /\ i \notin told
  BY <1>2 DEF KnownInv, KnownTypeOK
<1>9. KnownTypeOK' /\ ConnectedIsKnown' /\ RecordSurvives' /\ NoneLeftOpen'
  BY <1>2, <1>5, <1>6, <1>7, <1>8, ServedStep
<1>10. /\ DOMAIN mem'["sessions"] = DOMAIN mem["sessions"] \cup {i} /\ mem'["sessions"][i] = x
       /\ \A j \in DOMAIN mem["sessions"] \ {i} : mem'["sessions"][j] = mem["sessions"][j]
  <2>1. /\ DOMAIN Saved(mem["sessions"], i, x) = DOMAIN mem["sessions"] \cup {i}
        /\ Saved(mem["sessions"], i, x)[i] = x
        /\ \A j \in DOMAIN mem["sessions"] \ {i} : Saved(mem["sessions"], i, x)[j] = mem["sessions"][j]
    BY DEF Saved
  <2> QED
    BY <1>5, <2>1
<1>11. \A j \in DOMAIN mem["sessions"] :
         mem["sessions"][j].status = "pending" => mem["sessions"][j].driver # d /\ mem["sessions"][j].charger # c
  BY <1>2 DEF findOpenByDriver, findOpenByConnector, openest, Open, open
<1>12. up # "down" /\ up' = up /\ blind' = blind /\ files' = files
  BY <1>2 DEF Serving
<1>13. OneWaiting'
  <2>1. SUFFICES ASSUME blind = {}, NEW j \in DOMAIN mem'["sessions"], NEW k \in DOMAIN mem'["sessions"], j # k,
                        mem'["sessions"][j].status = "pending", mem'["sessions"][k].status = "pending"
                 PROVE  /\ mem'["sessions"][j].driver # mem'["sessions"][k].driver
                        /\ mem'["sessions"][j].charger # mem'["sessions"][k].charger
    BY <1>12 DEF OneWaiting
  <2>2. CASE j = i
    BY <1>4, <1>10, <1>11, <2>1, <2>2
  <2>3. CASE k = i
    BY <1>4, <1>10, <1>11, <2>1, <2>3
  <2>4. CASE j # i /\ k # i
    BY <1>10, <1>12, <2>1, <2>4 DEF KnownInv, Remembered, OneWaiting
  <2> QED
    BY <2>2, <2>3, <2>4
<1>14. ToldIsRun'
  <2>1. SUFFICES ASSUME blind = {}, NEW j \in told', j \in Open(mem'["sessions"])
                 PROVE  Homes[mem'["sessions"][j].charger] \in Run
    BY <1>12 DEF ToldIsRun, Run
  <2>2. CASE j = i
    BY <1>2, <1>4, <1>8, <1>10, <2>1, <2>2
  <2>3. CASE j # i
    BY <1>2, <1>10, <1>12, <2>1, <2>3 DEF KnownInv, Remembered, ToldIsRun, Open
  <2> QED
    BY <2>2, <2>3
<1> QED
  BY <1>7, <1>9, <1>13, <1>14 DEF KnownInv, Remembered

\* A step at a bay, by which nobody comes to wait and no session moves to another bay.
LEMMA BayStepKeeps ==
  ASSUME KnownInv, Serving, UNCHANGED <<sockets, told>>,
         issued \subseteq issued', issued' \subseteq SessionIds,
         mem' = [u \in Tables |-> mem'[u]],
         \A u \in Tables \ {"sessions", "connectors"} : mem'[u] = mem[u],
         IsTable(mem'["connectors"], Chargers, ConnectorRows),
         IsTable(mem'["sessions"], SessionIds, SessionRows),
         DOMAIN mem["connectors"] \subseteq DOMAIN mem'["connectors"],
         DOMAIN mem["sessions"] \subseteq DOMAIN mem'["sessions"],
         \A j \in DOMAIN mem'["sessions"] : mem'["sessions"][j].status = "pending" =>
           j \in DOMAIN mem["sessions"] /\ mem'["sessions"][j] = mem["sessions"][j],
         \A j \in told \cap Open(mem'["sessions"]) :
           j \in Open(mem["sessions"]) /\ mem'["sessions"][j].charger = mem["sessions"][j].charger
  PROVE  KnownInv'
<1>1. RowsTypeOK(mem) /\ RowsTypeOK(mem')
  BY DEF KnownInv, KnownTypeOK, RowsTypeOK, Tables
<1>2. \A u \in Tables : DOMAIN mem[u] \subseteq DOMAIN mem'[u]
  BY DEF Tables
<1>3. OnlineIsConnected' /\ sockets' \subseteq DOMAIN mem'["chargers"]
  <2>1. mem'["chargers"] = mem["chargers"]
    BY DEF Tables
  <2> QED
    BY <2>1, ChargersStay
<1>4. told' \subseteq issued' /\ issued' \subseteq SessionIds
  BY DEF KnownInv, KnownTypeOK
<1>5. KnownTypeOK' /\ ConnectedIsKnown' /\ RecordSurvives' /\ NoneLeftOpen'
  BY <1>1, <1>2, <1>3, <1>4, ServedStep
<1>6. up # "down" /\ up' = up /\ blind' = blind /\ files' = files
  BY DEF Serving
<1>7. OneWaiting'
  <2>1. SUFFICES ASSUME blind = {}, NEW j \in DOMAIN mem'["sessions"], NEW k \in DOMAIN mem'["sessions"], j # k,
                        mem'["sessions"][j].status = "pending", mem'["sessions"][k].status = "pending"
                 PROVE  /\ mem'["sessions"][j].driver # mem'["sessions"][k].driver
                        /\ mem'["sessions"][j].charger # mem'["sessions"][k].charger
    BY <1>6 DEF OneWaiting
  <2> QED
    BY <1>6, <2>1 DEF KnownInv, Remembered, OneWaiting
<1>8. ToldIsRun'
  BY <1>6 DEF KnownInv, Remembered, ToldIsRun, Run
<1> QED
  BY <1>3, <1>5, <1>7, <1>8 DEF KnownInv, Remembered

\* A transaction begins: what was active at the bay is abandoned, and a session that nobody was told
\* of is opened, or the one that was declared for the bay.
LEMMA StartingKeeps == \A c \in Chargers, i \in SessionIds : KnownInv /\ Starts(c, i) => KnownInv'
<1> SUFFICES ASSUME NEW c \in Chargers, NEW i \in SessionIds, KnownInv, Starts(c, i) PROVE KnownInv'
  OBVIOUS
<1>1. RowsTypeOK(mem) /\ mem = [u \in Tables |-> mem[u]]
      /\ IsTable(mem["sessions"], SessionIds, SessionRows)
      /\ IsTable(mem["connectors"], Chargers, ConnectorRows)
  BY DEF KnownInv, KnownTypeOK, RowsTypeOK
<1>2. PICK tag \in {Tags[d] : d \in Drivers} \cup {"unknown"} :
        LET stale == findActiveByConnector(c)
            declared == findPending(c, tag)
            left == [s \in DOMAIN mem["sessions"] |->
                       IF s \in stale THEN [mem["sessions"][s] EXCEPT !.status = "aborted"]
                       ELSE mem["sessions"][s]]
        IN \E driver \in FirstOf(getByIdTag(tag)) :
           \E car \in FirstOf(IF driver = None THEN {} ELSE listByDriver(driver)) :
             /\ IF declared # {} THEN i \in declared /\ UNCHANGED issued
                ELSE i \notin issued /\ issued' = issued \cup {i}
             /\ mem' = [mem EXCEPT
                  !["sessions"] = Saved(left, i, IF declared # {} THEN [left[i] EXCEPT !.status = "active"]
                                                 ELSE Session(driver, car, c, "active")),
                  !["connectors"] = Saved(@, c, Connector(i))]
  BY DEF Starts
<1>3. Serving /\ UNCHANGED <<sockets, told>>
  BY DEF Starts
<1> DEFINE stale == findActiveByConnector(c)
           declared == findPending(c, tag)
           left == [s \in DOMAIN mem["sessions"] |->
                      IF s \in stale THEN [mem["sessions"][s] EXCEPT !.status = "aborted"]
                      ELSE mem["sessions"][s]]
<1> DEFINE Opens(driver, car) ==
             /\ IF declared # {} THEN i \in declared /\ UNCHANGED issued
                ELSE i \notin issued /\ issued' = issued \cup {i}
             /\ mem' = [mem EXCEPT
                  !["sessions"] = Saved(left, i, IF declared # {} THEN [left[i] EXCEPT !.status = "active"]
                                                 ELSE Session(driver, car, c, "active")),
                  !["connectors"] = Saved(@, c, Connector(i))]
<1>3a. PICK driver \in FirstOf(getByIdTag(tag)) :
         \E car \in FirstOf(IF driver = None THEN {} ELSE listByDriver(driver)) : Opens(driver, car)
  BY <1>2
<1>3b. PICK car \in FirstOf(IF driver = None THEN {} ELSE listByDriver(driver)) : Opens(driver, car)
  BY <1>3a
<1>4. /\ IF declared # {} THEN i \in declared /\ UNCHANGED issued
         ELSE i \notin issued /\ issued' = issued \cup {i}
      /\ mem' = [mem EXCEPT
           !["sessions"] = Saved(left, i, IF declared # {} THEN [left[i] EXCEPT !.status = "active"]
                                          ELSE Session(driver, car, c, "active")),
           !["connectors"] = Saved(@, c, Connector(i))]
  BY <1>3b
<1> DEFINE x == IF declared # {} THEN [left[i] EXCEPT !.status = "active"]
                ELSE Session(driver, car, c, "active")
<1>5. declared \subseteq {j \in DOMAIN mem["sessions"] :
        mem["sessions"][j].status = "pending" /\ mem["sessions"][j].charger = c}
  BY DEF findPending
<1>6. DOMAIN left = DOMAIN mem["sessions"] /\ \A s \in DOMAIN left :
        /\ left[s] \in SessionRows /\ left[s].charger = mem["sessions"][s].charger
        /\ left[s] = mem["sessions"][s] \/ left[s].status = "aborted"
  <2>1. ASSUME NEW s \in DOMAIN mem["sessions"]
        PROVE  /\ left[s] \in SessionRows /\ left[s].charger = mem["sessions"][s].charger
               /\ left[s] = mem["sessions"][s] \/ left[s].status = "aborted"
    <3>1. mem["sessions"][s] \in SessionRows
      BY <1>1 DEF IsTable
    <3> QED
      BY <3>1 DEF SessionRows
  <2> QED
    BY <2>1
<1>7. x \in SessionRows /\ x.status = "active"
      /\ (declared # {} => i \in DOMAIN mem["sessions"] /\ x.charger = mem["sessions"][i].charger
                           /\ mem["sessions"][i].status = "pending")
  <2>1. CASE declared # {}
    <3>1. i \in declared /\ i \in DOMAIN mem["sessions"] /\ mem["sessions"][i].status = "pending"
      BY <1>4, <1>5, <2>1
    <3>2. left[i] \in SessionRows /\ left[i].charger = mem["sessions"][i].charger
      BY <1>6, <3>1
    <3>3. x = [left[i] EXCEPT !.status = "active"]
      BY <2>1
    <3> HIDE DEF left, x
    <3> QED
      BY <3>1, <3>2, <3>3 DEF SessionRows
  <2>2. CASE declared = {}
    <3>1. driver \in People \cup {None}
      BY <1>1 DEF FirstOf, getByIdTag, RowsTypeOK, IsTable
    <3>2. car \in VehicleIds \cup {None}
      BY <1>1 DEF FirstOf, listByDriver, RowsTypeOK, IsTable
    <3>3. x = Session(driver, car, c, "active")
      BY <2>2
    <3> QED
      BY <2>2, <3>1, <3>2, <3>3 DEF Session, SessionRows
  <2> QED
    BY <2>1, <2>2
<1> HIDE DEF left, x, declared, stale
<1>8. mem' = [u \in Tables |-> CASE u = "sessions" -> Saved(left, i, x)
                                 [] u = "connectors" -> Saved(mem["connectors"], c, Connector(i))
                                 [] OTHER -> mem[u]]
  <2>1. mem' = [mem EXCEPT !["sessions"] = Saved(left, i, x),
                           !["connectors"] = Saved(@, c, Connector(i))]
    BY <1>4 DEF x
  <2> QED
    BY <1>1, <2>1 DEF Tables
<1>9. /\ mem' = [u \in Tables |-> mem'[u]]
      /\ mem'["sessions"] = Saved(left, i, x)
      /\ mem'["connectors"] = Saved(mem["connectors"], c, Connector(i))
      /\ \A u \in Tables \ {"sessions", "connectors"} : mem'[u] = mem[u]
  BY <1>8 DEF Tables
<1>10. /\ DOMAIN mem'["sessions"] = DOMAIN mem["sessions"] \cup {i} /\ mem'["sessions"][i] = x
       /\ \A j \in DOMAIN mem["sessions"] \ {i} : mem'["sessions"][j] = left[j]
  BY <1>6, <1>9 DEF Saved
<1>11. IsTable(mem'["sessions"], SessionIds, SessionRows)
  <2>1. IsTable(left, SessionIds, SessionRows)
    <3>1. left = [s \in DOMAIN left |-> left[s]]
      BY DEF left
    <3> QED
      BY <1>1, <1>6, <3>1 DEF IsTable
  <2> QED
    BY <1>7, <1>9, <2>1, SavedTable
<1>12. /\ IsTable(mem'["connectors"], Chargers, ConnectorRows)
       /\ DOMAIN mem["connectors"] \subseteq DOMAIN mem'["connectors"]
  <2>1. Connector(i) \in ConnectorRows
    BY DEF Connector, ConnectorRows
  <2>2. IsTable(Saved(mem["connectors"], c, Connector(i)), Chargers, ConnectorRows)
    BY <1>1, <2>1, SavedTable
  <2>3. DOMAIN mem["connectors"] \subseteq DOMAIN Saved(mem["connectors"], c, Connector(i))
    BY DEF Saved
  <2> QED
    BY <1>9, <2>2, <2>3
<1>13. ASSUME NEW j \in DOMAIN mem'["sessions"], mem'["sessions"][j].status = "pending"
       PROVE  j \in DOMAIN mem["sessions"] /\ mem'["sessions"][j] = mem["sessions"][j]
  BY <1>6, <1>7, <1>10, <1>13
<1>14. issued \subseteq issued' /\ issued' \subseteq SessionIds /\ (declared = {} => i \notin told)
  BY <1>4 DEF KnownInv, KnownTypeOK
<1>15. ASSUME NEW j \in told \cap Open(mem'["sessions"])
       PROVE  j \in Open(mem["sessions"]) /\ mem'["sessions"][j].charger = mem["sessions"][j].charger
  <2>1. j \in DOMAIN mem'["sessions"] /\ mem'["sessions"][j].status \in {"pending", "active"}
    BY DEF Open, open
  <2>2. CASE j = i
    BY <1>7, <1>10, <1>14, <2>1, <2>2 DEF Open, open
  <2>3. CASE j # i
    BY <1>6, <1>10, <2>1, <2>3 DEF Open, open
  <2> QED
    BY <2>2, <2>3
<1>16. DOMAIN mem["sessions"] \subseteq DOMAIN mem'["sessions"]
  BY <1>10
<1> QED
  BY <1>3, <1>9, <1>11, <1>12, <1>13, <1>14, <1>15, <1>16, BayStepKeeps

\* A transaction ends.
LEMMA StoppingKeeps == \A i \in SessionIds : KnownInv /\ Stops(i) => KnownInv'
<1> SUFFICES ASSUME NEW i \in SessionIds, KnownInv, Stops(i) PROVE KnownInv'
  OBVIOUS
<1> DEFINE c == mem["sessions"][i].charger
<1>1. RowsTypeOK(mem) /\ mem = [u \in Tables |-> mem[u]]
      /\ IsTable(mem["sessions"], SessionIds, SessionRows)
      /\ IsTable(mem["connectors"], Chargers, ConnectorRows)
  BY DEF KnownInv, KnownTypeOK, RowsTypeOK
<1>2. /\ Serving /\ i \in DOMAIN mem["sessions"] /\ mem["sessions"][i].status = "active"
      /\ UNCHANGED <<sockets, issued, told>>
      /\ mem' = [mem EXCEPT !["sessions"][i].status = "complete",
                            !["connectors"] = Saved(@, c, Connector(None))]
  BY DEF Stops, Has
<1> DEFINE x == [mem["sessions"][i] EXCEPT !.status = "complete"]
<1>3. mem["sessions"][i] \in SessionRows
  BY <1>1, <1>2 DEF IsTable
<1>4. x \in SessionRows /\ x.status = "complete" /\ c \in Chargers
  BY <1>3 DEF SessionRows
<1>5. mem' = [u \in Tables |-> CASE u = "sessions" -> [mem["sessions"] EXCEPT ![i] = x]
                                 [] u = "connectors" -> Saved(mem["connectors"], c, Connector(None))
                                 [] OTHER -> mem[u]]
  <2>1. mem' = [[mem EXCEPT !["sessions"] = [@ EXCEPT ![i] = x]]
                  EXCEPT !["connectors"] = Saved(@, c, Connector(None))]
    BY <1>2
  <2> HIDE DEF x, c
  <2> QED
    BY <1>1, <2>1 DEF Tables
<1> HIDE DEF x, c
<1>6. /\ mem' = [u \in Tables |-> mem'[u]]
      /\ mem'["sessions"] = [mem["sessions"] EXCEPT ![i] = x]
      /\ mem'["connectors"] = Saved(mem["connectors"], c, Connector(None))
      /\ \A u \in Tables \ {"sessions", "connectors"} : mem'[u] = mem[u]
  BY <1>5 DEF Tables
<1>7. /\ DOMAIN mem'["sessions"] = DOMAIN mem["sessions"]
      /\ \A j \in DOMAIN mem["sessions"] : mem'["sessions"][j] = IF j = i THEN x ELSE mem["sessions"][j]
  BY <1>1, <1>2, <1>6 DEF IsTable
<1>8. IsTable(mem'["sessions"], SessionIds, SessionRows)
  BY <1>1, <1>4, <1>6, <1>7 DEF IsTable
<1>9. /\ IsTable(mem'["connectors"], Chargers, ConnectorRows)
      /\ DOMAIN mem["connectors"] \subseteq DOMAIN mem'["connectors"]
  <2>1. Connector(None) \in ConnectorRows
    BY DEF Connector, ConnectorRows
  <2>2. IsTable(Saved(mem["connectors"], c, Connector(None)), Chargers, ConnectorRows)
    BY <1>1, <1>4, <2>1, SavedTable
  <2>3. DOMAIN mem["connectors"] \subseteq DOMAIN Saved(mem["connectors"], c, Connector(None))
    BY DEF Saved
  <2> QED
    BY <1>6, <2>2, <2>3
<1>10. \A j \in DOMAIN mem'["sessions"] : mem'["sessions"][j].status = "pending" =>
         j \in DOMAIN mem["sessions"] /\ mem'["sessions"][j] = mem["sessions"][j]
  BY <1>4, <1>7
<1>11. \A j \in told \cap Open(mem'["sessions"]) :
         j \in Open(mem["sessions"]) /\ mem'["sessions"][j].charger = mem["sessions"][j].charger
  BY <1>4, <1>7 DEF Open, open
<1>12. issued \subseteq issued' /\ issued' \subseteq SessionIds
  BY <1>2 DEF KnownInv, KnownTypeOK
<1> QED
  BY <1>2, <1>6, <1>7, <1>8, <1>9, <1>10, <1>11, <1>12, BayStepKeeps

\* Every step of the registry keeps the invariant, and so does a step of anybody else.
LEMMA NextKnownInv == KnownInv /\ [RegistryNext]_knownVars => KnownInv'
<1> SUFFICES ASSUME KnownInv, [RegistryNext]_knownVars PROVE KnownInv'
  OBVIOUS
<1>1. CASE UNCHANGED knownVars
  <2>1. UNCHANGED <<up, files, mem, db, blind, sockets, issued, told, starts, losses, moves>>
    BY <1>1 DEF knownVars
  <2>2. KnownTypeOK' /\ ConnectedIsKnown'
    BY <2>1 DEF KnownInv, KnownTypeOK, ConnectedIsKnown
  <2>3. OnlineIsConnected' /\ RecordSurvives' /\ NoneLeftOpen'
    BY <2>1 DEF KnownInv, Remembered, OnlineIsConnected, RecordSurvives, NoneLeftOpen
  <2>4. OneWaiting'
    BY <2>1 DEF KnownInv, Remembered, OneWaiting
  <2>5. ToldIsRun'
    BY <2>1 DEF KnownInv, Remembered, ToldIsRun, Run
  <2> QED
    BY <2>2, <2>3, <2>4, <2>5 DEF KnownInv, Remembered
<1>2. CASE Hydrates \/ Flush \/ Dies
  BY <1>2, HydratingKeeps, FlushingKeeps, DyingKeeps
<1>3. CASE \E c \in Chargers : Connects(c) \/ Leaves(c) \/ ReportsStatus(c)
  BY <1>3, ConnectingKeeps, LeavingKeeps, ReportingKeeps
<1>4. CASE \E c \in Chargers, i \in SessionIds : Starts(c, i)
  BY <1>4, StartingKeeps
<1>5. CASE \E i \in SessionIds : Stops(i)
  BY <1>5, StoppingKeeps
<1>6. CASE \E d \in Drivers : PatchesMe(d) \/ \E v \in Cars : AddsCar(d, v)
  BY <1>6, PatchingKeeps, AddingKeeps
<1>7. CASE \E d \in Drivers, c \in Chargers, i \in SessionIds : Declares(d, c, i)
  BY <1>7, DeclaringKeeps
<1> QED
  BY <1>1, <1>2, <1>3, <1>4, <1>5, <1>6, <1>7 DEF RegistryNext

\* What memory and Postgres hold is of its kind, what is connected has a row, and whoever is known
\* stays known, at every moment of any number of processes one after the other.
THEOREM KnownInvariant == RegistrySpec => []KnownInv
BY NothingKnown, NextKnownInv, PTL DEF RegistrySpec

\* Whatever files a process is started with, whichever queries fail and whenever it dies: the chargers
\* of its files are shown online exactly while they are connected, a restart loses nobody it could
\* read and leaves no session open, no driver waits at two bays and no bay for two drivers, and a
\* session whose driver was told of it is at a site with a loop (hydrate, seedFromScenario, routes).
THEOREM WhoeverIsKnownStaysKnown == RegistrySpec => []Remembered
<1>1. KnownInv => Remembered
  BY DEF KnownInv
<1> QED
  BY <1>1, KnownInvariant, PTL
=============================================================================
