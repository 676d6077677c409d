------------------------------- MODULE Mirror -------------------------------
(***************************************************************************)
(* The repositories in memory and their mirror in Postgres: every write to *)
(* memory is queued as a full row, a drain writes what is queued pass by   *)
(* pass, parents before children, and a restart reads back what the mirror *)
(* has written.  Two tables stand for the thirteen: sessions, and          *)
(* connectors, whose rows may refer to a session.                          *)
(***************************************************************************)
EXTENDS Naturals, Sequences, FiniteSets, SequencesExt, FiniteSetsExt

CONSTANTS
  Sessions, Bays, NoSession,
  MaxQueue,       \* MirrorOptions.maxQueue
  MaxBatch,       \* MirrorOptions.maxBatch
  MaxDeferrals,   \* MAX_DEFERRALS
  MaxWrites,      \* bound on the writes to memory
  MaxFaults       \* bound on failures of the database and on crashes

MirrorAssumption ==
  /\ {MaxQueue, MaxBatch} \subseteq Nat \ {0}
  /\ {MaxDeferrals, MaxWrites, MaxFaults} \subseteq Nat
  /\ IsFiniteSet(Sessions) /\ IsFiniteSet(Bays)
  /\ Sessions \cap Bays = {} /\ NoSession \notin Sessions \cup Bays

VARIABLES
  mem,        \* MemorySessionRepo, MemoryConnectorRepo: key -> row
  counter,    \* transactionCounter
  tables,     \* rows queued for the next pass: key -> row
  work,       \* the batches of the running pass that are not written yet
  retries,    \* batches that wait for a parent, for the next pass
  draining,   \* running /= null
  timer,      \* the flush timer is set
  stop,       \* "no", "flushing" or "stopped"
  lost,       \* failed > 0 or dropped > 0
  up,         \* the process runs; FALSE between a crash and hydrate()
  blind,      \* the last hydrate() could not read the highest transaction id
  db,         \* Postgres: key -> row
  writes,     \* number of the last write to memory
  faults      \* failures so far

queueVars == <<tables, work, retries, draining, timer, stop, lost>>
vars == <<mem, counter, tables, work, retries, draining, timer, stop, lost,
          up, blind, db, writes, faults>>

Keys == Sessions \cup Bays

\* A row is a snapshot of the whole object; ver says which write it is of.  A
\* session's ref is its bay, a connector's the session plugged in there.
SessionRow(ver, status, tx, bay, valid) ==
  [ver |-> ver, status |-> status, tx |-> tx, ref |-> bay, valid |-> valid]
ConnectorRow(ver, s) ==
  [ver |-> ver, status |-> IF s = NoSession THEN "Available" ELSE "Charging",
   tx |-> 0, ref |-> s, valid |-> TRUE]

Empty == [k \in {} |-> 0]
Only(rows, table) == [k \in DOMAIN rows \cap table |-> rows[k]]
Over(new, old) ==
  [k \in DOMAIN new \cup DOMAIN old |-> IF k \in DOMAIN new THEN new[k] ELSE old[k]]

Change(key, row) == [key |-> key, row |-> row]
Put(rows, change) == Over([k \in {change.key} |-> change.row], rows)

-----------------------------------------------------------------------------
(* What Postgres makes of a batch: all of it or nothing.                    *)

Upserted(rows) == Over(rows, db)

\* connectors.current_session_id references sessions.
MissesParent(rows) ==
  \E k \in DOMAIN rows \cap Bays : rows[k].ref \notin DOMAIN db \cup {NoSession}

\* The checks of the sessions table, and its unique transaction_id.
ViolatesCheck(rows) ==
  \E k \in DOMAIN rows \cap Sessions :
    \/ ~rows[k].valid
    \/ \E other \in (DOMAIN Upserted(rows) \cap Sessions) \ {k} :
         rows[k].tx = Upserted(rows)[other].tx

-----------------------------------------------------------------------------
(* enqueue                                                                  *)

\* Slip: a row is shed and not counted.
EnqueueShedQuietly(queue, change) ==
  IF Cardinality(DOMAIN queue.tables) >= MaxQueue
  THEN queue
  ELSE [queue EXCEPT !.tables = Put(@, change)]

\* pending, the number of keys queued since the last snapshot, is compared
\* with the limit whether or not the key is queued already.
Enqueue(queue, change) ==
  IF Cardinality(DOMAIN queue.tables) >= MaxQueue
  THEN [queue EXCEPT !.lost = TRUE]
  ELSE [queue EXCEPT !.tables = Put(@, change)]

\* The repositories save in memory first and mirror what memory returned.
Save(count, saved, queue) ==
  /\ up
  /\ writes + count <= MaxWrites
  /\ writes' = writes + count
  /\ mem' = saved
  /\ IF stop = "stopped"
     THEN UNCHANGED <<tables, lost, timer>>
     ELSE /\ tables' = queue.tables
          /\ lost' = queue.lost
          /\ timer' = (timer \/ ~draining)
  /\ UNCHANGED <<work, retries, draining, stop, up, blind, db>>

Queue == [tables |-> tables, lost |-> lost]
SaveOne(change) == Save(1, Put(mem, change), Enqueue(Queue, change))
SaveTwo(first, second) ==
  Save(2, Put(Put(mem, first), second), Enqueue(Enqueue(Queue, first), second))

ActiveAt(b) ==
  {s \in DOMAIN mem \cap Sessions : mem[s].status = "active" /\ mem[s].ref = b}

\* startTransaction and the upsert of the connector.  A row may be one that a
\* check of the schema refuses; that counts as a failure.
Start(s, b) ==
  /\ s \notin DOMAIN mem \cup DOMAIN db
  /\ ActiveAt(b) = {}
  /\ \E valid \in BOOLEAN :
       /\ SaveTwo(Change(s, SessionRow(writes + 1, "active", counter + 1, b, valid)),
                  Change(b, ConnectorRow(writes + 2, s)))
       /\ IF valid THEN UNCHANGED faults ELSE faults < MaxFaults /\ faults' = faults + 1
  /\ counter' = counter + 1

\* recordMeter: the register and the energy of the session move on.
Meter(s) ==
  /\ s \in DOMAIN mem /\ mem[s].status = "active"
  /\ SaveOne(Change(s, [mem[s] EXCEPT !.ver = writes + 1, !.valid = TRUE]))
  /\ UNCHANGED <<counter, faults>>

\* stopTransaction and the upsert of the connector.
Finish(s) ==
  /\ s \in DOMAIN mem /\ mem[s].status = "active"
  /\ SaveTwo(Change(s, [mem[s] EXCEPT !.ver = writes + 1, !.status = "complete"]),
             Change(mem[s].ref, ConnectorRow(writes + 2, NoSession)))
  /\ UNCHANGED <<counter, faults>>

-----------------------------------------------------------------------------
(* drain and run                                                            *)

Batch(rows, deferrals) == [rows |-> rows, deferrals |-> deferrals]

\* One table of the snapshot, in batches of at most MaxBatch rows.
Batches(rows) ==
  LET keys == SetToSeq(DOMAIN rows)
      Part(i) == {keys[j] : j \in {j \in DOMAIN keys : (j - 1) \div MaxBatch = i - 1}}
  IN [i \in 1..((Len(keys) + MaxBatch - 1) \div MaxBatch) |->
        Batch(Only(rows, Part(i)), 0)]

\* TABLE_ORDER; the deferred batches of a table go before its new ones.  Only
\* connectors are ever deferred, since sessions have no parent here.
Pass(rows, deferred) ==
  Batches(Only(rows, Sessions)) \o deferred \o Batches(Only(rows, Bays))

\* run() goes on to the next pass while anything is queued or deferred.
TakeNext(left, deferred) ==
  IF left # <<>>
  THEN work' = left /\ retries' = deferred /\ UNCHANGED <<tables, draining>>
  ELSE /\ work' = Pass(tables, deferred)
       /\ tables' = Empty /\ retries' = <<>>
       /\ draining' = (work' # <<>>)

\* When there is nothing left the drain ends, and with it the flush of stop().
GoOn(left, deferred) ==
  /\ TakeNext(left, deferred)
  /\ stop' = IF stop = "flushing" /\ ~draining' THEN "stopped" ELSE stop

TimerFires ==
  /\ up /\ timer
  /\ timer' = FALSE
  /\ GoOn(<<>>, retries)
  /\ UNCHANGED <<mem, counter, lost, up, blind, db, writes, faults>>

\* store.close() at the end of the shutdown; it shares a drain that runs.
Stop ==
  /\ up /\ stop = "no"
  /\ timer' = FALSE
  /\ IF draining THEN UNCHANGED <<tables, work, retries, draining>> ELSE TakeNext(<<>>, retries)
  /\ stop' = IF draining' THEN "flushing" ELSE "stopped"
  /\ UNCHANGED <<mem, counter, lost, up, blind, db, writes, faults>>

(* write: the outcomes of the batch in flight, after its one retry.         *)

WriteLands ==
  /\ up /\ draining
  /\ LET batch == Head(work) IN
       /\ ~MissesParent(batch.rows) /\ ~ViolatesCheck(batch.rows)
       /\ db' = Upserted(batch.rows)
       /\ GoOn(Tail(work), retries)
  /\ UNCHANGED <<mem, counter, timer, lost, up, blind, writes, faults>>

\* Slip: the count of deferrals is not carried on.
DeferredAnew(batch) == Batch(batch.rows, batch.deferrals)

\* A missing parent defers the batch, MaxDeferrals times.
Deferred(batch) == Batch(batch.rows, batch.deferrals + 1)

WriteDeferred ==
  /\ up /\ draining
  /\ LET batch == Head(work) IN
       /\ MissesParent(batch.rows)
       /\ batch.deferrals < MaxDeferrals
       /\ GoOn(Tail(work), Append(retries, Deferred(batch)))
  /\ UNCHANGED <<mem, counter, timer, lost, up, blind, db, writes, faults>>

WriteRefused ==
  /\ up /\ draining
  /\ LET batch == Head(work) IN
       /\ \/ MissesParent(batch.rows) /\ batch.deferrals >= MaxDeferrals
          \/ ViolatesCheck(batch.rows)
       /\ lost' = TRUE
       /\ GoOn(Tail(work), retries)
  /\ UNCHANGED <<mem, counter, timer, up, blind, db, writes, faults>>

\* The connection fails twice.  The answers may be what was lost.
WriteFails ==
  /\ up /\ draining
  /\ faults < MaxFaults
  /\ faults' = faults + 1
  /\ LET batch == Head(work) IN
       \/ UNCHANGED db
       \/ ~MissesParent(batch.rows) /\ ~ViolatesCheck(batch.rows) /\ db' = Upserted(batch.rows)
  /\ lost' = TRUE
  /\ GoOn(Tail(work), retries)
  /\ UNCHANGED <<mem, counter, timer, up, blind, writes>>

-----------------------------------------------------------------------------
(* Crash and restart                                                        *)

\* The process dies; the batch in flight may still land.
Crash ==
  /\ up /\ faults < MaxFaults
  /\ faults' = faults + 1
  /\ up' = FALSE
  /\ \/ UNCHANGED db
     \/ /\ draining
        /\ ~MissesParent(Head(work).rows) /\ ~ViolatesCheck(Head(work).rows)
        /\ db' = Upserted(Head(work).rows)
  /\ mem' = Empty /\ counter' = 0
  /\ tables' = Empty /\ work' = <<>> /\ retries' = <<>>
  /\ draining' = FALSE /\ timer' = FALSE /\ stop' = "no" /\ lost' = FALSE
  /\ UNCHANGED <<blind, writes>>

\* Slip: the sequence starts again at its default.
HighestForgotten(rows) == 0

Highest(rows) ==
  LET ids == {rows[s].tx : s \in DOMAIN rows \cap Sessions} \cup {0}
  IN CHOOSE i \in ids : \A j \in ids : j <= i

\* No socket survived the last process.
Closed(rows) ==
  [k \in DOMAIN rows |->
     IF k \in Sessions /\ rows[k].status = "active"
     THEN [rows[k] EXCEPT !.status = "aborted"] ELSE rows[k]]

\* hydrate(): each of its queries may fail, is logged and leaves its default.
\* Connectors are not read back.
Hydrate ==
  /\ ~up
  /\ \E idsRead, closed, historyRead \in BOOLEAN :
       /\ faults' = faults + Cardinality({i \in 1..3 : ~<<idsRead, closed, historyRead>>[i]})
       /\ faults' <= MaxFaults
       /\ counter' = IF idsRead THEN Highest(db) ELSE 0
       /\ blind' = ~idsRead
       /\ db' = IF closed THEN Closed(db) ELSE db
       /\ mem' = IF historyRead THEN Only(db', Sessions) ELSE Empty
  /\ up' = TRUE
  /\ UNCHANGED <<queueVars, writes>>

-----------------------------------------------------------------------------
Init ==
  /\ mem = Empty /\ counter = 0 /\ db = Empty
  /\ tables = Empty /\ work = <<>> /\ retries = <<>>
  /\ draining = FALSE /\ timer = FALSE /\ stop = "no" /\ lost = FALSE
  /\ up = TRUE /\ blind = FALSE
  /\ writes = 0 /\ faults = 0

WriteAnswered == WriteLands \/ WriteDeferred \/ WriteRefused \/ WriteFails

Next ==
  \/ \E s \in Sessions, b \in Bays : Start(s, b)
  \/ \E s \in Sessions : Meter(s) \/ Finish(s)
  \/ TimerFires \/ Stop \/ Crash \/ Hydrate
  \/ WriteLands \/ WriteDeferred \/ WriteRefused \/ WriteFails

\* Timers fire, and a request to the database ends.
Fairness == WF_vars(TimerFires) /\ WF_vars(WriteAnswered)

Spec == Init /\ [][Next]_vars /\ Fairness

-----------------------------------------------------------------------------
SessionRows ==
  [ver : 1..MaxWrites, status : {"active", "complete", "aborted"}, tx : 1..MaxWrites,
   ref : Bays, valid : BOOLEAN]
ConnectorRows ==
  [ver : 1..MaxWrites, status : {"Available", "Charging"}, tx : {0},
   ref : Sessions \cup {NoSession}, valid : {TRUE}]
IsRows(f) ==
  /\ f \in [DOMAIN f -> SessionRows \cup ConnectorRows]
  /\ DOMAIN f \subseteq Keys
  /\ \A k \in DOMAIN f : f[k] \in IF k \in Sessions THEN SessionRows ELSE ConnectorRows

\* The type of every variable, and what the flags of the queue imply: the
\* timer is set only between drains and a drain has a batch in flight.
TypeOK ==
  /\ IsRows(mem) /\ IsRows(tables) /\ IsRows(db)
  /\ \A i \in DOMAIN work : IsRows(work[i].rows) /\ work[i].deferrals \in 0..MaxDeferrals
  /\ \A i \in DOMAIN retries : IsRows(retries[i].rows) /\ retries[i].deferrals \in 1..MaxDeferrals
  /\ {draining, timer, lost, up, blind} \subseteq BOOLEAN
  /\ draining = (work # <<>>)
  /\ timer => ~draining
  /\ tables # Empty => timer \/ draining
  /\ stop \in {"no", "flushing", "stopped"}
  /\ writes \in 0..MaxWrites /\ counter \in 0..writes /\ faults \in 0..MaxFaults

\* Everything the queue still holds, laid over the database in the order in
\* which it will be written.
Line == work \o retries
Holding(k) == {i \in DOMAIN Line : k \in DOMAIN Line[i].rows}
Eventually ==
  [k \in DOMAIN tables \cup DOMAIN db \cup UNION {DOMAIN Line[i].rows : i \in DOMAIN Line} |->
     IF k \in DOMAIN tables THEN tables[k]
     ELSE IF Holding(k) # {} THEN Line[Max(Holding(k))].rows[k]
     ELSE db[k]]

\* stats().complete: "Nothing has ever been lost, so Postgres holds the whole
\* record" (writer.ts).  As long as it says so, each object of memory is in
\* Postgres or on its way there, and no older state of it comes after.
CompleteMeansWhole ==
  up /\ ~lost /\ stop # "stopped" =>
    \A k \in DOMAIN mem : k \in DOMAIN Eventually /\ Eventually[k] = mem[k]

\* A restart continues above every id the record has seen (types.ts): unless
\* hydrate() could not read them, no two sessions have one transaction id.
StoredIdsAreUnique ==
  LET All == Only(Over(mem, Eventually), Sessions)
  IN ~blind => \A s, t \in DOMAIN All : All[s].tx = All[t].tx => s = t

\* As long as the mirror says it is complete, it is or will be, and a restart
\* continues above every transaction id on record.
MirrorIsTrue == CompleteMeansWhole /\ StoredIdsAreUnique

\* A drain ends, whatever rows are refused: no batch is deferred for ever.
\* Until it does, no other one starts and stop() does not return.
DrainEnds == []<>(~draining)

\* "the last write for a key wins" (writer.ts): Postgres never goes back to an
\* older state of an object.
LastWriteWins ==
  [][\A k \in DOMAIN db : k \in DOMAIN db' /\ db'[k].ver >= db[k].ver]_vars

=============================================================================
