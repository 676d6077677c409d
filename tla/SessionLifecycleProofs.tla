----------------------- MODULE SessionLifecycleProofs -----------------------
(***************************************************************************)
(* One session per bay, one session per transaction, and finished for      *)
(* good; a charging car is an active session, and no energy counts twice:  *)
(* for any drivers, bays and numbers of sessions, restarts, lost messages  *)
(* and repeated CALLs.  The first three rest on the server's state alone   *)
(* and assume nothing of what the chargers send; the other two relate it   *)
(* to what each charger does and to what is on its way from there.         *)
(***************************************************************************)
EXTENDS SessionLifecycle, FiniteSetTheorems, SequenceTheorems, TLAPS

\* The row of one session.
Fields == {"status", "driver", "bay", "source", "tx", "pluggedIn", "deadline", "start", "last"}

IsSession(r) ==
  /\ Fields \subseteq DOMAIN r
  /\ r.status \in Statuses
  /\ r.tx \in Nat
  /\ r.pluggedIn \in Nat

Shapes ==
  /\ now \in Nat
  /\ lastTx \in Nat
  /\ sessions = [s \in Ids |-> sessions[s]]
  /\ \A s \in Ids : IsSession(sessions[s])

\* Ids are given out in order, so the next one is free.
CreatedIsPrefix == \E n \in Nat : n <= MaxSessions /\ CreatedIds = 1..n

\* Every session is one of a bay.
OnABay == \A s \in CreatedIds : sessions[s].bay \in Bays

IInv == Shapes /\ CreatedIsPrefix /\ OnABay /\ OneOpenPerBay /\ TransactionsNameSessions

-----------------------------------------------------------------------------

\* The id of the next session is one that no session has.
LEMMA NextIdIsFree ==
  ASSUME IInv
  PROVE  /\ LastId \in Nat
         /\ CreatedIds = 1..LastId
         /\ LastId + 1 \notin CreatedIds
<1>1. PICK n \in Nat : n <= MaxSessions /\ CreatedIds = 1..n
  BY DEF IInv, CreatedIsPrefix
<1>2. Cardinality(1..n) = n
  BY FS_Interval
<1>3. LastId = n
  BY <1>1, <1>2 DEF LastId
<1> QED
  BY <1>1, <1>3

\* The query for declared sessions finds the one there is.
LEMMA FoundIsPending ==
  ASSUME IInv, NEW b, NEW d
  PROVE  \/ FindPending(b, d) = 0 /\ PendingOn(b) = {}
         \/ FindPending(b, d) \in Ids /\ PendingOn(b) = {FindPending(b, d)}
<1> DEFINE own == {s \in PendingOn(b) : sessions[s].driver = d}
           S == IF own # {} THEN own ELSE PendingOn(b)
<1>1. FindPending(b, d) = Newest(S)
  BY DEF FindPending
<1>2. CASE PendingOn(b) = {}
  BY <1>1, <1>2 DEF Newest
<1>3. CASE PendingOn(b) # {}
  <2>1. PICK x : x \in PendingOn(b)
    BY <1>3
  <2>2. PendingOn(b) = {x}
    BY <2>1 DEF IInv, OneOpenPerBay, PendingOn, IsOpen
  <2>3. S = {x}
    BY <2>2
  <2>4. x \in Ids
    BY <2>1 DEF PendingOn
  <2>5. Max({x}) = x
    BY <2>4, BoundsAssumption DEF Max, Ids
  <2>6. FindPending(b, d) = x
    BY <1>1, <2>3, <2>5 DEF Newest
  <2> QED
    BY <2>2, <2>4, <2>6
<1> QED
  BY <1>2, <1>3

\* Nobody has declared anything.
LEMMA InitIInv == Init => IInv
<1> SUFFICES ASSUME Init PROVE IInv
  OBVIOUS
<1>1. Shapes
  BY DEF Init, Shapes, IsSession, Fields, Nothing, Statuses
<1>2. CreatedIds = {}
  BY DEF Init, CreatedIds, Nothing
<1>3. CreatedIds = 1..0
  BY <1>2
<1>4. CreatedIsPrefix
  BY <1>3, BoundsAssumption DEF CreatedIsPrefix
<1>5. OneOpenPerBay /\ TransactionsNameSessions /\ OnABay
  BY <1>2 DEF Init, OnABay, OneOpenPerBay, IsOpen, Nothing, TransactionsNameSessions
<1> QED
  BY <1>1, <1>4, <1>5 DEF IInv

\* One more session: the ids stay in order.
LEMMA OneMore ==
  ASSUME IInv, NEW id \in Ids, id = LastId + 1, CreatedIds' = CreatedIds \cup {id}
  PROVE  CreatedIsPrefix'
<1>1. LastId \in Nat /\ CreatedIds = 1..LastId
  BY NextIdIsFree
<1>2. CreatedIds' = 1..(LastId + 1)
  BY <1>1
<1>3. LastId + 1 \in Nat /\ LastId + 1 <= MaxSessions
  BY <1>1, BoundsAssumption DEF Ids
<1> QED
  BY <1>2, <1>3, BoundsAssumption DEF CreatedIsPrefix

\* What a declared session looks like.
LEMMA DeclaredRow ==
  ASSUME IInv, NEW d, NEW b, NEW source, NEW deadline
  PROVE  LET new == Declared(d, b, source, deadline)
         IN  IsSession(new) /\ new.status = "pending" /\ new.tx = 0 /\ new.bay = b
<1> DEFINE new == Declared(d, b, source, deadline)
<1>1. Fields \subseteq DOMAIN Nothing /\ Nothing.tx = 0
  BY DEF Nothing, Fields
<1>2. now \in Nat /\ "pending" \in Statuses
  BY DEF IInv, Shapes, Statuses
<1>3. IsSession(new) /\ new.status = "pending" /\ new.tx = 0 /\ new.bay = b
  BY <1>1, <1>2 DEF Declared, IsSession, Fields
<1> QED
  BY <1>3

\* A declared session takes a free bay.
LEMMA DeclareKeeps ==
  ASSUME IInv, NEW d, NEW b \in Bays, NEW deadline, Declare(d, b, deadline)
  PROVE  IInv'
<1> DEFINE id == LastId + 1
           new == Declared(d, b, "app", deadline)
<1>1. /\ FreeForIntent(d, b)
      /\ sessions' = [sessions EXCEPT ![id] = new]
      /\ UNCHANGED <<now, lastTx>>
  BY DEF Declare
<1>2. IsSession(new) /\ new.status = "pending" /\ new.tx = 0 /\ new.bay = b
  BY DeclaredRow
<1>3. id \notin CreatedIds
  BY NextIdIsFree
<1> HIDE DEF id, new
<1>4. \A s \in Ids : sessions'[s] = IF s = id THEN new ELSE sessions[s]
  BY <1>1 DEF IInv, Shapes
<1>5. Shapes'
  BY <1>1, <1>2, <1>4 DEF IInv, Shapes
<1>6. CreatedIds' = CreatedIds \cup (Ids \cap {id})
  BY <1>2, <1>4 DEF CreatedIds
<1>7. CreatedIsPrefix'
  <2>1. CASE id \in Ids
    BY <1>6, <2>1, OneMore DEF id
  <2>2. CASE id \notin Ids
    BY <1>6, <2>2 DEF IInv, CreatedIsPrefix
  <2> QED
    BY <2>1, <2>2
<1>8. OneOpenPerBay'
  BY <1>1, <1>2, <1>4 DEF IInv, OneOpenPerBay, IsOpen, FreeForIntent
<1>9. TransactionsNameSessions'
  <2>1. \A s \in CreatedIds : s # id /\ sessions'[s] = sessions[s]
    BY <1>3, <1>4 DEF CreatedIds
  <2>2. \A s \in CreatedIds' : s \in CreatedIds \/ (s = id /\ sessions'[s] = new)
    BY <1>4, <1>6
  <2> QED
    BY <1>1, <1>2, <2>1, <2>2 DEF IInv, Shapes, TransactionsNameSessions
<1>10. OnABay'
  BY <1>2, <1>4, <1>6 DEF IInv, OnABay, CreatedIds
<1> QED
  BY <1>5, <1>7, <1>8, <1>9, <1>10 DEF IInv

\* A new deadline changes nothing the invariant speaks of.
LEMMA PatchKeeps ==
  ASSUME IInv, NEW s \in Ids, NEW deadline, Patch(s, deadline)
  PROVE  IInv'
<1>1. /\ sessions' = [sessions EXCEPT ![s].deadline = deadline]
      /\ UNCHANGED <<now, lastTx>>
  BY DEF Patch
<1>2. \A r \in Ids : /\ IsSession(sessions'[r])
                     /\ sessions'[r].status = sessions[r].status
                     /\ sessions'[r].bay = sessions[r].bay
                     /\ sessions'[r].tx = sessions[r].tx
  BY <1>1 DEF IInv, Shapes, IsSession, Fields
<1>3. Shapes'
  BY <1>1, <1>2 DEF IInv, Shapes
<1>4. CreatedIds' = CreatedIds
  BY <1>2 DEF CreatedIds
<1> QED
  BY <1>1, <1>2, <1>3, <1>4 DEF IInv, OnABay, CreatedIsPrefix, OneOpenPerBay, IsOpen,
     TransactionsNameSessions, CreatedIds

\* A transaction takes the session declared on its bay, or a new one, and what
\* was still active there is closed.
LEMMA HandleStartKeeps ==
  ASSUME IInv, NEW b \in Bays, HandleStart(b)
  PROVE  /\ IInv'
         /\ \A s \in Ids : IsFinished(s) => sessions'[s] = sessions[s]
<1> DEFINE m == Head(mail[b])
           found == FindPending(b, m.driver)
           id == IF found = 0 THEN LastId + 1 ELSE found
           base == IF found = 0 THEN Declared(m.driver, b, "rfid", now + DwellHours)
                   ELSE sessions[found]
           started == Started(base, NextTx, m.wh)
<1>1. /\ lastTx' = lastTx + 1 /\ now' = now
      /\ sessions' = [s \in Ids |-> IF s \in Stale(b) THEN Aborted(sessions[s])
                                    ELSE IF s = id THEN started
                                    ELSE sessions[s]]
  BY DEF HandleStart, NextTx
<1>2. \/ found = 0 /\ PendingOn(b) = {}
      \/ found \in Ids /\ PendingOn(b) = {found}
  BY FoundIsPending
<1>3. /\ IsSession(started) /\ started.status = "active" /\ started.bay = b
      /\ started.tx = lastTx + 1
  <2>1. base.bay = b /\ Fields \subseteq DOMAIN base
    <3>1. CASE found = 0
      BY <3>1, DeclaredRow DEF IsSession
    <3>2. CASE found # 0
      <4>1. found \in Ids /\ found \in PendingOn(b) /\ base = sessions[found]
        BY <1>2, <3>2
      <4> QED
        BY <4>1 DEF IInv, Shapes, IsSession, PendingOn
    <3> QED
      BY <3>1, <3>2
  <2> HIDE DEF base
  <2> QED
    BY <2>1 DEF Started, NextTx, IsSession, Fields, Statuses, IInv, Shapes
<1>4. /\ LastId \in Nat /\ LastId + 1 \notin CreatedIds /\ 0 \notin Ids
      /\ \A s \in Ids : s \in CreatedIds <=> sessions[s].status # "none"
  BY NextIdIsFree, BoundsAssumption DEF CreatedIds, Ids
<1>5. Stale(b) = ActiveOn(b)
  <2>1. \A r, s \in ActiveOn(b) : r = s
    BY DEF IInv, OneOpenPerBay, ActiveOn, IsOpen
  <2>2. \A s \in ActiveOn(b) : sessions[s].pluggedIn \in Nat
    BY DEF IInv, Shapes, IsSession, ActiveOn
  <2> QED
    BY <2>1, <2>2 DEF Stale
<1>6. \/ id = LastId + 1 /\ PendingOn(b) = {}
      \/ id \in PendingOn(b) /\ PendingOn(b) = {id}
  BY <1>2, <1>4
<1>7. \A s \in Ids : sessions[s].bay = b /\ IsOpen(s) => s \in ActiveOn(b) \/ s = id
  BY <1>6 DEF ActiveOn, PendingOn, IsOpen
<1>8. id \notin ActiveOn(b) /\ (id \in CreatedIds => sessions[id].status = "pending")
  BY <1>4, <1>6 DEF ActiveOn, PendingOn, CreatedIds
<1> HIDE DEF id, started
<1>9. \A s \in Ids :
        \/ s \in ActiveOn(b) /\ s # id /\ sessions'[s] = Aborted(sessions[s])
        \/ s = id /\ s \notin ActiveOn(b) /\ sessions'[s] = started
        \/ s # id /\ s \notin ActiveOn(b) /\ sessions'[s] = sessions[s]
  BY <1>1, <1>5, <1>8
<1>10. \A s \in ActiveOn(b) :
         /\ sessions[s].status = "active" /\ Aborted(sessions[s]).status = "aborted"
         /\ Aborted(sessions[s]).tx = sessions[s].tx /\ IsSession(Aborted(sessions[s]))
  BY DEF IInv, Shapes, IsSession, Fields, Aborted, ActiveOn, Statuses
<1>11. Shapes'
  <2>1. \A s \in Ids : IsSession(sessions'[s])
    BY <1>3, <1>9, <1>10 DEF IInv, Shapes
  <2> QED
    BY <1>1, <2>1 DEF IInv, Shapes
<1>12. CreatedIds' = CreatedIds \cup (Ids \cap {id})
  BY <1>3, <1>9, <1>10 DEF CreatedIds
<1>13. CreatedIsPrefix'
  <2>1. CASE id = LastId + 1 /\ id \in Ids
    BY <1>12, <2>1, OneMore
  <2>2. CASE ~(id = LastId + 1 /\ id \in Ids)
    <3>1. id \notin Ids \/ id \in CreatedIds
      BY <1>4, <1>6, <2>2 DEF PendingOn, CreatedIds
    <3>2. CreatedIds' = CreatedIds
      BY <1>12, <3>1
    <3> QED
      BY <3>2 DEF IInv, CreatedIsPrefix
  <2> QED
    BY <2>1, <2>2
<1>14. OneOpenPerBay'
  <2>1. \A s \in Ids : IsOpen(s)' =>
          \/ s = id /\ sessions'[s].bay = b
          \/ s # id /\ sessions'[s] = sessions[s] /\ IsOpen(s) /\ sessions[s].bay # b
    BY <1>3, <1>7, <1>9, <1>10 DEF IsOpen
  <2> QED
    BY <2>1 DEF IInv, OneOpenPerBay
<1>15. TransactionsNameSessions'
  <2>1. \A s \in CreatedIds' :
          \/ s = id /\ sessions'[s] = started
          \/ /\ s \in CreatedIds /\ s # id
             /\ sessions'[s].tx = sessions[s].tx
             /\ sessions'[s].status = "pending" <=> sessions[s].status = "pending"
    BY <1>9, <1>10, <1>12 DEF CreatedIds
  <2>2. \A s \in CreatedIds : sessions[s].tx <= lastTx /\ sessions[s].tx \in Nat
    BY DEF IInv, TransactionsNameSessions, Shapes, IsSession, CreatedIds
  <2>3. ASSUME NEW r \in CreatedIds', NEW s \in CreatedIds',
               sessions'[r].tx = sessions'[s].tx, sessions'[r].tx # 0
        PROVE  r = s
    <3>1. lastTx + 1 > lastTx /\ \A q \in CreatedIds : sessions[q].tx # lastTx + 1
      BY <2>2 DEF IInv, Shapes
    <3>2. r = id \/ (r \in CreatedIds /\ sessions'[r].tx = sessions[r].tx)
      BY <2>1
    <3>3. s = id \/ (s \in CreatedIds /\ sessions'[s].tx = sessions[s].tx)
      BY <2>1
    <3>4. r = id => sessions'[r].tx = lastTx + 1
      BY <1>3, <2>1
    <3>5. s = id => sessions'[s].tx = lastTx + 1
      BY <1>3, <2>1
    <3> QED
      BY <2>3, <3>1, <3>2, <3>3, <3>4, <3>5 DEF IInv, TransactionsNameSessions
  <2>4. \A s \in CreatedIds' : sessions'[s].tx # 0 <=> sessions'[s].status # "pending"
    BY <1>3, <2>1, <2>2 DEF IInv, Shapes, TransactionsNameSessions
  <2>5. \A s \in CreatedIds' : sessions'[s].tx <= lastTx'
    BY <1>1, <1>3, <2>1, <2>2 DEF IInv, Shapes
  <2> QED
    BY <2>3, <2>4, <2>5 DEF TransactionsNameSessions
<1>16. \A s \in Ids : IsFinished(s) => sessions'[s] = sessions[s]
  BY <1>4, <1>8, <1>9 DEF IsFinished, ActiveOn
<1>17. OnABay'
  <2>1. \A s \in Ids : Aborted(sessions[s]).bay = sessions[s].bay
    BY DEF Aborted, IInv, Shapes, IsSession, Fields
  <2> QED
    BY <1>3, <1>9, <1>12, <2>1 DEF IInv, OnABay, CreatedIds
<1> QED
  BY <1>11, <1>13, <1>14, <1>15, <1>16, <1>17 DEF IInv

\* A reading and an end change rows in place: no session appears, none opens
\* again, and transactions and bays stay what they are.
LEMMA InPlaceKeeps ==
  ASSUME IInv, UNCHANGED <<now, lastTx>>,
         sessions' = [s \in Ids |-> sessions'[s]],
         \A s \in Ids : /\ IsSession(sessions'[s])
                        /\ sessions'[s].tx = sessions[s].tx
                        /\ sessions'[s].bay = sessions[s].bay
                        /\ \/ sessions'[s].status = sessions[s].status
                           \/ sessions[s].status \notin {"none", "pending"} /\ sessions'[s].status = "complete"
  PROVE  IInv'
<1>1. Shapes'
  BY DEF IInv, Shapes
<1>2. CreatedIds' = CreatedIds
  BY DEF CreatedIds
<1>3. CreatedIsPrefix'
  BY <1>2 DEF IInv, CreatedIsPrefix
<1>4. \A s \in Ids : IsOpen(s)' => IsOpen(s)
  BY DEF IsOpen
<1>5. OneOpenPerBay'
  BY <1>4 DEF IInv, OneOpenPerBay
<1>6. TransactionsNameSessions'
  BY <1>2 DEF IInv, TransactionsNameSessions, CreatedIds
<1>7. OnABay'
  BY <1>2 DEF IInv, OnABay, CreatedIds
<1> QED
  BY <1>1, <1>3, <1>5, <1>6, <1>7 DEF IInv

LEMMA HandleMeterKeeps ==
  ASSUME IInv, NEW b \in Bays, HandleMeter(b)
  PROVE  /\ IInv'
         /\ \A s \in Ids : IsFinished(s) => sessions'[s] = sessions[s]
<1> DEFINE m == Head(mail[b])
           heard == {s \in WithTx(m.tx) : sessions[s].status = "active" /\ m.wh + 1 >= sessions[s].last}
<1>1. /\ sessions' = [s \in Ids |-> IF s \in heard THEN [sessions[s] EXCEPT !.last = m.wh]
                                    ELSE sessions[s]]
      /\ UNCHANGED <<now, lastTx>>
  BY DEF HandleMeter
<1>2. \A s \in heard : sessions[s].status = "active"
  OBVIOUS
<1> HIDE DEF heard
<1>3. \A s \in Ids : /\ IsSession(sessions'[s])
                     /\ sessions'[s].tx = sessions[s].tx
                     /\ sessions'[s].bay = sessions[s].bay
                     /\ sessions'[s].status = sessions[s].status
  BY <1>1 DEF IInv, Shapes, IsSession, Fields
<1>4. \A s \in Ids : IsFinished(s) => sessions'[s] = sessions[s]
  BY <1>1, <1>2 DEF IsFinished
<1>5. sessions' = [s \in Ids |-> sessions'[s]]
  BY <1>1
<1> QED
  BY <1>1, <1>3, <1>4, <1>5, InPlaceKeeps

\* What FinishedStaysFinished allows a StopTransaction of bay b.
StoppedBy(s, b) ==
  /\ HandleStop(b)
  /\ Head(mail[b]).tx = sessions[s].tx
  /\ sessions'[s] = [sessions[s] EXCEPT !.status = "complete", !.last = Head(mail[b]).wh]

LEMMA HandleStopKeeps ==
  ASSUME IInv, NEW b \in Bays, HandleStop(b)
  PROVE  /\ IInv'
         /\ \A s \in Ids : sessions'[s] = sessions[s] \/ StoppedBy(s, b)
<1> DEFINE m == Head(mail[b])
           ended == WithTx(m.tx)
<1>1. /\ sessions' = [s \in Ids |-> IF s \in ended
                                    THEN [sessions[s] EXCEPT !.status = "complete", !.last = m.wh]
                                    ELSE sessions[s]]
      /\ UNCHANGED <<now, lastTx>>
  BY DEF HandleStop
<1>2. \A s \in Ids : sessions'[s] = sessions[s] \/ StoppedBy(s, b)
  BY <1>1 DEF WithTx, StoppedBy
<1>3. \A s \in ended : sessions[s].status \notin {"none", "pending"}
  BY DEF WithTx, CreatedIds, IInv, TransactionsNameSessions
<1> HIDE DEF ended
<1>4. \A s \in Ids : /\ IsSession(sessions'[s])
                     /\ sessions'[s].tx = sessions[s].tx
                     /\ sessions'[s].bay = sessions[s].bay
                     /\ \/ sessions'[s].status = sessions[s].status
                        \/ s \in ended /\ sessions'[s].status = "complete"
  BY <1>1 DEF IInv, Shapes, IsSession, Fields, Statuses
<1>5. \A s \in Ids : IsFinished(s) => IsFinished(s)'
  BY <1>4 DEF IsFinished
<1>6. sessions' = [s \in Ids |-> sessions'[s]]
  BY <1>1
<1> QED
  BY <1>1, <1>3, <1>4, <1>5, <1>6, <1>2, InPlaceKeeps

\* What happens at the chargers does not touch the server.
LEMMA ChargersKeep ==
  ASSUME IInv,
         \/ \E s \in Ids : RemoteStop(s)
         \/ \E b \in Bays : TakeAnswer(b) \/ Meter(b) \/ Unplug(b) \/ Repeat(b) \/ Restart(b)
         \/ \E b \in Bays, d \in Drivers : PlugIn(b, d)
         \/ Tick
         \/ UNCHANGED vars
  PROVE  IInv' /\ UNCHANGED sessions
<1>1. UNCHANGED <<sessions, lastTx>>
  BY DEF RemoteStop, TakeAnswer, Meter, Unplug, Repeat, Restart, PlugIn, Tick, vars, serverVars
<1>2. now' = now \/ now' = now + 1
  BY DEF RemoteStop, TakeAnswer, Meter, Unplug, Repeat, Restart, PlugIn, Tick, vars, serverVars
<1>3. now' \in Nat
  BY <1>2 DEF IInv, Shapes
<1> QED
  BY <1>1, <1>3 DEF IInv, Shapes, OnABay, CreatedIsPrefix, CreatedIds, OneOpenPerBay, IsOpen, TransactionsNameSessions

\* One step of the whole system: it keeps the invariant, and of a finished
\* session it changes no more than a StopTransaction may.
LEMMA NextStep ==
  ASSUME IInv, [Next]_vars
  PROVE  /\ IInv'
         /\ \A s \in Ids : IsFinished(s) =>
              \/ sessions'[s] = sessions[s]
              \/ \E b \in Bays : StoppedBy(s, b)
<1>1. ASSUME NEW d \in Drivers, NEW b \in Bays, NEW t, Declare(d, b, t)
      PROVE  IInv' /\ \A s \in Ids : IsFinished(s) => sessions'[s] = sessions[s]
  <2>1. IInv'
    BY <1>1, DeclareKeeps
  <2>2. \A s \in Ids : IsFinished(s) => s # LastId + 1
    BY NextIdIsFree DEF IsFinished, CreatedIds
  <2> QED
    BY <1>1, <2>1, <2>2 DEF Declare, IInv, Shapes
<1>2. ASSUME NEW s \in Ids, NEW t, Patch(s, t)
      PROVE  IInv' /\ \A r \in Ids : IsFinished(r) => sessions'[r] = sessions[r]
  <2>1. IInv'
    BY <1>2, PatchKeeps
  <2>2. ~IsFinished(s)
    BY <1>2 DEF Patch, IsOpen, IsFinished
  <2> QED
    BY <1>2, <2>1, <2>2 DEF Patch, IInv, Shapes
<1>3. ASSUME NEW b \in Bays, Handle(b)
      PROVE  /\ IInv'
             /\ \A s \in Ids : IsFinished(s) => sessions'[s] = sessions[s] \/ StoppedBy(s, b)
  <2>1. CASE HandleStart(b)
    BY <2>1, HandleStartKeeps
  <2>2. CASE HandleMeter(b)
    BY <2>2, HandleMeterKeeps
  <2>3. CASE HandleStop(b)
    BY <2>3, HandleStopKeeps
  <2> QED
    BY <1>3, <2>1, <2>2, <2>3 DEF Handle
<1>4. CASE \/ \E s \in Ids : RemoteStop(s)
           \/ \E b \in Bays : TakeAnswer(b) \/ Meter(b) \/ Unplug(b) \/ Repeat(b) \/ Restart(b)
           \/ \E b \in Bays, d \in Drivers : PlugIn(b, d)
           \/ Tick
           \/ UNCHANGED vars
  BY <1>4, ChargersKeep DEF IsFinished
<1>5. CASE \E d \in Drivers, b \in Bays, t \in 1..(MaxNow + DwellHours) : Declare(d, b, t)
  BY <1>1, <1>5 DEF IsFinished
<1>6. CASE \E s \in Ids, t \in 1..(MaxNow + DwellHours) : Patch(s, t)
  BY <1>2, <1>6 DEF IsFinished
<1>7. CASE \E b \in Bays : Handle(b)
  BY <1>3, <1>7
<1> QED
  BY <1>4, <1>5, <1>6, <1>7 DEF Next

-----------------------------------------------------------------------------

\* The invariant holds in every reachable state.
THEOREM InductiveInvariant == Spec => []IInv
<1>1. IInv /\ [Next]_vars => IInv'
  BY NextStep
<1> QED
  BY <1>1, InitIInv, PTL DEF Spec

\* A bay is never held by two sessions.
THEOREM BaysAreHeldOnce == Spec => []OneOpenPerBay
<1>1. IInv => OneOpenPerBay
  BY DEF IInv
<1> QED
  BY <1>1, InductiveInvariant, PTL

\* A transaction id is the name of one session for good.
THEOREM TransactionIdsAreNames == Spec => []TransactionsNameSessions
<1>1. IInv => TransactionsNameSessions
  BY DEF IInv
<1> QED
  BY <1>1, InductiveInvariant, PTL

\* A session that is finished is never open again, and nothing about it changes
\* but by a StopTransaction of its own transaction.
THEOREM FinishedForGood == Spec => FinishedStaysFinished
<1>1. IInv /\ [Next]_vars =>
        [\A s \in Ids : IsFinished(s) =>
           \/ sessions'[s] = sessions[s]
           \/ \E b \in Bays :
                /\ HandleStop(b)
                /\ Head(mail[b]).tx = sessions[s].tx
                /\ sessions'[s] = [sessions[s] EXCEPT !.status = "complete",
                                                      !.last = Head(mail[b]).wh]]_vars
  BY NextStep DEF StoppedBy
<1> QED
  BY <1>1, InductiveInvariant, PTL DEF Spec, FinishedStaysFinished

-----------------------------------------------------------------------------
(* The chargers.                                                            *)

Messages == [kind : {"start", "meter", "stop"}, driver : Drivers, tx : Nat, wh : Nat]
Rows == [status : Statuses, driver : Drivers \cup {"nobody"}, bay : Bays \cup {"nowhere"},
         source : {"none", "app", "rfid"}, tx : Nat, pluggedIn : Nat, deadline : Nat,
         start : Nat, last : Nat]
ChargerRows == [mode : {"idle", "starting", "charging", "stopping"},
                driver : Drivers \cup {"nobody"}, tx : Nat, answer : Nat]

\* A charger that is not idle has a driver.
Plugged == \A b \in Bays : cp[b].mode # "idle" => cp[b].driver \in Drivers

\* The bay's connector row points at the active session of transaction t.
Runs(b, t) == \E s \in ActiveOn(b) : sessions[s].tx = t /\ link[b] = s

\* Transaction t is the last that was started on the bay.
NewestOn(b, t) ==
  /\ t # 0
  /\ \E s \in CreatedIds : sessions[s].bay = b /\ sessions[s].tx = t
  /\ \A s \in CreatedIds : sessions[s].bay = b => sessions[s].tx <= t

NoStart(q) == \A i \in DOMAIN q : q[i].kind # "start"
OnlyMeter(q) == \A i \in DOMAIN q : q[i].kind = "meter"

\* What a charger believes is so, or will be when its mail has been handled.
BelievesRightly(b) ==
  /\ cp[b].mode \in {"charging", "stopping"} => NewestOn(b, cp[b].tx) /\ NoStart(mail[b])
  /\ cp[b].mode = "charging" => Runs(b, cp[b].tx) /\ OnlyMeter(mail[b])
  /\ cp[b].mode = "starting" =>
       \/ /\ cp[b].answer = 0
          /\ mail[b] # <<>> /\ mail[b][Len(mail[b])].kind = "start"
       \/ /\ mail[b] = <<>>
          /\ NewestOn(b, cp[b].answer) /\ Runs(b, cp[b].answer)

\* The mail of a bay, up to where its meter stands at wh: nothing of a
\* transaction comes after the next start, and the register never falls.
InOrder(q, wh) ==
  /\ \A i, j \in DOMAIN q : i < j /\ q[i].kind = "start" => q[j].kind = "start"
  /\ \A i, j \in DOMAIN q : i < j => q[i].wh <= q[j].wh
  /\ \A i \in DOMAIN q : q[i].wh <= wh

AboutTheNewest(b) ==
  \A i \in DOMAIN mail[b] : mail[b][i].kind # "start" => NewestOn(b, mail[b][i].tx)

\* No session of the bay has counted beyond what is still in the mail.
NotAhead(b) ==
  \A s \in CreatedIds : sessions[s].bay = b =>
    /\ sessions[s].start <= sessions[s].last
    /\ sessions[s].last <= register[b]
    /\ \A i \in DOMAIN mail[b] : sessions[s].last <= mail[b][i].wh

\* A session begins to count where the one before has ended.
OneAfterAnother(b) ==
  \A r, s \in CreatedIds :
    /\ sessions[r].bay = b /\ sessions[s].bay = b
    /\ sessions[r].tx # 0 /\ sessions[r].tx < sessions[s].tx
    => sessions[r].last <= sessions[s].start

NothingYet(b) ==
  \A s \in CreatedIds : sessions[s].bay = b /\ sessions[s].tx = 0 => sessions[s].last = 0

BayOk(b) ==
  /\ BelievesRightly(b) /\ InOrder(mail[b], register[b]) /\ AboutTheNewest(b)
  /\ NotAhead(b) /\ OneAfterAnother(b) /\ NothingYet(b)

Inv == TypeOK /\ Plugged /\ IInv /\ \A b \in Bays : BayOk(b)

\* Type correctness of the mail when its first message is handled and when one
\* more is sent.
LEMMA FirstHandled ==
  ASSUME NEW q \in Seq(Messages), q # <<>>
  PROVE  /\ Head(q) = q[1] /\ q[1] \in Messages /\ 1 \in DOMAIN q
         /\ Tail(q) \in Seq(Messages)
         /\ DOMAIN Tail(q) = 1..(Len(q) - 1) /\ DOMAIN q = 1..Len(q) /\ Len(q) \in Nat \ {0}
         /\ \A i \in DOMAIN Tail(q) : i + 1 \in DOMAIN q /\ Tail(q)[i] = q[i + 1]
<1>1. Len(q) \in Nat /\ DOMAIN q = 1..Len(q) /\ Len(q) # 0
  BY LenProperties, EmptySeq
<1>2. Tail(q) \in Seq(Messages) /\ Len(Tail(q)) = Len(q) - 1
      /\ \A i \in 1..Len(Tail(q)) : Tail(q)[i] = q[i + 1]
  BY HeadTailProperties
<1>3. DOMAIN Tail(q) = 1..(Len(q) - 1)
  BY <1>1, <1>2, LenProperties
<1> QED
  BY <1>1, <1>2, <1>3, ElementOfSeq

LEMMA OneMoreSent ==
  ASSUME NEW q \in Seq(Messages), NEW m \in Messages
  PROVE  /\ Append(q, m) \in Seq(Messages)
         /\ Len(q) \in Nat /\ DOMAIN q = 1..Len(q) /\ DOMAIN Append(q, m) = 1..(Len(q) + 1)
         /\ Len(Append(q, m)) = Len(q) + 1
         /\ \A i \in DOMAIN q : Append(q, m)[i] = q[i]
         /\ Append(q, m)[Len(q) + 1] = m
         /\ q \o <<m>> = Append(q, m) /\ <<>> \o <<m>> = Append(<<>>, m)
         /\ Append(q, m) # <<>>
  OBVIOUS

\* The types with names for the records.
LEMMA Typed ==
  TypeOK <=> /\ now \in 0..MaxNow /\ lastTx \in Nat /\ faults \in 0..MaxFaults
             /\ sessions \in [Ids -> Rows]
             /\ link \in [Bays -> Ids \cup {0}]
             /\ cp \in [Bays -> ChargerRows]
             /\ register \in [Bays -> 0..MaxWh]
             /\ mail \in [Bays -> Seq(Messages)]
BY DEF TypeOK, Rows, ChargerRows, Messages

LEMMA TypedNext ==
  TypeOK' <=> /\ now' \in 0..MaxNow /\ lastTx' \in Nat /\ faults' \in 0..MaxFaults
              /\ sessions' \in [Ids -> Rows]
              /\ link' \in [Bays -> Ids \cup {0}]
              /\ cp' \in [Bays -> ChargerRows]
              /\ register' \in [Bays -> 0..MaxWh]
              /\ mail' \in [Bays -> Seq(Messages)]
BY DEF TypeOK, Rows, ChargerRows, Messages

LEMMA RowTypes ==
  ASSUME NEW r \in Rows
  PROVE  /\ \A x \in Statuses : [r EXCEPT !.status = x] \in Rows
         /\ \A x \in Drivers : [r EXCEPT !.driver = x] \in Rows
         /\ \A x \in Bays : [r EXCEPT !.bay = x] \in Rows
         /\ \A x \in {"app", "rfid"} : [r EXCEPT !.source = x] \in Rows
         /\ \A x \in Nat : /\ [r EXCEPT !.tx = x] \in Rows
                           /\ [r EXCEPT !.pluggedIn = x] \in Rows
                           /\ [r EXCEPT !.deadline = x] \in Rows
                           /\ [r EXCEPT !.start = x] \in Rows
                           /\ [r EXCEPT !.last = x] \in Rows
BY DEF Rows

LEMMA ChargerRowTypes ==
  ASSUME NEW r \in ChargerRows
  PROVE  /\ \A x \in {"idle", "starting", "charging", "stopping"} : [r EXCEPT !.mode = x] \in ChargerRows
         /\ \A x \in Drivers : [r EXCEPT !.driver = x] \in ChargerRows
         /\ \A x \in Nat : [r EXCEPT !.tx = x] \in ChargerRows /\ [r EXCEPT !.answer = x] \in ChargerRows
         /\ r.answer \in Nat /\ r.tx \in Nat
BY DEF ChargerRows

\* The first message of a bay is handled: what is left, and what the charger
\* is told.
LEMMA HandledTypes ==
  ASSUME TypeOK, Plugged, NEW b \in Bays, NEW kind, NEW mode, NEW value \in Nat,
         HasMail(b, kind), Answer(b, mode, value)
  PROVE  /\ mail' \in [Bays -> Seq(Messages)] /\ cp' \in [Bays -> ChargerRows]
         /\ UNCHANGED <<register, faults>> /\ Plugged'
         /\ Head(mail[b]) \in Messages
<1>1. mail[b] \in Seq(Messages) /\ mail[b] # <<>> /\ cp[b] \in ChargerRows
  BY Typed DEF HasMail
<1>2. Head(mail[b]) \in Messages /\ Tail(mail[b]) \in Seq(Messages)
  BY <1>1, FirstHandled
<1>3. mail' = [mail EXCEPT ![b] = Tail(mail[b])]
  BY DEF Answer
<1>4. mail' \in [Bays -> Seq(Messages)]
  BY <1>2, <1>3, Typed
<1>5. cp' \in [Bays -> ChargerRows] /\ Plugged'
  <2> DEFINE told == [cp[b] EXCEPT !.answer = value]
  <2>1. told \in ChargerRows
    BY <1>1, ChargerRowTypes
  <2>2. told.mode = cp[b].mode /\ told.driver = cp[b].driver
    BY <1>1 DEF ChargerRows
  <2>3. cp' = [cp EXCEPT ![b] = told] \/ cp' = cp
    BY DEF Answer
  <2> HIDE DEF told
  <2> QED
    BY <2>1, <2>2, <2>3, Typed DEF Plugged
<1> QED
  BY <1>2, <1>4, <1>5 DEF Answer

LEMMA DeclaredType ==
  ASSUME TypeOK, NEW d \in Drivers, NEW b \in Bays, NEW source \in {"app", "rfid"},
         NEW deadline \in Nat
  PROVE  /\ Declared(d, b, source, deadline) \in Rows
         /\ Declared(d, b, source, deadline).start = 0 /\ Declared(d, b, source, deadline).last = 0
<1> DEFINE r1 == [Nothing EXCEPT !.status = "pending"]
           r2 == [r1 EXCEPT !.driver = d]
           r3 == [r2 EXCEPT !.bay = b]
           r4 == [r3 EXCEPT !.source = source]
           r5 == [r4 EXCEPT !.pluggedIn = now]
           r6 == [r5 EXCEPT !.deadline = deadline]
<1>0. Nothing \in Rows /\ Nothing.start = 0 /\ Nothing.last = 0 /\ now \in Nat
  BY BoundsAssumption DEF Nothing, Rows, Statuses, TypeOK
<1>1. r1 \in Rows /\ r1.start = 0 /\ r1.last = 0
  BY <1>0, RowTypes DEF Rows, Statuses
<1> HIDE DEF r1
<1>2. r2 \in Rows /\ r2.start = 0 /\ r2.last = 0
  BY <1>1, RowTypes DEF Rows
<1> HIDE DEF r2
<1>3. r3 \in Rows /\ r3.start = 0 /\ r3.last = 0
  BY <1>2, RowTypes DEF Rows
<1> HIDE DEF r3
<1>4. r4 \in Rows /\ r4.start = 0 /\ r4.last = 0
  BY <1>3, RowTypes DEF Rows
<1> HIDE DEF r4
<1>5. r5 \in Rows /\ r5.start = 0 /\ r5.last = 0
  BY <1>0, <1>4, RowTypes DEF Rows
<1> HIDE DEF r5
<1>6. r6 \in Rows /\ r6.start = 0 /\ r6.last = 0
  BY <1>5, RowTypes DEF Rows
<1>7. Declared(d, b, source, deadline) = r6
  BY DEF Declared, r1, r2, r3, r4, r5
<1> QED
  BY <1>6, <1>7

LEMMA StartedType ==
  ASSUME TypeOK, NEW base \in Rows, NEW t \in Nat, NEW wh \in Nat
  PROVE  /\ Started(base, t, wh) \in Rows
         /\ Started(base, t, wh).start = wh /\ Started(base, t, wh).last = wh
<1> DEFINE r1 == [base EXCEPT !.status = "active"]
           r2 == [r1 EXCEPT !.tx = t]
           r3 == [r2 EXCEPT !.pluggedIn = now]
           r4 == [r3 EXCEPT !.start = wh]
           r5 == [r4 EXCEPT !.last = wh]
<1>0. now \in Nat
  BY BoundsAssumption DEF TypeOK
<1>1. r1 \in Rows
  BY RowTypes DEF Statuses
<1> HIDE DEF r1
<1>2. r2 \in Rows
  BY <1>1, RowTypes
<1> HIDE DEF r2
<1>3. r3 \in Rows
  BY <1>0, <1>2, RowTypes
<1> HIDE DEF r3
<1>4. r4 \in Rows /\ r4.start = wh
  BY <1>3, RowTypes DEF Rows
<1> HIDE DEF r4
<1>5. r5 \in Rows /\ r5.start = wh /\ r5.last = wh
  BY <1>4, RowTypes DEF Rows
<1>6. Started(base, t, wh) = r5
  BY DEF Started, r1, r2, r3, r4
<1> QED
  BY <1>5, <1>6

\* The handlers keep the types.
LEMMA HandleTypes ==
  ASSUME TypeOK, Plugged, IInv, NEW b \in Bays, Handle(b)
  PROVE  TypeOK' /\ Plugged'
<1> DEFINE m == Head(mail[b])
<1>0. ASSUME NEW kind, HasMail(b, kind)
      PROVE  m \in Messages /\ m.wh \in Nat /\ m.tx \in Nat /\ m.driver \in Drivers
  <2>1. mail[b] \in Seq(Messages) /\ mail[b] # <<>>
    BY <1>0, Typed DEF HasMail
  <2> QED
    BY <2>1, FirstHandled DEF Messages
<1>1. \A s \in Ids : sessions[s] \in Rows
  BY Typed
<1>2. CASE HandleStart(b)
  <2> DEFINE found == FindPending(b, m.driver)
             id == IF found = 0 THEN LastId + 1 ELSE found
             base == IF found = 0 THEN Declared(m.driver, b, "rfid", now + DwellHours)
                     ELSE sessions[found]
             started == Started(base, NextTx, m.wh)
  <2>1. /\ HasMail(b, "start") /\ id \in Ids /\ Answer(b, "starting", NextTx)
        /\ lastTx' = NextTx /\ now' = now
        /\ sessions' = [s \in Ids |-> IF s \in Stale(b) THEN Aborted(sessions[s])
                                      ELSE IF s = id THEN started
                                      ELSE sessions[s]]
        /\ link' = [link EXCEPT ![b] = id]
    BY <1>2 DEF HandleStart
  <2>2. lastTx \in Nat /\ NextTx \in Nat /\ now \in Nat /\ now + DwellHours \in Nat
    BY BoundsAssumption DEF TypeOK, NextTx
  <2>3. /\ mail' \in [Bays -> Seq(Messages)] /\ cp' \in [Bays -> ChargerRows]
        /\ UNCHANGED <<register, faults>> /\ Plugged'
    BY <2>1, <2>2, HandledTypes
  <2>4. found = 0 \/ found \in Ids
    BY FoundIsPending
  <2>5. base \in Rows
    BY <1>0, <1>1, <2>1, <2>2, <2>4, DeclaredType
  <2> HIDE DEF base, found, id
  <2>6. started \in Rows
    BY <1>0, <2>1, <2>2, <2>5, StartedType
  <2>7. \A s \in Ids : Aborted(sessions[s]) \in Rows
    BY <1>1, RowTypes DEF Aborted, Statuses
  <2> HIDE DEF started
  <2>8. sessions' \in [Ids -> Rows]
    BY <1>1, <2>1, <2>6, <2>7
  <2>9. link' \in [Bays -> Ids \cup {0}]
    BY <2>1, Typed
  <2> QED
    BY <2>1, <2>2, <2>3, <2>8, <2>9, Typed, TypedNext
<1>3. CASE HandleMeter(b)
  <2>1. HasMail(b, "meter") /\ Answer(b, "charging", 0) /\ UNCHANGED <<now, lastTx, link>>
    BY <1>3 DEF HandleMeter
  <2>2. /\ mail' \in [Bays -> Seq(Messages)] /\ cp' \in [Bays -> ChargerRows]
        /\ UNCHANGED <<register, faults>> /\ Plugged'
    BY <2>1, HandledTypes
  <2>3. \A s \in Ids : [sessions[s] EXCEPT !.last = m.wh] \in Rows
    BY <1>0, <1>1, <2>1, RowTypes
  <2>4. sessions' \in [Ids -> Rows]
    BY <1>1, <1>3, <2>3 DEF HandleMeter
  <2> QED
    BY <2>1, <2>2, <2>4, Typed, TypedNext
<1>4. CASE HandleStop(b)
  <2>1. HasMail(b, "stop") /\ Answer(b, "stopping", m.tx) /\ UNCHANGED <<now, lastTx>>
    BY <1>4 DEF HandleStop
  <2>2. /\ mail' \in [Bays -> Seq(Messages)] /\ cp' \in [Bays -> ChargerRows]
        /\ UNCHANGED <<register, faults>> /\ Plugged'
    BY <1>0, <2>1, HandledTypes
  <2>3. \A s \in Ids : [sessions[s] EXCEPT !.status = "complete", !.last = m.wh] \in Rows
    <3>1. \A s \in Ids : [sessions[s] EXCEPT !.status = "complete"] \in Rows
      BY <1>1, RowTypes DEF Statuses
    <3>2. \A r \in Rows : [r EXCEPT !.last = m.wh] \in Rows
      BY <1>0, <2>1, RowTypes
    <3> QED
      BY <3>1, <3>2
  <2>4. sessions' \in [Ids -> Rows]
    BY <1>1, <1>4, <2>3 DEF HandleStop
  <2>5. link' \in [Bays -> Ids \cup {0}]
    BY <1>4, Typed DEF HandleStop
  <2> QED
    BY <2>1, <2>2, <2>4, <2>5, Typed, TypedNext
<1> QED
  BY <1>2, <1>3, <1>4 DEF Handle

\* What a charger sends is a message.
LEMMA SentTypes ==
  ASSUME TypeOK, NEW b \in Bays, NEW kind \in {"start", "meter", "stop"}, NEW d \in Drivers,
         NEW t \in Nat, NEW wh \in Nat, NEW q \in Seq(Messages),
         mail' = [mail EXCEPT ![b] = Append(q, Message(kind, d, t, wh))]
  PROVE  mail' \in [Bays -> Seq(Messages)]
<1>1. Message(kind, d, t, wh) \in Messages
  BY DEF Message, Messages
<1>2. Append(q, Message(kind, d, t, wh)) \in Seq(Messages)
  BY <1>1, OneMoreSent
<1> QED
  BY <1>2, Typed

\* So do the steps of the chargers.
LEMMA ChargerTypes ==
  ASSUME TypeOK, Plugged, NEW b \in Bays,
         \/ TakeAnswer(b) \/ Meter(b) \/ Unplug(b) \/ Repeat(b) \/ Restart(b)
         \/ \E d \in Drivers : PlugIn(b, d)
  PROVE  TypeOK' /\ Plugged'
<1>0. /\ register[b] \in Nat /\ register[b] \in 0..MaxWh /\ cp[b] \in ChargerRows
      /\ mail[b] \in Seq(Messages) /\ <<>> \in Seq(Messages) /\ faults \in 0..MaxFaults
  BY Typed, EmptySeq, BoundsAssumption
<1>1. UNCHANGED <<now, sessions, lastTx, link>>
  BY DEF TakeAnswer, Meter, Unplug, Repeat, Restart, PlugIn, serverVars
<1>2. register' \in [Bays -> 0..MaxWh]
  <2>1. register' = register \/ (register[b] < MaxWh /\ register' = [register EXCEPT ![b] = register[b] + 1])
    BY DEF TakeAnswer, Meter, Unplug, Repeat, Restart, PlugIn
  <2> QED
    BY <1>0, <2>1, BoundsAssumption, Typed, TypedNext
<1>3. faults' \in 0..MaxFaults
  <2>1. faults' = faults \/ (faults < MaxFaults /\ faults' = faults + 1)
    BY DEF TakeAnswer, Meter, Unplug, Repeat, Restart, PlugIn
  <2> QED
    BY <1>0, <2>1, BoundsAssumption
<1>4. ASSUME NEW r, r \in ChargerRows, r.mode = "idle" \/ r.driver \in Drivers,
             cp' = [cp EXCEPT ![b] = r]
      PROVE  cp' \in [Bays -> ChargerRows] /\ Plugged'
  BY <1>4, Typed DEF Plugged
<1>5. CASE \E d \in Drivers : PlugIn(b, d)
  <2>1. PICK d \in Drivers : PlugIn(b, d)
    BY <1>5
  <2> DEFINE r1 == [Idle EXCEPT !.mode = "starting"]
             r2 == [r1 EXCEPT !.driver = d]
  <2>2. Idle \in ChargerRows
    BY DEF Idle, ChargerRows
  <2>3. r1 \in ChargerRows
    BY <2>2, ChargerRowTypes
  <2>4. r2 \in ChargerRows
    BY <2>3, ChargerRowTypes
  <2>5. r2.driver \in Drivers
    BY <2>3 DEF ChargerRows
  <2>6. cp' = [cp EXCEPT ![b] = r2]
    BY <2>1 DEF PlugIn
  <2>7. cp' \in [Bays -> ChargerRows] /\ Plugged'
    BY <1>4, <2>4, <2>5, <2>6
  <2>8. mail' \in [Bays -> Seq(Messages)]
    BY <1>0, <2>1, SentTypes DEF PlugIn, Ask
  <2> QED
    BY <1>1, <1>2, <1>3, <2>7, <2>8, Typed, TypedNext
<1>6. CASE TakeAnswer(b)
  <2> DEFINE r1 == [cp[b] EXCEPT !.mode = "charging"]
             r2 == [r1 EXCEPT !.tx = cp[b].answer]
             r3 == [r2 EXCEPT !.answer = 0]
  <2>1. r1 \in ChargerRows /\ r1.driver = cp[b].driver /\ cp[b].answer \in Nat
    BY <1>0, ChargerRowTypes DEF ChargerRows
  <2> HIDE DEF r1
  <2>2. r2 \in ChargerRows /\ r2.driver = cp[b].driver
    BY <2>1, ChargerRowTypes DEF ChargerRows
  <2> HIDE DEF r2
  <2>3. r3 \in ChargerRows /\ r3.driver = cp[b].driver
    BY <2>2, ChargerRowTypes DEF ChargerRows
  <2>4. Idle \in ChargerRows /\ Idle.mode = "idle"
    BY DEF Idle, ChargerRows
  <2>5. /\ mail' = mail
        /\ cp[b].mode = "starting" => cp' = [cp EXCEPT ![b] = r3]
        /\ cp[b].mode # "starting" => cp' = [cp EXCEPT ![b] = Idle]
    BY <1>6 DEF TakeAnswer, r1, r2
  <2>6. cp[b].mode = "starting" => r3.driver \in Drivers
    BY <2>3 DEF Plugged
  <2> HIDE DEF r3
  <2>7. cp' \in [Bays -> ChargerRows] /\ Plugged'
    BY <1>4, <2>3, <2>4, <2>5, <2>6
  <2> QED
    BY <1>1, <1>2, <1>3, <2>5, <2>7, Typed, TypedNext
<1>7. CASE Meter(b)
  <2>1. cp' = cp /\ cp[b].driver \in Drivers /\ cp[b].tx \in Nat
    BY <1>0, <1>7, ChargerRowTypes DEF Meter, Plugged
  <2>2. mail' = [mail EXCEPT ![b] = Append(mail[b], Message("meter", cp[b].driver, cp[b].tx, register[b] + 1))]
    BY <1>7 DEF Meter, Ask
  <2>3. mail' \in [Bays -> Seq(Messages)]
    <3>1. register[b] + 1 \in Nat
      BY <1>0
    <3> QED
      BY <1>0, <2>1, <2>2, <3>1, SentTypes
  <2> QED
    BY <1>1, <1>2, <1>3, <2>1, <2>3, Typed, TypedNext DEF Plugged
<1>8. CASE Unplug(b)
  <2>1. cp[b].driver \in Drivers /\ cp[b].tx \in Nat
    BY <1>0, <1>8, ChargerRowTypes DEF Unplug, Plugged
  <2> DEFINE r1 == [cp[b] EXCEPT !.mode = "stopping"]
  <2>2. r1 \in ChargerRows /\ r1.driver = cp[b].driver
    BY <1>0, ChargerRowTypes DEF ChargerRows
  <2>3. cp' = [cp EXCEPT ![b] = r1]
    BY <1>8 DEF Unplug
  <2> HIDE DEF r1
  <2>4. cp' \in [Bays -> ChargerRows] /\ Plugged'
    BY <1>4, <2>1, <2>2, <2>3
  <2>5. mail' \in [Bays -> Seq(Messages)]
    BY <1>0, <1>8, <2>1, SentTypes DEF Unplug, Ask
  <2> QED
    BY <1>1, <1>2, <1>3, <2>4, <2>5, Typed, TypedNext
<1>9. CASE Repeat(b)
  <2>1. cp[b].driver \in Drivers /\ cp[b].tx \in Nat
    BY <1>0, <1>9, ChargerRowTypes DEF Repeat, Plugged
  <2> DEFINE r1 == [cp[b] EXCEPT !.answer = 0]
             m == IF cp[b].mode = "starting" THEN Message("start", cp[b].driver, 0, register[b])
                  ELSE Message("stop", cp[b].driver, cp[b].tx, register[b])
  <2>2. r1 \in ChargerRows /\ r1.driver = cp[b].driver
    BY <1>0, ChargerRowTypes DEF ChargerRows
  <2>3. cp' = [cp EXCEPT ![b] = r1]
    BY <1>9 DEF Repeat
  <2> HIDE DEF r1
  <2>4. cp' \in [Bays -> ChargerRows] /\ Plugged'
    BY <1>4, <2>1, <2>2, <2>3
  <2>5. \E q \in Seq(Messages) : mail' = [mail EXCEPT ![b] = q \o <<m>>]
    BY <1>0, <1>9 DEF Repeat
  <2>6. m \in Messages
    BY <1>0, <2>1 DEF Message, Messages
  <2> HIDE DEF m
  <2>7. mail' \in [Bays -> Seq(Messages)]
    BY <2>5, <2>6, OneMoreSent, Typed
  <2> QED
    BY <1>1, <1>2, <1>3, <2>4, <2>7, Typed, TypedNext
<1>10. CASE Restart(b)
  <2>1. Idle \in ChargerRows /\ Idle.mode = "idle"
    BY DEF Idle, ChargerRows
  <2>2. cp' \in [Bays -> ChargerRows] /\ Plugged'
    BY <1>4, <1>10, <2>1 DEF Restart
  <2>3. mail' \in [Bays -> Seq(Messages)]
    BY <1>0, <1>10, Typed DEF Restart
  <2> QED
    BY <1>1, <1>2, <1>3, <2>2, <2>3, Typed, TypedNext
<1> QED
  BY <1>5, <1>6, <1>7, <1>8, <1>9, <1>10

\* Every step keeps the types.
LEMMA NextTypes ==
  ASSUME TypeOK, Plugged, IInv, [Next]_vars
  PROVE  TypeOK' /\ Plugged'
<1>0. \A s \in Ids : sessions[s] \in Rows
  BY Typed
<1>1. ASSUME NEW d \in Drivers, NEW b \in Bays, NEW t \in 1..(MaxNow + DwellHours), Declare(d, b, t)
      PROVE  TypeOK' /\ Plugged'
  <2>1. t \in Nat
    BY <1>1, BoundsAssumption
  <2>2. Declared(d, b, "app", t) \in Rows
    BY <2>1, DeclaredType
  <2>3. sessions' \in [Ids -> Rows]
    BY <1>1, <2>2, Typed DEF Declare
  <2> QED
    BY <1>1, <2>3, Typed, TypedNext DEF Declare, chargerVars, Plugged
<1>2. ASSUME NEW s \in Ids, NEW t \in 1..(MaxNow + DwellHours), Patch(s, t)
      PROVE  TypeOK' /\ Plugged'
  <2>1. t \in Nat
    BY <1>2, BoundsAssumption
  <2>2. [sessions[s] EXCEPT !.deadline = t] \in Rows
    BY <1>0, <2>1, RowTypes
  <2>3. sessions' \in [Ids -> Rows]
    BY <1>2, <2>2, Typed DEF Patch
  <2> QED
    BY <1>2, <2>3, Typed, TypedNext DEF Patch, chargerVars, Plugged
<1>3. ASSUME NEW s \in Ids, RemoteStop(s)
      PROVE  TypeOK' /\ Plugged'
  <2>1. Unplug(sessions[s].bay)
    BY <1>3 DEF RemoteStop
  <2>2. sessions[s].bay \in Bays
    BY <1>3 DEF RemoteStop, IsOpen, IInv, OnABay, CreatedIds
  <2> QED
    BY <2>1, <2>2, ChargerTypes
<1>4. ASSUME NEW b \in Bays, Handle(b)
      PROVE  TypeOK' /\ Plugged'
  BY <1>4, HandleTypes
<1>5. ASSUME NEW b \in Bays,
             \/ TakeAnswer(b) \/ Meter(b) \/ Unplug(b) \/ Repeat(b) \/ Restart(b)
             \/ \E d \in Drivers : PlugIn(b, d)
      PROVE  TypeOK' /\ Plugged'
  BY <1>5, ChargerTypes
<1>6. CASE Tick
  <2>1. now' \in 0..MaxNow
    BY <1>6, BoundsAssumption, Typed DEF Tick
  <2> QED
    BY <1>6, <2>1, Typed, TypedNext DEF Tick, chargerVars, Plugged
<1>7. CASE UNCHANGED vars
  BY <1>7, Typed, TypedNext DEF vars, Plugged
<1> QED
  BY <1>1, <1>2, <1>3, <1>4, <1>5, <1>6, <1>7 DEF Next

-----------------------------------------------------------------------------
(* The mail of one bay.                                                     *)

\* Handling the first message leaves the rest in order, and all of it later.
LEMMA TailInOrder ==
  ASSUME NEW q \in Seq(Messages), q # <<>>, NEW wh \in Nat, InOrder(q, wh)
  PROVE  /\ InOrder(Tail(q), wh) /\ q[1].wh <= wh
         /\ \A i \in DOMAIN Tail(q) : q[1].wh <= Tail(q)[i].wh
         /\ q[1].kind = "start" => \A i \in DOMAIN Tail(q) : Tail(q)[i].kind = "start"
         /\ NoStart(q) => NoStart(Tail(q))
         /\ OnlyMeter(q) => OnlyMeter(Tail(q))
<1> DEFINE t == Tail(q)
<1>1. /\ 1 \in DOMAIN q /\ DOMAIN t \subseteq Nat \ {0}
      /\ \A i \in DOMAIN t : i + 1 \in DOMAIN q /\ t[i] = q[i + 1] /\ 1 < i + 1
  BY FirstHandled
<1> HIDE DEF t
<1>2. InOrder(t, wh)
  <2>1. \A i, j \in DOMAIN t : i < j => i + 1 < j + 1
    BY <1>1
  <2> QED
    BY <1>1, <2>1 DEF InOrder
<1>3. \A i \in DOMAIN t : q[1].wh <= t[i].wh
  BY <1>1 DEF InOrder
<1>4. q[1].kind = "start" => \A i \in DOMAIN t : t[i].kind = "start"
  BY <1>1 DEF InOrder
<1>5. (NoStart(q) => NoStart(t)) /\ (OnlyMeter(q) => OnlyMeter(t))
  BY <1>1 DEF NoStart, OnlyMeter
<1>6. q[1].wh <= wh
  BY <1>1 DEF InOrder
<1> QED
  BY <1>2, <1>3, <1>4, <1>5, <1>6 DEF t

\* One more message, sent with the register as it is now.
LEMMA AppendInOrder ==
  ASSUME NEW q \in Seq(Messages), NEW m \in Messages, NEW wh \in Nat, InOrder(q, wh),
         wh <= m.wh, m.kind = "start" \/ NoStart(q)
  PROVE  /\ InOrder(Append(q, m), m.wh)
         /\ NoStart(q) /\ m.kind # "start" => NoStart(Append(q, m))
         /\ OnlyMeter(q) /\ m.kind = "meter" => OnlyMeter(Append(q, m))
<1> DEFINE a == Append(q, m)
           n == Len(q) + 1
<1>1. /\ DOMAIN a = DOMAIN q \cup {n} /\ a[n] = m /\ n \in Nat
      /\ \A i \in DOMAIN q : a[i] = q[i] /\ i < n /\ i \in Nat /\ q[i].wh \in Nat
  <2>1. \A i \in DOMAIN q : q[i] \in Messages
    BY ElementOfSeq, LenProperties
  <2>2. \A i \in DOMAIN q : q[i].wh \in Nat
    BY <2>1 DEF Messages
  <2> QED
    BY <2>2, OneMoreSent
<1>2. m.wh \in Nat
  BY DEF Messages
<1> HIDE DEF a, n
<1>3. \A i, j \in DOMAIN a : i < j => i \in DOMAIN q /\ a[i] = q[i] /\ ((j \in DOMAIN q /\ a[j] = q[j]) \/ a[j] = m)
  BY <1>1
<1>4. \A i \in DOMAIN q : q[i].wh <= m.wh
  BY <1>1, <1>2 DEF InOrder
<1>5. InOrder(a, m.wh)
  <2>1. \A i, j \in DOMAIN a : i < j /\ a[i].kind = "start" => a[j].kind = "start"
    BY <1>3 DEF InOrder, NoStart
  <2>2. \A i, j \in DOMAIN a : i < j => a[i].wh <= a[j].wh
    BY <1>3, <1>4 DEF InOrder
  <2>3. \A i \in DOMAIN a : a[i].wh <= m.wh
    BY <1>1, <1>2, <1>4
  <2> QED
    BY <2>1, <2>2, <2>3 DEF InOrder
<1>6. /\ NoStart(q) /\ m.kind # "start" => NoStart(a)
      /\ OnlyMeter(q) /\ m.kind = "meter" => OnlyMeter(a)
  BY <1>1 DEF NoStart, OnlyMeter
<1> QED
  BY <1>5, <1>6 DEF a

\* A bay whose mail is lost.
LEMMA EmptyMail ==
  ASSUME NEW wh \in Nat
  PROVE  InOrder(<<>>, wh) /\ NoStart(<<>>) /\ OnlyMeter(<<>>) /\ DOMAIN <<>> = {}
<1>1. DOMAIN <<>> = {}
  OBVIOUS
<1> QED
  BY <1>1 DEF InOrder, NoStart, OnlyMeter

-----------------------------------------------------------------------------
(* A bay from one step to the next.                                         *)

\* What bay b knows of session s stays the same, or s is declared there now.
Unmoved(s, b) ==
  \/ s \notin CreatedIds /\ s \notin CreatedIds'
  \/ /\ s \in CreatedIds /\ s \in CreatedIds'
     /\ sessions'[s].status = sessions[s].status /\ sessions'[s].bay = sessions[s].bay
     /\ sessions'[s].tx = sessions[s].tx /\ sessions'[s].start = sessions[s].start
     /\ sessions'[s].last = sessions[s].last
  \/ /\ s \notin CreatedIds /\ s \in CreatedIds'
     /\ sessions'[s].tx = 0 /\ sessions'[s].start = 0 /\ sessions'[s].last = 0
  \/ (s \in CreatedIds => sessions[s].bay # b) /\ (s \in CreatedIds' => sessions'[s].bay # b)

\* The numbers of a session are numbers.
LEMMA Numbers ==
  ASSUME TypeOK
  PROVE  /\ \A s \in Ids : sessions[s].tx \in Nat /\ sessions[s].start \in Nat /\ sessions[s].last \in Nat
         /\ \A b \in Bays : register[b] \in Nat /\ cp[b].answer \in Nat /\ cp[b].tx \in Nat
                            /\ mail[b] \in Seq(Messages)
         /\ CreatedIds \subseteq Ids
         /\ \A b \in Bays : \A i \in DOMAIN mail[b] :
              mail[b][i] \in Messages /\ mail[b][i].wh \in Nat /\ mail[b][i].tx \in Nat
<1>1. \A s \in Ids : sessions[s].tx \in Nat /\ sessions[s].start \in Nat /\ sessions[s].last \in Nat
  BY Typed DEF Rows
<1>2. \A b \in Bays : register[b] \in Nat /\ cp[b].answer \in Nat /\ cp[b].tx \in Nat
                            /\ mail[b] \in Seq(Messages)
  BY Typed, BoundsAssumption DEF ChargerRows
<1>3. \A b \in Bays : \A i \in DOMAIN mail[b] : mail[b][i] \in Messages
  BY <1>2, ElementOfSeq, LenProperties
<1>4. \A m \in Messages : m.wh \in Nat /\ m.tx \in Nat
  BY DEF Messages
<1> QED
  BY <1>1, <1>2, <1>3, <1>4 DEF CreatedIds

\* Then its transactions stay what they are.
LEMMA UnmovedNames ==
  ASSUME TypeOK, NEW b \in Bays, \A s \in Ids : Unmoved(s, b), link'[b] = link[b]
  PROVE  /\ \A t : NewestOn(b, t) => NewestOn(b, t)'
         /\ \A t : Runs(b, t) => Runs(b, t)'
<1>0. CreatedIds \subseteq Ids /\ CreatedIds' \subseteq Ids
  BY DEF CreatedIds
<1>1. ASSUME NEW t, NewestOn(b, t)
      PROVE  NewestOn(b, t)'
  <2>1. t \in Nat /\ t # 0
    BY <1>0, <1>1, Numbers DEF NewestOn
  <2>2. \E s \in CreatedIds' : sessions'[s].bay = b /\ sessions'[s].tx = t
    BY <1>0, <1>1 DEF NewestOn, Unmoved
  <2>3. \A s \in CreatedIds' : sessions'[s].bay = b => sessions'[s].tx <= t
    BY <1>0, <1>1, <2>1 DEF NewestOn, Unmoved
  <2> QED
    BY <2>1, <2>2, <2>3 DEF NewestOn
<1>2. ASSUME NEW t, Runs(b, t)
      PROVE  Runs(b, t)'
  <2>1. PICK s \in ActiveOn(b) : sessions[s].tx = t /\ link[b] = s
    BY <1>2 DEF Runs
  <2>2. s \in Ids /\ s \in CreatedIds /\ sessions[s].bay = b /\ sessions[s].status = "active"
    BY <2>1 DEF ActiveOn, CreatedIds
  <2>3. sessions'[s].status = "active" /\ sessions'[s].bay = b /\ sessions'[s].tx = t
    BY <2>1, <2>2 DEF Unmoved
  <2> QED
    BY <2>1, <2>2, <2>3 DEF Runs, ActiveOn
<1> QED
  BY <1>1, <1>2

\* And what its sessions have counted.
LEMMA UnmovedCounts ==
  ASSUME TypeOK, NEW b \in Bays, \A s \in Ids : Unmoved(s, b)
  PROVE  /\ OneAfterAnother(b) => OneAfterAnother(b)'
         /\ NothingYet(b) => NothingYet(b)'
         /\ \A s \in CreatedIds' : sessions'[s].bay = b =>
              \/ /\ s \in CreatedIds /\ sessions[s].bay = b
                 /\ sessions'[s].start = sessions[s].start /\ sessions'[s].last = sessions[s].last
              \/ sessions'[s].start = 0 /\ sessions'[s].last = 0
<1>0. CreatedIds \subseteq Ids /\ CreatedIds' \subseteq Ids
  BY DEF CreatedIds
<1>1. \A s \in CreatedIds' : sessions'[s].bay = b =>
        \/ /\ s \in CreatedIds /\ sessions[s].bay = b /\ sessions'[s].tx = sessions[s].tx
           /\ sessions'[s].start = sessions[s].start /\ sessions'[s].last = sessions[s].last
        \/ sessions'[s].tx = 0 /\ sessions'[s].start = 0 /\ sessions'[s].last = 0
  BY <1>0 DEF Unmoved
<1>2. \A s \in CreatedIds : sessions[s].tx \in Nat
  BY <1>0, Numbers
<1>3. OneAfterAnother(b) => OneAfterAnother(b)'
  BY <1>1, <1>2 DEF OneAfterAnother
<1>4. NothingYet(b) => NothingYet(b)'
  BY <1>1 DEF NothingYet
<1> QED
  BY <1>1, <1>3, <1>4

\* A bay with which nothing happens.
LEMMA Elsewhere ==
  ASSUME TypeOK, NEW b \in Bays, BayOk(b), \A s \in Ids : Unmoved(s, b),
         link'[b] = link[b], cp'[b] = cp[b], mail'[b] = mail[b], register'[b] = register[b]
  PROVE  BayOk(b)'
<1>1. /\ \A t : NewestOn(b, t) => NewestOn(b, t)'
      /\ \A t : Runs(b, t) => Runs(b, t)'
  BY UnmovedNames
<1>2. BelievesRightly(b)'
  BY <1>1 DEF BayOk, BelievesRightly
<1>3. InOrder(mail[b], register[b])'
  BY DEF BayOk, InOrder
<1>4. AboutTheNewest(b)'
  BY <1>1 DEF BayOk, AboutTheNewest
<1>5. NotAhead(b)'
  BY UnmovedCounts, Numbers DEF BayOk, NotAhead
<1>6. OneAfterAnother(b)' /\ NothingYet(b)'
  BY UnmovedCounts DEF BayOk
<1> QED
  BY <1>2, <1>3, <1>4, <1>5, <1>6 DEF BayOk

-----------------------------------------------------------------------------
(* The steps of a charger.                                                  *)

\* A charger step leaves the sessions alone, so only the charger's belief and
\* its mail are at stake.
LEMMA AtTheCharger ==
  ASSUME TypeOK, NEW b \in Bays, BayOk(b), UNCHANGED serverVars
  PROVE  /\ \A t : NewestOn(b, t) => NewestOn(b, t)'
         /\ \A t : Runs(b, t) => Runs(b, t)'
         /\ OneAfterAnother(b)' /\ NothingYet(b)'
         /\ \A s \in CreatedIds' : sessions'[s].bay = b =>
              /\ s \in CreatedIds /\ sessions[s].bay = b
              /\ sessions'[s].start = sessions[s].start /\ sessions'[s].last = sessions[s].last
<1>1. \A s \in Ids : Unmoved(s, b)
  BY DEF serverVars, Unmoved, CreatedIds
<1>2. link'[b] = link[b] /\ sessions' = sessions /\ CreatedIds' = CreatedIds
  BY DEF serverVars, CreatedIds
<1> QED
  BY <1>1, <1>2, UnmovedNames, UnmovedCounts DEF BayOk

\* It sends one more message: in order, and no session has counted further.
LEMMA Sends ==
  ASSUME TypeOK, NEW b \in Bays, BayOk(b), UNCHANGED serverVars,
         NEW m \in Messages, NEW q \in {<<>>, mail[b]},
         mail'[b] = Append(q, m), register'[b] = m.wh, register[b] <= m.wh,
         \/ m.kind = "start"
         \/ (NoStart(mail[b]) /\ NewestOn(b, m.tx))
  PROVE  /\ InOrder(mail[b], register[b])' /\ AboutTheNewest(b)' /\ NotAhead(b)'
         /\ OneAfterAnother(b)' /\ NothingYet(b)'
         /\ m.kind = "start" => mail'[b] # <<>> /\ mail'[b][Len(mail'[b])].kind = "start"
         /\ m.kind # "start" => NoStart(mail'[b])
         /\ m.kind = "meter" /\ OnlyMeter(mail[b]) => OnlyMeter(mail'[b])
<1>1. /\ q \in Seq(Messages) /\ InOrder(q, register[b]) /\ register[b] \in Nat
      /\ NoStart(mail[b]) => NoStart(q)
      /\ OnlyMeter(mail[b]) => OnlyMeter(q)
      /\ \A i \in DOMAIN q : q = mail[b] /\ i \in DOMAIN mail[b]
  BY EmptyMail, Numbers, EmptySeq DEF BayOk
<1>2. /\ DOMAIN Append(q, m) = DOMAIN q \cup {Len(q) + 1}
      /\ \A i \in DOMAIN q : Append(q, m)[i] = q[i]
      /\ Append(q, m)[Len(q) + 1] = m /\ Len(Append(q, m)) = Len(q) + 1 /\ Append(q, m) # <<>>
  BY <1>1, OneMoreSent
<1>3. /\ InOrder(Append(q, m), m.wh)
      /\ NoStart(q) /\ m.kind # "start" => NoStart(Append(q, m))
      /\ OnlyMeter(q) /\ m.kind = "meter" => OnlyMeter(Append(q, m))
  BY <1>1, AppendInOrder
<1>4. InOrder(mail[b], register[b])'
  BY <1>3 DEF InOrder
<1>5. \A i \in DOMAIN mail'[b] : (i \in DOMAIN mail[b] /\ mail'[b][i] = mail[b][i]) \/ mail'[b][i] = m
  BY <1>1, <1>2
<1>6. AboutTheNewest(b)'
  BY <1>5, AtTheCharger DEF BayOk, AboutTheNewest
<1>7. NotAhead(b)'
  <2>1. \A s \in CreatedIds' : sessions'[s].bay = b =>
          /\ sessions'[s].start <= sessions'[s].last
          /\ sessions'[s].last \in Nat /\ sessions'[s].last <= register[b]
          /\ \A i \in DOMAIN mail[b] : sessions'[s].last <= mail[b][i].wh
    BY AtTheCharger, Numbers DEF BayOk, NotAhead
  <2>2. m.wh \in Nat
    BY DEF Messages
  <2>3. \A s \in CreatedIds' : sessions'[s].bay = b => sessions'[s].last <= m.wh
    BY <1>1, <2>1, <2>2
  <2> QED
    BY <1>5, <2>1, <2>3 DEF NotAhead
<1>8. OneAfterAnother(b)' /\ NothingYet(b)'
  BY AtTheCharger
<1> QED
  BY <1>1, <1>2, <1>3, <1>4, <1>6, <1>7, <1>8

\* It sends nothing.
LEMMA SendsNothing ==
  ASSUME TypeOK, NEW b \in Bays, BayOk(b), UNCHANGED serverVars,
         mail'[b] = mail[b] \/ mail'[b] = <<>>, register'[b] = register[b]
  PROVE  /\ InOrder(mail[b], register[b])' /\ AboutTheNewest(b)' /\ NotAhead(b)'
         /\ OneAfterAnother(b)' /\ NothingYet(b)'
<1>1. register[b] \in Nat
  BY Numbers
<1>2. InOrder(mail[b], register[b])'
  BY <1>1, EmptyMail DEF BayOk, InOrder
<1>3. \A i \in DOMAIN mail'[b] : i \in DOMAIN mail[b] /\ mail'[b] = mail[b]
  BY EmptyMail, <1>1
<1>4. AboutTheNewest(b)'
  BY <1>3, AtTheCharger DEF BayOk, AboutTheNewest
<1>5. NotAhead(b)'
  BY <1>3, AtTheCharger DEF BayOk, NotAhead
<1> QED
  BY <1>2, <1>4, <1>5, AtTheCharger

\* What a charger does keeps its bay right.
LEMMA ChargerKeepsItsBay ==
  ASSUME TypeOK, Plugged, NEW b \in Bays, BayOk(b),
         \/ TakeAnswer(b) \/ Meter(b) \/ Unplug(b) \/ Repeat(b) \/ Restart(b)
         \/ \E d \in Drivers : PlugIn(b, d)
  PROVE  BayOk(b)'
<1>0. /\ UNCHANGED serverVars
      /\ register[b] \in Nat /\ mail[b] \in Seq(Messages) /\ cp[b] \in ChargerRows
      /\ cp \in [Bays -> ChargerRows] /\ mail \in [Bays -> Seq(Messages)]
      /\ register \in [Bays -> 0..MaxWh]
  BY Numbers, Typed DEF TakeAnswer, Meter, Unplug, Repeat, Restart, PlugIn
<1>1. CASE \E d \in Drivers : PlugIn(b, d)
  <2>1. PICK d \in Drivers : PlugIn(b, d)
    BY <1>1
  <2> DEFINE m == Message("start", d, 0, register[b])
  <2>2. m \in Messages /\ m.wh = register[b] /\ m.kind = "start"
    BY <1>0 DEF Message, Messages
  <2>3. mail'[b] = Append(mail[b], m) /\ register'[b] = register[b]
    BY <1>0, <2>1 DEF PlugIn, Ask
  <2>4. cp'[b].mode = "starting" /\ cp'[b].answer = 0
    BY <1>0, <2>1 DEF PlugIn, Idle
  <2> HIDE DEF m
  <2>5. register'[b] = m.wh /\ register[b] <= m.wh
    BY <1>0, <2>2, <2>3
  <2>6. /\ InOrder(mail[b], register[b])' /\ AboutTheNewest(b)' /\ NotAhead(b)'
        /\ OneAfterAnother(b)' /\ NothingYet(b)'
        /\ m.kind = "start" => mail'[b] # <<>> /\ mail'[b][Len(mail'[b])].kind = "start"
    BY <1>0, <2>2, <2>3, <2>5, Sends
  <2> QED
    BY <2>2, <2>4, <2>6 DEF BayOk, BelievesRightly
<1>2. CASE TakeAnswer(b)
  <2>1. mail'[b] = mail[b] /\ register'[b] = register[b] /\ cp[b].answer # 0
    BY <1>2 DEF TakeAnswer
  <2>2. /\ InOrder(mail[b], register[b])' /\ AboutTheNewest(b)' /\ NotAhead(b)'
        /\ OneAfterAnother(b)' /\ NothingYet(b)'
    BY <1>0, <2>1, SendsNothing
  <2>3. CASE cp[b].mode = "starting"
    <3>1. cp'[b].mode = "charging" /\ cp'[b].tx = cp[b].answer
      BY <1>0, <1>2, <2>3 DEF TakeAnswer, ChargerRows
    <3>2. mail[b] = <<>> /\ NewestOn(b, cp[b].answer) /\ Runs(b, cp[b].answer)
      BY <2>1, <2>3 DEF BayOk, BelievesRightly
    <3>3. NewestOn(b, cp[b].tx)' /\ Runs(b, cp[b].tx)'
      <4>1. \A t : t = cp'[b].tx /\ NewestOn(b, t)' => NewestOn(b, cp[b].tx)'
        BY DEF NewestOn
      <4>2. \A t : t = cp'[b].tx /\ Runs(b, t)' => Runs(b, cp[b].tx)'
        BY DEF Runs
      <4> QED
        BY <1>0, <3>1, <3>2, <4>1, <4>2, AtTheCharger
    <3> QED
      BY <1>0, <2>1, <2>2, <3>1, <3>2, <3>3, EmptyMail DEF BayOk, BelievesRightly
  <2>4. CASE cp[b].mode # "starting"
    <3>1. cp'[b].mode = "idle"
      BY <1>0, <1>2, <2>4 DEF TakeAnswer, Idle
    <3> QED
      BY <2>2, <3>1 DEF BayOk, BelievesRightly
  <2> QED
    BY <2>3, <2>4
<1>3. ASSUME Meter(b) \/ Unplug(b)
      PROVE  BayOk(b)'
  <2>1. cp[b].mode = "charging" /\ cp[b].driver \in Drivers /\ cp[b].tx \in Nat
    BY <1>0, <1>3 DEF Meter, Unplug, Plugged, ChargerRows
  <2>2. NewestOn(b, cp[b].tx) /\ NoStart(mail[b]) /\ Runs(b, cp[b].tx) /\ OnlyMeter(mail[b])
    BY <2>1 DEF BayOk, BelievesRightly
  <2>3. cp'[b].tx = cp[b].tx
    BY <1>0, <1>3 DEF Meter, Unplug, ChargerRows
  <2>4. NewestOn(b, cp[b].tx)' /\ Runs(b, cp[b].tx)'
    <3>1. \A t : t = cp'[b].tx /\ NewestOn(b, t)' => NewestOn(b, cp[b].tx)'
      BY DEF NewestOn
    <3>2. \A t : t = cp'[b].tx /\ Runs(b, t)' => Runs(b, cp[b].tx)'
      BY DEF Runs
    <3> QED
      BY <1>0, <2>2, <2>3, <3>1, <3>2, AtTheCharger
  <2>5. PICK m \in Messages :
          /\ mail'[b] = Append(mail[b], m) /\ m.tx = cp[b].tx
          /\ register'[b] = m.wh /\ register[b] <= m.wh
          /\ \/ m.kind = "meter" /\ cp'[b].mode = "charging"
             \/ m.kind = "stop" /\ cp'[b].mode = "stopping"
    <3>1. CASE Meter(b)
      <4> DEFINE m == Message("meter", cp[b].driver, cp[b].tx, register[b] + 1)
      <4>1. m \in Messages /\ m.wh = register[b] + 1 /\ m.kind = "meter" /\ m.tx = cp[b].tx
        BY <1>0, <2>1 DEF Message, Messages
      <4>2. mail'[b] = Append(mail[b], m) /\ register'[b] = register[b] + 1 /\ cp' = cp
        BY <1>0, <3>1 DEF Meter, Ask
      <4> HIDE DEF m
      <4> QED
        BY <1>0, <2>1, <4>1, <4>2
    <3>2. CASE Unplug(b)
      <4> DEFINE m == Message("stop", cp[b].driver, cp[b].tx, register[b])
      <4>1. m \in Messages /\ m.wh = register[b] /\ m.kind = "stop" /\ m.tx = cp[b].tx
        BY <1>0, <2>1 DEF Message, Messages
      <4>2. mail'[b] = Append(mail[b], m) /\ register'[b] = register[b] /\ cp'[b].mode = "stopping"
        BY <1>0, <3>2 DEF Unplug, Ask, ChargerRows
      <4> HIDE DEF m
      <4> QED
        BY <1>0, <4>1, <4>2
    <3> QED
      BY <1>3, <3>1, <3>2
  <2>6. /\ InOrder(mail[b], register[b])' /\ AboutTheNewest(b)' /\ NotAhead(b)'
        /\ OneAfterAnother(b)' /\ NothingYet(b)'
        /\ NoStart(mail'[b])
        /\ m.kind = "meter" => OnlyMeter(mail'[b])
    BY <1>0, <2>2, <2>5, Sends
  <2>7. NoStart(mail[b])' /\ (m.kind = "meter" => OnlyMeter(mail[b])')
    BY <2>6 DEF NoStart, OnlyMeter
  <2> QED
    BY <2>4, <2>5, <2>6, <2>7 DEF BayOk, BelievesRightly
<1>4. CASE Repeat(b)
  <2>1. /\ cp[b].mode \in {"starting", "stopping"} /\ cp[b].driver \in Drivers
        /\ cp'[b].mode = cp[b].mode /\ cp'[b].tx = cp[b].tx /\ cp'[b].answer = 0
        /\ register'[b] = register[b] /\ cp[b].tx \in Nat
    BY <1>0, <1>4 DEF Repeat, Plugged, ChargerRows
  <2> DEFINE m == IF cp[b].mode = "starting" THEN Message("start", cp[b].driver, 0, register[b])
                  ELSE Message("stop", cp[b].driver, cp[b].tx, register[b])
  <2>2. /\ m \in Messages /\ m.wh = register[b]
        /\ cp[b].mode = "starting" => m.kind = "start"
        /\ cp[b].mode = "stopping" => m.kind = "stop" /\ m.tx = cp[b].tx
    BY <1>0, <2>1 DEF Message, Messages
  <2>3. PICK q \in {<<>>, mail[b]} : mail'[b] = q \o <<m>>
    BY <1>0, <1>4 DEF Repeat
  <2> HIDE DEF m
  <2>4. mail'[b] = Append(q, m)
    BY <1>0, <2>2, <2>3, OneMoreSent
  <2>5. cp[b].mode = "stopping" => NoStart(mail[b]) /\ NewestOn(b, cp[b].tx)
    BY DEF BayOk, BelievesRightly
  <2>6. /\ m.kind = "start" \/ (NoStart(mail[b]) /\ NewestOn(b, m.tx))
        /\ register'[b] = m.wh /\ register[b] <= m.wh
    BY <1>0, <2>1, <2>2, <2>5
  <2>7. /\ InOrder(mail[b], register[b])' /\ AboutTheNewest(b)' /\ NotAhead(b)'
        /\ OneAfterAnother(b)' /\ NothingYet(b)'
        /\ m.kind = "start" => mail'[b] # <<>> /\ mail'[b][Len(mail'[b])].kind = "start"
        /\ m.kind # "start" => NoStart(mail'[b])
    BY <1>0, <2>2, <2>4, <2>6, Sends
  <2>8. cp[b].mode = "stopping" => NewestOn(b, cp[b].tx)' /\ NoStart(mail[b])'
    <3>1. \A t : t = cp'[b].tx /\ NewestOn(b, t)' => NewestOn(b, cp[b].tx)'
      BY DEF NewestOn
    <3>2. NoStart(mail'[b]) => NoStart(mail[b])'
      BY DEF NoStart
    <3> QED
      BY <1>0, <2>1, <2>2, <2>5, <2>7, <3>1, <3>2, AtTheCharger
  <2> QED
    BY <2>1, <2>2, <2>7, <2>8 DEF BayOk, BelievesRightly
<1>5. CASE Restart(b)
  <2>1. (mail'[b] = mail[b] \/ mail'[b] = <<>>) /\ register'[b] = register[b] /\ cp'[b].mode = "idle"
    BY <1>0, <1>5 DEF Restart, Idle
  <2>2. /\ InOrder(mail[b], register[b])' /\ AboutTheNewest(b)' /\ NotAhead(b)'
        /\ OneAfterAnother(b)' /\ NothingYet(b)'
    BY <1>0, <2>1, SendsNothing
  <2> QED
    BY <2>1, <2>2 DEF BayOk, BelievesRightly
<1> QED
  BY <1>1, <1>2, <1>3, <1>4, <1>5

-----------------------------------------------------------------------------
(* The handlers.                                                            *)

\* A message of the bay is taken from its mail: the charger learns no more than
\* its answer, and the rest stays in order.
LEMMA Taken ==
  ASSUME TypeOK, NEW b \in Bays, BayOk(b), NEW kind, NEW mode, NEW value,
         HasMail(b, kind), Answer(b, mode, value)
  PROVE  LET m == mail[b][1]
         IN  /\ m = Head(mail[b]) /\ m \in Messages /\ m.kind = kind /\ 1 \in DOMAIN mail[b]
             /\ mail[b] # <<>> /\ mail[b] \in Seq(Messages)
             /\ m.wh \in Nat /\ m.tx \in Nat
             /\ mail'[b] = Tail(mail[b]) /\ register' = register
             /\ InOrder(mail[b], register[b])' /\ m.wh <= register[b]
             /\ \A i \in DOMAIN mail'[b] : /\ m.wh <= mail'[b][i].wh
                                           /\ i + 1 \in DOMAIN mail[b] /\ mail'[b][i] = mail[b][i + 1]
             /\ kind = "start" => \A i \in DOMAIN mail'[b] : mail'[b][i].kind = "start"
             /\ NoStart(mail[b]) => NoStart(mail[b])'
             /\ OnlyMeter(mail[b]) => OnlyMeter(mail[b])'
             /\ cp'[b].mode = cp[b].mode /\ cp'[b].tx = cp[b].tx
             /\ cp'[b].answer # cp[b].answer =>
                  cp[b].mode = mode /\ mail'[b] = <<>> /\ cp'[b].answer = value
             /\ cp[b].mode = mode /\ mail'[b] = <<>> => cp'[b].answer = value
             /\ mail'[b] # <<>> => Len(mail'[b]) \in DOMAIN mail'[b]
                                   /\ mail'[b][Len(mail'[b])] = mail[b][Len(mail[b])]
             /\ mail'[b] = <<>> => mail[b][Len(mail[b])] = m
             /\ \A c \in Bays \ {b} : cp'[c] = cp[c] /\ mail'[c] = mail[c]
<1> DEFINE m == mail[b][1]
<1>1. /\ mail[b] \in Seq(Messages) /\ mail[b] # <<>> /\ register[b] \in Nat
      /\ cp \in [Bays -> ChargerRows] /\ mail \in [Bays -> Seq(Messages)]
      /\ InOrder(mail[b], register[b])
  BY Numbers, Typed DEF HasMail, BayOk
<1>2. /\ Head(mail[b]) = m /\ m \in Messages /\ 1 \in DOMAIN mail[b] /\ Len(mail[b]) \in Nat \ {0}
      /\ DOMAIN Tail(mail[b]) = 1..(Len(mail[b]) - 1) /\ Tail(mail[b]) \in Seq(Messages)
      /\ \A i \in DOMAIN Tail(mail[b]) : i + 1 \in DOMAIN mail[b] /\ Tail(mail[b])[i] = mail[b][i + 1]
  BY <1>1, FirstHandled
<1>3. m.kind = kind /\ m.wh \in Nat /\ m.tx \in Nat
  BY <1>2 DEF HasMail, Messages
<1>4. mail'[b] = Tail(mail[b]) /\ register' = register /\ \A c \in Bays \ {b} : mail'[c] = mail[c]
  BY <1>1 DEF Answer
<1>5. /\ InOrder(Tail(mail[b]), register[b]) /\ m.wh <= register[b]
      /\ \A i \in DOMAIN Tail(mail[b]) : m.wh <= Tail(mail[b])[i].wh
      /\ m.kind = "start" => \A i \in DOMAIN Tail(mail[b]) : Tail(mail[b])[i].kind = "start"
      /\ NoStart(mail[b]) => NoStart(Tail(mail[b]))
      /\ OnlyMeter(mail[b]) => OnlyMeter(Tail(mail[b]))
  BY <1>1, TailInOrder
<1>6. InOrder(mail[b], register[b])'
  BY <1>4, <1>5 DEF InOrder
<1>7. /\ NoStart(mail[b]) => NoStart(mail[b])'
      /\ OnlyMeter(mail[b]) => OnlyMeter(mail[b])'
  BY <1>4, <1>5 DEF NoStart, OnlyMeter
<1>8. /\ Len(mail[b]) = 1 <=> Tail(mail[b]) = <<>>
      /\ Tail(mail[b]) # <<>> => /\ Len(Tail(mail[b])) \in DOMAIN Tail(mail[b])
                                 /\ Tail(mail[b])[Len(Tail(mail[b]))] = mail[b][Len(mail[b])]
  <2>1. Len(Tail(mail[b])) = Len(mail[b]) - 1
    BY <1>1, HeadTailProperties
  <2>2. DOMAIN Tail(mail[b]) = 1..Len(Tail(mail[b])) /\ Len(Tail(mail[b])) \in Nat
    BY <1>2, LenProperties
  <2>3. Len(Tail(mail[b])) = 0 <=> Tail(mail[b]) = <<>>
    BY <1>2, EmptySeq
  <2>4. Len(mail[b]) = 1 <=> Len(Tail(mail[b])) = 0
    BY <1>2, <2>1
  <2>5. Len(Tail(mail[b])) # 0 => Len(Tail(mail[b])) \in DOMAIN Tail(mail[b])
    <3>1. \A n \in Nat : n # 0 => n \in 1..n
      OBVIOUS
    <3> QED
      BY <2>2, <3>1
  <2>6. Len(Tail(mail[b])) + 1 = Len(mail[b])
    BY <1>2, <2>1
  <2> QED
    BY <1>2, <2>3, <2>4, <2>5, <2>6
<1>9. /\ cp'[b].mode = cp[b].mode /\ cp'[b].tx = cp[b].tx
      /\ cp'[b].answer # cp[b].answer =>
           cp[b].mode = mode /\ Len(mail[b]) = 1 /\ cp'[b].answer = value
      /\ cp[b].mode = mode /\ Len(mail[b]) = 1 => cp'[b].answer = value
      /\ \A c \in Bays \ {b} : cp'[c] = cp[c]
  <2> DEFINE told == [cp[b] EXCEPT !.answer = value]
  <2>1. told.mode = cp[b].mode /\ told.tx = cp[b].tx /\ told.answer = value
    BY <1>1 DEF ChargerRows
  <2>2. IF cp[b].mode = mode /\ Len(mail[b]) = 1 THEN cp' = [cp EXCEPT ![b] = told] ELSE cp' = cp
    BY DEF Answer
  <2> HIDE DEF told
  <2> QED
    BY <1>1, <2>1, <2>2
<1> HIDE DEF m
<1> QED
  BY <1>1, <1>2, <1>3, <1>4, <1>5, <1>6, <1>7, <1>8, <1>9 DEF m

\* A start gives the bay's declared session, or a new one, the next transaction,
\* and closes what was active there.
StartsOn(b, id, wh) ==
  /\ link' = [link EXCEPT ![b] = id]
  /\ id \in CreatedIds => sessions[id].bay = b
  /\ sessions'[id].status = "active" /\ sessions'[id].bay = b
  /\ sessions'[id].tx = lastTx + 1
  /\ sessions'[id].start = wh /\ sessions'[id].last = wh
  /\ \A s \in Ids \ {id} :
       /\ sessions'[s].bay = sessions[s].bay /\ sessions'[s].tx = sessions[s].tx
       /\ sessions'[s].start = sessions[s].start /\ sessions'[s].last = sessions[s].last
       /\ \/ sessions'[s].status = sessions[s].status
          \/ s \in ActiveOn(b) /\ sessions'[s].status = "aborted"

LEMMA StartedRows ==
  ASSUME TypeOK, IInv, NEW b \in Bays, HandleStart(b)
  PROVE  \E id \in Ids : StartsOn(b, id, Head(mail[b]).wh)
<1> DEFINE m == Head(mail[b])
           found == FindPending(b, m.driver)
           id == IF found = 0 THEN LastId + 1 ELSE found
           base == IF found = 0 THEN Declared(m.driver, b, "rfid", now + DwellHours)
                   ELSE sessions[found]
           started == Started(base, NextTx, m.wh)
<1>1. /\ id \in Ids /\ link' = [link EXCEPT ![b] = id]
      /\ sessions' = [s \in Ids |-> IF s \in Stale(b) THEN Aborted(sessions[s])
                                    ELSE IF s = id THEN started
                                    ELSE sessions[s]]
  BY DEF HandleStart
<1>2. \/ found = 0 /\ PendingOn(b) = {}
      \/ found \in Ids /\ PendingOn(b) = {found}
  BY FoundIsPending
<1>3. LastId + 1 \notin CreatedIds /\ 0 \notin Ids
  BY NextIdIsFree, BoundsAssumption DEF Ids
<1>4. /\ id \in CreatedIds => sessions[id].bay = b
      /\ id \notin ActiveOn(b)
  BY <1>2, <1>3 DEF PendingOn, ActiveOn, CreatedIds
<1>5. base.bay = b /\ Fields \subseteq DOMAIN base
  <2>1. CASE found = 0
    BY <2>1, DeclaredRow DEF IsSession
  <2>2. CASE found # 0
    <3>1. found \in Ids /\ found \in PendingOn(b) /\ base = sessions[found]
      BY <1>2, <2>2
    <3> QED
      BY <3>1 DEF IInv, Shapes, IsSession, PendingOn
  <2> QED
    BY <2>1, <2>2
<1> HIDE DEF base
<1>6. /\ started.status = "active" /\ started.bay = b /\ started.tx = lastTx + 1
      /\ started.start = m.wh /\ started.last = m.wh
  BY <1>5 DEF Started, NextTx, Fields
<1>7. \A s \in Stale(b) : s \in ActiveOn(b)
  BY DEF Stale
<1> HIDE DEF id, started
<1>8. sessions'[id] = started
  BY <1>1, <1>4, <1>7
<1>9. \A s \in Ids \ {id} : \/ s \in ActiveOn(b) /\ sessions'[s] = Aborted(sessions[s])
                            \/ sessions'[s] = sessions[s]
  BY <1>1, <1>7
<1>10. \A s \in Ids :
         /\ Aborted(sessions[s]).bay = sessions[s].bay /\ Aborted(sessions[s]).tx = sessions[s].tx
         /\ Aborted(sessions[s]).start = sessions[s].start
         /\ Aborted(sessions[s]).last = sessions[s].last
         /\ Aborted(sessions[s]).status = "aborted"
  BY DEF Aborted, IInv, Shapes, IsSession, Fields
<1>11. \A s \in Ids \ {id} :
         /\ sessions'[s].bay = sessions[s].bay /\ sessions'[s].tx = sessions[s].tx
         /\ sessions'[s].start = sessions[s].start /\ sessions'[s].last = sessions[s].last
         /\ \/ sessions'[s].status = sessions[s].status
            \/ s \in ActiveOn(b) /\ sessions'[s].status = "aborted"
  BY <1>9, <1>10
<1>12. StartsOn(b, id, m.wh)
  BY <1>1, <1>4, <1>6, <1>8, <1>11 DEF StartsOn
<1> QED
  BY <1>1, <1>12

\* The bay of a StartTransaction, and every other.
LEMMA HandleStartKeepsBays ==
  ASSUME TypeOK, IInv, \A c \in Bays : BayOk(c), NEW b \in Bays, HandleStart(b)
  PROVE  \A c \in Bays : BayOk(c)'
<1> DEFINE m == mail[b][1]
<1>0. HasMail(b, "start") /\ Answer(b, "starting", NextTx)
  BY DEF HandleStart
<1>1. /\ m = Head(mail[b]) /\ m.kind = "start" /\ m.wh \in Nat /\ 1 \in DOMAIN mail[b] /\ mail[b] # <<>>
      /\ mail[b] \in Seq(Messages)
      /\ mail'[b] = Tail(mail[b]) /\ register' = register
      /\ InOrder(mail[b], register[b])' /\ m.wh <= register[b]
      /\ \A i \in DOMAIN mail'[b] : /\ m.wh <= mail'[b][i].wh
                                    /\ i + 1 \in DOMAIN mail[b] /\ mail'[b][i] = mail[b][i + 1]
                                    /\ mail'[b][i].kind = "start"
      /\ cp'[b].mode = cp[b].mode /\ cp'[b].tx = cp[b].tx
      /\ cp'[b].answer # cp[b].answer =>
           cp[b].mode = "starting" /\ mail'[b] = <<>> /\ cp'[b].answer = NextTx
      /\ cp[b].mode = "starting" /\ mail'[b] = <<>> => cp'[b].answer = NextTx
      /\ mail'[b] # <<>> => Len(mail'[b]) \in DOMAIN mail'[b]
      /\ \A c \in Bays \ {b} : cp'[c] = cp[c] /\ mail'[c] = mail[c]
  <2>1. BayOk(b)
    OBVIOUS
  <2> QED
    BY <1>0, <2>1, Taken
<1> HIDE DEF m
<1>a. PICK id \in Ids : StartsOn(b, id, m.wh)
  BY <1>1, StartedRows
<1>2. /\ link' = [link EXCEPT ![b] = id]
      /\ id \in CreatedIds => sessions[id].bay = b
      /\ sessions'[id].status = "active" /\ sessions'[id].bay = b
      /\ sessions'[id].tx = lastTx + 1
      /\ sessions'[id].start = m.wh /\ sessions'[id].last = m.wh
      /\ \A s \in Ids \ {id} :
           /\ sessions'[s].bay = sessions[s].bay /\ sessions'[s].tx = sessions[s].tx
           /\ sessions'[s].start = sessions[s].start /\ sessions'[s].last = sessions[s].last
           /\ \/ sessions'[s].status = sessions[s].status
              \/ s \in ActiveOn(b) /\ sessions'[s].status = "aborted"
  BY <1>a DEF StartsOn
<1>3. /\ CreatedIds' = CreatedIds \cup {id} /\ CreatedIds \subseteq Ids
      /\ \A s \in CreatedIds : sessions[s].tx \in Nat /\ sessions[s].tx <= lastTx
      /\ lastTx \in Nat /\ NextTx = lastTx + 1
  BY <1>2, Numbers DEF CreatedIds, ActiveOn, IInv, Shapes, TransactionsNameSessions, NextTx
<1>4. ASSUME NEW c \in Bays, c # b
      PROVE  BayOk(c)'
  <2>1. \A s \in Ids : Unmoved(s, c)
    <3>1. Unmoved(id, c)
      BY <1>2, <1>4 DEF Unmoved
    <3>2. ASSUME NEW s \in Ids \ {id} PROVE Unmoved(s, c)
      <4>1. CASE s \in ActiveOn(b)
        BY <1>2, <1>4, <3>2, <4>1 DEF Unmoved, ActiveOn
      <4>2. CASE s \notin ActiveOn(b)
        BY <1>2, <3>2, <4>2 DEF Unmoved, CreatedIds
      <4> QED
        BY <4>1, <4>2
    <3> QED
      BY <3>1, <3>2
  <2>2. link'[c] = link[c]
    BY <1>2, <1>4, Typed
  <2> QED
    BY <1>1, <1>4, <2>1, <2>2, Elsewhere
<1>5. \A t : t = NextTx => Runs(b, t)' /\ NewestOn(b, t)'
  <2>1. link'[b] = id
    BY <1>2, Typed
  <2>2. id \in ActiveOn(b)' /\ id \in CreatedIds'
    BY <1>2, <1>3 DEF ActiveOn
  <2>3. \A t : t = NextTx => Runs(b, t)'
    BY <1>2, <1>3, <2>1, <2>2 DEF Runs
  <2>4. \A s \in CreatedIds' : sessions'[s].tx <= NextTx
    BY <1>2, <1>3
  <2>5. NextTx # 0
    BY <1>3
  <2>6. \A t : t = NextTx => NewestOn(b, t)'
    BY <1>2, <1>3, <2>2, <2>4, <2>5 DEF NewestOn
  <2> QED
    BY <2>3, <2>6
<1>6. BelievesRightly(b)'
  <2>1. BelievesRightly(b) /\ ~NoStart(mail[b]) /\ ~OnlyMeter(mail[b])
    BY <1>1 DEF BayOk, NoStart, OnlyMeter
  <2>2. cp[b].mode \notin {"charging", "stopping"}
    BY <2>1 DEF BelievesRightly
  <2>3. CASE cp[b].mode = "starting" /\ mail'[b] = <<>>
    <3>1. \A t : t = cp'[b].answer /\ NewestOn(b, t)' /\ Runs(b, t)'
                => NewestOn(b, cp[b].answer)' /\ Runs(b, cp[b].answer)'
      BY DEF NewestOn, Runs
    <3> QED
      BY <1>1, <1>5, <2>3, <3>1 DEF BelievesRightly
  <2>4. CASE cp[b].mode = "starting" /\ mail'[b] # <<>>
    <3>1. cp[b].answer = 0
      BY <1>1, <2>1, <2>4 DEF BelievesRightly
    <3>2. cp'[b].answer = 0 /\ mail'[b][Len(mail'[b])].kind = "start"
      BY <1>1, <2>4, <3>1
    <3> QED
      BY <1>1, <2>4, <3>2 DEF BelievesRightly
  <2>5. CASE cp[b].mode # "starting"
    BY <1>1, <2>2, <2>5 DEF BelievesRightly
  <2> QED
    BY <2>3, <2>4, <2>5
<1>7. AboutTheNewest(b)'
  BY <1>1 DEF AboutTheNewest
<1>8. NotAhead(b)'
  <2>1. /\ m.wh <= m.wh /\ m.wh <= register'[b]
        /\ \A i \in DOMAIN mail'[b] : m.wh <= mail'[b][i].wh
    BY <1>1
  <2>2. ASSUME NEW s \in CreatedIds', sessions'[s].bay = b
        PROVE  /\ sessions'[s].start <= sessions'[s].last
               /\ sessions'[s].last <= register'[b]
               /\ \A i \in DOMAIN mail'[b] : sessions'[s].last <= mail'[b][i].wh
    <3>1. CASE s = id
      BY <1>2, <2>1, <3>1
    <3>2. CASE s # id
      <4>1. /\ s \in CreatedIds /\ sessions[s].bay = b
            /\ sessions'[s].start = sessions[s].start /\ sessions'[s].last = sessions[s].last
        BY <1>2, <1>3, <2>2, <3>2
      <4> QED
        BY <1>1, <4>1 DEF BayOk, NotAhead
    <3> QED
      BY <3>1, <3>2
  <2> QED
    BY <2>2 DEF NotAhead
<1>9. OneAfterAnother(b)'
  <2>1. ASSUME NEW r \in CreatedIds', NEW s \in CreatedIds',
               sessions'[r].bay = b, sessions'[s].bay = b,
               sessions'[r].tx # 0, sessions'[r].tx < sessions'[s].tx
        PROVE  sessions'[r].last <= sessions'[s].start
    <3>1. \A q \in CreatedIds' : q # id => q \in CreatedIds /\ sessions'[q].tx <= lastTx
      BY <1>2, <1>3
    <3>2. r # id
      BY <1>2, <1>3, <2>1, <3>1
    <3>3. /\ r \in CreatedIds /\ sessions[r].bay = b /\ sessions'[r].last = sessions[r].last
          /\ sessions[r].tx = sessions'[r].tx
      BY <1>2, <1>3, <2>1, <3>1, <3>2
    <3>4. CASE s = id
      BY <1>1, <1>2, <3>3, <3>4 DEF BayOk, NotAhead
    <3>5. CASE s # id
      <4>1. /\ s \in CreatedIds /\ sessions[s].bay = b /\ sessions'[s].start = sessions[s].start
            /\ sessions[s].tx = sessions'[s].tx
        BY <1>2, <1>3, <2>1, <3>1, <3>5
      <4> QED
        BY <2>1, <3>3, <4>1 DEF BayOk, OneAfterAnother
    <3> QED
      BY <3>4, <3>5
  <2> QED
    BY <2>1 DEF OneAfterAnother
<1>10. NothingYet(b)'
  <2>1. \A s \in CreatedIds' : sessions'[s].bay = b /\ sessions'[s].tx = 0 =>
          /\ s \in CreatedIds /\ sessions[s].bay = b /\ sessions[s].tx = 0
          /\ sessions'[s].last = sessions[s].last
    BY <1>2, <1>3
  <2> QED
    BY <2>1 DEF BayOk, NothingYet
<1>11. BayOk(b)'
  BY <1>1, <1>6, <1>7, <1>8, <1>9, <1>10 DEF BayOk
<1> QED
  BY <1>4, <1>11

\* A reading or an end is about the newest session of its bay, and no other.
LEMMA AboutOneSession ==
  ASSUME TypeOK, IInv, NEW b \in Bays, BayOk(b), NEW i \in DOMAIN mail[b],
         mail[b][i].kind # "start"
  PROVE  \E s \in CreatedIds :
           /\ WithTx(mail[b][i].tx) = {s} /\ sessions[s].bay = b
           /\ sessions[s].tx = mail[b][i].tx /\ NewestOn(b, mail[b][i].tx)
<1>1. NewestOn(b, mail[b][i].tx)
  BY DEF BayOk, AboutTheNewest
<1>2. PICK s \in CreatedIds : sessions[s].bay = b /\ sessions[s].tx = mail[b][i].tx
  BY <1>1 DEF NewestOn
<1>3. sessions[s].tx # 0
  BY <1>1, <1>2 DEF NewestOn
<1>4. WithTx(mail[b][i].tx) = {s}
  BY <1>2, <1>3 DEF WithTx, IInv, TransactionsNameSessions
<1> QED
  BY <1>1, <1>2, <1>4

\* Only the newest session of bay b has counted on, up to wh, or ended.
CountsOn(b, s, wh) ==
  /\ sessions'[s].bay = b /\ sessions'[s].tx = sessions[s].tx
  /\ sessions'[s].start = sessions[s].start
  /\ sessions'[s].last \in {sessions[s].last, wh}
  /\ sessions'[s].status # "none"
  /\ \A r \in Ids \ {s} : sessions'[r] = sessions[r]

\* What readings and ends have in common.
LEMMA CountsOnKeepsBays ==
  ASSUME TypeOK, IInv, NEW b \in Bays, NEW s \in CreatedIds, NEW wh \in Nat,
         \A c \in Bays : BayOk(c),
         CountsOn(b, s, wh), sessions[s].bay = b, NewestOn(b, sessions[s].tx),
         wh <= register[b], \A i \in DOMAIN mail'[b] : wh <= mail'[b][i].wh,
         sessions[s].last <= wh,
         InOrder(mail[b], register[b])', register' = register,
         \A i \in DOMAIN mail'[b] : i + 1 \in DOMAIN mail[b] /\ mail'[b][i] = mail[b][i + 1],
         \A c \in Bays \ {b} : cp'[c] = cp[c] /\ mail'[c] = mail[c] /\ link'[c] = link[c]
  PROVE  /\ \A c \in Bays \ {b} : BayOk(c)'
         /\ \A t : NewestOn(b, t) => NewestOn(b, t)'
         /\ BelievesRightly(b)' => BayOk(b)'
<1>1. /\ CreatedIds' = CreatedIds /\ CreatedIds \subseteq Ids
      /\ \A r \in Ids : sessions'[r].tx = sessions[r].tx /\ sessions'[r].start = sessions[r].start
      /\ \A r \in Ids : sessions'[r].bay = sessions[r].bay
      /\ \A r \in Ids : sessions[r].start \in Nat /\ sessions[r].last \in Nat /\ sessions[r].tx \in Nat
  BY Numbers DEF CountsOn, CreatedIds
<1>2. ASSUME NEW c \in Bays, c # b
      PROVE  BayOk(c)'
  <2>1. \A r \in Ids : Unmoved(r, c)
    BY <1>1, <1>2 DEF CountsOn, Unmoved
  <2> QED
    BY <1>2, <2>1, Elsewhere
<1>3. \A t : NewestOn(b, t) => NewestOn(b, t)'
  BY <1>1 DEF NewestOn
<1>4. AboutTheNewest(b)'
  BY <1>3 DEF BayOk, AboutTheNewest
<1>5. NotAhead(b)'
  <2>1. ASSUME NEW r \in CreatedIds, sessions[r].bay = b
        PROVE  /\ sessions'[r].start <= sessions'[r].last
               /\ sessions'[r].last <= register'[b]
               /\ \A i \in DOMAIN mail'[b] : sessions'[r].last <= mail'[b][i].wh
    <3>1. /\ sessions[r].start <= sessions[r].last /\ sessions[r].last <= register[b]
          /\ \A i \in DOMAIN mail'[b] : sessions[r].last <= mail'[b][i].wh
      BY <2>1 DEF BayOk, NotAhead
    <3>2. CASE sessions'[r].last = sessions[r].last
      BY <1>1, <3>1, <3>2
    <3>3. CASE r = s /\ sessions'[r].last = wh
      BY <1>1, <3>1, <3>3
    <3> QED
      BY <1>1, <3>2, <3>3 DEF CountsOn
  <2> QED
    BY <1>1, <2>1 DEF NotAhead
<1>6. OneAfterAnother(b)'
  <2>1. \A r, q \in CreatedIds :
          sessions[r].bay = b /\ sessions[q].bay = b /\ sessions[r].tx # 0 /\ sessions[r].tx < sessions[q].tx
          => r # s /\ sessions'[r].last = sessions[r].last
    BY <1>1 DEF NewestOn, CountsOn
  <2> QED
    BY <1>1, <2>1 DEF BayOk, OneAfterAnother
<1>7. NothingYet(b)'
  <2>1. sessions[s].tx # 0
    BY DEF NewestOn
  <2> QED
    BY <1>1, <2>1 DEF BayOk, NothingYet, CountsOn
<1> QED
  BY <1>2, <1>3, <1>4, <1>5, <1>6, <1>7 DEF BayOk

LEMMA HandleMeterKeepsBays ==
  ASSUME TypeOK, IInv, \A c \in Bays : BayOk(c), NEW b \in Bays, HandleMeter(b)
  PROVE  \A c \in Bays : BayOk(c)'
<1> DEFINE m == mail[b][1]
<1>0. HasMail(b, "meter") /\ Answer(b, "charging", 0) /\ BayOk(b) /\ link' = link
  BY DEF HandleMeter
<1>1. /\ m = Head(mail[b]) /\ m.kind = "meter" /\ m.wh \in Nat /\ 1 \in DOMAIN mail[b] /\ mail[b] # <<>>
      /\ register' = register /\ InOrder(mail[b], register[b])' /\ m.wh <= register[b]
      /\ \A i \in DOMAIN mail'[b] : m.wh <= mail'[b][i].wh
      /\ \A i \in DOMAIN mail'[b] : i + 1 \in DOMAIN mail[b] /\ mail'[b][i] = mail[b][i + 1]
      /\ NoStart(mail[b]) => NoStart(mail[b])'
      /\ OnlyMeter(mail[b]) => OnlyMeter(mail[b])'
      /\ cp'[b].mode = cp[b].mode /\ cp'[b].tx = cp[b].tx
      /\ cp[b].mode # "charging" => cp'[b].answer = cp[b].answer
      /\ mail'[b] # <<>> => mail'[b][Len(mail'[b])] = mail[b][Len(mail[b])]
      /\ mail'[b] = <<>> => mail[b][Len(mail[b])] = m
      /\ \A c \in Bays \ {b} : cp'[c] = cp[c] /\ mail'[c] = mail[c] /\ link'[c] = link[c]
  BY <1>0, Taken
<1>2. PICK s \in CreatedIds :
        /\ WithTx(m.tx) = {s} /\ sessions[s].bay = b
        /\ sessions[s].tx = m.tx /\ NewestOn(b, m.tx)
  BY <1>0, <1>1, AboutOneSession
<1>3. sessions[s].last <= m.wh
  BY <1>0, <1>1, <1>2 DEF BayOk, NotAhead
<1> DEFINE heard == {r \in WithTx(m.tx) : sessions[r].status = "active" /\ m.wh + 1 >= sessions[r].last}
<1>4. sessions' = [r \in Ids |-> IF r \in heard THEN [sessions[r] EXCEPT !.last = m.wh]
                                 ELSE sessions[r]]
  BY <1>1 DEF HandleMeter
<1>5. heard \subseteq {s} /\ s \in Ids /\ sessions[s].status # "none"
  BY <1>2 DEF CreatedIds
<1> HIDE DEF heard, m
<1>6. CountsOn(b, s, m.wh) /\ \A r \in Ids : sessions'[r].status = sessions[r].status
  BY <1>2, <1>4, <1>5, Typed DEF CountsOn, Rows
<1>7. /\ \A c \in Bays \ {b} : BayOk(c)'
      /\ \A t : NewestOn(b, t) => NewestOn(b, t)'
      /\ BelievesRightly(b)' => BayOk(b)'
  BY <1>1, <1>2, <1>3, <1>6, CountsOnKeepsBays
<1>8. \A t : Runs(b, t) => Runs(b, t)'
  BY <1>0, <1>2, <1>6 DEF Runs, ActiveOn, CountsOn
<1>9. \A t : t = cp'[b].tx => (NewestOn(b, t)' => NewestOn(b, cp[b].tx)') /\ (Runs(b, t)' => Runs(b, cp[b].tx)')
  BY DEF NewestOn, Runs
<1>10. BelievesRightly(b)
  BY <1>0 DEF BayOk
<1>11. cp[b].mode \in {"charging", "stopping"} => NewestOn(b, cp[b].tx)' /\ NoStart(mail[b])'
  BY <1>1, <1>7, <1>9, <1>10 DEF BelievesRightly
<1>12. cp[b].mode = "charging" => Runs(b, cp[b].tx)' /\ OnlyMeter(mail[b])'
  BY <1>1, <1>8, <1>9, <1>10 DEF BelievesRightly
<1>13. cp[b].mode = "starting" => /\ cp'[b].answer = 0
                                  /\ mail'[b] # <<>> /\ mail'[b][Len(mail'[b])].kind = "start"
  BY <1>1, <1>10 DEF BelievesRightly
<1>14. BelievesRightly(b)'
  BY <1>1, <1>11, <1>12, <1>13 DEF BelievesRightly
<1> QED
  BY <1>7, <1>14

LEMMA HandleStopKeepsBays ==
  ASSUME TypeOK, IInv, \A c \in Bays : BayOk(c), NEW b \in Bays, HandleStop(b)
  PROVE  \A c \in Bays : BayOk(c)'
<1> DEFINE m == mail[b][1]
<1>0. HasMail(b, "stop") /\ Answer(b, "stopping", m.tx) /\ BayOk(b)
  <2>1. HasMail(b, "stop") /\ Answer(b, "stopping", Head(mail[b]).tx) /\ BayOk(b)
    BY DEF HandleStop
  <2>2. mail[b] \in Seq(Messages) /\ mail[b] # <<>>
    BY <2>1, Numbers DEF HasMail
  <2> QED
    BY <2>1, <2>2, FirstHandled
<1>1. /\ m = Head(mail[b]) /\ m.kind = "stop" /\ m.wh \in Nat /\ 1 \in DOMAIN mail[b] /\ mail[b] # <<>>
      /\ register' = register /\ InOrder(mail[b], register[b])' /\ m.wh <= register[b]
      /\ \A i \in DOMAIN mail'[b] : m.wh <= mail'[b][i].wh
      /\ \A i \in DOMAIN mail'[b] : i + 1 \in DOMAIN mail[b] /\ mail'[b][i] = mail[b][i + 1]
      /\ NoStart(mail[b]) => NoStart(mail[b])'
      /\ cp'[b].mode = cp[b].mode /\ cp'[b].tx = cp[b].tx
      /\ cp[b].mode # "stopping" => cp'[b].answer = cp[b].answer
      /\ mail'[b] # <<>> => mail'[b][Len(mail'[b])] = mail[b][Len(mail[b])]
      /\ mail'[b] = <<>> => mail[b][Len(mail[b])] = m
      /\ \A c \in Bays \ {b} : cp'[c] = cp[c] /\ mail'[c] = mail[c]
  BY <1>0, Taken
<1>2. PICK s \in CreatedIds :
        /\ WithTx(m.tx) = {s} /\ sessions[s].bay = b
        /\ sessions[s].tx = m.tx /\ NewestOn(b, m.tx)
  BY <1>0, <1>1, AboutOneSession
<1>3. sessions[s].last <= m.wh
  BY <1>0, <1>1, <1>2 DEF BayOk, NotAhead
<1> DEFINE ended == WithTx(m.tx)
<1>4. /\ sessions' = [r \in Ids |-> IF r \in ended
                                    THEN [sessions[r] EXCEPT !.status = "complete", !.last = m.wh]
                                    ELSE sessions[r]]
      /\ link' = [c \in Bays |-> IF \E r \in ended : sessions[r].bay = c THEN 0 ELSE link[c]]
  BY <1>1 DEF HandleStop
<1>5. s \in Ids /\ \A c \in Bays \ {b} : link'[c] = link[c]
  BY <1>2, <1>4 DEF CreatedIds
<1> HIDE DEF m
<1>6. CountsOn(b, s, m.wh)
  <2>1. /\ sessions'[s] = [sessions[s] EXCEPT !.status = "complete", !.last = m.wh]
        /\ \A r \in Ids \ {s} : sessions'[r] = sessions[r]
    BY <1>2, <1>4, <1>5
  <2>2. sessions[s] \in Rows
    BY <1>5, Typed
  <2> QED
    BY <1>2, <2>1, <2>2 DEF CountsOn, Rows
<1>7. /\ \A c \in Bays \ {b} : BayOk(c)'
      /\ \A t : NewestOn(b, t) => NewestOn(b, t)'
      /\ BelievesRightly(b)' => BayOk(b)'
  <2>1. \A c \in Bays \ {b} : cp'[c] = cp[c] /\ mail'[c] = mail[c] /\ link'[c] = link[c]
    BY <1>1, <1>5
  <2> QED
    BY <1>1, <1>2, <1>3, <1>6, <2>1, CountsOnKeepsBays
<1>8. \A t : t = cp'[b].tx => (NewestOn(b, t)' => NewestOn(b, cp[b].tx)')
  BY DEF NewestOn
<1>9. BelievesRightly(b)
  BY <1>0 DEF BayOk
<1>10. cp[b].mode # "charging"
  BY <1>1, <1>9 DEF BelievesRightly, OnlyMeter
<1>11. cp[b].mode = "stopping" => NewestOn(b, cp[b].tx)' /\ NoStart(mail[b])'
  BY <1>1, <1>7, <1>8, <1>9 DEF BelievesRightly
<1>12. cp[b].mode = "starting" => /\ cp'[b].answer = 0
                                  /\ mail'[b] # <<>> /\ mail'[b][Len(mail'[b])].kind = "start"
  BY <1>1, <1>9 DEF BelievesRightly
<1>13. BelievesRightly(b)'
  BY <1>1, <1>10, <1>11, <1>12 DEF BelievesRightly
<1> QED
  BY <1>7, <1>13

\* What happens at one bay leaves the others as they are.
LEMMA ChargerKeepsBays ==
  ASSUME TypeOK, Plugged, \A c \in Bays : BayOk(c), NEW b \in Bays,
         \/ TakeAnswer(b) \/ Meter(b) \/ Unplug(b) \/ Repeat(b) \/ Restart(b)
         \/ \E d \in Drivers : PlugIn(b, d)
  PROVE  \A c \in Bays : BayOk(c)'
<1>1. BayOk(b)'
  <2>1. BayOk(b)
    OBVIOUS
  <2> QED
    BY <2>1, ChargerKeepsItsBay
<1>2. ASSUME NEW c \in Bays, c # b
      PROVE  BayOk(c)'
  <2>1. UNCHANGED serverVars
    BY DEF TakeAnswer, Meter, Unplug, Repeat, Restart, PlugIn
  <2>2. \A s \in Ids : Unmoved(s, c)
    BY <2>1 DEF serverVars, Unmoved, CreatedIds
  <2>3. cp'[c] = cp[c] /\ mail'[c] = mail[c] /\ register'[c] = register[c]
    BY <1>2, Typed DEF TakeAnswer, Meter, Unplug, Repeat, Restart, PlugIn, Ask
  <2>4. link'[c] = link[c]
    BY <2>1 DEF serverVars
  <2> QED
    BY <1>2, <2>2, <2>3, <2>4, Elsewhere
<1> QED
  BY <1>1, <1>2

\* Every step keeps every bay right.
LEMMA NextKeepsBays ==
  ASSUME TypeOK, Plugged, IInv, \A c \in Bays : BayOk(c), [Next]_vars
  PROVE  \A c \in Bays : BayOk(c)'
<1>1. ASSUME NEW b \in Bays, \A s \in Ids : Unmoved(s, b), UNCHANGED <<link, cp, mail, register>>
      PROVE  BayOk(b)'
  BY <1>1, Elsewhere
<1>2. ASSUME NEW d \in Drivers, NEW b \in Bays, NEW t, Declare(d, b, t)
      PROVE  \A c \in Bays : BayOk(c)'
  <2> DEFINE new == Declared(d, b, "app", t)
  <2>1. sessions' = [sessions EXCEPT ![LastId + 1] = new] /\ UNCHANGED <<link, cp, mail, register>>
    BY <1>2 DEF Declare, chargerVars
  <2>2. new.tx = 0 /\ new.start = 0 /\ new.last = 0 /\ new.status # "none"
    BY DEF Declared, Nothing
  <2>3. LastId + 1 \notin CreatedIds
    BY NextIdIsFree
  <2> HIDE DEF new
  <2>4. ASSUME NEW c \in Bays, NEW s \in Ids
        PROVE  Unmoved(s, c)
    BY <2>1, <2>2, <2>3, Typed DEF Unmoved, CreatedIds
  <2> QED
    BY <1>1, <2>1, <2>4
<1>3. ASSUME NEW s \in Ids, NEW t, Patch(s, t)
      PROVE  \A c \in Bays : BayOk(c)'
  <2>1. UNCHANGED <<link, cp, mail, register>> /\ sessions' = [sessions EXCEPT ![s].deadline = t]
    BY <1>3 DEF Patch, chargerVars
  <2>2. \A r \in Ids : /\ sessions'[r].status = sessions[r].status /\ sessions'[r].bay = sessions[r].bay
                       /\ sessions'[r].tx = sessions[r].tx /\ sessions'[r].start = sessions[r].start
                       /\ sessions'[r].last = sessions[r].last
    BY <2>1, Typed DEF Rows
  <2>3. ASSUME NEW c \in Bays, NEW r \in Ids
        PROVE  Unmoved(r, c)
    BY <2>2 DEF Unmoved, CreatedIds
  <2> QED
    BY <1>1, <2>1, <2>3
<1>4. ASSUME NEW s \in Ids, RemoteStop(s)
      PROVE  \A c \in Bays : BayOk(c)'
  <2>1. sessions[s].bay \in Bays /\ Unplug(sessions[s].bay)
    BY <1>4 DEF RemoteStop, IsOpen, IInv, OnABay, CreatedIds
  <2> QED
    BY <2>1, ChargerKeepsBays
<1>5. ASSUME NEW b \in Bays, Handle(b)
      PROVE  \A c \in Bays : BayOk(c)'
  BY <1>5, HandleStartKeepsBays, HandleMeterKeepsBays, HandleStopKeepsBays DEF Handle
<1>6. ASSUME NEW b \in Bays,
             \/ TakeAnswer(b) \/ Meter(b) \/ Unplug(b) \/ Repeat(b) \/ Restart(b)
             \/ \E d \in Drivers : PlugIn(b, d)
      PROVE  \A c \in Bays : BayOk(c)'
  BY <1>6, ChargerKeepsBays
<1>7. CASE Tick \/ UNCHANGED vars
  <2>1. UNCHANGED <<sessions, link, cp, mail, register>>
    BY <1>7 DEF Tick, vars, chargerVars
  <2>2. ASSUME NEW c \in Bays, NEW r \in Ids
        PROVE  Unmoved(r, c)
    BY <2>1 DEF Unmoved, CreatedIds
  <2> QED
    BY <1>1, <2>1, <2>2
<1> QED
  BY <1>2, <1>3, <1>4, <1>5, <1>6, <1>7 DEF Next

\* The chargers begin idle, with nothing in their mail.
LEMMA InitInv == Init => Inv
<1> SUFFICES ASSUME Init PROVE Inv
  OBVIOUS
<1>1. IInv
  BY InitIInv
<1>2. Nothing \in Rows
  BY DEF Nothing, Rows, Statuses
<1>3. Idle \in ChargerRows /\ Idle.mode = "idle"
  BY DEF Idle, ChargerRows
<1>4. 0 \in 0..MaxNow /\ 0 \in 0..MaxFaults /\ 0 \in 0..MaxWh /\ <<>> \in Seq(Messages)
  BY BoundsAssumption
<1>5. TypeOK /\ Plugged
  BY <1>2, <1>3, <1>4, Typed DEF Init, Plugged
<1>6. CreatedIds = {}
  BY DEF Init, CreatedIds, Nothing
<1>7. ASSUME NEW b \in Bays
      PROVE  BayOk(b)
  <2>1. mail[b] = <<>> /\ register[b] = 0 /\ cp[b].mode = "idle"
    BY <1>3 DEF Init
  <2> QED
    BY <1>6, <2>1, EmptyMail DEF BayOk, BelievesRightly, AboutTheNewest, NotAhead,
       OneAfterAnother, NothingYet
<1> QED
  BY <1>1, <1>5, <1>7 DEF Inv

-----------------------------------------------------------------------------

\* The chargers and the server agree in every reachable state.
THEOREM ChargersAndServerAgree == Spec => []Inv
<1>1. Inv /\ [Next]_vars => Inv'
  BY NextStep, NextTypes, NextKeepsBays DEF Inv
<1> QED
  BY <1>1, InitInv, PTL DEF Spec

\* Every variable keeps its type.
THEOREM TypeCorrect == Spec => []TypeOK
<1>1. Inv => TypeOK
  BY DEF Inv
<1> QED
  BY <1>1, ChargersAndServerAgree, PTL

\* While a charger runs a transaction the server holds it as an active session
\* of that bay, and the connector's row points at it: whatever was declared,
\* restarted, lost or repeated, here or elsewhere.
THEOREM ChargingCarsAreActive == Spec => []ChargingIsActive
<1>1. Inv => ChargingIsActive
  BY DEF Inv, ChargingIsActive, BayOk, BelievesRightly, Runs
<1> QED
  BY <1>1, ChargersAndServerAgree, PTL

\* No energy is counted for two sessions, and none that the meter does not show.
THEOREM NoEnergyCountsTwice == Spec => []EnergyCountedOnce
<1>1. ASSUME Inv, NEW b \in Bays, NEW s \in CreatedIds, sessions[s].bay = b
      PROVE  Counted(s) \subseteq 1..register[b]
  <2>1. sessions[s].last <= register[b]
    BY <1>1 DEF Inv, BayOk, NotAhead
  <2>2. sessions[s].start \in Nat /\ sessions[s].last \in Nat /\ register[b] \in Nat
    BY <1>1, Numbers DEF Inv
  <2> QED
    BY <2>1, <2>2 DEF Counted
<1>2. ASSUME Inv, NEW b \in Bays, NEW r \in CreatedIds, NEW s \in CreatedIds, r # s,
             sessions[r].bay = b, sessions[s].bay = b
      PROVE  Counted(r) \cap Counted(s) = {}
  <2>1. \A q \in CreatedIds : /\ sessions[q].start \in Nat /\ sessions[q].last \in Nat
                              /\ sessions[q].tx \in Nat
    BY <1>2, Numbers DEF Inv
  <2>2. ASSUME NEW q \in CreatedIds, sessions[q].bay = b, sessions[q].tx = 0
        PROVE  Counted(q) = {}
    <3>1. sessions[q].last = 0
      BY <1>2, <2>2 DEF Inv, BayOk, NothingYet
    <3> QED
      BY <2>1, <3>1 DEF Counted
  <2>3. ASSUME NEW p \in CreatedIds, NEW q \in CreatedIds, sessions[p].bay = b, sessions[q].bay = b,
               sessions[p].tx # 0, sessions[p].tx < sessions[q].tx
        PROVE  Counted(p) \cap Counted(q) = {}
    <3>1. sessions[p].last <= sessions[q].start
      BY <1>2, <2>3 DEF Inv, BayOk, OneAfterAnother
    <3> QED
      BY <2>1, <3>1 DEF Counted
  <2>4. sessions[r].tx # 0 => sessions[r].tx # sessions[s].tx
    BY <1>2 DEF Inv, IInv, TransactionsNameSessions
  <2>5. \/ sessions[r].tx = 0 \/ sessions[s].tx = 0
        \/ (sessions[r].tx # 0 /\ sessions[r].tx < sessions[s].tx)
        \/ (sessions[s].tx # 0 /\ sessions[s].tx < sessions[r].tx)
    BY <2>1, <2>4
  <2> QED
    BY <1>2, <2>2, <2>3, <2>5
<1>3. Inv => EnergyCountedOnce
  BY <1>1, <1>2 DEF EnergyCountedOnce
<1> QED
  BY <1>3, ChargersAndServerAgree, PTL
=============================================================================
