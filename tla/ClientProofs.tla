---------------------------- MODULE ClientProofs ----------------------------
(***************************************************************************)
(* The page of the console has one line to the server at any moment, for   *)
(* any number of sites, sockets, loads, changes and faults.                *)
(*                                                                         *)
(* OneLine is not inductive.  A socket that closes sets a timer if it is   *)
(* of the effect in force, so none that its own effect closed may be; and  *)
(* a socket of an effect still to come would be live from its beginning.   *)
(*                                                                         *)
(* Once the phone has found a server, nothing of its built-in snapshot     *)
(* enters the screens any more, for any number of addresses, requests,     *)
(* sessions and moves.                                                     *)
(*                                                                         *)
(* The snapshot stands in only while the app is offline.  So the invariant *)
(* says that a server found and being offline exclude each other, and that *)
(* no answer of a server is the snapshot's, whose session has a number of  *)
(* its own and whose report no server has.                                 *)
(*                                                                         *)
(* The terms of a session can be kept, and are priced as chosen, for any   *)
(* bays, needs, extensions, losses and order of answers.                   *)
(*                                                                         *)
(* Neither price is right by itself: an answer is, because the last thing  *)
(* asked for is what is chosen, and on the console nothing else is waited  *)
(* for.  So the invariant is about what is asked, and the phone's reading  *)
(* of it about answers that come in turn.  A deadline stays in reach       *)
(* because a tick of charging at full power takes a tick off the charge.   *)
(*                                                                         *)
(* A scenario's day is played as it was written, for any files, clocks,    *)
(* jumps and days: what is played is the file moved by whole days, and of  *)
(* this the invariant speaks, so that two local times of a stay are looked *)
(* at in the same zone.  Whoever was gone when the day began is on the     *)
(* list of those who came without having come, and nobody else is.         *)
(***************************************************************************)
EXTENDS LiveSite, DriverApp, Terms, Calendar, SequenceTheorems, FiniteSetTheorems, WellFoundedInduction, TLAPS

(***************************************************************************)
(* The page of the console.                                                *)
(***************************************************************************)
\* Sockets are of effects that have run, and those closed by a cleanup are of earlier ones.
CleanedUpIsEarlier ==
  \A k \in DOMAIN sockets : /\ sockets[k].effect \in 1..Effect
                            /\ sockets[k].state = "closing" => sockets[k].effect # Effect

\* A version counts changes of its own, which are changes.
VersionsAreCounted ==
  \A s \in Sites : truth[s].sessions <= changes /\ truth[s].plan <= changes

\* A refresh is one of a site, and what has been read for it is a version of that site's.
AskedOfASite(load) ==
  /\ load.stage # "idle" => load.site \in Sites
  /\ load.stage \in {"firstRead", "secondRead"} => load.version \in Versions
LoadsAreAsked == \A l \in Loads : AskedOfASite(loads[l])

IInv == TypeOK /\ OneLine /\ CleanedUpIsEarlier /\ VersionsAreCounted /\ LoadsAreAsked

\* The sockets taken one by one, Seq taken apart.
SocketsTyped == sockets \in Seq(Sockets) /\ DOMAIN sockets = 1..Len(sockets) /\ Len(sockets) \in Nat

-----------------------------------------------------------------------------
LEMMA SocketsAreTyped == ASSUME TypeOK PROVE SocketsTyped
BY LenProperties DEF TypeOK, SocketsTyped

\* As many sockets, each in the place of one before, are a sequence of sockets again.
LEMMA OneForOne ==
  ASSUME TypeOK, NEW f \in [DOMAIN sockets -> Sockets]
  PROVE  f \in Seq(Sockets) /\ DOMAIN f = DOMAIN sockets
<1>1. DOMAIN sockets = 1..Len(sockets) /\ Len(sockets) \in Nat
  BY SocketsAreTyped DEF SocketsTyped
<1>2. f \in UNION {[1..n -> Sockets] : n \in Nat}
  BY <1>1
<1> QED
  BY <1>1, <1>2, SeqDef

\* What a step that replaces a single socket leaves.
LEMMA OneSocket ==
  ASSUME TypeOK, NEW k \in DOMAIN sockets, NEW socket \in Sockets,
         sockets' = [sockets EXCEPT ![k] = socket]
  PROVE  /\ sockets' \in Seq(Sockets) /\ DOMAIN sockets' = DOMAIN sockets
         /\ sockets'[k] = socket
         /\ \A m \in DOMAIN sockets : m # k => sockets'[m] = sockets[m]
<1>1. sockets \in [DOMAIN sockets -> Sockets]
  BY SocketsAreTyped, ElementOfSeq, LenProperties DEF SocketsTyped
<1>2. sockets' \in [DOMAIN sockets -> Sockets]
  BY <1>1
<1> QED
  BY <1>1, <1>2, OneForOne

\* One socket more.
LEMMA OneMore ==
  ASSUME NEW q \in Seq(Sockets), NEW socket \in Sockets
  PROVE  /\ Append(q, socket) \in Seq(Sockets)
         /\ DOMAIN Append(q, socket) = DOMAIN q \cup {Len(q) + 1}
         /\ Append(q, socket)[Len(q) + 1] = socket /\ Len(q) + 1 \notin DOMAIN q
         /\ \A k \in DOMAIN q : Append(q, socket)[k] = q[k]
<1>1. DOMAIN q = 1..Len(q) /\ Len(q) \in Nat
  BY LenProperties
<1>2. DOMAIN Append(q, socket) = 1..(Len(q) + 1)
  BY AppendProperties, LenProperties
<1>3. 1..(Len(q) + 1) = 1..Len(q) \cup {Len(q) + 1}
  BY <1>1
<1> QED
  BY <1>1, <1>2, <1>3, AppendProperties

\* One refresh in the place of another.
LEMMA OneLoad ==
  ASSUME TypeOK, LoadsAreAsked, NEW l \in Loads, NEW load \in Refreshes, AskedOfASite(load),
         loads' = [loads EXCEPT ![l] = load]
  PROVE  loads' \in [Loads -> Refreshes] /\ LoadsAreAsked'
BY DEF TypeOK, LoadsAreAsked, AskedOfASite

LEMMA IdleIsOne == Idle \in Refreshes /\ AskedOfASite(Idle)
BY DEF Idle, Refreshes, AskedOfASite

LEMMA StartsOne ==
  ASSUME TypeOK, LoadsAreAsked, NEW s \in Sites, NEW l \in Loads, Starts(l, s)
  PROVE  loads' \in [Loads -> Refreshes] /\ LoadsAreAsked'
<1>1. Started(s) \in Refreshes /\ AskedOfASite(Started(s))
  BY DEF Started, Refreshes, AskedOfASite
<1> QED
  BY <1>1, OneLoad DEF Starts

\* A step that opens no socket, and takes none from live to dead or to closing, keeps the line.
LEMMA LinesKept ==
  ASSUME IInv, DOMAIN sockets' = DOMAIN sockets, effects' = effects, timers' = timers,
         \A k \in DOMAIN sockets :
           /\ sockets'[k].effect = sockets[k].effect
           /\ Live(k)' <=> Live(k)
           /\ sockets'[k].state = "closing" => sockets[k].state = "closing"
  PROVE  OneLine' /\ CleanedUpIsEarlier'
<1>1. Effect' = Effect
  BY DEF Effect
<1>2. CleanedUpIsEarlier'
  BY <1>1 DEF IInv, CleanedUpIsEarlier
<1>3. OneLine'
  BY <1>1 DEF IInv, OneLine
<1> QED
  BY <1>2, <1>3

-----------------------------------------------------------------------------
\* The page is mounted.
LEMMA Initially == ASSUME LiveSiteAssumption, Init PROVE IInv
<1>1. effects \in Seq(Sites) /\ effects # <<>> /\ Effect = 1 /\ Site = FirstSite
  BY DEF Init, Effect, Site, LiveSiteAssumption
<1>2. /\ NewSocket(1) \in Sockets
      /\ sockets \in Seq(Sockets) /\ DOMAIN sockets = {1} /\ sockets[1] = NewSocket(1)
  <2>1. NewSocket(1) \in Sockets
    BY EmptySeq DEF NewSocket, Sockets
  <2> QED
    BY <2>1 DEF Init
<1>3. loads \in [Loads -> Refreshes] /\ LoadsAreAsked
  <2>1. Started(FirstSite) \in Refreshes /\ AskedOfASite(Started(FirstSite))
    BY DEF Started, Refreshes, AskedOfASite, LiveSiteAssumption
  <2>2. \A l \in Loads : loads[l] \in {Started(FirstSite), Idle}
    BY <1>1 DEF Init
  <2>3. \A l \in Loads : loads[l] \in Refreshes /\ AskedOfASite(loads[l])
    BY <2>1, <2>2, IdleIsOne
  <2> QED
    BY <2>3 DEF Init, LoadsAreAsked
<1>4. /\ 0 \in Versions /\ Nothing \in [site : Sites \cup {"none"}, version : Versions]
      /\ changes \in 0..MaxChanges /\ faults \in 0..MaxFaults
  BY DEF Versions, Nothing, LiveSiteAssumption, Init
<1>5. TypeOK
  <2>1. truth \in [Sites -> [sessions : Versions, plan : Versions]]
    BY <1>4 DEF Init
  <2>2. sessions \in [Sites -> Versions \cup {Absent}] /\ timers \subseteq Nat
    BY DEF Init
  <2>3. plan \in [site : Sites \cup {"none"}, version : Versions]
    BY <1>4 DEF Init
  <2>4. {connected, error} \subseteq BOOLEAN
    BY DEF Init
  <2> QED
    BY <1>1, <1>2, <1>3, <1>4, <2>1, <2>2, <2>3, <2>4 DEF TypeOK
<1>6. OneLine
  <2>1. Live(1) /\ sockets[1].effect = Effect /\ timers = {}
    BY <1>1, <1>2 DEF Init, Live, NewSocket
  <2> QED
    BY <1>2, <2>1 DEF OneLine
<1>7. CleanedUpIsEarlier
  BY <1>1, <1>2 DEF CleanedUpIsEarlier, NewSocket
<1>8. VersionsAreCounted
  <2>1. 0 <= 0
    OBVIOUS
  <2> QED
    BY <2>1 DEF Init, VersionsAreCounted
<1> QED
  BY <1>3, <1>5, <1>6, <1>7, <1>8 DEF IInv

-----------------------------------------------------------------------------
\* An event more for the sockets of a site.
LEMMA Broadcasting ==
  ASSUME IInv, NEW s \in Sites, NEW event \in Events, Broadcast(s, event),
         effects' = effects, timers' = timers
  PROVE  sockets' \in Seq(Sockets) /\ OneLine' /\ CleanedUpIsEarlier'
<1> USE DEF IInv
<1>1. \A k \in DOMAIN sockets : sockets[k] \in Sockets
  BY SocketsAreTyped, ElementOfSeq DEF SocketsTyped
<1>2. ASSUME NEW k \in DOMAIN sockets
      PROVE  [sockets[k] EXCEPT !.inbox = Append(@, event)] \in Sockets
  BY <1>1, <1>2, AppendProperties DEF Sockets
<1>3. /\ sockets' \in [DOMAIN sockets -> Sockets]
      /\ \A k \in DOMAIN sockets : /\ sockets'[k].effect = sockets[k].effect
                                   /\ sockets'[k].state = sockets[k].state
  BY <1>1, <1>2 DEF Broadcast, Sockets
<1>4. sockets' \in Seq(Sockets) /\ DOMAIN sockets' = DOMAIN sockets
  BY <1>3, OneForOne
<1>5. OneLine' /\ CleanedUpIsEarlier'
  BY <1>3, <1>4, LinesKept DEF Live
<1> QED
  BY <1>4, <1>5

\* One version more is one change more.
LEMMA CountingOne ==
  ASSUME LiveSiteAssumption, IInv, NEW s \in Sites, changes \in Nat, changes' = changes + 1,
         truth[s].sessions + 1 \in Versions, truth[s].plan + 1 \in Versions,
         \/ truth' = [truth EXCEPT ![s].sessions = @ + 1]
         \/ truth' = [truth EXCEPT ![s].plan = @ + 1]
  PROVE  /\ truth' \in [Sites -> [sessions : Versions, plan : Versions]]
         /\ truth'[s].sessions \in Versions /\ truth'[s].plan \in Versions
         /\ VersionsAreCounted'
<1>1. truth \in [Sites -> [sessions : Versions, plan : Versions]]
  BY DEF IInv, TypeOK
<1>2. /\ truth' \in [Sites -> [sessions : Versions, plan : Versions]]
      /\ \A t \in Sites : t # s => truth'[t] = truth[t]
      /\ truth'[s].sessions \in {truth[s].sessions, truth[s].sessions + 1}
      /\ truth'[s].plan \in {truth[s].plan, truth[s].plan + 1}
  BY <1>1
<1>3. \A t \in Sites : /\ truth[t].sessions \in Nat /\ truth[t].sessions <= changes
                       /\ truth[t].plan \in Nat /\ truth[t].plan <= changes
  BY <1>1 DEF IInv, VersionsAreCounted, Versions
<1>4. ASSUME NEW t \in Sites
      PROVE  truth'[t].sessions <= changes' /\ truth'[t].plan <= changes'
  <2>1. CASE t = s
    BY <1>2, <1>3, <2>1
  <2>2. CASE t # s
    BY <1>2, <1>3, <2>2
  <2> QED
    BY <2>1, <2>2
<1> QED
  BY <1>2, <1>4 DEF VersionsAreCounted

\* A change of a site is told to its sockets.
LEMMA Changing ==
  ASSUME LiveSiteAssumption, IInv, NEW s \in Sites, Changed(s)
  PROVE  IInv'
<1> USE DEF IInv
<1>1. changes \in Nat /\ changes < MaxChanges /\ changes' = changes + 1 /\ changes' \in 0..MaxChanges
  BY DEF Changed, TypeOK, LiveSiteAssumption
<1>2. /\ truth[s].sessions + 1 \in Versions /\ truth[s].plan + 1 \in Versions
      /\ truth[s].sessions \in Nat /\ truth[s].plan \in Nat
  <2>1. truth[s].sessions \in Versions /\ truth[s].plan \in Versions
    BY DEF TypeOK
  <2>2. truth[s].sessions <= changes /\ truth[s].plan <= changes
    BY DEF VersionsAreCounted
  <2>3. MaxChanges \in Nat
    BY DEF LiveSiteAssumption
  <2> QED
    BY <1>1, <2>1, <2>2, <2>3 DEF Versions
<1>3. CASE \E kind \in {"session.updated", "meter.updated"} :
             /\ truth' = [truth EXCEPT ![s].sessions = @ + 1]
             /\ Broadcast(s, [kind |-> kind, site |-> s, version |-> truth'[s].sessions])
  <2>1. PICK kind \in {"session.updated", "meter.updated"} :
             /\ truth' = [truth EXCEPT ![s].sessions = @ + 1]
             /\ Broadcast(s, [kind |-> kind, site |-> s, version |-> truth'[s].sessions])
    BY <1>3
  <2>2. /\ truth' \in [Sites -> [sessions : Versions, plan : Versions]]
        /\ truth'[s].sessions \in Versions /\ VersionsAreCounted'
    BY <1>1, <1>2, <2>1, CountingOne
  <2>3. [kind |-> kind, site |-> s, version |-> truth'[s].sessions] \in Events
    BY <2>2 DEF Events
  <2>4. sockets' \in Seq(Sockets) /\ OneLine' /\ CleanedUpIsEarlier'
    BY <2>1, <2>3, Broadcasting DEF Changed
  <2> QED
    BY <1>1, <2>2, <2>4 DEF Changed, viewVars, TypeOK, LoadsAreAsked
<1>4. CASE /\ truth' = [truth EXCEPT ![s].plan = @ + 1]
           /\ Broadcast(s, [kind |-> "plan.solved", site |-> s, version |-> truth'[s].plan])
  <2>1. /\ truth' \in [Sites -> [sessions : Versions, plan : Versions]]
        /\ truth'[s].plan \in Versions /\ VersionsAreCounted'
    BY <1>1, <1>2, <1>4, CountingOne
  <2>2. [kind |-> "plan.solved", site |-> s, version |-> truth'[s].plan] \in Events
    BY <2>1 DEF Events
  <2>3. sockets' \in Seq(Sockets) /\ OneLine' /\ CleanedUpIsEarlier'
    BY <1>4, <2>2, Broadcasting DEF Changed
  <2> QED
    BY <1>1, <2>1, <2>3 DEF Changed, viewVars, TypeOK, LoadsAreAsked
<1> QED
  BY <1>3, <1>4 DEF Changed

\* A socket is accepted, dropped or read from: it lives on.
LEMMA Talking ==
  ASSUME LiveSiteAssumption, IInv, NEW k \in DOMAIN sockets, Accepted(k) \/ Dropped(k) \/ Hears(k)
  PROVE  IInv'
<1> USE DEF IInv
<1>1. sockets[k] \in Sockets
  BY SocketsAreTyped, ElementOfSeq DEF SocketsTyped
<1>2. Site \in Sites
  BY ElementOfSeq, EmptySeq DEF TypeOK, Site, Effect
<1>3. CASE Accepted(k)
  <2> DEFINE event == [kind |-> "open", site |-> Site, version |-> 0]
             socket == [sockets[k] EXCEPT !.state = "open", !.inbox = <<event>>]
  <2>1. event \in Events
    BY <1>2 DEF Events, Versions, LiveSiteAssumption
  <2>2. socket \in Sockets
    <3>1. <<event>> \in Seq(Events)
      BY <2>1
    <3> HIDE DEF event
    <3> QED
      BY <1>1, <3>1 DEF Sockets
  <2>3. sockets' = [sockets EXCEPT ![k] = socket]
    BY <1>3, <1>1 DEF Accepted, Sockets
  <2>4. /\ sockets' \in Seq(Sockets) /\ DOMAIN sockets' = DOMAIN sockets /\ sockets'[k] = socket
        /\ \A m \in DOMAIN sockets : m # k => sockets'[m] = sockets[m]
    BY <2>2, <2>3, OneSocket
  <2>5. OneLine' /\ CleanedUpIsEarlier'
    BY <1>1, <1>3, <2>4, LinesKept DEF Accepted, Live, Sockets
  <2> QED
    BY <1>3, <2>4, <2>5 DEF Accepted, viewVars, boundVars, TypeOK, VersionsAreCounted, LoadsAreAsked
<1>4. CASE Dropped(k)
  <2>1. PICK n \in 0..Len(sockets[k].inbox) :
          sockets' = [sockets EXCEPT ![k].state = "lost", ![k].inbox = SubSeq(@, 1, n)]
    BY <1>4 DEF Dropped
  <2> DEFINE socket == [sockets[k] EXCEPT !.state = "lost", !.inbox = SubSeq(@, 1, n)]
  <2>2. SubSeq(sockets[k].inbox, 1, n) \in Seq(Events)
    <3>1. sockets[k].inbox \in Seq(Events)
      BY <1>1 DEF Sockets
    <3>2. \A i \in 1..n : sockets[k].inbox[i] \in Events
      BY <3>1, ElementOfSeq, LenProperties
    <3> QED
      BY <3>1, <3>2, SubSeqProperties, LenProperties
  <2>3. socket \in Sockets
    BY <1>1, <2>2 DEF Sockets
  <2>4. sockets' = [sockets EXCEPT ![k] = socket]
    BY <2>1, <1>1 DEF Sockets
  <2>5. /\ sockets' \in Seq(Sockets) /\ DOMAIN sockets' = DOMAIN sockets /\ sockets'[k] = socket
        /\ \A m \in DOMAIN sockets : m # k => sockets'[m] = sockets[m]
    BY <2>3, <2>4, OneSocket
  <2>6. OneLine' /\ CleanedUpIsEarlier'
    BY <1>1, <1>4, <2>5, LinesKept DEF Dropped, Live, Sockets
  <2>7. faults' \in 0..MaxFaults
    <3>1. faults < MaxFaults /\ faults' = faults + 1
      BY <1>4 DEF Dropped
    <3>2. faults \in Nat /\ MaxFaults \in Nat
      BY DEF TypeOK, LiveSiteAssumption
    <3> QED
      BY <3>1, <3>2
  <2> QED
    BY <1>4, <2>5, <2>6, <2>7 DEF Dropped, viewVars, TypeOK, VersionsAreCounted, LoadsAreAsked
<1>5. CASE Hears(k)
  <2> DEFINE socket == [sockets[k] EXCEPT !.inbox = Tail(@)]
             event == Head(sockets[k].inbox)
  <2>1. Tail(sockets[k].inbox) \in Seq(Events) /\ event \in Events
    BY <1>1, <1>5, HeadTailProperties DEF Sockets, Hears
  <2>2. socket \in Sockets
    BY <1>1, <2>1 DEF Sockets
  <2>3. sockets' = [sockets EXCEPT ![k] = socket]
    BY <1>5, <1>1 DEF Hears, Sockets
  <2>4. /\ sockets' \in Seq(Sockets) /\ DOMAIN sockets' = DOMAIN sockets /\ sockets'[k] = socket
        /\ \A m \in DOMAIN sockets : m # k => sockets'[m] = sockets[m]
    BY <2>2, <2>3, OneSocket
  <2>5. OneLine' /\ CleanedUpIsEarlier'
    BY <1>1, <1>5, <2>4, LinesKept DEF Hears, Live, Sockets
  <2>6. Apply(event)
    BY <1>5 DEF Hears
  <2>7. connected' \in BOOLEAN
    BY <2>6 DEF Apply, TypeOK
  <2>8. sessions' \in [Sites -> Versions \cup {Absent}]
    BY <2>1, <2>6 DEF Apply, TypeOK, Events
  <2>9. plan' \in [site : Sites \cup {"none"}, version : Versions]
    BY <2>1, <2>6 DEF Apply, TypeOK, Events
  <2> QED
    BY <1>5, <2>4, <2>5, <2>7, <2>8, <2>9 DEF Hears, boundVars, TypeOK, VersionsAreCounted, LoadsAreAsked
<1> QED
  BY <1>3, <1>4, <1>5

\* The close of the line in force is followed by its timer, any other by nothing.
LEMMA Closing ==
  ASSUME LiveSiteAssumption, IInv, NEW k \in DOMAIN sockets, Closes(k)
  PROVE  IInv'
<1> USE DEF IInv
<1> DEFINE socket == [sockets[k] EXCEPT !.state = "closed"]
<1>1. sockets[k] \in Sockets
  BY SocketsAreTyped, ElementOfSeq DEF SocketsTyped
<1>2. /\ sockets' \in Seq(Sockets) /\ DOMAIN sockets' = DOMAIN sockets /\ sockets'[k] = socket
      /\ \A m \in DOMAIN sockets : m # k => sockets'[m] = sockets[m]
  <2>1. socket \in Sockets
    BY <1>1 DEF Sockets
  <2>2. sockets' = [sockets EXCEPT ![k] = socket]
    BY <1>1 DEF Closes, Sockets
  <2> QED
    BY <2>1, <2>2, OneSocket
<1>3. socket.state = "closed" /\ socket.effect = sockets[k].effect
  BY <1>1 DEF Sockets
<1>4. Effect' = Effect /\ Effect \in Nat
  BY LenProperties DEF Closes, Effect, TypeOK
<1>5. ~Live(k)' /\ \A m \in DOMAIN sockets : m # k => (Live(m)' <=> Live(m))
  BY <1>2, <1>3 DEF Live
<1>6. CleanedUpIsEarlier'
  BY <1>2, <1>3, <1>4 DEF CleanedUpIsEarlier
<1>7. CASE sockets[k].effect = Effect
  <2>1. sockets[k].state = "lost" /\ Live(k)
    BY <1>7 DEF Closes, CleanedUpIsEarlier, Live
  <2>2. timers = {}
    BY <2>1 DEF OneLine
  <2>3. \A m \in DOMAIN sockets : Live(m) => m = k
    BY <2>1, <2>2 DEF OneLine
  <2>4. timers' = {Effect}
    BY <1>7, <2>2 DEF Closes
  <2>5. OneLine'
    BY <1>2, <1>4, <1>5, <2>3, <2>4 DEF OneLine
  <2> QED
    BY <1>2, <1>4, <1>6, <2>4, <2>5 DEF Closes, viewVars, boundVars, TypeOK, VersionsAreCounted, LoadsAreAsked
<1>8. CASE sockets[k].effect # Effect
  <2>1. ~Live(k) /\ timers' = timers
    BY <1>8 DEF Closes, OneLine
  <2>2. \A m \in DOMAIN sockets : Live(m)' <=> Live(m)
    BY <1>5, <2>1
  <2>3. OneLine'
    <3>1. /\ \A m \in DOMAIN sockets : Live(m)' => sockets'[m].effect = Effect'
          /\ timers' \subseteq {Effect'}
      BY <1>2, <1>3, <1>4, <2>1, <2>2 DEF OneLine, Live
    <3>2. IF timers' = {} THEN \E m \in DOMAIN sockets : \A o \in DOMAIN sockets : Live(o)' <=> o = m
          ELSE \A m \in DOMAIN sockets : ~Live(m)'
      BY <2>1, <2>2 DEF OneLine, Live
    <3>3. DOMAIN sockets' = DOMAIN sockets
      BY <1>2
    <3> QED
      BY <3>1, <3>2, <3>3 DEF OneLine
  <2> QED
    BY <1>2, <1>6, <2>1, <2>3 DEF Closes, viewVars, boundVars, TypeOK, VersionsAreCounted, LoadsAreAsked
<1> QED
  BY <1>7, <1>8

\* The timer of the effect in force opens the line it stands for.
LEMMA Reconnecting ==
  ASSUME LiveSiteAssumption, IInv, NEW e \in timers, Reconnects(e)
  PROVE  IInv'
<1> USE DEF IInv
<1>1. e = Effect /\ timers = {Effect} /\ timers' = {} /\ Effect' = Effect
  BY DEF OneLine, Reconnects, Effect
<1>2. Effect \in Nat \ {0}
  BY EmptySeq DEF TypeOK, Effect
<1>3. NewSocket(e) \in Sockets /\ NewSocket(e).state = "connecting" /\ NewSocket(e).effect = Effect
  <2>1. <<>> \in Seq(Events)
    BY EmptySeq
  <2> QED
    BY <1>1, <1>2, <2>1 DEF NewSocket, Sockets
<1>4. /\ sockets' \in Seq(Sockets) /\ DOMAIN sockets' = DOMAIN sockets \cup {Len(sockets) + 1}
      /\ sockets'[Len(sockets) + 1] = NewSocket(e) /\ Len(sockets) + 1 \notin DOMAIN sockets
      /\ \A k \in DOMAIN sockets : sockets'[k] = sockets[k]
  BY <1>3, OneMore DEF Reconnects, TypeOK
<1>5. \A k \in DOMAIN sockets : ~Live(k) /\ ~Live(k)'
  BY <1>1, <1>4 DEF OneLine, Live
<1> DEFINE n == Len(sockets) + 1
<1>6. sockets'[n].state = "connecting" /\ sockets'[n].effect = Effect'
  BY <1>1, <1>3, <1>4
<1>7. OneLine'
  <2> HIDE DEF n
  <2>1. DOMAIN sockets' = DOMAIN sockets \cup {n} /\ n \notin DOMAIN sockets
    BY <1>4 DEF n
  <2> QED
    BY <1>1, <1>5, <1>6, <2>1 DEF OneLine, Live
<1>8. CleanedUpIsEarlier'
  BY <1>1, <1>2, <1>3, <1>4 DEF CleanedUpIsEarlier
<1> QED
  BY <1>1, <1>4, <1>7, <1>8 DEF Reconnects, viewVars, boundVars, TypeOK, VersionsAreCounted, LoadsAreAsked

\* Another choice takes the line of the one before with it.
LEMMA Switching ==
  ASSUME LiveSiteAssumption, IInv, NEW s \in Sites, Switches(s)
  PROVE  IInv'
<1> USE DEF IInv
<1>1. /\ Effect \in Nat \ {0} /\ effects' \in Seq(Sites) /\ effects' # <<>> /\ Effect' = Effect + 1
  BY EmptySeq, AppendProperties DEF TypeOK, Effect, Switches
<1>2. timers' = {}
  BY DEF OneLine, Switches, TimersLeft
<1>3. /\ NewSocket(Effect + 1) \in Sockets /\ NewSocket(Effect + 1).state = "connecting"
      /\ NewSocket(Effect + 1).effect = Effect'
  <2>1. <<>> \in Seq(Events)
    BY EmptySeq
  <2> QED
    BY <1>1, <2>1 DEF NewSocket, Sockets
<1>4. \A k \in DOMAIN sockets : sockets[k] \in Sockets
  BY SocketsAreTyped, ElementOfSeq DEF SocketsTyped
<1>5. /\ SocketsLeft \in [DOMAIN sockets -> Sockets]
      /\ \A k \in DOMAIN sockets : /\ SocketsLeft[k].effect = sockets[k].effect
                                   /\ SocketsLeft[k].state \in {"closing", "closed"}
  <2>1. <<>> \in Seq(Events)
    BY EmptySeq
  <2>2. ASSUME NEW k \in DOMAIN sockets
        PROVE  /\ SocketsLeft[k] \in Sockets /\ SocketsLeft[k].effect = sockets[k].effect
               /\ SocketsLeft[k].state \in {"closing", "closed"}
    <3>1. CASE sockets[k].effect = Effect /\ sockets[k].state # "closed"
      BY <1>4, <2>1, <3>1 DEF SocketsLeft, Sockets
    <3>2. CASE sockets[k].state = "closed"
      BY <1>4, <3>2 DEF SocketsLeft, Sockets
    <3>3. CASE sockets[k].effect # Effect /\ sockets[k].state # "closed"
      <4>1. ~Live(k)
        BY <3>3 DEF OneLine
      <4> QED
        BY <1>4, <3>3, <4>1 DEF SocketsLeft, Sockets, Live
    <3> QED
      BY <3>1, <3>2, <3>3
  <2> QED
    BY <2>2 DEF SocketsLeft
<1>6. SocketsLeft \in Seq(Sockets) /\ DOMAIN SocketsLeft = DOMAIN sockets
  BY <1>5, OneForOne
<1> DEFINE n == Len(SocketsLeft) + 1
<1>7. /\ sockets' \in Seq(Sockets) /\ DOMAIN sockets' = DOMAIN sockets \cup {n}
      /\ sockets'[n] = NewSocket(Effect + 1) /\ n \notin DOMAIN sockets
      /\ \A k \in DOMAIN sockets : sockets'[k] = SocketsLeft[k]
  BY <1>3, <1>6, OneMore DEF Switches
<1>8. sockets'[n].state = "connecting" /\ \A k \in DOMAIN sockets : ~Live(k)'
  BY <1>3, <1>5, <1>7 DEF Live
<1>9. OneLine'
  <2> HIDE DEF n
  <2> QED
    BY <1>2, <1>3, <1>7, <1>8 DEF OneLine, Live
<1>10. CleanedUpIsEarlier'
  <2>1. ASSUME NEW k \in DOMAIN sockets
        PROVE  sockets'[k].effect \in 1..Effect' /\ sockets'[k].effect # Effect'
    BY <1>1, <1>5, <1>7, <2>1 DEF CleanedUpIsEarlier
  <2>2. sockets'[n].effect \in 1..Effect' /\ sockets'[n].state # "closing"
    BY <1>1, <1>3, <1>7
  <2> HIDE DEF n
  <2> QED
    BY <1>7, <2>1, <2>2 DEF CleanedUpIsEarlier
<1>11. loads' \in [Loads -> Refreshes] /\ LoadsAreAsked'
  BY StartsOne DEF Switches
<1> QED
  BY <1>1, <1>2, <1>7, <1>9, <1>10, <1>11 DEF Switches, viewVars, boundVars, TypeOK, VersionsAreCounted

-----------------------------------------------------------------------------
\* A refresh goes its way; the line has nothing to do with it.
LEMMA Refreshing ==
  ASSUME LiveSiteAssumption, IInv, NEW l \in Loads,
         Poll(l) \/ Reads(l) \/ FirstArrives(l) \/ SecondArrives(l) \/ Fails(l)
  PROVE  IInv'
<1> USE DEF IInv
<1>1. sockets' = sockets /\ timers' = timers /\ effects' = effects /\ truth' = truth /\ changes' = changes
  BY DEF Poll, Reads, FirstArrives, SecondArrives, Fails, boundVars
<1>2. OneLine' /\ CleanedUpIsEarlier' /\ VersionsAreCounted'
  BY <1>1 DEF OneLine, CleanedUpIsEarlier, VersionsAreCounted, Live, Effect
<1>3. loads[l] \in Refreshes /\ loads \in [Loads -> Refreshes]
  BY DEF TypeOK
<1>4. Site \in Sites
  BY ElementOfSeq, EmptySeq DEF TypeOK, Site, Effect
<1>5. CASE Poll(l)
  <2>1. loads' \in [Loads -> Refreshes] /\ LoadsAreAsked'
    BY <1>4, <1>5, StartsOne DEF Poll
  <2> QED
    BY <1>1, <1>2, <1>5, <2>1 DEF Poll, viewVars, boundVars, TypeOK
<1>6. CASE Reads(l)
  <2> DEFINE read == IF loads[l].stage = "first" THEN "firstRead" ELSE "secondRead"
             version == IF loads[l].stage = "first" THEN truth[loads[l].site].sessions
                        ELSE truth[loads[l].site].plan
             load == [loads[l] EXCEPT !.stage = read, !.version = version]
  <2>1. loads[l].site \in Sites
    BY <1>6 DEF Reads, Asked, LoadsAreAsked, AskedOfASite
  <2>2. version \in Versions
    BY <2>1 DEF TypeOK
  <2>3. load \in Refreshes /\ AskedOfASite(load)
    BY <1>3, <2>1, <2>2 DEF Refreshes, AskedOfASite
  <2>4. loads' = [loads EXCEPT ![l] = load]
    BY <1>3, <1>6 DEF Reads, Refreshes
  <2>5. loads' \in [Loads -> Refreshes] /\ LoadsAreAsked'
    BY <2>3, <2>4, OneLoad
  <2> QED
    BY <1>1, <1>2, <1>6, <2>5 DEF Reads, viewVars, boundVars, TypeOK
<1>7. CASE FirstArrives(l)
  <2> DEFINE load == [loads[l] EXCEPT !.stage = "second", !.version = Absent]
  <2>1. loads[l].site \in Sites /\ loads[l].version \in Versions
    BY <1>7 DEF FirstArrives, LoadsAreAsked, AskedOfASite
  <2>2. load \in Refreshes /\ AskedOfASite(load)
    BY <1>3, <2>1 DEF Refreshes, AskedOfASite
  <2>3. loads' = [loads EXCEPT ![l] = load]
    BY <1>3, <1>7 DEF FirstArrives, Refreshes
  <2>4. loads' \in [Loads -> Refreshes] /\ LoadsAreAsked'
    BY <2>2, <2>3, OneLoad
  <2>5. sessions' \in [Sites -> Versions \cup {Absent}] /\ error' \in BOOLEAN
    BY <1>7, <2>1 DEF FirstArrives
  <2> QED
    BY <1>1, <1>2, <1>7, <2>4, <2>5 DEF FirstArrives, boundVars, TypeOK
<1>8. CASE SecondArrives(l)
  <2>1. loads[l].site \in Sites /\ loads[l].version \in Versions
    BY <1>8 DEF SecondArrives, LoadsAreAsked, AskedOfASite
  <2>2. loads' \in [Loads -> Refreshes] /\ LoadsAreAsked'
    BY <1>8, IdleIsOne, OneLoad DEF SecondArrives
  <2>3. plan' \in [site : Sites \cup {"none"}, version : Versions]
    BY <1>8, <2>1 DEF SecondArrives
  <2> QED
    BY <1>1, <1>2, <1>8, <2>2, <2>3 DEF SecondArrives, boundVars, TypeOK
<1>9. CASE Fails(l)
  <2>1. loads' \in [Loads -> Refreshes] /\ LoadsAreAsked'
    BY <1>9, IdleIsOne, OneLoad DEF Fails
  <2>2. faults' \in 0..MaxFaults
    <3>1. faults < MaxFaults /\ faults' = faults + 1
      BY <1>9 DEF Fails
    <3>2. faults \in Nat /\ MaxFaults \in Nat
      BY DEF TypeOK, LiveSiteAssumption
    <3> QED
      BY <3>1, <3>2
  <2>3. Nothing \in [site : Sites \cup {"none"}, version : Versions]
    BY DEF Nothing, Versions, LiveSiteAssumption
  <2>4. plan' \in [site : Sites \cup {"none"}, version : Versions] /\ error' \in BOOLEAN
    BY <1>9, <2>3 DEF Fails, TypeOK
  <2> QED
    BY <1>1, <1>2, <1>9, <2>1, <2>2, <2>4 DEF Fails, TypeOK
<1> QED
  BY <1>5, <1>6, <1>7, <1>8, <1>9

LEMMA Stepwise == ASSUME LiveSiteAssumption, IInv, [Next]_siteVars PROVE IInv'
<1>1. CASE UNCHANGED siteVars
  <2>1. TypeOK'
    BY <1>1 DEF siteVars, IInv, TypeOK
  <2>2. OneLine' /\ CleanedUpIsEarlier'
    BY <1>1 DEF siteVars, IInv, OneLine, CleanedUpIsEarlier, Live, Effect
  <2>3. VersionsAreCounted' /\ LoadsAreAsked'
    BY <1>1 DEF siteVars, IInv, VersionsAreCounted, LoadsAreAsked
  <2> QED
    BY <2>1, <2>2, <2>3 DEF IInv
<1>2. CASE \E s \in Sites : Changed(s) \/ Switches(s)
  BY <1>2, Changing, Switching
<1>3. CASE \E k \in DOMAIN sockets : Accepted(k) \/ Dropped(k) \/ Hears(k) \/ Closes(k)
  BY <1>3, Talking, Closing
<1>4. CASE \E e \in timers : Reconnects(e)
  BY <1>4, Reconnecting
<1>5. CASE \E l \in Loads : Poll(l) \/ Reads(l) \/ FirstArrives(l) \/ SecondArrives(l) \/ Fails(l)
  BY <1>5, Refreshing
<1> QED
  BY <1>1, <1>2, <1>3, <1>4, <1>5 DEF Next

-----------------------------------------------------------------------------
\* Sockets, timer and choice of the page belong together in every reachable state.
THEOREM InductiveInvariant == ASSUME LiveSiteAssumption PROVE Spec => []IInv
<1>1. Init => IInv
  BY Initially
<1>2. IInv /\ [Next]_siteVars => IInv'
  BY Stepwise
<1> QED
  BY <1>1, <1>2, PTL DEF Spec

\* Every variable of the page and the channel keeps its type.
THEOREM TypeCorrect == ASSUME LiveSiteAssumption PROVE Spec => []TypeOK
BY InductiveInvariant, PTL DEF IInv

\* However often sites are chosen and sockets drop, the page has one line, of the site chosen last.
THEOREM ThereIsOneLine == ASSUME LiveSiteAssumption PROVE Spec => []OneLine
BY InductiveInvariant, PTL DEF IInv

(***************************************************************************)
(* The driver's phone.                                                     *)
(***************************************************************************)
FoundIsOnline == base # 0 => ~offline
FromServer(call) ==
  call.phase = "answered" /\ call.what \in {"current", "report"} => call.value # Demo
AnswersAreReal == \A c \in Slots : FromServer(calls[c])

AppIInv == AppTypeOK /\ FoundIsOnline /\ AnswersAreReal

Requests == [what : {"idle", "current", "report", "sites"},
             phase : {"none", "resolving", "sent", "answered"},
             at : 0..Candidates, value : Shown]

-----------------------------------------------------------------------------
\* A request is made of the types the list of calls has, and is not answered yet.
LEMMA RequestIsOne ==
  ASSUME DriverAssumption, AppTypeOK, NEW what \in {"current", "report", "sites"}, NEW value \in Shown
  PROVE  Request(what, value) \in Requests /\ FromServer(Request(what, value))
<1>1. Target \in 0..Candidates /\ 0 \in 0..Candidates
  BY DEF Target, AppTypeOK, DriverAssumption
<1> QED
  BY <1>1 DEF Request, Requests, FromServer

\* What a new request does to the probe.
LEMMA JoinedIsProbe ==
  ASSUME DriverAssumption, AppTypeOK
  PROVE  Joined \in 0..Settled
  BY DEF Joined, AppTypeOK, DriverAssumption, Settled

\* Sending the calls that waited for the probe answers none.
LEMMA SendingAnswersNone ==
  ASSUME DriverAssumption, AppTypeOK, AnswersAreReal, NEW candidate \in 0..Candidates
  PROVE  /\ SentTo(candidate) \in [Slots -> Requests]
         /\ \A c \in Slots : FromServer(SentTo(candidate)[c])
<1>1. calls \in [Slots -> Requests]
  BY DEF AppTypeOK, Requests
<1>2. ASSUME NEW c \in Slots
      PROVE  /\ SentTo(candidate)[c] \in Requests
             /\ FromServer(SentTo(candidate)[c])
  BY <1>1, <1>2 DEF SentTo, Requests, AnswersAreReal, FromServer
<1> QED
  BY <1>2 DEF SentTo

\* A list of calls in which one has been put in the place of another keeps what is said of them.
LEMMA OneReplaced ==
  ASSUME AppTypeOK, AnswersAreReal, NEW c, NEW call \in Requests,
         FromServer(call),
         calls' = [calls EXCEPT ![c] = call]
  PROVE  calls' \in [Slots -> Requests] /\ AnswersAreReal'
  BY DEF AppTypeOK, Requests, AnswersAreReal, FromServer, Slots, Demo

\* A call that is settled leaves its place free.
LEMMA NoCallIsOne ==
  ASSUME DriverAssumption
  PROVE  NoCall \in Requests /\ FromServer(NoCall)
  BY DEF NoCall, FromServer, Requests, Shown, DriverAssumption

-----------------------------------------------------------------------------
\* The screens after an answer, or the snapshot in its place: only a value that is put in enters.
LEMMA Showing ==
  ASSUME DriverAssumption, AppIInv, NEW c \in Slots, NEW value \in Shown, NEW origin \in {"real", "demo"},
         \/ ShowsCurrent(c, value) \/ ShowsReport(c, value) \/ ShowsSites(c, origin)
  PROVE  /\ calls' \in [Slots -> Requests] /\ AnswersAreReal' /\ probe' \in 0..Settled
         /\ {current, previous, finished}' \subseteq Shown
         /\ {demo, shownError, loading}' \subseteq BOOLEAN
         /\ sites' \in {"none", "real", "demo"}
<1> USE DEF AppIInv
<1>1. NoCall \in Requests /\ FromServer(NoCall)
  BY NoCallIsOne
<1>2. CASE ShowsCurrent(c, value)
  <2>1. previous \in Shown
    BY DEF AppTypeOK
  <2>2. Request("report", previous) \in Requests /\ FromServer(Request("report", previous))
    BY <2>1, RequestIsOne
  <2>3. /\ \/ calls' = [calls EXCEPT ![c] = Request("report", previous)]
           \/ calls' = [calls EXCEPT ![c] = NoCall]
        /\ probe' \in 0..Settled
    BY <1>2, JoinedIsProbe DEF ShowsCurrent, AppTypeOK
  <2>4. calls' \in [Slots -> Requests] /\ AnswersAreReal'
    BY <1>1, <2>2, <2>3, OneReplaced
  <2> QED
    BY <1>2, <2>3, <2>4 DEF ShowsCurrent, AppTypeOK
<1>3. CASE ShowsReport(c, value)
  <2>1. calls' \in [Slots -> Requests] /\ AnswersAreReal'
    BY <1>1, <1>3, OneReplaced DEF ShowsReport
  <2> QED
    BY <1>3, <2>1 DEF ShowsReport, AppTypeOK
<1>4. CASE ShowsSites(c, origin)
  <2>1. calls' \in [Slots -> Requests] /\ AnswersAreReal'
    BY <1>1, <1>4, OneReplaced DEF ShowsSites
  <2> QED
    BY <1>4, <2>1 DEF ShowsSites, AppTypeOK
<1> QED
  BY <1>2, <1>3, <1>4

-----------------------------------------------------------------------------
\* AppIInv holds when the app is mounted.
LEMMA AppInitially == ASSUME DriverAssumption, AppInit PROVE AppIInv
<1>1. NoCall \in Requests /\ NoCall.phase = "none"
  BY NoCallIsOne DEF NoCall
<1>2. /\ [NoCall EXCEPT !.what = "sites", !.phase = "resolving"] \in Requests
      /\ [NoCall EXCEPT !.what = "current", !.phase = "resolving"] \in Requests
  BY <1>1 DEF Requests
<1>3. \A c \in Slots : calls[c] \in Requests /\ calls[c].phase # "answered"
  <2> TAKE c \in Slots
  <2>1. CASE c = 1
    BY <1>2, <2>1 DEF AppInit, NoCall
  <2>2. CASE c = 2
    BY <1>2, <2>2 DEF AppInit, NoCall
  <2>3. CASE c # 1 /\ c # 2
    BY <1>1, <2>3 DEF AppInit
  <2> QED
    BY <2>1, <2>2, <2>3
<1>4. calls \in [Slots -> Requests]
  BY <1>3 DEF AppInit
<1>5. /\ reach \in 0..Candidates /\ begun \in 0..MaxSessions /\ live \in {NoSession} \cup Real
      /\ moves \in 0..MaxMoves /\ lapses \in 0..MaxLapses
      /\ base \in 0..Candidates /\ probe \in 0..Settled
  BY DEF AppInit, DriverAssumption, Settled, Real, NoSession
<1>6. /\ {current, previous, finished} \subseteq Shown
      /\ {offline, demo, shownError, loading} \subseteq BOOLEAN
      /\ sites \in {"none", "real", "demo"}
  BY DEF AppInit, Shown
<1>7. AppTypeOK
  BY <1>4, <1>5, <1>6 DEF AppTypeOK, Requests
<1> QED
  BY <1>3, <1>7 DEF AppIInv, FoundIsOnline, AnswersAreReal, FromServer, AppInit

\* Every step keeps AppIInv.
LEMMA AppStepwise == ASSUME DriverAssumption, AppIInv, [AppNext]_driverVars PROVE AppIInv'
<1> USE DEF AppIInv
<1>1. ASSUME NEW r \in 0..Candidates, Moves(r)
      PROVE  AppIInv'
  BY <1>1 DEF Moves, apiVars, screenVars, AppTypeOK, FoundIsOnline, AnswersAreReal, FromServer, DriverAssumption, Shown, Real, Slots, Demo
<1>2. CASE SessionTurns
  BY <1>2 DEF SessionTurns, apiVars, screenVars, AppTypeOK, FoundIsOnline, AnswersAreReal, FromServer, Demo, DriverAssumption, Shown, Real, NoSession
<1>3. CASE ProbeFinds
  <2>1. probe \in 0..Candidates /\ calls' = SentTo(probe)
    BY <1>3 DEF ProbeFinds
  <2>2. calls' \in [Slots -> Requests] /\ AnswersAreReal'
    BY <2>1, SendingAnswersNone DEF AnswersAreReal
  <2>3. base' \in 0..Candidates /\ probe' \in 0..Settled
    BY <1>3 DEF ProbeFinds, Settled, DriverAssumption
  <2>4. /\ {offline, demo, shownError, loading}' \subseteq BOOLEAN
        /\ ~offline'
    BY <1>3 DEF ProbeFinds, OfflineNoMore, screenVars, AppTypeOK
  <2>5. AppTypeOK'
    BY <1>3, <2>2, <2>3, <2>4 DEF ProbeFinds, serverVars, screenVars, AppTypeOK, Requests
  <2> QED
    BY <2>2, <2>4, <2>5 DEF FoundIsOnline
<1>4. CASE ProbeMisses
  <2>1. 1 \in 0..Candidates
    BY DEF DriverAssumption
  <2>2. calls' = SentTo(1) \/ calls' = calls
    BY <1>4 DEF ProbeMisses
  <2>3. calls' \in [Slots -> Requests] /\ AnswersAreReal'
    <3>1. CASE calls' = SentTo(1)
      BY <2>1, <3>1, SendingAnswersNone DEF AnswersAreReal
    <3>2. CASE calls' = calls
      BY <3>2 DEF AppTypeOK, Requests, AnswersAreReal, FromServer, Demo
    <3> QED
      BY <2>2, <3>1, <3>2
  <2>4. probe' \in 0..Settled /\ lapses' \in 0..MaxLapses
    BY <1>4 DEF ProbeMisses, ForgetAttempt, Settled, DriverAssumption, AppTypeOK
  <2>5. {offline, demo, shownError, loading}' \subseteq BOOLEAN
    BY <1>4 DEF ProbeMisses, screenVars, AppTypeOK
  <2>6. AppTypeOK'
    BY <1>4, <2>3, <2>4, <2>5 DEF ProbeMisses, serverVars, screenVars, AppTypeOK, Requests
  <2>7. base' = 0
    BY <1>4 DEF ProbeMisses
  <2> QED
    BY <2>3, <2>6, <2>7 DEF FoundIsOnline
<1>5. CASE PollSession
  <2>1. NoSession \in Shown
    BY DEF Shown
  <2>2. Request("current", NoSession) \in Requests /\ FromServer(Request("current", NoSession))
    BY <2>1, RequestIsOne
  <2>3. calls' \in [Slots -> Requests] /\ AnswersAreReal'
    BY <1>5, <2>2, OneReplaced DEF PollSession
  <2>4. probe' \in 0..Settled
    BY <1>5, JoinedIsProbe DEF PollSession
  <2> QED
    BY <1>5, <2>3, <2>4 DEF PollSession, serverVars, screenVars, AppTypeOK, Requests, FoundIsOnline
<1>6. CASE Dismisses
  BY <1>6 DEF Dismisses, serverVars, apiVars, AppTypeOK, FoundIsOnline, AnswersAreReal, FromServer, Demo, Shown
<1>7. ASSUME NEW c \in Slots, Serves(c)
      PROVE  AppIInv'
  <2> DEFINE call == [calls[c] EXCEPT !.phase = "answered",
                                      !.value = IF calls[c].what = "current" THEN live ELSE @]
  <2>1. calls[c] \in Requests
    BY DEF AppTypeOK, Requests
  <2>2. live \in Shown /\ live # Demo
    BY DEF AppTypeOK, Shown, Real, Demo, NoSession, DriverAssumption
  <2>3. calls' = [calls EXCEPT ![c] = call]
    BY <1>7 DEF Serves
  <2>4. ASSUME calls[c].what = "report"
        PROVE  calls[c].value # Demo
    BY <1>7, <2>4 DEF Serves
  <2>5. call \in Requests
    BY <2>1, <2>2 DEF Requests
  <2>6. FromServer(call)
    BY <2>1, <2>2, <2>4 DEF Requests, FromServer
  <2>7. calls' \in [Slots -> Requests] /\ AnswersAreReal'
    BY <2>3, <2>5, <2>6, OneReplaced
  <2> QED
    BY <1>7, <2>7 DEF Serves, serverVars, apiVars, screenVars, AppTypeOK, Requests, FoundIsOnline
<1>8. ASSUME NEW c \in Slots, Arrives(c)
      PROVE  AppIInv'
  <2>1. calls[c].value \in Shown
    BY DEF AppTypeOK
  <2>2. ShowsCurrent(c, calls[c].value) \/ ShowsReport(c, calls[c].value) \/ ShowsSites(c, "real")
    BY <1>8 DEF Arrives
  <2>3. /\ calls' \in [Slots -> Requests] /\ AnswersAreReal' /\ probe' \in 0..Settled
        /\ {current, previous, finished}' \subseteq Shown
        /\ {demo, shownError, loading}' \subseteq BOOLEAN
        /\ sites' \in {"none", "real", "demo"}
    BY <2>1, <2>2, Showing
  <2> QED
    BY <1>8, <2>3 DEF Arrives, serverVars, AppTypeOK, Requests, FoundIsOnline
<1>9. ASSUME NEW c \in Slots, FallsBack(c)
      PROVE  AppIInv'
  <2>1. ShowsCurrent(c, Demo) \/ ShowsReport(c, Demo) \/ ShowsSites(c, "demo")
    BY <1>9 DEF FallsBack
  <2>2. Demo \in Shown
    BY DEF Shown
  <2>3. /\ calls' \in [Slots -> Requests] /\ AnswersAreReal' /\ probe' \in 0..Settled
        /\ {current, previous, finished}' \subseteq Shown
        /\ {demo, shownError, loading}' \subseteq BOOLEAN
        /\ sites' \in {"none", "real", "demo"}
    BY <2>1, <2>2, Showing
  <2>4. lapses' \in 0..MaxLapses
    BY <1>9 DEF FallsBack, Lost, AppTypeOK, DriverAssumption
  <2> QED
    BY <1>9, <2>3, <2>4 DEF FallsBack, serverVars, AppTypeOK, Requests, FoundIsOnline
<1>10. ASSUME NEW c \in Slots, Errs(c)
       PROVE  AppIInv'
  <2>1. calls' \in [Slots -> Requests] /\ AnswersAreReal'
    BY <1>10, NoCallIsOne, OneReplaced DEF Errs
  <2>2. lapses' \in 0..MaxLapses
    BY <1>10 DEF Errs, Lost, AppTypeOK, DriverAssumption
  <2> QED
    BY <1>10, <2>1, <2>2 DEF Errs, serverVars, apiVars, AppTypeOK, Requests, FoundIsOnline
<1>11. CASE UNCHANGED driverVars
  BY <1>11 DEF driverVars, AppTypeOK, FoundIsOnline, AnswersAreReal, FromServer, Demo
<1> QED
  BY <1>1, <1>2, <1>3, <1>4, <1>5, <1>6, <1>7, <1>8, <1>9, <1>10, <1>11 DEF AppNext

-----------------------------------------------------------------------------
\* A server found and being offline exclude each other, and no answer is the snapshot's.
THEOREM AppInvariant == ASSUME DriverAssumption PROVE AppSpec => []AppIInv
<1>1. AppInit => AppIInv
  BY AppInitially
<1>2. AppIInv /\ [AppNext]_driverVars => AppIInv'
  BY AppStepwise
<1> QED
  BY <1>1, <1>2, PTL DEF AppSpec

\* Every variable of the app keeps its type, for any number of addresses, requests and sessions.
THEOREM AppTypeCorrect == ASSUME DriverAssumption PROVE AppSpec => []AppTypeOK
BY AppInvariant, PTL DEF AppIInv

\* Once a server has answered, no step puts a figure of the built-in snapshot on a screen.
THEOREM NothingIsInvented == ASSUME DriverAssumption PROVE AppSpec => NeverInvented
<1> DEFINE Kept == base # 0 => /\ current' = Demo => current = Demo
                               /\ finished' = Demo => finished = Demo
                               /\ sites' = "demo" => sites = "demo"
<1>1. ASSUME AppIInv, [AppNext]_driverVars
      PROVE  [Kept]_<<current, finished, sites>>
  <2> SUFFICES ASSUME base # 0
               PROVE  Kept \/ UNCHANGED <<current, finished, sites>>
    OBVIOUS
  <2>1. ~offline
    BY <1>1 DEF AppIInv, FoundIsOnline
  <2>2. ASSUME NEW c \in Slots, Serves(c) \/ Errs(c)
        PROVE  UNCHANGED <<current, finished, sites>>
    BY <2>2 DEF Serves, Errs, screenVars
  <2>3. ASSUME NEW c \in Slots, Arrives(c)
        PROVE  Kept
    BY <1>1, <2>3 DEF AppIInv, AnswersAreReal, FromServer, Arrives, ShowsCurrent, ShowsReport, ShowsSites
  <2>4. ASSUME NEW c \in Slots
        PROVE  ~FallsBack(c)
    BY <2>1 DEF FallsBack
  <2>5. CASE Dismisses
    BY <2>5 DEF Dismisses, NoSession, Demo, DriverAssumption
  <2>6. CASE \E r \in 0..Candidates : Moves(r)
    BY <2>6 DEF Moves, screenVars
  <2>7. CASE SessionTurns \/ ProbeFinds \/ ProbeMisses \/ PollSession
    BY <2>7 DEF SessionTurns, ProbeFinds, ProbeMisses, PollSession, screenVars
  <2>8. CASE UNCHANGED driverVars
    BY <2>8 DEF driverVars
  <2>9. CASE AppNext
    <3>1. CASE \E c \in Slots : Serves(c) \/ Arrives(c) \/ FallsBack(c) \/ Errs(c)
      BY <3>1, <2>2, <2>3, <2>4
    <3> QED
      BY <3>1, <2>5, <2>6, <2>7, <2>9 DEF AppNext
  <2> QED
    BY <1>1, <2>8, <2>9
<1> QED
  BY <1>1, AppInvariant, PTL DEF AppSpec, NeverInvented

(***************************************************************************)
(* The terms of a session.                                                 *)
(***************************************************************************)
\* What the phone sends goes with the screen it is on.
ScreenFits ==
  /\ form.screen = "need" => form.bay \in Bays
  /\ form.screen = "plan" => /\ Open(copy["phone"]) /\ ~form.timer
                             /\ form.sending \in {None} \cup [body : Bodies, back : Nat]
  /\ form.screen # "plan" => form.sending \in {None} \cup Declarations

\* A copy is one of the session's, which keeps its power.
CopiesAreOfIt ==
  \A who \in {"phone", "console"} :
    copy[who] # NoTerms => session # NoTerms /\ copy[who].power = session.power

\* The last thing the phone has asked for is what is chosen, and so is the answer when it is in.
LastIs(key) ==
  IF form.asks = <<>> THEN form.shown \in {None, key} ELSE form.asks[Len(form.asks)] = key
AsksForWhatIsChosen ==
  ~form.timer /\ ~form.amiss =>
    /\ form.screen = "need" =>
         /\ LastIs(SetupKey(form))
         /\ form.asks = <<>> /\ ~form.feasible => ~Previewed(SetupKey(form))
    /\ form.screen = "plan" /\ Left(copy["phone"]) > 0 => LastIs(PlanKey(copy["phone"]))

\* The panel listens for one price alone.
PanelAsksForIt ==
  /\ \A key \in panel.asks : key = PanelKey(copy["console"], panel.change)
  /\ panel.asks # {} \/ panel.shown # None => Open(copy["console"])

TermsIInv ==
  /\ TermsTypeOK /\ ScreenFits /\ CopiesAreOfIt /\ AsksForWhatIsChosen /\ PanelAsksForIt
  /\ PromiseCanBeKept /\ OverrideIsPriced

-----------------------------------------------------------------------------
\* The ticks a charge takes at full power: one less for every tick of it.
LEMMA TicksOfACharge ==
  ASSUME NEW e \in Nat, NEW p \in Nat \ {0}
  PROVE  /\ (e + p - 1) \div p \in Nat
         /\ e > p => ((e - p) + p - 1) \div p = ((e + p - 1) \div p) - 1
<1> DEFINE q == (e + p - 1) \div p
<1>1. q \in Int /\ q * p <= e + p - 1 /\ e + p - 1 < (q + 1) * p
  OBVIOUS
<1>2. q >= 0
  BY <1>1
<1>3. ASSUME e > p
      PROVE  ((e - p) + p - 1) \div p = q - 1
  <2> DEFINE r == ((e - p) + p - 1) \div p
  <2>1. r \in Int /\ r * p <= e - 1 /\ e - 1 < (r + 1) * p
    BY <1>3
  <2> QED
    BY <1>1, <2>1
<1> QED
  BY <1>2, <1>3

\* A session there is, and none.
LEMMA OpenIsASession ==
  ASSUME NEW s \in {NoTerms} \cup Sessions
  PROVE  /\ Open(s) => s \in Sessions
         /\ s \in Sessions => s # NoTerms /\ s.status \in {"open", "over"} /\ Left(s) \in Nat
         /\ ~Open(NoTerms)
BY DEF NoTerms, Sessions, Open, Left

\* A need or a deadline that is changed can be met, and the rest of a session stays as it was.
LEMMA PatchKeeps ==
  ASSUME TermsTypeOK, PromiseCanBeKept, NEW body \in Bodies, Grants(body), Patched(body),
         time' = time
  PROVE  /\ session \in Sessions /\ session' \in Sessions /\ held' \in BOOLEAN
         /\ session'.power = session.power /\ Open(session')
         /\ PromiseCanBeKept'
<1>1. session \in Sessions /\ Open(session)
  BY OpenIsASession DEF TermsTypeOK, Grants
<1>2. /\ session' = Amended(body) /\ session' \in Sessions /\ session'.power = session.power
      /\ Open(session')
      /\ body.what = "mode" => Left(session') = Left(session) /\ session'.deadline = session.deadline
  BY <1>1 DEF Patched, Amended, Bodies, Sessions, Open, Left
<1>3. held' = (held /\ ~Checks(body)) /\ held' \in BOOLEAN
  BY DEF Patched, TermsTypeOK, Checks
<1>4. CASE Checks(body)
  <2>1. Deliverable(Left(Amended(body)), session.power, Amended(body).deadline)
    BY <1>4 DEF Grants
  <2>2. \/ Left(session') = 0
        \/ time' + (Left(session') + session'.power - 1) \div session'.power <= session'.deadline
    BY <2>1, <1>2 DEF Deliverable
  <2> QED
    BY <1>1, <1>2, <1>3, <2>2 DEF PromiseCanBeKept, Deliverable
<1>5. CASE ~Checks(body)
  <2>1. body.what = "mode" /\ held' = held
    BY <1>5, <1>3 DEF Checks, Bodies, TermsTypeOK
  <2> QED
    BY <2>1, <1>1, <1>2, <1>3 DEF PromiseCanBeKept, Deliverable
<1> QED
  BY <1>1, <1>2, <1>3, <1>4, <1>5

\* What cannot be met does not become so as time goes by.
LEMMA NoLaterThanNow ==
  ASSUME NEW key \in Keys, key.power # 0, TermsTypeOK, time' \in {time, time + 1}, ~Previewed(key)
  PROVE  ~Previewed(key)'
<1>1. (key.energy + key.power - 1) \div key.power \in Nat
  BY TicksOfACharge DEF Keys
<1> QED
  BY <1>1 DEF Previewed, Deliverable, TermsTypeOK, Keys

\* The keys are prices' requests.
LEMMA KeysAreTyped ==
  ASSUME TermsAssumption
  PROVE  /\ \A f \in Forms : SetupKey(f) \in Keys
         /\ \A s \in Sessions : PlanKey(s) \in Keys
         /\ \A s \in Sessions, change \in {NoChange} \cup Overriding : PanelKey(s, change) \in PanelKeys
<1>1. ASSUME NEW f \in Forms
      PROVE  SetupKey(f) \in Keys
  BY DEF SetupKey, Forms, Keys
<1>2. ASSUME NEW s \in Sessions
      PROVE  PlanKey(s) \in Keys
  BY DEF PlanKey, AtLeastOne, Left, Sessions, Keys
<1>3. ASSUME NEW s \in Sessions, NEW change \in {NoChange} \cup Overriding
      PROVE  PanelKey(s, change) \in PanelKeys
  <2>1. NewDeadline(s, change) \in Nat /\ NewMode(s, change) \in Modes
    BY DEF NewDeadline, NewMode, NoChange, Overriding, Sessions
  <2> QED
    BY <2>1 DEF PanelKey, PanelKeys, Left, Sessions
<1> QED
  BY <1>1, <1>2, <1>3

\* A step of the server leaves what the screens show and ask for.
LEMMA ScreensUnmoved ==
  ASSUME TermsAssumption, TermsIInv, UNCHANGED <<copy, form, panel>>, time' \in {time, time + 1}
  PROVE  ScreenFits' /\ AsksForWhatIsChosen' /\ PanelAsksForIt' /\ OverrideIsPriced'
<1>1. ScreenFits' /\ PanelAsksForIt' /\ OverrideIsPriced'
  BY DEF TermsIInv, ScreenFits, PanelAsksForIt, OverrideIsPriced
<1>2. ASSUME form.screen = "need", ~Previewed(SetupKey(form))
      PROVE  ~Previewed(SetupKey(form))'
  <2>1. SetupKey(form) \in Keys /\ SetupKey(form).power # 0
    BY <1>2, KeysAreTyped DEF TermsIInv, TermsTypeOK, ScreenFits, SetupKey, TermsAssumption
  <2>2. PICK key \in Keys : key = SetupKey(form)
    BY <2>1
  <2>3. ~Previewed(key)'
    BY <1>2, <2>1, <2>2, NoLaterThanNow DEF TermsIInv
  <2> QED
    BY <2>2, <2>3 DEF SetupKey
<1>3. AsksForWhatIsChosen'
  BY <1>2 DEF TermsIInv, AsksForWhatIsChosen, LastIs
<1> QED
  BY <1>1, <1>3

LEMMA ServersStep ==
  ASSUME TermsAssumption, TermsIInv, OthersPatch \/ Passes \/ Ends
  PROVE  TermsIInv'
<1> USE DEF TermsIInv
<1>1. UNCHANGED <<copy, form, panel>> /\ time' \in {time, time + 1}
  BY DEF OthersPatch, Passes, Ends
<1>2. ASSUME session' \in Sessions, session \in Sessions, session'.power = session.power,
             held' \in BOOLEAN, acts' \in Nat, PromiseCanBeKept'
      PROVE  TermsIInv'
  <2>1. TermsTypeOK'
    BY <1>1, <1>2 DEF TermsTypeOK
  <2>2. CopiesAreOfIt'
    BY <1>1, <1>2, OpenIsASession DEF CopiesAreOfIt
  <2> QED
    BY <1>1, <1>2, <2>1, <2>2, ScreensUnmoved
<1>3. CASE OthersPatch
  <2>1. PICK body \in [what : {"mode"}, to : Modes] \cup [what : {"need"}, to : Needs] :
               Grants(body) /\ Patched(body)
    BY <1>3 DEF OthersPatch
  <2>2. body \in Bodies
    BY <2>1 DEF Bodies, TermsAssumption
  <2>3. acts' \in Nat /\ time' = time
    BY <1>3 DEF OthersPatch, Counts, TermsTypeOK
  <2> QED
    BY <1>2, <2>1, <2>2, <2>3, PatchKeeps
<1>4. CASE Passes
  <2>1. CASE ~Open(session) /\ UNCHANGED <<session, held>>
    <3>1. TermsTypeOK' /\ CopiesAreOfIt' /\ PromiseCanBeKept'
      BY <1>1, <1>4, <2>1 DEF TermsTypeOK, CopiesAreOfIt, PromiseCanBeKept, Passes
    <3> QED
      BY <1>1, <3>1, ScreensUnmoved
  <2>2. CASE Open(session)
    <3>1. /\ session \in Sessions /\ Left(session) \in Nat /\ acts' \in Nat /\ time' = time + 1
          /\ session.power \in Nat \ {0}
      BY <1>4, <2>2, OpenIsASession DEF TermsTypeOK, Passes, Sessions
    <3>2. /\ (Left(session) + session.power - 1) \div session.power \in Nat
          /\ Left(session) > session.power =>
               (Left(session) - session.power + session.power - 1) \div session.power =
                 ((Left(session) + session.power - 1) \div session.power) - 1
      BY <3>1, TicksOfACharge
    <3>3. CASE /\ Left(session) > 0 /\ held' = held
               /\ session' = [session EXCEPT !.got = IF Left(session) > session.power
                                                     THEN @ + session.power ELSE session.need]
      <4>1. session' \in Sessions /\ session'.power = session.power
        BY <3>1, <3>3 DEF Sessions
      <4>2. session'.deadline = session.deadline
        BY <3>1, <3>3 DEF Sessions
      <4>3. Left(session') = IF Left(session) > session.power THEN Left(session) - session.power ELSE 0
        BY <3>1, <3>3 DEF Sessions, Left
      <4>4. PromiseCanBeKept'
        <5> SUFFICES ASSUME ~held PROVE Deliverable(Left(session), session.power, session.deadline)'
          BY <3>3 DEF PromiseCanBeKept
        <5>1. time + (Left(session) + session.power - 1) \div session.power <= session.deadline
          BY <2>2, <3>3, <3>1 DEF PromiseCanBeKept, Deliverable
        <5>2. CASE Left(session) > session.power
          <6>1. Left(session') = Left(session) - session.power
            BY <4>3, <5>2
          <6>2. time' + (Left(session') + session'.power - 1) \div session'.power <= session'.deadline
            BY <3>1, <3>2, <4>1, <4>2, <5>1, <5>2, <6>1 DEF TermsTypeOK, Sessions
          <6> QED
            BY <6>2 DEF Deliverable
        <5>3. CASE ~(Left(session) > session.power)
          BY <4>3, <5>3 DEF Deliverable
        <5> QED
          BY <5>2, <5>3
      <4> QED
        BY <1>2, <3>1, <3>3, <4>1, <4>4 DEF TermsTypeOK
    <3>4. CASE held' = (held \/ Left(session) > 0) /\ UNCHANGED session
      <4>1. held' \in BOOLEAN
        BY <3>4 DEF TermsTypeOK
      <4>2. ~held' => Left(session') = 0
        <5>1. ~held' => ~(Left(session) > 0)
          BY <3>4, Zenon
        <5>2. Left(session') = Left(session)
          BY <3>4
        <5> QED
          BY <3>1, <5>1, <5>2
      <4>3. PromiseCanBeKept'
        BY <4>2 DEF PromiseCanBeKept, Deliverable
      <4> QED
        BY <1>2, <3>1, <3>4, <4>1, <4>3
    <3> QED
      BY <1>4, <2>2, <3>3, <3>4 DEF Passes
  <2> QED
    BY <1>4, <2>1, <2>2 DEF Passes
<1>5. CASE Ends
  <2>1. session \in Sessions /\ session' \in Sessions /\ session'.power = session.power /\ ~Open(session')
    BY <1>5, OpenIsASession DEF Ends, TermsTypeOK, Sessions, Open
  <2>2. held' \in BOOLEAN /\ acts' \in Nat /\ PromiseCanBeKept'
    BY <1>5, <2>1 DEF Ends, TermsTypeOK, PromiseCanBeKept
  <2> QED
    BY <1>2, <2>1, <2>2
<1> QED
  BY <1>3, <1>4, <1>5

-----------------------------------------------------------------------------
(* The phone's form. *)

\* A step of the form alone.
LEMMA FormAlone ==
  ASSUME TermsIInv, UNCHANGED <<time, session, held, copy, panel>>, acts' \in Nat,
         form' \in Forms, ScreenFits', AsksForWhatIsChosen'
  PROVE  TermsIInv'
<1>1. TermsTypeOK'
  BY DEF TermsIInv, TermsTypeOK
<1>2. CopiesAreOfIt' /\ PanelAsksForIt' /\ OverrideIsPriced' /\ PromiseCanBeKept'
  BY DEF TermsIInv, CopiesAreOfIt, PanelAsksForIt, OverrideIsPriced, PromiseCanBeKept, Deliverable
<1> QED
  BY <1>1, <1>2 DEF TermsIInv

\* What was asked for last, is so once it is asked for.
LEMMA AskedLast ==
  ASSUME NEW f \in Forms, NEW key \in Keys
  PROVE  /\ AsksFor(f, key) \in Forms
         /\ AsksFor(f, key) = [f EXCEPT !.asks = AsksFor(f, key).asks, !.amiss = FALSE]
         /\ AsksFor(f, key).asks # <<>>
         /\ AsksFor(f, key).asks[Len(AsksFor(f, key).asks)] = key
<1>1. f.asks \in Seq(Keys)
  BY DEF Forms
<1>2. /\ Append(f.asks, key) \in Seq(Keys) /\ Append(f.asks, key) # <<>>
      /\ Append(f.asks, key)[Len(Append(f.asks, key))] = key
  BY <1>1, AppendProperties
<1> QED
  BY <1>2 DEF AsksFor, Forms

\* An answer leaves the others as they were asked.
LEMMA OneLessAsked ==
  ASSUME NEW asks \in Seq(Keys), NEW i \in DOMAIN asks
  PROVE  /\ RemoveAt(asks, i) \in Seq(Keys) /\ asks[i] \in Keys
         /\ i = 1 => IF RemoveAt(asks, i) = <<>> THEN Len(asks) = 1
                     ELSE RemoveAt(asks, i)[Len(RemoveAt(asks, i))] = asks[Len(asks)]
<1>1. Len(asks) \in Nat /\ DOMAIN asks = 1..Len(asks) /\ \A k \in 1..Len(asks) : asks[k] \in Keys
  BY LenProperties, ElementOfSeq
<1>2. SubSeq(asks, 1, i - 1) \in Seq(Keys) /\ SubSeq(asks, i + 1, Len(asks)) \in Seq(Keys)
  BY <1>1, SubSeqProperties
<1>3. RemoveAt(asks, i) \in Seq(Keys)
  BY <1>2, ConcatProperties DEF RemoveAt
<1>4. ASSUME i = 1
      PROVE  IF RemoveAt(asks, i) = <<>> THEN Len(asks) = 1
             ELSE RemoveAt(asks, i)[Len(RemoveAt(asks, i))] = asks[Len(asks)]
  <2> DEFINE rest == SubSeq(asks, 2, Len(asks))
  <2>1. SubSeq(asks, 1, i - 1) = <<>>
    BY <1>4, SubSeqEmpty
  <2>2. RemoveAt(asks, i) = rest
    BY <1>2, <1>4, <2>1, ConcatEmptySeq DEF RemoveAt
  <2>3. /\ Len(rest) = Len(asks) - 1
        /\ \A k \in 1..Len(rest) : rest[k] = asks[k + 1]
    BY <1>1, <1>4, SubSeqProperties
  <2>4. rest = <<>> <=> Len(rest) = 0
    <3>1. rest \in Seq(Keys)
      BY <1>2, <1>4
    <3> HIDE DEF rest
    <3> QED
      BY <3>1, EmptySeq
  <2> QED
    BY <1>1, <1>4, <2>2, <2>3, <2>4
<1> QED
  BY <1>1, <1>3, <1>4

\* Any choice made sets the timer that a price will be asked for, or is of what no price depends on.
LEMMA Choosing ==
  ASSUME TermsAssumption, TermsIInv, ChangesForm \/ \E power \in Bays : ChoosesBay(power)
  PROVE  TermsIInv'
<1> USE DEF TermsIInv
<1>1. UNCHANGED <<time, session, held, copy, panel>> /\ acts' \in Nat
  <2>1. acts \in Nat
    BY DEF TermsTypeOK
  <2>2. UNCHANGED <<time, session, held, copy, panel>> /\ Counts
    BY DEF ChangesForm, ChoosesBay
  <2> QED
    BY <2>1, <2>2 DEF Counts
<1>2. form \in Forms /\ time \in Nat
  BY DEF TermsTypeOK
<1>3. ASSUME NEW chosen \in Forms, form' = Retimed(form, chosen), chosen.screen \in {"bay", "need"},
             form.screen # "plan", chosen.screen = "need" => chosen.bay \in Bays,
             chosen.sending = form.sending, chosen.asks = form.asks, chosen.amiss = form.amiss,
             chosen.shown = form.shown, chosen.feasible = form.feasible,
             chosen.timer = form.timer
      PROVE  TermsIInv'
  <2>1. /\ form' \in Forms /\ form'.screen = chosen.screen /\ form'.bay = chosen.bay
        /\ form'.energy = chosen.energy /\ form'.deadline = chosen.deadline
        /\ form'.sending = chosen.sending /\ form'.asks = chosen.asks /\ form'.amiss = chosen.amiss
        /\ form'.shown = chosen.shown /\ form'.feasible = chosen.feasible
        /\ form'.timer = (chosen.timer \/ form.screen # chosen.screen
                          \/ SetupKey(form) # SetupKey(chosen))
    BY <1>2, <1>3 DEF Retimed, Forms
  <2>2. ScreenFits'
    BY <1>3, <2>1 DEF ScreenFits
  <2>3. AsksForWhatIsChosen'
    <3> SUFFICES ASSUME ~form'.timer, ~form'.amiss, form'.screen = "need"
                 PROVE  /\ LastIs(SetupKey(form))'
                        /\ form'.asks = <<>> /\ ~form'.feasible => ~Previewed(SetupKey(form))'
      BY <1>3, <2>1 DEF AsksForWhatIsChosen
    <3>1. SetupKey(form)' = SetupKey(form) /\ ~form.timer /\ ~form.amiss /\ form.screen = "need"
      BY <1>3, <2>1 DEF SetupKey
    <3> QED
      BY <1>1, <1>3, <2>1, <3>1 DEF AsksForWhatIsChosen, LastIs, Previewed, Deliverable
  <2> QED
    BY <1>1, <2>1, <2>2, <2>3, FormAlone
<1>4. ASSUME NEW power \in Bays, ChoosesBay(power)
      PROVE  TermsIInv'
  <2> DEFINE chosen == [form EXCEPT !.screen = "need", !.bay = power, !.deadline = time + UsualTime]
  <2>1. chosen \in Forms
    <3>1. power \in Nat /\ time + UsualTime \in Nat
      BY <1>2 DEF TermsAssumption
    <3> QED
      BY <1>2, <3>1 DEF Forms
  <2>2. form' = Retimed(form, chosen) /\ form.screen = "bay"
    BY <1>4 DEF ChoosesBay
  <2> QED
    BY <1>2, <1>3, <2>1, <2>2 DEF Forms
<1>5. CASE ChangesForm
  <2>1. form.screen = "need" /\ form.bay \in Bays
    BY <1>5 DEF ChangesForm, ScreenFits
  <2>2. CASE \E energy \in Needs : form' = Retimed(form, [form EXCEPT !.energy = energy])
    <3>1. PICK energy \in Needs : form' = Retimed(form, [form EXCEPT !.energy = energy])
      BY <2>2
    <3>2. [form EXCEPT !.energy = energy] \in Forms
      BY <1>2 DEF Forms, TermsAssumption
    <3> QED
      BY <1>2, <1>3, <2>1, <3>1, <3>2 DEF Forms
  <2>3. CASE \E step \in {-1, 1} : /\ form.deadline + step > time
                                   /\ form' = Retimed(form, [form EXCEPT !.deadline = @ + step])
    <3>1. PICK step \in {-1, 1} : /\ form.deadline + step > time
                                  /\ form' = Retimed(form, [form EXCEPT !.deadline = @ + step])
      BY <2>3
    <3>2. form.deadline + step \in Nat
      BY <1>2, <3>1 DEF Forms
    <3>3. [form EXCEPT !.deadline = @ + step] \in Forms
      BY <1>2, <3>2 DEF Forms
    <3> QED
      BY <1>2, <1>3, <2>1, <3>1, <3>3 DEF Forms
  <2>4. CASE \E mode \in Modes : form' = [form EXCEPT !.mode = mode]
    <3>1. PICK mode \in Modes : form' = [form EXCEPT !.mode = mode]
      BY <2>4
    <3>2. form' \in Forms /\ SetupKey(form') = SetupKey(form)
      BY <1>2, <3>1 DEF Forms, SetupKey
    <3>3. ScreenFits'
      BY <1>2, <2>1, <3>1 DEF Forms, ScreenFits
    <3>4. /\ form'.screen = form.screen /\ form'.asks = form.asks /\ form'.shown = form.shown
          /\ form'.timer = form.timer /\ form'.amiss = form.amiss /\ form'.feasible = form.feasible
      BY <1>2, <3>1 DEF Forms
    <3>5. AsksForWhatIsChosen'
      BY <1>1, <2>1, <3>2, <3>4 DEF AsksForWhatIsChosen, LastIs, Previewed, Deliverable
    <3> QED
      BY <1>1, <3>2, <3>3, <3>5, FormAlone
  <2>5. CASE form' = Retimed(form, [form EXCEPT !.screen = "bay"])
    <3>1. [form EXCEPT !.screen = "bay"] \in Forms
      BY <1>2 DEF Forms
    <3> QED
      BY <1>2, <1>3, <2>1, <2>5, <3>1 DEF Forms
  <2> QED
    BY <1>5, <2>2, <2>3, <2>4, <2>5 DEF ChangesForm
<1> QED
  BY <1>4, <1>5

\* The timer asks for what is chosen by then.
LEMMA TimersStep == ASSUME TermsAssumption, TermsIInv, TimerFires PROVE TermsIInv'
<1> USE DEF TermsIInv
<1>1. /\ UNCHANGED <<time, session, held, copy, panel>> /\ acts' \in Nat /\ form \in Forms
      /\ form.timer
  BY DEF TimerFires, TermsTypeOK
<1>2. CASE form.screen = "need"
  <2> DEFINE f == [form EXCEPT !.timer = FALSE, !.shown = None]
  <2>1. f \in Forms /\ SetupKey(form) \in Keys
    BY <1>1, KeysAreTyped DEF Forms
  <2>2. form' = AsksFor(f, SetupKey(form))
    BY <1>2 DEF TimerFires
  <2>3. /\ form' \in Forms /\ form'.asks # <<>> /\ form'.asks[Len(form'.asks)] = SetupKey(form)
        /\ form' = [f EXCEPT !.asks = form'.asks, !.amiss = FALSE]
    <3> HIDE DEF f
    <3> QED
      BY <2>1, <2>2, AskedLast
  <2>4. /\ form'.screen = "need" /\ form'.bay = form.bay /\ form'.energy = form.energy
        /\ form'.deadline = form.deadline /\ form'.sending = form.sending
    BY <1>1, <1>2, <2>3 DEF Forms
  <2>5. ScreenFits' /\ AsksForWhatIsChosen'
    BY <1>2, <2>3, <2>4 DEF ScreenFits, AsksForWhatIsChosen, LastIs, SetupKey
  <2> QED
    BY <1>1, <2>3, <2>5, FormAlone
<1>3. CASE form.screen # "need"
  <2>1. form' = [form EXCEPT !.timer = FALSE] /\ form' \in Forms
    BY <1>1, <1>3 DEF TimerFires, Forms
  <2>2. form.screen = "bay" /\ form'.screen = "bay" /\ form'.sending = form.sending
    BY <1>1, <1>3, <2>1 DEF ScreenFits, Forms
  <2>3. ScreenFits' /\ AsksForWhatIsChosen'
    BY <2>2 DEF ScreenFits, AsksForWhatIsChosen
  <2> QED
    BY <1>1, <2>1, <2>3, FormAlone
<1> QED
  BY <1>2, <1>3

\* An answer in its turn leaves the last one asked for the last to come.
LEMMA AnswersStep ==
  ASSUME TermsAssumption, TermsIInv, NEW i \in DOMAIN form.asks, PhoneHears(i)
  PROVE  TermsIInv'
<1> USE DEF TermsIInv
<1>1. /\ UNCHANGED <<time, session, held, copy, panel>> /\ form \in Forms /\ acts' \in Nat
      /\ form.asks \in Seq(Keys)
  BY DEF PhoneHears, Counts, TermsTypeOK, Forms
<1>2. /\ RemoveAt(form.asks, i) \in Seq(Keys) /\ form.asks[i] \in Keys
      /\ i = 1 => IF RemoveAt(form.asks, i) = <<>> THEN Len(form.asks) = 1
                  ELSE RemoveAt(form.asks, i)[Len(RemoveAt(form.asks, i))] = form.asks[Len(form.asks)]
  BY <1>1, OneLessAsked
<1> DEFINE rest == [form EXCEPT !.asks = RemoveAt(@, i), !.amiss = @ \/ i > 1]
<1>3. rest \in Forms
  BY <1>1, <1>2 DEF Forms
<1>4. CASE form' = [rest EXCEPT !.shown = form.asks[i],
                                !.feasible = ~Setup \/ Previewed(form.asks[i])]
  <2>1. /\ form' \in Forms /\ form'.asks = RemoveAt(form.asks, i) /\ form'.shown = form.asks[i]
        /\ form'.amiss = (form.amiss \/ i > 1) /\ form'.feasible = (~Setup \/ Previewed(form.asks[i]))
    <3>1. PICK can \in BOOLEAN : can = (~Setup \/ Previewed(form.asks[i]))
      BY DEF Setup, Previewed, Deliverable
    <3>2. PICK amiss \in BOOLEAN : amiss = (form.amiss \/ i > 1)
      OBVIOUS
    <3>3. form' = [form EXCEPT !.asks = RemoveAt(form.asks, i), !.amiss = amiss,
                               !.shown = form.asks[i], !.feasible = can]
      BY <1>1, <1>4, <3>1, <3>2 DEF Forms
    <3>4. /\ form' \in Forms /\ form'.asks = RemoveAt(form.asks, i) /\ form'.shown = form.asks[i]
          /\ form'.amiss = amiss /\ form'.feasible = can
      BY <1>1, <1>2, <3>3 DEF Forms
    <3> QED
      BY <3>1, <3>2, <3>4
  <2>2. /\ form'.screen = form.screen /\ form'.bay = form.bay /\ form'.energy = form.energy
        /\ form'.deadline = form.deadline /\ form'.sending = form.sending /\ form'.timer = form.timer
    BY <1>1, <1>4 DEF Forms
  <2>3. ScreenFits'
    BY <1>1, <2>2 DEF ScreenFits
  <2>4. AsksForWhatIsChosen'
    <3> SUFFICES ASSUME ~form'.timer, ~form'.amiss PROVE AsksForWhatIsChosen'
      BY DEF AsksForWhatIsChosen
    <3>1. ~form.amiss /\ ~(i > 1)
      BY <2>1, Zenon
    <3>2. i = 1 /\ form.asks # <<>>
      BY <1>1, <3>1, EmptySeq, LenProperties
    <3>3. ASSUME NEW key, LastIs(key)
          PROVE  IF form'.asks = <<>> THEN form'.shown = key ELSE form'.asks[Len(form'.asks)] = key
      BY <1>2, <2>1, <3>2, <3>3 DEF LastIs
    <3>4. ASSUME form.screen = "need"
          PROVE  /\ LastIs(SetupKey(form))'
                 /\ form'.asks = <<>> /\ ~form'.feasible => ~Previewed(SetupKey(form))'
      <4>1. LastIs(SetupKey(form)) /\ SetupKey(form)' = SetupKey(form)
        BY <2>2, <3>1, <3>4 DEF AsksForWhatIsChosen, SetupKey
      <4>2. LastIs(SetupKey(form))'
        BY <3>3, <4>1 DEF LastIs
      <4>3. ASSUME form'.asks = <<>>, ~form'.feasible
            PROVE  ~Previewed(SetupKey(form))'
        <5>1. form.asks[i] = SetupKey(form)
          BY <2>1, <3>3, <4>1, <4>3
        <5>2. ~Previewed(form.asks[i])
          BY <2>1, <4>3, Zenon
        <5> QED
          BY <1>1, <4>1, <5>1, <5>2 DEF Previewed, Deliverable
      <4> QED
        BY <4>2, <4>3
    <3>5. ASSUME form.screen = "plan", Left(copy["phone"]) > 0
          PROVE  LastIs(PlanKey(copy["phone"]))'
      <4>1. LastIs(PlanKey(copy["phone"])) /\ PlanKey(copy["phone"])' = PlanKey(copy["phone"])
        BY <1>1, <2>2, <3>1, <3>5 DEF AsksForWhatIsChosen, PlanKey
      <4> QED
        BY <3>3, <4>1 DEF LastIs
    <3> QED
      BY <1>1, <2>2, <3>4, <3>5 DEF AsksForWhatIsChosen
  <2> QED
    BY <1>1, <2>1, <2>3, <2>4, FormAlone
<1>5. CASE form' = [rest EXCEPT !.shown = IF Setup THEN @ ELSE None, !.feasible = TRUE, !.amiss = TRUE]
  <2>1. form' \in Forms /\ form'.amiss
    BY <1>3, <1>5 DEF Forms
  <2>2. /\ form'.screen = form.screen /\ form'.bay = form.bay /\ form'.sending = form.sending
        /\ form'.timer = form.timer
    BY <1>1, <1>5 DEF Forms
  <2>3. ScreenFits' /\ AsksForWhatIsChosen'
    BY <1>1, <2>1, <2>2 DEF ScreenFits, AsksForWhatIsChosen
  <2> QED
    BY <1>1, <2>1, <2>3, FormAlone
<1> QED
  BY <1>4, <1>5 DEF PhoneHears

\* A form that is begun anew.
LEMMA FreshForm ==
  ASSUME TermsAssumption, time \in Nat, NEW screen \in {"bay", "need", "plan"}
  PROVE  /\ Form(screen) \in Forms /\ Form(screen).screen = screen /\ Form(screen).sending = None
         /\ Form(screen).asks = <<>> /\ Form(screen).shown = None /\ ~Form(screen).timer
         /\ ~Form(screen).amiss /\ Form(screen).feasible
<1>1. UsualNeed \in Nat /\ time + UsualTime \in Nat /\ "usual" \in Modes /\ <<>> \in Seq(Keys)
  BY EmptySeq DEF TermsAssumption
<1> QED
  BY <1>1 DEF Form, Forms

\* What is chosen is what is sent, and a deadline moved on the plan asks for no price.
LEMMA SendingStep ==
  ASSUME TermsAssumption, TermsIInv, SendsForm \/ MovesDeadline \/ PhoneSends
  PROVE  TermsIInv'
<1> USE DEF TermsIInv
<1>1. /\ UNCHANGED <<time, session, held, copy, panel>> /\ form \in Forms /\ time \in Nat
      /\ copy["phone"] \in {NoTerms} \cup Sessions
  BY DEF SendsForm, MovesDeadline, PhoneSends, TermsTypeOK
<1>2. acts' \in Nat
  BY DEF SendsForm, MovesDeadline, PhoneSends, Counts, TermsTypeOK
<1>3. ASSUME form' \in Forms, UNCHANGED <<form.screen, form.bay, form.timer, form.asks, form.amiss,
                                         form.shown, form.feasible>>,
             form.screen = "need" => UNCHANGED <<form.energy, form.deadline>>,
             ScreenFits'
      PROVE  TermsIInv'
  <2>1. AsksForWhatIsChosen'
    BY <1>1, <1>3 DEF AsksForWhatIsChosen, LastIs, SetupKey, Previewed, Deliverable
  <2> QED
    BY <1>1, <1>2, <1>3, <2>1, FormAlone
<1>4. CASE SendsForm
  <2> DEFINE ask == [need |-> form.energy, deadline |-> form.deadline,
                     mode |-> form.mode, power |-> form.bay]
  <2>1. ask \in Declarations /\ form.screen = "need"
    BY <1>1, <1>4 DEF SendsForm, ScreenFits, Declarations, Forms, TermsAssumption
  <2>2. form' = [form EXCEPT !.sending = ask]
    BY <1>4 DEF SendsForm
  <2> HIDE DEF ask
  <2>3. ScreenFits'
    BY <1>1, <2>1, <2>2 DEF ScreenFits, Forms
  <2> QED
    BY <1>1, <1>3, <2>1, <2>2, <2>3 DEF Forms
<1>5. CASE MovesDeadline
  <2>1. PICK step \in {-1, 1} : /\ form.screen = "plan" /\ form.deadline + step > time
                                /\ form' = [form EXCEPT !.deadline = @ + step]
    BY <1>5 DEF MovesDeadline
  <2>2. form.deadline + step \in Nat
    BY <1>1, <2>1 DEF Forms
  <2>3. form' \in Forms /\ ScreenFits'
    BY <1>1, <2>1, <2>2 DEF ScreenFits, Forms
  <2> QED
    BY <1>1, <1>3, <2>1, <2>3 DEF Forms
<1>6. CASE PhoneSends
  <2>1. /\ form.screen = "plan" /\ copy["phone"] \in Sessions
        /\ form.deadline \in Nat /\ copy["phone"].deadline \in Nat
    BY <1>1, <1>6, OpenIsASession DEF PhoneSends, ScreenFits, Forms, Sessions
  <2>2. \E body \in Bodies, back \in Nat : form' = [form EXCEPT !.sending = [body |-> body, back |-> back]]
    <3>1. CASE form' = [form EXCEPT !.sending = [body |-> [what |-> "deadline", to |-> form.deadline],
                                                 back |-> copy["phone"].deadline]]
      <4>1. [what |-> "deadline", to |-> form.deadline] \in Bodies
        BY <2>1 DEF Bodies
      <4> QED
        BY <2>1, <3>1, <4>1
    <3>2. ASSUME NEW mode \in Modes,
                 form' = [form EXCEPT !.sending = [body |-> [what |-> "mode", to |-> mode],
                                                   back |-> form.deadline]]
          PROVE  \E body \in Bodies, back \in Nat :
                    form' = [form EXCEPT !.sending = [body |-> body, back |-> back]]
      <4>1. [what |-> "mode", to |-> mode] \in Bodies
        BY DEF Bodies
      <4> QED
        BY <2>1, <3>2, <4>1
    <3> QED
      BY <1>6, <3>1, <3>2 DEF PhoneSends
  <2>3. PICK sent \in [body : Bodies, back : Nat] : form' = [form EXCEPT !.sending = sent]
    BY <2>2
  <2>4. form' \in Forms /\ ScreenFits'
    BY <1>1, <2>1, <2>3 DEF ScreenFits, Forms
  <2> QED
    BY <1>1, <1>3, <2>1, <2>3, <2>4 DEF Forms
<1> QED
  BY <1>4, <1>5, <1>6

\* Declared, a session can be delivered in time.
LEMMA CreatesStep == ASSUME TermsAssumption, TermsIInv, CreateArrives PROVE TermsIInv'
<1> USE DEF TermsIInv
<1>1. /\ UNCHANGED <<time, copy, panel>> /\ form \in Forms /\ time \in Nat /\ Setup
      /\ form.sending \in Declarations
  BY DEF CreateArrives, ScreenFits, Setup, TermsTypeOK
<1>2. acts' \in Nat
  BY DEF CreateArrives, Counts, TermsTypeOK
<1>3. ASSUME OpenedBy(form.sending)
      PROVE  session = NoTerms /\ session' \in Sessions /\ held' \in BOOLEAN /\ PromiseCanBeKept'
  <2>1. PICK ask \in Declarations : ask = form.sending
    BY <1>1
  <2>2. /\ session = NoTerms /\ Admits(ask) /\ held' = FALSE
        /\ session' = [status |-> "open", got |-> 0, need |-> ask.need, deadline |-> ask.deadline,
                       mode |-> ask.mode, power |-> ask.power]
    BY <1>3, <2>1 DEF OpenedBy
  <2>3. session' \in Sessions
    BY <2>2 DEF Sessions, Declarations
  <2>4. Left(session') = ask.need
    BY <2>2 DEF Left, Declarations
  <2>5. PromiseCanBeKept'
    BY <1>1, <2>2, <2>4 DEF Admits, Deliverable, PromiseCanBeKept
  <2> QED
    BY <2>2, <2>3, <2>5
<1>4. CopiesAreOfIt' /\ PromiseCanBeKept' /\ session' \in {NoTerms} \cup Sessions /\ held' \in BOOLEAN
  <2>1. CASE OpenedBy(form.sending)
    BY <1>1, <1>3, <2>1 DEF CopiesAreOfIt
  <2>2. CASE UNCHANGED <<session, held>>
    BY <1>1, <2>2 DEF CopiesAreOfIt, PromiseCanBeKept, Deliverable, TermsTypeOK
  <2> QED
    BY <2>1, <2>2 DEF CreateArrives
<1>5. form' \in Forms /\ ScreenFits' /\ AsksForWhatIsChosen'
  <2>1. CASE form' = Form("bay")
    BY <1>1, <2>1, FreshForm DEF ScreenFits, AsksForWhatIsChosen
  <2>2. CASE form' = [form EXCEPT !.sending = None]
    <3>1. /\ form' \in Forms /\ form'.sending = None
          /\ UNCHANGED <<form.screen, form.bay, form.energy, form.deadline, form.timer, form.asks,
                         form.amiss, form.shown, form.feasible>>
      BY <1>1, <2>2 DEF Forms
    <3>2. ScreenFits'
      BY <1>1, <3>1 DEF ScreenFits
    <3>3. AsksForWhatIsChosen'
      BY <1>1, <3>1 DEF AsksForWhatIsChosen, LastIs, SetupKey, Previewed, Deliverable
    <3> QED
      BY <3>1, <3>2, <3>3
  <2> QED
    BY <2>1, <2>2 DEF CreateArrives
<1>6. PanelAsksForIt' /\ OverrideIsPriced'
  BY <1>1 DEF PanelAsksForIt, OverrideIsPriced
<1> QED
  BY <1>1, <1>2, <1>4, <1>5, <1>6 DEF TermsTypeOK

-----------------------------------------------------------------------------
(* The phone's plan. *)

\* With another copy, the plan prices what is left of it.
LEMMA PollsStep == ASSUME TermsAssumption, TermsIInv, PhonePolls PROVE TermsIInv'
<1> USE DEF TermsIInv
<1>1. /\ UNCHANGED <<time, session, held, panel>> /\ form \in Forms /\ time \in Nat /\ acts' \in Nat
      /\ copy' = [copy EXCEPT !["phone"] = session]
      /\ session \in {NoTerms} \cup Sessions /\ copy["phone"] \in {NoTerms} \cup Sessions
  BY DEF PhonePolls, TermsTypeOK
<1>2. /\ copy' \in [{"phone", "console"} -> {NoTerms} \cup Sessions]
      /\ copy'["phone"] = session /\ copy'["console"] = copy["console"]
  BY <1>1 DEF TermsTypeOK
<1>3. CopiesAreOfIt' /\ PanelAsksForIt' /\ OverrideIsPriced' /\ PromiseCanBeKept'
  BY <1>1, <1>2 DEF CopiesAreOfIt, PanelAsksForIt, OverrideIsPriced, PromiseCanBeKept, Deliverable
<1>4. form' \in Forms /\ ScreenFits' /\ AsksForWhatIsChosen'
  <2>1. CASE ~Open(session)
    <3>1. form' = IF form.screen = "plan" THEN Form("bay") ELSE form
      BY <2>1 DEF PhonePolls
    <3>2. CASE form.screen = "plan"
      BY <1>1, <3>1, <3>2, FreshForm DEF ScreenFits, AsksForWhatIsChosen
    <3>3. CASE form.screen # "plan"
      BY <1>1, <3>1, <3>3 DEF ScreenFits, AsksForWhatIsChosen, LastIs, Previewed, Deliverable
    <3> QED
      BY <3>2, <3>3
  <2>2. CASE Open(session)
    <3>1. session \in Sessions /\ session.deadline \in Nat /\ Left(session) \in Nat
          /\ PlanKey(session) \in Keys
      BY <1>1, <2>2, OpenIsASession, KeysAreTyped DEF Sessions
    <3> DEFINE opens == form.screen # "plan"
               screen == IF opens THEN Form("plan") ELSE form
               shifts == opens \/ copy["phone"].deadline # session.deadline
               follows == [screen EXCEPT !.deadline = IF shifts THEN session.deadline ELSE @]
    <3>2. form' = IF shifts \/ Left(copy["phone"]) # Left(session) THEN PlanAsks(follows, session)
                  ELSE follows
      BY <2>2 DEF PhonePolls
    <3>3. /\ screen \in Forms /\ screen.screen = "plan" /\ ~screen.timer
          /\ screen.sending \in {None} \cup [body : Bodies, back : Nat]
      BY <1>1, FreshForm DEF ScreenFits
    <3>4. /\ follows \in Forms /\ follows.screen = "plan" /\ ~follows.timer
          /\ follows.sending \in {None} \cup [body : Bodies, back : Nat]
      <4> HIDE DEF screen, shifts
      <4> QED
        BY <3>1, <3>3 DEF Forms
    <3>5. CASE shifts \/ Left(copy["phone"]) # Left(session)
      <4> HIDE DEF follows, shifts
      <4>1. form' = PlanAsks(follows, session)
        BY <3>2, <3>5
      <4>2. CASE Left(session) = 0
        <5>1. form' = [follows EXCEPT !.shown = None]
          BY <4>1, <4>2 DEF PlanAsks
        <5>2. /\ form' \in Forms /\ form'.screen = "plan" /\ ~form'.timer
              /\ form'.sending = follows.sending
          BY <3>4, <5>1 DEF Forms
        <5> QED
          BY <1>2, <2>2, <3>4, <4>2, <5>2 DEF ScreenFits, AsksForWhatIsChosen
      <4>3. CASE Left(session) # 0
        <5>1. form' = AsksFor(follows, PlanKey(session))
          BY <4>1, <4>3 DEF PlanAsks
        <5>2. /\ form' \in Forms /\ form'.asks # <<>> /\ form'.asks[Len(form'.asks)] = PlanKey(session)
              /\ form' = [follows EXCEPT !.asks = form'.asks, !.amiss = FALSE]
          BY <3>1, <3>4, <5>1, AskedLast
        <5>3. form'.screen = "plan" /\ ~form'.timer /\ form'.sending = follows.sending
          BY <3>4, <5>2 DEF Forms
        <5> QED
          BY <1>2, <2>2, <3>4, <5>2, <5>3 DEF ScreenFits, AsksForWhatIsChosen, LastIs
      <4> QED
        BY <4>2, <4>3
    <3>6. CASE ~(shifts \/ Left(copy["phone"]) # Left(session))
      <4>1. /\ form.screen = "plan" /\ copy["phone"].deadline = session.deadline
            /\ Left(copy["phone"]) = Left(session) /\ screen = form
        BY <3>6
      <4>2. form' = form
        <5>1. form' = [form EXCEPT !.deadline = form.deadline]
          BY <3>2, <3>6, <4>1
        <5> QED
          BY <1>1, <5>1 DEF Forms
      <4>3. copy["phone"] \in Sessions
        BY <1>1, <4>1, OpenIsASession DEF ScreenFits
      <4>4. session.power = copy["phone"].power
        BY <4>3, OpenIsASession DEF CopiesAreOfIt
      <4>5. PlanKey(session) = PlanKey(copy["phone"])
        BY <4>1, <4>4 DEF PlanKey
      <4> QED
        BY <1>1, <1>2, <2>2, <4>1, <4>2, <4>5 DEF ScreenFits, AsksForWhatIsChosen, LastIs
    <3> QED
      BY <3>5, <3>6
  <2> QED
    BY <2>1, <2>2
<1> QED
  BY <1>1, <1>2, <1>3, <1>4 DEF TermsTypeOK

\* A change of the phone's is granted or taken back on the screen; either way no price is asked for.
LEMMA PhonePatchStep == ASSUME TermsAssumption, TermsIInv, PhonePatchArrives PROVE TermsIInv'
<1> USE DEF TermsIInv
<1>1. /\ UNCHANGED <<time, copy, panel>> /\ form \in Forms /\ form.screen = "plan" /\ time \in Nat
      /\ form.sending \in [body : Bodies, back : Nat] /\ session \in {NoTerms} \cup Sessions
  BY DEF PhonePatchArrives, ScreenFits, TermsTypeOK
<1>2. PICK sent \in [body : Bodies, back : Nat] : sent = form.sending
  BY <1>1
<1>3. sent.body \in Bodies /\ sent.back \in Nat
  BY DEF Bodies
<1> DEFINE done == [form EXCEPT !.sending = None]
           back == IF sent.body.what = "deadline" THEN [done EXCEPT !.deadline = sent.back] ELSE done
<1>4. acts' \in Nat
  BY DEF PhonePatchArrives, Counts, TermsTypeOK
<1>5. /\ form' \in {done, back}
      /\ (Grants(sent.body) /\ Patched(sent.body)) \/ UNCHANGED <<session, held>>
  BY <1>2 DEF PhonePatchArrives
<1>6. /\ form' \in Forms /\ form'.sending = None
      /\ UNCHANGED <<form.screen, form.bay, form.timer, form.asks, form.amiss, form.shown, form.feasible>>
  BY <1>1, <1>3, <1>5 DEF Forms
<1>7. ScreenFits' /\ AsksForWhatIsChosen'
  BY <1>1, <1>6 DEF ScreenFits, AsksForWhatIsChosen, LastIs
<1>8. CopiesAreOfIt' /\ PromiseCanBeKept' /\ session' \in {NoTerms} \cup Sessions /\ held' \in BOOLEAN
  <2>1. CASE Grants(sent.body) /\ Patched(sent.body)
    <3>1. /\ session \in Sessions /\ session' \in Sessions /\ held' \in BOOLEAN
          /\ session'.power = session.power /\ PromiseCanBeKept'
      BY <1>1, <1>3, <2>1, PatchKeeps
    <3> QED
      BY <1>1, <3>1, OpenIsASession DEF CopiesAreOfIt
  <2>2. CASE UNCHANGED <<session, held>>
    BY <1>1, <2>2 DEF CopiesAreOfIt, PromiseCanBeKept, Deliverable, TermsTypeOK
  <2> QED
    BY <1>5, <2>1, <2>2
<1>9. PanelAsksForIt' /\ OverrideIsPriced'
  BY <1>1 DEF PanelAsksForIt, OverrideIsPriced
<1> QED
  BY <1>1, <1>4, <1>6, <1>7, <1>8, <1>9 DEF TermsTypeOK

-----------------------------------------------------------------------------
(* The console's panel. *)

\* A step of the panel leaves the phone and the session.
LEMMA PanelAlone ==
  ASSUME TermsIInv, UNCHANGED <<time, form>>, copy'["phone"] = copy["phone"]
  PROVE  ScreenFits' /\ AsksForWhatIsChosen'
BY DEF TermsIInv, ScreenFits, AsksForWhatIsChosen, LastIs, Previewed, Deliverable

\* A change is priced for the copy there is, and nothing else is waited for.
LEMMA PricedAnew ==
  ASSUME TermsAssumption, NEW p \in Panels, NEW s \in Sessions
  PROVE  /\ Priced(p, s) \in Panels /\ Priced(p, s).shown = None /\ Priced(p, s).change = p.change
         /\ \A key \in Priced(p, s).asks : key = PanelKey(s, p.change)
<1>1. p.change \in {NoChange} \cup Overriding
  BY DEF Panels
<1>2. PanelKey(s, p.change) \in PanelKeys
  BY <1>1, KeysAreTyped
<1> QED
  BY <1>2 DEF Priced, StillHeard, Panels

LEMMA OverridingStep ==
  ASSUME TermsAssumption, TermsIInv,
         Overrides \/ Confirms \/ \E key \in panel.asks : ConsoleHears(key)
  PROVE  TermsIInv'
<1> USE DEF TermsIInv
<1>1. /\ UNCHANGED <<time, session, held, copy, form>> /\ panel \in Panels
      /\ copy["console"] \in {NoTerms} \cup Sessions
  BY DEF Overrides, Confirms, ConsoleHears, TermsTypeOK
<1>2. acts' \in Nat
  <2>1. acts \in Nat
    BY DEF TermsTypeOK
  <2>2. UNCHANGED acts \/ Counts
    BY DEF Overrides, Confirms, ConsoleHears
  <2> QED
    BY <2>1, <2>2 DEF Counts
<1>3. ASSUME panel' \in Panels, PanelAsksForIt', OverrideIsPriced'
      PROVE  TermsIInv'
  <2>1. CopiesAreOfIt' /\ PromiseCanBeKept' /\ TermsTypeOK'
    BY <1>1, <1>2, <1>3 DEF CopiesAreOfIt, PromiseCanBeKept, Deliverable, TermsTypeOK
  <2> QED
    BY <1>1, <1>3, <2>1, PanelAlone
<1>4. CASE Overrides
  <2>1. copy["console"] \in Sessions /\ Open(copy["console"])
    BY <1>1, <1>4, OpenIsASession DEF Overrides
  <2>2. PICK change \in {NoChange} \cup Overriding :
               panel' = Priced([panel EXCEPT !.change = change], copy["console"])
    BY <1>1, <1>4, <2>1 DEF Overrides, Overriding, TermsAssumption
  <2>3. [panel EXCEPT !.change = change] \in Panels /\ [panel EXCEPT !.change = change].change = change
    BY <1>1 DEF Panels
  <2>4. /\ panel' \in Panels /\ panel'.shown = None /\ panel'.change = change
        /\ \A key \in panel'.asks : key = PanelKey(copy["console"], change)
    BY <2>1, <2>2, <2>3, PricedAnew
  <2>5. PanelAsksForIt' /\ OverrideIsPriced'
    BY <1>1, <2>1, <2>4 DEF PanelAsksForIt, OverrideIsPriced
  <2> QED
    BY <1>3, <2>4, <2>5
<1>5. CASE Confirms
  <2>1. Open(copy["console"]) /\ copy["console"] \in Sessions
    BY <1>1, <1>5, OpenIsASession DEF Confirms, PanelAsksForIt
  <2>2. panel.change \in {NoChange} \cup Overriding
    BY <1>1 DEF Panels
  <2> DEFINE body == IF panel.change.kind = "mode" THEN [what |-> "mode", to |-> panel.change.mode]
                     ELSE [what |-> "deadline", to |-> NewDeadline(copy["console"], panel.change)]
  <2>3. body \in Bodies
    <3>1. NewDeadline(copy["console"], panel.change) \in Nat
      BY <2>1, <2>2 DEF NewDeadline, NoChange, Overriding, Sessions
    <3>2. panel.change.kind = "mode" => panel.change.mode \in Modes
      BY <2>2 DEF NoChange, Overriding
    <3> QED
      BY <3>1, <3>2 DEF Bodies
  <2>4. panel' = [panel EXCEPT !.sending = body]
    BY <1>5 DEF Confirms
  <2> HIDE DEF body
  <2>5. panel' \in Panels /\ UNCHANGED <<panel.change, panel.asks, panel.shown>>
    BY <1>1, <2>3, <2>4 DEF Panels
  <2>6. PanelAsksForIt' /\ OverrideIsPriced'
    BY <1>1, <2>5 DEF PanelAsksForIt, OverrideIsPriced
  <2> QED
    BY <1>3, <2>5, <2>6
<1>6. ASSUME NEW key \in panel.asks, ConsoleHears(key)
      PROVE  TermsIInv'
  <2>1. key \in PanelKeys /\ key = PanelKey(copy["console"], panel.change) /\ Open(copy["console"])
    BY <1>1 DEF PanelAsksForIt, Panels
  <2>2. panel' \in {[panel EXCEPT !.asks = @ \ {key}, !.shown = key], [panel EXCEPT !.asks = @ \ {key}]}
    BY <1>6 DEF ConsoleHears
  <2>3. /\ panel' \in Panels /\ panel'.asks = panel.asks \ {key} /\ panel'.change = panel.change
        /\ panel'.shown \in {key, panel.shown}
    BY <1>1, <2>1, <2>2 DEF Panels
  <2>4. PanelAsksForIt' /\ OverrideIsPriced'
    BY <1>1, <2>1, <2>3 DEF PanelAsksForIt, OverrideIsPriced
  <2> QED
    BY <1>3, <2>3, <2>4
<1> QED
  BY <1>4, <1>5, <1>6

\* An override is granted for a session that is open, of which the panel's copy is one.
LEMMA ConsolePatchStep == ASSUME TermsAssumption, TermsIInv, ConsolePatchArrives PROVE TermsIInv'
<1> USE DEF TermsIInv
<1>1. /\ UNCHANGED <<time, copy, form>> /\ panel \in Panels /\ session \in {NoTerms} \cup Sessions
      /\ panel.sending \in Bodies /\ copy["console"] \in {NoTerms} \cup Sessions
  BY DEF ConsolePatchArrives, TermsTypeOK, Panels
<1>2. acts' \in Nat
  BY DEF ConsolePatchArrives, Counts, TermsTypeOK
<1>3. PICK body \in Bodies : body = panel.sending
  BY <1>1
<1>4. CopiesAreOfIt' /\ PromiseCanBeKept' /\ session' \in {NoTerms} \cup Sessions /\ held' \in BOOLEAN
  <2>1. CASE Grants(body) /\ Patched(body)
    <3>1. /\ session \in Sessions /\ session' \in Sessions /\ held' \in BOOLEAN
          /\ session'.power = session.power /\ PromiseCanBeKept'
      BY <1>1, <2>1, PatchKeeps
    <3> QED
      BY <1>1, <3>1, OpenIsASession DEF CopiesAreOfIt
  <2>2. CASE UNCHANGED <<session, held>>
    BY <1>1, <2>2 DEF CopiesAreOfIt, PromiseCanBeKept, Deliverable, TermsTypeOK
  <2> QED
    BY <1>3, <2>1, <2>2 DEF ConsolePatchArrives
<1>5. panel' \in Panels /\ PanelAsksForIt' /\ OverrideIsPriced'
  <2>1. CASE panel' = [panel EXCEPT !.sending = None]
    <3>1. panel' \in Panels /\ UNCHANGED <<panel.change, panel.asks, panel.shown>>
      BY <1>1, <2>1 DEF Panels
    <3> QED
      BY <1>1, <3>1 DEF PanelAsksForIt, OverrideIsPriced
  <2>2. CASE panel' = Priced([panel EXCEPT !.sending = None, !.change = NoChange], copy["console"])
    <3> DEFINE p == [panel EXCEPT !.sending = None, !.change = NoChange]
    <3>1. p \in Panels /\ p.change = NoChange
      BY <1>1 DEF Panels
    <3>2. /\ panel' = [p EXCEPT !.shown = None, !.asks = {}]
      BY <2>2, <3>1 DEF Priced, StillHeard
    <3>3. panel' \in Panels /\ panel'.shown = None /\ panel'.asks = {}
      BY <1>1, <3>2 DEF Panels
    <3> QED
      BY <3>3 DEF PanelAsksForIt, OverrideIsPriced
  <2> QED
    BY <2>1, <2>2 DEF ConsolePatchArrives
<1> QED
  BY <1>1, <1>2, <1>4, <1>5, PanelAlone DEF TermsTypeOK

\* The panel keeps its price when the copy that came makes no difference to it.
LEMMA ConsolePollsStep == ASSUME TermsAssumption, TermsIInv, ConsolePolls PROVE TermsIInv'
<1> USE DEF TermsIInv
<1>1. /\ UNCHANGED <<time, session, held, form>> /\ panel \in Panels /\ acts' \in Nat
      /\ copy' = [copy EXCEPT !["console"] = session]
      /\ session \in {NoTerms} \cup Sessions /\ copy["console"] \in {NoTerms} \cup Sessions
  BY DEF ConsolePolls, TermsTypeOK
<1>2. /\ copy' \in [{"phone", "console"} -> {NoTerms} \cup Sessions]
      /\ copy'["console"] = session /\ copy'["phone"] = copy["phone"]
  BY <1>1 DEF TermsTypeOK
<1>3. CopiesAreOfIt' /\ PromiseCanBeKept' /\ ScreenFits' /\ AsksForWhatIsChosen'
  <2>1. CopiesAreOfIt' /\ PromiseCanBeKept'
    BY <1>1, <1>2 DEF CopiesAreOfIt, PromiseCanBeKept, Deliverable
  <2> QED
    BY <1>1, <1>2, <2>1, PanelAlone
<1>4. panel' \in Panels /\ PanelAsksForIt' /\ OverrideIsPriced'
  <2>1. CASE ~Open(session)
    <3>1. panel' = [change |-> NoChange, asks |-> {}, shown |-> None, sending |-> None]
      BY <2>1 DEF ConsolePolls
    <3> QED
      BY <3>1 DEF Panels, PanelAsksForIt, OverrideIsPriced
  <2>2. CASE Open(session) /\ panel' = panel
                /\ PanelKey(session, panel.change) = PanelKey(copy["console"], panel.change)
    BY <1>1, <1>2, <2>2 DEF PanelAsksForIt, OverrideIsPriced
  <2>3. CASE Open(session) /\ panel' = Priced(panel, session)
    <3>1. session \in Sessions
      BY <1>1, <2>3, OpenIsASession
    <3>2. /\ panel' \in Panels /\ panel'.shown = None /\ panel'.change = panel.change
          /\ \A key \in panel'.asks : key = PanelKey(session, panel.change)
      BY <1>1, <2>3, <3>1, PricedAnew
    <3> QED
      BY <1>2, <2>3, <3>2 DEF PanelAsksForIt, OverrideIsPriced
  <2> QED
    BY <2>1, <2>2, <2>3 DEF ConsolePolls
<1> QED
  BY <1>1, <1>2, <1>3, <1>4 DEF TermsTypeOK

-----------------------------------------------------------------------------
\* Nothing is asked for, shown or sent before the first choice.
LEMMA TermsInitially == ASSUME TermsAssumption PROVE TermsInit => TermsIInv
<1> SUFFICES ASSUME TermsInit PROVE TermsIInv
  OBVIOUS
<1>1. /\ time = 0 /\ session = NoTerms /\ held = FALSE /\ acts = 0 /\ form = Form("bay")
      /\ copy["phone"] = NoTerms /\ copy["console"] = NoTerms
      /\ copy \in [{"phone", "console"} -> {NoTerms} \cup Sessions]
      /\ panel = [change |-> NoChange, asks |-> {}, shown |-> None, sending |-> None]
  BY DEF TermsInit
<1>2. TermsTypeOK
  BY <1>1, FreshForm DEF TermsTypeOK, Panels
<1>3. ScreenFits /\ AsksForWhatIsChosen
  BY <1>1, FreshForm DEF ScreenFits, AsksForWhatIsChosen
<1>4. CopiesAreOfIt /\ PanelAsksForIt /\ OverrideIsPriced
  BY <1>1 DEF CopiesAreOfIt, PanelAsksForIt, OverrideIsPriced
<1>5. PromiseCanBeKept
  BY <1>1, OpenIsASession DEF PromiseCanBeKept
<1> QED
  BY <1>2, <1>3, <1>4, <1>5 DEF TermsIInv

LEMMA TermsStep == ASSUME TermsAssumption PROVE TermsIInv /\ [TermsNext]_termVars => TermsIInv'
<1> SUFFICES ASSUME TermsIInv, [TermsNext]_termVars PROVE TermsIInv'
  OBVIOUS
<1>1. CASE UNCHANGED termVars
  BY <1>1 DEF termVars, TermsIInv, TermsTypeOK, ScreenFits, CopiesAreOfIt, AsksForWhatIsChosen, LastIs,
              Previewed, Deliverable, PanelAsksForIt, PromiseCanBeKept, OverrideIsPriced
<1>2. CASE TermsNext
  BY <1>2, ServersStep, Choosing, TimersStep, SendingStep, CreatesStep, AnswersStep, PollsStep,
     PhonePatchStep, OverridingStep, ConsolePatchStep, ConsolePollsStep DEF TermsNext
<1> QED
  BY <1>1, <1>2

\* The terms' inductive invariant, for every choice, answer, poll, change and loss.
THEOREM TermsInvariant == ASSUME TermsAssumption PROVE TermsSpec => []TermsIInv
<1>1. TermsInit => TermsIInv
  BY TermsInitially
<1>2. TermsIInv /\ [TermsNext]_termVars => TermsIInv'
  BY TermsStep
<1> QED
  BY <1>1, <1>2, PTL DEF TermsSpec

\* Whatever was changed by whom, the deadline of a car that has not been made to wait can be kept.
THEOREM PromisesCanBeKept == ASSUME TermsAssumption PROVE TermsSpec => []PromiseCanBeKept
<1>1. TermsIInv => PromiseCanBeKept
  BY DEF TermsIInv
<1> QED
  BY <1>1, TermsInvariant, PTL

\* The operator confirms what was priced, whatever the answers' order and the polls between.
THEOREM OverridesArePriced == ASSUME TermsAssumption PROVE TermsSpec => []OverrideIsPriced
<1>1. TermsIInv => OverrideIsPriced
  BY DEF TermsIInv
<1> QED
  BY <1>1, TermsInvariant, PTL

\* With every answer in, in turn, the phone's price is that of what is chosen.
THEOREM PhonePricesTruly == ASSUME TermsAssumption PROVE TermsSpec => []PhoneIsPriced
<1>1. TermsIInv => PhoneIsPriced
  BY DEF TermsIInv, AsksForWhatIsChosen, LastIs, Previewed, SetupKey, PhoneIsPriced
<1> QED
  BY <1>1, TermsInvariant, PTL

-----------------------------------------------------------------------------
(* The calendar.  What a simulator plays is the file, moved by whole days:  *)
(* of this, of the clocks and of who has come the invariant speaks.         *)

Clocks == [kind : {"none", "sim", "system"}, sim : Int, real : Int, scale : Nat]
Stays == [arriveMs : Int, departMs : Int, deadlineMs : Int]
CalendarTypeOK ==
  /\ stage \in {"file", "refused", "accepted", "moved", "playing", "over"}
  /\ written \in Scenarios /\ repeats \in BOOLEAN
  /\ realNow \in 0..MaxReal /\ timeShown \in Int
  /\ clock \in Clocks /\ ownClock \in Clocks
  /\ sync \in [nowMs : Int, scale : Nat]
  /\ day \in Nat \ {0} /\ dayBegan \in Int

\* The server's clock was set when it shows it was, and shows no less than it has.
ClockGoesOn ==
  clock # NoClock =>
    /\ clock.kind \in {"sim", "system"} /\ clock.real <= realNow
    /\ clock.kind = "sim" => clock.sim + (realNow - clock.real) * clock.scale >= timeShown
    /\ clock.kind = "system" => realNow >= timeShown

\* What is played was accepted as it was written, and moved to a day.
FileIsMoved ==
  /\ stage \in {"file", "refused", "accepted"} => scenario = written
  /\ stage \in {"accepted", "moved", "playing", "over"} => scenarioSchema(written)
  /\ stage \in {"moved", "playing", "over"} =>
       \E target \in TargetDays(written) : scenario = rebaseScenario(written, target)

\* The stays are those of the file, moved by whole days.
StaysAreMoved ==
  LET first == resolveArrivals(scenario)
  IN /\ arrivals \in [Ids(scenario.arrivals) -> Stays]
     /\ \A id \in DOMAIN arrivals :
          /\ arrivals[id].departMs >= 0
          /\ (arrivals[id].arriveMs - first[id].arriveMs) % DayLength = 0

\* Whoever is on the list of those who came has come, or left before the day began.
ListsAreTrue ==
  /\ unplugged \subseteq pluggedIn
  /\ day = 1 =>
       /\ departedBy(arrivals, dayBegan) \subseteq pluggedIn
       /\ \A c \in came : arrivals[c.id].departMs > dayBegan
       /\ \A id \in pluggedIn : arrivals[id].departMs > dayBegan => \E c \in came : c.id = id

\* Nothing is played before the day is begun, and a day that is played again is not over yet.
DayIsPlayed ==
  /\ stage \notin {"playing", "over"} => day = 1 /\ came = {} /\ pluggedIn = {} /\ unplugged = {}
  /\ stage \in {"playing", "over"} =>
       /\ StaysAreMoved /\ ListsAreTrue
       /\ day > 1 /\ DOMAIN arrivals # {} => lastDepartMs(arrivals) >= dayBegan

DayInv == CalendarTypeOK /\ ClockGoesOn /\ FileIsMoved /\ DayIsPlayed

LEMMA QuotientIs ==
  ASSUME NEW s \in Nat \ {0}, NEW k \in Int, NEW a \in 0..(s - 1)
  PROVE  (s * k + a) \div s = k /\ (s * k + a) % s = a
OBVIOUS

LEMMA Quotient ==
  ASSUME NEW s \in Nat \ {0}, NEW t \in Int
  PROVE  t \div s \in Int /\ t % s \in 0..(s - 1) /\ t = s * (t \div s) + (t % s)
OBVIOUS

\* Whole days leave the time of day as it is.
LEMMA DaysLeaveTimes ==
  ASSUME NEW x \in Int, NEW k \in Int
  PROVE  (x + k * DayLength) % DayLength = x % DayLength
<1> DEFINE q == x \div DayLength  r == x % DayLength  m == q + k
<1>1. DayLength \in Nat \ {0}
  BY CalendarAssumption
<1>2. q \in Int /\ r \in 0..(DayLength - 1) /\ x = DayLength * q + r
  BY <1>1, Quotient
<1>3. m \in Int
  BY <1>2
<1>4. x + k * DayLength = DayLength * m + r
  <2>1. DayLength * m = DayLength * q + k * DayLength
    BY <1>1, <1>2
  <2>2. DayLength * m \in Int /\ DayLength * q \in Int /\ k * DayLength \in Int
    BY <1>1, <1>2, <1>3
  <2> HIDE DEF m, q, r
  <2> QED
    BY <1>1, <1>2, <2>1, <2>2
<1>5. (DayLength * m + r) % DayLength = r
  <2> HIDE DEF m, q, r
  <2> QED
    BY <1>1, <1>2, <1>3, QuotientIs
<1> QED
  BY <1>4, <1>5

\* Finitely many numbers have a largest.
LEMMA LargestExists ==
  ASSUME NEW S \in SUBSET Int, IsFiniteSet(S), S # {}
  PROVE  Max(S) \in S /\ \A y \in S : Max(S) >= y
<1> DEFINE Has(s) == \E x \in s : \A y \in s : x >= y
           Bad == {s \in SUBSET S : s # {} /\ ~Has(s)}
           Sizes == {Cardinality(s) : s \in Bad}
<1>1. \A s \in SUBSET S : IsFiniteSet(s) /\ Cardinality(s) \in Nat
  BY FS_Subset, FS_CardinalityType
<1>2. Bad = {}
  <2> SUFFICES ASSUME Bad # {} PROVE FALSE
    OBVIOUS
  <2>1. Sizes \subseteq Nat /\ Sizes # {}
    BY <1>1
  <2>2. PICK n \in Sizes : \A m \in Sizes : ~ (<<m, n>> \in OpToRel(<, Nat))
    <3> HIDE DEF Sizes
    <3> QED
      BY <2>1, NatLessThanWellFounded, WFMin
  <2>3. \A m \in Sizes : ~ (m < n)
    BY <2>1, <2>2 DEF OpToRel
  <2>4. PICK s \in Bad : n = Cardinality(s)
    BY <2>2
  <2>5. PICK a \in s : TRUE
    BY <2>4
  <2> DEFINE rest == s \ {a}
  <2>6. IsFiniteSet(s) /\ Cardinality(s) \in Nat /\ Cardinality(rest) = Cardinality(s) - 1
    BY <1>1, <2>4, <2>5, FS_RemoveElement
  <2>7. Cardinality(rest) \in Nat /\ Cardinality(rest) < n
    BY <1>1, <2>4, <2>6
  <2>8. rest \notin Bad
    BY <2>3, <2>7
  <2>9. a \in Int /\ \A y \in s : y \in Int
    BY <2>4, <2>5
  <2>10. Has(s)
    <3>1. CASE rest = {}
      <4>1. \A y \in s : a >= y
        BY <2>9, <3>1
      <4> QED
        BY <2>5, <4>1
    <3>2. CASE rest # {}
      <4>1. PICK x \in rest : \A y \in rest : x >= y
        BY <2>4, <2>8, <3>2
      <4>2. x \in Int
        BY <2>9, <4>1
      <4>3. CASE x >= a
        <5>1. \A y \in s : x >= y
          BY <2>9, <4>1, <4>2, <4>3
        <5> QED
          BY <4>1, <5>1
      <4>4. CASE ~(x >= a)
        <5>1. \A y \in rest : a >= y
          BY <2>9, <4>1, <4>2, <4>4
        <5>2. \A y \in s : a >= y
          BY <2>9, <5>1
        <5> QED
          BY <2>5, <5>2
      <4> QED
        BY <4>3, <4>4
    <3> QED
      BY <3>1, <3>2
  <2> QED
    BY <2>4, <2>10
<1>3. Has(S)
  BY <1>2
<1> QED
  BY <1>3 DEF Max

\* The instant a local time names shows it, unless there is no such time.
LEMMA ZoneShows ==
  ASSUME NEW zone \in Zones, NEW local \in Int
  PROVE  /\ zonedTimeToUtc(local, zone) \in Int
         /\ wallClockAt(zonedTimeToUtc(local, zone), zone) \in
              IF InGap(local, zone)
              THEN {local - (zone.after - zone.before), local + (zone.after - zone.before)}
              ELSE {local}
<1>1. zone.before \in Int /\ zone.after \in Int /\ zone.at \in Int
  BY DEF Zones
<1> QED
  BY <1>1 DEF zonedTimeToUtc, wallClockAt, timeZoneOffset, InGap

\* Of two local times the later names the later instant.
LEMMA ZoneRises ==
  ASSUME NEW zone \in Zones, NEW x \in Int, NEW y \in Int, x < y, ~InGap(x, zone), ~InGap(y, zone)
  PROVE  zonedTimeToUtc(x, zone) < zonedTimeToUtc(y, zone)
<1>1. zone.before \in Int /\ zone.after \in Int /\ zone.at \in Int
  BY DEF Zones
<1> QED
  BY <1>1 DEF zonedTimeToUtc, timeZoneOffset, InGap

LEMMA FilesAre ==
  ASSUME NEW s \in Scenarios
  PROVE  /\ IsFile(s) /\ s.timezone \in Zones /\ s.simStart \in Int
         /\ TargetDays(s) \subseteq Int
<1>1. IsFile(s) /\ Targets \subseteq Int /\ DayLength \in Nat \ {0} /\ MaxReal \in Nat
  BY CalendarAssumption
<1>2. s.timezone \in Zones /\ s.day \in Int /\ s.simStart \in Int
  BY <1>1 DEF IsFile
<1>3. ASSUME NEW t \in 0..MaxReal PROVE localDateOf(t, s.timezone) \in Int
  <2>1. t \in Int
    BY <1>1
  <2>2. wallClockAt(t, s.timezone) \in Int
    BY <1>2, <2>1 DEF wallClockAt, timeZoneOffset, Zones
  <2> QED
    BY <1>1, <2>2, Quotient DEF localDateOf
<1> QED
  BY <1>1, <1>2, <1>3 DEF TargetDays

\* A file on another day has the same stays, so many days later.
LEMMA RebaseIs ==
  ASSUME NEW s \in Scenarios, NEW target \in Int
  PROVE  /\ rebaseScenario(s, target).timezone = s.timezone
         /\ DOMAIN rebaseScenario(s, target).arrivals = DOMAIN s.arrivals
         /\ \A i \in DOMAIN s.arrivals :
              LET a == rebaseScenario(s, target).arrivals[i]
              IN /\ a.id = s.arrivals[i].id
                 /\ a.arriveAt = s.arrivals[i].arriveAt + (target - s.day) * DayLength
                 /\ a.departAt = s.arrivals[i].departAt + (target - s.day) * DayLength
                 /\ a.deadlineAt = s.arrivals[i].deadlineAt + (target - s.day) * DayLength
<1>1. /\ DOMAIN s = {"timezone", "day", "simStart", "chargers", "drivers", "vehicles", "arrivals"}
      /\ \A i \in DOMAIN s.arrivals : s.arrivals[i] \in Arrivals
  BY FilesAre DEF IsFile
<1> DEFINE days == target - s.day
           moved == [i \in DOMAIN s.arrivals |-> arrivalLater(s.arrivals[i], days)]
<1>2. rebaseScenario(s, target).timezone = s.timezone /\ rebaseScenario(s, target).arrivals = moved
  BY <1>1 DEF rebaseScenario
<1>3. ASSUME NEW i \in DOMAIN s.arrivals
      PROVE  /\ moved[i].id = s.arrivals[i].id
             /\ moved[i].arriveAt = s.arrivals[i].arriveAt + days * DayLength
             /\ moved[i].departAt = s.arrivals[i].departAt + days * DayLength
             /\ moved[i].deadlineAt = s.arrivals[i].deadlineAt + days * DayLength
  <2>1. s.arrivals[i] \in Arrivals
    BY <1>1
  <2> QED
    BY <2>1 DEF Arrivals, arrivalLater, shiftLocalDateTime
<1>4. DOMAIN moved = DOMAIN s.arrivals
  OBVIOUS
<1> HIDE DEF moved
<1> QED
  BY <1>2, <1>3, <1>4

\* What a moved file says of an arrival, it says of the one the file was written with.
LEMMA MovedIs ==
  ASSUME NEW s \in Scenarios, scenarioSchema(s), NEW target \in TargetDays(s)
  PROVE  LET m == rebaseScenario(s, target)
         IN /\ m.timezone = s.timezone /\ Ids(m.arrivals) = Ids(s.arrivals)
            /\ \A id \in Ids(s.arrivals) :
                 \E i \in DOMAIN s.arrivals, days \in Int :
                   LET a == Called(m.arrivals, id)
                       was == s.arrivals[i]
                   IN /\ Called(s.arrivals, id) = was
                      /\ was \in Arrivals /\ was.departAt > was.arriveAt /\ was.deadlineAt > was.arriveAt
                      /\ a.arriveAt = was.arriveAt + days * DayLength
                      /\ a.departAt = was.departAt + days * DayLength
                      /\ a.deadlineAt = was.deadlineAt + days * DayLength
<1> DEFINE m == rebaseScenario(s, target)
<1>1. target \in Int /\ IsFile(s)
  BY FilesAre
<1>2. /\ m.timezone = s.timezone /\ DOMAIN m.arrivals = DOMAIN s.arrivals
      /\ \A i \in DOMAIN s.arrivals :
           /\ m.arrivals[i].id = s.arrivals[i].id
           /\ m.arrivals[i].arriveAt = s.arrivals[i].arriveAt + (target - s.day) * DayLength
           /\ m.arrivals[i].departAt = s.arrivals[i].departAt + (target - s.day) * DayLength
           /\ m.arrivals[i].deadlineAt = s.arrivals[i].deadlineAt + (target - s.day) * DayLength
  BY <1>1, RebaseIs
<1>3. \A i \in DOMAIN s.arrivals : s.arrivals[i] \in Arrivals /\ ArrivalFits(s, s.arrivals[i])
  BY <1>1 DEF IsFile, scenarioSchema
<1>4. \A i, j \in DOMAIN s.arrivals : s.arrivals[i].id = s.arrivals[j].id => i = j
  <2> DEFINE ids == [i \in DOMAIN s.arrivals |-> s.arrivals[i].id]
  <2>1. ~duplicates(ids)
    BY DEF scenarioSchema
  <2> QED
    BY <2>1 DEF duplicates
<1>5. target - s.day \in Int
  BY <1>1 DEF IsFile
<1> HIDE DEF m
<1>6. Ids(m.arrivals) = Ids(s.arrivals)
  BY <1>2 DEF Ids
<1>7. ASSUME NEW id \in Ids(s.arrivals)
      PROVE  \E i \in DOMAIN s.arrivals : Called(s.arrivals, id) = s.arrivals[i]
                                          /\ Called(m.arrivals, id) = m.arrivals[i]
  <2> DEFINE i == CHOOSE i \in DOMAIN s.arrivals : s.arrivals[i].id = id
             j == CHOOSE j \in DOMAIN m.arrivals : m.arrivals[j].id = id
  <2>1. i \in DOMAIN s.arrivals /\ s.arrivals[i].id = id
    BY <1>7 DEF Ids
  <2>2. j \in DOMAIN m.arrivals /\ m.arrivals[j].id = id
    BY <1>6, <1>7 DEF Ids
  <2>3. Called(s.arrivals, id) = s.arrivals[i] /\ Called(m.arrivals, id) = m.arrivals[j]
    BY DEF Called
  <2> HIDE DEF i, j
  <2>4. i = j
    BY <1>2, <1>4, <2>1, <2>2
  <2> QED
    BY <2>1, <2>3, <2>4
<1>8. ASSUME NEW id \in Ids(s.arrivals)
      PROVE  \E i \in DOMAIN s.arrivals, days \in Int :
               /\ Called(s.arrivals, id) = s.arrivals[i]
               /\ s.arrivals[i] \in Arrivals /\ s.arrivals[i].departAt > s.arrivals[i].arriveAt
               /\ s.arrivals[i].deadlineAt > s.arrivals[i].arriveAt
               /\ Called(m.arrivals, id).arriveAt = s.arrivals[i].arriveAt + days * DayLength
               /\ Called(m.arrivals, id).departAt = s.arrivals[i].departAt + days * DayLength
               /\ Called(m.arrivals, id).deadlineAt = s.arrivals[i].deadlineAt + days * DayLength
  <2>1. PICK i \in DOMAIN s.arrivals : /\ Called(s.arrivals, id) = s.arrivals[i]
                                       /\ Called(m.arrivals, id) = m.arrivals[i]
    BY <1>7
  <2>2. /\ s.arrivals[i] \in Arrivals /\ s.arrivals[i].departAt > s.arrivals[i].arriveAt
        /\ s.arrivals[i].deadlineAt > s.arrivals[i].arriveAt
    BY <1>3 DEF ArrivalFits
  <2> QED
    BY <1>2, <1>5, <2>1, <2>2
<1> QED
  BY <1>2, <1>6, <1>8 DEF m

\* Every stay of a moved file is a stay between instants.
LEMMA StaysResolve ==
  ASSUME NEW s \in Scenarios, scenarioSchema(s), NEW target \in TargetDays(s)
  PROVE  LET m == rebaseScenario(s, target)
         IN /\ resolveArrivals(m) \in [Ids(m.arrivals) -> Stays]
            /\ \A id \in Ids(m.arrivals) : resolveArrivals(m)[id].departMs >= 0
            /\ IsFiniteSet(Ids(m.arrivals))
<1> DEFINE m == rebaseScenario(s, target)
<1>1. m.timezone \in Zones /\ Ids(m.arrivals) = Ids(s.arrivals)
  BY MovedIs, FilesAre
<1>2. ASSUME NEW id \in Ids(m.arrivals)
      PROVE  LET a == Called(m.arrivals, id)
             IN a.arriveAt \in Int /\ a.departAt \in Int /\ a.deadlineAt \in Int
  <2>1. PICK i \in DOMAIN s.arrivals, days \in Int :
          LET a == Called(m.arrivals, id)
              was == s.arrivals[i]
          IN /\ was \in Arrivals
             /\ a.arriveAt = was.arriveAt + days * DayLength
             /\ a.departAt = was.departAt + days * DayLength
             /\ a.deadlineAt = was.deadlineAt + days * DayLength
    BY <1>1, <1>2, MovedIs
  <2>2. days * DayLength \in Int
    BY CalendarAssumption
  <2> HIDE DEF m
  <2> QED
    BY <2>1, <2>2 DEF Arrivals
<1>3. \A id \in Ids(m.arrivals) : resolveArrivals(m)[id].departMs >= 0
  BY <1>1, CalendarAssumption
<1>4. IsFiniteSet(Ids(s.arrivals))
  <2> DEFINE ids == [i \in DOMAIN s.arrivals |-> s.arrivals[i].id]
  <2>1. IsFiniteSet(DOMAIN s.arrivals)
    BY FilesAre DEF IsFile
  <2>2. ids \in Surjection(DOMAIN s.arrivals, Ids(s.arrivals))
    BY DEF Ids, Surjection
  <2> QED
    BY <2>1, <2>2, FS_Surjection
<1> HIDE DEF m
<1>5. resolveArrivals(m) \in [Ids(m.arrivals) -> Stays]
  <2>1. ASSUME NEW id \in Ids(m.arrivals)
        PROVE  LET a == Called(m.arrivals, id)
               IN [arriveMs |-> zonedTimeToUtc(a.arriveAt, m.timezone),
                   departMs |-> zonedTimeToUtc(a.departAt, m.timezone),
                   deadlineMs |-> zonedTimeToUtc(a.deadlineAt, m.timezone)] \in Stays
    BY <1>1, <1>2, ZoneShows DEF Stays
  <2> QED
    BY <2>1 DEF resolveArrivals
<1> QED
  BY <1>1, <1>3, <1>4, <1>5 DEF m

\* The last to leave is one of those who come.
LEMMA LastDepartIs ==
  ASSUME NEW S, IsFiniteSet(S), NEW a \in [S -> Stays], \A id \in S : a[id].departMs >= 0
  PROVE  /\ lastDepartMs(a) \in Int /\ \A id \in S : lastDepartMs(a) >= a[id].departMs
         /\ S # {} => \E id \in S : lastDepartMs(a) = a[id].departMs
<1> DEFINE leaves == [id \in S |-> a[id].departMs]
           Times == {a[id].departMs : id \in DOMAIN a}
           All == {0} \cup Times
<1>1. DOMAIN a = S /\ \A id \in S : a[id].departMs \in Int
  BY DEF Stays
<1>2. leaves \in Surjection(S, Times)
  BY <1>1 DEF Surjection
<1>3. IsFiniteSet(Times)
  <2> HIDE DEF leaves, Times
  <2> QED
    BY <1>2, FS_Surjection
<1>4. IsFiniteSet(All)
  <2>1. IsFiniteSet(Times \cup {0})
    <3> HIDE DEF Times
    <3> QED
      BY <1>3, FS_AddElement
  <2>2. All = Times \cup {0}
    OBVIOUS
  <2> QED
    BY <2>1, <2>2
<1>5. All \in SUBSET Int /\ All # {} /\ \A id \in S : a[id].departMs \in All
  BY <1>1
<1>6. Max(All) \in All /\ \A y \in All : Max(All) >= y
  <2> HIDE DEF All
  <2> QED
    BY <1>4, <1>5, LargestExists
<1>7. lastDepartMs(a) = Max(All)
  BY DEF lastDepartMs
<1> DEFINE last == Max(All)
<1>8. last \in Int /\ last >= 0 /\ (last = 0 \/ \E id \in S : last = a[id].departMs)
  <2> HIDE DEF last
  <2> SUFFICES last \in All /\ \A y \in All : last >= y
    BY <1>1, <1>5
  <2> QED
    BY <1>6 DEF last
<1>9. \A id \in S : last >= a[id].departMs
  BY <1>5, <1>6
<1>10. S # {} => \E id \in S : last = a[id].departMs
  <2> HIDE DEF last
  <2> SUFFICES ASSUME S # {}, last = 0 PROVE \E id \in S : last = a[id].departMs
    BY <1>8
  <2>1. PICK id \in S : TRUE
    OBVIOUS
  <2>2. a[id].departMs = 0
    BY <1>1, <1>9, <2>1
  <2> QED
    BY <2>2
<1> QED
  BY <1>7, <1>8, <1>9, <1>10

\* As many days as it takes.
LEMMA CeilDivIs ==
  ASSUME NEW s \in Nat \ {0}, NEW x \in Int
  PROVE  CeilDiv(x, s) \in Int /\ CeilDiv(x, s) * s >= x
<1> DEFINE y == -x  q == y \div s  r == y % s
<1>1. y \in Int
  OBVIOUS
<1>2. q \in Int /\ r \in 0..(s - 1) /\ y = s * q + r
  BY <1>1, Quotient
<1>3. CeilDiv(x, s) = -q /\ y = -x
  BY DEF CeilDiv
<1> HIDE DEF y, q, r
<1>4. (-q) * s = -(s * q)
  BY <1>2
<1>5. s * q \in Int
  BY <1>2
<1>6. -(s * q) >= x
  BY <1>1, <1>2, <1>3, <1>5
<1> QED
  BY <1>2, <1>3, <1>4, <1>6

\* The day that begins anew is the same, whole days later, and somebody still leaves in it.
LEMMA ReplayGoesOn ==
  ASSUME NEW S, IsFiniteSet(S), NEW a \in [S -> Stays], \A id \in S : a[id].departMs >= 0,
         NEW now \in Int
  PROVE  /\ replayAfter(a, now) \in [S -> Stays]
         /\ \A id \in S : replayAfter(a, now)[id].departMs >= 0
         /\ \E k \in Int : \A id \in S : replayAfter(a, now)[id].arriveMs = a[id].arriveMs + k * DayLength
         /\ S # {} => lastDepartMs(replayAfter(a, now)) >= now
<1> DEFINE last == lastDepartMs(a)
           wait == now - last
           days == Larger(1, CeilDiv(wait, DayLength))
           shift == days * DayLength
           r == replayAfter(a, now)
<1>1. DayLength \in Nat \ {0}
  BY CalendarAssumption
<1>2. last \in Int /\ (S # {} => \E id \in S : last = a[id].departMs)
  BY LastDepartIs
<1>3. wait \in Int /\ wait = now - last
  BY <1>2
<1>4. CeilDiv(wait, DayLength) \in Int /\ CeilDiv(wait, DayLength) * DayLength >= wait
  <2> HIDE DEF wait
  <2> QED
    BY <1>1, <1>3, CeilDivIs
<1>5. days \in Int /\ days >= 1 /\ days >= CeilDiv(wait, DayLength)
  <2> HIDE DEF wait
  <2> QED
    BY <1>4 DEF Larger
<1>6. shift \in Int /\ shift >= 0 /\ shift >= wait
  <2> DEFINE c == CeilDiv(wait, DayLength)
  <2>1. c \in Int /\ c * DayLength >= wait /\ days \in Int /\ days >= 1 /\ days >= c
    BY <1>4, <1>5
  <2> HIDE DEF days, c, wait
  <2>2. days * DayLength \in Int /\ days * DayLength >= 0 /\ days * DayLength >= c * DayLength
        /\ c * DayLength \in Int
    BY <1>1, <2>1
  <2> QED
    BY <1>3, <2>1, <2>2
<1>7. \A id \in S : a[id] \in Stays
  OBVIOUS
<1>8. r = [id \in S |-> [a[id] EXCEPT !.arriveMs = @ + shift, !.departMs = @ + shift]]
  BY DEF replayAfter
<1> HIDE DEF last, wait, days, r
<1>9. shift = days * DayLength
  OBVIOUS
<1> HIDE DEF shift
<1>10. ASSUME NEW id \in S
       PROVE  /\ r[id] \in Stays /\ r[id].departMs = a[id].departMs + shift
              /\ r[id].arriveMs = a[id].arriveMs + shift /\ a[id].departMs \in Int
  <2>1. a[id] \in Stays
    BY <1>7
  <2>2. r[id] = [a[id] EXCEPT !.arriveMs = a[id].arriveMs + shift, !.departMs = a[id].departMs + shift]
    BY <1>8
  <2>3. a[id].arriveMs + shift \in Int /\ a[id].departMs + shift \in Int /\ a[id].departMs \in Int
    BY <1>6, <2>1 DEF Stays
  <2> QED
    BY <2>1, <2>2, <2>3 DEF Stays
<1>11. r \in [S -> Stays]
  BY <1>8, <1>10
<1>12. \A id \in S : r[id].departMs >= 0
  <2> TAKE id \in S
  <2>1. a[id].departMs >= 0 /\ a[id].departMs \in Int /\ r[id].departMs = a[id].departMs + shift
    BY <1>10
  <2> QED
    BY <1>6, <2>1
<1>13. S # {} => lastDepartMs(r) >= now
  <2> SUFFICES ASSUME S # {} PROVE lastDepartMs(r) >= now
    OBVIOUS
  <2>1. PICK id \in S : last = a[id].departMs
    BY <1>2
  <2>2. lastDepartMs(r) \in Int /\ lastDepartMs(r) >= r[id].departMs
    BY <1>11, <1>12, <2>1, LastDepartIs
  <2>3. r[id].departMs = last + shift
    BY <1>10, <2>1
  <2>4. last + shift >= now
    BY <1>2, <1>3, <1>6
  <2> QED
    BY <1>2, <1>6, <2>2, <2>3, <2>4
<1>14. \E k \in Int : \A id \in S : r[id].arriveMs = a[id].arriveMs + k * DayLength
  BY <1>5, <1>9, <1>10
<1> QED
  BY <1>11, <1>12, <1>13, <1>14 DEF r

\* A clock shows a number.
LEMMA NowIs ==
  ASSUME NEW c \in Clocks, realNow \in Int
  PROVE  NowOf(c) \in Int
<1> DEFINE p == (realNow - c.real) * c.scale
<1>1. c.sim \in Int /\ c.real \in Int /\ c.scale \in Int
  BY DEF Clocks
<1>2. p \in Int
  BY <1>1
<1>3. c.sim + p \in Int
  <2> HIDE DEF p
  <2> QED
    BY <1>1, <1>2
<1> QED
  BY <1>3 DEF NowOf

\* What is played, is played from a file that was accepted.
LEMMA FileStays ==
  ASSUME CalendarTypeOK, FileIsMoved, stage \in {"moved", "playing", "over"}
  PROVE  LET first == resolveArrivals(scenario)
         IN /\ first \in [Ids(scenario.arrivals) -> Stays] /\ IsFiniteSet(Ids(scenario.arrivals))
            /\ \A id \in Ids(scenario.arrivals) : first[id].departMs >= 0
<1>1. scenarioSchema(written) /\ written \in Scenarios
  BY DEF FileIsMoved, CalendarTypeOK
<1>2. PICK target \in TargetDays(written) : scenario = rebaseScenario(written, target)
  BY DEF FileIsMoved
<1> QED
  BY <1>1, <1>2, StaysResolve

\* Facts about clocks that are set.
LEMMA ClockIsSet ==
  ASSUME NEW t \in Int, NEW scale \in Nat, realNow \in Int
  PROVE  /\ SimClock(t, scale) \in Clocks /\ SimClock(t, scale).kind = "sim"
         /\ SimClock(t, scale).sim = t /\ SimClock(t, scale).real = realNow
         /\ t + (realNow - realNow) * SimClock(t, scale).scale = t
<1>1. /\ SimClock(t, scale) \in Clocks /\ SimClock(t, scale).kind = "sim"
      /\ SimClock(t, scale).sim = t /\ SimClock(t, scale).real = realNow
      /\ SimClock(t, scale).scale = scale
  BY DEF SimClock, Clocks
<1>2. t + (realNow - realNow) * scale = t
  <2>1. realNow - realNow = 0 /\ 0 * scale = 0
    OBVIOUS
  <2> QED
    BY <2>1
<1> QED
  BY <1>1, <1>2

\* A clock that was just set shows what it was set to.
LEMMA SetClockGoesOn ==
  ASSUME NEW t \in Int, NEW scale \in Nat, realNow \in Int, clock' = SimClock(t, scale),
         realNow' = realNow, timeShown' \in Int, timeShown' <= t
  PROVE  clock' \in Clocks /\ ClockGoesOn'
<1>1. /\ clock' \in Clocks /\ clock'.kind = "sim" /\ clock'.sim = t /\ clock'.real = realNow
      /\ t + (realNow - realNow) * clock'.scale = t
  BY ClockIsSet
<1>2. clock'.sim + (realNow' - clock'.real) * clock'.scale = t
  BY <1>1
<1> QED
  BY <1>1, <1>2 DEF ClockGoesOn

\* No time goes by: the server's clock shows no less than it has shown.
LEMMA NowIsShown ==
  ASSUME CalendarTypeOK, ClockGoesOn, clock # NoClock
  PROVE  NowOf(clock) \in Int /\ NowOf(clock) >= timeShown /\ realNow \in Int
<1>1. realNow \in Int
  BY CalendarAssumption DEF CalendarTypeOK
<1> QED
  BY <1>1, NowIs DEF CalendarTypeOK, ClockGoesOn, NowOf

LEMMA DayInitially ==
  CalendarInit => DayInv
<1> SUFFICES ASSUME CalendarInit PROVE DayInv
  OBVIOUS
<1>1. CalendarTypeOK
  BY CalendarAssumption DEF CalendarInit, CalendarTypeOK, Clocks, NoClock, NoAnswer
<1>2. ClockGoesOn /\ FileIsMoved /\ DayIsPlayed
  BY DEF CalendarInit, ClockGoesOn, FileIsMoved, DayIsPlayed
<1> QED
  BY <1>1, <1>2 DEF DayInv

\* What is played is as it was while nobody comes or goes.
LEMMA DayRests ==
  ASSUME DayIsPlayed, UNCHANGED <<stage, scenario, playVars>>
  PROVE  DayIsPlayed'
BY DEF DayIsPlayed, StaysAreMoved, ListsAreTrue, playVars

LEMMA FileRests ==
  ASSUME FileIsMoved, UNCHANGED <<stage, scenario, written>>
  PROVE  FileIsMoved'
BY DEF FileIsMoved

LEMMA ClockRests ==
  ASSUME ClockGoesOn, UNCHANGED <<realNow, clock, timeShown>>
  PROVE  ClockGoesOn'
BY DEF ClockGoesOn

LEMMA ParseKeepsDay ==
  ASSUME DayInv, parseScenario
  PROVE  DayInv'
<1> USE DEF DayInv
<1>1. CalendarTypeOK'
  BY DEF parseScenario, CalendarTypeOK, playVars
<1>2. ClockGoesOn'
  BY ClockRests DEF parseScenario
<1>3. FileIsMoved'
  BY DEF parseScenario, FileIsMoved
<1>4. DayIsPlayed'
  BY DEF parseScenario, DayIsPlayed, playVars
<1> QED
  BY <1>1, <1>2, <1>3, <1>4

LEMMA StartKeepsDay ==
  ASSUME DayInv, StartServer
  PROVE  DayInv'
<1> USE DEF DayInv
<1>1. PICK start \in SimStarts, scale \in Scales :
        /\ start.how = "real" => scale = 1
        /\ clock' = createClock(start, scale)
        /\ timeShown' = IF clock'.kind = "system" THEN realNow ELSE clock'.sim
  BY DEF StartServer
<1>2. /\ stage = "accepted" /\ scenario = written /\ written \in Scenarios
      /\ realNow \in Int /\ 0 <= realNow /\ realNow' = realNow /\ scale \in Nat
      /\ start.at \in Int /\ start.how \in {"scenario", "real", "now", "local", "instant"}
  BY CalendarAssumption DEF StartServer, FileIsMoved, CalendarTypeOK
<1>3. scenario.timezone \in Zones /\ scenario.simStart \in Int
  BY <1>2, FilesAre
<1>4. clock' \in Clocks /\ timeShown' \in Int /\ ClockGoesOn'
  <2>1. CASE scale = 1 /\ start.how = "real"
    <3>1. clock' = SystemClock
      BY <1>1, <2>1 DEF createClock
    <3>2. clock'.kind = "system" /\ clock'.real = 0 /\ clock' \in Clocks
      BY <3>1 DEF SystemClock, Clocks
    <3> QED
      BY <1>1, <1>2, <3>2 DEF ClockGoesOn
  <2>2. CASE ~(scale = 1 /\ start.how = "real")
    <3> DEFINE t == resolveStartMs(start)
    <3>1. clock' = SimClock(t, scale)
      BY <1>1, <2>2 DEF createClock
    <3>2. start.how # "real"
      BY <1>1, <2>2
    <3>3. t \in Int
      BY <1>2, <1>3, <3>2, ZoneShows DEF resolveStartMs, scenarioStartMs
    <3> HIDE DEF t
    <3>4. clock'.kind = "sim" /\ clock'.sim = t /\ clock' \in Clocks
      BY <1>2, <3>1, <3>3, ClockIsSet
    <3>5. timeShown' = t
      BY <1>1, <3>4
    <3> QED
      BY <1>2, <3>1, <3>3, <3>4, <3>5, SetClockGoesOn
  <2> QED
    BY <2>1, <2>2
<1>5. CalendarTypeOK'
  BY <1>4 DEF StartServer, CalendarTypeOK, playVars
<1>6. FileIsMoved' /\ DayIsPlayed'
  BY FileRests, DayRests DEF StartServer
<1> QED
  BY <1>4, <1>5, <1>6

LEMMA LoadKeepsDay ==
  ASSUME DayInv, loadScenario
  PROVE  DayInv'
<1> USE DEF DayInv
<1>1. CalendarTypeOK'
  BY DEF loadScenario, CalendarTypeOK, playVars
<1>2. ClockGoesOn'
  BY ClockRests DEF loadScenario
<1>3. FileIsMoved'
  <2>1. stage = "accepted" /\ scenario = written /\ scenarioSchema(written) /\ realNow \in 0..MaxReal
    BY DEF loadScenario, FileIsMoved, CalendarTypeOK
  <2>2. PICK target \in Targets \cup {scenario.day, localDateOf(realNow, scenario.timezone)} :
          scenario' = rebaseScenario(scenario, target)
    BY DEF loadScenario
  <2>3. target \in TargetDays(written)
    BY <2>1, <2>2 DEF TargetDays
  <2>4. stage' = "moved" /\ written' = written
    BY DEF loadScenario
  <2> QED
    BY <2>1, <2>2, <2>3, <2>4 DEF FileIsMoved
<1>4. DayIsPlayed'
  BY DEF loadScenario, DayIsPlayed, playVars
<1> QED
  BY <1>1, <1>2, <1>3, <1>4

LEMMA FetchKeepsDay ==
  ASSUME DayInv, fetchClock
  PROVE  DayInv'
<1> USE DEF DayInv
<1>1. clock.scale \in Nat /\ timeShown \in Int /\ realNow \in Int
  BY CalendarAssumption DEF CalendarTypeOK, Clocks
<1>2. NowOf(clock) \in Int
  BY <1>1, NowIs DEF CalendarTypeOK
<1>3. timeShown' \in Int /\ (timeShown' = timeShown \/ timeShown' = NowOf(clock))
  BY <1>1, <1>2 DEF fetchClock, Larger
<1>4. CalendarTypeOK'
  BY <1>1, <1>2, <1>3 DEF fetchClock, CalendarTypeOK, playVars
<1>5. ClockGoesOn'
  <2>1. UNCHANGED <<realNow, clock>>
    BY DEF fetchClock
  <2>2. clock # NoClock => NowOf(clock) >= timeShown'
    BY <1>2, <1>3, NowIsShown
  <2> QED
    BY <2>1, <2>2 DEF ClockGoesOn, NowOf
<1>6. FileIsMoved' /\ DayIsPlayed'
  BY FileRests, DayRests DEF fetchClock
<1> QED
  BY <1>4, <1>5, <1>6

LEMMA BeginKeepsDay ==
  ASSUME DayInv, Begin
  PROVE  DayInv'
<1> USE DEF DayInv
<1> DEFINE first == resolveArrivals(scenario)
<1>1. sync.nowMs \in Int /\ sync.scale \in Nat /\ realNow \in Int
  BY CalendarAssumption DEF CalendarTypeOK
<1>2. SimClock(sync.nowMs, sync.scale) \in Clocks
  BY <1>1, ClockIsSet
<1>3. CalendarTypeOK'
  BY <1>1, <1>2 DEF Begin, CalendarTypeOK, NoAnswer
<1>4. ClockGoesOn'
  BY ClockRests DEF Begin
<1>5. FileIsMoved'
  BY DEF Begin, FileIsMoved
<1>6. /\ stage = "moved" /\ stage' = "playing" /\ arrivals' = first /\ scenario' = scenario
      /\ dayBegan' = sync.nowMs /\ pluggedIn' = departedBy(first, sync.nowMs) /\ unplugged' = pluggedIn'
      /\ day' = 1 /\ came' = {}
  BY DEF Begin, DayIsPlayed
<1>7. /\ first \in [Ids(scenario.arrivals) -> Stays]
      /\ \A id \in Ids(scenario.arrivals) : first[id].departMs >= 0
  BY <1>6, FileStays
<1>8. StaysAreMoved'
  <2>1. \A id \in DOMAIN first : (first[id].arriveMs - first[id].arriveMs) % DayLength = 0
    <3> TAKE id \in DOMAIN first
    <3>1. first[id].arriveMs \in Int
      BY <1>7 DEF Stays
    <3>2. first[id].arriveMs - first[id].arriveMs = 0
      <4> HIDE DEF first
      <4> QED
        BY <3>1
    <3>3. DayLength \in Nat \ {0}
      BY CalendarAssumption
    <3>4. 0 % DayLength = 0
      BY <3>3
    <3> QED
      BY <3>2, <3>4
  <2> HIDE DEF first
  <2>2. first = resolveArrivals(scenario')
    BY <1>6 DEF first
  <2> QED
    BY <1>6, <1>7, <2>1, <2>2 DEF StaysAreMoved
<1>9. ListsAreTrue'
  <2> HIDE DEF first
  <2>1. \A id \in pluggedIn' : ~(first[id].departMs > sync.nowMs)
    BY <1>1, <1>6, <1>7 DEF departedBy, Stays
  <2> QED
    BY <1>6, <2>1 DEF ListsAreTrue
<1>10. DayIsPlayed'
  BY <1>6, <1>8, <1>9 DEF DayIsPlayed
<1> QED
  BY <1>3, <1>4, <1>5, <1>10

LEMMA ResyncKeepsDay ==
  ASSUME DayInv, resync
  PROVE  DayInv'
<1> USE DEF DayInv
<1>1. sync.nowMs \in Int /\ sync.scale \in Nat /\ realNow \in Int /\ ownClock \in Clocks
  BY CalendarAssumption DEF CalendarTypeOK
<1> DEFINE set == IF NowOf(ownClock) # sync.nowMs THEN jumpTo(ownClock, sync.nowMs) ELSE ownClock
<1>2. ownClock' = IF set.scale # sync.scale THEN setScale(set, sync.scale) ELSE set
  BY DEF resync
<1>3. set \in Clocks
  <2>1. ownClock.scale \in Nat
    BY <1>1 DEF Clocks
  <2>2. jumpTo(ownClock, sync.nowMs) \in Clocks
    BY <1>1, <2>1, ClockIsSet DEF jumpTo
  <2> QED
    BY <1>1, <2>2
<1> HIDE DEF set
<1>4. NowOf(set) \in Int
  BY <1>1, <1>3, NowIs
<1>5. setScale(set, sync.scale) \in Clocks
  BY <1>1, <1>4, ClockIsSet DEF setScale
<1>6. ownClock' \in Clocks
  BY <1>2, <1>3, <1>5
<1>7. CalendarTypeOK'
  BY <1>6 DEF resync, CalendarTypeOK, NoAnswer, playVars
<1>8. ClockGoesOn' /\ FileIsMoved' /\ DayIsPlayed'
  BY ClockRests, FileRests, DayRests DEF resync
<1> QED
  BY <1>7, <1>8

LEMMA TickKeepsDay ==
  ASSUME DayInv, Tick
  PROVE  DayInv'
<1> USE DEF DayInv
<1> DEFINE now == NowOf(ownClock)
           S == Ids(scenario.arrivals)
           first == resolveArrivals(scenario)
           arriving == {id \in DOMAIN arrivals \ pluggedIn : now >= arrivals[id].arriveMs}
           leaving == {id \in (pluggedIn \cup arriving) \ unplugged : now >= arrivals[id].departMs}
           over == unplugged \cup leaving = DOMAIN arrivals /\ now > lastDepartMs(arrivals)
<1>1. /\ stage = "playing" /\ stage' \in {"playing", "over"} /\ day \in Nat \ {0} /\ DayLength \in Nat \ {0}
      /\ UNCHANGED <<scenario, written, repeats, realNow, clock, ownClock, sync, timeShown, controls, syncs>>
  BY CalendarAssumption DEF Tick, CalendarTypeOK
<1>2. now \in Int
  <2>1. realNow \in Int
    BY CalendarAssumption DEF CalendarTypeOK
  <2> QED
    BY <2>1, NowIs DEF CalendarTypeOK
<1>3. first \in [S -> Stays] /\ IsFiniteSet(S)
  BY <1>1, FileStays
<1>4. /\ arrivals \in [S -> Stays] /\ DOMAIN arrivals = S
      /\ \A id \in S : arrivals[id].departMs >= 0
      /\ \A id \in S : (arrivals[id].arriveMs - first[id].arriveMs) % DayLength = 0
  BY <1>1 DEF DayIsPlayed, StaysAreMoved
<1>5. ListsAreTrue /\ (day > 1 /\ DOMAIN arrivals # {} => lastDepartMs(arrivals) >= dayBegan)
  BY <1>1 DEF DayIsPlayed
<1>6. came' = came \cup {[id |-> id, day |-> day] : id \in arriving}
  BY DEF Tick
<1>7. IF over /\ repeats
      THEN /\ day' = day + 1 /\ dayBegan' = now /\ arrivals' = replayAfter(arrivals, now)
           /\ pluggedIn' = {} /\ unplugged' = {}
      ELSE /\ pluggedIn' = pluggedIn \cup arriving /\ unplugged' = unplugged \cup leaving
           /\ UNCHANGED <<arrivals, day, dayBegan>>
  BY DEF Tick
<1>8. arriving \subseteq S \ pluggedIn /\ leaving \subseteq pluggedIn \cup arriving
  BY <1>4
<1> HIDE DEF over, leaving
<1>9. CalendarTypeOK'
  <2>1. day' \in Nat \ {0} /\ dayBegan' \in Int
    <3> HIDE DEF now, arriving
    <3> QED
      BY <1>1, <1>2, <1>7 DEF CalendarTypeOK
  <2> QED
    BY <1>1, <2>1 DEF CalendarTypeOK
<1>10. ClockGoesOn'
  BY <1>1, ClockRests
<1>11. FileIsMoved'
  BY <1>1 DEF FileIsMoved
<1>12. StaysAreMoved' /\ ListsAreTrue'
       /\ (day' > 1 /\ DOMAIN arrivals' # {} => lastDepartMs(arrivals') >= dayBegan')
  <2>1. CASE over /\ repeats
    <3> DEFINE r == replayAfter(arrivals, now)
    <3>1. /\ r \in [S -> Stays] /\ \A id \in S : r[id].departMs >= 0
          /\ \E k \in Int : \A id \in S : r[id].arriveMs = arrivals[id].arriveMs + k * DayLength
          /\ S # {} => lastDepartMs(r) >= now
      <4> HIDE DEF now, S
      <4> QED
        BY <1>2, <1>3, <1>4, ReplayGoesOn
    <3>2. arrivals' = r /\ dayBegan' = now /\ day' = day + 1 /\ pluggedIn' = {} /\ unplugged' = {}
      BY <1>7, <2>1
    <3> HIDE DEF r, now, arriving
    <3>3. \A id \in S : (r[id].arriveMs - first[id].arriveMs) % DayLength = 0
      <4>1. PICK k \in Int : \A id \in S : r[id].arriveMs = arrivals[id].arriveMs + k * DayLength
        BY <3>1
      <4> TAKE id \in S
      <4> DEFINE f == first[id].arriveMs
                 a == arrivals[id].arriveMs
                 m == k * DayLength
                 x == a - f
      <4>2. f \in Int /\ a \in Int /\ m \in Int
        BY <1>1, <1>3, <1>4 DEF Stays
      <4>3. r[id].arriveMs = a + m
        BY <4>1
      <4>4. x \in Int /\ x % DayLength = 0
        BY <1>4, <4>2
      <4>5. (x + k * DayLength) % DayLength = x % DayLength
        <5> HIDE DEF x
        <5> QED
          BY <4>4, DaysLeaveTimes
      <4>6. r[id].arriveMs - f = x + m
        <5> HIDE DEF f, a, m
        <5> QED
          BY <4>2, <4>3
      <4> HIDE DEF x
      <4> QED
        BY <4>4, <4>5, <4>6
    <3>4. StaysAreMoved'
      <4> HIDE DEF first, S
      <4>1. S' = S /\ first' = first
        BY <1>1 DEF S, first
      <4>2. DOMAIN r = S
        BY <3>1
      <4>3. /\ r \in [S -> Stays]
            /\ \A id \in DOMAIN r : r[id].departMs >= 0 /\ (r[id].arriveMs - first[id].arriveMs) % DayLength = 0
        BY <3>1, <3>3, <4>2
      <4> QED
        BY <3>2, <4>1, <4>3 DEF StaysAreMoved, S, first
    <3>5. ListsAreTrue'
      BY <1>1, <3>2 DEF ListsAreTrue
    <3>6. DOMAIN arrivals' # {} => lastDepartMs(arrivals') >= dayBegan'
      BY <3>1, <3>2
    <3> QED
      BY <3>4, <3>5, <3>6
  <2>2. CASE ~(over /\ repeats)
    <3> HIDE DEF now
    <3>1. /\ pluggedIn' = pluggedIn \cup arriving /\ unplugged' = unplugged \cup leaving
          /\ arrivals' = arrivals /\ day' = day /\ dayBegan' = dayBegan
      BY <1>7, <2>2
    <3>2. StaysAreMoved'
      BY <1>1, <3>1 DEF DayIsPlayed, StaysAreMoved
    <3>3. ListsAreTrue'
      <4>1. unplugged' \subseteq pluggedIn'
        BY <1>5, <1>8, <3>1 DEF ListsAreTrue
      <4> HIDE DEF arriving
      <4>2. ASSUME day = 1 PROVE departedBy(arrivals, dayBegan) \subseteq pluggedIn'
        BY <1>5, <3>1, <4>2 DEF ListsAreTrue
      <4>3. ASSUME day = 1, NEW c \in came' PROVE arrivals[c.id].departMs > dayBegan
        <5>1. CASE c \in came
          BY <1>5, <4>3, <5>1 DEF ListsAreTrue
        <5>2. CASE c \notin came
          <6>1. PICK id \in arriving : c = [id |-> id, day |-> day]
            BY <1>6, <4>3, <5>2
          <6>2. id \in S /\ id \notin pluggedIn /\ c.id = id
            BY <1>8, <6>1
          <6>3. id \notin departedBy(arrivals, dayBegan)
            BY <1>5, <4>3, <6>2 DEF ListsAreTrue
          <6>4. arrivals[id].departMs \in Int /\ dayBegan \in Int
            BY <1>4, <6>2 DEF Stays, CalendarTypeOK
          <6> QED
            BY <1>4, <6>2, <6>3, <6>4 DEF departedBy
        <5> QED
          BY <5>1, <5>2
      <4>4. ASSUME day = 1, NEW id \in pluggedIn', arrivals[id].departMs > dayBegan
            PROVE  \E c \in came' : c.id = id
        <5>1. CASE id \in pluggedIn
          BY <1>5, <1>6, <4>4, <5>1 DEF ListsAreTrue
        <5>2. CASE id \notin pluggedIn
          <6>1. id \in arriving
            BY <3>1, <4>4, <5>2
          <6>2. [id |-> id, day |-> day] \in came'
            BY <1>6, <6>1
          <6> QED
            BY <6>2
        <5> QED
          BY <5>1, <5>2
      <4> QED
        BY <3>1, <4>1, <4>2, <4>3, <4>4 DEF ListsAreTrue
    <3>4. day' > 1 /\ DOMAIN arrivals' # {} => lastDepartMs(arrivals') >= dayBegan'
      BY <1>5, <3>1
    <3> QED
      BY <3>2, <3>3, <3>4
  <2> QED
    BY <2>1, <2>2
<1>13. DayIsPlayed'
  BY <1>1, <1>12 DEF DayIsPlayed
<1> QED
  BY <1>9, <1>10, <1>11, <1>13

LEMMA SettingKeepsDay ==
  ASSUME DayInv, SetClock
  PROVE  DayInv'
<1> USE DEF DayInv
<1>1. /\ realNow \in Int /\ realNow' = realNow /\ clock # NoClock /\ clock \in Clocks /\ clock.scale \in Nat
      /\ timeShown \in Int
  BY CalendarAssumption DEF SetClock, CalendarTypeOK, Clocks, NoClock
<1>2. clock' \in Clocks /\ timeShown' \in Int /\ ClockGoesOn'
  <2>1. ASSUME NEW t \in Jumps, clock' = jumpTo(clock, t), timeShown' = t
        PROVE  clock' \in Clocks /\ timeShown' \in Int /\ ClockGoesOn'
    <3>1. t \in Int
      BY CalendarAssumption
    <3>2. clock' = SimClock(t, clock.scale)
      BY <2>1 DEF jumpTo
    <3> QED
      BY <1>1, <2>1, <3>1, <3>2, SetClockGoesOn
  <2>2. ASSUME NEW scale \in Scales, clock' = setScale(clock, scale), timeShown' = timeShown
        PROVE  clock' \in Clocks /\ timeShown' \in Int /\ ClockGoesOn'
    <3>1. scale \in Nat
      BY CalendarAssumption
    <3>2. NowOf(clock) \in Int /\ NowOf(clock) >= timeShown
      BY <1>1, NowIsShown
    <3>3. clock' = SimClock(NowOf(clock), scale)
      BY <2>2 DEF setScale
    <3> DEFINE t == NowOf(clock)
    <3> HIDE DEF t
    <3> SUFFICES /\ t \in Int /\ timeShown <= t /\ clock' = SimClock(t, scale)
      BY <1>1, <2>2, <3>1, SetClockGoesOn
    <3> QED
      BY <1>1, <3>2, <3>3 DEF t
  <2>3. ASSUME NEW t \in Jumps, NEW scale \in Scales,
               clock' = setScale(SimClock(t, clock.scale), scale), timeShown' = t
        PROVE  clock' \in Clocks /\ timeShown' \in Int /\ ClockGoesOn'
    <3>1. t \in Int /\ scale \in Nat
      BY CalendarAssumption
    <3> DEFINE c == SimClock(t, clock.scale)
    <3>2. /\ c.kind = "sim" /\ c.sim = t /\ c.real = realNow
          /\ t + (realNow - realNow) * c.scale = t
      BY <1>1, <3>1, ClockIsSet
    <3> HIDE DEF c
    <3>3. NowOf(c) = t
      BY <3>2 DEF NowOf
    <3>4. clock' = SimClock(t, scale)
      BY <2>3, <3>3 DEF setScale, c
    <3> QED
      BY <1>1, <2>3, <3>1, <3>4, SetClockGoesOn
  <2> QED
    BY <2>1, <2>2, <2>3 DEF SetClock
<1>3. CalendarTypeOK'
  BY <1>2 DEF SetClock, CalendarTypeOK, playVars
<1>4. FileIsMoved' /\ DayIsPlayed'
  BY FileRests, DayRests DEF SetClock
<1> QED
  BY <1>2, <1>3, <1>4

LEMMA PassingKeepsDay ==
  ASSUME DayInv, TimePasses
  PROVE  DayInv'
<1> USE DEF DayInv
<1>1. /\ realNow \in Int /\ realNow' = realNow + 1 /\ clock' = clock /\ clock # NoClock
      /\ clock \in Clocks /\ clock.kind \in {"sim", "system"} /\ timeShown \in Int
      /\ realNow \in 0..MaxReal /\ realNow < MaxReal /\ MaxReal \in Nat
  BY CalendarAssumption DEF TimePasses, CalendarTypeOK, ClockGoesOn
<1>2. NowOf(clock) \in Int /\ NowOf(clock) >= timeShown
  BY <1>1, NowIsShown
<1>3. timeShown' = NowOf(clock)
  BY <1>1, <1>2 DEF TimePasses, Larger
<1>4. CalendarTypeOK'
  BY <1>1, <1>2, <1>3 DEF TimePasses, CalendarTypeOK, playVars
<1>5. ClockGoesOn'
  <2>1. /\ clock.sim \in Int /\ clock.real \in Int /\ clock.scale \in Nat
        /\ clock.real <= realNow
    BY <1>1 DEF Clocks, ClockGoesOn
  <2>2. CASE clock.kind = "system"
    <3>1. NowOf(clock) = realNow
      BY <2>2 DEF NowOf
    <3> QED
      BY <1>1, <1>3, <2>1, <2>2, <3>1 DEF ClockGoesOn
  <2>3. CASE clock.kind = "sim"
    <3> DEFINE ran == (realNow - clock.real) * clock.scale
               runs == (realNow + 1 - clock.real) * clock.scale
    <3>1. ran \in Int /\ runs \in Int /\ runs = ran + clock.scale
      BY <1>1, <2>1
    <3>2. NowOf(clock) = clock.sim + ran
      BY <2>3 DEF NowOf
    <3>3. clock'.sim + (realNow' - clock'.real) * clock'.scale = clock.sim + runs
      BY <1>1, <2>1
    <3> HIDE DEF ran, runs
    <3>4. clock.sim + runs >= timeShown'
      BY <1>3, <2>1, <3>1, <3>2
    <3> QED
      BY <1>1, <2>1, <2>3, <3>3, <3>4 DEF ClockGoesOn
  <2> QED
    BY <1>1, <2>2, <2>3
<1>6. FileIsMoved' /\ DayIsPlayed'
  BY FileRests, DayRests DEF TimePasses
<1> QED
  BY <1>4, <1>5, <1>6

\* The day is sound in every step.
LEMMA DayStep ==
  DayInv /\ [CalendarNext]_calendarVars => DayInv'
<1> SUFFICES ASSUME DayInv, [CalendarNext]_calendarVars PROVE DayInv'
  OBVIOUS
<1>1. CASE parseScenario
  BY <1>1, ParseKeepsDay
<1>2. CASE StartServer
  BY <1>2, StartKeepsDay
<1>3. CASE loadScenario
  BY <1>3, LoadKeepsDay
<1>4. CASE fetchClock
  BY <1>4, FetchKeepsDay
<1>5. CASE Begin
  BY <1>5, BeginKeepsDay
<1>6. CASE resync
  BY <1>6, ResyncKeepsDay
<1>7. CASE Tick
  BY <1>7, TickKeepsDay
<1>8. CASE SetClock
  BY <1>8, SettingKeepsDay
<1>9. CASE TimePasses
  BY <1>9, PassingKeepsDay
<1>10. CASE UNCHANGED calendarVars
  <2>1. CalendarTypeOK'
    BY <1>10 DEF DayInv, CalendarTypeOK, calendarVars
  <2>2. ClockGoesOn' /\ FileIsMoved' /\ DayIsPlayed'
    BY <1>10, ClockRests, FileRests, DayRests DEF DayInv, calendarVars, playVars
  <2> QED
    BY <2>1, <2>2 DEF DayInv
<1> QED
  BY <1>1, <1>2, <1>3, <1>4, <1>5, <1>6, <1>7, <1>8, <1>9, <1>10 DEF CalendarNext

\* The inductive invariant: a file that is accepted is played as it was written, moved by whole
\* days, by a clock that goes back only when it is set back.
THEOREM DayInvariant ==
  CalendarSpec => []DayInv
<1>1. CalendarInit => DayInv
  BY DayInitially
<1>2. DayInv /\ [CalendarNext]_calendarVars => DayInv'
  BY DayStep
<1> QED
  BY <1>1, <1>2, PTL DEF CalendarSpec

LEMMA TimesAreKept ==
  DayInv => LocalTimeKept
<1> SUFFICES ASSUME DayInv, stage # "file", scenario.timezone.known, NEW local \in 0..2 * DayLength
             PROVE  wallClockAt(zonedTimeToUtc(local, scenario.timezone), scenario.timezone) \in
                      IF InGap(local, scenario.timezone)
                      THEN {local - (scenario.timezone.after - scenario.timezone.before),
                            local + (scenario.timezone.after - scenario.timezone.before)}
                      ELSE {local}
  BY DEF LocalTimeKept
<1>1. local \in Int
  BY CalendarAssumption
<1>2. written \in Scenarios
  BY DEF DayInv, CalendarTypeOK
<1>3. scenario.timezone = written.timezone
  <2>1. CASE stage \in {"refused", "accepted"}
    BY <2>1 DEF DayInv, FileIsMoved
  <2>2. CASE stage \in {"moved", "playing", "over"}
    <3>1. scenarioSchema(written)
      BY <2>2 DEF DayInv, FileIsMoved
    <3>2. PICK target \in TargetDays(written) : scenario = rebaseScenario(written, target)
      BY <2>2 DEF DayInv, FileIsMoved
    <3> QED
      BY <1>2, <3>1, <3>2, MovedIs
  <2> QED
    BY <2>1, <2>2 DEF DayInv, CalendarTypeOK
<1>4. scenario.timezone \in Zones
  BY <1>2, <1>3, FilesAre
<1> QED
  BY <1>1, <1>4, ZoneShows

LEMMA StaysAreOne ==
  DayInv => EveryStayIsOne
<1> SUFFICES ASSUME DayInv, stage \in {"moved", "playing"}, NEW id \in Ids(scenario.arrivals)
             PROVE  LET a == Called(scenario.arrivals, id)
                        was == Called(written.arrivals, id)
                        r == resolveArrivals(scenario)[id]
                    IN /\ ~InGap(a.arriveAt, scenario.timezone) =>
                            /\ ~InGap(a.departAt, scenario.timezone) => r.arriveMs < r.departMs
                            /\ ~InGap(a.deadlineAt, scenario.timezone) => r.arriveMs < r.deadlineMs
                       /\ a.arriveAt % DayLength = was.arriveAt % DayLength
                       /\ a.departAt - a.arriveAt = was.departAt - was.arriveAt
  BY DEF EveryStayIsOne
<1>1. written \in Scenarios /\ scenarioSchema(written) /\ DayLength \in Nat \ {0}
  BY CalendarAssumption DEF DayInv, CalendarTypeOK, FileIsMoved
<1>2. PICK target \in TargetDays(written) : scenario = rebaseScenario(written, target)
  BY DEF DayInv, FileIsMoved
<1>3. scenario.timezone \in Zones /\ Ids(scenario.arrivals) = Ids(written.arrivals)
  BY <1>1, <1>2, MovedIs, FilesAre
<1> DEFINE a == Called(scenario.arrivals, id)
           zone == scenario.timezone
<1>4. PICK i \in DOMAIN written.arrivals, days \in Int :
        /\ Called(written.arrivals, id) = written.arrivals[i]
        /\ written.arrivals[i] \in Arrivals
        /\ written.arrivals[i].departAt > written.arrivals[i].arriveAt
        /\ written.arrivals[i].deadlineAt > written.arrivals[i].arriveAt
        /\ a.arriveAt = written.arrivals[i].arriveAt + days * DayLength
        /\ a.departAt = written.arrivals[i].departAt + days * DayLength
        /\ a.deadlineAt = written.arrivals[i].deadlineAt + days * DayLength
  BY <1>1, <1>2, <1>3, MovedIs
<1> DEFINE was == written.arrivals[i]
           shift == days * DayLength
<1>5. /\ was.arriveAt \in Int /\ was.departAt \in Int /\ was.deadlineAt \in Int /\ shift \in Int
      /\ was.departAt > was.arriveAt /\ was.deadlineAt > was.arriveAt
  BY <1>1, <1>4 DEF Arrivals
<1>6. a.arriveAt = was.arriveAt + shift /\ a.departAt = was.departAt + shift /\ a.deadlineAt = was.deadlineAt + shift
  BY <1>4
<1>7. resolveArrivals(scenario)[id] =
        [arriveMs |-> zonedTimeToUtc(a.arriveAt, zone), departMs |-> zonedTimeToUtc(a.departAt, zone),
         deadlineMs |-> zonedTimeToUtc(a.deadlineAt, zone)]
  BY DEF resolveArrivals
<1>8. was.arriveAt = Called(written.arrivals, id).arriveAt /\ was.departAt = Called(written.arrivals, id).departAt
  BY <1>4
<1>9. a.arriveAt % DayLength = was.arriveAt % DayLength
  <2> DEFINE x == was.arriveAt
  <2>1. (x + days * DayLength) % DayLength = x % DayLength
    <3> HIDE DEF x
    <3> QED
      BY <1>5, DaysLeaveTimes DEF x
  <2> QED
    BY <1>6, <2>1
<1> HIDE DEF a, was, shift, zone
<1>10. a.arriveAt < a.departAt /\ a.arriveAt < a.deadlineAt /\ a.departAt - a.arriveAt = was.departAt - was.arriveAt
       /\ a.arriveAt \in Int /\ a.departAt \in Int /\ a.deadlineAt \in Int
  BY <1>5, <1>6
<1>11. zone \in Zones
  BY <1>3 DEF zone
<1>12. ~InGap(a.arriveAt, zone) =>
         /\ ~InGap(a.departAt, zone) => zonedTimeToUtc(a.arriveAt, zone) < zonedTimeToUtc(a.departAt, zone)
         /\ ~InGap(a.deadlineAt, zone) => zonedTimeToUtc(a.arriveAt, zone) < zonedTimeToUtc(a.deadlineAt, zone)
  BY <1>10, <1>11, ZoneRises
<1> QED
  BY <1>7, <1>8, <1>9, <1>10, <1>12 DEF a, zone

\* What the run checks of a scenario's day: local times are kept, a stay is one, the clock does not
\* go back by itself, a day that is played again is ahead, and whoever is due comes.
THEOREM TheDayIsSound ==
  CalendarSpec => []DayIsSound
<1>1. DayInv => DayIsSound
  <2> SUFFICES ASSUME DayInv PROVE NeverBack /\ ReplayIsAhead /\ WhoIsDueComes
    BY TimesAreKept, StaysAreOne DEF DayIsSound
  <2>1. NeverBack
    BY NowIsShown DEF DayInv, NeverBack
  <2>2. ReplayIsAhead
    <3> SUFFICES ASSUME day > 1 PROVE ReplayIsAhead
      BY DEF ReplayIsAhead
    <3>1. stage \in {"playing", "over"}
      BY DEF DayInv, DayIsPlayed
    <3> QED
      BY <3>1 DEF DayInv, DayIsPlayed, StaysAreMoved, ReplayIsAhead
  <2>3. WhoIsDueComes
    BY DEF DayInv, DayIsPlayed, ListsAreTrue, WhoIsDueComes
  <2> QED
    BY <2>1, <2>2, <2>3
<1> QED
  BY <1>1, DayInvariant, PTL
=============================================================================
