------------------------------- MODULE OcppRpc -------------------------------
(***************************************************************************)
(* One end of an OCPP-J connection: class OcppRpc of                       *)
(* packages/ocpp/src/rpc.ts, used by the gateway for every charge point    *)
(* and by the simulated charge point for the central system.               *)
(*                                                                         *)
(* The other end is not trusted: it may answer a CALL late, several times, *)
(* with an error, or never, and it may send frames that are not OCPP-J.    *)
(* A call stands for its uniqueId as well (randomUUID never repeats), and  *)
(* payloads are left out: the queue never looks at them.                   *)
(***************************************************************************)
EXTENDS Naturals, FiniteSets, Sequences, SequencesExt

CONSTANTS Calls,         \* CALLs the owner of this end may ask for
          PeerCalls,     \* CALLs the other end may send
          MaxInbox       \* bound: frames on their way to this end

VARIABLES queue,         \* calls not sent yet, the oldest first
          pending,       \* ids of the calls sent and not settled, one timer each
          inFlight,      \* the flag that keeps a second CALL from being sent
          closed,        \* close() has run
          outcome,       \* what the promise of each call has come to
          up,            \* the socket still carries what is sent
          sent,          \* every frame written to the socket, in order
          inbox,         \* frames on their way to this end
          peerSaid,      \* every frame the other end ever sent
          handling       \* incoming CALLs whose handler has not finished

ownVars == <<queue, pending, inFlight, closed, outcome>>
vars == <<queue, pending, inFlight, closed, outcome, up, sent, inbox, peerSaid, handling>>

Settled == {"result", "error", "timedOut", "sendFailed", "closed", "refused"}
Outcomes == Settled \cup {"unasked", "waiting"}

Frame(kind, id) == [kind |-> kind, id |-> id]
NotOcpp == Frame("malformed", "none")

PeerFrames == [kind : {"result", "error"}, id : Calls]
                \cup [kind : {"call"}, id : PeerCalls] \cup {NotOcpp}
OwnFrames == [kind : {"call"}, id : Calls] \cup [kind : {"result", "error"}, id : PeerCalls]

\* The CALL of c has been written to the socket.
IsSent(c) == Frame("call", c) \in Range(sent)

-----------------------------------------------------------------------------

Init ==
  /\ queue = <<>>
  /\ pending = {}
  /\ inFlight = FALSE
  /\ closed = FALSE
  /\ outcome = [c \in Calls |-> "unasked"]
  /\ up = TRUE
  /\ sent = <<>>
  /\ inbox = <<>>
  /\ peerSaid = {}
  /\ handling = {}

\* A write to a socket that is closing or closed is dropped without an error.
Written(frame) == IF up THEN Append(sent, frame) ELSE sent

\* A slip, of the kind the properties are for; the model itself uses none of them.  Here: pump()
\* that takes the newest call first.
PumpNewestFirst(q, pend, busy, told) ==
  /\ IF busy \/ q = <<>>
     THEN UNCHANGED sent /\ queue' = q /\ pending' = pend /\ inFlight' = busy
     ELSE /\ sent' = Written(Frame("call", Last(q)))
          /\ queue' = Front(q)
          /\ pending' = pend \cup {Last(q)}
          /\ inFlight' = TRUE
  /\ outcome' = told

\* pump(), dispatch() and, when send throws, settle() and pump() again: sending
\* the first k queued calls throws and the next one, if any, is sent.
Pump(q, pend, busy, told) ==
  IF busy \/ closed
  THEN /\ queue' = q
       /\ pending' = pend
       /\ inFlight' = busy
       /\ outcome' = told
       /\ UNCHANGED sent
  ELSE \E k \in 0..Len(q) :
         LET failed == {q[i] : i \in 1..k}
             next == {q[i] : i \in {k + 1} \cap DOMAIN q}
         IN  /\ queue' = SubSeq(q, k + 2, Len(q))
             /\ pending' = pend \cup next
             /\ inFlight' = (next # {})
             /\ outcome' = [c \in Calls |-> IF c \in failed THEN "sendFailed" ELSE told[c]]
             /\ sent' = IF next = {} THEN sent ELSE Written(Frame("call", q[k + 1]))

\* Slip: a settle() that settles whatever call is in flight.
SettleWhateverIsPending(id, how) ==
  IF pending # {}
  THEN Pump(queue, {}, FALSE, [c \in Calls |-> IF c \in pending THEN how ELSE outcome[c]])
  ELSE UNCHANGED <<ownVars, sent>>

\* settle(id, finish): the entry leaves the map, its caller is told, the next
\* call goes out.  An id that is not in the map only causes a warning.
Settle(id, how) ==
  IF id \in pending
  THEN Pump(queue, pending \ {id}, FALSE, [outcome EXCEPT ![id] = how])
  ELSE UNCHANGED <<ownVars, sent>>

\* call(action, payload), from the owner of this end.
Call(c) ==
  /\ outcome[c] = "unasked"
  /\ IF closed
     THEN /\ outcome' = [outcome EXCEPT ![c] = "refused"]
          /\ UNCHANGED <<queue, pending, inFlight, sent>>
     ELSE Pump(Append(queue, c), pending, inFlight, [outcome EXCEPT ![c] = "waiting"])
  /\ UNCHANGED <<closed, up, inbox, peerSaid, handling>>

\* The timer that dispatch() set for c runs out.
Timeout(c) ==
  /\ c \in pending
  /\ Settle(c, "timedOut")
  /\ UNCHANGED <<closed, up, inbox, peerSaid, handling>>

\* receive(raw): one frame is taken from the socket.
ReceiveAnswer(f) ==
  /\ f.kind \in {"result", "error"}
  /\ Settle(f.id, f.kind)
  /\ UNCHANGED <<closed, handling>>

ReceiveCall(f) ==
  /\ f.kind = "call"
  /\ handling' = handling \cup {f.id}
  /\ UNCHANGED <<ownVars, sent>>

DropMalformed(f) ==
  /\ f = NotOcpp
  /\ UNCHANGED <<ownVars, sent, handling>>

Receive ==
  /\ inbox # <<>>
  /\ inbox' = Tail(inbox)
  /\ LET f == Head(inbox) IN ReceiveAnswer(f) \/ ReceiveCall(f) \/ DropMalformed(f)
  /\ UNCHANGED <<up, peerSaid>>

\* The handler of an incoming CALL returns or throws; either is written back.
HandlerEnds(p, kind) ==
  /\ p \in handling
  /\ handling' = handling \ {p}
  /\ sent' = Written(Frame(kind, p))
  /\ UNCHANGED <<ownVars, up, inbox, peerSaid>>

\* Slip: close() that rejects only what is in the map.
CloseOnlyPending ==
  /\ ~closed
  /\ closed' = TRUE
  /\ up' = FALSE
  /\ outcome' = [c \in Calls |-> IF c \in pending THEN "closed" ELSE outcome[c]]
  /\ queue' = <<>>
  /\ pending' = {}
  /\ inFlight' = FALSE
  /\ UNCHANGED <<sent, inbox, peerSaid, handling>>

\* close(reason).  Both owners close the socket with it, or are told it closed.
Close ==
  /\ ~closed
  /\ closed' = TRUE
  /\ up' = FALSE
  /\ outcome' = [c \in Calls |->
                   IF c \in pending \cup Range(queue) THEN "closed" ELSE outcome[c]]
  /\ queue' = <<>>
  /\ pending' = {}
  /\ inFlight' = FALSE
  /\ UNCHANGED <<sent, inbox, peerSaid, handling>>

-----------------------------------------------------------------------------
(* The other end and the network. *)

\* The other end may answer any CALL that was written, whenever and as often as
\* it likes; it gives each CALL of its own a fresh id.
PeerSends(f) ==
  /\ Len(inbox) < MaxInbox
  /\ f.kind \in {"result", "error"} => IsSent(f.id)
  /\ f.kind = "call" => f \notin peerSaid
  /\ inbox' = Append(inbox, f)
  /\ peerSaid' = peerSaid \cup {f}
  /\ UNCHANGED <<ownVars, up, sent, handling>>

\* The connection breaks: what is under way is lost, the close event comes later.
SocketBreaks ==
  /\ up
  /\ up' = FALSE
  /\ inbox' = <<>>
  /\ UNCHANGED <<ownVars, sent, peerSaid, handling>>

Next ==
  \/ \E c \in Calls : Call(c) \/ Timeout(c)
  \/ Receive
  \/ \E p \in PeerCalls, kind \in {"result", "error"} : HandlerEnds(p, kind)
  \/ Close
  \/ up /\ \E f \in PeerFrames : PeerSends(f)
  \/ SocketBreaks

Spec == Init /\ [][Next]_vars

\* setTimeout always fires.  Nothing is assumed of the other end, of the
\* handlers, or of the owner ever closing.
FairSpec == Spec /\ \A c \in Calls : WF_vars(Timeout(c))

-----------------------------------------------------------------------------
(* Properties. *)

TypeOK ==
  /\ queue \in Seq(Calls)
  /\ pending \in SUBSET Calls
  /\ inFlight \in BOOLEAN
  /\ closed \in BOOLEAN
  /\ outcome \in [Calls -> Outcomes]
  /\ up \in BOOLEAN
  /\ sent \in Seq(OwnFrames)
  /\ inbox \in Seq(PeerFrames)
  /\ peerSaid \in SUBSET PeerFrames
  /\ handling \in SUBSET PeerCalls

\* The calls whose callers are still waiting are exactly those in the map and
\* in the queue, none of them twice: no promise is left dangling by a timeout,
\* a late answer, a failed write or a close, and none is kept after its end.
NoCallForgotten ==
  /\ \A c \in Calls : outcome[c] = "waiting" <=> c \in pending \cup Range(queue)
  /\ \A i, j \in DOMAIN queue : queue[i] = queue[j] => i = j
  /\ \A i \in DOMAIN queue : queue[i] \notin pending

\* inFlight says that the map holds a call, and the map never holds two.
InFlightIsPending ==
  /\ inFlight <=> pending # {}
  /\ \A c, d \in pending : c = d

\* A queued call never waits while nothing is in flight: whatever ends the call
\* in flight sends the next one.
NeverIdleWithWork == queue # <<>> => inFlight

\* "A charge point may only have one outgoing CALL in flight": of any two CALLs
\* written to the socket, at least one is settled for its caller.
OneOnTheWire ==
  \A c, d \in Calls :
    IsSent(c) /\ IsSent(d) /\ c # d => outcome[c] \in Settled \/ outcome[d] \in Settled

\* A caller is told "result" or "error" only if the other end said so of this
\* very call: an answer that comes after the timeout settles nobody else.
AnswersAreOwn ==
  \A c \in Calls : outcome[c] \in {"result", "error"} => Frame(outcome[c], c) \in peerSaid

\* The promise to callers: the call in the map stands first in line.
Line == INSTANCE CallLine WITH
          line <- SetToSeq(pending) \o queue,
          shut <- closed

LineSpec == Line!Spec
=============================================================================
