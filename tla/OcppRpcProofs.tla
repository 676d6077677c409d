---------------------------- MODULE OcppRpcProofs ----------------------------
(***************************************************************************)
(* The invariants of OcppRpc hold for any set of calls, any number of      *)
(* incoming calls and any other end, and it keeps its promise to callers:  *)
(* whatever it does is a step of CallLine, or none.  The second half is    *)
(* about a charge point on such a connection, SimulatedBay: its server     *)
(* opens one transaction for an arrival, and reads a register that never   *)
(* falls.                                                                  *)
(***************************************************************************)
EXTENDS OcppRpc, SimulatedBay, TLAPS, SequenceTheorems, FiniteSetTheorems

\* What pump() is owed and what it leaves behind, as a predicate of the state
\* it is called in: queue q, map pend, flag busy, callers told so far.
Tidy(q, pend, busy, told) ==
  /\ q \in Seq(Calls)
  /\ pend \in SUBSET Calls
  /\ busy \in BOOLEAN
  /\ told \in [Calls -> Outcomes]
  /\ \A c \in Calls : told[c] = "waiting" <=> c \in pend \cup Range(q)
  /\ \A i, j \in DOMAIN q : q[i] = q[j] => i = j
  /\ \A i \in DOMAIN q : q[i] \notin pend
  /\ busy <=> pend # {}
  /\ \A c, d \in pend : c = d

\* No CALL is on the wire unless it is in the map or settled.
SentIsAccounted ==
  \A c \in Calls : IsSent(c) => c \in pending \/ outcome[c] \in Settled

\* After close() nothing is left that could be sent.
ClosedIsEmpty == closed => queue = <<>> /\ pending = {}

IInv ==
  /\ TypeOK
  /\ Tidy(queue, pending, inFlight, outcome)
  /\ NeverIdleWithWork
  /\ ClosedIsEmpty
  /\ SentIsAccounted

-----------------------------------------------------------------------------

\* The element k+2.. tail of a sequence, by index.
LEMMA TailOfQueue ==
  ASSUME NEW q \in Seq(Calls), NEW k \in 0..Len(q)
  PROVE  /\ SubSeq(q, k + 2, Len(q)) \in Seq(Calls)
         /\ k < Len(q) =>
              /\ Len(SubSeq(q, k + 2, Len(q))) = Len(q) - k - 1
              /\ \A i \in 1..(Len(q) - k - 1) : SubSeq(q, k + 2, Len(q))[i] = q[i + k + 1]
         /\ k = Len(q) => SubSeq(q, k + 2, Len(q)) = <<>>
  OBVIOUS

\* A write leaves the frames already sent where they are and adds at most the
\* one given.
LEMMA WrittenFrames ==
  ASSUME TypeOK, NEW f \in OwnFrames
  PROVE  /\ Written(f) \in Seq(OwnFrames)
         /\ \A g : g \in Range(Written(f)) => g \in Range(sent) \/ g = f
  BY DEF TypeOK, Written, Range

\* pump() keeps everything tidy from any state in which the queue may wait only
\* behind a call in flight, and sends no CALL while another one is unsettled.
LEMMA PumpKeepsTidy ==
  ASSUME TypeOK,
         NEW q, NEW pend, NEW busy, NEW told,
         Tidy(q, pend, busy, told),
         closed => q = <<>> /\ pend = {},
         Pump(q, pend, busy, told)
  PROVE  /\ Tidy(queue', pending', inFlight', outcome')
         /\ queue' # <<>> => inFlight'
         /\ closed => queue' = <<>> /\ pending' = {}
         /\ sent' \in Seq(OwnFrames)
         /\ \A c \in Calls : c \notin pend \cup Range(q) => outcome'[c] = told[c]
         /\ \A c \in Calls : told[c] \in Settled => outcome'[c] = told[c]
         /\ \A c \in Calls : c \in pend => c \in pending'
         /\ \A g : g \in Range(sent') =>
              \/ g \in Range(sent)
              \/ \E c \in pending' : g = Frame("call", c)
<1>1. CASE busy \/ closed
  BY <1>1 DEF Pump, Tidy, TypeOK, Settled, Range
<1>2. CASE ~(busy \/ closed)
  <2> DEFINE next(k) == {q[i] : i \in {k + 1} \cap DOMAIN q}
             failed(k) == {q[i] : i \in 1..k}
  <2>1. PICK k \in 0..Len(q) :
          /\ queue' = SubSeq(q, k + 2, Len(q))
          /\ pending' = pend \cup next(k)
          /\ inFlight' = (next(k) # {})
          /\ outcome' = [c \in Calls |-> IF c \in failed(k) THEN "sendFailed" ELSE told[c]]
          /\ sent' = IF next(k) = {} THEN sent ELSE Written(Frame("call", q[k + 1]))
    BY <1>2 DEF Pump
  <2>2. /\ q \in Seq(Calls) /\ pend = {} /\ told \in [Calls -> Outcomes]
        /\ \A c \in Calls : told[c] = "waiting" <=> c \in Range(q)
        /\ \A i, j \in DOMAIN q : q[i] = q[j] => i = j
    BY <1>2 DEF Tidy
  <2>3. CASE k = Len(q)
    <3>1. next(k) = {} /\ queue' = <<>> /\ pending' = {} /\ inFlight' = FALSE /\ sent' = sent
      <4>1. DOMAIN q = 1..Len(q) /\ Len(q) \in Nat
        BY <2>2
      <4>2. k + 1 \notin DOMAIN q
        BY <4>1, <2>3
      <4>3. next(k) = {}
        BY <4>2
      <4>4. queue' = <<>>
        BY <2>1, <2>2, <2>3, TailOfQueue
      <4> HIDE DEF next
      <4> QED
        BY <2>1, <2>2, <4>3, <4>4
    <3>2. failed(k) = Range(q)
      BY <2>2, <2>3 DEF Range
    <3>3. outcome' = [c \in Calls |-> IF c \in Range(q) THEN "sendFailed" ELSE told[c]]
      BY <2>1, <3>2
    <3>4. \A c \in Calls : outcome'[c] # "waiting"
      BY <3>3, <2>2
    <3>5. outcome' \in [Calls -> Outcomes]
      BY <3>3, <2>2 DEF Outcomes, Settled
    <3>6. Range(queue') = {} /\ queue' \in Seq(Calls) /\ DOMAIN queue' = {}
      BY <3>1 DEF Range
    <3>7. Tidy(queue', pending', inFlight', outcome')
      <4> HIDE DEF next, failed
      <4> QED
        BY <3>1, <3>4, <3>5, <3>6 DEF Tidy
    <3>8. \A c \in Calls : c \in Range(q) => told[c] = "waiting"
      BY <2>2
    <3> HIDE DEF next, failed
    <3> QED
      BY <3>1, <3>3, <3>7, <3>8, <2>2 DEF TypeOK, Settled
  <2>4. CASE k < Len(q)
    <3>1. next(k) = {q[k + 1]} /\ q[k + 1] \in Calls
      BY <2>2, <2>4
    <3>2. /\ pending' = {q[k + 1]} /\ inFlight' = TRUE
          /\ sent' = Written(Frame("call", q[k + 1]))
      BY <2>1, <2>2, <3>1
    <3>3. /\ queue' \in Seq(Calls) /\ Len(queue') = Len(q) - k - 1
          /\ \A i \in 1..(Len(q) - k - 1) : queue'[i] = q[i + k + 1]
      BY <2>1, <2>2, <2>4, TailOfQueue
    <3>d. DOMAIN q = 1..Len(q) /\ DOMAIN queue' = 1..(Len(q) - k - 1) /\ Len(q) \in Nat
      BY <2>2, <3>3
    <3>i. \A i \in DOMAIN queue' : i + k + 1 \in DOMAIN q /\ queue'[i] = q[i + k + 1]
      BY <3>d, <3>3
    <3>4. \A c \in Calls : c \in Range(q) <=> c \in failed(k) \/ c = q[k + 1] \/ c \in Range(queue')
      <4>2. ASSUME NEW c \in Range(q) PROVE c \in failed(k) \/ c = q[k + 1] \/ c \in Range(queue')
        <5>1. PICK i \in 1..Len(q) : c = q[i]
          BY <3>d, <4>2 DEF Range
        <5>2. i <= k \/ i = k + 1 \/ i - k - 1 \in 1..(Len(q) - k - 1)
          BY <2>2
        <5>3. i - k - 1 \in 1..(Len(q) - k - 1) => queue'[i - k - 1] = q[i]
          BY <3>3, <2>2
        <5> QED
          BY <5>1, <5>2, <5>3, <3>d DEF Range
      <4>3. failed(k) \subseteq Range(q) /\ q[k + 1] \in Range(q)
        BY <3>d, <2>4 DEF Range
      <4>4. Range(queue') \subseteq Range(q)
        BY <3>i DEF Range
      <4> QED
        BY <4>2, <4>3, <4>4
    <3>5. \A i, j \in DOMAIN queue' : queue'[i] = queue'[j] => i = j
      <4> SUFFICES ASSUME NEW i \in DOMAIN queue', NEW j \in DOMAIN queue', queue'[i] = queue'[j]
                   PROVE  i = j
        OBVIOUS
      <4>1. i + k + 1 = j + k + 1
        BY <2>2, <3>i
      <4> QED
        BY <4>1, <3>d
    <3>6. \A i \in DOMAIN queue' : queue'[i] # q[k + 1] /\ queue'[i] \notin failed(k)
      <4> SUFFICES ASSUME NEW i \in DOMAIN queue'
                   PROVE  \A j \in 1..(k + 1) : queue'[i] # q[j]
        BY <2>2
      <4>1. i + k + 1 \in DOMAIN q /\ queue'[i] = q[i + k + 1] /\ i \in 1..(Len(q) - k - 1)
        BY <3>i, <3>d
      <4> QED
        BY <4>1, <2>2, <2>4, <3>d
    <3>7. q[k + 1] \notin failed(k)
      BY <2>2, <2>4
    <3>8. \A c \in Range(queue') : c \notin failed(k)
      BY <3>6 DEF Range
    <3>9. /\ outcome' = [c \in Calls |-> IF c \in failed(k) THEN "sendFailed" ELSE told[c]]
          /\ outcome' \in [Calls -> Outcomes]
      BY <2>1, <2>2 DEF Outcomes, Settled
    <3>10. \A c \in Calls : outcome'[c] = "waiting" <=> c \in pending' \cup Range(queue')
      BY <2>2, <3>2, <3>4, <3>7, <3>8, <3>9
    <3>11. Tidy(queue', pending', inFlight', outcome')
      BY <3>1, <3>2, <3>3, <3>5, <3>6, <3>9, <3>10 DEF Tidy
    <3>12. Frame("call", q[k + 1]) \in OwnFrames
      BY <3>1 DEF Frame, OwnFrames
    <3>13. /\ sent' \in Seq(OwnFrames)
           /\ \A g : g \in Range(sent') => g \in Range(sent) \/ g = Frame("call", q[k + 1])
      BY <3>2, <3>12, WrittenFrames
    <3>14. \A c \in Calls : c \in failed(k) => told[c] = "waiting" /\ c \in Range(q)
      BY <3>4, <2>2
    <3> QED
      BY <1>2, <2>2, <3>2, <3>9, <3>11, <3>13, <3>14 DEF Settled
  <2> QED
    BY <2>2, <2>3, <2>4
<1> QED
  BY <1>1, <1>2

-----------------------------------------------------------------------------

\* settle() keeps the invariant's conjuncts about the queue, whatever id it is
\* given: an answer, a repeated answer, or a timer that runs out.
LEMMA SettleKeeps ==
  ASSUME IInv, NEW id, NEW how \in {"result", "error", "timedOut"}, Settle(id, how)
  PROVE  /\ Tidy(queue', pending', inFlight', outcome')
         /\ NeverIdleWithWork'
         /\ closed => queue' = <<>> /\ pending' = {}
         /\ sent' \in Seq(OwnFrames)
         /\ SentIsAccounted'
<1>1. CASE id \notin pending
  <2>1. UNCHANGED <<ownVars, sent>>
    BY <1>1 DEF Settle
  <2> QED
    BY <2>1 DEF ownVars, IInv, TypeOK, NeverIdleWithWork, ClosedIsEmpty, SentIsAccounted, IsSent
<1>2. CASE id \in pending
  <2> DEFINE told == [outcome EXCEPT ![id] = how]
             pend == pending \ {id}
             busy == FALSE
  <2>1. Pump(queue, pend, busy, told)
    BY <1>2 DEF Settle
  <2>2. /\ pend = {} /\ ~busy /\ id \in Calls /\ id \notin Range(queue)
        /\ \A c \in pending : c = id
    BY <1>2 DEF IInv, Tidy, Range
  <2>3. Tidy(queue, pend, busy, told)
    BY <2>2 DEF IInv, Tidy, Outcomes, Settled
  <2>4. TypeOK /\ (closed => queue = <<>> /\ pend = {})
    BY <2>2 DEF IInv, ClosedIsEmpty
  <2> HIDE DEF told, pend, busy
  <2>5. /\ Tidy(queue', pending', inFlight', outcome')
        /\ queue' # <<>> => inFlight'
        /\ closed => queue' = <<>> /\ pending' = {}
        /\ sent' \in Seq(OwnFrames)
        /\ \A c \in Calls : told[c] \in Settled => outcome'[c] = told[c]
        /\ \A g : g \in Range(sent') =>
             g \in Range(sent) \/ \E c \in pending' : g = Frame("call", c)
    BY <2>1, <2>3, <2>4, PumpKeepsTidy
  <2>6. \A c \in Calls : IsSent(c) => told[c] \in Settled
    <3>1. \A c \in Calls : IsSent(c) => c \in {id} \/ outcome[c] \in Settled
      BY <2>2 DEF IInv, SentIsAccounted
    <3> QED
      BY <3>1, <2>2 DEF told, Settled, IInv, TypeOK
  <2>7. \A c \in Calls : IsSent(c)' => IsSent(c) \/ c \in pending'
    BY <2>5 DEF IsSent, Frame
  <2> QED
    BY <2>5, <2>6, <2>7 DEF NeverIdleWithWork, SentIsAccounted
<1> QED
  BY <1>1, <1>2

\* The empty queue, frame list and inbox are well typed.
LEMMA EmptySequences ==
  \A S : <<>> \in Seq(S) /\ Len(<<>>) = 0
  OBVIOUS

\* A new OcppRpc is tidy: nothing asked for, nothing sent.
LEMMA InitIInv == Init => IInv
<1> SUFFICES ASSUME Init
             PROVE  IInv
  OBVIOUS
<1>1. /\ Range(queue) = {} /\ Range(sent) = {} /\ DOMAIN queue = {}
      /\ \A c \in Calls : outcome[c] = "unasked"
  BY DEF Init, Range
<1>2. TypeOK
  <2>1. queue \in Seq(Calls) /\ sent \in Seq(OwnFrames) /\ inbox \in Seq(PeerFrames)
    BY EmptySequences DEF Init
  <2>2. outcome \in [Calls -> Outcomes]
    BY DEF Init, Outcomes
  <2> QED
    BY <2>1, <2>2 DEF Init, TypeOK
<1>3. Tidy(queue, pending, inFlight, outcome)
  BY <1>1, <1>2 DEF Init, Tidy, TypeOK
<1> QED
  BY <1>1, <1>2, <1>3 DEF Init, IInv, NeverIdleWithWork, ClosedIsEmpty, SentIsAccounted, IsSent

\* Every method of OcppRpc, every timer and every step of the other end keeps
\* the invariant.
LEMMA NextIInv == IInv /\ [Next]_vars => IInv'
<1> SUFFICES ASSUME IInv, [Next]_vars
             PROVE  IInv'
  OBVIOUS
<1> USE DEF IInv
<1>1. ASSUME NEW c \in Calls, Call(c)
      PROVE  IInv'
  <2>1. CASE closed
    <3>1. outcome' = [outcome EXCEPT ![c] = "refused"] /\ outcome[c] = "unasked"
      BY <1>1, <2>1 DEF Call
    <3>2. UNCHANGED <<queue, pending, inFlight, sent, closed, up, inbox, peerSaid, handling>>
      BY <1>1, <2>1 DEF Call
    <3> QED
      BY <3>1, <3>2 DEF TypeOK, Tidy, NeverIdleWithWork, ClosedIsEmpty, SentIsAccounted,
                        IsSent, Outcomes, Settled
  <2>2. CASE ~closed
    <3> DEFINE q == Append(queue, c)
               told == [outcome EXCEPT ![c] = "waiting"]
    <3>1. Pump(q, pending, inFlight, told) /\ outcome[c] = "unasked"
      BY <1>1, <2>2 DEF Call
    <3>2. UNCHANGED <<closed, up, inbox, peerSaid, handling>>
      BY <1>1 DEF Call
    <3>3. c \notin pending /\ c \notin Range(queue)
      BY <3>1 DEF Tidy
    <3>4. /\ q \in Seq(Calls) /\ Len(q) = Len(queue) + 1 /\ Len(queue) \in Nat
          /\ DOMAIN q = 1..(Len(queue) + 1) /\ DOMAIN queue = 1..Len(queue)
          /\ q[Len(queue) + 1] = c
          /\ \A i \in DOMAIN queue : q[i] = queue[i]
      BY DEF TypeOK
    <3>5. \A d : d \in Range(q) <=> d \in Range(queue) \/ d = c
      <4> HIDE DEF q
      <4>1. \A i \in DOMAIN q : i \in DOMAIN queue \/ i = Len(queue) + 1
        BY <3>4
      <4>2. DOMAIN queue \subseteq DOMAIN q /\ Len(queue) + 1 \in DOMAIN q
        BY <3>4
      <4> QED
        BY <4>1, <4>2, <3>4 DEF Range
    <3>6. Tidy(q, pending, inFlight, told)
      <4> HIDE DEF q
      <4>1. \A i, j \in DOMAIN q : q[i] = q[j] => i = j
        BY <3>3, <3>4 DEF Tidy, Range
      <4>2. \A i \in DOMAIN q : q[i] \notin pending
        BY <3>3, <3>4 DEF Tidy
      <4>3. told \in [Calls -> Outcomes]
        BY DEF TypeOK, Outcomes
      <4>4. \A d \in Calls : told[d] = "waiting" <=> d \in pending \cup Range(q)
        BY <3>5 DEF Tidy
      <4> QED
        BY <4>1, <4>2, <4>3, <4>4, <3>4 DEF Tidy
    <3> HIDE DEF q, told
    <3>7. /\ Tidy(queue', pending', inFlight', outcome')
          /\ queue' # <<>> => inFlight'
          /\ sent' \in Seq(OwnFrames)
          /\ \A d \in Calls : told[d] \in Settled => outcome'[d] = told[d]
          /\ \A d \in Calls : d \in pending => d \in pending'
          /\ \A g : g \in Range(sent') =>
               g \in Range(sent) \/ \E d \in pending' : g = Frame("call", d)
      BY <3>1, <3>6, <2>2, PumpKeepsTidy
    <3>8. \A d \in Calls : IsSent(d)' => IsSent(d) \/ d \in pending'
      BY <3>7 DEF IsSent, Frame
    <3>9. \A d \in Calls : outcome[d] \in Settled => told[d] \in Settled
      BY <3>1 DEF told, Settled, TypeOK
    <3>10. SentIsAccounted'
      BY <3>7, <3>8, <3>9 DEF SentIsAccounted
    <3>11. TypeOK'
      BY <3>2, <3>7 DEF TypeOK, Tidy
    <3> QED
      BY <2>2, <3>2, <3>7, <3>10, <3>11 DEF NeverIdleWithWork, ClosedIsEmpty
  <2> QED
    BY <2>1, <2>2
<1>2. ASSUME NEW c \in Calls, Timeout(c)
      PROVE  IInv'
  <2>1. Settle(c, "timedOut") /\ UNCHANGED <<closed, up, inbox, peerSaid, handling>>
    BY <1>2 DEF Timeout
  <2>2. /\ Tidy(queue', pending', inFlight', outcome') /\ NeverIdleWithWork'
        /\ closed => queue' = <<>> /\ pending' = {}
        /\ sent' \in Seq(OwnFrames) /\ SentIsAccounted'
    BY <2>1, SettleKeeps
  <2> QED
    BY <2>1, <2>2 DEF TypeOK, Tidy, ClosedIsEmpty
<1>3. CASE Receive
  <2> DEFINE f == Head(inbox)
  <2>1. inbox # <<>> /\ inbox' = Tail(inbox) /\ UNCHANGED <<up, peerSaid>>
    BY <1>3 DEF Receive
  <2>2. inbox' \in Seq(PeerFrames) /\ f \in PeerFrames
    BY <2>1 DEF TypeOK
  <2>3. CASE ReceiveAnswer(f)
    <3>1. f.kind \in {"result", "error"} /\ Settle(f.id, f.kind) /\ UNCHANGED <<closed, handling>>
      BY <2>3 DEF ReceiveAnswer
    <3>2. /\ Tidy(queue', pending', inFlight', outcome') /\ NeverIdleWithWork'
          /\ closed => queue' = <<>> /\ pending' = {}
          /\ sent' \in Seq(OwnFrames) /\ SentIsAccounted'
      BY <3>1, SettleKeeps
    <3> QED
      BY <2>1, <2>2, <3>1, <3>2 DEF TypeOK, Tidy, ClosedIsEmpty
  <2>4. CASE ReceiveCall(f)
    <3>1. f.id \in PeerCalls
      BY <2>2, <2>4 DEF ReceiveCall, PeerFrames, NotOcpp, Frame
    <3> QED
      BY <2>1, <2>2, <2>4, <3>1 DEF ReceiveCall, ownVars, TypeOK, Tidy, NeverIdleWithWork,
                                    ClosedIsEmpty, SentIsAccounted, IsSent
  <2>5. CASE DropMalformed(f)
    BY <2>1, <2>2, <2>5 DEF DropMalformed, ownVars, TypeOK, Tidy, NeverIdleWithWork,
                            ClosedIsEmpty, SentIsAccounted, IsSent
  <2> QED
    BY <1>3, <2>3, <2>4, <2>5 DEF Receive
<1>4. ASSUME NEW p \in PeerCalls, NEW kind \in {"result", "error"}, HandlerEnds(p, kind)
      PROVE  IInv'
  <2>1. Frame(kind, p) \in OwnFrames
    BY DEF Frame, OwnFrames
  <2>2. /\ sent' \in Seq(OwnFrames)
        /\ \A g : g \in Range(sent') => g \in Range(sent) \/ g = Frame(kind, p)
    BY <1>4, <2>1, WrittenFrames DEF HandlerEnds
  <2>3. \A c \in Calls : IsSent(c)' => IsSent(c)
    BY <2>2 DEF IsSent, Frame
  <2>4. UNCHANGED <<ownVars, up, inbox, peerSaid>> /\ handling' \subseteq handling
    BY <1>4 DEF HandlerEnds
  <2> QED
    BY <2>2, <2>3, <2>4 DEF ownVars, TypeOK, Tidy, NeverIdleWithWork, ClosedIsEmpty, SentIsAccounted
<1>5. CASE Close
  <2>1. /\ queue' = <<>> /\ pending' = {} /\ inFlight' = FALSE /\ closed' = TRUE /\ up' = FALSE
        /\ outcome' = [c \in Calls |->
                         IF c \in pending \cup Range(queue) THEN "closed" ELSE outcome[c]]
        /\ UNCHANGED <<sent, inbox, peerSaid, handling>>
    BY <1>5 DEF Close
  <2>2. Range(queue') = {} /\ DOMAIN queue' = {} /\ queue' \in Seq(Calls)
    BY <2>1 DEF Range
  <2>3. outcome' \in [Calls -> Outcomes]
    BY <2>1 DEF TypeOK, Outcomes, Settled
  <2>4. \A c \in Calls : outcome'[c] # "waiting"
    BY <2>1 DEF Tidy
  <2>5. SentIsAccounted'
    BY <2>1 DEF SentIsAccounted, IsSent, Settled
  <2>6. TypeOK'
    BY <2>1, <2>2, <2>3 DEF TypeOK
  <2>7. Tidy(queue', pending', inFlight', outcome')
    BY <2>1, <2>2, <2>3, <2>4 DEF Tidy
  <2> QED
    BY <2>1, <2>5, <2>6, <2>7 DEF NeverIdleWithWork, ClosedIsEmpty
<1>6. ASSUME NEW f \in PeerFrames, PeerSends(f)
      PROVE  IInv'
  BY <1>6 DEF PeerSends, ownVars, TypeOK, Tidy, NeverIdleWithWork, ClosedIsEmpty,
              SentIsAccounted, IsSent
<1>7. CASE SocketBreaks
  BY <1>7, EmptySequences DEF SocketBreaks, ownVars, TypeOK, Tidy, NeverIdleWithWork, ClosedIsEmpty,
              SentIsAccounted, IsSent
<1>8. CASE UNCHANGED vars
  BY <1>8 DEF vars, TypeOK, Tidy, NeverIdleWithWork, ClosedIsEmpty, SentIsAccounted, IsSent
<1> HIDE DEF IInv
<1> QED
  BY <1>1, <1>2, <1>3, <1>4, <1>5, <1>6, <1>7, <1>8 DEF Next

-----------------------------------------------------------------------------
(* Answers, on top of that invariant. *)

\* What is on its way to this end was said by the other end.
AnswersAreSaid == AnswersAreOwn /\ Range(inbox) \subseteq peerSaid

\* pump() tells callers nothing but that their write has failed.
LEMMA PumpTells ==
  ASSUME NEW q, NEW pend, NEW busy, NEW told \in [Calls -> Outcomes], Pump(q, pend, busy, told)
  PROVE  \A c \in Calls : outcome'[c] \in {told[c], "sendFailed"}
<1>1. \/ outcome' = told
      \/ \E k \in 0..Len(q) :
           outcome' = [c \in Calls |-> IF c \in {q[i] : i \in 1..k} THEN "sendFailed" ELSE told[c]]
  BY DEF Pump
<1> QED
  BY <1>1

\* settle() tells its news to the call it is about.
LEMMA SettleTells ==
  ASSUME TypeOK, NEW id, NEW how \in {"result", "error", "timedOut"}, Settle(id, how)
  PROVE  \A c \in Calls : \/ outcome'[c] \in {outcome[c], "sendFailed"}
                          \/ c = id /\ outcome'[c] = how
<1>1. CASE id \notin pending
  BY <1>1 DEF Settle, ownVars
<1>2. CASE id \in pending
  <2> DEFINE told == [outcome EXCEPT ![id] = how]
             pend == pending \ {id}
             busy == FALSE
  <2>1. Pump(queue, pend, busy, told)
    BY <1>2 DEF Settle
  <2>2. told \in [Calls -> Outcomes] /\ \A c \in Calls : told[c] = IF c = id THEN how ELSE outcome[c]
    BY <1>2 DEF TypeOK, Outcomes, Settled
  <2> HIDE DEF told, pend, busy
  <2> QED
    BY <2>1, <2>2, PumpTells
<1> QED
  BY <1>1, <1>2

\* Frames are taken from the inbox at one end and added at the other.
LEMMA InboxFrames ==
  ASSUME TypeOK
  PROVE  /\ inbox # <<>> => Head(inbox) \in Range(inbox) /\ Range(Tail(inbox)) \subseteq Range(inbox)
         /\ \A f \in PeerFrames : Range(Append(inbox, f)) = Range(inbox) \cup {f}
<1>1. inbox \in Seq(PeerFrames)
  BY DEF TypeOK
<1>2. ASSUME inbox # <<>>
      PROVE  Head(inbox) \in Range(inbox) /\ Range(Tail(inbox)) \subseteq Range(inbox)
  <2>1. /\ 1 \in DOMAIN inbox /\ Head(inbox) = inbox[1]
        /\ \A i \in DOMAIN Tail(inbox) : i + 1 \in DOMAIN inbox /\ Tail(inbox)[i] = inbox[i + 1]
    BY <1>1, <1>2
  <2> QED
    BY <2>1 DEF Range
<1>3. ASSUME NEW f \in PeerFrames
      PROVE  Range(Append(inbox, f)) = Range(inbox) \cup {f}
  <2>1. /\ DOMAIN Append(inbox, f) = DOMAIN inbox \cup {Len(inbox) + 1}
        /\ Append(inbox, f)[Len(inbox) + 1] = f
        /\ \A i \in DOMAIN inbox : Append(inbox, f)[i] = inbox[i]
    BY <1>1
  <2> QED
    BY <2>1 DEF Range
<1> QED
  BY <1>2, <1>3

\* No step hands a caller an answer that the other end did not give it.
LEMMA NextAnswers == IInv /\ AnswersAreSaid /\ [Next]_vars => AnswersAreSaid'
<1> SUFFICES ASSUME IInv, AnswersAreSaid, [Next]_vars
             PROVE  AnswersAreSaid'
  OBVIOUS
<1> USE DEF IInv
<1>1. ASSUME NEW c \in Calls, Call(c)
      PROVE  AnswersAreSaid'
  <2> DEFINE told == [outcome EXCEPT ![c] = "waiting"]
  <2>1. \/ outcome' = [outcome EXCEPT ![c] = "refused"]
        \/ Pump(Append(queue, c), pending, inFlight, told)
    BY <1>1 DEF Call
  <2>2. told \in [Calls -> Outcomes] /\ \A d \in Calls : told[d] \in {outcome[d], "waiting"}
    BY DEF TypeOK, Outcomes
  <2>3. \A d \in Calls : outcome'[d] \in {outcome[d], "refused", "waiting", "sendFailed"}
    <3> HIDE DEF told
    <3>1. CASE outcome' = [outcome EXCEPT ![c] = "refused"]
      BY <3>1 DEF TypeOK
    <3>2. CASE Pump(Append(queue, c), pending, inFlight, told)
      BY <2>2, <3>2, PumpTells
    <3> QED
      BY <2>1, <3>1, <3>2
  <2> QED
    BY <1>1, <2>3 DEF Call, AnswersAreSaid, AnswersAreOwn
<1>2. ASSUME NEW c \in Calls, Timeout(c)
      PROVE  AnswersAreSaid'
  <2>1. \A d \in Calls : outcome'[d] \in {outcome[d], "sendFailed", "timedOut"}
    BY <1>2, SettleTells DEF Timeout
  <2> QED
    BY <1>2, <2>1 DEF Timeout, AnswersAreSaid, AnswersAreOwn
<1>3. CASE Receive
  <2> DEFINE f == Head(inbox)
  <2>1. inbox # <<>> /\ inbox' = Tail(inbox) /\ UNCHANGED peerSaid
    BY <1>3 DEF Receive
  <2>2. f \in peerSaid /\ Range(inbox') \subseteq peerSaid
    BY <2>1, InboxFrames DEF AnswersAreSaid
  <2>3. ReceiveAnswer(f) \/ UNCHANGED outcome
    BY <1>3 DEF Receive, ReceiveCall, DropMalformed, ownVars
  <2>4. \A c \in Calls : \/ outcome'[c] \in {outcome[c], "sendFailed"}
                         \/ f.kind \in {"result", "error"} /\ c = f.id /\ outcome'[c] = f.kind
    BY <2>3, SettleTells DEF ReceiveAnswer
  <2>5. \A c \in Calls : f.kind \in {"result", "error"} /\ c = f.id => f = Frame(f.kind, c)
    <3>1. f \in PeerFrames
      BY <2>1 DEF TypeOK
    <3> HIDE DEF f
    <3> QED
      BY <3>1 DEF PeerFrames, NotOcpp, Frame
  <2> HIDE DEF f
  <2> QED
    BY <2>1, <2>2, <2>4, <2>5 DEF AnswersAreSaid, AnswersAreOwn
<1>4. ASSUME NEW p \in PeerCalls, NEW kind, HandlerEnds(p, kind)
      PROVE  AnswersAreSaid'
  BY <1>4 DEF HandlerEnds, ownVars, AnswersAreSaid, AnswersAreOwn
<1>5. CASE Close
  BY <1>5 DEF Close, AnswersAreSaid, AnswersAreOwn
<1>6. ASSUME NEW f \in PeerFrames, PeerSends(f)
      PROVE  AnswersAreSaid'
  <2>1. Range(inbox') = Range(inbox) \cup {f}
    BY <1>6, InboxFrames DEF PeerSends
  <2> QED
    BY <1>6, <2>1 DEF PeerSends, ownVars, AnswersAreSaid, AnswersAreOwn
<1>7. CASE SocketBreaks
  <2>1. Range(inbox') = {}
    BY <1>7 DEF SocketBreaks, Range
  <2> QED
    BY <1>7, <2>1 DEF SocketBreaks, ownVars, AnswersAreSaid, AnswersAreOwn
<1>8. CASE UNCHANGED vars
  BY <1>8 DEF vars, AnswersAreSaid, AnswersAreOwn
<1> HIDE DEF IInv
<1> QED
  BY <1>1, <1>2, <1>3, <1>4, <1>5, <1>6, <1>7, <1>8 DEF Next

-----------------------------------------------------------------------------

\* The inductive invariant: between any two events of the process the queue, the
\* map, the flag and what the callers were told agree, no call waits while none
\* is in flight, and a CALL on the wire is in the map or settled.
THEOREM InductiveInvariant == Spec => []IInv
  BY InitIInv, NextIInv, PTL DEF Spec

\* The state of the queue is always well formed (OcppRpc's fields).
THEOREM TypeCorrect == Spec => []TypeOK
<1>1. IInv => TypeOK
  BY DEF IInv
<1> QED
  BY <1>1, InductiveInvariant, PTL

\* A caller is waiting exactly as long as its call is in the map or the queue.
THEOREM NoCallIsForgotten == Spec => []NoCallForgotten
<1>1. IInv => NoCallForgotten
  BY DEF IInv, Tidy, NoCallForgotten
<1> QED
  BY <1>1, InductiveInvariant, PTL

\* The in-flight flag tells the truth about the map, which holds at most one.
THEOREM InFlightIsTrue == Spec => []InFlightIsPending
<1>1. IInv => InFlightIsPending
  BY DEF IInv, Tidy, InFlightIsPending
<1> QED
  BY <1>1, InductiveInvariant, PTL

\* The queue never stalls: a queued call always has one in flight before it.
THEOREM QueueNeverStalls == Spec => []NeverIdleWithWork
<1>1. IInv => NeverIdleWithWork
  BY DEF IInv
<1> QED
  BY <1>1, InductiveInvariant, PTL

\* Two CALLs are never unsettled on the wire at once, whatever is late or lost.
THEOREM OneCallOnTheWire == Spec => []OneOnTheWire
<1>1. IInv => OneOnTheWire
  BY DEF IInv, Tidy, SentIsAccounted, OneOnTheWire
<1> QED
  BY <1>1, InductiveInvariant, PTL

\* An answer that comes late settles nobody else's call.
THEOREM AnswersSettleTheirCall == Spec => []AnswersAreOwn
<1>1. Init => AnswersAreSaid
  BY DEF Init, AnswersAreSaid, AnswersAreOwn, Range
<1>2. AnswersAreSaid => AnswersAreOwn
  BY DEF AnswersAreSaid
<1> QED
  BY <1>1, <1>2, NextAnswers, InductiveInvariant, PTL DEF Spec

-----------------------------------------------------------------------------
(* OcppRpc implements CallLine: the call in the map stands first in line,   *)
(* those in the queue behind it.                                            *)

\* The line as callers see it.
Standing == SetToSeq(pending) \o queue

\* No call or one, as a sequence.
LEMMA FirstInLine ==
  /\ SetToSeq({}) = <<>>
  /\ \A c : SetToSeq({c}) = <<c>>
<1>1. SetToSeq({}) = <<>>
  <2>1. Cardinality({}) = 0 /\ 1..0 = {}
    BY FS_EmptySet
  <2>2. SetToSeq({}) = CHOOSE f \in [{} -> {}] : IsInjective(f)
    BY <2>1 DEF SetToSeq
  <2>3. <<>> \in [{} -> {}] /\ IsInjective(<<>>)
    BY DEF IsInjective
  <2>4. SetToSeq({}) \in [{} -> {}]
    BY <2>2, <2>3
  <2> QED
    BY <2>4
<1>2. ASSUME NEW c
      PROVE  SetToSeq({c}) = <<c>>
  <2>1. Cardinality({c}) = 1 /\ 1..1 = {1}
    <3>1. Cardinality({c}) = 1
      BY FS_Singleton, Zenon
    <3> QED
      BY <3>1
  <2>2. SetToSeq({c}) = CHOOSE f \in [{1} -> {c}] : IsInjective(f)
    BY <2>1 DEF SetToSeq
  <2>3. <<c>> \in [{1} -> {c}] /\ IsInjective(<<c>>)
    BY DEF IsInjective
  <2>4. SetToSeq({c}) \in [{1} -> {c}]
    BY <2>2, <2>3
  <2> QED
    BY <2>4
<1> QED
  BY <1>1, <1>2

\* One call before a queue.
LEMMA InFront ==
  ASSUME NEW c \in Calls, NEW q \in Seq(Calls)
  PROVE  /\ <<c>> \o q \in Seq(Calls) /\ <<c>> \o q # <<>> /\ Head(<<c>> \o q) = c
         /\ Len(q) \in Nat /\ Len(<<c>> \o q) = Len(q) + 1
         /\ \A i \in 2..(Len(q) + 1) : (<<c>> \o q)[i] = q[i - 1]
<1>1. <<c>> \in Seq(Calls) /\ Len(<<c>>) = 1 /\ <<c>>[1] = c
  OBVIOUS
<1>2. Len(q) \in Nat
  OBVIOUS
<1>3. /\ <<c>> \o q \in Seq(Calls) /\ Len(<<c>> \o q) = 1 + Len(q)
      /\ \A i \in 1..(1 + Len(q)) : (<<c>> \o q)[i] = IF i <= 1 THEN <<c>>[i] ELSE q[i - 1]
  BY <1>1, ConcatProperties
<1>4. 1 \in 1..(1 + Len(q)) /\ (<<c>> \o q)[1] = c
  BY <1>1, <1>2, <1>3
<1>5. <<c>> \o q # <<>>
  BY <1>2, <1>3, EmptySequences
<1>6. Head(<<c>> \o q) = c
  BY <1>3, <1>4, <1>5, HeadTailProperties
<1>7. \A i \in 2..(Len(q) + 1) : (<<c>> \o q)[i] = q[i - 1]
  BY <1>2, <1>3
<1> QED
  BY <1>2, <1>3, <1>5, <1>6, <1>7

\* The line with nobody in the map, and with somebody.
LEMMA TheLine ==
  ASSUME NEW q \in Seq(Calls)
  PROVE  /\ SetToSeq({}) \o q = q
         /\ \A c \in Calls : SetToSeq({c}) \o q = <<c>> \o q
<1>1. <<>> \o q = q
  BY ConcatEmptySeq
<1> QED
  BY <1>1, FirstInLine

\* What remains of the line when its first leaves, and k more behind it.
LEMMA RestOfLine ==
  ASSUME NEW c \in Calls, NEW q \in Seq(Calls), NEW k \in 0..Len(q)
  PROVE  /\ k = Len(q) => SubSeq(<<c>> \o q, k + 2, Len(<<c>> \o q)) = <<>>
         /\ k < Len(q) => SubSeq(<<c>> \o q, k + 2, Len(<<c>> \o q))
                            = <<q[k + 1]>> \o SubSeq(q, k + 2, Len(q))
<1>1. Len(q) \in Nat /\ Len(<<c>> \o q) = Len(q) + 1 /\ k \in Nat
  BY InFront
<1>2. CASE k = Len(q)
  BY <1>1, <1>2, SubSeqEmpty
<1>3. CASE k < Len(q)
  <2>1. k + 1 \in 1..Len(q) /\ Len(q) \in (k + 1)..Len(q)
    BY <1>1, <1>3
  <2>2. SubSeq(q, k + 1, Len(q)) = <<q[k + 1]>> \o SubSeq(q, k + 2, Len(q))
    <3>1. (k + 1) + 1 = k + 2
      BY <1>1
    <3> QED
      BY <2>1, <3>1, SubSeqRecursiveFirst
  <2>3. SubSeq(<<c>> \o q, k + 2, Len(q) + 1) = SubSeq(q, k + 1, Len(q))
    <3>1. <<c>> \in Seq(Calls) /\ Len(<<c>>) = 1
      OBVIOUS
    <3>2. k + 2 \in 2..(1 + Len(q)) /\ Len(q) + 1 \in 2..(1 + Len(q))
      BY <1>1, <1>3
    <3>3. (k + 2) - 1 = k + 1 /\ (Len(q) + 1) - 1 = Len(q) /\ 1 + 1 = 2
      BY <1>1
    <3>4. SubSeq(<<c>> \o q, k + 2, Len(q) + 1) = SubSeq(q, (k + 2) - 1, (Len(q) + 1) - 1)
      BY <3>1, <3>2, <3>3, SubSeqOfConcat2
    <3> QED
      BY <3>3, <3>4
  <2> QED
    BY <1>1, <1>3, <2>2, <2>3
<1> QED
  BY <1>1, <1>2, <1>3

\* pump() with nothing in flight: the first k of the queue fail, and the next,
\* if there is one, is now first in line.
LEMMA PumpMoves ==
  ASSUME NEW q \in Seq(Calls), NEW told, ~closed, Pump(q, {}, FALSE, told)
  PROVE  \E k \in 0..Len(q) :
           /\ Standing' = IF k < Len(q) THEN <<q[k + 1]>> \o SubSeq(q, k + 2, Len(q)) ELSE <<>>
           /\ outcome' = [c \in Calls |-> IF \E i \in 1..k : q[i] = c THEN "sendFailed" ELSE told[c]]
<1> DEFINE next(k) == {q[i] : i \in {k + 1} \cap DOMAIN q}
           failed(k) == {q[i] : i \in 1..k}
<1>1. PICK k \in 0..Len(q) :
        /\ queue' = SubSeq(q, k + 2, Len(q))
        /\ pending' = {} \cup next(k)
        /\ outcome' = [c \in Calls |-> IF c \in failed(k) THEN "sendFailed" ELSE told[c]]
  BY DEF Pump
<1>2. Len(q) \in Nat /\ DOMAIN q = 1..Len(q)
  OBVIOUS
<1>3. queue' \in Seq(Calls)
  BY <1>1, TailOfQueue
<1>4. ASSUME k < Len(q)
      PROVE  Standing' = <<q[k + 1]>> \o SubSeq(q, k + 2, Len(q))
  <2>1. k + 1 \in DOMAIN q
    BY <1>2, <1>4
  <2>2. next(k) = {q[k + 1]} /\ q[k + 1] \in Calls
    BY <2>1
  <2>3. Standing' = SetToSeq({q[k + 1]}) \o queue'
    BY <1>1, <2>2 DEF Standing
  <2> QED
    BY <1>1, <1>3, <1>4, <2>2, <2>3, TheLine
<1>5. ASSUME k = Len(q)
      PROVE  Standing' = <<>>
  <2>1. k + 1 \notin DOMAIN q
    BY <1>2, <1>5
  <2>2. next(k) = {}
    BY <2>1
  <2>3. queue' = <<>>
    BY <1>1, <1>5, TailOfQueue
  <2>4. Standing' = SetToSeq({}) \o <<>>
    BY <1>1, <2>2, <2>3 DEF Standing
  <2>5. Standing' = <<>>
    BY <2>4, <1>3, <2>3, TheLine
  <2> QED
    BY <2>5
<1>6. outcome' = [c \in Calls |-> IF \E i \in 1..k : q[i] = c THEN "sendFailed" ELSE told[c]]
  BY <1>1
<1>7. Standing' = IF k < Len(q) THEN <<q[k + 1]>> \o SubSeq(q, k + 2, Len(q)) ELSE <<>>
  <2>1. k < Len(q) \/ k = Len(q)
    <3>1. \A n \in Nat : \A i \in 0..n : i < n \/ i = n
      OBVIOUS
    <3> QED
      BY <1>2, <3>1
  <2>2. k = Len(q) => ~(k < Len(q))
    BY <1>2
  <2> QED
    BY <1>4, <1>5, <2>1, <2>2, Zenon
<1> QED
  BY <1>6, <1>7

\* An answer or a timeout of the call in flight: the line moves up.
LEMMA SettleMovesTheLine ==
  ASSUME IInv, NEW id, NEW how \in {"result", "error", "timedOut"}, Settle(id, how),
         UNCHANGED closed
  PROVE  Line!LeaveSome \/ UNCHANGED Line!vars
<1>1. CASE id \notin pending
  BY <1>1 DEF Settle, ownVars, Line!vars
<1>2. CASE id \in pending
  <2> DEFINE told == [outcome EXCEPT ![id] = how]
  <2>1. pending = {id} /\ id \in Calls /\ ~closed /\ queue \in Seq(Calls)
    BY <1>2 DEF IInv, Tidy, ClosedIsEmpty
  <2>2. Standing = <<id>> \o queue
    BY <2>1, TheLine DEF Standing
  <2>3. Pump(queue, {}, FALSE, told)
    <3>1. pending \ {id} = {}
      BY <2>1
    <3> QED
      BY <1>2, <3>1 DEF Settle
  <2>4. \A c \in Calls : told[c] = IF c = id THEN how ELSE outcome[c]
    BY DEF IInv, TypeOK
  <2> HIDE DEF told
  <2>5. PICK k \in 0..Len(queue) :
          /\ Standing' = IF k < Len(queue) THEN <<queue[k + 1]>> \o SubSeq(queue, k + 2, Len(queue)) ELSE <<>>
          /\ outcome' = [c \in Calls |-> IF \E i \in 1..k : queue[i] = c THEN "sendFailed" ELSE told[c]]
    BY <2>1, <2>3, PumpMoves
  <2>6. /\ Len(queue) \in Nat /\ Len(Standing) = Len(queue) + 1 /\ Head(Standing) = id
        /\ \A i \in 2..(Len(queue) + 1) : Standing[i] = queue[i - 1]
    BY <2>1, <2>2, InFront
  <2>7. k + 1 \in 1..Len(Standing) /\ (k + 1) + 1 = k + 2
    BY <2>6
  <2>8. Standing' = SubSeq(Standing, (k + 1) + 1, Len(Standing))
    BY <2>1, <2>2, <2>5, <2>6, <2>7, RestOfLine
  <2>9. \A c \in Calls : (\E i \in 1..k : queue[i] = c) <=> (\E i \in 2..(k + 1) : Standing[i] = c)
    <3>1. \A i \in 1..k : i + 1 \in 2..(k + 1) /\ Standing[i + 1] = queue[i]
      BY <2>6
    <3>2. \A i \in 2..(k + 1) : i - 1 \in 1..k /\ Standing[i] = queue[i - 1]
      BY <2>6
    <3> QED
      BY <3>1, <3>2
  <2>10. \A i \in 1..k : queue[i] # id
    <3>1. \A i \in 1..k : i \in DOMAIN queue
      BY <2>1
    <3> QED
      BY <1>2, <3>1 DEF IInv, Tidy
  <2>11. outcome' = [c \in Calls |-> IF c = Head(Standing) THEN how
                                    ELSE IF \E i \in 2..(k + 1) : Standing[i] = c THEN "sendFailed"
                                    ELSE outcome[c]]
    <3>1. \A c \in Calls : outcome'[c] = IF c = Head(Standing) THEN how
                                    ELSE IF \E i \in 2..(k + 1) : Standing[i] = c THEN "sendFailed"
                                    ELSE outcome[c]
      BY <2>4, <2>5, <2>6, <2>9, <2>10
    <3>2. outcome' = [c \in Calls |-> outcome'[c]]
      BY <2>5
    <3> QED
      BY <3>1, <3>2
  <2>12. Line!Leave(k + 1)
    BY <2>8, <2>11 DEF Line!Leave, Standing
  <2> QED
    BY <2>7, <2>12 DEF Line!LeaveSome, Standing
<1> QED
  BY <1>1, <1>2

\* A call that is asked for joins the line, or is turned away.
LEMMA CallJoinsTheLine ==
  ASSUME IInv, NEW c \in Calls, Call(c)
  PROVE  Line!Join(c) \/ Line!TurnAway(c)
<1> DEFINE told == [outcome EXCEPT ![c] = "waiting"]
           q == Append(queue, c)
<1>0. /\ outcome[c] = "unasked" /\ closed' = closed /\ queue \in Seq(Calls)
      /\ outcome = [d \in Calls |-> outcome[d]]
  BY DEF Call, IInv, TypeOK
<1>1. CASE closed
  BY <1>0, <1>1 DEF Call, Line!TurnAway
<1>2. CASE ~closed /\ inFlight
  <2>1. queue' = q /\ pending' = pending /\ outcome' = told
    BY <1>2 DEF Call, Pump
  <2>2. PICK d \in Calls : pending = {d}
    BY <1>2 DEF IInv, Tidy
  <2>3. SetToSeq(pending) \in Seq(Calls)
    <3>1. SetToSeq(pending) = <<d>>
      BY <2>2, FirstInLine, Zenon
    <3>2. <<d>> \in Seq(Calls)
      OBVIOUS
    <3> QED
      BY <3>1, <3>2
  <2>4. SetToSeq(pending) \o Append(queue, c) = Append(SetToSeq(pending) \o queue, c)
    <3>1. <<c>> \in Seq(Calls) /\ Append(queue, c) = queue \o <<c>>
      BY <1>0
    <3>2. SetToSeq(pending) \o queue \in Seq(Calls)
      BY <1>0, <2>3, ConcatProperties
    <3>3. Append(SetToSeq(pending) \o queue, c) = (SetToSeq(pending) \o queue) \o <<c>>
      BY <3>2
    <3> QED
      BY <1>0, <2>3, <3>1, <3>3, ConcatAssociative
  <2> QED
    BY <1>0, <1>2, <2>1, <2>4 DEF Line!Join
<1>3. CASE ~closed /\ ~inFlight
  <2>1. pending = {} /\ queue = <<>>
    BY <1>3 DEF IInv, Tidy, NeverIdleWithWork
  <2>2. q = <<c>> /\ q \in Seq(Calls) /\ Len(q) = 1 /\ q[1] = c
    BY <2>1
  <2>3. Standing = <<>>
    BY <1>0, <2>1, TheLine DEF Standing
  <2>4. Pump(q, {}, FALSE, told)
    BY <1>0, <1>3, <2>1 DEF Call, IInv, TypeOK
  <2> HIDE DEF q, told
  <2>5. PICK k \in 0..Len(q) :
          /\ Standing' = IF k < Len(q) THEN <<q[k + 1]>> \o SubSeq(q, k + 2, Len(q)) ELSE <<>>
          /\ outcome' = [d \in Calls |-> IF \E i \in 1..k : q[i] = d THEN "sendFailed" ELSE told[d]]
    BY <1>3, <2>2, <2>4, PumpMoves
  <2>6. \A d \in Calls : told[d] = IF d = c THEN "waiting" ELSE outcome[d]
    BY <1>0 DEF told
  <2>7. CASE k = 0
    <3>1. Standing' = <<c>>
      <4>1. SubSeq(q, 2, 1) = <<>>
        BY SubSeqEmpty
      <4>2. Standing' = <<q[1]>> \o SubSeq(q, 2, 1)
        BY <2>2, <2>5, <2>7
      <4>3. <<c>> \o <<>> = <<c>>
        BY <2>2, ConcatEmptySeq
      <4> QED
        BY <2>2, <4>1, <4>2, <4>3
    <3>2. outcome' = [outcome EXCEPT ![c] = "waiting"]
      BY <1>0, <2>5, <2>6, <2>7
    <3>3. Standing' = Append(Standing, c)
      BY <2>3, <3>1
    <3> QED
      BY <1>0, <1>3, <3>2, <3>3 DEF Line!Join, Standing
  <2>8. CASE k = 1
    <3>1. Standing' = <<>>
      BY <2>2, <2>5, <2>8
    <3>2. \A d \in Calls : (\E i \in 1..k : q[i] = d) <=> d = c
      BY <2>2, <2>8
    <3>3. outcome' = [outcome EXCEPT ![c] = "sendFailed"]
      BY <1>0, <2>5, <2>6, <3>2
    <3> QED
      BY <1>0, <1>3, <2>3, <3>1, <3>3 DEF Line!TurnAway, Standing
  <2> QED
    BY <2>2, <2>7, <2>8
<1> QED
  BY <1>1, <1>2, <1>3

\* Every step of OcppRpc is one of the line, or does not concern it.
LEMMA NextKeepsThePromise ==
  ASSUME IInv, [Next]_vars
  PROVE  [Line!Next]_(Line!vars)
<1>1. ASSUME NEW c \in Calls, Call(c)
      PROVE  Line!Next
  BY <1>1, CallJoinsTheLine DEF Line!Next
<1>2. ASSUME NEW c \in Calls, Timeout(c)
      PROVE  Line!Next \/ UNCHANGED Line!vars
  BY <1>2, SettleMovesTheLine DEF Timeout, Line!Next
<1>3. CASE Receive
  <2> DEFINE f == Head(inbox)
  <2>1. \/ ReceiveAnswer(f)
        \/ UNCHANGED <<queue, pending, outcome, closed>>
    BY <1>3 DEF Receive, ReceiveCall, DropMalformed, ownVars
  <2> HIDE DEF f
  <2>2. CASE ReceiveAnswer(f)
    BY <2>2, SettleMovesTheLine DEF ReceiveAnswer, Line!Next
  <2> QED
    BY <2>1, <2>2 DEF Line!vars
<1>4. CASE Close
  <2>1. /\ ~closed /\ closed' = TRUE /\ queue' = <<>> /\ pending' = {}
        /\ outcome' = [c \in Calls |->
                         IF c \in pending \cup Range(queue) THEN "closed" ELSE outcome[c]]
    BY <1>4 DEF Close
  <2>2. SetToSeq({}) \o <<>> = <<>>
    BY EmptySequences, TheLine
  <2>3. outcome' = [c \in Calls |-> IF outcome[c] = "waiting" THEN "closed" ELSE outcome[c]]
    BY <2>1 DEF IInv, Tidy
  <2> QED
    BY <2>1, <2>2, <2>3 DEF Line!Next, Line!Shut
<1>5. CASE \/ \E p \in PeerCalls, kind \in {"result", "error"} : HandlerEnds(p, kind)
           \/ \E f \in PeerFrames : PeerSends(f)
           \/ SocketBreaks
           \/ UNCHANGED vars
  BY <1>5 DEF HandlerEnds, PeerSends, SocketBreaks, vars, ownVars, Line!vars
<1> QED
  BY <1>1, <1>2, <1>3, <1>4, <1>5 DEF Next

\* One end of a connection does to its callers only what the line may do: they
\* are served in the order in which they asked, each is told one end and one
\* only, and whoever still stands in line when it is shut is told so.  (That
\* nobody stands there for ever is left to TLC.)
THEOREM KeepsTheLine == Spec => Line!SafeSpec
<1>1. Init => Line!Init
  <2>1. <<>> \in Seq(Calls) /\ SetToSeq({}) \o <<>> = <<>>
    BY EmptySequences, TheLine
  <2> QED
    BY <2>1 DEF Init, Line!Init
<1>2. IInv /\ [Next]_vars => [Line!Next]_(Line!vars)
  BY NextKeepsThePromise
<1> QED
  BY <1>1, <1>2, InductiveInvariant, PTL DEF Spec, Line!SafeSpec

-----------------------------------------------------------------------------

\* Those who wait in a queue, nobody waits twice, and one waits before another.
Waiting(s) == {s[i] : i \in DOMAIN s}
NoneTwice(s) == \A i, j \in DOMAIN s : s[i] = s[j] => i = j
Before(s, r, q) == \E i, j \in DOMAIN s : i < j /\ s[i] = r /\ s[j] = q

\* The one in front leaves a queue.
LEMMA FrontLeaves ==
  ASSUME NEW S, NEW s \in Seq(S), s # <<>>, NoneTwice(s)
  PROVE  /\ Tail(s) \in Seq(S) /\ NoneTwice(Tail(s))
         /\ Head(s) \in S
         /\ Waiting(Tail(s)) = Waiting(s) \ {Head(s)}
         /\ \A p, q : Before(Tail(s), p, q) <=> p # Head(s) /\ q # Head(s) /\ Before(s, p, q)
         /\ \A p : ~Before(s, p, Head(s))
         /\ \A p \in Waiting(s) \ {Head(s)} : Before(s, Head(s), p)
<1> DEFINE t == Tail(s)
<1>1. /\ Len(s) \in Nat /\ Len(s) >= 1 /\ DOMAIN s = 1..Len(s) /\ Head(s) = s[1] /\ s[1] \in S
      /\ t \in Seq(S) /\ Len(t) = Len(s) - 1 /\ DOMAIN t = 1..(Len(s) - 1)
      /\ \A i \in 1..(Len(s) - 1) : t[i] = s[i + 1]
  OBVIOUS
<1> HIDE DEF t
<1>a. ASSUME NEW i \in DOMAIN t
      PROVE  i \in Int /\ i + 1 \in DOMAIN s /\ t[i] = s[i + 1] /\ s[i + 1] # s[1]
  BY <1>1 DEF NoneTwice
<1>2. NoneTwice(t)
  <2> SUFFICES ASSUME NEW i \in DOMAIN t, NEW j \in DOMAIN t, t[i] = t[j] PROVE i = j
    BY DEF NoneTwice
  <2>1. i + 1 = j + 1 BY <1>a DEF NoneTwice
  <2> QED BY <1>a, <2>1
<1>3. ASSUME NEW i \in 2..Len(s)
      PROVE  i \in DOMAIN s /\ i - 1 \in DOMAIN t /\ t[i - 1] = s[i] /\ s[i] # s[1]
  <2>1. i \in DOMAIN s /\ i - 1 \in DOMAIN t /\ (i - 1) + 1 = i BY <1>1
  <2> QED BY <1>a, <2>1
<1>4. Waiting(t) = Waiting(s) \ {s[1]}
  <2>1. ASSUME NEW x \in Waiting(t) PROVE x \in Waiting(s) \ {s[1]}
    BY <1>1, <1>a DEF Waiting
  <2>2. ASSUME NEW x \in Waiting(s) \ {s[1]} PROVE x \in Waiting(t)
    <3>1. PICK i \in DOMAIN s : x = s[i] BY DEF Waiting
    <3>2. i \in 2..Len(s) BY <1>1, <3>1
    <3> QED BY <1>3, <3>1, <3>2 DEF Waiting
  <2> QED BY <2>1, <2>2
<1>5. ASSUME NEW p, NEW q
      PROVE  Before(t, p, q) <=> p # s[1] /\ q # s[1] /\ Before(s, p, q)
  <2>1. ASSUME Before(t, p, q) PROVE p # s[1] /\ q # s[1] /\ Before(s, p, q)
    <3>1. PICK i, j \in DOMAIN t : i < j /\ t[i] = p /\ t[j] = q BY <2>1 DEF Before
    <3>2. i + 1 \in 2..Len(s) /\ j + 1 \in 2..Len(s) /\ i + 1 < j + 1 /\ s[i + 1] = p /\ s[j + 1] = q
      BY <1>1, <3>1
    <3> QED BY <1>1, <1>a, <3>1, <3>2 DEF Before
  <2>2. ASSUME p # s[1], q # s[1], Before(s, p, q) PROVE Before(t, p, q)
    <3>1. PICK i, j \in DOMAIN s : i < j /\ s[i] = p /\ s[j] = q BY <2>2 DEF Before
    <3>2. i \in 2..Len(s) /\ j \in 2..Len(s) /\ i - 1 < j - 1 BY <1>1, <2>2, <3>1
    <3> QED BY <1>3, <3>1, <3>2 DEF Before
  <2> QED BY <2>1, <2>2
<1>6. ASSUME NEW p PROVE ~Before(s, p, s[1])
  BY <1>1 DEF Before, NoneTwice
<1>7. ASSUME NEW p \in Waiting(s) \ {s[1]} PROVE Before(s, s[1], p)
  <2>1. PICK i \in DOMAIN s : p = s[i] BY DEF Waiting
  <2>2. 1 \in DOMAIN s /\ 1 < i BY <1>1, <2>1
  <2> QED BY <2>1, <2>2 DEF Before
<1> QED BY <1>1, <1>2, <1>4, <1>5, <1>6, <1>7 DEF t

\* One who does not wait yet joins a queue.
LEMMA OneJoins ==
  ASSUME NEW S, NEW s \in Seq(S), NoneTwice(s), NEW r \in S, r \notin Waiting(s)
  PROVE  /\ Append(s, r) \in Seq(S) /\ NoneTwice(Append(s, r))
         /\ Waiting(Append(s, r)) = Waiting(s) \cup {r}
         /\ \A p, q : Before(Append(s, r), p, q) <=> Before(s, p, q) \/ (p \in Waiting(s) /\ q = r)
<1> DEFINE t == Append(s, r)
           n == Len(s) + 1
<1>1. /\ Len(s) \in Nat /\ DOMAIN s = 1..Len(s)
      /\ t \in Seq(S) /\ DOMAIN t = 1..n /\ n \in DOMAIN t /\ t[n] = r
      /\ \A i \in 1..Len(s) : t[i] = s[i] /\ i \in DOMAIN t /\ i < n
      /\ \A i \in DOMAIN t : i = n \/ i \in DOMAIN s
  OBVIOUS
<1> HIDE DEF t, n
<1>2. \A i \in DOMAIN s : s[i] # r BY DEF Waiting
<1>3. NoneTwice(t) BY <1>1, <1>2 DEF NoneTwice
<1>4. Waiting(t) = Waiting(s) \cup {r} BY <1>1 DEF Waiting
<1>5. ASSUME NEW p, NEW q
      PROVE  Before(t, p, q) <=> Before(s, p, q) \/ (p \in Waiting(s) /\ q = r)
  <2>1. ASSUME Before(t, p, q) PROVE Before(s, p, q) \/ (p \in Waiting(s) /\ q = r)
    <3>1. PICK i, j \in DOMAIN t : i < j /\ t[i] = p /\ t[j] = q BY <2>1 DEF Before
    <3>2. i \in DOMAIN s /\ p = s[i]
      <4>1. i # n BY <1>1, <3>1 DEF n
      <4> QED BY <1>1, <3>1, <4>1
    <3>3. CASE j = n BY <1>1, <3>1, <3>2, <3>3 DEF Waiting
    <3>4. CASE j \in DOMAIN s BY <1>1, <3>1, <3>2, <3>4 DEF Before
    <3> QED BY <1>1, <3>3, <3>4
  <2>2. ASSUME Before(s, p, q) PROVE Before(t, p, q)
    BY <1>1, <2>2 DEF Before
  <2>3. ASSUME p \in Waiting(s), q = r PROVE Before(t, p, q)
    BY <1>1, <2>3 DEF Before, Waiting
  <2> QED BY <2>1, <2>2, <2>3
<1> QED BY <1>1, <1>3, <1>4, <1>5 DEF t

\* The queue when the charge point starts.
LEMMA NobodyWaits == Waiting(<<>>) = {} /\ NoneTwice(<<>>) /\ \A p, q : ~Before(<<>>, p, q)
BY DEF Waiting, NoneTwice, Before

-----------------------------------------------------------------------------

\* Every variable has the values it was meant for: a CALL a routine may await, what a charger may
\* hold, where the loop of the runner may stand.
Stages == {"idle", "preparing", "authorising", "starting", "refused", "charging", "metering",
           "last meter", "stopping", "available"}
Awaits == [at : Stages, car : Cars \cup {0}, tx : Nat, since : Nat, reading : Nat]
Profiles == [limit : Nat, from : Nat, until : Int]
Transactions == [id : Nat, car : Cars \cup {0}, energy : Nat, drawn : Nat, lastTick : Nat,
                 profile : Profiles]
Loops == [at : {"scan", "busy", "waiting", "dead", "exited"}, car : Cars \cup {0}]

BayTypeOK ==
  /\ now \in Nat
  /\ loop \in Loops
  /\ plugged \subseteq Cars /\ gone \subseteq Cars
  /\ routines \in [Routines -> Awaits]
  /\ bayCalls \in Seq(Routines)
  /\ transaction \in Transactions
  /\ register \in Nat
  /\ default \in BOOLEAN
  /\ server \in [active : Nat, lastTx : Nat, meter : Nat]
  /\ opened \in [Cars -> Nat]
  /\ bayFaults \in Nat

\* A routine is in plugIn before the transaction is open, in unplug before it is closed, or has a
\* reading on the way.
Plugs(r) == routines[r].at \in {"preparing", "authorising", "starting", "refused"}
Unplugs(r) == routines[r].at \in {"last meter", "stopping"}
Reports(r) == routines[r].at \in {"metering", "last meter", "stopping"}

\* A routine waits in the queue once if it awaits a CALL, and else not.
QueueInv ==
  /\ NoneTwice(bayCalls)
  /\ Waiting(bayCalls) = {r \in Routines : ~At(r, "idle")}

\* The loop is busy exactly while its own routine is; a remote start plugs in the car the loop
\* waits for.
LoopInv ==
  /\ loop.at = "busy" <=> ~At("runner", "idle")
  /\ loop.at = "exited" => \A r \in Routines : At(r, "idle")
  /\ Plugs("remote start") => \/ loop.at = "dead"
                              \/ loop.at = "waiting" /\ routines["remote start"].car = loop.car
  /\ loop.at = "waiting" => loop.car \in plugged \ gone
  /\ routines["remote start"].at \notin {"last meter", "stopping", "available"}
  /\ routines["remote stop"].at \in {"idle", "last meter", "stopping", "available"}

\* Cars come in order, and the next when the one before it is gone.
CarsInv ==
  /\ gone \subseteq plugged
  /\ \A c \in plugged, d \in Cars : d < c => d \in gone
  /\ \A r \in Routines : Plugs(r) => routines[r].car \in plugged
  /\ Plugs("runner") => routines["runner"].car \notin gone

\* What charges is a car that came and has room; nobody plugs in while one charges, and one that
\* is gone charges only until the runner has unplugged it, or when it left.
TransactionInv ==
  /\ transaction.id <= server.lastTx /\ server.active <= server.lastTx
  /\ IsCharging => /\ transaction.car \in plugged
                   /\ transaction.drawn <= Room[transaction.car]
                   /\ transaction.car \in gone => \/ loop.at \in {"dead", "exited"}
                                                  \/ Unplugs("runner")
  /\ \A r \in Routines : Plugs(r) => ~IsCharging

\* Readings belong to a transaction the server opened.  A remote stop that is on its way closes
\* its transaction before a new one can be opened: its StopTransaction is ahead in the queue.
UnplugInv ==
  /\ \A r \in Routines : Reports(r) => routines[r].tx \in 1..server.lastTx
  /\ \A r \in Routines : Unplugs(r) => transaction.id \in {0, routines[r].tx}
  /\ \A r \in Routines : Plugs(r) /\ Unplugs("remote stop") =>
       \/ At(r, "preparing") \/ At(r, "refused")
       \/ At(r, "authorising") /\ (At("remote stop", "stopping") \/ Before(bayCalls, "remote stop", r))
       \/ At(r, "starting") /\ At("remote stop", "stopping") /\ Before(bayCalls, "remote stop", r)

\* The server's register is at most the charger's, and at most every reading of the open
\* transaction that is on its way; those are on their way in order.
Current(r) == Reports(r) /\ routines[r].tx = server.active
MeterInv ==
  /\ server.meter <= IF IsCharging THEN transaction.energy ELSE register
  /\ \A r \in Routines : At(r, "starting") => routines[r].reading = register
  /\ \A r \in Routines : Current(r) =>
       /\ transaction.id = routines[r].tx
       /\ server.meter <= routines[r].reading
       /\ routines[r].reading <= transaction.energy
ReadingsInv ==
  \A r, q \in Routines : Current(r) /\ Current(q) /\ Before(bayCalls, r, q) =>
     routines[r].reading <= routines[q].reading

\* While no CALL failed, the car the loop waits for and the cars being plugged in have had no
\* transaction yet, or have one that goes on.
OpenedInv ==
  bayFaults = 0 =>
    /\ loop.at # "dead"
    /\ \A c \in Cars : opened[c] <= 1
    /\ \A c \in Cars : opened[c] > 0 => c \in plugged
    /\ loop.at = "waiting" => \/ opened[loop.car] = 0
                              \/ IsCharging /\ ~Unplugs("remote stop")
    /\ \A r \in Routines : Plugs(r) => opened[routines[r].car] = 0

BayInv ==
  /\ BayTypeOK /\ QueueInv /\ LoopInv /\ CarsInv /\ TransactionInv
  /\ UnplugInv /\ MeterInv /\ ReadingsInv /\ OpenedInv

-----------------------------------------------------------------------------

\* What Math.min returns for two numbers.
LEMMA MinOfTwo ==
  ASSUME NEW a \in Int, NEW b \in Int
  PROVE  Min({a, b}) = IF a <= b THEN a ELSE b
<1> DEFINE m == IF a <= b THEN a ELSE b
<1>1. m \in {a, b} /\ \A y \in {a, b} : m <= y OBVIOUS
<1>2. \A x \in {a, b} : (\A y \in {a, b} : x <= y) => x = m OBVIOUS
<1> QED BY <1>1, <1>2 DEF Min

\* A tick leaves a transaction what it is, and adds no more energy than its car has room for.
LEMMA TicksGrow ==
  ASSUME BayAssumption, now \in Nat, NEW t \in Transactions, NEW safe \in BOOLEAN,
         t.car \in Cars, t.drawn <= Room[t.car]
  PROVE  LET u == TickedUnder(t, safe) IN
         /\ u \in Transactions /\ u.id = t.id /\ u.car = t.car
         /\ u.energy >= t.energy /\ u.drawn <= Room[t.car]
<1> DEFINE limit == ProfileLimit(t, safe)
           power == Min({MaxPower, limit})
           elapsed == Min({now - t.lastTick, MaxTick})
           room == Room[t.car] - t.drawn
           energy == IF elapsed <= 0 THEN 0 ELSE Min({room, power * elapsed})
           u == TickedUnder(t, safe)
<1>1. /\ MaxPower \in Nat /\ Share \in Nat /\ MaxTick \in Nat /\ Room[t.car] \in Nat
      /\ t.drawn \in Nat /\ t.energy \in Nat /\ t.lastTick \in Nat /\ t.profile.limit \in Nat
  BY DEF BayAssumption, Transactions, Profiles
<1>2. limit \in Nat BY <1>1 DEF ProfileLimit
<1>3. power \in Nat BY <1>1, <1>2, MinOfTwo
<1>4. elapsed \in Int
  <2>1. now - t.lastTick \in Int /\ MaxTick \in Int BY <1>1
  <2>2. elapsed \in {now - t.lastTick, MaxTick} BY <2>1, MinOfTwo
  <2> QED BY <2>1, <2>2
<1>5. room \in Nat BY <1>1
<1>6. energy \in 0..room
  <2>1. CASE elapsed <= 0 BY <2>1, <1>5
  <2>2. CASE ~(elapsed <= 0)
    <3> HIDE DEF power, elapsed, room
    <3>1. power * elapsed \in Nat BY <1>3, <1>4, <2>2
    <3>2. Min({room, power * elapsed}) \in 0..room BY <3>1, <1>5, MinOfTwo
    <3> QED BY <2>2, <3>2
  <2> QED BY <2>1, <2>2
<1>7. u = [t EXCEPT !.energy = @ + energy, !.drawn = @ + energy, !.lastTick = now]
  BY DEF TickedUnder
<1>8. energy \in Nat /\ t.drawn + energy <= Room[t.car] BY <1>1, <1>5, <1>6
<1> HIDE DEF energy, room, u
<1>9. u = [id |-> t.id, car |-> t.car, energy |-> t.energy + energy, drawn |-> t.drawn + energy,
           lastTick |-> now, profile |-> t.profile]
  BY <1>7 DEF Transactions
<1>10. u \in Transactions
  BY <1>1, <1>8, <1>9 DEF Transactions
<1> QED BY <1>1, <1>8, <1>9, <1>10 DEF u

-----------------------------------------------------------------------------

\* A routine begins or asks again, behind all others; one returns.
Joined(r) ==
  /\ QueueInv' /\ bayCalls' \in Seq(Routines) /\ routines' \in [Routines -> Awaits]
  /\ \A q \in Routines \ {r} : routines'[q] = routines[q]
  /\ \A p \in Routines : ~Before(bayCalls', r, p)
  /\ \A p \in Routines \ {r} : Before(bayCalls', p, r) <=> ~At(p, "idle")
  /\ \A p, q \in Routines \ {r} : Before(bayCalls', p, q) <=> Before(bayCalls, p, q)
Returned(r) ==
  /\ QueueInv' /\ bayCalls' \in Seq(Routines)
  /\ routines' \in [Routines -> Awaits] /\ routines'[r] = Resting
  /\ \A q \in Routines \ {r} : routines'[q] = routines[q]
  /\ \A p, q \in Routines \ {r} : Before(bayCalls', p, q) <=> Before(bayCalls, p, q)

\* The routine whose CALL is on the wire heads the queue.
LEMMA InFlightWaits ==
  ASSUME BayTypeOK, QueueInv, NEW r, InFlight(r)
  PROVE  /\ bayCalls \in Seq(Routines) /\ bayCalls # <<>> /\ Head(bayCalls) = r /\ NoneTwice(bayCalls)
         /\ r \in Routines /\ ~At(r, "idle")
         /\ Waiting(Tail(bayCalls)) = Waiting(bayCalls) \ {r} /\ Tail(bayCalls) \in Seq(Routines)
         /\ NoneTwice(Tail(bayCalls))
         /\ \A p, q : Before(Tail(bayCalls), p, q) <=> p # r /\ q # r /\ Before(bayCalls, p, q)
         /\ \A p : ~Before(bayCalls, p, r)
         /\ \A p \in Routines \ {r} : ~At(p, "idle") => Before(bayCalls, r, p)
<1>1. bayCalls \in Seq(Routines) /\ bayCalls # <<>> /\ Head(bayCalls) = r /\ NoneTwice(bayCalls)
  BY DEF BayTypeOK, QueueInv, InFlight
<1>2. r \in Waiting(bayCalls)
  BY <1>1 DEF Waiting
<1> QED BY <1>1, <1>2, FrontLeaves DEF QueueInv

\* What asking, returning and beginning do to the queue.
LEMMA AskMoves ==
  ASSUME BayTypeOK, QueueInv, NEW r, InFlight(r), NEW on \in Awaits, on.at # "idle", Asks(r, on)
  PROVE  Joined(r) /\ routines'[r] = on
<1>1. routines \in [Routines -> Awaits] /\ r \in Routines BY InFlightWaits DEF BayTypeOK
<1>2. /\ routines' \in [Routines -> Awaits] /\ routines'[r] = on
      /\ \A q \in Routines \ {r} : routines'[q] = routines[q]
  BY <1>1 DEF Asks
<1>3. bayCalls' = Append(Tail(bayCalls), r) BY DEF Asks
<1>4. PICK t : t = Tail(bayCalls) OBVIOUS
<1>5. /\ t \in Seq(Routines) /\ NoneTwice(t) /\ r \notin Waiting(t) /\ Waiting(t) = Waiting(bayCalls) \ {r}
      /\ \A p, q : Before(t, p, q) <=> p # r /\ q # r /\ Before(bayCalls, p, q)
  BY <1>4, InFlightWaits
<1>6. /\ bayCalls' \in Seq(Routines) /\ NoneTwice(bayCalls') /\ Waiting(bayCalls') = Waiting(t) \cup {r}
      /\ \A p, q : Before(bayCalls', p, q) <=> Before(t, p, q) \/ (p \in Waiting(t) /\ q = r)
  <2>1. bayCalls' = Append(t, r) BY <1>3, <1>4
  <2> QED BY <1>1, <1>5, <2>1, OneJoins
<1>7. QueueInv'
  BY <1>1, <1>2, <1>5, <1>6 DEF QueueInv, At
<1>9. \A p \in Routines \ {r} : p \in Waiting(t) <=> ~At(p, "idle") BY <1>5 DEF QueueInv
<1>10. \A p \in Routines : ~Before(bayCalls', r, p) BY <1>5, <1>6
<1>11. \A p \in Routines \ {r} : Before(bayCalls', p, r) <=> ~At(p, "idle") BY <1>5, <1>6, <1>9
<1>12. \A p, q \in Routines \ {r} : Before(bayCalls', p, q) <=> Before(bayCalls, p, q) BY <1>5, <1>6
<1> QED BY <1>2, <1>6, <1>7, <1>10, <1>11, <1>12 DEF Joined

LEMMA ReturnMoves ==
  ASSUME BayTypeOK, QueueInv, NEW r, InFlight(r), Returns(r)
  PROVE  Returned(r)
<1>1. routines \in [Routines -> Awaits] /\ r \in Routines BY InFlightWaits DEF BayTypeOK
<1>2. Resting \in Awaits /\ Resting.at = "idle" BY DEF Resting, Awaits, Stages
<1>3. /\ routines' \in [Routines -> Awaits] /\ routines'[r] = Resting
      /\ \A q \in Routines \ {r} : routines'[q] = routines[q]
  BY <1>1, <1>2 DEF Returns
<1>4. bayCalls' = Tail(bayCalls) BY DEF Returns
<1>5. QueueInv'
  BY <1>1, <1>2, <1>3, <1>4, InFlightWaits DEF QueueInv, At
<1> QED BY <1>3, <1>4, <1>5, InFlightWaits DEF Returned

LEMMA BeginMoves ==
  ASSUME BayTypeOK, QueueInv, NEW r \in Routines, At(r, "idle"), NEW first \in Awaits,
         first.at # "idle", Begins(r, first)
  PROVE  Joined(r) /\ routines'[r] = first
<1>1. routines \in [Routines -> Awaits] /\ bayCalls \in Seq(Routines) BY DEF BayTypeOK
<1>2. /\ routines' \in [Routines -> Awaits] /\ routines'[r] = first
      /\ \A q \in Routines \ {r} : routines'[q] = routines[q]
  BY <1>1 DEF Begins
<1>3. r \notin Waiting(bayCalls) /\ NoneTwice(bayCalls) BY DEF QueueInv
<1>4. bayCalls' = Append(bayCalls, r) BY DEF Begins
<1>5. /\ bayCalls' \in Seq(Routines) /\ NoneTwice(bayCalls') /\ Waiting(bayCalls') = Waiting(bayCalls) \cup {r}
      /\ \A p, q : Before(bayCalls', p, q) <=> Before(bayCalls, p, q) \/ (p \in Waiting(bayCalls) /\ q = r)
  BY <1>1, <1>3, <1>4, OneJoins
<1>6. QueueInv'
  BY <1>1, <1>2, <1>5 DEF QueueInv, At
<1>7. \A p : ~Before(bayCalls, r, p) /\ ~Before(bayCalls, p, r) BY <1>3 DEF Before, Waiting
<1>8. \A p \in Routines : p \in Waiting(bayCalls) <=> ~At(p, "idle") BY DEF QueueInv
<1> QED BY <1>2, <1>3, <1>5, <1>6, <1>7, <1>8 DEF Joined

-----------------------------------------------------------------------------

\* The answers, one after the other, keep the invariant.
LEMMA PreparedKeeps ==
  ASSUME BayAssumption, BayInv, NEW r, Prepared(r) PROVE BayInv'
<1> USE DEF BayInv
<1>a. /\ r \in Routines /\ InFlight(r) /\ routines \in [Routines -> Awaits] /\ At(r, "preparing")
      /\ UNCHANGED <<now, loop, plugged, gone, transaction, register, default, server, opened, bayFaults>>
  BY InFlightWaits DEF Prepared, BayTypeOK
<1> DEFINE on == [routines[r] EXCEPT !.at = "authorising"]
<1>b. on \in Awaits /\ on.at = "authorising" /\ on.car = routines[r].car /\ Asks(r, on)
  BY <1>a DEF Awaits, Stages, Prepared, Goes
<1> HIDE DEF on
<1>c. Joined(r) /\ routines'[r] = on
  BY <1>a, <1>b, AskMoves
<1>1. BayTypeOK' BY <1>a, <1>c DEF Joined, BayTypeOK
<1>2. LoopInv' BY <1>a, <1>b, <1>c DEF Joined, LoopInv, At, Plugs, Unplugs, Routines
<1>3. CarsInv' BY <1>a, <1>b, <1>c DEF Joined, CarsInv, At, Plugs, Routines
<1>4. TransactionInv' BY <1>a, <1>b, <1>c
      DEF Joined, TransactionInv, At, Plugs, Unplugs, IsCharging, Routines
<1>5. UnplugInv' BY <1>a, <1>b, <1>c DEF Joined, UnplugInv, At, Plugs, Unplugs, Reports, Routines
<1>6. MeterInv' BY <1>a, <1>b, <1>c DEF Joined, MeterInv, At, IsCharging, Reports, Current
<1>8. ReadingsInv' BY <1>a, <1>b, <1>c DEF Joined, ReadingsInv, At, Reports, Current
<1>7. OpenedInv' BY <1>a, <1>b, <1>c DEF Joined, OpenedInv, At, Plugs, Unplugs, IsCharging, Routines
<1> QED BY <1>1, <1>2, <1>3, <1>4, <1>5, <1>6, <1>7, <1>8, <1>c DEF Joined

LEMMA AuthorisedKeeps ==
  ASSUME BayAssumption, BayInv, NEW r, Authorised(r) PROVE BayInv'
<1> USE DEF BayInv
<1>a. /\ r \in Routines /\ InFlight(r) /\ routines \in [Routines -> Awaits] /\ At(r, "authorising")
      /\ register \in Nat /\ \A p : ~Before(bayCalls, p, r)
      /\ UNCHANGED <<now, loop, plugged, gone, transaction, register, default, server, opened, bayFaults>>
  BY InFlightWaits DEF Authorised, BayTypeOK
<1> DEFINE on == IF routines[r].car \in UnknownCars THEN [routines[r] EXCEPT !.at = "refused"]
                 ELSE [routines[r] EXCEPT !.at = "starting", !.reading = register]
<1>b. /\ on \in Awaits /\ on.at \in {"refused", "starting"} /\ on.car = routines[r].car /\ Asks(r, on)
      /\ on.at = "starting" => on.reading = register
  BY <1>a DEF Awaits, Stages, Authorised, Goes
<1> HIDE DEF on
<1>c. Joined(r) /\ routines'[r] = on
  BY <1>a, <1>b, AskMoves
<1>1. BayTypeOK' BY <1>a, <1>b, <1>c DEF Joined, BayTypeOK
<1>2. LoopInv' BY <1>a, <1>b, <1>c DEF Joined, LoopInv, At, Plugs, Unplugs, Routines
<1>3. CarsInv' BY <1>a, <1>b, <1>c DEF Joined, CarsInv, At, Plugs, Routines
<1>4. TransactionInv' BY <1>a, <1>b, <1>c
      DEF Joined, TransactionInv, At, Plugs, Unplugs, IsCharging, Routines
<1>5. UnplugInv' BY <1>a, <1>b, <1>c DEF Joined, UnplugInv, At, Plugs, Unplugs, Reports, Routines
<1>6. MeterInv' BY <1>a, <1>b, <1>c DEF Joined, MeterInv, At, IsCharging, Reports, Current
<1>7. ReadingsInv' BY <1>a, <1>b, <1>c DEF Joined, ReadingsInv, At, Reports, Current
<1>8. OpenedInv' BY <1>a, <1>b, <1>c DEF Joined, OpenedInv, At, Plugs, Unplugs, IsCharging, Routines
<1> QED BY <1>1, <1>2, <1>3, <1>4, <1>5, <1>6, <1>7, <1>8, <1>c DEF Joined

LEMMA RefusedKeeps ==
  ASSUME BayAssumption, BayInv, NEW r, Refused(r) PROVE BayInv'
<1> USE DEF BayInv
<1>a. /\ r \in Routines /\ InFlight(r) /\ routines \in [Routines -> Awaits] /\ At(r, "refused")
      /\ Returns(r)
      /\ UNCHANGED <<now, plugged, transaction, register, default, server, opened, bayFaults>>
  BY InFlightWaits DEF Refused, BayTypeOK
<1>b. /\ Resting.at = "idle" /\ loop' \in Loops
      /\ \/ r = "runner" /\ loop'.at = "scan" /\ gone' = gone \cup {routines[r].car}
         \/ r # "runner" /\ loop' = loop /\ gone' = gone
  BY DEF Refused, Awaited, Resting, BayTypeOK, Loops
<1>d. /\ routines[r].car \in Cars
      /\ r = "runner" => loop.at = "busy" /\ ~Plugs("remote start")
  BY <1>a DEF CarsInv, LoopInv, BayTypeOK, Plugs, At
<1>c. Returned(r)
  BY <1>a, ReturnMoves
<1>1. BayTypeOK' BY <1>a, <1>b, <1>c, <1>d DEF Returned, BayTypeOK
<1>2. LoopInv' BY <1>a, <1>b, <1>c, <1>d DEF Returned, LoopInv, At, Plugs, Unplugs, Routines
<1>3. CarsInv' BY <1>a, <1>b, <1>c DEF Returned, CarsInv, At, Plugs, Routines
<1>4. TransactionInv' BY <1>a, <1>b, <1>c
      DEF Returned, TransactionInv, At, Plugs, Unplugs, IsCharging, Routines
<1>5. UnplugInv' BY <1>a, <1>b, <1>c DEF Returned, UnplugInv, At, Plugs, Unplugs, Reports, Routines
<1>6. MeterInv' BY <1>a, <1>b, <1>c DEF Returned, MeterInv, At, IsCharging, Reports, Current
<1>7. ReadingsInv' BY <1>a, <1>b, <1>c DEF Returned, ReadingsInv, At, Reports, Current
<1>8. OpenedInv' BY <1>a, <1>b, <1>c, <1>d
      DEF Returned, OpenedInv, At, Plugs, Unplugs, IsCharging, Routines
<1> QED BY <1>1, <1>2, <1>3, <1>4, <1>5, <1>6, <1>7, <1>8, <1>c DEF Returned

\* When StartTransaction is answered no other routine plugs in, and none unplugs.
LEMMA StartsAlone ==
  ASSUME BayInv, NEW r, InFlight(r), At(r, "starting")
  PROVE  \A q \in Routines : ~Unplugs(q) /\ (q # r => ~Plugs(q))
<1>1. r \in Routines /\ \A p : ~Before(bayCalls, p, r) BY InFlightWaits DEF BayInv
<1> QED BY <1>1 DEF BayInv, LoopInv, UnplugInv, Plugs, Unplugs, At, Routines

LEMMA StartAnsweredKeeps ==
  ASSUME BayAssumption, BayInv, NEW r, StartAnswered(r) PROVE BayInv'
<1> USE DEF BayInv
<1>a. /\ r \in Routines /\ InFlight(r) /\ routines \in [Routines -> Awaits] /\ At(r, "starting")
      /\ UNCHANGED <<now, loop, plugged, gone, register, default, bayFaults>>
      /\ \A q \in Routines : ~Unplugs(q) /\ (q # r => ~Plugs(q))
  BY InFlightWaits, StartsAlone DEF StartAnswered, BayTypeOK
<1>d. /\ server \in [active : Nat, lastTx : Nat, meter : Nat] /\ opened \in [Cars -> Nat]
      /\ register \in Nat /\ routines[r].car \in Cars /\ routines[r].since \in Nat
      /\ routines[r].reading = register
  BY <1>a DEF BayTypeOK, CarsInv, Plugs, At, Awaits, MeterInv
<1>e. /\ server'.active = server.lastTx + 1 /\ server'.lastTx = server.lastTx + 1
      /\ server'.meter = register /\ server' \in [active : Nat, lastTx : Nat, meter : Nat]
      /\ opened' = [opened EXCEPT ![routines[r].car] = @ + 1] /\ opened' \in [Cars -> Nat]
  BY <1>d DEF StartAnswered, ServerStarts
<1>f. /\ transaction'.id = server.lastTx + 1 /\ transaction'.car = routines[r].car
      /\ transaction'.energy = register /\ transaction'.drawn = 0 /\ transaction' \in Transactions
  BY <1>d DEF StartAnswered, Transactions, Profiles, NoProfile
<1> DEFINE on == [routines[r] EXCEPT !.at = "charging"]
<1>b. on \in Awaits /\ on.at = "charging" /\ Asks(r, on)
  BY <1>a DEF Awaits, Stages, StartAnswered, Goes
<1> HIDE DEF on
<1>c. Joined(r) /\ routines'[r] = on
  BY <1>a, <1>b, AskMoves
<1>1. BayTypeOK' BY <1>a, <1>b, <1>c, <1>d, <1>e, <1>f DEF Joined, BayTypeOK
<1>2. LoopInv' BY <1>a, <1>b, <1>c, <1>d, <1>e, <1>f DEF Joined, LoopInv, At, Plugs, Unplugs, Routines
<1>3. CarsInv' BY <1>a, <1>b, <1>c, <1>d, <1>e, <1>f DEF Joined, CarsInv, At, Plugs, Routines
<1>g. IsCharging' /\ \A q \in Routines : ~Plugs(q)' /\ ~Unplugs(q)'
  <2>1. IsCharging' BY <1>d, <1>f DEF IsCharging
  <2>2. ASSUME NEW q \in Routines PROVE ~Plugs(q)' /\ ~Unplugs(q)'
    <3>1. CASE q = r BY <1>b, <1>c, <3>1 DEF Joined, Plugs, Unplugs
    <3>2. CASE q # r BY <1>a, <1>c, <3>2 DEF Joined, Plugs, Unplugs
    <3> QED BY <3>1, <3>2
  <2> QED BY <2>1, <2>2
<1>h. \A q \in Routines : Reports(q)' => /\ Reports(q) /\ routines'[q] = routines[q]
                                         /\ routines[q].tx \in 1..server.lastTx
  BY <1>a, <1>b, <1>c DEF Joined, Reports, UnplugInv
<1>4. TransactionInv'
  <2>1. server.active <= server.lastTx /\ Room[routines[r].car] \in Nat /\ routines[r].car \in plugged
    BY <1>a, <1>d DEF TransactionInv, BayAssumption, CarsInv, Plugs, At
  <2>2. routines[r].car \in gone => loop.at = "dead"
    BY <1>a DEF CarsInv, LoopInv, Plugs, At, Routines
  <2> QED BY <1>a, <1>d, <1>e, <1>f, <1>g, <2>1, <2>2 DEF TransactionInv
<1>5. UnplugInv'
  <2>1. \A q \in Routines : Reports(q)' => routines'[q].tx \in 1..server'.lastTx
    BY <1>d, <1>e, <1>h
  <2>2. ~Unplugs("remote stop")' BY <1>g DEF Routines
  <2> QED BY <1>g, <2>1, <2>2 DEF UnplugInv
<1>i. \A q \in Routines : ~Current(q)'
  BY <1>d, <1>e, <1>h DEF Current
<1>6. MeterInv'
  <2>1. \A q \in Routines : ~At(q, "starting")' BY <1>g DEF At, Plugs
  <2> QED BY <1>d, <1>e, <1>f, <1>g, <1>i, <2>1 DEF MeterInv
<1>7. ReadingsInv' BY <1>i DEF ReadingsInv
<1>8. OpenedInv'
  <2> SUFFICES ASSUME bayFaults = 0 PROVE OpenedInv' BY <1>a DEF OpenedInv
  <2>1. opened[routines[r].car] = 0 /\ routines[r].car \in plugged
    BY <1>a DEF OpenedInv, CarsInv, Plugs, At
  <2>2. \A c \in Cars : opened'[c] = IF c = routines[r].car THEN opened[c] + 1 ELSE opened[c]
    BY <1>d, <1>e
  <2>3. ASSUME NEW c \in Cars PROVE opened'[c] <= 1 /\ (opened'[c] > 0 => c \in plugged)
    <3>1. opened[c] \in Nat /\ opened[c] <= 1 /\ (opened[c] > 0 => c \in plugged)
      BY <1>d DEF OpenedInv
    <3> QED BY <2>1, <2>2, <3>1
  <2>4. ~Plugs("remote start")' /\ ~Unplugs("remote stop")' BY <1>g DEF Routines
  <2> QED BY <1>a, <1>g, <2>3, <2>4 DEF OpenedInv
<1> QED BY <1>1, <1>2, <1>3, <1>4, <1>5, <1>6, <1>7, <1>8, <1>c DEF Joined

\* The runner goes on when its routine has returned.
LEMMA RunnerGoesOn ==
  ASSUME BayInv, NEW r \in Routines, ~At(r, "idle"), Awaited(r, {})
  PROVE  /\ loop' \in Loops /\ gone' = gone
         /\ \/ r = "runner" /\ loop'.at = "scan" /\ loop.at = "busy" /\ ~Plugs("remote start")
            \/ r # "runner" /\ loop' = loop
BY DEF Awaited, BayInv, BayTypeOK, Loops, LoopInv

\* A routine joins to report what the transaction stands at.
LEMMA ReadingJoins ==
  ASSUME BayInv, NEW r \in Routines, Joined(r), server' = server, register' = register,
         ~Plugs(r)', routines'[r].tx = transaction.id, routines'[r].reading = transaction'.energy,
         IsCharging, transaction' \in Transactions, transaction'.id = transaction.id,
         transaction'.energy >= transaction.energy
  PROVE  /\ MeterInv' /\ ReadingsInv'
         /\ \A q \in Routines : Reports(q)' => routines'[q].tx \in 1..server'.lastTx
<1>1. /\ transaction.id \in Nat /\ transaction.id # 0 /\ transaction.id <= server.lastTx
      /\ transaction.energy \in Nat /\ transaction'.energy \in Nat /\ server.lastTx \in Nat
      /\ server.meter \in Nat /\ routines \in [Routines -> Awaits]
      /\ IsCharging' /\ server.meter <= transaction.energy
  BY DEF BayInv, BayTypeOK, Transactions, IsCharging, TransactionInv, MeterInv
<1>2. \A q \in Routines \ {r} : routines'[q] = routines[q] /\ routines[q].reading \in Nat
  BY <1>1 DEF Joined, Awaits
<1>3. ASSUME NEW q \in Routines, Current(q)'
      PROVE  /\ routines'[q].tx = transaction.id /\ server.meter <= routines'[q].reading
             /\ routines'[q].reading <= transaction'.energy
  <2>1. CASE q = r BY <1>1, <2>1
  <2>2. CASE q # r
    <3>1. Current(q) BY <1>2, <1>3, <2>2 DEF Current, Reports
    <3>2. /\ transaction.id = routines[q].tx /\ server.meter <= routines[q].reading
          /\ routines[q].reading <= transaction.energy
      BY <3>1 DEF BayInv, MeterInv
    <3> QED BY <1>1, <1>2, <2>2, <3>2
  <2> QED BY <2>1, <2>2
<1>4. MeterInv'
  <2>1. \A q \in Routines : ~At(q, "starting")'
    BY <1>2 DEF At, BayInv, TransactionInv, Plugs
  <2>2. server'.meter <= transaction'.energy BY <1>1
  <2>3. \A q \in Routines : Current(q)' => /\ transaction'.id = routines'[q].tx
                                           /\ server'.meter <= routines'[q].reading
                                           /\ routines'[q].reading <= transaction'.energy
    BY <1>3
  <2> QED BY <1>1, <2>1, <2>2, <2>3 DEF MeterInv
<1>5. ASSUME NEW p \in Routines, NEW q \in Routines, Current(p)', Current(q)', Before(bayCalls', p, q)
      PROVE  routines'[p].reading <= routines'[q].reading
  <2>1. p # r BY <1>5 DEF Joined
  <2>2. CASE q = r BY <1>3, <1>5, <2>2 DEF Joined
  <2>3. CASE q # r
    <3>1. Current(p) /\ Current(q) BY <1>2, <1>5, <2>1, <2>3 DEF Current, Reports
    <3>2. Before(bayCalls, p, q) BY <1>5, <2>1, <2>3 DEF Joined
    <3> QED BY <1>2, <2>1, <2>3, <3>1, <3>2 DEF BayInv, ReadingsInv
  <2> QED BY <2>2, <2>3
<1>6. ReadingsInv' BY <1>5 DEF ReadingsInv
<1>7. ASSUME NEW q \in Routines, Reports(q)' PROVE routines'[q].tx \in 1..server'.lastTx
  <2>1. CASE q = r BY <1>1, <2>1
  <2>2. CASE q # r BY <1>2, <1>7, <2>2 DEF Reports, BayInv, UnplugInv
  <2> QED BY <2>1, <2>2
<1> QED BY <1>4, <1>6, <1>7

LEMMA ToldChargingKeeps ==
  ASSUME BayAssumption, BayInv, NEW r, ToldCharging(r) PROVE BayInv'
<1> USE DEF BayInv
<1>a. /\ r \in Routines /\ InFlight(r) /\ routines \in [Routines -> Awaits] /\ At(r, "charging")
      /\ UNCHANGED <<now, plugged, transaction, register, default, server, opened, bayFaults>>
      /\ ~At(r, "idle") /\ Resting.at = "idle" /\ r # "remote stop"
  BY InFlightWaits DEF ToldCharging, BayTypeOK, At, Resting, LoopInv
<1>e. CASE ~IsCharging
  <2>b. Returns(r) /\ Awaited(r, {}) BY <1>e DEF ToldCharging
  <2>d. /\ loop' \in Loops /\ gone' = gone
        /\ \/ r = "runner" /\ loop'.at = "scan" /\ loop.at = "busy" /\ ~Plugs("remote start")
           \/ r # "runner" /\ loop' = loop
    BY <1>a, <2>b, RunnerGoesOn
  <2>c. Returned(r)
    BY <1>a, <2>b, ReturnMoves
  <2>1. BayTypeOK' BY <1>a, <2>b, <2>c, <2>d DEF Returned, BayTypeOK
  <2>2. LoopInv' BY <1>a, <2>b, <2>c, <2>d DEF Returned, LoopInv, At, Plugs, Unplugs, Routines
  <2>3. CarsInv' BY <1>a, <2>b, <2>c, <2>d DEF Returned, CarsInv, At, Plugs, Routines
  <2>4. TransactionInv' BY <1>a, <2>b, <2>c, <2>d
        DEF Returned, TransactionInv, At, Plugs, Unplugs, IsCharging, Routines
  <2>5. UnplugInv' BY <1>a, <2>b, <2>c, <2>d
        DEF Returned, UnplugInv, At, Plugs, Unplugs, Reports, Routines
  <2>6. MeterInv' BY <1>a, <2>b, <2>c, <2>d DEF Returned, MeterInv, At, IsCharging, Reports, Current
  <2>7. ReadingsInv' BY <1>a, <2>b, <2>c, <2>d DEF Returned, ReadingsInv, At, Reports, Current
  <2>8. OpenedInv' BY <1>a, <2>b, <2>c, <2>d
        DEF Returned, OpenedInv, At, Plugs, Unplugs, IsCharging, Routines
  <2> QED BY <2>1, <2>2, <2>3, <2>4, <2>5, <2>6, <2>7, <2>8, <2>c DEF Returned
<1>f. CASE IsCharging
  <2> DEFINE on == Meter("metering", routines[r].car)
  <2>d. /\ transaction.id \in Nat /\ transaction.energy \in Nat /\ transaction.id # 0
        /\ transaction.id <= server.lastTx /\ server.lastTx \in Nat /\ transaction \in Transactions
    BY <1>f DEF BayTypeOK, Transactions, IsCharging, TransactionInv
  <2>b. /\ on \in Awaits /\ on.at = "metering" /\ on.tx = transaction.id /\ on.reading = transaction.energy
        /\ Asks(r, on) /\ UNCHANGED <<loop, gone>>
    BY <1>a, <2>d, <1>f DEF Awaits, Stages, ToldCharging, Meter, Resting
  <2> HIDE DEF on
  <2>c. Joined(r) /\ routines'[r] = on
    BY <1>a, <2>b, AskMoves
  <2>e. \A q \in Routines : ~Plugs(q) /\ ~Plugs(q)'
    BY <1>a, <2>b, <2>c, <1>f DEF Joined, TransactionInv, Plugs
  <2>1. BayTypeOK' BY <1>a, <2>b, <2>c, <2>d, <1>f DEF Joined, BayTypeOK
  <2>2. LoopInv' BY <1>a, <2>b, <2>c, <2>d, <1>f DEF Joined, LoopInv, At, Plugs, Unplugs, Routines
  <2>3. CarsInv' BY <1>a, <2>b, <2>c, <2>d, <1>f DEF Joined, CarsInv, At, Plugs, Routines
  <2>4. TransactionInv' BY <1>a, <2>b, <2>c, <2>d, <1>f
        DEF Joined, TransactionInv, At, Plugs, Unplugs, IsCharging, Routines
  <2>6. /\ MeterInv' /\ ReadingsInv'
        /\ \A q \in Routines : Reports(q)' => routines'[q].tx \in 1..server'.lastTx
    <3>1. /\ transaction' \in Transactions /\ server' = server /\ register' = register
          /\ transaction'.id = transaction.id /\ transaction'.energy = transaction.energy
          /\ transaction'.energy >= transaction.energy /\ ~Plugs(r)'
      <4>1. transaction' = transaction /\ server' = server /\ register' = register BY <1>a
      <4>2. ~Plugs(r)' BY <1>a, <2>e
      <4> QED BY <2>d, <4>1, <4>2
    <3>2. routines'[r].tx = transaction.id /\ routines'[r].reading = transaction'.energy
      BY <2>b, <2>c, <3>1 DEF Joined
    <3>3. BayInv OBVIOUS
    <3> HIDE DEF BayInv
    <3> QED BY <1>a, <2>c, <1>f, <3>1, <3>2, <3>3, ReadingJoins
  <2>5. UnplugInv' BY <1>a, <2>b, <2>c, <2>d, <2>e, <2>6
        DEF Joined, UnplugInv, At, Plugs, Unplugs, Routines
  <2>8. OpenedInv' BY <1>a, <2>b, <2>c, <2>d, <1>f
        DEF Joined, OpenedInv, At, Plugs, Unplugs, IsCharging, Routines
  <2> QED BY <2>1, <2>2, <2>3, <2>4, <2>5, <2>6, <2>8, <2>c DEF Joined
<1> QED BY <1>e, <1>f

\* Who has a reading on its way has it of a transaction.
LEMMA ReportsOfOne ==
  ASSUME BayInv, NEW q \in Routines, Reports(q)
  PROVE  routines[q].tx \in Nat /\ routines[q].tx # 0 /\ routines[q].tx <= server.lastTx
<1>1. routines[q].tx \in 1..server.lastTx /\ server.lastTx \in Nat
  BY DEF BayInv, BayTypeOK, UnplugInv
<1> QED BY <1>1

\* Who reports of the transaction the server holds to be active reports of the one that charges.
LEMMA CurrentCharges ==
  ASSUME BayInv, NEW q \in Routines, Current(q)
  PROVE  /\ IsCharging /\ transaction.id = routines[q].tx
         /\ server.meter <= routines[q].reading /\ routines[q].reading <= transaction.energy
<1>1. /\ transaction.id = routines[q].tx /\ server.meter <= routines[q].reading
      /\ routines[q].reading <= transaction.energy
  BY DEF BayInv, MeterInv
<1> QED BY <1>1, ReportsOfOne DEF IsCharging, Current

\* The server takes a reading: it does not fall, and is not above those that are still on their way.
LEMMA ReadingCounts ==
  ASSUME BayInv, NEW r \in Routines, InFlight(r), Reports(r), Metered(r)
  PROVE  /\ server' \in [active : Nat, lastTx : Nat, meter : Nat] /\ bayFaults' \in Nat
         /\ server'.active = server.active /\ server'.lastTx = server.lastTx
         /\ server'.meter >= server.meter /\ (bayFaults' = 0 => bayFaults = 0)
         /\ server'.meter <= IF IsCharging THEN transaction.energy ELSE register
         /\ \A q \in Routines : Current(q) => server'.meter <= routines[q].reading
<1>1. /\ server \in [active : Nat, lastTx : Nat, meter : Nat] /\ bayFaults \in Nat
      /\ server.meter \in Nat /\ routines \in [Routines -> Awaits] /\ routines[r].reading \in Nat
      /\ transaction.energy \in Nat /\ transaction.id \in Nat
  BY DEF BayInv, BayTypeOK, Awaits, Transactions
<1>2. /\ server.meter <= IF IsCharging THEN transaction.energy ELSE register
      /\ \A q \in Routines : Current(q) => server.meter <= routines[q].reading
  BY DEF BayInv, MeterInv
<1>3. CASE server' = server
  <2>1. bayFaults' \in Nat /\ (bayFaults' = 0 => bayFaults = 0) BY <1>1 DEF Metered, Fault
  <2> QED BY <1>1, <1>2, <1>3, <2>1
<1>4. CASE server' # server
  <2>1. /\ Current(r) /\ server' = [server EXCEPT !.meter = routines[r].reading] /\ bayFaults' = bayFaults
    BY <1>1, <1>4 DEF Metered, Current
  <2>2. /\ server' \in [active : Nat, lastTx : Nat, meter : Nat] /\ server'.meter = routines[r].reading
        /\ server'.active = server.active /\ server'.lastTx = server.lastTx
    BY <1>1, <2>1
  <2>3. IsCharging /\ server.meter <= routines[r].reading /\ routines[r].reading <= transaction.energy
    BY <2>1, CurrentCharges
  <2>4. ASSUME NEW q \in Routines, Current(q) PROVE routines[r].reading <= routines[q].reading
    <3>1. CASE q = r BY <1>1, <3>1
    <3>2. CASE q # r
      <4>1. ~At(q, "idle") BY <2>4 DEF Current, Reports, At
      <4>2. Before(bayCalls, r, q) BY <3>2, <4>1, InFlightWaits DEF BayInv
      <4> QED BY <2>1, <2>4, <4>2 DEF BayInv, ReadingsInv
    <3> QED BY <3>1, <3>2
  <2> QED BY <1>1, <2>1, <2>2, <2>3, <2>4
<1> QED BY <1>3, <1>4

LEMMA MeterTakenKeeps ==
  ASSUME BayAssumption, BayInv, NEW r, MeterTaken(r) PROVE BayInv' /\ server'.meter >= server.meter
<1> USE DEF BayInv
<1>a. /\ r \in Routines /\ InFlight(r) /\ routines \in [Routines -> Awaits] /\ At(r, "metering")
      /\ UNCHANGED <<now, plugged, transaction, register, default, opened>>
      /\ ~At(r, "idle") /\ Reports(r) /\ Resting.at = "idle" /\ Returns(r)
  BY InFlightWaits DEF MeterTaken, BayTypeOK, At, Resting, Reports
<1>b. /\ loop' \in Loops /\ gone' = gone
      /\ \/ r = "runner" /\ loop'.at = "scan" /\ loop.at = "busy" /\ ~Plugs("remote start")
         \/ r # "runner" /\ loop' = loop
  BY <1>a, RunnerGoesOn DEF MeterTaken
<1>c. Returned(r)
  BY <1>a, ReturnMoves
<1>d. /\ server' \in [active : Nat, lastTx : Nat, meter : Nat] /\ bayFaults' \in Nat
      /\ server'.active = server.active /\ server'.lastTx = server.lastTx
      /\ server'.meter >= server.meter /\ (bayFaults' = 0 => bayFaults = 0)
      /\ server'.meter <= IF IsCharging THEN transaction.energy ELSE register
      /\ \A q \in Routines : Current(q) => server'.meter <= routines[q].reading
  BY <1>a, ReadingCounts DEF MeterTaken
<1>1. BayTypeOK' BY <1>a, <1>b, <1>c, <1>d DEF Returned, BayTypeOK
<1>2. LoopInv' BY <1>a, <1>b, <1>c, <1>d DEF Returned, LoopInv, At, Plugs, Unplugs, Routines
<1>3. CarsInv' BY <1>a, <1>b, <1>c, <1>d DEF Returned, CarsInv, At, Plugs, Routines
<1>4. TransactionInv' BY <1>a, <1>b, <1>c, <1>d
      DEF Returned, TransactionInv, At, Plugs, Unplugs, IsCharging, Routines
<1>5. UnplugInv' BY <1>a, <1>b, <1>c, <1>d
      DEF Returned, UnplugInv, At, Plugs, Unplugs, Reports, Routines
<1>6. MeterInv' BY <1>a, <1>b, <1>c, <1>d DEF Returned, MeterInv, At, IsCharging, Reports, Current
<1>7. ReadingsInv' BY <1>a, <1>b, <1>c, <1>d DEF Returned, ReadingsInv, At, Reports, Current
<1>8. OpenedInv' BY <1>a, <1>b, <1>c, <1>d
      DEF Returned, OpenedInv, At, Plugs, Unplugs, IsCharging, Routines
<1> QED BY <1>1, <1>2, <1>3, <1>4, <1>5, <1>6, <1>7, <1>8, <1>c, <1>d DEF Returned

LEMMA LastMeterTakenKeeps ==
  ASSUME BayAssumption, BayInv, NEW r, LastMeterTaken(r) PROVE BayInv' /\ server'.meter >= server.meter
<1> USE DEF BayInv
<1>a. /\ r \in Routines /\ InFlight(r) /\ routines \in [Routines -> Awaits] /\ At(r, "last meter")
      /\ UNCHANGED <<now, loop, plugged, gone, transaction, register, default, opened>>
      /\ ~At(r, "idle") /\ Reports(r) /\ Unplugs(r) /\ \A p : ~Before(bayCalls, p, r)
      /\ \A q \in Routines \ {r} : ~At(q, "idle") => Before(bayCalls, r, q)
  BY InFlightWaits DEF LastMeterTaken, BayTypeOK, At, Reports, Unplugs
<1>e. Energy(r) \in Nat BY DEF Energy, BayTypeOK, Transactions
<1> DEFINE on == [routines[r] EXCEPT !.at = "stopping", !.reading = Energy(r)]
<1>b. on \in Awaits /\ on.at = "stopping" /\ on.reading = Energy(r) /\ on.tx = routines[r].tx /\ Asks(r, on)
  BY <1>a, <1>e DEF Awaits, Stages, LastMeterTaken
<1> HIDE DEF on
<1>c. Joined(r) /\ routines'[r] = on
  BY <1>a, <1>b, AskMoves
<1>d. /\ server' \in [active : Nat, lastTx : Nat, meter : Nat] /\ bayFaults' \in Nat
      /\ server'.active = server.active /\ server'.lastTx = server.lastTx
      /\ server'.meter >= server.meter /\ (bayFaults' = 0 => bayFaults = 0)
      /\ server'.meter <= IF IsCharging THEN transaction.energy ELSE register
      /\ \A q \in Routines : Current(q) => server'.meter <= routines[q].reading
  BY <1>a, ReadingCounts DEF LastMeterTaken
<1>1. BayTypeOK' BY <1>a, <1>b, <1>c, <1>d DEF Joined, BayTypeOK
<1>2. LoopInv' BY <1>a, <1>b, <1>c, <1>d DEF Joined, LoopInv, At, Plugs, Unplugs, Routines
<1>3. CarsInv' BY <1>a, <1>b, <1>c, <1>d DEF Joined, CarsInv, At, Plugs, Routines
<1>4. TransactionInv' BY <1>a, <1>b, <1>c, <1>d
      DEF Joined, TransactionInv, At, Plugs, Unplugs, IsCharging, Routines
<1>f. ASSUME NEW q \in Routines, Reports(q)'
      PROVE  Reports(q) /\ routines'[q].tx = routines[q].tx /\ (Unplugs(q)' => Unplugs(q))
  <2>1. CASE q = r BY <1>a, <1>b, <1>c, <2>1
  <2>2. CASE q # r BY <1>c, <1>f, <2>2 DEF Joined, Reports, Unplugs
  <2> QED BY <2>1, <2>2
<1>5. UnplugInv'
  <2>1. \A q \in Routines : Reports(q)' => routines'[q].tx \in 1..server'.lastTx
    BY <1>d, <1>f DEF UnplugInv
  <2>2. \A q \in Routines : Unplugs(q)' => transaction'.id \in {0, routines'[q].tx}
    BY <1>a, <1>f DEF UnplugInv, Unplugs, Reports
  <2>3. \A q \in Routines : Plugs(q)' => Plugs(q) /\ q # r /\ routines'[q] = routines[q]
    BY <1>b, <1>c DEF Joined, Plugs
  <2>4. ASSUME NEW q \in Routines, Plugs(q)', Unplugs("remote stop")'
        PROVE  \/ At(q, "preparing")' \/ At(q, "refused")'
               \/ At(q, "authorising")' /\ (At("remote stop", "stopping")' \/ Before(bayCalls', "remote stop", q))
               \/ At(q, "starting")' /\ At("remote stop", "stopping")' /\ Before(bayCalls', "remote stop", q)
    <3>1. Unplugs("remote stop") /\ Plugs(q) /\ q # r /\ routines'[q] = routines[q]
      BY <1>f, <2>3, <2>4 DEF Routines, Unplugs, Reports
    <3>2. CASE r = "remote stop" BY <1>a, <1>b, <1>c, <3>1, <3>2 DEF UnplugInv, At
    <3>3. CASE r # "remote stop"
      BY <1>c, <3>1, <3>3 DEF Joined, UnplugInv, At, Routines
    <3> QED BY <3>2, <3>3
  <2> QED BY <2>1, <2>2, <2>4 DEF UnplugInv
<1>g. ASSUME NEW q \in Routines, Current(q)'
      PROVE  /\ Current(q) /\ transaction.id = routines'[q].tx /\ IsCharging
             /\ routines'[q].reading <= transaction.energy
             /\ q = r => routines'[q].reading = transaction.energy
             /\ q # r => routines'[q].reading = routines[q].reading
  <2>1. Current(q) /\ routines'[q].tx = routines[q].tx BY <1>d, <1>f, <1>g DEF Current
  <2>2. /\ transaction.id = routines[q].tx /\ routines[q].reading <= transaction.energy /\ IsCharging
    BY <2>1, CurrentCharges
  <2>3. transaction.energy \in Nat BY DEF BayTypeOK, Transactions
  <2>4. CASE q = r BY <1>b, <1>c, <2>1, <2>2, <2>3, <2>4 DEF Energy
  <2>5. CASE q # r BY <1>c, <2>1, <2>2, <2>5 DEF Joined
  <2> QED BY <2>4, <2>5
<1>6. MeterInv'
  <2>1. ASSUME NEW q \in Routines, At(q, "starting")' PROVE routines'[q].reading = register'
    BY <1>a, <1>b, <1>c, <2>1 DEF Joined, MeterInv, At
  <2>2. ASSUME NEW q \in Routines, Current(q)' PROVE server'.meter <= routines'[q].reading
    BY <1>d, <1>g, <2>2
  <2> QED BY <1>a, <1>d, <1>g, <2>1, <2>2 DEF MeterInv, IsCharging
<1>7. ReadingsInv'
  <2> SUFFICES ASSUME NEW p \in Routines, NEW q \in Routines, Current(p)', Current(q)',
                      Before(bayCalls', p, q)
               PROVE  routines'[p].reading <= routines'[q].reading
    BY DEF ReadingsInv
  <2>1. p # r BY <1>c DEF Joined
  <2>2. CASE q = r BY <1>g, <2>2
  <2>3. CASE q # r
    <3>1. Before(bayCalls, p, q) BY <1>c, <2>1, <2>3 DEF Joined
    <3> QED BY <1>g, <2>1, <2>3, <3>1 DEF ReadingsInv
  <2> QED BY <2>2, <2>3
<1>8. OpenedInv' BY <1>a, <1>b, <1>c, <1>d
      DEF Joined, OpenedInv, At, Plugs, Unplugs, IsCharging, Routines
<1> QED BY <1>1, <1>2, <1>3, <1>4, <1>5, <1>6, <1>7, <1>8, <1>c, <1>d DEF Joined

\* The server closes a transaction with a reading no lower than those it has, and none of it is
\* on its way any more.
LEMMA StopSettles ==
  ASSUME BayInv, NEW r \in Routines, At(r, "stopping"), ServerStops(r)
  PROVE  /\ server' \in [active : Nat, lastTx : Nat, meter : Nat] /\ server'.lastTx = server.lastTx
         /\ server'.active \in {0, server.active} /\ server'.active # routines[r].tx
         /\ server'.meter >= server.meter
         /\ Energy(r) \in Nat /\ server'.meter <= Energy(r)
         /\ server'.meter <= IF IsCharging THEN transaction.energy ELSE register
         /\ \A q \in Routines : routines[q].tx = server'.active => ~Reports(q)
<1>1. /\ server \in [active : Nat, lastTx : Nat, meter : Nat]
      /\ routines \in [Routines -> Awaits] /\ routines[r].reading \in Nat
      /\ transaction.energy \in Nat /\ transaction.id \in Nat /\ register \in Nat
  BY DEF BayInv, BayTypeOK, Awaits, Transactions
<1>2. /\ server.meter <= IF IsCharging THEN transaction.energy ELSE register
      /\ transaction.id \in {0, routines[r].tx}
      /\ \A q \in Routines : Reports(q) => routines[q].tx \in 1..server.lastTx
  BY DEF BayInv, MeterInv, UnplugInv, Unplugs, At
<1>3. Reports(r) /\ routines[r].tx # 0 BY ReportsOfOne DEF Reports, At
<1>4. Energy(r) = IF IsCharging THEN transaction.energy ELSE register
  BY <1>2, <1>3 DEF Energy, IsCharging
<1>5. CASE server.active = routines[r].tx
  <2>1. /\ IsCharging /\ server.meter <= routines[r].reading /\ routines[r].reading <= transaction.energy
    BY <1>3, <1>5, CurrentCharges DEF Current
  <2>2. /\ server' \in [active : Nat, lastTx : Nat, meter : Nat] /\ server'.meter = routines[r].reading
        /\ server'.active = 0 /\ server'.lastTx = server.lastTx
    BY <1>1, <1>5 DEF ServerStops
  <2> QED BY <1>1, <1>2, <1>3, <1>4, <2>1, <2>2
<1>6. CASE server.active # routines[r].tx
  <2>1. server' = server BY <1>6 DEF ServerStops
  <2>2. ASSUME NEW q \in Routines, routines[q].tx = server.active, Reports(q) PROVE FALSE
    <3>1. IsCharging /\ transaction.id = server.active BY <2>2, CurrentCharges DEF Current
    <3> QED BY <1>2, <1>6, <3>1 DEF IsCharging
  <2> QED BY <1>1, <1>2, <1>4, <1>6, <2>1, <2>2
<1> QED BY <1>5, <1>6

LEMMA StoppedKeeps ==
  ASSUME BayAssumption, BayInv, NEW r, Stopped(r) PROVE BayInv' /\ server'.meter >= server.meter
<1> USE DEF BayInv
<1>a. /\ r \in Routines /\ InFlight(r) /\ routines \in [Routines -> Awaits] /\ At(r, "stopping")
      /\ UNCHANGED <<now, loop, plugged, gone, default, opened, bayFaults>>
      /\ ~At(r, "idle") /\ Unplugs(r) /\ transaction.id \in {0, routines[r].tx}
      /\ routines[r].tx # 0
  BY InFlightWaits, ReportsOfOne DEF Stopped, BayTypeOK, At, Unplugs, UnplugInv, Reports
<1>d. /\ server' \in [active : Nat, lastTx : Nat, meter : Nat] /\ server'.lastTx = server.lastTx
      /\ server'.active \in {0, server.active} /\ server'.active # routines[r].tx
      /\ server'.meter >= server.meter
      /\ Energy(r) \in Nat /\ server'.meter <= Energy(r)
      /\ \A q \in Routines : routines[q].tx = server'.active => ~Reports(q)
  BY <1>a, StopSettles DEF Stopped
<1> DEFINE on == [routines[r] EXCEPT !.at = "available"]
<1>b. on \in Awaits /\ on.at = "available" /\ Asks(r, on)
  BY <1>a DEF Awaits, Stages, Stopped, Goes
<1> HIDE DEF on
<1>c. Joined(r) /\ routines'[r] = on
  BY <1>a, <1>b, AskMoves
<1>e. /\ transaction' \in Transactions /\ transaction'.id = 0 /\ register' = Energy(r)
      /\ ~IsCharging'
  BY DEF Stopped, NoTransaction, NoProfile, Transactions, Profiles, IsCharging
<1>f. \A q \in Routines : ~Current(q)'
  <2> SUFFICES ASSUME NEW q \in Routines, Current(q)' PROVE FALSE OBVIOUS
  <2>1. CASE q = r BY <1>b, <1>c, <2>1 DEF Current, Reports
  <2>2. CASE q # r BY <1>c, <1>d, <2>2 DEF Joined, Current, Reports
  <2> QED BY <2>1, <2>2
<1>1. BayTypeOK' BY <1>a, <1>b, <1>c, <1>d, <1>e DEF Joined, BayTypeOK
<1>2. LoopInv' BY <1>a, <1>b, <1>c, <1>d, <1>e DEF Joined, LoopInv, At, Plugs, Unplugs, Routines
<1>3. CarsInv' BY <1>a, <1>b, <1>c, <1>d, <1>e DEF Joined, CarsInv, At, Plugs, Routines
<1>4. TransactionInv'
  <2>1. server'.active <= server'.lastTx
    BY <1>d DEF TransactionInv, BayTypeOK
  <2> QED BY <1>d, <1>e, <2>1 DEF TransactionInv
<1>g. \A q \in Routines : (Plugs(q) \/ Unplugs(q) \/ Reports(q))' => q # r /\ routines'[q] = routines[q]
  BY <1>b, <1>c DEF Joined, Plugs, Unplugs, Reports
<1>5. UnplugInv'
  <2>1. \A q \in Routines : Reports(q)' => routines'[q].tx \in 1..server'.lastTx
    BY <1>d, <1>g DEF UnplugInv, Reports
  <2>2. ASSUME NEW q \in Routines, Plugs(q)', Unplugs("remote stop")'
        PROVE  \/ At(q, "preparing")' \/ At(q, "refused")'
               \/ At(q, "authorising")' /\ (At("remote stop", "stopping")' \/ Before(bayCalls', "remote stop", q))
               \/ At(q, "starting")' /\ At("remote stop", "stopping")' /\ Before(bayCalls', "remote stop", q)
    <3>1. /\ q # r /\ routines'[q] = routines[q] /\ "remote stop" \in Routines \ {r}
          /\ routines'["remote stop"] = routines["remote stop"]
      BY <1>g, <2>2 DEF Routines
    <3>2. Before(bayCalls', "remote stop", q) <=> Before(bayCalls, "remote stop", q)
      BY <1>c, <3>1 DEF Joined
    <3> QED BY <2>2, <3>1, <3>2 DEF UnplugInv, At, Plugs, Unplugs
  <2> QED BY <1>e, <2>1, <2>2 DEF UnplugInv
<1>6. MeterInv'
  <2>1. ASSUME NEW q \in Routines, At(q, "starting")' PROVE routines'[q].reading = register'
    <3>1. At(q, "starting") /\ routines'[q] = routines[q] BY <1>b, <1>c, <2>1 DEF Joined, At
    <3>2. transaction.id = 0 BY <3>1 DEF TransactionInv, Plugs, At, IsCharging
    <3> QED BY <1>a, <1>e, <3>1, <3>2 DEF MeterInv, Energy
  <2> QED BY <1>d, <1>e, <1>f, <2>1 DEF MeterInv
<1>7. ReadingsInv' BY <1>f DEF ReadingsInv
<1>8. OpenedInv'
  <2>1. \A q \in Routines : Plugs(q)' => Plugs(q) /\ routines'[q] = routines[q]
    BY <1>g DEF Plugs
  <2>2. loop.at = "waiting" => r = "remote stop"
    BY <1>a DEF LoopInv, At, Routines
  <2> QED BY <1>a, <2>1, <2>2 DEF OpenedInv
<1> QED BY <1>1, <1>2, <1>3, <1>4, <1>5, <1>6, <1>7, <1>8, <1>c, <1>d DEF Joined

LEMMA ToldAvailableKeeps ==
  ASSUME BayAssumption, BayInv, NEW r, ToldAvailable(r) PROVE BayInv'
<1> USE DEF BayInv
<1>a. /\ r \in Routines /\ InFlight(r) /\ routines \in [Routines -> Awaits] /\ At(r, "available")
      /\ UNCHANGED <<now, plugged, transaction, register, default, server, opened, bayFaults>>
      /\ ~At(r, "idle") /\ Resting.at = "idle" /\ Returns(r)
  BY InFlightWaits DEF ToldAvailable, BayTypeOK, At, Resting
<1>b. /\ loop' \in Loops /\ gone' = gone
      /\ \/ r = "runner" /\ loop'.at = "scan" /\ loop.at = "busy" /\ ~Plugs("remote start")
         \/ r # "runner" /\ loop' = loop
  BY <1>a, RunnerGoesOn DEF ToldAvailable
<1>c. Returned(r)
  BY <1>a, ReturnMoves
<1>1. BayTypeOK' BY <1>a, <1>b, <1>c DEF Returned, BayTypeOK
<1>2. LoopInv' BY <1>a, <1>b, <1>c DEF Returned, LoopInv, At, Plugs, Unplugs, Routines
<1>3. CarsInv' BY <1>a, <1>b, <1>c DEF Returned, CarsInv, At, Plugs, Routines
<1>4. TransactionInv' BY <1>a, <1>b, <1>c
      DEF Returned, TransactionInv, At, Plugs, Unplugs, IsCharging, Routines
<1>5. UnplugInv' BY <1>a, <1>b, <1>c DEF Returned, UnplugInv, At, Plugs, Unplugs, Reports, Routines
<1>6. MeterInv' BY <1>a, <1>b, <1>c DEF Returned, MeterInv, At, IsCharging, Reports, Current
<1>7. ReadingsInv' BY <1>a, <1>b, <1>c DEF Returned, ReadingsInv, At, Reports, Current
<1>8. OpenedInv' BY <1>a, <1>b, <1>c DEF Returned, OpenedInv, At, Plugs, Unplugs, IsCharging, Routines
<1> QED BY <1>1, <1>2, <1>3, <1>4, <1>5, <1>6, <1>7, <1>8, <1>c DEF Returned

\* A CALL that fails, wherever its routine stands, keeps the invariant: the loop is dead at worst.
LEMMA CallFailsKeeps ==
  ASSUME BayAssumption, BayInv, NEW r, CallFails(r) PROVE BayInv' /\ server'.meter >= server.meter
<1> USE DEF BayInv
<1>a. /\ r \in Routines /\ InFlight(r) /\ routines \in [Routines -> Awaits] /\ ~At(r, "idle")
      /\ At(r, "authorising") \/ At(r, "starting") \/ At(r, "stopping")
      /\ UNCHANGED <<now, plugged, gone, transaction, register, default>>
      /\ Resting \in Awaits /\ Resting.at = "idle"
  BY InFlightWaits DEF CallFails, BayTypeOK, At, Resting, Awaits, Stages
<1>b. bayFaults' \in Nat /\ bayFaults' # 0
  <2>1. bayFaults \in Nat BY DEF BayTypeOK
  <2>2. bayFaults' = bayFaults + 1 BY DEF CallFails, Fault
  <2> QED BY <2>1, <2>2
<1>d. /\ server' \in [active : Nat, lastTx : Nat, meter : Nat] /\ server'.lastTx >= server.lastTx
      /\ server'.active <= server'.lastTx /\ server'.meter >= server.meter
      /\ server'.meter <= IF IsCharging THEN transaction.energy ELSE register
      /\ \A q \in Routines : Reports(q) /\ routines[q].tx = server'.active => server' = server
      /\ opened' \in [Cars -> Nat]
  <2>1. /\ server \in [active : Nat, lastTx : Nat, meter : Nat] /\ opened \in [Cars -> Nat]
        /\ server.active <= server.lastTx /\ register \in Nat /\ transaction.energy \in Nat
        /\ server.meter <= IF IsCharging THEN transaction.energy ELSE register
    BY DEF BayTypeOK, TransactionInv, MeterInv, Transactions
  <2>2. CASE UNCHANGED <<server, opened>>
    BY <2>1, <2>2
  <2>3. CASE At(r, "starting") /\ ServerStarts(r)
    <3>1. ~IsCharging /\ routines[r].reading = register /\ routines[r].car \in Cars
      BY <1>a, <2>3 DEF TransactionInv, MeterInv, Plugs, At, CarsInv, BayTypeOK
    <3>2. /\ server' = [active |-> server.lastTx + 1, lastTx |-> server.lastTx + 1, meter |-> register]
          /\ opened' = [opened EXCEPT ![routines[r].car] = @ + 1]
      BY <2>3, <3>1 DEF ServerStarts
    <3>3. \A q \in Routines : Reports(q) => routines[q].tx <= server.lastTx /\ routines[q].tx \in Nat
      BY ReportsOfOne
    <3> QED BY <2>1, <3>1, <3>2, <3>3
  <2>4. CASE At(r, "stopping") /\ ServerStops(r) /\ UNCHANGED opened
    <3> HIDE DEF BayInv
    <3>1. /\ server' \in [active : Nat, lastTx : Nat, meter : Nat] /\ server'.lastTx = server.lastTx
          /\ server'.active \in {0, server.active} /\ server'.meter >= server.meter
          /\ server'.meter <= IF IsCharging THEN transaction.energy ELSE register
          /\ \A q \in Routines : routines[q].tx = server'.active => ~Reports(q)
      BY <1>a, <2>4, StopSettles
    <3> QED BY <2>1, <2>4, <3>1
  <2> QED BY <2>2, <2>3, <2>4 DEF CallFails
<1>e. CASE r = "remote stop"
  <2>1. loop' = Exited /\ routines' = [q \in Routines |-> Resting] /\ bayCalls' = <<>>
    BY <1>e DEF CallFails
  <2>b. /\ loop' \in Loops /\ loop'.at = "exited" /\ \A q \in Routines : routines'[q] = Resting
        /\ routines' \in [Routines -> Awaits] /\ bayCalls' \in Seq(Routines)
    BY <1>a, <2>1 DEF Exited, Loops
  <2>c. QueueInv' BY <1>a, <2>1, <2>b, NobodyWaits DEF QueueInv, At
  <2>2. BayTypeOK' BY <1>a, <1>b, <1>d, <2>b DEF BayTypeOK
  <2>3. \A q \in Routines : ~Plugs(q)' /\ ~Unplugs(q)' /\ ~Reports(q)' /\ At(q, "idle")'
    BY <1>a, <2>b DEF Plugs, Unplugs, Reports, At
  <2>4. LoopInv' BY <1>a, <2>b, <2>3 DEF LoopInv, Routines, At
  <2>5. CarsInv' BY <1>a, <2>3 DEF CarsInv, Routines
  <2>6. TransactionInv' 
    <3>1. transaction'.id <= server'.lastTx BY <1>a, <1>d DEF TransactionInv, BayTypeOK, Transactions
    <3> QED BY <1>a, <1>d, <2>b, <2>3, <3>1 DEF TransactionInv, IsCharging
  <2>7. UnplugInv' BY <2>3 DEF UnplugInv, Routines
  <2>8. MeterInv' /\ ReadingsInv'
    <3>1. \A q \in Routines : ~At(q, "starting")' BY <2>3 DEF At
    <3> QED BY <1>a, <1>d, <2>3, <3>1 DEF MeterInv, ReadingsInv, Current, IsCharging
  <2>9. OpenedInv' BY <1>b DEF OpenedInv
  <2> QED BY <1>d, <2>c, <2>2, <2>4, <2>5, <2>6, <2>7, <2>8, <2>9
<1>f. CASE r # "remote stop"
  <2>b. loop' \in Loops /\ Returns(r) /\ IF r = "runner" THEN loop'.at = "dead" ELSE loop' = loop
    <3>1. loop \in Loops /\ Dead \in Loops /\ Dead.at = "dead" BY DEF BayTypeOK, Loops, Dead
    <3>2. Returns(r) /\ loop' = IF r = "runner" THEN Dead ELSE loop BY <1>f DEF CallFails
    <3> QED BY <3>1, <3>2
  <2>c. Returned(r)
    BY <1>a, <2>b, ReturnMoves
  <2>e. \A q \in Routines : (Plugs(q) \/ Unplugs(q) \/ Reports(q) \/ ~At(q, "idle"))' =>
          q # r /\ routines'[q] = routines[q]
    BY <1>a, <2>c DEF Returned, Plugs, Unplugs, Reports, At
  <2>1. BayTypeOK' BY <1>a, <1>b, <1>d, <2>b, <2>c DEF Returned, BayTypeOK
  <2>2. LoopInv' BY <1>a, <1>f, <2>b, <2>c DEF Returned, LoopInv, At, Plugs, Unplugs, Routines
  <2>3. CarsInv' BY <1>a, <2>c DEF Returned, CarsInv, At, Plugs, Routines
  <2>4. TransactionInv'
    <3>1. transaction'.id <= server'.lastTx BY <1>a, <1>d DEF TransactionInv, BayTypeOK, Transactions
    <3>2. \A q \in Routines : Plugs(q)' => ~IsCharging'
      BY <1>a, <2>e DEF TransactionInv, Plugs, IsCharging
    <3>3. Unplugs("runner") => Unplugs("runner")' \/ loop'.at = "dead"
      BY <2>b, <2>c DEF Returned, Unplugs, Routines
    <3>4. loop.at \in {"dead", "exited"} => loop' = loop
      BY <1>a, <2>b DEF LoopInv
    <3> QED BY <1>a, <1>d, <3>1, <3>2, <3>3, <3>4 DEF TransactionInv, IsCharging
  <2>5. UnplugInv'
    <3>1. ASSUME NEW q \in Routines, Reports(q)' PROVE routines'[q].tx \in 1..server'.lastTx
      <4>1. routines'[q] = routines[q] /\ Reports(q) BY <2>e, <3>1 DEF Reports
      <4> HIDE DEF BayInv
      <4> QED BY <1>d, <4>1, ReportsOfOne DEF BayInv, BayTypeOK
    <3>2. \A q \in Routines : Unplugs(q)' => transaction'.id \in {0, routines'[q].tx}
      BY <1>a, <2>e DEF UnplugInv, Unplugs
    <3>3. ASSUME NEW q \in Routines, Plugs(q)', Unplugs("remote stop")'
          PROVE  \/ At(q, "preparing")' \/ At(q, "refused")'
                 \/ At(q, "authorising")' /\ (At("remote stop", "stopping")' \/ Before(bayCalls', "remote stop", q))
                 \/ At(q, "starting")' /\ At("remote stop", "stopping")' /\ Before(bayCalls', "remote stop", q)
      <4>1. q # r /\ routines'[q] = routines[q] /\ routines'["remote stop"] = routines["remote stop"]
        BY <1>f, <2>e, <3>3 DEF Routines
      <4>2. Before(bayCalls', "remote stop", q) <=> Before(bayCalls, "remote stop", q)
        BY <1>f, <2>c, <4>1 DEF Returned, Routines
      <4> QED BY <3>3, <4>1, <4>2 DEF UnplugInv, At, Plugs, Unplugs
    <3> QED BY <3>1, <3>2, <3>3 DEF UnplugInv
  <2>6. MeterInv'
    <3>1. \A q \in Routines : At(q, "starting")' => routines'[q].reading = register'
      BY <1>a, <2>e DEF MeterInv, At, Plugs
    <3>2. \A q \in Routines : Current(q)' => routines'[q] = routines[q] /\ server' = server /\ Current(q)
      BY <1>d, <2>e DEF Current, Reports
    <3> QED BY <1>a, <1>d, <3>1, <3>2 DEF MeterInv, IsCharging
  <2>7. ReadingsInv'
    BY <1>d, <2>c, <2>e DEF Returned, ReadingsInv, Current, Reports
  <2>8. OpenedInv' BY <1>b DEF OpenedInv
  <2> QED BY <1>d, <2>c, <2>1, <2>2, <2>3, <2>4, <2>5, <2>6, <2>7, <2>8 DEF Returned
<1> QED BY <1>e, <1>f

-----------------------------------------------------------------------------

\* When the runner looks at the arrivals nobody plugs in; the car that is due first finds the bay free.
LEMMA BayIsFree ==
  ASSUME BayAssumption, BayInv, Scanning, NEW c \in Cars, Due(c), FirstDue(c)
  PROVE  /\ \A r \in Routines : ~Plugs(r)
         /\ ~IsCharging /\ c \notin plugged /\ c \notin gone /\ (bayFaults = 0 => opened[c] = 0)
         /\ \A d \in Cars : d < c => d \in gone
<1>1. \A r \in Routines : ~Plugs(r)
  BY DEF BayInv, LoopInv, Scanning, Plugs, At, Routines
<1>2. c \notin plugged /\ c \notin gone
  BY DEF Due, BayInv, CarsInv
<1>3. /\ now \in Nat /\ \A d \in plugged : d \in Cars
      /\ \A d \in Cars : d \in Int
  <2>1. Cars = 1..Cardinality(Cars) BY DEF BayAssumption
  <2>2. \A n : \A d \in 1..n : d \in Int OBVIOUS
  <2>3. \A d \in Cars : d \in Int BY <2>1, <2>2
  <2> QED BY <2>3 DEF BayInv, BayTypeOK
<1>4. ASSUME NEW d \in Cars, d < c PROVE d \in gone
  <2>1. Arrive[d] < Depart[d] /\ Depart[d] <= Arrive[c] /\ Arrive[c] <= now
    BY <1>4 DEF BayAssumption, Due
  <2>2. Arrive[d] \in Int /\ Depart[d] \in Int /\ Arrive[c] \in Int
    <3>1. 0..MaxNow \subseteq Int OBVIOUS
    <3> QED BY <3>1 DEF BayAssumption
  <2>3. now >= Arrive[d] /\ now >= Depart[d] BY <1>3, <2>1, <2>2
  <2> QED BY <1>4, <2>3 DEF FirstDue, Due, Leaving
<1>5. ASSUME IsCharging PROVE FALSE
  <2>1. transaction.car \in plugged /\ transaction.car \notin gone
    BY <1>5 DEF BayInv, TransactionInv, LoopInv, Scanning, Unplugs, At
  <2>2. ~(transaction.car < c) BY <1>3, <1>4, <2>1
  <2>3. ~(c < transaction.car) BY <1>2, <2>1 DEF BayInv, CarsInv
  <2>4. transaction.car # c BY <1>2, <2>1
  <2>5. transaction.car \in Int /\ c \in Int BY <1>3, <2>1
  <2> QED BY <2>2, <2>3, <2>4, <2>5
<1>6. bayFaults = 0 => opened[c] = 0
  <2>1. opened[c] \in Nat BY DEF BayInv, BayTypeOK
  <2>2. bayFaults = 0 => ~(opened[c] > 0) BY <1>2 DEF BayInv, OpenedInv
  <2> QED BY <2>1, <2>2
<1> QED BY <1>1, <1>2, <1>4, <1>5, <1>6

\* The first CALL of plugIn.
LEMMA PluggingAwaits ==
  ASSUME BayInv, NEW c \in Cars
  PROVE  Plugging(c) \in Awaits /\ Plugging(c).at = "preparing" /\ Plugging(c).car = c
BY DEF Plugging, Resting, Awaits, Stages, BayInv, BayTypeOK

\* The runner's steps keep the invariant.
LEMMA ArriveWithCardKeeps ==
  ASSUME BayAssumption, BayInv, NEW c, ArriveWithCard(c) PROVE BayInv'
<1> USE DEF BayInv
<1>a. /\ c \in Cars /\ Scanning /\ Due(c) /\ FirstDue(c) /\ plugged' = plugged \cup {c}
      /\ UNCHANGED <<now, gone, transaction, register, default, server, opened, bayFaults>>
      /\ "runner" \in Routines /\ At("runner", "idle")
  BY DEF ArriveWithCard, Scanning, Routines
<1>d. /\ \A q \in Routines : ~Plugs(q)
      /\ ~IsCharging /\ c \notin plugged /\ c \notin gone /\ (bayFaults = 0 => opened[c] = 0)
      /\ \A d \in Cars : d < c => d \in gone
  BY <1>a, BayIsFree
<1> DEFINE on == Plugging(c)
<1>b. /\ on \in Awaits /\ on.at = "preparing" /\ on.car = c /\ Begins("runner", on)
      /\ loop' \in Loops /\ loop'.at = "busy"
  BY <1>a, PluggingAwaits DEF ArriveWithCard, PlugIn, Loops
<1> HIDE DEF on
<1>c. Joined("runner") /\ routines'["runner"] = on
  BY <1>a, <1>b, BeginMoves
<1>1. BayTypeOK' BY <1>a, <1>b, <1>c, <1>d DEF Joined, BayTypeOK
<1>2. LoopInv' BY <1>a, <1>b, <1>c, <1>d DEF Joined, LoopInv, At, Plugs, Unplugs, Routines
<1>3. CarsInv' BY <1>a, <1>b, <1>c, <1>d DEF Joined, CarsInv, At, Plugs, Routines
<1>4. TransactionInv' BY <1>a, <1>b, <1>c, <1>d
      DEF Joined, TransactionInv, At, Plugs, Unplugs, IsCharging, Routines
<1>5. UnplugInv' BY <1>a, <1>b, <1>c, <1>d DEF Joined, UnplugInv, At, Plugs, Unplugs, Reports, Routines
<1>6. MeterInv' BY <1>a, <1>b, <1>c, <1>d DEF Joined, MeterInv, At, IsCharging, Reports, Current
<1>7. ReadingsInv' BY <1>a, <1>b, <1>c, <1>d DEF Joined, ReadingsInv, At, Reports, Current
<1>8. OpenedInv' BY <1>a, <1>b, <1>c, <1>d
      DEF Joined, OpenedInv, At, Plugs, Unplugs, IsCharging, Routines
<1> QED BY <1>1, <1>2, <1>3, <1>4, <1>5, <1>6, <1>7, <1>8, <1>c DEF Joined

LEMMA ArriveWithAppKeeps ==
  ASSUME BayAssumption, BayInv, NEW c, ArriveWithApp(c) PROVE BayInv'
<1> USE DEF BayInv
<1>a. /\ c \in Cars /\ Scanning /\ Due(c) /\ FirstDue(c) /\ plugged' = plugged \cup {c}
      /\ UNCHANGED <<now, gone, transaction, register, default, server, opened>>
      /\ "remote start" \in Routines /\ At("runner", "idle")
  BY DEF ArriveWithApp, Scanning, Routines, BayAssumption
<1>d. /\ \A q \in Routines : ~Plugs(q)
      /\ ~IsCharging /\ c \notin plugged /\ c \notin gone /\ (bayFaults = 0 => opened[c] = 0)
      /\ \A d \in Cars : d < c => d \in gone
  BY <1>a, BayIsFree
<1>e. /\ loop' \in Loops /\ bayFaults' \in Nat
      /\ \/ loop'.at = "waiting" /\ loop'.car = c /\ bayFaults' = bayFaults
         \/ loop'.at = "dead" /\ bayFaults' # 0
  <2>1. bayFaults \in Nat /\ c \in Cars BY <1>a DEF BayTypeOK
  <2>2. CASE loop' = [at |-> "waiting", car |-> c] /\ UNCHANGED bayFaults BY <2>1, <2>2 DEF Loops
  <2>3. CASE loop' = Dead /\ Fault BY <2>1, <2>3 DEF Loops, Dead, Fault
  <2> QED BY <2>2, <2>3 DEF ArriveWithApp
<1>f. CASE Begins("remote start", Plugging(c)) /\ At("remote start", "idle")
  <2> DEFINE on == Plugging(c)
  <2>b. /\ on \in Awaits /\ on.at = "preparing" /\ on.car = c /\ Begins("remote start", on)
    BY <1>a, <1>f, PluggingAwaits
  <2> HIDE DEF on
  <2>c. Joined("remote start") /\ routines'["remote start"] = on
    BY <1>a, <1>f, <2>b, BeginMoves
  <2>1. BayTypeOK' BY <1>a, <2>b, <2>c, <1>d, <1>e DEF Joined, BayTypeOK
  <2>2. LoopInv' BY <1>a, <2>b, <2>c, <1>d, <1>e DEF Joined, LoopInv, At, Plugs, Unplugs, Routines
  <2>3. CarsInv' BY <1>a, <2>b, <2>c, <1>d, <1>e DEF Joined, CarsInv, At, Plugs, Routines
  <2>4. TransactionInv' BY <1>a, <2>b, <2>c, <1>d, <1>e
        DEF Joined, TransactionInv, At, Plugs, Unplugs, IsCharging, Routines
  <2>5. UnplugInv' BY <1>a, <2>b, <2>c, <1>d, <1>e
        DEF Joined, UnplugInv, At, Plugs, Unplugs, Reports, Routines
  <2>6. MeterInv' BY <1>a, <2>b, <2>c, <1>d, <1>e DEF Joined, MeterInv, At, IsCharging, Reports, Current
  <2>7. ReadingsInv' BY <1>a, <2>b, <2>c, <1>d, <1>e DEF Joined, ReadingsInv, At, Reports, Current
  <2>8. OpenedInv' BY <1>a, <2>b, <2>c, <1>d, <1>e
        DEF Joined, OpenedInv, At, Plugs, Unplugs, IsCharging, Routines
  <2> QED BY <2>1, <2>2, <2>3, <2>4, <2>5, <2>6, <2>7, <2>8, <2>c DEF Joined
<1>g. CASE UNCHANGED <<routines, bayCalls>>
  <2>b. routines' = routines /\ bayCalls' = bayCalls BY <1>g
  <2>c. QueueInv' BY <2>b DEF QueueInv, At
  <2>1. BayTypeOK' BY <1>a, <2>b, <2>c, <1>d, <1>e DEF BayTypeOK
  <2>2. LoopInv' BY <1>a, <2>b, <2>c, <1>d, <1>e DEF LoopInv, At, Plugs, Unplugs, Routines
  <2>3. CarsInv' BY <1>a, <2>b, <2>c, <1>d, <1>e DEF CarsInv, At, Plugs, Routines
  <2>4. TransactionInv' BY <1>a, <2>b, <2>c, <1>d, <1>e
        DEF TransactionInv, At, Plugs, Unplugs, IsCharging, Routines
  <2>5. UnplugInv' BY <1>a, <2>b, <2>c, <1>d, <1>e DEF UnplugInv, At, Plugs, Unplugs, Reports, Routines
  <2>6. MeterInv' BY <1>a, <2>b, <2>c, <1>d, <1>e DEF MeterInv, At, IsCharging, Reports, Current
  <2>7. ReadingsInv' BY <1>a, <2>b, <2>c, <1>d, <1>e DEF ReadingsInv, At, Reports, Current
  <2>8. OpenedInv' BY <1>a, <2>b, <2>c, <1>d, <1>e
        DEF OpenedInv, At, Plugs, Unplugs, IsCharging, Routines
  <2> QED BY <2>1, <2>2, <2>3, <2>4, <2>5, <2>6, <2>7, <2>8, <2>c
<1> QED BY <1>f, <1>g DEF ArriveWithApp

LEMMA SeesOrGivesUpKeeps ==
  ASSUME BayAssumption, BayInv, SeesOrGivesUp PROVE BayInv'
<1> USE DEF BayInv
<1>a. /\ loop.at = "waiting" /\ At("runner", "idle") /\ "runner" \in Routines
      /\ loop.car \in plugged /\ loop.car \in Cars /\ loop.car \notin gone
      /\ UNCHANGED <<now, plugged, gone, transaction, register, default, server, opened, bayFaults>>
  BY DEF SeesOrGivesUp, LoopInv, Routines, BayTypeOK
<1>f. CASE IsCharging
  <2>b. /\ routines' = routines /\ bayCalls' = bayCalls /\ loop' \in Loops /\ loop'.at = "scan"
        /\ \A q \in Routines : ~Plugs(q)
    BY <1>f DEF SeesOrGivesUp, Loops, TransactionInv
  <2>c. QueueInv' BY <2>b DEF QueueInv, At
  <2>1. BayTypeOK' BY <1>a, <2>b, <2>c DEF BayTypeOK
  <2>2. LoopInv' BY <1>a, <2>b, <2>c DEF LoopInv, At, Plugs, Unplugs, Routines
  <2>3. CarsInv' BY <1>a, <2>b, <2>c DEF CarsInv, At, Plugs, Routines
  <2>4. TransactionInv' BY <1>a, <2>b, <2>c DEF TransactionInv, At, Plugs, Unplugs, IsCharging, Routines
  <2>5. UnplugInv' BY <1>a, <2>b, <2>c DEF UnplugInv, At, Plugs, Unplugs, Reports, Routines
  <2>6. MeterInv' BY <1>a, <2>b, <2>c DEF MeterInv, At, IsCharging, Reports, Current
  <2>7. ReadingsInv' BY <1>a, <2>b, <2>c DEF ReadingsInv, At, Reports, Current
  <2>8. OpenedInv' BY <1>a, <2>b, <2>c DEF OpenedInv, At, Plugs, Unplugs, IsCharging, Routines
  <2> QED BY <2>1, <2>2, <2>3, <2>4, <2>5, <2>6, <2>7, <2>8, <2>c
<1>g. CASE ~IsCharging
  <2> DEFINE on == Plugging(loop.car)
  <2>b. /\ on \in Awaits /\ on.at = "preparing" /\ on.car = loop.car /\ Begins("runner", on)
        /\ loop' \in Loops /\ loop'.at = "busy"
        /\ ~Plugs("remote start") /\ opened' = opened /\ ~IsCharging
    <3>1. on \in Awaits /\ on.at = "preparing" /\ on.car = loop.car BY <1>a, PluggingAwaits
    <3>2. /\ Begins("runner", on) /\ loop' = [loop EXCEPT !.at = "busy"] /\ At("remote start", "idle")
      BY <1>g DEF SeesOrGivesUp, PlugIn
    <3> QED BY <1>a, <1>g, <3>1, <3>2 DEF Loops, BayTypeOK, Plugs, At
  <2> HIDE DEF on
  <2>c. Joined("runner") /\ routines'["runner"] = on
    BY <1>a, <2>b, BeginMoves
  <2>1. BayTypeOK' BY <1>a, <2>b, <2>c DEF Joined, BayTypeOK
  <2>2. LoopInv' BY <1>a, <2>b, <2>c DEF Joined, LoopInv, At, Plugs, Unplugs, Routines
  <2>3. CarsInv' BY <1>a, <2>b, <2>c DEF Joined, CarsInv, At, Plugs, Routines
  <2>4. TransactionInv' BY <1>a, <2>b, <2>c
        DEF Joined, TransactionInv, At, Plugs, Unplugs, IsCharging, Routines
  <2>5. UnplugInv' BY <1>a, <2>b, <2>c DEF Joined, UnplugInv, At, Plugs, Unplugs, Reports, Routines
  <2>6. MeterInv' BY <1>a, <2>b, <2>c DEF Joined, MeterInv, At, IsCharging, Reports, Current
  <2>7. ReadingsInv' BY <1>a, <2>b, <2>c DEF Joined, ReadingsInv, At, Reports, Current
  <2>8. OpenedInv' BY <1>a, <2>b, <2>c DEF Joined, OpenedInv, At, Plugs, Unplugs, IsCharging, Routines
  <2> QED BY <2>1, <2>2, <2>3, <2>4, <2>5, <2>6, <2>7, <2>8, <2>c DEF Joined
<1> QED BY <1>f, <1>g

\* A tick of what charges.
LEMMA ChargeTicks ==
  ASSUME BayAssumption, BayInv, IsCharging, NEW safe \in BOOLEAN,
         NEW t \in Transactions, t.id = transaction.id, t.car = transaction.car,
         t.energy = transaction.energy, t.drawn = transaction.drawn
  PROVE  LET u == TickedUnder(t, safe) IN
         /\ u \in Transactions /\ u.id = transaction.id /\ u.car = transaction.car
         /\ u.energy >= transaction.energy /\ u.drawn <= Room[transaction.car]
<1>1. /\ now \in Nat /\ t.car \in Cars /\ t.drawn <= Room[t.car]
  BY DEF BayInv, BayTypeOK, TransactionInv
<1> DEFINE u == TickedUnder(t, safe)
<1>2. u \in Transactions /\ u.id = t.id /\ u.car = t.car /\ u.energy >= t.energy /\ u.drawn <= Room[t.car]
  BY <1>1, TicksGrow
<1> HIDE DEF u
<1>3. u \in Transactions /\ u.id = transaction.id /\ u.car = transaction.car
      /\ u.energy >= transaction.energy /\ u.drawn <= Room[transaction.car]
  BY <1>2
<1> QED BY <1>3 DEF u

\* What only charges or changes the profile of what charges.
LEMMA TickKeeps ==
  ASSUME BayInv, transaction' \in Transactions, transaction'.id = transaction.id,
         transaction'.car = transaction.car, transaction'.energy >= transaction.energy,
         IsCharging => transaction'.drawn <= Room[transaction.car],
         default' \in BOOLEAN, now' \in Nat,
         UNCHANGED <<loop, plugged, gone, routines, bayCalls, register, server, opened, bayFaults>>
  PROVE  BayInv'
<1> USE DEF BayInv
<1>1. /\ transaction.energy \in Nat /\ transaction'.energy \in Nat /\ server.meter \in Nat
      /\ routines \in [Routines -> Awaits]
  BY DEF BayTypeOK, Transactions
<1>2. BayTypeOK' BY DEF BayTypeOK
<1>3. QueueInv' /\ LoopInv' /\ CarsInv' BY DEF QueueInv, LoopInv, CarsInv, At, Plugs
<1>4. TransactionInv' BY DEF TransactionInv, IsCharging, Plugs, Unplugs
<1>5. UnplugInv' BY DEF UnplugInv, Reports, Unplugs, Plugs, At
<1>6. MeterInv'
  <2>1. ASSUME NEW q \in Routines, Current(q)'
        PROVE  /\ transaction'.id = routines'[q].tx /\ server'.meter <= routines'[q].reading
               /\ routines'[q].reading <= transaction'.energy
    <3>1. Current(q) BY <2>1 DEF Current, Reports
    <3>2. routines[q].reading \in Nat BY <1>1 DEF Awaits
    <3> QED BY <1>1, <3>1, <3>2 DEF MeterInv
  <2>2. server'.meter <= IF IsCharging' THEN transaction'.energy ELSE register'
    BY <1>1 DEF MeterInv, IsCharging
  <2>3. \A q \in Routines : At(q, "starting")' => routines'[q].reading = register'
    BY DEF MeterInv, At
  <2> QED BY <2>1, <2>2, <2>3 DEF MeterInv
<1>7. ReadingsInv' BY DEF ReadingsInv, Current, Reports
<1>8. OpenedInv' BY DEF OpenedInv, IsCharging, Plugs, Unplugs
<1> QED BY <1>2, <1>3, <1>4, <1>5, <1>6, <1>7, <1>8

\* So do the commands of the central system, and time.
LEMMA CommandsKeep ==
  ASSUME BayAssumption, BayInv, (\E limit \in Limits : SetProfile(limit)) \/ SetDefault \/ ClearProfile
         \/ Advance
  PROVE  BayInv' /\ server' = server
<1>1. /\ now \in Nat /\ transaction \in Transactions /\ default \in BOOLEAN
      /\ transaction.energy \in Nat
      /\ IsCharging => transaction.drawn <= Room[transaction.car]
  BY DEF BayInv, BayTypeOK, Transactions, TransactionInv
<1>2. ASSUME NEW limit \in Limits, SetProfile(limit) PROVE BayInv' /\ server' = server
  <2> DEFINE t == [transaction EXCEPT
                     !.profile = [limit |-> limit, from |-> now, until |-> now + ProfileTime]]
  <2>1. limit \in Nat /\ now + ProfileTime \in Int
    <3>1. 0..MaxPower \subseteq Nat OBVIOUS
    <3> QED BY <1>1, <3>1 DEF BayAssumption
  <2>2. /\ t \in Transactions /\ t.id = transaction.id /\ t.car = transaction.car
        /\ t.energy = transaction.energy /\ t.drawn = transaction.drawn
    BY <1>1, <2>1 DEF Transactions, Profiles
  <2>3. transaction' = TickedUnder(t, default) /\ IsCharging /\ server' = server
    BY <1>2 DEF SetProfile, Ticked
  <2> HIDE DEF t
  <2>4. /\ transaction' \in Transactions /\ transaction'.id = transaction.id
        /\ transaction'.car = transaction.car /\ transaction'.energy >= transaction.energy
        /\ transaction'.drawn <= Room[transaction.car]
    BY <1>1, <2>2, <2>3, ChargeTicks
  <2>5. BayInv' BY <1>1, <1>2, <2>4, TickKeeps DEF SetProfile
  <2> QED BY <2>3, <2>5
<1>3. CASE SetDefault
  <2>1. CASE IsCharging
    <3>1. transaction' = TickedUnder(transaction, TRUE) /\ default' = TRUE BY <1>3, <2>1 DEF SetDefault
    <3>2. /\ transaction' \in Transactions /\ transaction'.id = transaction.id
          /\ transaction'.car = transaction.car /\ transaction'.energy >= transaction.energy
          /\ transaction'.drawn <= Room[transaction.car]
      BY <1>1, <2>1, <3>1, ChargeTicks
    <3> QED BY <1>1, <1>3, <3>1, <3>2, TickKeeps DEF SetDefault
  <2>2. CASE ~IsCharging
    <3>1. transaction' = transaction /\ default' = TRUE BY <1>3, <2>2 DEF SetDefault
    <3>2. transaction'.energy >= transaction.energy BY <1>1, <3>1
    <3> QED BY <1>1, <1>3, <2>2, <3>1, <3>2, TickKeeps DEF SetDefault
  <2> QED BY <2>1, <2>2
<1>4. CASE ClearProfile
  <2>1. /\ transaction' \in Transactions /\ transaction'.id = transaction.id
        /\ transaction'.car = transaction.car /\ transaction'.energy = transaction.energy
        /\ transaction'.drawn = transaction.drawn
    BY <1>1, <1>4 DEF ClearProfile, Transactions, NoProfile, Profiles
  <2>2. transaction'.energy >= transaction.energy BY <1>1, <2>1
  <2> QED BY <1>1, <1>4, <2>1, <2>2, TickKeeps DEF ClearProfile
<1>5. CASE Advance
  <2>1. now' \in Nat /\ transaction' = transaction /\ transaction'.energy >= transaction.energy
    BY <1>1, <1>5 DEF Advance
  <2> QED BY <1>1, <1>5, <2>1, TickKeeps DEF Advance
<1> QED BY <1>2, <1>3, <1>4, <1>5

\* A routine begins with a reading of what charges, after a tick.
LEMMA ReporterBegins ==
  ASSUME BayAssumption, BayInv, IsCharging, NEW r \in Routines, At(r, "idle"),
         NEW stage \in {"metering", "last meter"}, NEW c \in Cars, transaction' = Ticked(transaction),
         Begins(r, [Meter(stage, c) EXCEPT !.reading = Ticked(transaction).energy]),
         UNCHANGED <<now, plugged, register, default, server, opened, bayFaults>>,
         loop' \in Loops, gone' \subseteq Cars
  PROVE  /\ BayTypeOK' /\ QueueInv' /\ UnplugInv' /\ MeterInv' /\ ReadingsInv'
         /\ routines'[r].at = stage /\ \A q \in Routines \ {r} : routines'[q] = routines[q]
         /\ \A q \in Routines : ~Plugs(q) /\ ~Plugs(q)'
         /\ transaction'.id = transaction.id /\ transaction'.car = transaction.car
         /\ transaction'.drawn <= Room[transaction.car]
<1>1. /\ transaction \in Transactions /\ default \in BOOLEAN /\ transaction.id \in Nat
      /\ stage \in Stages
  BY DEF BayInv, BayTypeOK, Transactions, Stages
<1>2. /\ transaction' \in Transactions /\ transaction'.id = transaction.id
      /\ transaction'.car = transaction.car /\ transaction'.energy >= transaction.energy
      /\ transaction'.drawn <= Room[transaction.car]
  BY <1>1, ChargeTicks DEF Ticked
<1>3. transaction'.energy \in Nat BY <1>2 DEF Transactions
<1> DEFINE on == [Meter(stage, c) EXCEPT !.reading = Ticked(transaction).energy]
<1>4. /\ on \in Awaits /\ on.at = stage /\ on.tx = transaction.id /\ on.reading = transaction'.energy
      /\ on.at # "idle" /\ Begins(r, on)
  BY <1>1, <1>3 DEF Meter, Resting, Awaits
<1> HIDE DEF on
<1>5. Joined(r) /\ routines'[r] = on
  BY <1>4, BeginMoves DEF BayInv
<1>6. /\ QueueInv' /\ bayCalls' \in Seq(Routines) /\ routines' \in [Routines -> Awaits]
      /\ routines'[r].at = stage /\ \A q \in Routines \ {r} : routines'[q] = routines[q]
      /\ routines'[r].tx = transaction.id /\ routines'[r].reading = transaction'.energy
  BY <1>4, <1>5 DEF Joined
<1>7. \A q \in Routines : ~Plugs(q) /\ ~Plugs(q)'
  BY <1>6 DEF Plugs, BayInv, TransactionInv
<1>8. BayTypeOK' BY <1>2, <1>6 DEF BayInv, BayTypeOK
<1>9. /\ MeterInv' /\ ReadingsInv'
      /\ \A q \in Routines : Reports(q)' => routines'[q].tx \in 1..server'.lastTx
  BY <1>2, <1>5, <1>6, <1>7, ReadingJoins
<1>10. UnplugInv'
  <2>1. \A q \in Routines : Unplugs(q)' => transaction'.id \in {0, routines'[q].tx}
    BY <1>2, <1>6 DEF BayInv, UnplugInv, Unplugs
  <2> QED BY <1>7, <1>9, <2>1 DEF UnplugInv
<1> QED BY <1>2, <1>6, <1>7, <1>8, <1>9, <1>10

\* And the steps that begin a report.
LEMMA DepartCarKeeps ==
  ASSUME BayAssumption, BayInv, NEW c \in Cars, DepartCar(c) PROVE BayInv'
<1> USE DEF BayInv
<1>a. /\ Scanning /\ At("runner", "idle") /\ "runner" \in Routines /\ c \in plugged
      /\ loop.at = "scan" /\ gone' = gone \cup {c} /\ gone' \subseteq Cars
      /\ UNCHANGED <<now, plugged, register, default, server, opened, bayFaults>>
      /\ \A q \in Routines : ~Plugs(q)
  BY DEF DepartCar, Leaving, Scanning, Routines, BayTypeOK, LoopInv, Plugs, At
<1>f. CASE IsCharging
  <2>0. loop' = [at |-> "busy", car |-> c] BY <1>f DEF DepartCar
  <2>b. loop' \in Loops /\ loop'.at = "busy" BY <2>0 DEF Loops
  <2>1. /\ transaction' = Ticked(transaction)
        /\ Begins("runner", [Meter("last meter", c) EXCEPT !.reading = Ticked(transaction).energy])
    BY <1>f DEF DepartCar
  <2>2. BayInv BY DEF BayInv
  <2> HIDE DEF BayInv
  <2>3. /\ BayTypeOK' /\ QueueInv' /\ UnplugInv' /\ MeterInv' /\ ReadingsInv'
        /\ routines'["runner"].at = "last meter"
        /\ \A q \in Routines \ {"runner"} : routines'[q] = routines[q]
        /\ \A q \in Routines : ~Plugs(q) /\ ~Plugs(q)'
        /\ transaction'.id = transaction.id /\ transaction'.car = transaction.car
        /\ transaction'.drawn <= Room[transaction.car]
    BY <1>a, <1>f, <2>b, <2>1, <2>2, ReporterBegins
  <2> USE DEF BayInv
  <2>4. LoopInv' BY <1>a, <2>b, <2>3 DEF LoopInv, At, Routines
  <2>5. CarsInv' BY <1>a, <2>3 DEF CarsInv, Routines
  <2>6. TransactionInv' BY <1>a, <2>3 DEF TransactionInv, Unplugs, IsCharging
  <2>7. OpenedInv' BY <1>a, <2>b, <2>3 DEF OpenedInv
  <2> QED BY <2>3, <2>4, <2>5, <2>6, <2>7
<1>g. CASE ~IsCharging
  <2>1. UNCHANGED <<transaction, loop, routines, bayCalls>>
    BY <1>g DEF DepartCar
  <2>2. BayTypeOK' /\ QueueInv' BY <1>a, <2>1 DEF BayTypeOK, QueueInv, At
  <2>3. LoopInv' /\ CarsInv' BY <1>a, <2>1 DEF LoopInv, CarsInv, At, Plugs, Routines
  <2>4. TransactionInv' BY <1>a, <1>g, <2>1 DEF TransactionInv, IsCharging, Plugs
  <2>5. UnplugInv' BY <1>a, <2>1 DEF UnplugInv, Reports, Unplugs, Plugs, At
  <2>6. MeterInv' /\ ReadingsInv' BY <1>a, <2>1
        DEF MeterInv, ReadingsInv, Current, Reports, At, IsCharging
  <2>7. OpenedInv' BY <1>a, <2>1 DEF OpenedInv, Plugs, Unplugs, IsCharging
  <2> QED BY <2>2, <2>3, <2>4, <2>5, <2>6, <2>7
<1> QED BY <1>f, <1>g

LEMMA PumpBayKeeps ==
  ASSUME BayAssumption, BayInv, PumpBay PROVE BayInv'
<1>a. /\ At("runner", "idle") /\ "runner" \in Routines /\ loop.at = "scan" /\ IsCharging
      /\ transaction.car \in Cars /\ gone' = gone /\ gone' \subseteq Cars
      /\ UNCHANGED <<now, plugged, gone, register, default, server, opened, bayFaults>>
  BY DEF PumpBay, Scanning, Routines, BayInv, BayTypeOK, TransactionInv
<1>0. loop' = [at |-> "busy", car |-> transaction.car] BY DEF PumpBay
<1>b. loop' \in Loops /\ loop'.at = "busy" BY <1>a, <1>0 DEF Loops
<1>1. /\ transaction' = Ticked(transaction)
      /\ Begins("runner", [Meter("metering", transaction.car) EXCEPT !.reading = Ticked(transaction).energy])
  BY DEF PumpBay
<1>2. PICK c \in Cars : c = transaction.car BY <1>a
<1>3. /\ BayTypeOK' /\ QueueInv' /\ UnplugInv' /\ MeterInv' /\ ReadingsInv'
      /\ routines'["runner"].at = "metering"
      /\ \A q \in Routines \ {"runner"} : routines'[q] = routines[q]
      /\ \A q \in Routines : ~Plugs(q) /\ ~Plugs(q)'
      /\ transaction'.id = transaction.id /\ transaction'.car = transaction.car
      /\ transaction'.drawn <= Room[transaction.car]
  BY <1>a, <1>b, <1>1, <1>2, ReporterBegins
<1> USE DEF BayInv
<1>4. LoopInv' BY <1>a, <1>b, <1>3 DEF LoopInv, At, Routines
<1>5. CarsInv' BY <1>a, <1>3 DEF CarsInv, Routines
<1>6. TransactionInv' BY <1>a, <1>3 DEF TransactionInv, Unplugs, IsCharging, At
<1>7. OpenedInv' BY <1>a, <1>b, <1>3 DEF OpenedInv
<1> QED BY <1>3, <1>4, <1>5, <1>6, <1>7

LEMMA RemoteStopKeeps ==
  ASSUME BayAssumption, BayInv, RemoteStop PROVE BayInv'
<1>a. /\ At("remote stop", "idle") /\ "remote stop" \in Routines /\ IsCharging
      /\ loop.at \notin {"waiting", "exited"} /\ loop' = loop /\ loop' \in Loops
      /\ transaction.car \in Cars /\ gone' = gone /\ gone' \subseteq Cars
      /\ UNCHANGED <<now, plugged, gone, register, default, server, opened, bayFaults>>
  BY DEF RemoteStop, Running, Routines, BayInv, BayTypeOK, TransactionInv
<1>1. /\ transaction' = Ticked(transaction)
      /\ Begins("remote stop", [Meter("last meter", transaction.car) EXCEPT !.reading = Ticked(transaction).energy])
  BY DEF RemoteStop
<1>2. PICK c \in Cars : c = transaction.car BY <1>a
<1>3. /\ BayTypeOK' /\ QueueInv' /\ UnplugInv' /\ MeterInv' /\ ReadingsInv'
      /\ routines'["remote stop"].at = "last meter"
      /\ \A q \in Routines \ {"remote stop"} : routines'[q] = routines[q]
      /\ \A q \in Routines : ~Plugs(q) /\ ~Plugs(q)'
      /\ transaction'.id = transaction.id /\ transaction'.car = transaction.car
      /\ transaction'.drawn <= Room[transaction.car]
  BY <1>a, <1>1, <1>2, ReporterBegins
<1> USE DEF BayInv
<1>4. LoopInv' BY <1>a, <1>3 DEF LoopInv, At, Routines
<1>5. CarsInv' BY <1>a, <1>3 DEF CarsInv, Routines
<1>6. TransactionInv'
  <2>1. Unplugs("runner")' <=> Unplugs("runner") BY <1>3 DEF Unplugs, Routines
  <2> QED BY <1>a, <1>3, <2>1 DEF TransactionInv, IsCharging
<1>7. OpenedInv' BY <1>a, <1>3 DEF OpenedInv
<1> QED BY <1>3, <1>4, <1>5, <1>6, <1>7

-----------------------------------------------------------------------------

\* The inductive step, as a whole.
LEMMA InitBayInv == BayAssumption /\ BayInit => BayInv
<1> SUFFICES ASSUME BayAssumption, BayInit PROVE BayInv OBVIOUS
<1>1. /\ routines = [r \in Routines |-> Resting] /\ Resting \in Awaits /\ Resting.at = "idle" /\ bayCalls = <<>>
      /\ loop \in Loops /\ loop.at = "scan" /\ transaction = NoTransaction
      /\ NoTransaction \in Transactions /\ NoTransaction.id = 0
  BY DEF BayInit, Resting, Awaits, Stages, Loops, NoTransaction, NoProfile, Transactions, Profiles
<1>2. \A r \in Routines : At(r, "idle") /\ ~Plugs(r) /\ ~Unplugs(r) /\ ~Reports(r) /\ ~At(r, "starting")
  BY <1>1 DEF At, Plugs, Unplugs, Reports
<1>3. ~IsCharging BY <1>1 DEF IsCharging
<1>4. BayTypeOK
  <2>1. /\ now \in Nat /\ register \in Nat /\ default \in BOOLEAN /\ bayFaults \in Nat
        /\ plugged \subseteq Cars /\ gone \subseteq Cars
    BY DEF BayInit
  <2>2. server \in [active : Nat, lastTx : Nat, meter : Nat] BY DEF BayInit
  <2>3. opened \in [Cars -> Nat] BY DEF BayInit
  <2>4. routines \in [Routines -> Awaits] BY <1>1
  <2>5. bayCalls \in Seq(Routines) BY <1>1
  <2> QED BY <1>1, <2>1, <2>2, <2>3, <2>4, <2>5 DEF BayTypeOK
<1>5. QueueInv BY <1>1, <1>2, NobodyWaits DEF QueueInv
<1>6. LoopInv BY <1>1, <1>2 DEF LoopInv, At, Plugs, Routines
<1>7. CarsInv BY <1>2 DEF CarsInv, BayInit, Routines
<1>8. TransactionInv BY <1>1, <1>2, <1>3 DEF TransactionInv, BayInit
<1>9. UnplugInv BY <1>2 DEF UnplugInv
<1>10. MeterInv /\ ReadingsInv BY <1>2, <1>3 DEF MeterInv, ReadingsInv, Current, BayInit
<1>11. OpenedInv
  <2>1. \A c \in Cars : opened[c] = 0 BY DEF BayInit
  <2>2. loop.at # "dead" /\ loop.at # "waiting" BY <1>1
  <2>3. \A c \in Cars : opened[c] <= 1 /\ ~(opened[c] > 0) BY <2>1
  <2> QED BY <1>2, <2>2, <2>3 DEF OpenedInv
<1> QED BY <1>4, <1>5, <1>6, <1>7, <1>8, <1>9, <1>10, <1>11 DEF BayInv

LEMMA NextBayInv ==
  BayAssumption /\ BayInv /\ [BayNext]_bayVars => BayInv' /\ server'.meter >= server.meter
<1> SUFFICES ASSUME BayAssumption, BayInv, [BayNext]_bayVars
             PROVE  BayInv' /\ server'.meter >= server.meter
  OBVIOUS
<1>0. server.meter \in Nat /\ register \in Nat BY DEF BayInv, BayTypeOK
<1>1. server' = server => server'.meter >= server.meter BY <1>0
<1>2. ASSUME NEW r \in Routines, Answered(r) PROVE BayInv' /\ server'.meter >= server.meter
  <2>1. CASE Prepared(r) BY <1>1, <2>1, PreparedKeeps DEF Prepared
  <2>2. CASE Authorised(r) BY <1>1, <2>2, AuthorisedKeeps DEF Authorised
  <2>3. CASE Refused(r) BY <1>1, <2>3, RefusedKeeps DEF Refused
  <2>4. CASE StartAnswered(r)
    <3>1. server'.meter = register /\ register >= server.meter
      BY <1>0, <2>4 DEF StartAnswered, ServerStarts, BayInv, MeterInv, TransactionInv, Plugs, At
    <3> QED BY <2>4, <3>1, StartAnsweredKeeps
  <2>5. CASE ToldCharging(r) BY <1>1, <2>5, ToldChargingKeeps DEF ToldCharging
  <2>6. CASE MeterTaken(r) BY <2>6, MeterTakenKeeps
  <2>7. CASE LastMeterTaken(r) BY <2>7, LastMeterTakenKeeps
  <2>8. CASE Stopped(r) BY <2>8, StoppedKeeps
  <2>9. CASE ToldAvailable(r) BY <1>1, <2>9, ToldAvailableKeeps DEF ToldAvailable
  <2> QED BY <1>2, <2>1, <2>2, <2>3, <2>4, <2>5, <2>6, <2>7, <2>8, <2>9 DEF Answered
<1>3. ASSUME NEW r \in Routines, CallFails(r) PROVE BayInv' /\ server'.meter >= server.meter
  BY <1>3, CallFailsKeeps
<1>4. ASSUME NEW c \in Cars, ArriveWithCard(c) \/ ArriveWithApp(c) \/ DepartCar(c)
      PROVE  BayInv' /\ server'.meter >= server.meter
  <2>1. CASE ArriveWithCard(c) BY <1>1, <2>1, ArriveWithCardKeeps DEF ArriveWithCard
  <2>2. CASE ArriveWithApp(c) BY <1>1, <2>2, ArriveWithAppKeeps DEF ArriveWithApp
  <2>3. CASE DepartCar(c) BY <1>1, <2>3, DepartCarKeeps DEF DepartCar
  <2> QED BY <1>4, <2>1, <2>2, <2>3
<1>5. CASE SeesOrGivesUp BY <1>1, <1>5, SeesOrGivesUpKeeps DEF SeesOrGivesUp
<1>6. CASE PumpBay BY <1>1, <1>6, PumpBayKeeps DEF PumpBay
<1>7. CASE RemoteStop BY <1>1, <1>7, RemoteStopKeeps DEF RemoteStop
<1>8. CASE (\E limit \in Limits : SetProfile(limit)) \/ SetDefault \/ ClearProfile \/ Advance
  BY <1>1, <1>8, CommandsKeep
<1>9. CASE UNCHANGED bayVars
  <2>1. /\ transaction' \in Transactions /\ transaction' = transaction /\ transaction'.energy \in Nat
        /\ default' \in BOOLEAN /\ now' \in Nat /\ server' = server
        /\ IsCharging => transaction.drawn <= Room[transaction.car]
    BY <1>9 DEF bayVars, BayInv, BayTypeOK, TransactionInv, Transactions
  <2> QED BY <1>1, <1>9, <2>1, TickKeeps DEF bayVars
<1> QED BY <1>2, <1>3, <1>4, <1>5, <1>6, <1>7, <1>8, <1>9 DEF BayNext

\* The variables of a bay have the values they were meant for, and its queue, its transaction, the
\* readings on their way and the runner's list of cars agree with each other at every moment.
THEOREM BayInvariant == BayAssumption => (BaySpec => []BayInv)
<1> SUFFICES ASSUME BayAssumption PROVE BaySpec => []BayInv OBVIOUS
<1>1. BayInit => BayInv BY InitBayInv
<1>2. BayInv /\ [BayNext]_bayVars => BayInv' BY NextBayInv
<1> QED BY <1>1, <1>2, PTL DEF BaySpec

\* No arrival gets a second transaction at the server while every CALL is answered, however the
\* app's remote start and the runner's own plugIn fall together; and the register the server reads
\* of a bay never falls, also when CALLs fail: any arrivals, any charger, any limits, any failures.
THEOREM TheBayIsTold == BayAssumption => (BaySpec => BayIsTold)
<1> SUFFICES ASSUME BayAssumption PROVE BaySpec => BayIsTold OBVIOUS
<1>1. BayInit => BayInv BY InitBayInv
<1>2. BayInv /\ [BayNext]_bayVars => BayInv' BY NextBayInv
<1>3. BayInv => OneTransactionPerCar BY DEF BayInv, OpenedInv, OneTransactionPerCar
<1>4. BayInv /\ [BayNext]_bayVars => server'.meter >= server.meter BY NextBayInv
<1> QED BY <1>1, <1>2, <1>3, <1>4, PTL DEF BaySpec, BayIsTold
=============================================================================
