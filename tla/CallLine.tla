------------------------------ MODULE CallLine ------------------------------
(***************************************************************************)
(* What a caller is promised by one end of an OCPP-J connection            *)
(* (packages/ocpp/src/rpc.ts): CALLs leave in the order they were asked    *)
(* for, each is settled exactly once, and shutting the line settles        *)
(* everyone still standing in it.  Frames, timers, ids and the peer are    *)
(* details of OcppRpc, which implements this specification.                *)
(***************************************************************************)
EXTENDS Naturals, Sequences

CONSTANT Calls           \* the calls that may be asked for, each at most once

VARIABLES line,          \* the calls waiting for an answer, the oldest first
          outcome,       \* what each caller has been told so far
          shut           \* the line takes no more calls

vars == <<line, outcome, shut>>

\* The ways a call can end, as its caller sees them.
Settled == {"result", "error", "timedOut", "sendFailed", "closed", "refused"}

Outcomes == Settled \cup {"unasked", "waiting"}

Init ==
  /\ line = <<>>
  /\ outcome = [c \in Calls |-> "unasked"]
  /\ shut = FALSE

\* A call joins the end of the line.
Join(c) ==
  /\ outcome[c] = "unasked"
  /\ ~shut
  /\ line' = Append(line, c)
  /\ outcome' = [outcome EXCEPT ![c] = "waiting"]
  /\ UNCHANGED shut

\* A call is turned away at once: the line is shut, or nobody stands in it and
\* the frame cannot be written.
TurnAway(c) ==
  /\ outcome[c] = "unasked"
  /\ shut \/ line = <<>>
  /\ outcome' = [outcome EXCEPT ![c] = IF shut THEN "refused" ELSE "sendFailed"]
  /\ UNCHANGED <<line, shut>>

\* The k oldest calls leave together, each with an outcome of its own.  Only
\* the oldest has been sent, so only it can have been answered.
Leave(k) ==
  /\ line' = SubSeq(line, k + 1, Len(line))
  /\ \E how \in {"result", "error", "timedOut", "sendFailed"} :
       outcome' = [c \in Calls |->
                     IF c = Head(line) THEN how
                     ELSE IF \E i \in 2..k : line[i] = c THEN "sendFailed"
                     ELSE outcome[c]]
  /\ UNCHANGED shut

LeaveSome == \E k \in 1..Len(line) : Leave(k)

\* The connection is given up: everyone in line is told so.
Shut ==
  /\ ~shut
  /\ shut' = TRUE
  /\ line' = <<>>
  /\ outcome' = [c \in Calls |->
                   IF outcome[c] = "waiting" THEN "closed" ELSE outcome[c]]

Next ==
  \/ \E c \in Calls : Join(c) \/ TurnAway(c)
  \/ LeaveSome
  \/ Shut

\* What may happen to a line.
SafeSpec == Init /\ [][Next]_vars

\* Nobody stands in line for ever.
Spec == SafeSpec /\ WF_vars(LeaveSome)
=============================================================================
