-------------------------------- MODULE Access ------------------------------
(***************************************************************************)
(* Signing in by access code: the server's book of codes and its guard     *)
(* against guessing (api/auth.ts), the console's gate and the driver app's *)
(* sign-in, and what each does with an account whose code the server has   *)
(* ceased to accept while it was signed in.  An account and its code are   *)
(* one value.  The model is of one client and of all others, at its        *)
(* address, as behind a router, or elsewhere.  (Callers on the server's    *)
(* own machine are not counted by the guard.)                              *)
(***************************************************************************)
EXTENDS Naturals, Sequences

CONSTANTS
  Drivers, Operators,     \* the accounts that were ever seeded, by what they may use
  None,                   \* nobody, and no code
  Demo,                   \* the phone's access without a server: it has no code either
  GuessesAllowed, MaxTracked,
  MaxMishaps              \* a bound on losses, restarts and reloads

AccessAssumption ==
  /\ Drivers \cap Operators = {} /\ {None, Demo} \cap (Drivers \cup Operators) = {}
  /\ GuessesAllowed \in Nat \ {0} /\ MaxTracked \in Nat \ {0}

Accounts == Drivers \cup Operators
Clients == {"console", "phone"}
Addresses == {"here", "elsewhere"}     \* the client's, and another

VARIABLES
  up,         \* the server answers
  admitted,   \* accounts it has a profile of, and runs the site of
  failures,   \* AccessGuard.failures, in the order of the last guess
  client,     \* the one there is
  kept,       \* the account it is signed in as
  asked,      \* its requests under way
  mishaps

vars == <<up, admitted, failures, client, kept, asked, mishaps>>

Verdicts == {"ok", "access_code_required", "access_code_rejected", "too_many_attempts"}
Requests == [what : {"sign in", "load"}, code : Accounts \cup {None, Demo},
             says : Verdicts \cup {"-"}]

AccessTypeOK ==
  /\ up \in BOOLEAN /\ admitted \subseteq Accounts
  /\ failures \in Seq([from : Addresses, count : 1..GuessesAllowed, old : BOOLEAN])
  /\ Len(failures) <= MaxTracked
  /\ client \in Clients /\ kept \in Accounts \cup {None, Demo}
  /\ asked \subseteq Requests
  /\ mishaps \in 0..MaxMishaps

Init ==
  /\ up = TRUE /\ admitted = Accounts /\ failures = <<>>
  /\ client \in Clients /\ kept = None /\ asked = {}
  /\ mishaps = 0

-----------------------------------------------------------------------------
(* The guard.                                                               *)

EntryOf(address) == {failures[i] : i \in {j \in DOMAIN failures : failures[j].from = address}}
Others(address) == SelectSeq(failures, LAMBDA entry : entry.from # address)

\* Slip: whoever has guessed too often is refused for good.
LockedOutForGood(address) == \E entry \in EntryOf(address) : entry.count >= GuessesAllowed

\* assertAllowed refuses.
LockedOut(address) == \E entry \in EntryOf(address) : ~entry.old /\ entry.count >= GuessesAllowed

\* What is left when assertAllowed lets an address pass.
Forgotten(address) ==
  IF \E entry \in EntryOf(address) : entry.old THEN Others(address) ELSE failures

\* recordFailure, of an address that was let pass, with makeRoom.
RecordFailure(address) ==
  LET stands == {entry \in EntryOf(address) : ~entry.old}
      room == IF EntryOf(address) = {} /\ Len(failures) >= MaxTracked THEN Tail(failures)
              ELSE Others(address)
      count == IF stands = {} THEN 1 ELSE (CHOOSE entry \in stands : TRUE).count + 1
  IN Append(room, [from |-> address, count |-> count, old |-> FALSE])

\* checkCode with AccessCodeBook.accountFor: the answer, and the failures it leaves.
CheckCode(address, code, says, left) ==
  \/ LockedOut(address) /\ says = "too_many_attempts" /\ left = failures
  \/ /\ ~LockedOut(address)
     /\ \/ code \in {None, Demo} /\ says = "access_code_required" /\ left = Forgotten(address)
        \/ code \in admitted /\ says = "ok" /\ left = Forgotten(address)
        \/ /\ code \in Accounts \ admitted
           /\ says = "access_code_rejected" /\ left = RecordFailure(address)

-----------------------------------------------------------------------------
(* The clients.                                                             *)

Mishap == mishaps < MaxMishaps /\ mishaps' = mishaps + 1

LetsIn == IF client = "console" THEN Operators ELSE Drivers

Asks(what, code) == asked' = asked \cup {[what |-> what, code |-> code, says |-> "-"]}
Underway(what) == {r \in asked : r.what = what}

\* The gate and the sign-in screen have one check under way at most (busy).
SignsIn ==
  /\ kept = None /\ Underway("sign in") = {}
  /\ \E code \in Accounts : Asks("sign in", code)
  /\ UNCHANGED <<up, admitted, failures, client, kept, mishaps>>

\* A request whose refusal is looked at: every one of the console's, the phone's session and sites.
\* Those that are under way at once stand for one.
Loads ==
  /\ kept # None /\ Underway("load") = {}
  /\ Asks("load", kept)
  /\ UNCHANGED <<up, admitted, failures, client, kept, mishaps>>

\* One whose refusal is not, so that nobody has to wait for it: the console's socket, the phone's
\* forecast.
AsksAside ==
  /\ up /\ kept # None
  /\ \E says \in Verdicts : CheckCode("here", kept, says, failures')
  /\ UNCHANGED <<up, admitted, client, kept, asked, mishaps>>

Checked(r) ==
  /\ up /\ r \in asked /\ r.says = "-"
  /\ \E says \in Verdicts :
       /\ CheckCode("here", r.code, says, failures')
       /\ asked' = (asked \ {r}) \cup {[r EXCEPT !.says = says]}
  /\ UNCHANGED <<up, admitted, client, kept, mishaps>>

\* Slip: only a missing code ends the sign-in.
OnlyMissing == {"access_code_required"}

AccessErrors == {"access_code_required", "access_code_rejected"}

\* An answer comes: a sign-in is taken up if the account is one for this client, and a refusal ends
\* the sign-in there is, whichever code was refused.
Answered(r) ==
  /\ r \in asked /\ r.says # "-"
  /\ asked' = asked \ {r}
  /\ kept' = IF r.what = "sign in" /\ kept = None /\ r.says = "ok" /\ r.code \in LetsIn THEN r.code
             ELSE IF r.what = "load" /\ r.says \in AccessErrors THEN None
             ELSE kept
  /\ UNCHANGED <<up, admitted, failures, client, mishaps>>

\* A request is lost, on its way or with the server.
LosesRequest(r) ==
  /\ r \in asked
  /\ IF up THEN Mishap ELSE UNCHANGED mishaps
  /\ asked' = asked \ {r}
  /\ UNCHANGED <<up, admitted, failures, client, kept>>

\* Told that no server is reachable, a driver looks around the built-in snapshot.
Explores(r) ==
  /\ ~up /\ client = "phone" /\ r \in Underway("sign in") /\ kept = None
  /\ asked' = asked \ {r}
  /\ kept' = Demo
  /\ UNCHANGED <<up, admitted, failures, client, mishaps>>

SignsOut ==
  /\ kept # None
  /\ kept' = None
  /\ UNCHANGED <<up, admitted, failures, client, asked, mishaps>>

\* The page or the app is opened anew; what it kept may not have found a place to be stored.
Reopens ==
  /\ asked # {} /\ Mishap
  /\ asked' = {}
  /\ kept' \in {kept, None}
  /\ UNCHANGED <<up, admitted, failures, client>>

-----------------------------------------------------------------------------
(* Others, the clock and the host.                                          *)

\* Somebody else tries a code of nobody.
OthersGuess(address) ==
  /\ up /\ ~LockedOut(address)
  /\ failures' = RecordFailure(address)
  /\ UNCHANGED <<up, admitted, client, kept, asked, mishaps>>

\* GUESS_WINDOW_MS have passed since the first guess that is counted.
WindowPasses(address) ==
  /\ \E i \in DOMAIN failures :
       /\ failures[i].from = address /\ ~failures[i].old
       /\ failures' = [failures EXCEPT ![i].old = TRUE]
  /\ UNCHANGED <<up, admitted, client, kept, asked, mishaps>>

ServerGoes ==
  /\ up /\ Mishap
  /\ up' = FALSE
  /\ UNCHANGED <<admitted, failures, client, kept, asked>>

\* Another secret, another scenario, another site: other codes are right.  Nothing is remembered.
ServerComes ==
  /\ ~up /\ up' = TRUE
  /\ admitted' \in SUBSET Accounts
  /\ failures' = <<>>
  /\ UNCHANGED <<client, kept, asked, mishaps>>

Next ==
  \/ SignsIn \/ Loads \/ AsksAside \/ SignsOut \/ Reopens
  \/ \E r \in asked : Checked(r) \/ Answered(r) \/ LosesRequest(r) \/ Explores(r)
  \/ \E address \in Addresses : OthersGuess(address) \/ WindowPasses(address)
  \/ ServerGoes \/ ServerComes

Admitted(Action) == ~LockedOut("here") /\ Action
Judges == \E r \in Underway("load") : Checked(r)
Hears == \E r \in Underway("load") : Answered(r)

\* The polls go on, and answers come.  A window allows GUESSES_ALLOWED (20) guesses and a page or a
\* phone asks every few seconds: before an address is locked out again it has asked and been told.
Fairness ==
  /\ SF_vars(Admitted(Loads)) /\ SF_vars(Admitted(Judges)) /\ SF_vars(Admitted(Hears))
  /\ WF_vars(WindowPasses("here"))

Spec == Init /\ [][Next]_vars /\ Fairness

-----------------------------------------------------------------------------
(* A client that is signed in with a code the running server does not       *)
(* accept, or with none, goes back to its gate or sign-in screen (unless    *)
(* the server goes too), also if the address has used up its guesses and    *)
(* is not even told that the code is wrong (auth.ts, access.ts).            *)
Refused == up /\ kept \notin admitted \cup {None}
RefusedGoesToGate == Refused ~> ~Refused
=============================================================================
