-------------------------------- MODULE Terms -------------------------------
(***************************************************************************)
(* The terms of a session: how much, by when, in which mode.  The driver's *)
(* phone declares them (SetupScreen.tsx) and changes them (PlanScreen.tsx),*)
(* the operator's console overrides them (OverrideControls.tsx), both with *)
(* the price of a choice shown before it is confirmed, and the server      *)
(* refuses what cannot be delivered in time (routes/sessions.ts).          *)
(* A tick is a minute.  A price is the request it answers; one driver,     *)
(* whose only session, once over, is not followed by another.              *)
(***************************************************************************)
EXTENDS Integers, Sequences, SequencesExt

CONSTANTS
  Bays,              \* the powers of the bays that are free
  Needs, Modes,
  UsualNeed, UsualTime,   \* what the form suggests: an energy, and the ticks until the deadline
  Extensions,        \* by which the operator may put a deadline off
  MaxTime, MaxActs

TermsAssumption ==
  /\ "usual" \in Modes
  /\ Bays \subseteq Nat \ {0} /\ Needs \subseteq Nat \ {0} /\ Extensions \subseteq Nat \ {0}
  /\ UsualNeed \in Needs /\ {UsualTime, MaxTime, MaxActs} \subseteq Nat

VARIABLES
  time,
  session,    \* as the server has it
  held,       \* its car has been made to wait since its energy or deadline was last agreed
  copy,       \* the session as the phone and the console have it
  form,       \* what is being chosen on the phone, on either screen
  panel,      \* what is being chosen on the console
  acts        \* the choices made and the answers lost so far

termVars == <<time, session, held, copy, form, panel, acts>>

None == [none |-> TRUE]
NoChange == [kind |-> "none"]
NoTerms == [status |-> "none"]

Keys == [energy : Nat, deadline : Nat, power : Nat]
PanelKeys == [energy : Nat, deadline : Nat, later : Nat, mode : Modes, then : Modes]
Declarations == [need : Nat, deadline : Nat, mode : Modes, power : Nat \ {0}]
\* The body of a PATCH: each screen changes one of the terms at a time.
Bodies == [what : {"mode"}, to : Modes] \cup [what : {"need", "deadline"}, to : Nat]
Overriding == [kind : {"mode"}, mode : Modes] \cup [kind : {"deadline"}, by : Nat]
Sessions == [status : {"open", "over"}, got : Nat, need : Nat, deadline : Nat, mode : Modes,
             power : Nat \ {0}]

Forms ==
  [screen : {"bay", "need", "plan"}, bay : Nat, energy : Nat, deadline : Nat, mode : Modes,
   timer : BOOLEAN, asks : Seq(Keys), amiss : BOOLEAN, shown : {None} \cup Keys,
   feasible : BOOLEAN, sending : {None} \cup Declarations \cup [body : Bodies, back : Nat]]
Panels ==
  [change : {NoChange} \cup Overriding, asks : SUBSET PanelKeys, shown : {None} \cup PanelKeys,
   sending : {None} \cup Bodies]

TermsTypeOK ==
  /\ time \in Nat /\ held \in BOOLEAN /\ acts \in Nat
  /\ session \in {NoTerms} \cup Sessions
  /\ copy \in [{"phone", "console"} -> {NoTerms} \cup Sessions]
  /\ form \in Forms /\ panel \in Panels

Open(s) == s.status = "open"
Left(s) == IF s.need > s.got THEN s.need - s.got ELSE 0
AtLeastOne(n) == IF n > 1 THEN n ELSE 1

\* checkDeadline: full power from now on.
Deliverable(energy, power, deadline) ==
  energy = 0 \/ time + (energy + power - 1) \div power <= deadline

-----------------------------------------------------------------------------
(* Prices on the phone: a request is not taken back when the choice changes, *)
(* so answers may come in another order than they were asked for.            *)

Form(screen) ==
  [screen |-> screen, bay |-> 0, energy |-> UsualNeed, deadline |-> time + UsualTime, mode |-> "usual",
   timer |-> FALSE, asks |-> <<>>, amiss |-> FALSE, shown |-> None, feasible |-> TRUE,
   sending |-> None]

\* The form, before what it asks for is asked for.
SetupKey(f) == [energy |-> f.energy, deadline |-> f.deadline, power |-> f.bay]
PlanKey(s) == [energy |-> AtLeastOne(Left(s)), deadline |-> s.deadline, power |-> s.power]
AsksFor(f, key) == [f EXCEPT !.asks = Append(@, key), !.amiss = FALSE]

\* PlanScreen's loadPreviews: nothing to price once the car has what it needs.
PlanAsks(f, s) == IF Left(s) = 0 THEN [f EXCEPT !.shown = None] ELSE AsksFor(f, PlanKey(s))

\* Slip: putting the deadline off does not ask again.
RetimedNot(before, after) == [after EXCEPT !.timer = @ \/ before.energy # after.energy]
\* Any change to what a price depends on starts the quarter of a second anew.
Retimed(before, after) ==
  [after EXCEPT !.timer = @ \/ before.screen # after.screen \/ SetupKey(before) # SetupKey(after)]

TermsInit ==
  /\ time = 0 /\ session = NoTerms /\ held = FALSE
  /\ copy = [who \in {"phone", "console"} |-> NoTerms]
  /\ form = Form("bay")
  /\ panel = [change |-> NoChange, asks |-> {}, shown |-> None, sending |-> None]
  /\ acts = 0

\* A choice made, or an answer lost.
Counts == acts < MaxActs /\ acts' = acts + 1

-----------------------------------------------------------------------------
(* The server. *)

Amended(body) ==
  CASE body.what = "need" -> [session EXCEPT !.need = body.to]
    [] body.what = "deadline" -> [session EXCEPT !.deadline = body.to]
    [] body.what = "mode" -> [session EXCEPT !.mode = body.to]

\* Slip: only a new deadline is looked at.
ChecksDeadlineOnly(body) == body.what = "deadline"
Checks(body) == body.what \in {"need", "deadline"}

\* A new total need has to cover only what has not been delivered.
Grants(body) ==
  /\ Checks(body) => Deliverable(Left(Amended(body)), session.power, Amended(body).deadline)
  /\ Open(session)
  /\ body.what = "deadline" => body.to > time

Patched(body) ==
  /\ session' = Amended(body)
  /\ held' = (held /\ ~Checks(body))

\* The preference on the profile page counts for an open session as well, and the API takes a new need.
OthersPatch ==
  /\ Counts /\ Open(session)
  /\ \E body \in [what : {"mode"}, to : Modes] \cup [what : {"need"}, to : Needs] :
       Grants(body) /\ Patched(body)
  /\ UNCHANGED <<time, copy, form, panel>>

\* A minute of charging at full power, or of waiting, which less than full power is as well.
Passes ==
  /\ time < MaxTime /\ time' = time + 1
  /\ \/ ~Open(session) /\ UNCHANGED <<session, held>>
     \/ /\ Open(session) /\ Left(session) > 0 /\ held' = held
        /\ session' = [session EXCEPT !.got = IF Left(session) > session.power THEN @ + session.power
                                              ELSE session.need]
     \/ Open(session) /\ held' = (held \/ Left(session) > 0) /\ UNCHANGED session
  /\ UNCHANGED <<copy, form, panel, acts>>

Ends ==
  /\ Open(session) /\ session' = [session EXCEPT !.status = "over"]
  /\ UNCHANGED <<time, held, copy, form, panel, acts>>

-----------------------------------------------------------------------------
(* The phone's form. *)

Setup == form.screen \in {"bay", "need"}

\* Choosing a bay opens the next step, with a fresh deadline; what was chosen for another bay stays.
ChoosesBay(power) ==
  /\ form.screen = "bay" /\ Counts
  /\ form' = Retimed(form, [form EXCEPT !.screen = "need", !.bay = power,
                                         !.deadline = time + UsualTime])
  /\ UNCHANGED <<time, session, held, copy, panel>>

ChangesForm ==
  /\ form.screen = "need" /\ Counts
  /\ \/ \E energy \in Needs : form' = Retimed(form, [form EXCEPT !.energy = energy])
     \/ \E step \in {-1, 1} : /\ form.deadline + step > time
                              /\ form' = Retimed(form, [form EXCEPT !.deadline = @ + step])
     \/ \E mode \in Modes : form' = [form EXCEPT !.mode = mode]
     \/ form' = Retimed(form, [form EXCEPT !.screen = "bay"])
  /\ form' # form
  /\ UNCHANGED <<time, session, held, copy, panel>>

TimerFires ==
  /\ form.timer
  /\ form' = IF form.screen = "need"
             THEN AsksFor([form EXCEPT !.timer = FALSE, !.shown = None], SetupKey(form))
             ELSE [form EXCEPT !.timer = FALSE]
  /\ UNCHANGED <<time, session, held, copy, panel, acts>>

\* POST /sessions/preview, as far as the phone acts on it.
Previewed(key) == Deliverable(key.energy, key.power, key.deadline)

\* One of the answers, or the news that there will be none.
PhoneHears(i) ==
  LET rest == [form EXCEPT !.asks = RemoveAt(@, i), !.amiss = @ \/ i > 1]
  IN /\ \/ /\ UNCHANGED acts
           /\ form' = [rest EXCEPT !.shown = form.asks[i],
                                   !.feasible = ~Setup \/ Previewed(form.asks[i])]
        \/ /\ Counts
           /\ form' = [rest EXCEPT !.shown = IF Setup THEN @ ELSE None,
                                   !.feasible = TRUE, !.amiss = TRUE]
     /\ UNCHANGED <<time, session, held, copy, panel>>

SendsForm ==
  /\ form.screen = "need" /\ form.sending = None /\ form.feasible
  /\ form' = [form EXCEPT !.sending = [need |-> form.energy, deadline |-> form.deadline,
                                       mode |-> form.mode, power |-> form.bay]]
  /\ UNCHANGED <<time, session, held, copy, panel, acts>>

\* Slip: the deadline that is weighed is the suggested one.
AdmitsUsual(ask) == ask.need <= ask.power * UsualTime
\* POST /sessions: none is open, and the deadline can be met.
Admits(ask) == Deliverable(ask.need, ask.power, ask.deadline)

OpenedBy(ask) ==
  /\ session = NoTerms /\ Admits(ask)
  /\ session' = [status |-> "open", got |-> 0, need |-> ask.need, deadline |-> ask.deadline,
                 mode |-> ask.mode, power |-> ask.power]
  /\ held' = FALSE

\* Opened, the phone leaves the form.  Refused, or with the request or the answer lost, it stays.
CreateArrives ==
  /\ Setup /\ form.sending # None
  /\ \/ OpenedBy(form.sending) /\ form' = Form("bay") /\ UNCHANGED acts
     \/ /\ form' = [form EXCEPT !.sending = None]
        /\ \/ /\ session # NoTerms \/ ~Admits(form.sending)
              /\ UNCHANGED <<session, held, acts>>
           \/ Counts /\ (OpenedBy(form.sending) \/ UNCHANGED <<session, held>>)
  /\ UNCHANGED <<time, copy, panel>>

-----------------------------------------------------------------------------
(* The phone's plan. *)

\* A poll: with the session the form gives way to the plan, which follows the session's deadline.
PhonePolls ==
  /\ copy["phone"] # session /\ copy' = [copy EXCEPT !["phone"] = session]
  /\ form' =
       IF ~Open(session) THEN IF form.screen = "plan" THEN Form("bay") ELSE form
       ELSE LET opens == form.screen # "plan"
                screen == IF opens THEN Form("plan") ELSE form
                moves == opens \/ copy["phone"].deadline # session.deadline
                follows == [screen EXCEPT !.deadline = IF moves THEN session.deadline ELSE @]
            IN IF moves \/ Left(copy["phone"]) # Left(session)
               THEN PlanAsks(follows, session) ELSE follows
  /\ UNCHANGED <<time, session, held, panel, acts>>

MovesDeadline ==
  /\ form.screen = "plan" /\ Counts
  /\ \E step \in {-1, 1} : form.deadline + step > time /\ form' = [form EXCEPT !.deadline = @ + step]
  /\ UNCHANGED <<time, session, held, copy, panel>>

\* saveDeadline, which remembers the deadline it saw; switchMode, and "Charge now instead".
PhoneSends ==
  /\ form.screen = "plan" /\ form.sending = None
  /\ \/ /\ form.deadline # copy["phone"].deadline /\ UNCHANGED acts
        /\ form' = [form EXCEPT !.sending = [body |-> [what |-> "deadline", to |-> form.deadline],
                                             back |-> copy["phone"].deadline]]
     \/ /\ Counts
        /\ \E mode \in Modes \ {copy["phone"].mode} :
             form' = [form EXCEPT !.sending = [body |-> [what |-> "mode", to |-> mode],
                                               back |-> form.deadline]]
  /\ UNCHANGED <<time, session, held, copy, panel>>

\* Refused, the deadline goes back to the one that was in force when it was sent.
PhonePatchArrives ==
  /\ form.screen = "plan" /\ form.sending # None
  /\ LET body == form.sending.body
         done == [form EXCEPT !.sending = None]
         back == IF body.what = "deadline"
                 THEN [done EXCEPT !.deadline = form.sending.back] ELSE done
     IN \/ Grants(body) /\ Patched(body) /\ form' = done /\ UNCHANGED acts
        \/ ~Grants(body) /\ form' = back /\ UNCHANGED <<session, held, acts>>
        \/ /\ Counts
           /\ form' = back
           /\ \/ Grants(body) /\ Patched(body)
              \/ UNCHANGED <<session, held>>
  /\ UNCHANGED <<time, copy, panel>>

-----------------------------------------------------------------------------
(* The console's panel. *)

NewDeadline(s, change) == s.deadline + (IF change.kind = "deadline" THEN change.by ELSE 0)
NewMode(s, change) == IF change.kind = "mode" THEN change.mode ELSE s.mode

\* What the effect depends on: the copy's need, deadline and mode, and the change.
PanelKey(s, change) ==
  [energy |-> Left(s), deadline |-> s.deadline, later |-> NewDeadline(s, change),
   mode |-> s.mode, then |-> NewMode(s, change)]

\* Slip: an answer to what was asked before is still listened to.
HeardAll(asks) == asks
\* The effect's cleanup cancels what was asked before.
StillHeard(asks) == {}

Priced(p, s) ==
  [p EXCEPT !.shown = None,
            !.asks = StillHeard(@) \cup (IF p.change = NoChange THEN {} ELSE {PanelKey(s, p.change)})]

Overrides ==
  /\ Open(copy["console"]) /\ panel.sending = None /\ Counts
  /\ \E change \in {NoChange} \cup [kind : {"mode"}, mode : Modes \ {copy["console"].mode}]
                               \cup [kind : {"deadline"}, by : Extensions] :
       /\ change # panel.change
       /\ panel' = Priced([panel EXCEPT !.change = change], copy["console"])
  /\ UNCHANGED <<time, session, held, copy, form>>

ConsoleHears(key) ==
  /\ \/ panel' = [panel EXCEPT !.asks = @ \ {key}, !.shown = key] /\ UNCHANGED acts
     \/ /\ Counts
        /\ panel' = [panel EXCEPT !.asks = @ \ {key}]
  /\ UNCHANGED <<time, session, held, copy, form>>

\* Confirmed is only what is priced.
Confirms ==
  /\ panel.shown # None /\ panel.sending = None
  /\ panel' = [panel EXCEPT !.sending =
                IF panel.change.kind = "mode" THEN [what |-> "mode", to |-> panel.change.mode]
                ELSE [what |-> "deadline", to |-> NewDeadline(copy["console"], panel.change)]]
  /\ UNCHANGED <<time, session, held, copy, form, acts>>

\* Taken, the choice is put away; refused or lost, it stays.
ConsolePatchArrives ==
  /\ panel.sending # None
  /\ \/ /\ Grants(panel.sending) /\ Patched(panel.sending) /\ UNCHANGED acts
        /\ panel' = Priced([panel EXCEPT !.sending = None, !.change = NoChange], copy["console"])
     \/ /\ ~Grants(panel.sending) /\ UNCHANGED <<session, held, acts>>
        /\ panel' = [panel EXCEPT !.sending = None]
     \/ /\ Counts
        /\ panel' = [panel EXCEPT !.sending = None]
        /\ \/ Grants(panel.sending) /\ Patched(panel.sending)
           \/ UNCHANGED <<session, held>>
  /\ UNCHANGED <<time, copy, form>>

\* The panel is there for an open session; it prices anew what a new copy makes different.
ConsolePolls ==
  /\ copy["console"] # session /\ copy' = [copy EXCEPT !["console"] = session]
  /\ panel' =
       IF ~Open(session) THEN [change |-> NoChange, asks |-> {}, shown |-> None, sending |-> None]
       ELSE IF /\ Open(copy["console"])
               /\ PanelKey(session, panel.change) = PanelKey(copy["console"], panel.change)
            THEN panel ELSE Priced(panel, session)
  /\ UNCHANGED <<time, session, held, form, acts>>

TermsNext ==
  \/ OthersPatch \/ Passes \/ Ends
  \/ (\E power \in Bays : ChoosesBay(power)) \/ ChangesForm \/ TimerFires \/ SendsForm \/ CreateArrives
  \/ \E i \in DOMAIN form.asks : PhoneHears(i)
  \/ PhonePolls \/ MovesDeadline \/ PhoneSends \/ PhonePatchArrives
  \/ Overrides \/ Confirms \/ ConsolePatchArrives \/ ConsolePolls
  \/ \E key \in panel.asks : ConsoleHears(key)

TermsSpec == TermsInit /\ [][TermsNext]_termVars

-----------------------------------------------------------------------------
(* Whoever changed it, and in whatever order: the deadline of a session     *)
(* whose car has not been made to wait since can be kept, so that only the  *)
(* plan, never the terms, can break a promise (sessions.ts:22, 203-222).    *)
PromiseCanBeKept ==
  Open(session) /\ ~held => Deliverable(Left(session), session.power, session.deadline)

(* The operator confirms nothing but what was priced: what the panel shows  *)
(* is the price of the change on it, for the car as the panel has it        *)
(* (OverrideControls.tsx:10, 48-70).                                        *)
OverrideIsPriced ==
  panel.shown # None => panel.shown = PanelKey(copy["console"], panel.change)

(* Once every answer is in, in the order asked and none lost, the phone     *)
(* prices what is chosen on it, and withholds the button only from terms that cannot be    *)
(* met any more (SetupScreen.tsx:95-121, 315, PlanScreen.tsx:52-67).        *)
PhoneIsPriced ==
  form.asks = <<>> /\ ~form.timer /\ ~form.amiss =>
    /\ form.screen = "need" =>
         /\ form.shown \in {None, SetupKey(form)}
         /\ ~form.feasible => ~Deliverable(form.energy, form.bay, form.deadline)
    /\ form.screen = "plan" /\ Left(copy["phone"]) > 0 => form.shown \in {None, PlanKey(copy["phone"])}

TermsAreSound == PromiseCanBeKept /\ OverrideIsPriced /\ PhoneIsPriced
=============================================================================
