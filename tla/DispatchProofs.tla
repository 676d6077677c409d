--------------------------- MODULE DispatchProofs ---------------------------
(***************************************************************************)
(* What the dispatcher remembers is what the chargers do, and when a solve *)
(* ends they hold its limits, counted from its slot or kept from an earlier*)
(* one: for any sessions, limits, lookahead, slots, and number of solves,  *)
(* lost links, refusals and restarts.                                      *)
(***************************************************************************)
EXTENDS Dispatch, FiniteSetTheorems, SequenceTheorems, TLAPS

\* A solve is a record of these fields.
Whole(r) ==
  r = [phase |-> r.phase, at |-> r.at, sessions |-> r.sessions, planned |-> r.planned,
       rows |-> r.rows, todo |-> r.todo, awaits |-> r.awaits]

\* The shape of the state, as far as the argument needs it.
Shapes ==
  /\ status \in [Sessions -> {"new", "active", "ended"}]
  /\ cp \in [Sessions -> {"idle", "charging", "left", "restarted"}]
  /\ DOMAIN profile = Sessions
  /\ \A s \in Sessions : profile[s].limits \in Rows \cup {<<>>}
  /\ DOMAIN lastSentW = Sessions
  /\ lastSentAt \in [Sessions -> Nat]
  /\ now \in Nat /\ solve.at \in Nat
  /\ rejections \in [Sessions -> Nat]
  /\ solve.phase \in {"idle", "planning", "sending"}
  /\ solve.sessions \subseteq Sessions
  /\ solve.rows \in [Sessions -> Rows]
  /\ Whole(solve)

\* A car that has not come yet has nothing on record, and no solve has read it.
NewIsBlank ==
  \A s \in Sessions : status[s] = "new" =>
    cp[s] = "idle" /\ lastSentW[s] = <<>> /\ s \notin solve.sessions

\* A refusal forgets what was sent before.
RefusedIsForgotten == \A s \in Sessions : rejections[s] > 0 => lastSentW[s] = <<>>

\* While a solve sends, whoever is done has its profile or has failed to take it.
DoneIsInForce ==
  solve.phase = "sending" =>
    \A s \in Sessions :
      /\ s \in solve.sessions /\ s \notin solve.todo /\ s # solve.awaits
      /\ cp[s] = "charging" /\ rejections[s] = 0
      => Follows(s)

\* Outside of the sending nobody is awaited.
AwaitsWhileSending == solve.phase # "sending" => solve.awaits = "nobody"

IInv ==
  /\ Shapes
  /\ NewIsBlank
  /\ RefusedIsForgotten
  /\ RememberedIsInForce
  /\ DoneIsInForce
  /\ AwaitsWhileSending

-----------------------------------------------------------------------------

\* How many numbers of 1..n are not above one of them.
LEMMA CountBelow ==
  ASSUME NEW n \in Nat, NEW i \in 1..n
  PROVE  Cardinality({j \in 1..n : j <= i}) = i
<1>1. {j \in 1..n : j <= i} = 1..i
  OBVIOUS
<1>2. Cardinality(1..i) = i
  BY FS_Interval
<1> QED
  BY <1>1, <1>2

\* A row that lost nothing when it was collapsed has lost no slot, so it can be
\* compared slot by slot, and has no two neighbours alike.
LEMMA FullCollapse ==
  ASSUME DispatchAssumption, NEW row \in Rows, Len(Collapse(row)) = Lookahead
  PROVE  Collapse(row) = row /\ \A i \in 2..Lookahead : row[i] # row[i - 1]
<1> DEFINE kept == {i \in DOMAIN row : i > 1 => row[i] # row[i - 1]}
           nth(k) == CHOOSE i \in kept : Cardinality({j \in kept : j <= i}) = k
<1>1. Lookahead \in Nat /\ DOMAIN row = 1..Lookahead
  BY DEF DispatchAssumption, Rows
<1>2. Collapse(row) = [k \in 1..Cardinality(kept) |-> row[nth(k)]]
  BY DEF Collapse
<1>3. IsFiniteSet(1..Lookahead) /\ Cardinality(1..Lookahead) = Lookahead
  BY <1>1, FS_Interval
<1>4. kept \subseteq 1..Lookahead
  BY <1>1
<1> HIDE DEF kept, nth
<1>5. IsFiniteSet(kept) /\ Cardinality(kept) \in Nat
  BY <1>3, <1>4, FS_Subset, FS_CardinalityType
<1>6. Cardinality(kept) = Lookahead
  <2> DEFINE S == {row[nth(k)] : k \in 1..Cardinality(kept)}
             n == Cardinality(kept)
  <2>1. Collapse(row) \in [1..n -> S]
    BY <1>2
  <2> HIDE DEF n, S
  <2>2. Collapse(row) \in Seq(S) /\ DOMAIN Collapse(row) = 1..n /\ n \in Nat
    BY <2>1, <1>5, SeqDef DEF n
  <2>3. n = Len(Collapse(row))
    BY <2>2, LenProperties
  <2> QED
    BY <2>3 DEF n
<1>7. kept = 1..Lookahead
  BY <1>3, <1>4, <1>6, FS_Subset
<1>8. \A k \in 1..Lookahead : nth(k) = k
  <2> SUFFICES ASSUME NEW k \in 1..Lookahead PROVE nth(k) = k
    OBVIOUS
  <2>1. \A i \in kept : Cardinality({j \in kept : j <= i}) = i
    BY <1>1, <1>7, CountBelow
  <2>2. k \in kept
    BY <1>7
  <2>3. nth(k) = CHOOSE i \in kept : Cardinality({j \in kept : j <= i}) = k
    BY DEF nth
  <2> QED
    BY <2>1, <2>2, <2>3
<1>9. Collapse(row) = [k \in 1..Lookahead |-> row[k]]
  BY <1>2, <1>6, <1>8
<1>10. \A i \in 2..Lookahead : row[i] # row[i - 1]
  <2> SUFFICES ASSUME NEW i \in 2..Lookahead PROVE row[i] # row[i - 1]
    OBVIOUS
  <2>1. i \in kept /\ i > 1
    BY <1>1, <1>7
  <2> QED
    BY <2>1 DEF kept
<1> QED
  BY <1>1, <1>9, <1>10 DEF Rows

-----------------------------------------------------------------------------

\* No car has come and no solve has begun.
LEMMA InitIInv == ASSUME DispatchAssumption, Init PROVE IInv
<1>1. NoPower \in Rows
  BY DEF DispatchAssumption, NoPower, Rows
<1>2. Shapes
  BY <1>1 DEF Init, Shapes, Whole, Idle, NoProfile
<1>3. NewIsBlank /\ RefusedIsForgotten /\ RememberedIsInForce
  BY DEF Init, NewIsBlank, RefusedIsForgotten, RememberedIsInForce, Idle
<1>4. DoneIsInForce /\ AwaitsWhileSending
  BY DEF Init, DoneIsInForce, AwaitsWhileSending, Idle
<1> QED
  BY <1>2, <1>3, <1>4 DEF IInv

\* A session that has its row remembered limit by limit has these limits on its
\* charger, so whoever is left out of a dispatch keeps a profile that has them.
LEMMA UnchangedIsInForce ==
  ASSUME DispatchAssumption, IInv, NEW s \in Sessions, NEW row \in Rows, ~Changed(s, row), cp[s] = "charging"
  PROVE  /\ profile[s].limits = row
         /\ \A i \in 2..Lookahead : row[i] # row[i - 1]
         /\ solve.at < lastSentAt[s] + StaleAfter
<1> DEFINE held == profile[s].limits
<1>1. /\ lastSentW[s] # <<>>
      /\ Len(lastSentW[s]) = Lookahead
      /\ \A i \in 1..Lookahead : row[i] = lastSentW[s][i]
      /\ ~(solve.at >= lastSentAt[s] + StaleAfter)
  BY DEF Changed
<1>2. Collapse(held) = lastSentW[s]
  BY <1>1 DEF IInv, RememberedIsInForce
<1>7. held \in Rows \cup {<<>>}
  BY DEF IInv, Shapes
<1> HIDE DEF held
<1>3. held \in Rows
  <2> SUFFICES ASSUME held = <<>> PROVE FALSE
    BY <1>7
  <2> DEFINE kept == {i \in DOMAIN held : i > 1 => held[i] # held[i - 1]}
             nth(k) == CHOOSE i \in kept : Cardinality({j \in kept : j <= i}) = k
  <2>1. kept = {}
    OBVIOUS
  <2>2. Collapse(held) = [k \in 1..Cardinality(kept) |-> held[nth(k)]]
    BY DEF Collapse
  <2> HIDE DEF nth, kept
  <2>3. Cardinality(kept) = 0
    BY <2>1, FS_EmptySet
  <2>4. DOMAIN Collapse(held) = {}
    BY <2>2, <2>3
  <2>5. Collapse(held) = <<>>
    BY <2>2, <2>4
  <2> QED
    BY <1>1, <1>2, <2>5
<1>4. lastSentW[s] = held /\ \A i \in 2..Lookahead : held[i] # held[i - 1]
  BY <1>1, <1>2, <1>3, FullCollapse
<1>5. held = row
  BY <1>1, <1>3, <1>4 DEF Rows
<1>6. StaleAfter \in Nat
  BY DEF DispatchAssumption, StaleAfter
<1> QED
  BY <1>1, <1>4, <1>5, <1>6 DEF IInv, Shapes, held

\* Beginning and ending a solve change nothing but the solve.
LEMMA SolveBeginsKeeps ==
  ASSUME DispatchAssumption, IInv, SolveBegins
  PROVE  IInv'
<1>1. /\ solve' = [Idle EXCEPT !.phase = "planning", !.at = now, !.sessions = Active,
                               !.planned = (Active \cap linked) \ uncontrolled]
      /\ UNCHANGED <<now, siteVars, profile, memoryVars>>
  BY DEF SolveBegins
<1>2. NoPower \in Rows
  BY DEF DispatchAssumption, NoPower, Rows
<1>3. Shapes'
  BY <1>1, <1>2 DEF IInv, Shapes, Whole, Idle, Active, siteVars, memoryVars
<1>4. NewIsBlank'
  BY <1>1 DEF IInv, NewIsBlank, Idle, Active, siteVars, memoryVars
<1>5. RefusedIsForgotten' /\ RememberedIsInForce'
  BY <1>1 DEF IInv, RefusedIsForgotten, RememberedIsInForce, siteVars, memoryVars
<1>6. DoneIsInForce' /\ AwaitsWhileSending'
  BY <1>1 DEF DoneIsInForce, AwaitsWhileSending, Idle
<1> QED
  BY <1>3, <1>4, <1>5, <1>6 DEF IInv

LEMMA SolveEndsKeeps ==
  ASSUME DispatchAssumption, IInv, SolveEnds
  PROVE  IInv'
<1>1. solve' = Idle /\ UNCHANGED <<now, siteVars, profile, memoryVars>>
  BY DEF SolveEnds
<1>2. NoPower \in Rows
  BY DEF DispatchAssumption, NoPower, Rows
<1>3. Shapes'
  BY <1>1, <1>2 DEF IInv, Shapes, Whole, Idle, siteVars, memoryVars
<1>4. NewIsBlank' /\ DoneIsInForce' /\ AwaitsWhileSending'
  BY <1>1 DEF IInv, NewIsBlank, DoneIsInForce, AwaitsWhileSending, Idle, siteVars, memoryVars
<1>5. RefusedIsForgotten' /\ RememberedIsInForce'
  BY <1>1 DEF IInv, RefusedIsForgotten, RememberedIsInForce, siteVars, memoryVars
<1> QED
  BY <1>3, <1>4, <1>5 DEF IInv

\* apply() leaves out whoever follows the plan already.
LEMMA DecideKeeps ==
  ASSUME DispatchAssumption, IInv, Decide
  PROVE  IInv'
<1>1. PICK plan \in [solve.planned -> Rows] :
        LET row(s) == IF s \in solve.planned THEN plan[s] ELSE NoPower
        IN  solve' = [solve EXCEPT !.phase = "sending",
                                   !.rows = [s \in Sessions |-> row(s)],
                                   !.todo = {s \in solve.sessions : Changed(s, row(s))}]
  BY DEF Decide
<1> DEFINE row(s) == IF s \in solve.planned THEN plan[s] ELSE NoPower
<1>2. /\ solve.phase = "planning"
      /\ UNCHANGED <<now, siteVars, profile, memoryVars>>
  BY DEF Decide
<1>3. \A s \in Sessions : row(s) \in Rows
  BY DEF DispatchAssumption, NoPower, Rows
<1>4. solve' = [solve EXCEPT !.phase = "sending",
                             !.rows = [s \in Sessions |-> row(s)],
                             !.todo = {s \in solve.sessions : Changed(s, row(s))}]
  BY <1>1
<1> HIDE DEF row
<1>5. /\ solve'.phase = "sending" /\ solve'.sessions = solve.sessions /\ solve'.at = solve.at
      /\ solve'.rows = [s \in Sessions |-> row(s)]
      /\ solve'.todo = {s \in solve.sessions : Changed(s, row(s))}
  BY <1>4 DEF IInv, Shapes, Whole
<1>6. Whole(solve')
  BY <1>4 DEF IInv, Shapes, Whole
<1>7. Shapes'
  BY <1>2, <1>3, <1>5, <1>6 DEF IInv, Shapes, siteVars, memoryVars
<1>8. NewIsBlank' /\ RefusedIsForgotten' /\ RememberedIsInForce'
  BY <1>2, <1>5 DEF IInv, NewIsBlank, RefusedIsForgotten, RememberedIsInForce, siteVars, memoryVars
<1>9. DoneIsInForce'
  <2> SUFFICES ASSUME NEW s \in Sessions, s \in solve'.sessions, s \notin solve'.todo,
                      cp'[s] = "charging"
               PROVE  Follows(s)'
    BY DEF DoneIsInForce
  <2>1. ~Changed(s, row(s)) /\ solve'.rows[s] = row(s) /\ row(s) \in Rows
    BY <1>3, <1>5
  <2>2. /\ profile[s].limits = row(s)
        /\ \A i \in 2..Lookahead : row(s)[i] # row(s)[i - 1]
        /\ solve.at < lastSentAt[s] + StaleAfter
    BY <1>2, <2>1, UnchangedIsInForce DEF siteVars
  <2> QED
    BY <1>2, <1>5, <2>1, <2>2 DEF Follows, Kept, memoryVars
<1>10. AwaitsWhileSending'
  BY <1>5 DEF AwaitsWhileSending
<1> QED
  BY <1>7, <1>8, <1>9, <1>10 DEF IInv

\* A profile is given to one charger, and leaves the others theirs.
LEMMA SentShapes ==
  ASSUME DispatchAssumption, IInv, NEW s \in Sessions, profile' = profile \/ profile' = [profile EXCEPT ![s] = Sent(s)]
  PROVE  /\ DOMAIN profile' = Sessions
         /\ \A r \in Sessions : profile'[r].limits \in Rows \cup {<<>>}
         /\ \A r \in Sessions \ {s} : profile'[r] = profile[r]
<1>1. CASE profile' = profile
  BY <1>1 DEF IInv, Shapes
<1>2. CASE profile' = [profile EXCEPT ![s] = Sent(s)]
  <2>1. /\ DOMAIN profile' = Sessions /\ profile'[s] = Sent(s)
        /\ \A r \in Sessions \ {s} : profile'[r] = profile[r]
    BY <1>2 DEF IInv, Shapes
  <2>2. Sent(s).limits \in Rows
    BY DEF IInv, Shapes, Sent
  <2> QED
    BY <2>1, <2>2 DEF IInv, Shapes
<1> QED
  BY <1>1, <1>2

\* A send that has failed, whatever the charger made of it.
LEMMA RefusalKeeps ==
  ASSUME DispatchAssumption, IInv, NEW s \in Sessions, NEW refused \in BOOLEAN, HandleRefusal(s, refused),
         solve.awaits \in {s, "nobody"}, solve.phase = "sending",
         Whole(solve'), solve'.awaits = "nobody", solve.todo \ {s} \subseteq solve'.todo,
         solve'.phase = solve.phase, solve'.sessions = solve.sessions, solve'.rows = solve.rows,
         solve'.at = solve.at,
         UNCHANGED <<now, siteVars>>,
         profile' = profile \/ profile' = [profile EXCEPT ![s] = Sent(s)]
  PROVE  IInv'
<1>1. /\ rejections' = [rejections EXCEPT ![s] = @ + 1]
      /\ lastSentW' = [lastSentW EXCEPT ![s] = <<>>]
      /\ UNCHANGED lastSentAt
  BY DEF HandleRefusal
<1>2. /\ DOMAIN profile' = Sessions
      /\ \A r \in Sessions : profile'[r].limits \in Rows \cup {<<>>}
      /\ \A r \in Sessions \ {s} : profile'[r] = profile[r]
  BY SentShapes
<1>3. Shapes'
  <2>1. rejections' \in [Sessions -> Nat]
    BY <1>1 DEF IInv, Shapes
  <2>2. DOMAIN lastSentW' = Sessions /\ lastSentAt' \in [Sessions -> Nat]
    BY <1>1 DEF IInv, Shapes
  <2> QED
    BY <1>2, <2>1, <2>2 DEF IInv, Shapes, siteVars
<1>4. NewIsBlank' /\ RefusedIsForgotten'
  BY <1>1 DEF IInv, Shapes, NewIsBlank, RefusedIsForgotten, siteVars
<1>5. RememberedIsInForce'
  BY <1>1, <1>2 DEF IInv, Shapes, RememberedIsInForce, siteVars
<1>6. rejections'[s] # 0
  BY <1>1 DEF IInv, Shapes
<1>7. DoneIsInForce'
  <2> SUFFICES ASSUME NEW r \in Sessions, solve'.phase = "sending",
                      r \in solve'.sessions, r \notin solve'.todo, cp'[r] = "charging", rejections'[r] = 0
               PROVE  Follows(r)'
    BY DEF DoneIsInForce
  <2>1. r # s /\ r \notin solve.todo /\ r # solve.awaits /\ rejections[r] = 0
    BY <1>1, <1>6 DEF DispatchAssumption, IInv, Shapes
  <2>2. Follows(r)
    BY <2>1 DEF IInv, DoneIsInForce, siteVars
  <2> QED
    BY <1>1, <1>2, <2>1, <2>2 DEF Follows, Kept
<1> QED
  BY <1>3, <1>4, <1>5, <1>7 DEF IInv, AwaitsWhileSending

\* A CALL is awaited only while the solve sends.
LEMMA AwaitedWhileSending ==
  ASSUME DispatchAssumption, IInv, NEW s \in Sessions, solve.awaits = s
  PROVE  solve.phase = "sending"
BY DEF DispatchAssumption, IInv, AwaitsWhileSending

LEMMA SendKeeps ==
  ASSUME DispatchAssumption, IInv, NEW s \in Sessions, Send(s)
  PROVE  IInv'
<1>1. /\ solve.phase = "sending" /\ solve.awaits = "nobody"
      /\ UNCHANGED <<now, siteVars, profile, solves, faults>>
  BY DEF Send
<1>2. CASE s \in linked
  <2>1. /\ solve' = [solve EXCEPT !.todo = @ \ {s}, !.awaits = s]
        /\ UNCHANGED <<lastSentW, lastSentAt, rejections>>
    BY <1>2 DEF Send
  <2>2. /\ solve'.phase = solve.phase /\ solve'.sessions = solve.sessions
        /\ solve'.rows = solve.rows /\ solve'.at = solve.at
        /\ solve'.todo = solve.todo \ {s} /\ solve'.awaits = s
        /\ Whole(solve')
    BY <2>1 DEF IInv, Shapes, Whole
  <2>3. Shapes'
    BY <1>1, <2>1, <2>2 DEF IInv, Shapes, siteVars
  <2>4. NewIsBlank' /\ RefusedIsForgotten' /\ RememberedIsInForce'
    BY <1>1, <2>1, <2>2 DEF IInv, NewIsBlank, RefusedIsForgotten, RememberedIsInForce, siteVars
  <2>5. DoneIsInForce' /\ AwaitsWhileSending'
    BY <1>1, <2>1, <2>2 DEF DispatchAssumption, IInv, DoneIsInForce, Follows, Kept, AwaitsWhileSending, siteVars
  <2> QED
    BY <2>3, <2>4, <2>5 DEF IInv
<1>3. CASE s \notin linked
  <2>1. solve' = [solve EXCEPT !.todo = @ \ {s}] /\ HandleRefusal(s, FALSE)
    BY <1>3 DEF Send
  <2>2. /\ Whole(solve') /\ solve'.awaits = "nobody" /\ solve'.todo = solve.todo \ {s}
        /\ solve'.phase = solve.phase /\ solve'.sessions = solve.sessions
        /\ solve'.rows = solve.rows /\ solve'.at = solve.at
    BY <1>1, <2>1 DEF IInv, Shapes, Whole
  <2> QED
    BY <1>1, <2>1, <2>2, RefusalKeeps
<1> QED
  BY <1>2, <1>3

\* The charger follows its row from now on, and that is what is remembered.
LEMMA AcceptedKeeps ==
  ASSUME DispatchAssumption, IInv, NEW s \in Sessions, Accepted(s)
  PROVE  IInv'
<1>1. /\ solve.awaits = s /\ InTransaction(s)
      /\ profile' = [profile EXCEPT ![s] = Sent(s)]
      /\ lastSentW' = [lastSentW EXCEPT ![s] = Collapse(solve.rows[s])]
      /\ lastSentAt' = [lastSentAt EXCEPT ![s] = now]
      /\ rejections' = [rejections EXCEPT ![s] = 0]
      /\ solve' = [solve EXCEPT !.awaits = "nobody"]
      /\ UNCHANGED <<now, siteVars>>
  BY DEF Accepted, Answered
<1>2. /\ solve'.phase = solve.phase /\ solve'.sessions = solve.sessions
      /\ solve'.rows = solve.rows /\ solve'.at = solve.at
      /\ solve'.todo = solve.todo /\ solve'.awaits = "nobody"
      /\ Whole(solve')
  BY <1>1 DEF IInv, Shapes, Whole
<1>3. Shapes'
  <2>1. DOMAIN profile' = Sessions /\ \A r \in Sessions : profile'[r].limits \in Rows \cup {<<>>}
    BY <1>1, SentShapes
  <2>2. lastSentAt' \in [Sessions -> Nat] /\ DOMAIN lastSentW' = Sessions /\ rejections' \in [Sessions -> Nat]
    BY <1>1 DEF IInv, Shapes
  <2> QED
    BY <1>1, <1>2, <2>1, <2>2 DEF IInv, Shapes, siteVars
<1>4. status[s] # "new"
  BY <1>1 DEF IInv, NewIsBlank, InTransaction
<1>5. NewIsBlank' /\ RefusedIsForgotten'
  BY <1>1, <1>2, <1>4 DEF IInv, Shapes, NewIsBlank, RefusedIsForgotten, siteVars
<1>6. RememberedIsInForce'
  <2> SUFFICES ASSUME NEW r \in Sessions, lastSentW'[r] # <<>>, cp'[r] = "charging"
               PROVE  Collapse(profile'[r].limits) = lastSentW'[r]
    BY DEF RememberedIsInForce
  <2>1. CASE r = s
    <3>1. profile'[r].limits = solve.rows[s] /\ lastSentW'[r] = Collapse(solve.rows[s])
      BY <1>1, <2>1 DEF IInv, Shapes, Sent
    <3> QED
      BY <3>1
  <2>2. CASE r # s
    <3>1. profile'[r] = profile[r] /\ lastSentW'[r] = lastSentW[r] /\ cp'[r] = cp[r]
      BY <1>1, <2>2 DEF IInv, Shapes, siteVars
    <3>2. Collapse(profile[r].limits) = lastSentW[r]
      BY <3>1 DEF IInv, RememberedIsInForce
    <3> QED
      BY <3>1, <3>2
  <2> QED
    BY <2>1, <2>2
<1>7. DoneIsInForce'
  <2> SUFFICES ASSUME NEW r \in Sessions, solve'.phase = "sending",
                      r \in solve'.sessions, r \notin solve'.todo, cp'[r] = "charging", rejections'[r] = 0
               PROVE  Follows(r)'
    BY DEF DoneIsInForce
  <2>1. CASE r = s
    <3>1. profile'[r] = Sent(s)
      BY <1>1, <2>1 DEF IInv, Shapes
    <3> QED
      BY <1>2, <2>1, <3>1 DEF Follows, Sent
  <2>2. CASE r # s
    <3>1. /\ profile'[r] = profile[r] /\ lastSentAt'[r] = lastSentAt[r]
          /\ rejections[r] = 0 /\ cp[r] = "charging"
      BY <1>1, <2>2 DEF IInv, Shapes, siteVars
    <3>2. Follows(r)
      BY <1>1, <1>2, <2>2, <3>1 DEF IInv, DoneIsInForce
    <3> QED
      BY <1>2, <3>1, <3>2 DEF Follows, Kept
  <2> QED
    BY <2>1, <2>2
<1>8. AwaitsWhileSending'
  BY <1>2 DEF AwaitsWhileSending
<1> QED
  BY <1>3, <1>5, <1>6, <1>7, <1>8 DEF IInv

LEMMA RefusedKeeps ==
  ASSUME DispatchAssumption, IInv, NEW s \in Sessions, Refused(s) \/ Fails(s)
  PROVE  IInv'
<1>1. PICK refused \in BOOLEAN : HandleRefusal(s, refused)
  BY DEF Refused, Fails
<1>2. /\ solve.awaits = s
      /\ solve' = [solve EXCEPT !.awaits = "nobody"]
      /\ UNCHANGED <<now, siteVars>>
      /\ profile' = profile \/ profile' = [profile EXCEPT ![s] = Sent(s)]
  BY DEF Refused, Fails, Answered
<1>3. solve.phase = "sending"
  BY <1>2, AwaitedWhileSending
<1>4. /\ Whole(solve') /\ solve'.awaits = "nobody" /\ solve'.todo = solve.todo
      /\ solve'.phase = solve.phase /\ solve'.sessions = solve.sessions
      /\ solve'.rows = solve.rows /\ solve'.at = solve.at
  BY <1>2 DEF IInv, Shapes, Whole
<1> QED
  BY <1>1, <1>2, <1>3, <1>4, RefusalKeeps

\* What happens on the site takes a charger out of the invariants' reach, or
\* begins with a car that has nothing on record.
LEMMA SiteKeeps ==
  ASSUME DispatchAssumption, IInv, NEW s \in Sessions,
         \/ PlugIn(s) \/ Leave(s) \/ SessionEnds(s) \/ TransactionCloses(s)
         \/ Restart(s) \/ LinkChanges(s)
  PROVE  IInv'
<1>1. CASE PlugIn(s)
  <2>1. /\ status[s] = "new"
        /\ status' = [status EXCEPT ![s] = "active"] /\ cp' = [cp EXCEPT ![s] = "charging"]
        /\ UNCHANGED <<now, profile, lastSentW, lastSentAt, rejections, solve>>
    BY <1>1 DEF PlugIn, memoryVars
  <2> QED
    BY <2>1 DEF IInv, Shapes, NewIsBlank, RefusedIsForgotten, RememberedIsInForce,
       DoneIsInForce, Follows, Kept, AwaitsWhileSending
<1>2. CASE Leave(s)
  <2>1. /\ cp[s] = "charging" /\ cp' = [cp EXCEPT ![s] = "left"]
        /\ UNCHANGED <<now, status, profile, lastSentW, lastSentAt, rejections, solve>>
    BY <1>2 DEF Leave, memoryVars
  <2> QED
    BY <2>1 DEF IInv, Shapes, NewIsBlank, RefusedIsForgotten, RememberedIsInForce,
       DoneIsInForce, Follows, Kept, AwaitsWhileSending
<1>3. CASE SessionEnds(s)
  <2>1. /\ cp[s] = "left" /\ status' = [status EXCEPT ![s] = "ended"]
        /\ lastSentW' = [lastSentW EXCEPT ![s] = <<>>]
        /\ lastSentAt' = [lastSentAt EXCEPT ![s] = 0]
        /\ rejections' = [rejections EXCEPT ![s] = 0]
        /\ UNCHANGED <<now, cp, profile, solve>>
    BY <1>3 DEF SessionEnds, Forget
  <2> QED
    BY <2>1 DEF IInv, Shapes, NewIsBlank, RefusedIsForgotten, RememberedIsInForce,
       DoneIsInForce, Follows, Kept, AwaitsWhileSending
<1>4. CASE TransactionCloses(s) \/ Restart(s)
  <2>1. /\ status[s] # "new" /\ profile' = [profile EXCEPT ![s] = NoProfile]
        /\ cp' = [cp EXCEPT ![s] = "idle"] \/ cp' = [cp EXCEPT ![s] = "restarted"]
        /\ UNCHANGED <<now, status, lastSentW, lastSentAt, rejections, solve>>
    BY <1>4 DEF TransactionCloses, Restart, InTransaction, memoryVars, IInv, NewIsBlank
  <2> QED
    BY <2>1 DEF IInv, Shapes, NewIsBlank, RefusedIsForgotten, RememberedIsInForce,
       DoneIsInForce, Follows, Kept, AwaitsWhileSending, NoProfile
<1>5. CASE LinkChanges(s)
  BY <1>5 DEF LinkChanges, memoryVars, IInv, Shapes, NewIsBlank, RefusedIsForgotten,
     RememberedIsInForce, DoneIsInForce, Follows, Kept, AwaitsWhileSending
<1> QED
  BY <1>1, <1>2, <1>3, <1>4, <1>5

\* Every step keeps the invariant.
LEMMA NextKeepsIInv == ASSUME DispatchAssumption, IInv, [Next]_vars PROVE IInv'
<1>1. CASE SolveBegins \/ Decide \/ SolveEnds
  BY <1>1, SolveBeginsKeeps, DecideKeeps, SolveEndsKeeps
<1>2. CASE Tick \/ UNCHANGED vars
  <2>1. now' \in Nat /\ UNCHANGED <<siteVars, profile, memoryVars, solve>>
    BY <1>2 DEF Tick, vars, siteVars, memoryVars, IInv, Shapes
  <2> QED
    BY <2>1 DEF siteVars, memoryVars, IInv, Shapes, NewIsBlank, RefusedIsForgotten,
       RememberedIsInForce, DoneIsInForce, Follows, Kept, AwaitsWhileSending
<1>3. ASSUME NEW s \in Sessions,
             Send(s) \/ Accepted(s) \/ Refused(s) \/ Fails(s)
      PROVE  IInv'
  BY <1>3, SendKeeps, AcceptedKeeps, RefusedKeeps
<1>4. ASSUME NEW s \in Sessions,
             \/ PlugIn(s) \/ Leave(s) \/ SessionEnds(s) \/ TransactionCloses(s)
             \/ Restart(s) \/ LinkChanges(s)
      PROVE  IInv'
  BY <1>4, SiteKeeps
<1> QED
  BY <1>1, <1>2, <1>3, <1>4 DEF Next

-----------------------------------------------------------------------------

\* The invariant holds in every reachable state.
THEOREM InductiveInvariant == ASSUME DispatchAssumption PROVE Spec => []IInv
<1>1. Init => IInv
  BY InitIInv
<1>2. IInv /\ [Next]_vars => IInv'
  BY NextKeepsIInv
<1> QED
  BY <1>1, <1>2, PTL DEF Spec

\* What is remembered as sent is what the charger follows while it charges.
THEOREM MemoryIsTrue == ASSUME DispatchAssumption PROVE Spec => []RememberedIsInForce
<1>1. IInv => RememberedIsInForce
  BY DEF IInv
<1> QED
  BY <1>1, InductiveInvariant, PTL

\* Whoever has not failed to take its profile holds one of this plan when the
\* solve ends.
LEMMA EndsInForce ==
  ASSUME DispatchAssumption, IInv, SolveEnds, NEW s \in Obedient
  PROVE  Follows(s)
<1>1. solve.phase = "sending" /\ solve.awaits = "nobody" /\ solve.todo = {}
  BY DEF SolveEnds
<1>2. s \in Sessions
  BY DEF IInv, Shapes, Obedient
<1> QED
  BY <1>1, <1>2 DEF DispatchAssumption, IInv, DoneIsInForce, Obedient

\* The slot of a time begins at it or before, and ends after it.
LEMMA SlotBounds ==
  ASSUME DispatchAssumption, NEW t \in Nat
  PROVE  /\ SlotAt(t) \in Nat
         /\ SlotAt(t) * SlotLength <= t
         /\ t < (SlotAt(t) + 1) * SlotLength
  BY DEF DispatchAssumption, SlotAt

\* A profile accepted within its first slot has not run out in a solve that
\* leaves it, as it is sent anew a slot's length before.
LEMMA RefreshedInTime ==
  ASSUME DispatchAssumption, IInv, SolveEnds, NEW s \in Obedient
  PROVE  StillCovers(s)
<1> SUFFICES ASSUME Lookahead > 1, SlotAt(lastSentAt[s]) = profile[s].from
             PROVE  SlotAt(solve.at) < profile[s].from + Lookahead
  BY DEF StillCovers
<1> DEFINE at == solve.at
           sent == lastSentAt[s]
           from == profile[s].from
<1>1. Follows(s)
  BY EndsInForce
<1>2. at \in Nat /\ sent \in Nat /\ Lookahead \in Nat \ {0} /\ SlotLength \in Nat \ {0}
  BY DEF DispatchAssumption, IInv, Shapes, Obedient
<1>3. /\ SlotAt(at) \in Nat /\ from \in Nat
      /\ SlotAt(at) * SlotLength <= at
      /\ sent < (from + 1) * SlotLength
  BY <1>2, SlotBounds
<1>4. CASE from = SlotAt(at)
  BY <1>2, <1>3, <1>4
<1>5. CASE Kept(s)
  <2>1. at < sent + (Lookahead - 1) * SlotLength
    BY <1>5 DEF Kept, StaleAfter
  <2> HIDE DEF at, sent, from
  <2>2. SlotAt(at) * SlotLength < (from + 1) * SlotLength + (Lookahead - 1) * SlotLength
    BY <1>2, <1>3, <2>1
  <2>3. (from + 1) * SlotLength + (Lookahead - 1) * SlotLength = (from + Lookahead) * SlotLength
    BY <1>2, <1>3
  <2>4. SlotAt(at) < from + Lookahead
    BY <1>2, <1>3, <2>2, <2>3
  <2> QED
    BY <2>4 DEF at, from
<1> QED
  BY <1>1, <1>4, <1>5 DEF Follows

\* When a solve ends, every charger that runs a session of it and has not failed
\* to take its profile holds the limits of this plan; they count from another
\* slot than the plan's first only where the plan repeats what was last sent,
\* without two neighbours alike and less than StaleAfter ago; and no profile of
\* two slots or more that was accepted within its first has run out.
THEOREM PlansTakeEffect == ASSUME DispatchAssumption PROVE Spec => PlanIsInForce
<1>1. IInv /\ [Next]_vars => [TakesEffect]_vars
  BY EndsInForce, RefreshedInTime DEF TakesEffect
<1> QED
  BY <1>1, InductiveInvariant, PTL DEF Spec, PlanIsInForce

\* Whoever failed to take its last profile is sent one by the next solve.
THEOREM RefusalsAreRetried == ASSUME DispatchAssumption PROVE Spec => RefusalIsRetried
<1>1. IInv /\ [Next]_vars =>
        [Decide => \A s \in solve.sessions : rejections[s] > 0 => s \in solve'.todo]_vars
  <2> SUFFICES ASSUME IInv, Decide, NEW s \in solve.sessions, rejections[s] > 0
               PROVE  s \in solve'.todo
    OBVIOUS
  <2>1. solve.sessions \subseteq Sessions
    BY DEF IInv, Shapes
  <2>2. PICK plan \in [solve.planned -> Rows] :
        LET row(r) == IF r \in solve.planned THEN plan[r] ELSE NoPower
        IN  solve' = [solve EXCEPT !.phase = "sending",
                                   !.rows = [r \in Sessions |-> row(r)],
                                   !.todo = {r \in solve.sessions : Changed(r, row(r))}]
    BY DEF Decide
  <2>3. lastSentW[s] = <<>>
    BY <2>1 DEF IInv, RefusedIsForgotten
  <2> QED
    BY <2>2, <2>3 DEF Changed, IInv, Shapes
<1> QED
  BY <1>1, InductiveInvariant, PTL DEF Spec, RefusalIsRetried
=============================================================================
