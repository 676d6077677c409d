--------------------------- MODULE SchedulerProofs --------------------------
(***************************************************************************)
(* One run of the scheduler, proved for any number of cars, slots and      *)
(* ceilings: no plan gives away what is not there, what a plan says it     *)
(* draws is what its rows add up to, and a car that a greedy attempt       *)
(* leaves short found no room.  Then what a plan is worth: the two solvers *)
(* measure it alike, and a lower peak costs no more than it saves.  Last,  *)
(* a flexibility request that a site keeps to is reported as kept.         *)
(* The sums of the model are folds over finite sets; the first part gives  *)
(* the facts about them that the invariant needs, by induction on the      *)
(* size of the set.                                                        *)
(***************************************************************************)
EXTENDS Scheduler, FlexDesk, FiniteSetTheorems, NaturalsInduction, WellFoundedInduction, TLAPS

(***************************************************************************)
(* Induction and folds.                                                    *)
(***************************************************************************)
LEMMA Induct ==
  ASSUME NEW T \in SUBSET Nat, 0 \in T, \A n \in T : n + 1 \in T
  PROVE  T = Nat
<1>1. SUFFICES ASSUME Nat \ T # {}
               PROVE  FALSE
  OBVIOUS
<1>2. PICK n \in Nat \ T : \A m \in Nat \ T : ~ (<<m, n>> \in OpToRel(<, Nat))
  BY <1>1, NatLessThanWellFounded, WFMin
<1>3. \A m \in Nat \ T : ~ (m < n)
  BY <1>2 DEF OpToRel
<1>4. n \in Nat /\ n \notin T /\ n # 0
  OBVIOUS
<1>5. n - 1 \in Nat /\ n - 1 < n
  BY <1>4
<1>6. n - 1 \in T
  BY <1>3, <1>5
<1> QED
  BY <1>4, <1>5, <1>6

\* The member of a set that a fold takes first.
First(s) == CHOOSE x \in s : TRUE

\* g adds up the values of f over every subset of S.
Folds(g, f, S) ==
  g = [s \in SUBSET S |-> IF s = {} THEN 0 ELSE f[First(s)] + g[s \ {First(s)}]]

\* Subsets of S that have at most n members.
UpTo(n, S) == {s \in SUBSET S : Cardinality(s) <= n}

LEMMA OneLess ==
  ASSUME NEW S, IsFiniteSet(S), NEW s \in SUBSET S, s # {}
  PROVE  /\ First(s) \in s /\ s \ {First(s)} \in SUBSET S
         /\ Cardinality(s) \in Nat /\ Cardinality(s) > 0
         /\ Cardinality(s \ {First(s)}) = Cardinality(s) - 1
<1>1. First(s) \in s
  BY DEF First
<1>2. IsFiniteSet(s) /\ Cardinality(s) \in Nat
  BY FS_Subset, FS_CardinalityType
<1>3. Cardinality(s) # 0
  BY <1>2, FS_EmptySet
<1>4. Cardinality(s \ {First(s)}) = Cardinality(s) - 1
  BY <1>1, <1>2, FS_RemoveElement
<1> QED
  BY <1>1, <1>2, <1>3, <1>4

LEMMA FoldExists ==
  ASSUME NEW S, IsFiniteSet(S), NEW f
  PROVE  \E g : Folds(g, f, S)
<1> DEFINE Partial(g, n) ==
             g = [s \in UpTo(n, S) |-> IF s = {} THEN 0 ELSE f[First(s)] + g[s \ {First(s)}]]
           T == {n \in Nat : \E g : Partial(g, n)}
<1>0. \A s \in SUBSET S : Cardinality(s) \in Nat /\ (Cardinality(s) = 0 <=> s = {})
  <2>1. \A s \in SUBSET S : IsFiniteSet(s)
    BY FS_Subset
  <2> QED
    BY <2>1, FS_CardinalityType, FS_EmptySet
<1>1. 0 \in T
  <2> DEFINE g == [s \in UpTo(0, S) |-> 0]
  <2>1. \A s \in UpTo(0, S) : s = {}
    BY <1>0 DEF UpTo
  <2>2. Partial(g, 0)
    BY <2>1
  <2> QED
    BY <2>2
<1>2. ASSUME NEW n \in T
      PROVE  n + 1 \in T
  <2>1. PICK g : Partial(g, n)
    OBVIOUS
  <2> DEFINE h == [s \in UpTo(n + 1, S) |->
                     IF s = {} THEN 0 ELSE f[First(s)] + g[s \ {First(s)}]]
  <2>2. ASSUME NEW s \in UpTo(n, S)
        PROVE  h[s] = g[s]
    <3>1. s \in UpTo(n + 1, S)
      BY <1>0 DEF UpTo
    <3> QED
      BY <2>1, <3>1
  <2>3. ASSUME NEW s \in UpTo(n + 1, S), s # {}
        PROVE  s \ {First(s)} \in UpTo(n, S)
    BY <2>3, OneLess DEF UpTo
  <2>4. Partial(h, n + 1)
    BY <2>2, <2>3
  <2> HIDE DEF h
  <2>5. \E k : Partial(k, n + 1)
    BY <2>4
  <2> QED
    BY <2>5
<1>3. T = Nat
  <2> HIDE DEF T
  <2>1. T \in SUBSET Nat
    BY DEF T
  <2> QED
    BY <1>1, <1>2, <2>1, Induct
<1>4. Cardinality(S) \in Nat
  BY <1>0
<1>5. PICK g : Partial(g, Cardinality(S))
  BY <1>3, <1>4
<1>6. UpTo(Cardinality(S), S) = SUBSET S
  BY <1>0, <1>4, FS_Subset DEF UpTo
<1> QED
  BY <1>5, <1>6 DEF Folds

\* What holds of the empty set, and of a set when it holds of the set without its
\* first member, holds of every subset of a finite set.
LEMMA SetByMember ==
  ASSUME NEW S, IsFiniteSet(S), NEW Q \in SUBSET (SUBSET S),
         {} \in Q,
         \A s \in SUBSET S : s # {} /\ s \ {First(s)} \in Q => s \in Q
  PROVE  Q = SUBSET S
<1> DEFINE T == {n \in Nat : UpTo(n, S) \subseteq Q}
<1>0. \A s \in SUBSET S : Cardinality(s) \in Nat /\ (Cardinality(s) = 0 <=> s = {})
  <2>1. \A s \in SUBSET S : IsFiniteSet(s)
    BY FS_Subset
  <2> QED
    BY <2>1, FS_CardinalityType, FS_EmptySet
<1>1. 0 \in T
  <2>1. \A s \in UpTo(0, S) : s = {}
    BY <1>0 DEF UpTo
  <2> QED
    BY <2>1
<1>2. ASSUME NEW n \in T
      PROVE  n + 1 \in T
  <2>1. ASSUME NEW s \in UpTo(n + 1, S), s # {}
        PROVE  s \ {First(s)} \in UpTo(n, S)
    BY <2>1, OneLess DEF UpTo
  <2>2. UpTo(n, S) \subseteq Q /\ UpTo(n + 1, S) \subseteq SUBSET S
    BY DEF UpTo
  <2>3. UpTo(n + 1, S) \subseteq Q
    BY <2>1, <2>2
  <2> QED
    BY <2>3
<1>3. T = Nat
  <2> HIDE DEF T
  <2>1. T \in SUBSET Nat
    BY DEF T
  <2> QED
    BY <1>1, <1>2, <2>1, Induct
<1>4. ASSUME NEW s \in SUBSET S
      PROVE  s \in Q
  <2>1. Cardinality(s) \in Nat /\ s \in UpTo(Cardinality(s), S)
    BY <1>0 DEF UpTo
  <2> QED
    BY <1>3, <2>1
<1> QED
  BY <1>4

\* A sum of integers is an integer.
LEMMA FoldInt ==
  ASSUME NEW S, IsFiniteSet(S), NEW f, \A x \in S : f[x] \in Int,
         NEW g, Folds(g, f, S)
  PROVE  \A s \in SUBSET S : g[s] \in Int
<1>0. \A s \in SUBSET S : s # {} => g[s] = f[First(s)] + g[s \ {First(s)}]
  BY DEF Folds
<1> DEFINE Q == {s \in SUBSET S : g[s] \in Int}
<1>1. {} \in Q
  BY DEF Folds
<1>2. ASSUME NEW s \in SUBSET S, s # {}, s \ {First(s)} \in Q
      PROVE  s \in Q
  <2>1. f[First(s)] \in Int
    BY <1>2, OneLess
  <2>2. g[s] = f[First(s)] + g[s \ {First(s)}]
    BY <1>0, <1>2
  <2> QED
    BY <1>2, <2>1, <2>2
<1> HIDE DEF Q
<1>3. Q \in SUBSET (SUBSET S)
  BY DEF Q
<1>4. Q = SUBSET S
  BY <1>1, <1>2, <1>3, SetByMember
<1> QED
  BY <1>4 DEF Q

\* A sum of noughts is nought.
LEMMA FoldZero ==
  ASSUME NEW S, IsFiniteSet(S), NEW f, \A x \in S : f[x] = 0,
         NEW g, Folds(g, f, S)
  PROVE  g[S] = 0
<1>0. \A s \in SUBSET S : s # {} => g[s] = f[First(s)] + g[s \ {First(s)}]
  BY DEF Folds
<1> DEFINE Q == {s \in SUBSET S : g[s] = 0}
<1>1. {} \in Q
  BY DEF Folds
<1>2. ASSUME NEW s \in SUBSET S, s # {}, s \ {First(s)} \in Q
      PROVE  s \in Q
  <2>1. f[First(s)] = 0
    BY <1>2, OneLess
  <2> QED
    BY <1>0, <1>2, <2>1
<1> HIDE DEF Q
<1>3. Q \in SUBSET (SUBSET S)
  BY DEF Q
<1>4. Q = SUBSET S
  BY <1>1, <1>2, <1>3, SetByMember
<1> QED
  BY <1>4 DEF Q

\* A sum of what is not below nought is not either.
LEMMA FoldNotBelow ==
  ASSUME NEW S, IsFiniteSet(S), NEW f, \A x \in S : f[x] \in Int /\ f[x] >= 0,
         NEW g, Folds(g, f, S)
  PROVE  g[S] >= 0
<1>0. \A s \in SUBSET S : s # {} => g[s] = f[First(s)] + g[s \ {First(s)}]
  BY DEF Folds
<1> DEFINE Q == {s \in SUBSET S : g[s] \in Int /\ g[s] >= 0}
<1>1. {} \in Q
  BY DEF Folds
<1>2. ASSUME NEW s \in SUBSET S, s # {}, s \ {First(s)} \in Q
      PROVE  s \in Q
  <2>1. f[First(s)] \in Int /\ f[First(s)] >= 0
    BY <1>2, OneLess
  <2>2. g[s] = f[First(s)] + g[s \ {First(s)}]
    BY <1>0, <1>2
  <2> QED
    BY <1>2, <2>1, <2>2
<1> HIDE DEF Q
<1>3. Q \in SUBSET (SUBSET S)
  BY DEF Q
<1>4. Q = SUBSET S
  BY <1>1, <1>2, <1>3, SetByMember
<1> QED
  BY <1>4 DEF Q

\* A sum moves by as much as the one term that changes.
LEMMA FoldShift ==
  ASSUME NEW S, IsFiniteSet(S), NEW c \in S,
         NEW f, \A x \in S : f[x] \in Int, NEW g, Folds(g, f, S),
         NEW e, \A x \in S : e[x] \in Int, NEW h, Folds(h, e, S),
         \A x \in S \ {c} : e[x] = f[x]
  PROVE  h[S] = g[S] + (e[c] - f[c])
<1>0. /\ \A s \in SUBSET S : s # {} => g[s] = f[First(s)] + g[s \ {First(s)}]
      /\ \A s \in SUBSET S : s # {} => h[s] = e[First(s)] + h[s \ {First(s)}]
  BY DEF Folds
<1> DEFINE Q == {s \in SUBSET S : h[s] = g[s] + (IF c \in s THEN e[c] - f[c] ELSE 0)}
<1>1. {} \in Q
  BY DEF Folds
<1>2. ASSUME NEW s \in SUBSET S, s # {}, s \ {First(s)} \in Q
      PROVE  s \in Q
  <2> DEFINE a == First(s)
             t == s \ {First(s)}
  <2>1. a \in s /\ a \in S /\ t \in SUBSET S
    BY <1>2, OneLess
  <2>2. g[s] = f[a] + g[t] /\ h[s] = e[a] + h[t]
    BY <1>0, <1>2
  <2>3. g[t] \in Int /\ h[t] \in Int
    BY <2>1, FoldInt
  <2>4. h[t] = g[t] + (IF c \in t THEN e[c] - f[c] ELSE 0)
    BY <1>2
  <2>5. f[a] \in Int /\ e[a] \in Int /\ f[c] \in Int /\ e[c] \in Int
    BY <2>1
  <2>6. CASE a = c
    <3>1. c \notin t /\ c \in s
      BY <2>1, <2>6
    <3> QED
      BY <2>2, <2>3, <2>4, <2>5, <2>6, <3>1
  <2>7. CASE a # c
    <3>1. e[a] = f[a] /\ (c \in s <=> c \in t)
      BY <2>1, <2>7
    <3> HIDE DEF a, t
    <3> QED
      BY <2>2, <2>3, <2>4, <2>5, <3>1
  <2> QED
    BY <2>6, <2>7
<1> HIDE DEF Q
<1>3. Q \in SUBSET (SUBSET S)
  BY DEF Q
<1>4. Q = SUBSET S
  BY <1>1, <1>2, <1>3, SetByMember
<1> QED
  BY <1>4 DEF Q

\* A sum is such a fold.
LEMMA SumFolds ==
  ASSUME NEW f, IsFiniteSet(DOMAIN f)
  PROVE  \E g : Folds(g, f, DOMAIN f) /\ SumOver(f) = g[DOMAIN f]
<1> DEFINE S == DOMAIN f
           iter == CHOOSE g : g = [s \in SUBSET S |->
                     IF s = {} THEN 0
                     ELSE f[CHOOSE x \in s : TRUE] + g[s \ {CHOOSE x \in s : TRUE}]]
<1>1. SumOver(f) = iter[S]
  BY DEF SumOver, MapThenSumSet, MapThenFoldSet
<1>2. PICK g : Folds(g, f, S)
  BY FoldExists
<1>3. g = [s \in SUBSET S |->
             IF s = {} THEN 0
             ELSE f[CHOOSE x \in s : TRUE] + g[s \ {CHOOSE x \in s : TRUE}]]
  BY <1>2 DEF Folds, First
<1>4. iter = [s \in SUBSET S |->
             IF s = {} THEN 0
             ELSE f[CHOOSE x \in s : TRUE] + iter[s \ {CHOOSE x \in s : TRUE}]]
  BY <1>3
<1>5. Folds(iter, f, S)
  <2> HIDE DEF iter
  <2> QED
    BY <1>4 DEF Folds, First
<1> QED
  BY <1>1, <1>5

\* A sum of integers is an integer, nought if all are, and not below nought if none is.
LEMMA SumIs ==
  ASSUME NEW f, IsFiniteSet(DOMAIN f), \A x \in DOMAIN f : f[x] \in Int
  PROVE  /\ SumOver(f) \in Int
         /\ (\A x \in DOMAIN f : f[x] = 0) => SumOver(f) = 0
         /\ (\A x \in DOMAIN f : f[x] >= 0) => SumOver(f) >= 0
<1> DEFINE S == DOMAIN f
<1>1. PICK g : Folds(g, f, S) /\ SumOver(f) = g[S]
  BY SumFolds
<1>2. S \in SUBSET S /\ IsFiniteSet(S) /\ \A x \in S : f[x] \in Int
  OBVIOUS
<1> HIDE DEF S
<1>3. \A s \in SUBSET S : g[s] \in Int
  BY <1>1, <1>2, FoldInt
<1>4. (\A x \in S : f[x] = 0) => g[S] = 0
  BY <1>1, <1>2, FoldZero
<1>5. (\A x \in S : f[x] >= 0) => g[S] >= 0
  BY <1>1, <1>2, <1>3, FoldNotBelow
<1> QED
  BY <1>1, <1>2, <1>3, <1>4, <1>5 DEF S

LEMMA SumMoves ==
  ASSUME NEW f, NEW e, DOMAIN e = DOMAIN f, IsFiniteSet(DOMAIN f),
         \A x \in DOMAIN f : f[x] \in Int /\ e[x] \in Int,
         NEW c \in DOMAIN f, \A x \in DOMAIN f \ {c} : e[x] = f[x]
  PROVE  SumOver(e) = SumOver(f) + (e[c] - f[c])
<1> DEFINE S == DOMAIN f
<1>1. PICK g : Folds(g, f, S) /\ SumOver(f) = g[S]
  BY SumFolds
<1>2. PICK h : Folds(h, e, S) /\ SumOver(e) = h[S]
  BY SumFolds
<1>3. IsFiniteSet(S) /\ c \in S /\ \A x \in S : f[x] \in Int /\ e[x] \in Int
  OBVIOUS
<1>4. \A x \in S \ {c} : e[x] = f[x]
  OBVIOUS
<1> HIDE DEF S
<1>5. h[S] = g[S] + (e[c] - f[c])
  BY <1>1, <1>2, <1>3, <1>4, FoldShift
<1> QED
  BY <1>1, <1>2, <1>5

\* The power of every car in a slot.
InSlot(p, r, slot) == [c \in DOMAIN p.needs |-> r[c][slot]]

Grids(p) == [DOMAIN p.needs -> [SlotSet -> Int]]

\* The sum over the cars is an integer, nought for a plan without rows, and moves
\* with the one row that changes.
LEMMA ChargingSums ==
  ASSUME NEW p, IsFiniteSet(DOMAIN p.needs),
         NEW r \in Grids(p), NEW slot \in SlotSet
  PROVE  /\ Charging(p, r, slot) \in Int
         /\ (\A c \in DOMAIN p.needs : r[c][slot] = 0) => Charging(p, r, slot) = 0
         /\ (\A c \in DOMAIN p.needs : r[c][slot] >= 0) => Charging(p, r, slot) >= 0
<1> DEFINE f == InSlot(p, r, slot)
<1>1. DOMAIN f = DOMAIN p.needs /\ \A c \in DOMAIN p.needs : f[c] = r[c][slot] /\ f[c] \in Int
  BY DEF InSlot, Grids
<1>2. Charging(p, r, slot) = SumOver(f)
  BY DEF Charging, InSlot
<1> HIDE DEF f
<1> QED
  BY <1>1, <1>2, SumIs

LEMMA ChargingMoves ==
  ASSUME NEW p, IsFiniteSet(DOMAIN p.needs),
         NEW r \in Grids(p),
         NEW q \in Grids(p),
         NEW c \in DOMAIN p.needs, NEW slot \in SlotSet,
         \A d \in DOMAIN p.needs \ {c} : q[d][slot] = r[d][slot]
  PROVE  Charging(p, q, slot) = Charging(p, r, slot) + (q[c][slot] - r[c][slot])
<1> DEFINE f == InSlot(p, r, slot)
           e == InSlot(p, q, slot)
<1>1. /\ DOMAIN f = DOMAIN p.needs /\ DOMAIN e = DOMAIN p.needs
      /\ \A d \in DOMAIN p.needs : f[d] = r[d][slot] /\ e[d] = q[d][slot] /\ f[d] \in Int /\ e[d] \in Int
  BY DEF InSlot, Grids
<1>2. Charging(p, r, slot) = SumOver(f) /\ Charging(p, q, slot) = SumOver(e)
  BY DEF Charging, InSlot
<1> HIDE DEF f, e
<1>3. SumOver(e) = SumOver(f) + (e[c] - f[c])
  BY <1>1, SumMoves
<1> QED
  BY <1>1, <1>2, <1>3

(***************************************************************************)
(* Extremes and divisions.                                                 *)
(***************************************************************************)
LEMMA MaxIsIn ==
  ASSUME NEW S \in SUBSET Int, IsFiniteSet(S), S # {}
  PROVE  Max(S) \in S /\ \A y \in S : Max(S) >= y
<1> DEFINE Q == {s \in SUBSET S : s = {} \/ \E x \in s : \A y \in s : x >= y}
<1>1. {} \in Q
  OBVIOUS
<1>2. ASSUME NEW s \in SUBSET S, s # {}, s \ {First(s)} \in Q
      PROVE  s \in Q
  <2> DEFINE a == First(s)
  <2>1. a \in s /\ a \in Int
    BY <1>2, OneLess
  <2>2. CASE s \ {a} = {}
    <3>1. \A y \in s : a >= y
      BY <2>1, <2>2
    <3> QED
      BY <2>1, <3>1
  <2>3. CASE \E x \in s \ {a} : \A y \in s \ {a} : x >= y
    <3>1. PICK x \in s \ {a} : \A y \in s \ {a} : x >= y
      BY <2>3
    <3>2. x \in Int
      OBVIOUS
    <3>3. CASE x >= a
      <4>1. \A y \in s : x >= y
        BY <3>1, <3>3
      <4> QED
        BY <4>1
    <3>4. CASE ~(x >= a)
      <4>1. \A y \in s : y \in Int
        OBVIOUS
      <4> HIDE DEF a
      <4>2. \A y \in s : a >= y
        BY <2>1, <3>1, <3>2, <3>4, <4>1
      <4> QED
        BY <2>1, <4>2
    <3> QED
      BY <3>3, <3>4
  <2> QED
    BY <1>2, <2>2, <2>3
<1> HIDE DEF Q
<1>3. Q \in SUBSET (SUBSET S)
  BY DEF Q
<1>4. Q = SUBSET S
  BY <1>1, <1>2, <1>3, SetByMember
<1>5. S \in Q
  BY <1>4
<1> QED
  BY <1>5 DEF Q, Max

LEMMA MinIsIn ==
  ASSUME NEW S \in SUBSET Nat, S # {}
  PROVE  Min(S) \in S
<1>1. PICK n \in S : \A m \in S : ~ (<<m, n>> \in OpToRel(<, Nat))
  BY NatLessThanWellFounded, WFMin
<1>2. \A m \in S : ~ (m < n)
  BY <1>1 DEF OpToRel
<1>3. \A m \in S : n =< m
  BY <1>2
<1> QED
  BY <1>3 DEF Min

\* A share of an amount is no more than the amount.
LEMMA KeptIsThere ==
  ASSUME NEW kw \in Nat
  PROVE  Kept(kw) \in Nat
<1>1. MarginShare \in Nat \ {0}
  BY ProblemAssumption
<1>2. kw \div MarginShare \in 0..kw
  BY <1>1
<1> QED
  BY <1>2 DEF Kept

\* Rounded up, the power gives the energy.
LEMMA PowerIsEnough ==
  ASSUME NEW e \in Nat, NEW h \in Nat \ {0}
  PROVE  /\ PowerFor(e, h) \in Nat
         /\ PowerFor(e, h) * h >= e
BY DEF PowerFor

(***************************************************************************)
(* The problem is well formed.                                             *)
(***************************************************************************)
LEMMA Grid ==
  /\ SlotLength \in Nat \ {0} /\ Slots \in Nat \ {0} /\ MinWindow \in Nat \ {0}
  /\ \A t \in Int : \A slot \in Int : SlotStart(t, slot) \in Int /\ SlotEnd(t, slot) \in Int
<1>1. SlotLength \in Nat \ {0} /\ Slots \in Nat \ {0} /\ MinWindow \in Nat \ {0}
  BY ProblemAssumption
<1>2. \A t \in Int : \A slot \in Int : SlotStart(t, slot) \in Int
  BY <1>1 DEF SlotStart, FloorToStep
<1> QED
  BY <1>1, <1>2 DEF SlotEnd

LEMMA HoursInGrid ==
  ASSUME NEW t \in Int, NEW from \in Int, NEW to \in Int
  PROVE  WindowHours(t, from, to) \in [SlotSet -> Nat]
<1>1. ASSUME NEW slot \in SlotSet
      PROVE  WindowHours(t, from, to)[slot] \in Nat
  <2>1. slot \in Int /\ SlotStart(t, slot) \in Int /\ SlotEnd(t, slot) \in Int
    BY Grid DEF SlotSet
  <2>2. MinWindow \in Nat
    BY Grid
  <2> QED
    BY <2>1, <2>2 DEF WindowHours, Larger, Smaller
<1> QED
  BY <1>1 DEF WindowHours

\* A car as the server may find it.
GoodCar(car) ==
  /\ car.maxPower \in Nat \ {0} /\ car.remaining \in Nat
  /\ car.pluggedIn \in Nat /\ car.deadline \in Nat

LEMMA UncontrolledInGrid ==
  ASSUME NEW t \in Int, NEW car, GoodCar(car)
  PROVE  \A slot \in SlotSet : UncontrolledLoad(t, car)[slot] \in Int
<1> DEFINE hours == WindowHours(t, car.pluggedIn, car.deadline)
           After(g, slot) == IF slot = 0 THEN car.remaining
                             ELSE Larger(0, g[slot - 1] - car.maxPower * hours[slot - 1])
           left0 == CHOOSE g : g = [slot \in 0..Slots |-> After(g, slot)]
           T == {n \in Nat : \E g : g = [slot \in 0..n |-> After(g, slot)]}
<1>0. hours \in [SlotSet -> Nat]
  <2>1. car.pluggedIn \in Int /\ car.deadline \in Int
    BY DEF GoodCar
  <2> QED
    BY <2>1, HoursInGrid
<1> HIDE DEF hours
<1>1. 0 \in T
  <2> DEFINE g == [slot \in 0..0 |-> car.remaining]
  <2>1. g = [slot \in 0..0 |-> After(g, slot)]
    OBVIOUS
  <2> QED
    BY <2>1
<1>2. ASSUME NEW n \in T
      PROVE  n + 1 \in T
  <2>1. PICK g : g = [slot \in 0..n |-> After(g, slot)]
    OBVIOUS
  <2> DEFINE h == [slot \in 0..(n + 1) |-> After(g, slot)]
  <2>2. \A slot \in 0..n : h[slot] = g[slot]
    BY <2>1
  <2>3. \A slot \in 0..(n + 1) : slot # 0 => slot - 1 \in 0..n
    OBVIOUS
  <2>4. h = [slot \in 0..(n + 1) |-> After(h, slot)]
    BY <2>2, <2>3
  <2> HIDE DEF h
  <2>5. \E k : k = [slot \in 0..(n + 1) |-> After(k, slot)]
    BY <2>4
  <2> QED
    BY <2>5
<1>3. T = Nat
  <2> HIDE DEF T
  <2>1. T \in SUBSET Nat
    BY DEF T
  <2> QED
    BY <1>1, <1>2, <2>1, Induct
<1>4. \E g : g = [slot \in 0..Slots |-> After(g, slot)]
  BY <1>3, Grid
<1>5. left0 = [slot \in 0..Slots |-> After(left0, slot)]
  BY <1>4
<1> HIDE DEF left0
<1> DEFINE V == {n \in Nat : n =< Slots => left0[n] \in Int}
<1>s. Slots \in Nat \ {0}
  BY Grid
<1>p. car.maxPower \in Int /\ car.remaining \in Int
  BY DEF GoodCar
<1>6. 0 \in V
  <2>1. 0 \in 0..Slots
    BY <1>s
  <2>2. left0[0] = car.remaining
    BY <1>5, <2>1
  <2> QED
    BY <1>p, <2>2
<1>7. ASSUME NEW n \in V
      PROVE  n + 1 \in V
  <2>1. SUFFICES ASSUME n + 1 =< Slots
                 PROVE  left0[n + 1] \in Int
    OBVIOUS
  <2>2. n \in SlotSet /\ hours[n] \in Nat
    BY <1>0, <1>s, <2>1 DEF SlotSet
  <2>3. n + 1 \in 0..Slots /\ n + 1 # 0 /\ (n + 1) - 1 = n /\ n =< Slots
    BY <1>s, <2>1
  <2>4. left0[n + 1] = After(left0, n + 1)
    BY <1>5, <2>3
  <2>5. left0[n] \in Int
    BY <2>3
  <2>6. left0[n + 1] = Larger(0, left0[n] - car.maxPower * hours[n])
    BY <2>3, <2>4
  <2> QED
    BY <1>p, <2>2, <2>5, <2>6 DEF Larger
<1>8. V = Nat
  <2> HIDE DEF V
  <2>1. V \in SUBSET Nat
    BY DEF V
  <2> QED
    BY <1>6, <1>7, <2>1, Induct
<1>9. ASSUME NEW slot \in SlotSet
      PROVE  UncontrolledLoad(t, car)[slot] \in Int
  <2>1. UncontrolledLoad(t, car)[slot]
          = IF hours[slot] > 0 THEN (left0[slot] - left0[slot + 1]) \div hours[slot] ELSE 0
    BY DEF UncontrolledLoad, left0, hours
  <2>2. slot \in Nat /\ slot =< Slots /\ slot + 1 \in Nat /\ slot + 1 =< Slots
    BY Grid DEF SlotSet
  <2>3. left0[slot] \in Int /\ left0[slot + 1] \in Int /\ hours[slot] \in Nat
    BY <1>0, <1>8, <2>2
  <2> QED
    BY <2>1, <2>3
<1> QED
  BY <1>9

LEMMA BaseInGrid ==
  ASSUME NEW t \in Int, NEW k, \A c \in Cars : GoodCar(k[c])
  PROVE  BaseLoad(t, k) \in [SlotSet -> Int]
<1> DEFINE S == Uncontrolled(k)
           loads(slot) == [c \in S |-> UncontrolledLoad(t, k[c])[slot]]
           sum(slot) == SumOver(loads(slot))
<1>1. IsFiniteSet(S) /\ S \subseteq Cars
  BY ProblemAssumption, FS_Subset DEF Uncontrolled
<1>2. ASSUME NEW slot \in SlotSet
      PROVE  sum(slot) \in Int
  <2> DEFINE f == loads(slot)
  <2>1. DOMAIN f = S /\ \A c \in S : f[c] \in Int
    BY <1>1, UncontrolledInGrid
  <2> HIDE DEF f
  <2>2. SumOver(f) \in Int
    BY <1>1, <2>1, SumIs
  <2> QED
    BY <2>2 DEF f
<1>3. \A slot \in SlotSet : BuildingKw[slot] \in Int
  BY ProblemAssumption
<1>4. BaseLoad(t, k) = [slot \in SlotSet |-> BuildingKw[slot] + sum(slot)]
  BY DEF BaseLoad
<1> HIDE DEF sum
<1> QED
  BY <1>2, <1>3, <1>4

LEMMA CapsInGrid ==
  ASSUME NEW t, NEW onFile, \A e \in onFile : e.cap \in Nat
  PROVE  Caps(t, onFile) \in [SlotSet -> Int]
<1>1. ASSUME NEW slot \in SlotSet
      PROVE  Caps(t, onFile)[slot] \in Int
  <2> DEFINE on == {e \in onFile :
                      /\ e.status \in {"accepted", "active"}
                      /\ e.starts < SlotEnd(t, slot) /\ e.ends > SlotStart(t, slot)}
             kept == {Kept(Connection)} \cup {Kept(e.cap) : e \in on}
  <2>1. Kept(Connection) \in Nat
    BY ProblemAssumption, KeptIsThere
  <2>2. \A e \in on : Kept(e.cap) \in Nat
    BY KeptIsThere
  <2>3. kept \in SUBSET Nat /\ kept # {}
    BY <2>1, <2>2
  <2>4. Caps(t, onFile)[slot] = Min(kept)
    BY DEF Caps
  <2> HIDE DEF kept
  <2>5. Min(kept) \in kept
    BY <2>3, MinIsIn
  <2>6. \A n \in kept : n \in Int
    BY <2>3
  <2>7. Min(kept) \in Int
    BY <2>5, <2>6
  <2> QED
    BY <2>4, <2>7
<1> QED
  BY <1>1 DEF Caps

\* What a scheduler may rely on.
WellFormed(p) ==
  /\ IsFiniteSet(DOMAIN p.needs)
  /\ \A c \in DOMAIN p.needs :
       /\ p.needs[c].energy \in Nat /\ p.needs[c].maxPower \in Nat \ {0}
       /\ p.needs[c].hours \in [SlotSet -> Nat]
       /\ p.needs[c].weights \in [cost : Nat, co2 : Nat, peak : Nat, speed : Nat]
  /\ p.base \in [SlotSet -> Int] /\ p.cap \in [SlotSet -> Int] /\ p.existingPeak \in Int
  /\ p.peakWeight \in Nat

LEMMA BuiltWell ==
  ASSUME NEW t \in Times, NEW k \in [Cars -> CarStates],
         NEW onFile \in FlexEvents, NEW peak \in Peaks
  PROVE  WellFormed(BuildProblem(t, k, onFile, peak))
<1> DEFINE p == BuildProblem(t, k, onFile, peak)
<1>1. t \in Int /\ peak \in Int /\ \A c \in Cars : GoodCar(k[c])
  <2>1. t \in Nat /\ peak \in Nat
    BY SchedulerAssumption
  <2>2. \A car \in CarStates : GoodCar(car)
    BY SchedulerAssumption DEF GoodCar
  <2>3. \A c \in Cars : k[c] \in CarStates
    OBVIOUS
  <2> QED
    BY <2>1, <2>2, <2>3
<1>2. DOMAIN p.needs = Planned(k) /\ \A c \in Planned(k) : p.needs[c] = Need(t, k[c])
  BY DEF BuildProblem
<1>3. IsFiniteSet(Planned(k)) /\ Planned(k) \subseteq Cars
  BY ProblemAssumption, FS_Subset DEF Planned
<1>4. ASSUME NEW c \in Planned(k)
      PROVE  /\ Need(t, k[c]).energy \in Nat /\ Need(t, k[c]).maxPower \in Nat \ {0}
             /\ Need(t, k[c]).hours \in [SlotSet -> Nat]
             /\ Need(t, k[c]).weights \in [cost : Nat, co2 : Nat, peak : Nat, speed : Nat]
  <2> DEFINE car == k[c]
  <2>1. GoodCar(car) /\ Modes[car.mode] \in [cost : Nat, co2 : Nat, peak : Nat, speed : Nat]
    BY <1>1, <1>3, ProblemAssumption, SchedulerAssumption
  <2> HIDE DEF car
  <2>2. WindowEnd(t, car) \in Int
    BY <1>1, <2>1 DEF GoodCar, WindowEnd
  <2>3. car.pluggedIn \in Int
    BY <2>1 DEF GoodCar
  <2>4. WindowHours(t, car.pluggedIn, WindowEnd(t, car)) \in [SlotSet -> Nat]
    BY <1>1, <2>2, <2>3, HoursInGrid
  <2>5. /\ Need(t, car).energy \in Nat /\ Need(t, car).maxPower \in Nat \ {0}
        /\ Need(t, car).hours \in [SlotSet -> Nat]
        /\ Need(t, car).weights \in [cost : Nat, co2 : Nat, peak : Nat, speed : Nat]
    BY <2>1, <2>4 DEF Need, GoodCar
  <2> QED
    BY <2>5 DEF car
<1>5. p.base \in [SlotSet -> Int]
  <2>1. BaseLoad(t, k) \in [SlotSet -> Int]
    BY <1>1, BaseInGrid
  <2> QED
    BY <2>1 DEF BuildProblem
<1>6. p.cap \in [SlotSet -> Int]
  <2>1. \A e \in onFile : e.cap \in Nat
    BY SchedulerAssumption
  <2>2. Caps(t, onFile) \in [SlotSet -> Int]
    BY <2>1, CapsInGrid
  <2> QED
    BY <2>2 DEF BuildProblem
<1>7. p.existingPeak \in Int /\ p.peakWeight \in Nat
  BY <1>1, ProblemAssumption DEF BuildProblem
<1> HIDE DEF p
<1> QED
  BY <1>2, <1>3, <1>4, <1>5, <1>6, <1>7 DEF WellFormed, p

(***************************************************************************)
(* Room.                                                                   *)
(***************************************************************************)
LEMMA RoomInGrid ==
  ASSUME WellFormed(problem)
  PROVE  \A slot \in SlotSet :
           /\ Headroom(problem)[slot] \in Nat
           /\ Headroom(problem)[slot] =< Larger(0, Kept(Connection) - problem.base[slot])
<1> SUFFICES ASSUME NEW slot \in SlotSet
             PROVE  /\ Headroom(problem)[slot] \in Nat
                    /\ Headroom(problem)[slot] =< Larger(0, Kept(Connection) - problem.base[slot])
  OBVIOUS
<1>1. Kept(Connection) \in Nat
  BY ProblemAssumption, KeptIsThere
<1>2. problem.base[slot] \in Int /\ problem.cap[slot] \in Int
  BY DEF WellFormed
<1>3. Headroom(problem)[slot]
        = Larger(0, Smaller(Kept(Connection), problem.cap[slot]) - problem.base[slot])
  BY DEF Headroom
<1> QED
  BY <1>1, <1>2, <1>3 DEF Larger, Smaller

LEMMA LimitInGrid ==
  ASSUME WellFormed(problem), ceiling \in Int
  PROVE  \A slot \in SlotSet :
           /\ Limit(slot) \in Nat /\ Limit(slot) =< Headroom(problem)[slot]
           /\ Limit(slot) =< Larger(0, ceiling - problem.base[slot])
<1> SUFFICES ASSUME NEW slot \in SlotSet
             PROVE  /\ Limit(slot) \in Nat /\ Limit(slot) =< Headroom(problem)[slot]
                    /\ Limit(slot) =< Larger(0, ceiling - problem.base[slot])
  OBVIOUS
<1>1. Headroom(problem)[slot] \in Nat /\ problem.base[slot] \in Int
  BY RoomInGrid DEF WellFormed
<1> QED
  BY <1>1 DEF Limit, Larger, Smaller

LEMMA SlotsAreFinite ==
  /\ IsFiniteSet(SlotSet) /\ 0 \in SlotSet
  /\ \A f : (\A slot \in SlotSet : f[slot] \in Int) =>
       /\ IsFiniteSet({f[slot] : slot \in SlotSet})
       /\ {f[slot] : slot \in SlotSet} \in SUBSET Int
<1>1. IsFiniteSet(SlotSet) /\ 0 \in SlotSet
  BY Grid, FS_Interval DEF SlotSet
<1>2. ASSUME NEW f
      PROVE  IsFiniteSet({f[slot] : slot \in SlotSet})
  <2> DEFINE T == {f[slot] : slot \in SlotSet}
             g == [slot \in SlotSet |-> f[slot]]
  <2>1. g \in Surjection(SlotSet, T)
    BY DEF Surjection
  <2> HIDE DEF T, g
  <2>2. IsFiniteSet(T)
    BY <1>1, <2>1, FS_Surjection
  <2> QED
    BY <2>2 DEF T
<1> QED
  BY <1>1, <1>2

\* The ends of the search.
LEMMA EndsOfSearch ==
  ASSUME WellFormed(problem)
  PROVE  Upper \in Int /\ Lower \in Int /\ Width \in Int
<1> DEFINE tops == [slot \in SlotSet |-> Headroom(problem)[slot] + problem.base[slot]]
           base == problem.base
<1>1. \A slot \in SlotSet : tops[slot] \in Int /\ base[slot] \in Int
  BY RoomInGrid DEF WellFormed
<1>2. Upper = Max({tops[slot] : slot \in SlotSet})
  BY DEF Upper
<1>3. {tops[slot] : slot \in SlotSet} # {}
  BY SlotsAreFinite
<1>4. Upper \in Int
  <2> HIDE DEF tops
  <2> DEFINE S == {tops[slot] : slot \in SlotSet}
  <2>1. IsFiniteSet(S) /\ S \in SUBSET Int
    BY <1>1, SlotsAreFinite
  <2>2. Max(S) \in S
    <3> HIDE DEF S
    <3> QED
      BY <1>3, <2>1, MaxIsIn DEF S
  <2> QED
    BY <1>1, <1>2, <2>2
<1>5. Lower \in Int
  <2> HIDE DEF base
  <2> DEFINE S == {problem.existingPeak} \cup {base[slot] : slot \in SlotSet}
  <2>1. IsFiniteSet({base[slot] : slot \in SlotSet}) /\ S \in SUBSET Int /\ S # {}
    BY <1>1, SlotsAreFinite DEF WellFormed
  <2>2. IsFiniteSet(S)
    BY <2>1, FS_Singleton, FS_Union
  <2>3. Max(S) \in Int
    <3> HIDE DEF S
    <3>1. Max(S) \in S
      BY <2>1, <2>2, MaxIsIn
    <3> QED
      BY <2>1, <3>1
  <2>4. Lower = Smaller(Upper, Max(S))
    BY DEF Lower, base
  <2> HIDE DEF S
  <2> QED
    BY <1>4, <2>3, <2>4 DEF Smaller
<1>6. CeilingSteps \in Nat \ {0}
  BY SchedulerAssumption
<1> QED
  BY <1>4, <1>5, <1>6 DEF Width

LEMMA LinspaceInGrid ==
  ASSUME NEW from \in Int, NEW to \in Int
  PROVE  Linspace(from, to) \in Seq(Int)
<1>1. CeilingSteps \in Nat \ {0}
  BY SchedulerAssumption
<1>2. CASE to =< from
  BY <1>2 DEF Linspace
<1>3. CASE ~(to =< from)
  <2> DEFINE f == [k \in 1..(CeilingSteps + 1) |->
                     from + ((to - from) * (k - 1)) \div CeilingSteps]
  <2>1. \A k \in 1..(CeilingSteps + 1) : f[k] \in Int
    BY <1>1
  <2>2. Linspace(from, to) = f
    BY <1>3 DEF Linspace
  <2>3. CeilingSteps + 1 \in Nat /\ f = [k \in 1..(CeilingSteps + 1) |-> f[k]]
    BY <1>1
  <2> HIDE DEF f
  <2>4. f \in [1..(CeilingSteps + 1) -> Int]
    BY <2>1, <2>3
  <2> QED
    BY <2>2, <2>3, <2>4
<1> QED
  BY <1>2, <1>3

(***************************************************************************)
(* The inductive invariant.                                                *)
(***************************************************************************)
\* Rows a car and the site can follow, and what they draw together.
GoodRows(p, r, u) ==
  /\ r \in Grids(p) /\ u \in [SlotSet -> Int]
  /\ \A c \in DOMAIN p.needs : \A slot \in SlotSet :
       /\ r[c][slot] \in 0..p.needs[c].maxPower
       /\ r[c][slot] > 0 => p.needs[c].hours[slot] > 0
  /\ \A slot \in SlotSet :
       /\ u[slot] = Charging(p, r, slot)
       /\ u[slot] =< Headroom(p)[slot]

\* A plan that may be given out: it also stays under the ceiling it names, where
\* the building leaves room under that at all.
GoodPlan(p, offer) ==
  /\ GoodRows(p, offer.rows, offer.used)
  /\ offer.ceiling \in Int
  /\ \A slot \in SlotSet : offer.used[slot] =< Larger(0, offer.ceiling - p.base[slot])

\* The cars a greedy attempt has looked at, and what it found.
Filling ==
  /\ left \in [Fleet -> Nat] /\ visited \in [Fleet -> SUBSET SlotSet]
  /\ \A slot \in SlotSet : used[slot] =< Limit(slot)
  /\ \A c \in Fleet : \A slot \in SlotSet :
       /\ slot \notin visited[c] => rows[c][slot] = 0
       /\ slot \in visited[c] /\ left[c] > 0 =>
            rows[c][slot] = problem.needs[c].maxPower \/ used[slot] = Limit(slot)

IInv ==
  /\ WellFormed(problem)
  /\ stage \in {"built", "greedy", "done"} /\ pass \in {"open", "coarse", "fine"}
  /\ ceilings \in Seq(Int) /\ ceiling \in Int
  /\ GoodRows(problem, rows, used)
  /\ best # <<>> => GoodPlan(problem, best)
  /\ stage = "greedy" => Filling

\* A plan that gives nothing away.
LEMMA NothingIsGood ==
  ASSUME WellFormed(problem)
  PROVE  GoodRows(problem, NoRows, NoLoad)
<1>1. NoRows \in Grids(problem) /\ NoLoad \in [SlotSet -> Int]
  BY DEF NoRows, NoLoad, Grids, Fleet
<1>2. \A c \in Fleet : \A slot \in SlotSet : NoRows[c][slot] = 0
  BY DEF NoRows
<1>3. \A c \in Fleet : problem.needs[c].maxPower \in Nat
  BY DEF WellFormed, Fleet
<1>4. ASSUME NEW slot \in SlotSet
      PROVE  Charging(problem, NoRows, slot) = 0
  BY <1>1, <1>2, ChargingSums DEF WellFormed, Fleet
<1>5. \A slot \in SlotSet : NoLoad[slot] = 0 /\ 0 =< Headroom(problem)[slot]
  BY RoomInGrid DEF NoLoad
<1> QED
  BY <1>1, <1>2, <1>3, <1>4, <1>5 DEF GoodRows, Fleet

LEMMA InitGood == Init => IInv
<1> SUFFICES ASSUME Init
             PROVE  IInv
  OBVIOUS
<1>1. WellFormed(problem)
  BY BuiltWell DEF Init
<1>2. <<>> \in Seq(Int)
  OBVIOUS
<1> QED
  BY <1>1, <1>2, NothingIsGood DEF Init, IInv

\* A fresh attempt.
LEMMA BeginIsGood ==
  ASSUME WellFormed(problem), problem' = problem, NEW limit \in Int, Begin(limit)
  PROVE  ceiling' \in Int /\ GoodRows(problem', rows', used') /\ Filling'
<1>1. ceiling' \in Int
  BY DEF Begin
<1>2. GoodRows(problem', rows', used')
  BY NothingIsGood DEF Begin
<1>3. \A slot \in SlotSet :
        Headroom(problem)[slot] \in Nat /\ problem.base[slot] \in Int
  BY RoomInGrid DEF WellFormed
<1>4. \A slot \in SlotSet : Limit(slot)' \in Nat
  BY <1>1, <1>3 DEF Limit, Larger, Smaller
<1>5. \A c \in Fleet : problem.needs[c].energy \in Nat
  BY DEF WellFormed, Fleet
<1>6. left' \in [Fleet' -> Nat] /\ visited' \in [Fleet' -> SUBSET SlotSet]
  BY <1>5 DEF Begin, Fleet
<1>7. \A slot \in SlotSet : used'[slot] =< Limit(slot)'
  BY <1>4 DEF Begin, NoLoad
<1>8. \A c \in Fleet' : \A slot \in SlotSet : rows'[c][slot] = 0 /\ slot \notin visited'[c]
  BY DEF Begin, NoRows, Fleet
<1>9. Filling'
  BY <1>6, <1>7, <1>8 DEF Filling
<1> QED
  BY <1>1, <1>2, <1>9

\* One slot more for one car.
LEMMA FillSlotKeeps ==
  ASSUME IInv, NEW c \in Fleet, NEW slot \in SlotSet, FillSlot(c, slot)
  PROVE  IInv'
<1> DEFINE hours == problem.needs[c].hours[slot]
           need == PowerFor(left[c], hours)
           power == Smaller(Room(c, slot), need)
<1>1. /\ stage = "greedy" /\ Filling /\ WellFormed(problem) /\ GoodRows(problem, rows, used)
      /\ ceiling \in Int
  BY DEF FillSlot, IInv
<1>2. UNCHANGED <<now, cars, problem, stage, pass, ceilings, ceiling, best, open>>
  BY DEF FillSlot
<1>3. slot \notin visited[c] /\ hours > 0
  BY DEF FillSlot, NextSlot, Active
<1>4. /\ hours \in Nat /\ problem.needs[c].maxPower \in Nat \ {0} /\ left[c] \in Nat
      /\ c \in DOMAIN problem.needs
  BY <1>1 DEF WellFormed, Fleet, Filling
<1>5. \A t \in SlotSet : Limit(t) \in Nat /\ Limit(t) =< Headroom(problem)[t] /\ Limit(t)' = Limit(t)
  BY <1>1, <1>2, LimitInGrid DEF Limit
<1>6. \A t \in SlotSet : used[t] \in Int /\ used[t] =< Limit(t) /\ Headroom(problem)[t] \in Int
  BY <1>1, RoomInGrid DEF GoodRows, Filling
<1>7. rows[c][slot] = 0
  BY <1>1, <1>3 DEF Filling
<1>8. need \in Nat /\ need * hours >= left[c]
  <2> HIDE DEF hours
  <2> QED
    BY <1>3, <1>4, PowerIsEnough
<1>9. visited' = [visited EXCEPT ![c] = @ \cup {slot}]
  BY DEF FillSlot
<1>10. visited' \in [Fleet -> SUBSET SlotSet] /\ Fleet' = Fleet
  BY <1>1, <1>2, <1>9 DEF Filling, Fleet
<1>11. \A d \in Fleet : \A t \in SlotSet :
         t \in visited'[d] <=> t \in visited[d] \/ (d = c /\ t = slot)
  BY <1>1, <1>9 DEF Filling
<1>12. CASE ~(Room(c, slot) > 0)
  <2>1. UNCHANGED <<rows, used, left>>
    BY <1>12 DEF FillSlot
  <2>2. used[slot] = Limit(slot)
    BY <1>4, <1>5, <1>6, <1>12 DEF Room, Smaller
  <2>3. Filling'
    <3>1. left' \in [Fleet' -> Nat] /\ visited' \in [Fleet' -> SUBSET SlotSet]
      BY <1>1, <1>10, <2>1 DEF Filling
    <3>2. \A t \in SlotSet : used'[t] =< Limit(t)'
      BY <1>5, <1>6, <2>1
    <3>3. ASSUME NEW d \in Fleet, NEW t \in SlotSet
          PROVE  /\ t \notin visited'[d] => rows'[d][t] = 0
                 /\ t \in visited'[d] /\ left'[d] > 0 =>
                      rows'[d][t] = problem'.needs[d].maxPower \/ used'[t] = Limit(t)'
      BY <1>1, <1>2, <1>5, <1>11, <2>1, <2>2 DEF Filling
    <3> QED
      BY <1>10, <3>1, <3>2, <3>3 DEF Filling
  <2> QED
    BY <1>2, <2>1, <2>3 DEF IInv
<1>13. CASE Room(c, slot) > 0
  <2>1. /\ rows' = [rows EXCEPT ![c][slot] = power]
        /\ used' = [used EXCEPT ![slot] = @ + power]
        /\ left' = [left EXCEPT ![c] = Larger(0, @ - power * hours)]
    BY <1>13 DEF FillSlot
  <2>2. /\ power \in Nat /\ power =< problem.needs[c].maxPower
        /\ used[slot] + power =< Limit(slot) /\ used[slot] # Limit(slot)
        /\ \/ power = need \/ power = problem.needs[c].maxPower
           \/ used[slot] + power = Limit(slot)
    <3> HIDE DEF need
    <3> QED
      BY <1>4, <1>5, <1>6, <1>8, <1>13 DEF Room, Smaller
  <2>3. /\ left'[c] \in Nat /\ left'[c] =< left[c]
        /\ power = need => left'[c] = 0
    <3>1. left'[c] = Larger(0, left[c] - power * hours)
      BY <1>1, <2>1 DEF Filling
    <3>2. power * hours \in Nat
      <4> HIDE DEF power, hours
      <4> QED
        BY <1>4, <2>2
    <3>3. power = need => power * hours >= left[c]
      BY <1>8
    <3> HIDE DEF power, hours, need
    <3> QED
      BY <1>4, <3>1, <3>2, <3>3 DEF Larger
  <2> HIDE DEF power, hours, need
  <2>4. rows \in Grids(problem) /\ rows' \in Grids(problem) /\ used' \in [SlotSet -> Int]
    BY <1>1, <1>4, <2>1, <2>2 DEF GoodRows, Grids
  <2>5. \A d \in Fleet : \A t \in SlotSet :
          rows'[d][t] = IF d = c /\ t = slot THEN power ELSE rows[d][t]
    BY <1>4, <2>1, <2>4 DEF Grids, Fleet
  <2>6. \A t \in SlotSet : used'[t] = IF t = slot THEN used[t] + power ELSE used[t]
    BY <1>1, <2>1 DEF GoodRows
  <2>7. ASSUME NEW t \in SlotSet
        PROVE  used'[t] = Charging(problem, rows', t)
    <3>1. \A d \in DOMAIN problem.needs \ {c} : rows'[d][t] = rows[d][t]
      BY <2>5 DEF Fleet
    <3>2. Charging(problem, rows', t) = Charging(problem, rows, t) + (rows'[c][t] - rows[c][t])
      <4>1. IsFiniteSet(DOMAIN problem.needs)
        BY <1>1 DEF WellFormed
      <4> QED
        BY <1>4, <2>4, <3>1, <4>1, ChargingMoves
    <3>3. used[t] = Charging(problem, rows, t)
      BY <1>1 DEF GoodRows
    <3>4. rows[c][t] \in Int
      BY <1>4, <2>4 DEF Grids
    <3> QED
      BY <1>6, <1>7, <2>2, <2>5, <2>6, <3>2, <3>3, <3>4
  <2>8. \A t \in SlotSet : used'[t] =< Limit(t) /\ used'[t] =< Headroom(problem)[t]
    BY <1>5, <1>6, <2>2, <2>6
  <2>9. \A d \in Fleet : \A t \in SlotSet :
          /\ rows'[d][t] \in 0..problem.needs[d].maxPower
          /\ rows'[d][t] > 0 => problem.needs[d].hours[t] > 0
    <3>1. \A d \in Fleet : \A t \in SlotSet :
            /\ rows[d][t] \in 0..problem.needs[d].maxPower
            /\ rows[d][t] > 0 => problem.needs[d].hours[t] > 0
      BY <1>1 DEF GoodRows, Fleet
    <3>2. problem.needs[c].hours[slot] > 0
      BY <1>3 DEF hours
    <3>3. power \in 0..problem.needs[c].maxPower
      BY <1>4, <2>2
    <3> QED
      BY <2>5, <3>1, <3>2, <3>3
  <2>10. GoodRows(problem, rows', used')
    BY <2>4, <2>7, <2>8, <2>9 DEF GoodRows, Fleet
  <2>11. Filling'
    <3>1. left' \in [Fleet' -> Nat] /\ visited' \in [Fleet' -> SUBSET SlotSet]
      <4>1. \A d \in Fleet : left'[d] \in Nat
        BY <1>1, <2>1, <2>3 DEF Filling
      <4> QED
        BY <1>1, <1>10, <2>1, <4>1 DEF Filling
    <3>2. \A t \in SlotSet : used'[t] =< Limit(t)'
      BY <1>5, <2>8
    <3>3. \A d \in Fleet : left[d] \in Nat /\ left'[d] \in Nat /\ left'[d] =< left[d]
      BY <1>1, <2>1, <2>3 DEF Filling
    <3>4. ASSUME NEW d \in Fleet, NEW t \in SlotSet
          PROVE  t \notin visited'[d] => rows'[d][t] = 0
      BY <1>1, <1>11, <2>5 DEF Filling
    <3>5. ASSUME NEW d \in Fleet, NEW t \in SlotSet, t \in visited'[d], left'[d] > 0
          PROVE  rows'[d][t] = problem'.needs[d].maxPower \/ used'[t] = Limit(t)'
      <4>1. CASE d = c /\ t = slot
        <5>1. power # need
          BY <2>3, <3>5, <4>1
        <5> QED
          BY <1>2, <1>5, <2>2, <2>5, <2>6, <4>1, <5>1
      <4>2. CASE ~(d = c /\ t = slot)
        <5>1. rows[d][t] = problem.needs[d].maxPower \/ used[t] = Limit(t)
          BY <1>1, <1>11, <3>3, <3>5, <4>2 DEF Filling
        <5>2. used[t] = Limit(t) => t # slot
          BY <2>2
        <5> QED
          BY <1>2, <1>5, <2>5, <2>6, <4>2, <5>1, <5>2
      <4> QED
        BY <4>1, <4>2
    <3> QED
      BY <1>10, <3>1, <3>2, <3>4, <3>5 DEF Filling
  <2> QED
    BY <1>2, <2>10, <2>11 DEF IInv
<1> QED
  BY <1>12, <1>13

\* What the solver returns.
LEMMA LpSolvesKeeps ==
  ASSUME IInv, LpSolves
  PROVE  IInv'
<1>1. PICK r \in (IF LpVariables(problem) = {} THEN {NoRows} ELSE LpPoints) :
        /\ rows' = r
        /\ used' = [slot \in SlotSet |-> Charging(problem, r, slot)]
        /\ best' = Evaluated(r, used', Kept(Connection))
  BY DEF LpSolves
<1>2. /\ stage' = "done" /\ WellFormed(problem)
      /\ UNCHANGED <<now, cars, problem, pass, ceilings, ceiling, left, visited, open>>
  BY DEF LpSolves, IInv
<1>3. GoodRows(problem, r, used')
  <2>1. CASE LpVariables(problem) = {}
    <3>1. r = NoRows
      BY <1>1, <2>1
    <3>2. GoodRows(problem, NoRows, NoLoad)
      BY <1>2, NothingIsGood
    <3>3. used' = NoLoad
      BY <1>1, <3>1, <3>2 DEF GoodRows, NoLoad
    <3> QED
      BY <3>1, <3>2, <3>3
  <2>2. CASE LpVariables(problem) # {}
    <3>1. r \in LpPoints
      BY <1>1, <2>2
    <3>2. LpFeasible(problem, r) /\ r = [c \in Fleet |-> [slot \in SlotSet |-> r[c][slot]]]
      BY <3>1 DEF LpPoints
    <3>3. \A c \in Fleet : problem.needs[c].maxPower \in Nat
      BY <1>2 DEF WellFormed, Fleet
    <3>4. \A c \in Fleet : \A slot \in SlotSet :
            /\ r[c][slot] \in 0..problem.needs[c].maxPower
            /\ r[c][slot] > 0 => problem.needs[c].hours[slot] > 0
      <4>1. ASSUME NEW c \in Fleet, NEW slot \in SlotSet
            PROVE  /\ r[c][slot] \in 0..problem.needs[c].maxPower
                   /\ r[c][slot] # 0 => <<c, slot>> \in LpVariables(problem)
        BY <3>2 DEF LpFeasible, Fleet
      <4>2. \A c \in Fleet : \A slot \in SlotSet :
              <<c, slot>> \in LpVariables(problem) => problem.needs[c].hours[slot] > 0
        BY DEF LpVariables
      <4> SUFFICES ASSUME NEW c \in Fleet, NEW slot \in SlotSet
                   PROVE  /\ r[c][slot] \in 0..problem.needs[c].maxPower
                          /\ r[c][slot] > 0 => problem.needs[c].hours[slot] > 0
        OBVIOUS
      <4>3. r[c][slot] > 0 => r[c][slot] # 0
        BY <3>3, <4>1
      <4> QED
        BY <4>1, <4>2, <4>3
    <3>5. r \in Grids(problem)
      <4>1. \A c \in Fleet : \A slot \in SlotSet : r[c][slot] \in Int
        BY <3>3, <3>4
      <4> QED
        BY <3>2, <4>1 DEF Grids, Fleet
    <3>6. \A slot \in SlotSet : Charging(problem, r, slot) \in Int
      <4>1. IsFiniteSet(DOMAIN problem.needs)
        BY <1>2 DEF WellFormed
      <4> QED
        BY <3>5, <4>1, ChargingSums
    <3>7. \A slot \in SlotSet : Charging(problem, r, slot) =< Headroom(problem)[slot]
      BY <3>2 DEF LpFeasible
    <3> QED
      BY <1>1, <3>4, <3>5, <3>6, <3>7 DEF GoodRows, Fleet
  <2> QED
    BY <2>1, <2>2
<1>4. GoodPlan(problem, best')
  <2>1. best'.rows = r /\ best'.used = used' /\ best'.ceiling = Kept(Connection)
    BY <1>1 DEF Evaluated
  <2>2. Kept(Connection) \in Int
    BY ProblemAssumption, KeptIsThere
  <2>3. ASSUME NEW slot \in SlotSet
        PROVE  used'[slot] =< Larger(0, Kept(Connection) - problem.base[slot])
    <3>1. /\ Headroom(problem)[slot] \in Int /\ problem.base[slot] \in Int
          /\ Headroom(problem)[slot] =< Larger(0, Kept(Connection) - problem.base[slot])
      BY <1>2, RoomInGrid DEF WellFormed
    <3>2. used'[slot] \in Int /\ used'[slot] =< Headroom(problem)[slot]
      BY <1>3 DEF GoodRows
    <3> QED
      BY <2>2, <3>1, <3>2 DEF Larger
  <2> QED
    BY <1>3, <2>1, <2>2, <2>3 DEF GoodPlan
<1> QED
  BY <1>1, <1>2, <1>3, <1>4 DEF IInv

LEMMA LpFailsKeeps ==
  ASSUME IInv, LpFails
  PROVE  IInv'
<1>1. /\ WellFormed(problem) /\ problem' = problem /\ stage' = "greedy" /\ Begin(Upper)
      /\ UNCHANGED <<pass, ceilings, best>>
  BY DEF IInv, LpFails
<1>2. ceiling' \in Int /\ GoodRows(problem', rows', used') /\ Filling'
  BY <1>1, EndsOfSearch, BeginIsGood
<1> QED
  BY <1>1, <1>2 DEF IInv

\* An attempt that has come to its end is a plan that may be given out.
LEMMA AttemptIsGood ==
  ASSUME IInv, stage = "greedy"
  PROVE  GoodPlan(problem, Evaluated(rows, used, ceiling))
<1>1. /\ WellFormed(problem) /\ ceiling \in Int /\ GoodRows(problem, rows, used)
      /\ Filling
  BY DEF IInv
<1>2. ASSUME NEW slot \in SlotSet
      PROVE  used[slot] =< Larger(0, ceiling - problem.base[slot])
  <2>1. /\ Limit(slot) \in Int /\ problem.base[slot] \in Int
        /\ Limit(slot) =< Larger(0, ceiling - problem.base[slot])
    BY <1>1, LimitInGrid DEF WellFormed
  <2>2. used[slot] \in Int /\ used[slot] =< Limit(slot)
    BY <1>1 DEF GoodRows, Filling
  <2> QED
    BY <1>1, <2>1, <2>2 DEF Larger
<1> QED
  BY <1>1, <1>2 DEF GoodPlan, Evaluated

LEMMA AttemptEndsKeeps ==
  ASSUME IInv, AttemptEnds
  PROVE  IInv'
<1> DEFINE attempt == Evaluated(rows, used, ceiling)
           winner == Picked(attempt)
           more == IF ceilings # <<>> THEN ceilings
                   ELSE IF ShavePeak THEN NextCeilings(winner) ELSE <<>>
<1>1. /\ stage = "greedy" /\ problem' = problem /\ WellFormed(problem) /\ best' = winner
      /\ ceilings \in Seq(Int) /\ pass \in {"open", "coarse", "fine"}
      /\ best # <<>> => GoodPlan(problem, best)
  BY DEF AttemptEnds, IInv
<1>2. GoodPlan(problem, winner)
  <2>1. GoodPlan(problem, attempt)
    BY <1>1, AttemptIsGood
  <2> HIDE DEF attempt
  <2> QED
    BY <1>1, <2>1 DEF Picked
<1>3. more \in Seq(Int)
  <2>1. winner.ceiling \in Int
    BY <1>2 DEF GoodPlan
  <2> HIDE DEF winner
  <2>2. Upper \in Int /\ Lower \in Int /\ Width \in Int
    BY <1>1, EndsOfSearch
  <2>3. /\ Larger(Lower, winner.ceiling - Width) \in Int
        /\ Smaller(Upper, winner.ceiling + Width) \in Int
    BY <2>1, <2>2 DEF Larger, Smaller
  <2>4. /\ Linspace(Lower, Upper) \in Seq(Int)
        /\ Linspace(Larger(Lower, winner.ceiling - Width),
                    Smaller(Upper, winner.ceiling + Width)) \in Seq(Int)
    BY <2>2, <2>3, LinspaceInGrid
  <2>5. NextCeilings(winner) \in Seq(Int)
    BY <1>1, <2>4 DEF NextCeilings
  <2> QED
    BY <1>1, <2>5
<1>4. CASE more # <<>>
  <2>1. /\ Begin(Head(more)) /\ ceilings' = Tail(more) /\ stage' = stage
        /\ pass' \in {"open", "coarse", "fine"}
    BY <1>1, <1>4 DEF AttemptEnds
  <2>2. Head(more) \in Int /\ Tail(more) \in Seq(Int)
    <3> HIDE DEF more
    <3> QED
      BY <1>3, <1>4
  <2>3. ceiling' \in Int /\ GoodRows(problem', rows', used') /\ Filling'
    BY <1>1, <2>1, <2>2, BeginIsGood
  <2> HIDE DEF more, winner
  <2> QED
    BY <1>1, <1>2, <2>1, <2>2, <2>3 DEF IInv
<1>5. CASE more = <<>>
  <2>1. /\ stage' = "done"
        /\ UNCHANGED <<pass, ceilings, ceiling, rows, used, left, visited>>
    BY <1>5 DEF AttemptEnds
  <2> HIDE DEF more, winner
  <2> QED
    BY <1>1, <1>2, <2>1 DEF IInv
<1> QED
  BY <1>4, <1>5

LEMMA NextKeeps == IInv /\ [Next]_vars => IInv'
<1> SUFFICES ASSUME IInv, [Next]_vars
             PROVE  IInv'
  OBVIOUS
<1>1. CASE LpSolves
  BY <1>1, LpSolvesKeeps
<1>2. CASE LpFails
  BY <1>2, LpFailsKeeps
<1>3. CASE AttemptEnds
  BY <1>3, AttemptEndsKeeps
<1>4. ASSUME NEW c \in Fleet, NEW slot \in SlotSet, FillSlot(c, slot)
      PROVE  IInv'
  BY <1>4, FillSlotKeeps
<1>5. CASE UNCHANGED vars
  <2>1. Filling => Filling'
    BY <1>5 DEF vars, Filling, Limit, Fleet
  <2> QED
    BY <1>5, <2>1 DEF vars, IInv
<1> QED
  BY <1>1, <1>2, <1>3, <1>4, <1>5 DEF Next

THEOREM InductiveInvariant == Spec => []IInv
BY InitGood, NextKeeps, PTL DEF Spec

(***************************************************************************)
(* What follows from it.                                                   *)
(***************************************************************************)
\* No plan, tried or given out, draws more in a slot than the building leaves of
\* the connection and the caps, gives a car more than it takes, or anything while
\* it is away, whichever solver made it and whatever ceilings were tried.
THEOREM PlansAreSafe == Spec => []PlanIsSafe
<1>1. IInv => PlanIsSafe
  BY DEF IInv, GoodRows, GoodPlan, PlanIsSafe, Fleet
<1> QED
  BY <1>1, InductiveInvariant, PTL

\* When a greedy attempt is over and leaves a car short, the car is at full power,
\* or the site at its limit, in every slot of the car's window.
THEOREM NobodyIsShortForNothing == Spec => []ShortfallIsForced
<1>1. IInv => ShortfallIsForced
  <2> SUFFICES ASSUME IInv, stage = "greedy", \A c \in Fleet : ~Unserved(c),
                      NEW c \in Fleet, left[c] > 0, NEW slot \in Active(c)
               PROVE  \/ rows[c][slot] = problem.needs[c].maxPower
                      \/ Charging(problem, rows, slot) = Limit(slot)
    BY DEF ShortfallIsForced
  <2>1. slot \in SlotSet /\ slot \in visited[c]
    BY DEF Unserved, Active
  <2>2. rows[c][slot] = problem.needs[c].maxPower \/ used[slot] = Limit(slot)
    BY <2>1 DEF IInv, Filling
  <2>3. used[slot] = Charging(problem, rows, slot)
    BY <2>1 DEF IInv, GoodRows
  <2> QED
    BY <2>2, <2>3
<1> QED
  BY <1>1, InductiveInvariant, PTL

\* What a plan says the site draws is what its rows add up to, and it stays under
\* the ceiling it names wherever the building alone does (evaluatePlan, used and
\* ceiling of the greedy search are kept apart from the rows).
BestAddsUp ==
  best # <<>> =>
    \A slot \in SlotSet :
      /\ best.used[slot] = Charging(problem, best.rows, slot)
      /\ best.used[slot] =< Larger(0, best.ceiling - problem.base[slot])

THEOREM PlansAddUp == Spec => []BestAddsUp
<1>1. IInv => BestAddsUp
  BY DEF IInv, GoodPlan, GoodRows, BestAddsUp
<1> QED
  BY <1>1, InductiveInvariant, PTL

(***************************************************************************)
(* What a plan is worth.                                                   *)
(***************************************************************************)
\* The energy of a car in every slot.
InRow(p, r, c) == [slot \in SlotSet |-> r[c][slot] * p.needs[c].hours[slot]]

\* What a car is given is a number, and moves with the one slot that changes.
LEMMA DeliveredIs ==
  ASSUME NEW p, WellFormed(p), NEW r \in Grids(p), NEW c \in DOMAIN p.needs
  PROVE  /\ Delivered(p, r, c) \in Int
         /\ (\A slot \in SlotSet : r[c][slot] = 0) => Delivered(p, r, c) = 0
         /\ (\A slot \in SlotSet : r[c][slot] >= 0) => Delivered(p, r, c) >= 0
<1> DEFINE f == InRow(p, r, c)
<1>1. DOMAIN f = SlotSet /\ IsFiniteSet(SlotSet) /\ Delivered(p, r, c) = SumOver(f)
  BY SlotsAreFinite DEF InRow, Delivered
<1>2. ASSUME NEW slot \in SlotSet
      PROVE  /\ f[slot] \in Int /\ (r[c][slot] = 0 => f[slot] = 0)
             /\ (r[c][slot] >= 0 => f[slot] >= 0)
  <2> DEFINE h == p.needs[c].hours[slot]
             k == r[c][slot]
  <2>1. h \in Nat /\ k \in Int /\ f[slot] = k * h
    BY DEF WellFormed, Grids, InRow
  <2> HIDE DEF h, k, f
  <2>2. k * h \in Int /\ (k = 0 => k * h = 0) /\ (k >= 0 => k * h >= 0)
    BY <2>1
  <2> QED
    BY <2>1, <2>2 DEF k
<1> HIDE DEF f
<1> QED
  BY <1>1, <1>2, SumIs

LEMMA DeliveredMoves ==
  ASSUME NEW p, WellFormed(p), NEW r \in Grids(p), NEW q \in Grids(p), NEW c \in DOMAIN p.needs,
         NEW slot \in SlotSet, r[c][slot] = 0, \A t \in SlotSet \ {slot} : q[c][t] = r[c][t]
  PROVE  Delivered(p, q, c) = Delivered(p, r, c) + q[c][slot] * p.needs[c].hours[slot]
<1> DEFINE f == InRow(p, r, c)
           e == InRow(p, q, c)
<1>1. /\ DOMAIN f = SlotSet /\ DOMAIN e = SlotSet /\ IsFiniteSet(SlotSet)
      /\ Delivered(p, r, c) = SumOver(f) /\ Delivered(p, q, c) = SumOver(e)
  BY SlotsAreFinite DEF InRow, Delivered
<1>2. \A t \in SlotSet : /\ p.needs[c].hours[t] \in Nat /\ r[c][t] \in Int /\ q[c][t] \in Int
                         /\ f[t] = r[c][t] * p.needs[c].hours[t] /\ e[t] = q[c][t] * p.needs[c].hours[t]
  BY DEF WellFormed, Grids, InRow
<1> HIDE DEF f, e
<1>3. \A t \in SlotSet : f[t] \in Int /\ e[t] \in Int
  BY <1>2
<1>4. \A t \in SlotSet \ {slot} : e[t] = f[t]
  BY <1>2
<1>5. f[slot] = 0
  BY <1>2
<1>6. SumOver(e) = SumOver(f) + (e[slot] - f[slot])
  BY <1>1, <1>3, <1>4, SumMoves
<1>7. SumOver(f) \in Int
  BY <1>1, <1>3, SumIs
<1> QED
  BY <1>1, <1>2, <1>3, <1>5, <1>6, <1>7

\* Power only where the linear program has a variable.
VariablesOnly(p, r) ==
  \A c \in DOMAIN p.needs : \A slot \in SlotSet : <<c, slot>> \notin LpVariables(p) => r[c][slot] = 0

\* What is still wanted is what is missing of the rows.
Accounted ==
  VariablesOnly(problem, rows) /\ \A c \in Fleet : left[c] = Missing(problem, rows, c)

\* What charging may draw in a slot under that ceiling.
LimitUnder(limit, slot) == Smaller(Headroom(problem)[slot], Larger(0, limit - problem.base[slot]))

\* A plan leaves nobody short where there is room.
ShortIsFull(offer) ==
  \A c \in Fleet : Missing(problem, offer.rows, c) > 0 =>
    \A slot \in Active(c) : \/ offer.rows[c][slot] = problem.needs[c].maxPower
                            \/ offer.used[slot] = LimitUnder(offer.ceiling, slot)

\* What is said of a plan is what its rows are worth.
Rated(offer) ==
  /\ VariablesOnly(problem, offer.rows)
  /\ offer.missing = Shortfall(problem, offer.rows) /\ offer.objective = Objective(problem, offer.rows)

WorthInv ==
  /\ stage = "built" => best = <<>> /\ open = <<>>
  /\ stage = "greedy" => Accounted
  /\ best # <<>> => Rated(best)
  /\ best # <<>> /\ (stage = "greedy" \/ open # <<>>) => ShortIsFull(best)
  /\ stage = "done" => best # <<>>

\* No car is given more than it wants.
NoneOver(r) == \A c \in Fleet : Delivered(problem, r, c) =< problem.needs[c].energy

LEMMA NothingIsOver ==
  ASSUME WellFormed(problem)
  PROVE  NoneOver(NoRows) /\ \A c \in Fleet : Delivered(problem, NoRows, c) = 0
<1>1. NoRows \in Grids(problem) /\ \A c \in Fleet : \A slot \in SlotSet : NoRows[c][slot] = 0
  BY DEF NoRows, Grids, Fleet
<1>2. \A c \in Fleet : Delivered(problem, NoRows, c) = 0 /\ problem.needs[c].energy \in Nat
  BY <1>1, DeliveredIs DEF WellFormed, Fleet
<1> QED
  BY <1>2 DEF NoneOver

LEMMA BeginIsAccounted ==
  ASSUME WellFormed(problem), problem' = problem, NEW limit, Begin(limit)
  PROVE  Accounted'
<1>1. VariablesOnly(problem, NoRows)
  BY DEF VariablesOnly, NoRows, Fleet
<1>2. ASSUME NEW c \in Fleet
      PROVE  Missing(problem, NoRows, c) = problem.needs[c].energy
  <2>1. problem.needs[c].energy \in Nat /\ Delivered(problem, NoRows, c) = 0
    BY NothingIsOver DEF WellFormed, Fleet
  <2> QED
    BY <2>1 DEF Missing, Larger
<1>3. rows' = NoRows /\ Fleet' = Fleet /\ left' = [c \in Fleet |-> problem.needs[c].energy]
  BY DEF Begin, Fleet
<1> QED
  BY <1>1, <1>2, <1>3 DEF Accounted

LEMMA FillSlotAccounts ==
  ASSUME IInv, Accounted, NEW c \in Fleet, NEW slot \in SlotSet, FillSlot(c, slot)
  PROVE  /\ Accounted'
         /\ NoneOver(rows) /\ problem.needs[c].hours[slot] = 1 => NoneOver(rows')
<1> DEFINE hours == problem.needs[c].hours[slot]
           power == Smaller(Room(c, slot), PowerFor(left[c], hours))
<1>1. /\ Filling /\ WellFormed(problem) /\ GoodRows(problem, rows, used) /\ ceiling \in Int
      /\ problem' = problem /\ Fleet' = Fleet
  BY DEF FillSlot, IInv, Fleet
<1>2. slot \notin visited[c] /\ hours > 0 /\ left[c] > 0
  BY DEF FillSlot, NextCar, Unserved, NextSlot, Active
<1>3. /\ hours \in Nat \ {0} /\ problem.needs[c].maxPower \in Nat \ {0} /\ left[c] \in Nat
      /\ problem.needs[c].energy \in Nat /\ c \in DOMAIN problem.needs /\ rows[c][slot] = 0
  BY <1>1, <1>2 DEF WellFormed, Fleet, Filling
<1>4. CASE ~(Room(c, slot) > 0)
  <2>1. UNCHANGED <<rows, left>>
    BY <1>4 DEF FillSlot
  <2> QED
    BY <1>1, <2>1 DEF Accounted, NoneOver
<1>5. CASE Room(c, slot) > 0
  <2>1. /\ rows' = [rows EXCEPT ![c][slot] = power]
        /\ left' = [left EXCEPT ![c] = Larger(0, @ - power * hours)]
    BY <1>5 DEF FillSlot
  <2>2. Limit(slot) \in Nat /\ Limit(slot) =< Headroom(problem)[slot] /\ Headroom(problem)[slot] \in Nat
    BY <1>1, LimitInGrid, RoomInGrid
  <2>3. used[slot] \in Int /\ used[slot] >= 0
    <3>1. \A d \in DOMAIN problem.needs : rows[d][slot] >= 0
      BY <1>1 DEF GoodRows, WellFormed
    <3>2. rows \in Grids(problem) /\ used[slot] = Charging(problem, rows, slot) /\ IsFiniteSet(DOMAIN problem.needs)
      BY <1>1 DEF GoodRows, WellFormed
    <3> QED
      BY <3>1, <3>2, ChargingSums
  <2>4. Room(c, slot) \in Int /\ Headroom(problem)[slot] > 0
    BY <1>3, <1>5, <2>2, <2>3 DEF Room, Smaller
  <2>5. power \in Int /\ (hours = 1 => power =< left[c])
    <3>1. PowerFor(left[c], hours) \in Nat /\ (hours = 1 => PowerFor(left[c], hours) = left[c])
      <4> HIDE DEF hours
      <4>1. PowerFor(left[c], hours) \in Nat
        BY <1>3, PowerIsEnough
      <4>2. hours = 1 => PowerFor(left[c], hours) = left[c]
        BY <1>3 DEF PowerFor
      <4> QED
        BY <4>1, <4>2
    <3> HIDE DEF hours
    <3> QED
      BY <1>3, <2>4, <3>1 DEF Smaller
  <2>6. rows \in Grids(problem) /\ \A t \in SlotSet : rows[c][t] >= 0
    BY <1>1, <1>3 DEF GoodRows
  <2>7. Delivered(problem, rows, c) \in Int /\ Delivered(problem, rows, c) >= 0
    BY <1>1, <1>3, <2>6, DeliveredIs
  <2>8. left[c] = problem.needs[c].energy - Delivered(problem, rows, c)
    BY <1>2, <1>3, <2>7 DEF Accounted, Missing, Larger
  <2>9. <<c, slot>> \in LpVariables(problem)
    <3>1. problem.needs[c].energy > 0
      BY <1>2, <1>3, <2>7, <2>8
    <3> QED
      BY <1>2, <1>3, <2>4, <3>1 DEF LpVariables
  <2> HIDE DEF power, hours
  <2>10. rows' \in Grids(problem)
    BY <1>3, <2>1, <2>5, <2>6 DEF Grids
  <2>11. \A d \in Fleet : \A t \in SlotSet :
           rows'[d][t] = IF d = c /\ t = slot THEN power ELSE rows[d][t]
    BY <1>3, <2>1, <2>6 DEF Grids, Fleet
  <2>12. VariablesOnly(problem, rows')
    BY <2>9, <2>11 DEF Accounted, VariablesOnly, Fleet
  <2>13. /\ left'[c] = Missing(problem, rows', c)
         /\ hours = 1 => Delivered(problem, rows', c) =< problem.needs[c].energy
    <3> DEFINE gave == power * hours
               had == Delivered(problem, rows, c)
    <3>1. Delivered(problem, rows', c) = had + rows'[c][slot] * problem.needs[c].hours[slot]
      BY <1>1, <1>3, <2>6, <2>10, <2>11, DeliveredMoves DEF Fleet
    <3>2. Delivered(problem, rows', c) = had + gave
      BY <2>11, <3>1 DEF hours
    <3>3. gave \in Int /\ had \in Int
      BY <1>3, <2>5, <2>7
    <3>4. left'[c] = Larger(0, left[c] - gave)
      BY <1>1, <2>1 DEF Filling
    <3> HIDE DEF gave, had
    <3>5. left[c] - gave = problem.needs[c].energy - (had + gave)
      BY <1>3, <2>8, <3>3 DEF had
    <3>6. hours = 1 => had + gave =< problem.needs[c].energy
      <4>1. hours = 1 => gave = power
        BY <2>5 DEF gave
      <4> QED
        BY <1>3, <2>5, <2>8, <3>3, <4>1 DEF had
    <3> QED
      BY <3>2, <3>4, <3>5, <3>6 DEF Missing
  <2>14. ASSUME NEW d \in Fleet, d # c
         PROVE  /\ left'[d] = Missing(problem, rows', d)
                /\ Delivered(problem, rows', d) = Delivered(problem, rows, d)
    <3>1. left'[d] = left[d] /\ rows'[d] = rows[d]
      BY <1>1, <2>1, <2>6, <2>14 DEF Filling, Grids, Fleet
    <3>2. Delivered(problem, rows', d) = Delivered(problem, rows, d)
      BY <3>1 DEF Delivered
    <3> QED
      BY <3>1, <3>2 DEF Missing, Accounted
  <2> QED
    BY <1>1, <2>12, <2>13, <2>14 DEF Accounted, NoneOver, hours
<1> QED
  BY <1>4, <1>5

LEMMA InitIsWorth == Init => WorthInv
BY DEF Init, WorthInv

LEMMA LpFailsIsWorth ==
  ASSUME IInv, WorthInv, LpFails
  PROVE  WorthInv'
<1>1. /\ stage = "built" /\ stage' = "greedy" /\ Begin(Upper) /\ problem' = problem
      /\ best' = best /\ open' = open
  BY DEF LpFails
<1>2. best = <<>> /\ open = <<>>
  BY <1>1 DEF WorthInv
<1>3. Accounted'
  BY <1>1, BeginIsAccounted DEF IInv
<1> QED
  BY <1>1, <1>2, <1>3 DEF WorthInv

LEMMA LpSolvesIsWorth ==
  ASSUME IInv, WorthInv, LpSolves
  PROVE  WorthInv'
<1>1. PICK r \in (IF LpVariables(problem) = {} THEN {NoRows} ELSE LpPoints) :
        best' = Evaluated(r, used', Kept(Connection))
  BY DEF LpSolves
<1>2. /\ stage = "built" /\ stage' = "done" /\ problem' = problem /\ open' = open
  BY DEF LpSolves
<1>3. open' = <<>>
  BY <1>2 DEF WorthInv
<1>4. VariablesOnly(problem, r)
  <2>1. CASE LpVariables(problem) = {}
    <3>1. r = NoRows
      BY <1>1, <2>1
    <3> QED
      BY <3>1 DEF VariablesOnly, NoRows, Fleet
  <2>2. CASE LpVariables(problem) # {}
    <3>1. LpFeasible(problem, r)
      BY <1>1, <2>2 DEF LpPoints
    <3> QED
      BY <3>1 DEF VariablesOnly, LpFeasible
  <2> QED
    BY <2>1, <2>2
<1>5. Rated(best')
  BY <1>1, <1>4 DEF Rated, Evaluated
<1>6. best' # <<>>
  <2>1. "rows" \in DOMAIN best' /\ "rows" \notin DOMAIN <<>>
    BY <1>1 DEF Evaluated
  <2> QED
    BY <2>1
<1>7. Rated(best)'
  BY <1>2, <1>5 DEF Rated
<1> QED
  BY <1>2, <1>3, <1>6, <1>7 DEF WorthInv

LEMMA FillSlotIsWorth ==
  ASSUME IInv, WorthInv, NEW c \in Fleet, NEW slot \in SlotSet, FillSlot(c, slot)
  PROVE  WorthInv'
<1>1. /\ stage = "greedy" /\ stage' = stage /\ problem' = problem
      /\ best' = best /\ open' = open
  BY DEF FillSlot
<1>2. Accounted'
  BY <1>1, FillSlotAccounts DEF WorthInv
<1>3. Rated(best) => Rated(best)'
  BY <1>1 DEF Rated
<1>4. ShortIsFull(best) => ShortIsFull(best)'
  BY <1>1 DEF ShortIsFull, Fleet, Active, LimitUnder
<1> QED
  BY <1>1, <1>2, <1>3, <1>4 DEF WorthInv

\* What a greedy attempt hands over when nobody is left to serve.
LEMMA AttemptIsWorth ==
  ASSUME IInv, WorthInv, stage = "greedy", \A c \in Fleet : ~Unserved(c)
  PROVE  /\ Rated(Evaluated(rows, used, ceiling))
         /\ ShortIsFull(Evaluated(rows, used, ceiling))
<1> DEFINE attempt == Evaluated(rows, used, ceiling)
<1>1. /\ attempt.rows = rows /\ attempt.used = used /\ attempt.ceiling = ceiling
      /\ attempt.missing = Shortfall(problem, rows) /\ attempt.objective = Objective(problem, rows)
  BY DEF Evaluated
<1>2. Accounted /\ Filling
  BY DEF WorthInv, IInv
<1> HIDE DEF attempt
<1>3. Rated(attempt)
  BY <1>1, <1>2 DEF Rated, Accounted
<1>4. ASSUME NEW c \in Fleet, Missing(problem, rows, c) > 0, NEW slot \in Active(c)
      PROVE  rows[c][slot] = problem.needs[c].maxPower \/ used[slot] = LimitUnder(ceiling, slot)
  <2>1. left[c] > 0
    BY <1>2, <1>4 DEF Accounted
  <2>2. slot \in SlotSet /\ slot \in visited[c]
    BY <2>1 DEF Unserved, Active
  <2> QED
    BY <1>2, <2>1, <2>2 DEF Filling, Limit, LimitUnder
<1>5. ShortIsFull(attempt)
  BY <1>1, <1>4 DEF ShortIsFull
<1> QED
  BY <1>3, <1>5 DEF attempt

LEMMA AttemptEndsIsWorth ==
  ASSUME IInv, WorthInv, AttemptEnds
  PROVE  WorthInv'
<1> DEFINE attempt == Evaluated(rows, used, ceiling)
           winner == Picked(attempt)
           more == IF ceilings # <<>> THEN ceilings
                   ELSE IF ShavePeak THEN NextCeilings(winner) ELSE <<>>
<1>1. /\ stage = "greedy" /\ problem' = problem /\ best' = winner /\ WellFormed(problem)
      /\ \A c \in Fleet : ~Unserved(c)
  BY DEF AttemptEnds, IInv
<1>2. Rated(attempt) /\ ShortIsFull(attempt)
  BY <1>1, AttemptIsWorth
<1>3. attempt # <<>>
  <2>1. "rows" \in DOMAIN attempt /\ "rows" \notin DOMAIN <<>>
    BY DEF Evaluated
  <2> HIDE DEF attempt
  <2> QED
    BY <2>1
<1>4. (stage' = "greedy" /\ Accounted') \/ stage' = "done"
  <2>1. CASE more # <<>>
    <3> DEFINE next == Head(more)
    <3>1. Begin(next) /\ stage' = stage
      BY <2>1 DEF AttemptEnds
    <3> HIDE DEF next
    <3>2. Accounted'
      BY <1>1, <3>1, BeginIsAccounted
    <3> QED
      BY <1>1, <3>1, <3>2
  <2>2. CASE more = <<>>
    BY <2>2 DEF AttemptEnds
  <2> QED
    BY <2>1, <2>2
<1> HIDE DEF attempt
<1>5. Rated(winner) /\ ShortIsFull(winner) /\ winner # <<>>
  BY <1>1, <1>2, <1>3 DEF Picked, WorthInv
<1> HIDE DEF winner
<1>6. Rated(best)' /\ ShortIsFull(best)'
  BY <1>1, <1>5 DEF Rated, ShortIsFull, Fleet, Active, LimitUnder
<1> QED
  BY <1>1, <1>4, <1>5, <1>6 DEF WorthInv

LEMMA NextIsWorth == IInv /\ WorthInv /\ [Next]_vars => WorthInv'
<1> SUFFICES ASSUME IInv, WorthInv, [Next]_vars
             PROVE  WorthInv'
  OBVIOUS
<1>1. CASE LpSolves
  BY <1>1, LpSolvesIsWorth
<1>2. CASE LpFails
  BY <1>2, LpFailsIsWorth
<1>3. CASE AttemptEnds
  BY <1>3, AttemptEndsIsWorth
<1>4. ASSUME NEW c \in Fleet, NEW slot \in SlotSet, FillSlot(c, slot)
      PROVE  WorthInv'
  BY <1>4, FillSlotIsWorth
<1>5. CASE UNCHANGED vars
  BY <1>5 DEF vars, WorthInv, Accounted, Rated, ShortIsFull, Fleet, Active, LimitUnder
<1> QED
  BY <1>1, <1>2, <1>3, <1>4, <1>5 DEF Next

\* Whatever solver made the plan and whatever ceilings were tried, what is said of it,
\* the energy it leaves undelivered and its objective, is what its rows are worth
\* (evaluatePlan), it uses only slots the linear program has a variable for, and a
\* greedy one leaves nobody short where it had room.
THEOREM WorthInvariant == Spec => []WorthInv
BY InitIsWorth, NextIsWorth, InductiveInvariant, PTL DEF Spec

(***************************************************************************)
(* The two objectives.                                                     *)
(***************************************************************************)
LEMMA SameMax ==
  ASSUME NEW S \in SUBSET Int, IsFiniteSet(S), S # {},
         NEW T \in SUBSET Int, IsFiniteSet(T), T # {},
         \A x \in S : \E y \in T : y >= x, \A y \in T : \E x \in S : x >= y
  PROVE  Max(S) = Max(T) /\ Max(S) \in Int
<1>1. Max(S) \in S /\ \A x \in S : Max(S) >= x
  BY MaxIsIn
<1>2. Max(T) \in T /\ \A y \in T : Max(T) >= y
  BY MaxIsIn
<1> DEFINE s == Max(S)
           t == Max(T)
<1>3. s \in Int /\ t \in Int
  BY <1>1, <1>2
<1>4. PICK y \in T : y >= s
  BY <1>1
<1>5. PICK x \in S : x >= t
  BY <1>2
<1>6. t >= y /\ s >= x /\ y \in Int /\ x \in Int
  BY <1>1, <1>2
<1> HIDE DEF s, t
<1>7. s = t
  BY <1>3, <1>4, <1>5, <1>6
<1> QED
  BY <1>3, <1>7 DEF s, t

\* A peak found among the slots that have a variable, above the floor of the building
\* alone, is the peak of all slots.
LEMMA PeaksAgree ==
  ASSUME NEW p, WellFormed(p), NEW r \in Grids(p), VariablesOnly(p, r),
         \A c \in DOMAIN p.needs : \A slot \in SlotSet : r[c][slot] >= 0,
         NEW busy, busy = {v[2] : v \in LpVariables(p)}
  PROVE  LET all == {p.existingPeak} \cup {p.base[slot] + Charging(p, r, slot) : slot \in SlotSet}
             some == {LpPeakFloor(p)} \cup {p.base[slot] + Charging(p, r, slot) : slot \in busy}
         IN Max(all) = Max(some) /\ Max(all) \in Int
<1> DEFINE draw == [slot \in SlotSet |-> p.base[slot] + Charging(p, r, slot)]
           bare == {p.existingPeak} \cup {p.base[slot] : slot \in SlotSet}
           all == {p.existingPeak} \cup {draw[slot] : slot \in SlotSet}
           some == {LpPeakFloor(p)} \cup {draw[slot] : slot \in busy}
<1>1. busy \subseteq SlotSet
  BY DEF LpVariables
<1>2. ASSUME NEW slot \in SlotSet
      PROVE  /\ p.base[slot] \in Int /\ draw[slot] \in Int /\ draw[slot] >= p.base[slot]
             /\ slot \notin busy => draw[slot] = p.base[slot]
  <2> DEFINE charging == Charging(p, r, slot)
  <2>1. IsFiniteSet(DOMAIN p.needs) /\ p.base[slot] \in Int
    BY DEF WellFormed
  <2>2. charging \in Int /\ charging >= 0
    BY <2>1, ChargingSums
  <2>3. slot \notin busy => charging = 0
    <3> SUFFICES ASSUME slot \notin busy
                 PROVE  charging = 0
      OBVIOUS
    <3>1. \A c \in DOMAIN p.needs : <<c, slot>> \notin LpVariables(p)
      OBVIOUS
    <3>2. \A c \in DOMAIN p.needs : r[c][slot] = 0
      BY <3>1 DEF VariablesOnly
    <3> QED
      BY <2>1, <3>2, ChargingSums
  <2>4. draw[slot] = p.base[slot] + charging
    OBVIOUS
  <2> HIDE DEF charging, draw
  <2> QED
    BY <2>1, <2>2, <2>3, <2>4
<1>3. p.existingPeak \in Int
  BY DEF WellFormed
<1> HIDE DEF draw
<1>4. /\ IsFiniteSet({draw[slot] : slot \in SlotSet})
      /\ IsFiniteSet({p.base[slot] : slot \in SlotSet})
  <2> DEFINE base == p.base
  <2>1. \A slot \in SlotSet : base[slot] \in Int
    BY <1>2
  <2> HIDE DEF base
  <2>2. IsFiniteSet({base[slot] : slot \in SlotSet}) /\ IsFiniteSet({draw[slot] : slot \in SlotSet})
    BY <1>2, <2>1, SlotsAreFinite
  <2> QED
    BY <2>2 DEF base
<1>5. bare \in SUBSET Int /\ IsFiniteSet(bare) /\ bare # {}
  BY <1>2, <1>3, <1>4, FS_Singleton, FS_Union
<1>6. /\ LpPeakFloor(p) \in bare /\ LpPeakFloor(p) \in Int
      /\ \A y \in bare : LpPeakFloor(p) >= y
  BY <1>5, MaxIsIn DEF LpPeakFloor
<1>7. all \in SUBSET Int /\ IsFiniteSet(all) /\ all # {}
  BY <1>2, <1>3, <1>4, FS_Singleton, FS_Union
<1>8. some \in SUBSET Int /\ IsFiniteSet(some) /\ some # {}
  <2>1. {draw[slot] : slot \in busy} \subseteq {draw[slot] : slot \in SlotSet}
    BY <1>1
  <2>2. IsFiniteSet({draw[slot] : slot \in busy})
    BY <1>4, <2>1, FS_Subset
  <2> QED
    BY <1>1, <1>2, <1>6, <2>2, FS_Singleton, FS_Union
<1>9. ASSUME NEW x \in all
      PROVE  \E y \in some : y >= x
  <2>1. CASE x = p.existingPeak
    BY <1>6, <2>1
  <2>2. CASE \E slot \in SlotSet : x = draw[slot]
    <3>1. PICK slot \in SlotSet : x = draw[slot]
      BY <2>2
    <3>2. CASE slot \in busy
      <4>1. x \in some /\ x \in Int
        BY <1>2, <3>1, <3>2
      <4> QED
        BY <4>1
    <3>3. CASE slot \notin busy
      BY <1>2, <1>6, <3>1, <3>3
    <3> QED
      BY <3>2, <3>3
  <2> QED
    BY <2>1, <2>2
<1>10. ASSUME NEW y \in some
       PROVE  \E x \in all : x >= y
  <2>1. CASE y = LpPeakFloor(p)
    <3>1. CASE y = p.existingPeak
      BY <1>3, <3>1
    <3>2. CASE \E slot \in SlotSet : y = p.base[slot]
      <4>1. PICK slot \in SlotSet : y = p.base[slot]
        BY <3>2
      <4> QED
        BY <1>2, <4>1
    <3> QED
      BY <1>6, <2>1, <3>1, <3>2
  <2>2. CASE \E slot \in busy : y = draw[slot]
    <3>1. y \in all /\ y \in Int
      BY <1>1, <1>2, <2>2
    <3> QED
      BY <3>1
  <2> QED
    BY <2>1, <2>2
<1>11. Max(all) = Max(some) /\ Max(all) \in Int
  <2> HIDE DEF all, some
  <2> QED
    BY <1>7, <1>8, <1>9, <1>10, SameMax
<1>12. /\ all = {p.existingPeak} \cup {p.base[slot] + Charging(p, r, slot) : slot \in SlotSet}
       /\ some = {LpPeakFloor(p)} \cup {p.base[slot] + Charging(p, r, slot) : slot \in busy}
  BY <1>1 DEF draw
<1> HIDE DEF all, some
<1> QED
  BY <1>11, <1>12

LEMMA PeakCoefficientIs ==
  ASSUME NEW p, WellFormed(p)
  PROVE  PeakCoefficient(p) \in Nat
<1> DEFINE f == [c \in DOMAIN p.needs |-> p.needs[c].energy]
<1>1. \A a \in Nat : \A b \in Nat : a * b \in Nat
  OBVIOUS
<1>2. TotalEnergy(p) \in Nat
  <2>1. DOMAIN f = DOMAIN p.needs /\ TotalEnergy(p) = SumOver(f)
    BY DEF TotalEnergy
  <2>2. IsFiniteSet(DOMAIN f) /\ \A c \in DOMAIN f : f[c] \in Int /\ f[c] >= 0
    BY DEF WellFormed
  <2> HIDE DEF f
  <2> QED
    BY <2>1, <2>2, SumIs
<1>3. NormUnit \in Nat /\ Slots \in Nat /\ p.peakWeight \in Nat
  BY ProblemAssumption DEF WellFormed
<1> DEFINE a == p.peakWeight * TotalEnergy(p)
           b == a * NormUnit
<1>4. a \in Nat
  BY <1>1, <1>2, <1>3
<1>5. b \in Nat
  <2> HIDE DEF a
  <2> QED
    BY <1>1, <1>3, <1>4
<1>6. b * Slots \in Nat
  <2> HIDE DEF b
  <2> QED
    BY <1>1, <1>3, <1>5
<1> QED
  BY <1>6 DEF PeakCoefficient

\* What the linear program minimises is what every plan is measured by, for rows that
\* use its variables only and give no car more than it wants.
LEMMA ObjectivesAgree ==
  ASSUME NEW p, WellFormed(p), NEW r \in Grids(p), VariablesOnly(p, r),
         \A c \in DOMAIN p.needs : \A slot \in SlotSet : r[c][slot] >= 0,
         \A c \in DOMAIN p.needs : Delivered(p, r, c) =< p.needs[c].energy
  PROVE  LpObjective(p, r) = Objective(p, r)
<1> DEFINE busy == {v[2] : v \in LpVariables(p)}
           all == {p.existingPeak} \cup {p.base[slot] + Charging(p, r, slot) : slot \in SlotSet}
           some == {LpPeakFloor(p)} \cup {p.base[slot] + Charging(p, r, slot) : slot \in busy}
           unserved == [c \in DOMAIN p.needs |-> p.needs[c].energy - Delivered(p, r, c)]
           scale == Kept(Connection) * ShortfallPenalty * WeightUnit * NormUnit * Slots
           forEnergy == Kept(Connection) * EnergyScore(p, r)
<1>1. unserved = [c \in DOMAIN p.needs |-> Missing(p, r, c)]
  <2>1. ASSUME NEW c \in DOMAIN p.needs
        PROVE  p.needs[c].energy - Delivered(p, r, c) = Missing(p, r, c)
    <3>1. p.needs[c].energy \in Nat /\ Delivered(p, r, c) \in Int /\ Delivered(p, r, c) =< p.needs[c].energy
      BY DeliveredIs DEF WellFormed
    <3> QED
      BY <3>1 DEF Missing, Larger
  <2> QED
    BY <2>1
<1>2. SumOver(unserved) = Shortfall(p, r)
  BY <1>1 DEF Shortfall
<1>3. Max(all) = Max(some) /\ Max(all) \in Int
  BY PeaksAgree
<1>4. PeakCoefficient(p) \in Nat
  BY PeakCoefficientIs
<1>5. Objective(p, r) = forEnergy + PeakCoefficient(p) * Max(all) + scale * Shortfall(p, r)
  BY DEF Objective
<1>6. LpObjective(p, r) = forEnergy + (IF PeakCoefficient(p) > 0 THEN PeakCoefficient(p) * Max(some) ELSE 0)
                            + scale * SumOver(unserved)
  BY DEF LpObjective
<1> HIDE DEF busy, all, some, unserved, scale, forEnergy
<1>7. PeakCoefficient(p) * Max(all)
        = IF PeakCoefficient(p) > 0 THEN PeakCoefficient(p) * Max(some) ELSE 0
  BY <1>3, <1>4
<1> QED
  BY <1>2, <1>5, <1>6, <1>7

\* The plan gives no car more than it wants: rounding a power up has added nothing.
InWhole == best # <<>> => NoneOver(best.rows)

\* Whichever solver made it, a plan that gives no car more than it wants is a point of
\* the linear program, and what is said of its objective is what the program minimises
\* (schedule.ts: "computed the same way for every solver so plans are comparable").
THEOREM SolversAgreeInWhole == Spec => [](InWhole => SolversAgree)
<1>1. IInv /\ WorthInv => (InWhole => SolversAgree)
  <2> SUFFICES ASSUME IInv, WorthInv, InWhole, stage = "done"
               PROVE  /\ LpFeasible(problem, best.rows)
                      /\ LpObjective(problem, best.rows) = best.objective
    BY DEF SolversAgree
  <2> DEFINE r == best.rows
  <2>1. /\ WellFormed(problem) /\ GoodRows(problem, r, best.used)
        /\ VariablesOnly(problem, r) /\ best.objective = Objective(problem, r)
        /\ \A c \in DOMAIN problem.needs : Delivered(problem, r, c) =< problem.needs[c].energy
    BY DEF IInv, WorthInv, GoodPlan, Rated, InWhole, NoneOver, Fleet
  <2> HIDE DEF r
  <2>2. LpFeasible(problem, r)
    BY <2>1 DEF LpFeasible, VariablesOnly, GoodRows
  <2>3. \A c \in DOMAIN problem.needs : \A slot \in SlotSet : r[c][slot] >= 0
    BY <2>1 DEF GoodRows, WellFormed
  <2>4. r \in Grids(problem)
    BY <2>1 DEF GoodRows
  <2>5. LpObjective(problem, r) = Objective(problem, r)
    BY <2>1, <2>3, <2>4, ObjectivesAgree
  <2> QED
    BY <2>1, <2>2, <2>5 DEF r
<1> QED
  BY <1>1, InductiveInvariant, WorthInvariant, PTL

\* A car that the chosen greedy plan leaves short is at full power, or the site at what
\* the plan's ceiling leaves it, in every slot of the car's window: pickBest keeps the
\* plan and its ceiling together (solveGreedy, fillUnderCeiling).
NoRoomIsLeft ==
  (stage = "done" /\ open # <<>>) =>
    \A c \in Fleet : Missing(problem, best.rows, c) > 0 =>
      \A slot \in Active(c) :
        \/ best.rows[c][slot] = problem.needs[c].maxPower
        \/ Charging(problem, best.rows, slot) = LimitUnder(best.ceiling, slot)

THEOREM PlansLeaveNoRoom == Spec => []NoRoomIsLeft
<1>1. IInv /\ WorthInv => NoRoomIsLeft
  <2> SUFFICES ASSUME IInv, WorthInv, stage = "done", open # <<>>,
                      NEW c \in Fleet, Missing(problem, best.rows, c) > 0, NEW slot \in Active(c)
               PROVE  \/ best.rows[c][slot] = problem.needs[c].maxPower
                      \/ Charging(problem, best.rows, slot) = LimitUnder(best.ceiling, slot)
    BY DEF NoRoomIsLeft
  <2>1. ShortIsFull(best) /\ GoodRows(problem, best.rows, best.used) /\ slot \in SlotSet
    BY DEF IInv, WorthInv, GoodPlan, Active
  <2> QED
    BY <2>1 DEF ShortIsFull, GoodRows
<1> QED
  BY <1>1, InductiveInvariant, WorthInvariant, PTL

(***************************************************************************)
(* Slots of one tick: every window begins and ends with a slot, and no     *)
(* power is rounded.                                                       *)
(***************************************************************************)
WholeSlots == \A c \in Fleet : \A slot \in SlotSet : problem.needs[c].hours[slot] \in 0..1

WholeInv ==
  /\ WholeSlots
  /\ stage = "greedy" => NoneOver(rows)
  /\ InWhole

LEMMA BuiltWhole ==
  ASSUME SlotLength = 1, NEW t \in Times, NEW k \in [Cars -> CarStates],
         NEW onFile \in FlexEvents, NEW peak \in Peaks,
         NEW c \in DOMAIN BuildProblem(t, k, onFile, peak).needs, NEW slot \in SlotSet
  PROVE  BuildProblem(t, k, onFile, peak).needs[c].hours[slot] \in 0..1
<1> DEFINE car == k[c]
           to == WindowEnd(t, car)
<1>1. /\ t \in Int /\ c \in Planned(k) /\ c \in Cars
      /\ BuildProblem(t, k, onFile, peak).needs[c].hours = WindowHours(t, car.pluggedIn, to)
  BY SchedulerAssumption DEF BuildProblem, Planned, Need
<1>2. GoodCar(car)
  BY <1>1, SchedulerAssumption DEF GoodCar
<1> HIDE DEF car
<1>3. to \in Int /\ car.pluggedIn \in Int
  BY <1>1, <1>2 DEF GoodCar, WindowEnd
<1> HIDE DEF to
<1>4. /\ SlotStart(t, slot) \in Int /\ SlotEnd(t, slot) = SlotStart(t, slot) + 1
  <2>1. slot \in Int
    BY Grid DEF SlotSet
  <2>2. FloorToStep(t) \in Int
    BY <1>1 DEF FloorToStep
  <2> QED
    BY <2>1, <2>2 DEF SlotEnd, SlotStart
<1>5. MinWindow \in Nat
  BY Grid
<1>6. WindowHours(t, car.pluggedIn, to)[slot] \in 0..1
  BY <1>1, <1>3, <1>4, <1>5 DEF WindowHours, Larger, Smaller
<1> QED
  BY <1>1, <1>6

LEMMA InitIsWhole ==
  ASSUME SlotLength = 1
  PROVE  Init => WholeInv
<1>1. Init => WholeSlots
  BY BuiltWhole DEF Init, WholeSlots, Fleet
<1> QED
  BY <1>1 DEF Init, WholeInv, InWhole

LEMMA NextIsWhole == IInv /\ WorthInv /\ WholeInv /\ [Next]_vars => WholeInv'
<1> SUFFICES ASSUME IInv, WorthInv, WholeInv, [Next]_vars
             PROVE  WholeInv'
  OBVIOUS
<1>1. WellFormed(problem) /\ problem' = problem /\ Fleet' = Fleet
  BY DEF IInv, Next, LpSolves, LpFails, AttemptEnds, FillSlot, vars, Fleet
<1>2. WholeSlots'
  BY <1>1 DEF WholeInv, WholeSlots
<1>3. CASE LpSolves
  <2>1. PICK r \in (IF LpVariables(problem) = {} THEN {NoRows} ELSE LpPoints) :
          stage' = "done" /\ best' = Evaluated(r, used', Kept(Connection))
    BY <1>3 DEF LpSolves
  <2>2. best'.rows = r
    BY <2>1 DEF Evaluated
  <2>3. CASE LpVariables(problem) = {}
    <3>1. r = NoRows
      BY <2>1, <2>3
    <3>2. NoneOver(NoRows)
      BY <1>1, NothingIsOver
    <3> QED
      BY <1>1, <1>2, <2>1, <2>2, <3>1, <3>2 DEF WholeInv, InWhole, NoneOver
  <2>4. CASE LpVariables(problem) # {}
    <3>1. LpFeasible(problem, r)
      BY <2>1, <2>4 DEF LpPoints
    <3>2. NoneOver(r)
      BY <3>1 DEF LpFeasible, NoneOver, Fleet
    <3> QED
      BY <1>1, <1>2, <2>1, <2>2, <3>2 DEF WholeInv, InWhole, NoneOver
  <2> QED
    BY <2>3, <2>4
<1>4. CASE LpFails
  <2>1. stage' = "greedy" /\ best' = best /\ Begin(Upper)
    BY <1>4 DEF LpFails
  <2>2. rows' = NoRows /\ NoneOver(NoRows)
    BY <1>1, <2>1, NothingIsOver DEF Begin
  <2> QED
    BY <1>1, <1>2, <2>1, <2>2 DEF WholeInv, InWhole, NoneOver
<1>5. ASSUME NEW c \in Fleet, NEW slot \in SlotSet, FillSlot(c, slot)
      PROVE  WholeInv'
  <2>1. stage = "greedy" /\ stage' = "greedy" /\ best' = best
    BY <1>5 DEF FillSlot
  <2>2. problem.needs[c].hours[slot] = 1
    <3>1. problem.needs[c].hours[slot] > 0 /\ problem.needs[c].hours[slot] \in 0..1
      BY <1>5 DEF FillSlot, NextSlot, Active, WholeInv, WholeSlots
    <3> QED
      BY <3>1
  <2>3. NoneOver(rows')
    BY <1>5, <2>1, <2>2, FillSlotAccounts DEF WorthInv, WholeInv
  <2> QED
    BY <1>1, <1>2, <2>1, <2>3 DEF WholeInv, InWhole, NoneOver
<1>6. CASE AttemptEnds
  <2> DEFINE attempt == Evaluated(rows, used, ceiling)
             next == Head(ceilings)
  <2>1. stage = "greedy" /\ best' = Picked(attempt)
    BY <1>6 DEF AttemptEnds
  <2>2. attempt.rows = rows
    BY DEF Evaluated
  <2> HIDE DEF attempt
  <2>3. NoneOver(best'.rows)
    BY <2>1, <2>2 DEF WholeInv, InWhole, Picked
  <2>4. stage' = "greedy" => rows' = NoRows
    BY <1>6 DEF AttemptEnds, Begin
  <2>5. NoneOver(NoRows)
    BY <1>1, NothingIsOver
  <2> QED
    BY <1>1, <1>2, <2>3, <2>4, <2>5 DEF WholeInv, InWhole, NoneOver
<1>7. CASE UNCHANGED vars
  BY <1>1, <1>2, <1>7 DEF vars, WholeInv, InWhole, NoneOver
<1> QED
  BY <1>3, <1>4, <1>5, <1>6, <1>7 DEF Next

\* With slots of one tick, so that cars come and go between slots and not within one,
\* every plan of either solver is a point of the linear program, and what is said of
\* its objective is what the program minimises (schedule.ts, buildLpModel, evaluatePlan).
THEOREM SolversAgreeOnWholeSlots ==
  ASSUME SlotLength = 1
  PROVE  Spec => []SolversAgree
<1>1. Init => WholeInv
  BY InitIsWhole
<1>2. Spec => []WholeInv
  BY <1>1, NextIsWhole, InductiveInvariant, WorthInvariant, PTL DEF Spec
<1>3. WholeInv => InWhole
  BY DEF WholeInv
<1> QED
  BY <1>2, <1>3, SolversAgreeInWhole, PTL

(***************************************************************************)
(* The search for a lower peak.                                            *)
(***************************************************************************)
\* What one unit of energy left undelivered adds to the objective.
ShortfallUnit == Kept(Connection) * ShortfallPenalty * WeightUnit * NormUnit * Slots

LEMMA EnergyScoreIs ==
  ASSUME NEW p, WellFormed(p), NEW r \in Grids(p)
  PROVE  EnergyScore(p, r) \in Int
<1> DEFINE slots(c) == [slot \in SlotSet |->
                          r[c][slot] * p.needs[c].hours[slot] * SlotScore(p.needs[c].weights, slot)]
           f == [c \in DOMAIN p.needs |-> SumOver(slots(c))]
<1>0. \A a \in Int : \A b \in Int : a * b \in Int
  OBVIOUS
<1>1. ASSUME NEW c \in DOMAIN p.needs
      PROVE  SumOver(slots(c)) \in Int
  <2> DEFINE w == p.needs[c].weights
             g == slots(c)
  <2>1. ASSUME NEW slot \in SlotSet
        PROVE  g[slot] \in Int
    <3>1. /\ w.cost \in Int /\ w.co2 \in Int /\ w.speed \in Int /\ slot \in Int
          /\ Price[slot] \in Int /\ Carbon[slot] \in Int /\ Slots \in Int /\ NormUnit \in Int
      <4>1. w.cost \in Int /\ w.co2 \in Int /\ w.speed \in Int
        BY DEF WellFormed
      <4>2. Price[slot] \in Int /\ Carbon[slot] \in Int /\ NormUnit \in Int
        BY ProblemAssumption
      <4>3. Slots \in Int /\ slot \in Int
        BY Grid DEF SlotSet
      <4> QED
        BY <4>1, <4>2, <4>3
    <3>2. r[c][slot] \in Int /\ p.needs[c].hours[slot] \in Int
      BY DEF WellFormed, Grids
    <3> HIDE DEF w
    <3>3. w.cost * Price[slot] \in Int /\ w.co2 * Carbon[slot] \in Int /\ w.speed * NormUnit \in Int
      BY <1>0, <3>1
    <3> DEFINE a == w.cost * Price[slot] + w.co2 * Carbon[slot]
               b == w.speed * NormUnit
    <3>4. a \in Int /\ b \in Int
      BY <3>3
    <3>5. SlotScore(w, slot) = Slots * a + b * slot
      BY DEF SlotScore
    <3> HIDE DEF a, b
    <3>6. Slots * a \in Int /\ b * slot \in Int
      BY <1>0, <3>1, <3>4
    <3> DEFINE score == SlotScore(w, slot)
               given == r[c][slot] * p.needs[c].hours[slot]
    <3>7. score \in Int /\ given \in Int
      BY <1>0, <3>2, <3>5, <3>6
    <3>8. g[slot] = given * score
      BY DEF w
    <3> HIDE DEF score, given, g
    <3> QED
      BY <1>0, <3>7, <3>8
  <2>2. DOMAIN g = SlotSet /\ IsFiniteSet(SlotSet)
    BY SlotsAreFinite
  <2> HIDE DEF g
  <2>3. SumOver(g) \in Int
    BY <2>1, <2>2, SumIs
  <2> QED
    BY <2>3 DEF g
<1>2. EnergyScore(p, r) = SumOver(f)
  BY DEF EnergyScore
<1>3. DOMAIN f = DOMAIN p.needs /\ \A c \in DOMAIN f : f[c] \in Int
  BY <1>1
<1>4. IsFiniteSet(DOMAIN p.needs)
  BY DEF WellFormed
<1> HIDE DEF f
<1> QED
  BY <1>2, <1>3, <1>4, SumIs

\* The objective is what energy and peak cost, and so much for every unit undelivered.
LEMMA ObjectiveIs ==
  ASSUME NEW p, WellFormed(p), NEW r \in Grids(p), VariablesOnly(p, r),
         \A c \in DOMAIN p.needs : \A slot \in SlotSet : r[c][slot] >= 0
  PROVE  /\ ObjectiveOfEnergyAndPeak(p, r) \in Int /\ Shortfall(p, r) \in Int /\ ShortfallUnit \in Nat
         /\ Objective(p, r) = ObjectiveOfEnergyAndPeak(p, r) + ShortfallUnit * Shortfall(p, r)
         /\ Objective(p, r) \in Int
<1> DEFINE busy == {v[2] : v \in LpVariables(p)}
           all == {p.existingPeak} \cup {p.base[slot] + Charging(p, r, slot) : slot \in SlotSet}
           f == [c \in DOMAIN p.needs |-> Missing(p, r, c)]
<1>0. /\ \A a \in Int : \A b \in Int : a * b \in Int
      /\ \A a \in Nat : \A b \in Nat : a * b \in Nat
  OBVIOUS
<1>1. Max(all) \in Int
  BY PeaksAgree
<1>2. PeakCoefficient(p) \in Int /\ EnergyScore(p, r) \in Int /\ Kept(Connection) \in Nat
  BY PeakCoefficientIs, EnergyScoreIs, ProblemAssumption, KeptIsThere
<1>3. ObjectiveOfEnergyAndPeak(p, r) = Kept(Connection) * EnergyScore(p, r) + PeakCoefficient(p) * Max(all)
  BY DEF ObjectiveOfEnergyAndPeak
<1>4. Objective(p, r) = Kept(Connection) * EnergyScore(p, r) + PeakCoefficient(p) * Max(all)
                          + ShortfallUnit * Shortfall(p, r)
  BY DEF Objective, ShortfallUnit
<1> HIDE DEF all
<1>5. ObjectiveOfEnergyAndPeak(p, r) \in Int
  <2>1. Kept(Connection) * EnergyScore(p, r) \in Int /\ PeakCoefficient(p) * Max(all) \in Int
    BY <1>0, <1>1, <1>2
  <2> QED
    BY <1>3, <2>1
<1>6. Shortfall(p, r) \in Int
  <2>1. ASSUME NEW c \in DOMAIN p.needs
        PROVE  f[c] \in Int
    <3>1. p.needs[c].energy \in Int /\ Delivered(p, r, c) \in Int
      BY DeliveredIs DEF WellFormed
    <3> QED
      BY <3>1 DEF Missing, Larger
  <2>2. DOMAIN f = DOMAIN p.needs /\ IsFiniteSet(DOMAIN p.needs) /\ Shortfall(p, r) = SumOver(f)
    BY DEF WellFormed, Shortfall
  <2> HIDE DEF f
  <2> QED
    BY <2>1, <2>2, SumIs
<1>7. ShortfallUnit \in Nat
  <2> DEFINE a == Kept(Connection) * ShortfallPenalty
             b == a * WeightUnit
             d == b * NormUnit
  <2>1. ShortfallPenalty \in Nat /\ WeightUnit \in Nat /\ NormUnit \in Nat /\ Slots \in Nat
    BY ProblemAssumption
  <2>2. a \in Nat
    BY <1>0, <1>2, <2>1
  <2>3. b \in Nat
    <3> HIDE DEF a
    <3> QED
      BY <1>0, <2>1, <2>2
  <2>4. d \in Nat
    <3> HIDE DEF b
    <3> QED
      BY <1>0, <2>1, <2>3
  <2>5. d * Slots \in Nat
    <3> HIDE DEF d
    <3> QED
      BY <1>0, <2>1, <2>4
  <2> QED
    BY <2>5 DEF ShortfallUnit
<1>8. ShortfallUnit * Shortfall(p, r) \in Int
  BY <1>0, <1>6, <1>7
<1> QED
  BY <1>3, <1>4, <1>5, <1>6, <1>7, <1>8

SearchInv ==
  /\ stage # "done" /\ pass = "open" => best = <<>> /\ ceilings = <<>>
  /\ open # <<>> => /\ GoodPlan(problem, open) /\ Rated(open)
                    /\ best # <<>> /\ best.objective =< open.objective

\* A rated plan that may be given out has a whole number for its objective.
LEMMA RatedIsWhole ==
  ASSUME WellFormed(problem), NEW offer, GoodPlan(problem, offer), Rated(offer)
  PROVE  /\ ObjectiveOfEnergyAndPeak(problem, offer.rows) \in Int /\ offer.missing \in Int
         /\ ShortfallUnit \in Nat
         /\ offer.objective = ObjectiveOfEnergyAndPeak(problem, offer.rows) + ShortfallUnit * offer.missing
         /\ offer.objective \in Int
<1>1. /\ offer.rows \in Grids(problem) /\ VariablesOnly(problem, offer.rows)
      /\ offer.missing = Shortfall(problem, offer.rows) /\ offer.objective = Objective(problem, offer.rows)
  BY DEF GoodPlan, GoodRows, Rated
<1>2. \A c \in DOMAIN problem.needs : \A slot \in SlotSet : offer.rows[c][slot] >= 0
  BY DEF GoodPlan, GoodRows, WellFormed
<1> QED
  BY <1>1, <1>2, ObjectiveIs

LEMMA SearchSteps == IInv /\ WorthInv /\ SearchInv /\ [Next]_vars => SearchInv'
<1> SUFFICES ASSUME IInv, WorthInv, SearchInv, [Next]_vars
             PROVE  SearchInv'
  OBVIOUS
<1>1. WellFormed(problem) /\ problem' = problem
  BY DEF IInv, Next, LpSolves, LpFails, AttemptEnds, FillSlot, vars
<1>2. GoodPlan(problem, open) /\ Rated(open) /\ open' = open => GoodPlan(problem', open') /\ Rated(open)'
  BY <1>1 DEF Rated
<1>3. CASE LpSolves
  <2>1. stage = "built" /\ stage' = "done" /\ open' = open
    BY <1>3 DEF LpSolves
  <2> QED
    BY <2>1 DEF SearchInv, WorthInv
<1>4. CASE LpFails
  <2>1. UNCHANGED <<pass, ceilings, best, open>> /\ stage = "built"
    BY <1>4 DEF LpFails
  <2> QED
    BY <2>1 DEF SearchInv, WorthInv
<1>5. ASSUME NEW c \in Fleet, NEW slot \in SlotSet, FillSlot(c, slot)
      PROVE  SearchInv'
  <2>1. UNCHANGED <<stage, pass, ceilings, best, open>>
    BY <1>5 DEF FillSlot
  <2> QED
    BY <1>2, <2>1 DEF SearchInv, Rated
<1>6. CASE AttemptEnds
  <2> DEFINE attempt == Evaluated(rows, used, ceiling)
             winner == Picked(attempt)
             more == IF ceilings # <<>> THEN ceilings
                     ELSE IF ShavePeak THEN NextCeilings(winner) ELSE <<>>
  <2>1. /\ stage = "greedy" /\ \A c \in Fleet : ~Unserved(c)
        /\ best' = winner /\ open' = IF pass = "open" THEN attempt ELSE open
    BY <1>6 DEF AttemptEnds
  <2>2. GoodPlan(problem, attempt) /\ Rated(attempt)
    BY <2>1, AttemptIsGood, AttemptIsWorth
  <2>3. attempt # <<>>
    <3>1. "rows" \in DOMAIN attempt /\ "rows" \notin DOMAIN <<>>
      BY DEF Evaluated
    <3> HIDE DEF attempt
    <3> QED
      BY <3>1
  <2>4. stage' = "done" \/ pass' # "open"
    <3>1. CASE more # <<>>
      <4>1. pass' = IF ceilings # <<>> THEN pass ELSE IF pass = "open" THEN "coarse" ELSE "fine"
        BY <1>6, <3>1 DEF AttemptEnds
      <4> HIDE DEF more
      <4> QED
        BY <2>1, <4>1 DEF SearchInv
    <3>2. CASE more = <<>>
      BY <1>6, <3>2 DEF AttemptEnds
    <3> QED
      BY <3>1, <3>2
  <2> HIDE DEF attempt
  <2>5. CASE pass = "open"
    <3>1. best' = attempt /\ open' = attempt
      BY <2>1, <2>5 DEF SearchInv, Picked
    <3>2. attempt.objective \in Int
      BY <1>1, <2>2, RatedIsWhole
    <3>3. Rated(open)' /\ GoodPlan(problem', open')
      BY <1>1, <2>2, <3>1 DEF Rated
    <3> QED
      BY <2>3, <2>4, <3>1, <3>2, <3>3 DEF SearchInv
  <2>6. CASE pass # "open"
    <3>1. open' = open
      BY <2>1, <2>6
    <3>2. CASE open # <<>>
      <4>1. /\ GoodPlan(problem, open) /\ Rated(open) /\ best # <<>> /\ best.objective =< open.objective
            /\ GoodPlan(problem, best) /\ Rated(best)
        BY <3>2 DEF SearchInv, WorthInv, IInv
      <4>2. open.objective \in Int /\ best.objective \in Int /\ attempt.objective \in Int
        BY <1>1, <2>2, <4>1, RatedIsWhole
      <4>3. best' # <<>> /\ best'.objective =< open.objective
        BY <2>1, <2>3, <4>1, <4>2 DEF Picked
      <4>4. Rated(open)' /\ GoodPlan(problem', open')
        BY <1>1, <3>1, <4>1 DEF Rated
      <4> QED
        BY <2>4, <3>1, <4>3, <4>4 DEF SearchInv
    <3>3. CASE open = <<>>
      BY <2>4, <3>1, <3>3 DEF SearchInv
    <3> QED
      BY <3>2, <3>3
  <2> QED
    BY <2>5, <2>6
<1>7. CASE UNCHANGED vars
  BY <1>2, <1>7 DEF vars, SearchInv, Rated
<1> QED
  BY <1>3, <1>4, <1>5, <1>6, <1>7 DEF Next

LEMMA SearchInvariant == Spec => []SearchInv
<1>1. Init => SearchInv
  BY DEF Init, SearchInv
<1> QED
  BY <1>1, SearchSteps, InductiveInvariant, WorthInvariant, PTL DEF Spec

\* A lower peak is chosen for no more than it saves: what a plan found under a ceiling
\* leaves undelivered beyond the plan without one, at the price of the shortfall, is
\* covered by what it saves on energy and peak (pickBest, SHORTFALL_PENALTY).
ShavingIsPaidFor ==
  open # <<>> =>
    ShortfallUnit * (best.missing - open.missing)
      =< ObjectiveOfEnergyAndPeak(problem, open.rows) - ObjectiveOfEnergyAndPeak(problem, best.rows)

THEOREM SearchPays == Spec => []ShavingIsPaidFor
<1>1. IInv /\ WorthInv /\ SearchInv => ShavingIsPaidFor
  <2> SUFFICES ASSUME IInv, WorthInv, SearchInv, open # <<>>
               PROVE  ShortfallUnit * (best.missing - open.missing)
                        =< ObjectiveOfEnergyAndPeak(problem, open.rows)
                             - ObjectiveOfEnergyAndPeak(problem, best.rows)
    BY DEF ShavingIsPaidFor
  <2> DEFINE eo == ObjectiveOfEnergyAndPeak(problem, open.rows)
             eb == ObjectiveOfEnergyAndPeak(problem, best.rows)
             mo == open.missing
             mb == best.missing
  <2>1. /\ WellFormed(problem) /\ GoodPlan(problem, open) /\ Rated(open)
        /\ GoodPlan(problem, best) /\ Rated(best) /\ best.objective =< open.objective
    BY DEF IInv, WorthInv, SearchInv
  <2>2. /\ eo \in Int /\ eb \in Int /\ mo \in Int /\ mb \in Int /\ ShortfallUnit \in Nat
        /\ open.objective = eo + ShortfallUnit * mo /\ best.objective = eb + ShortfallUnit * mb
    BY <2>1, RatedIsWhole
  <2>3. eb + ShortfallUnit * mb =< eo + ShortfallUnit * mo
    BY <2>1, <2>2
  <2> HIDE DEF eo, eb, mo, mb
  <2>4. \A u \in Int : \A a \in Int : \A b \in Int : u * a \in Int /\ u * b \in Int /\ u * (a - b) = u * a - u * b
    OBVIOUS
  <2>5. ShortfallUnit * (mb - mo) =< eo - eb
    BY <2>2, <2>3, <2>4
  <2> QED
    BY <2>5 DEF eo, eb, mo, mb
<1> QED
  BY <1>1, InductiveInvariant, WorthInvariant, SearchInvariant, PTL

\* A unit of energy undelivered costs more than any two plans of this problem differ by
\* in what they pay for energy and peak.
PenaltyCovers ==
  \A r \in Grids(problem) : \A q \in Grids(problem) :
    (\E u : GoodRows(problem, r, u)) /\ (\E u : GoodRows(problem, q, u)) =>
      ObjectiveOfEnergyAndPeak(problem, r) - ObjectiveOfEnergyAndPeak(problem, q) < ShortfallUnit

\* Where the penalty is that high, the search costs no driver energy.
THEOREM ShavingIsFree == Spec => [](PenaltyCovers => ShavingCostsNobody)
<1>1. IInv /\ WorthInv /\ SearchInv /\ ShavingIsPaidFor => (PenaltyCovers => ShavingCostsNobody)
  <2> SUFFICES ASSUME IInv, WorthInv, SearchInv, ShavingIsPaidFor, PenaltyCovers, open # <<>>
               PROVE  best.missing <= open.missing
    BY DEF ShavingCostsNobody
  <2> DEFINE eo == ObjectiveOfEnergyAndPeak(problem, open.rows)
             eb == ObjectiveOfEnergyAndPeak(problem, best.rows)
             more == best.missing - open.missing
  <2>1. /\ WellFormed(problem) /\ GoodPlan(problem, open) /\ Rated(open)
        /\ GoodPlan(problem, best) /\ Rated(best)
    BY DEF IInv, WorthInv, SearchInv
  <2>2. /\ eo \in Int /\ eb \in Int /\ ShortfallUnit \in Nat
        /\ open.missing \in Int /\ best.missing \in Int
    BY <2>1, RatedIsWhole
  <2>3. eo - eb < ShortfallUnit
    BY <2>1 DEF PenaltyCovers, GoodPlan, GoodRows
  <2>4. ShortfallUnit * more =< eo - eb
    BY DEF ShavingIsPaidFor
  <2>5. more \in Int
    BY <2>2
  <2> HIDE DEF eo, eb, more
  <2>6. more >= 1 => ShortfallUnit * more >= ShortfallUnit
    BY <2>2, <2>5
  <2>7. ShortfallUnit * more \in Int
    BY <2>2, <2>5
  <2>8. ~(more >= 1)
    BY <2>2, <2>3, <2>4, <2>6, <2>7
  <2> QED
    BY <2>2, <2>5, <2>8 DEF more
<1> QED
  BY <1>1, SearchPays, InductiveInvariant, WorthInvariant, SearchInvariant, PTL

(***************************************************************************)
(* A flexibility request and the plan that keeps it (FlexDesk).            *)
(***************************************************************************)
Asked == [starts : Nat, ends : Nat, cap : Nat, status : Statuses, answered : Nat]

DeskShapes ==
  /\ clock \in 0..MaxClock /\ events \in Seq(Asked)
  /\ plan \in [PlanSlots -> 0..SiteConnection] /\ energy \in [PlanSlots -> Nat]
  /\ DOMAIN doing = Pages
  /\ doing["grid"].what = "ask" =>
       doing["grid"].starts \in Nat /\ doing["grid"].ends \in Nat /\ doing["grid"].cap \in Nat

AnsweredBefore == \A i \in DOMAIN events : events[i].answered =< clock

\* Between solves the plan in force is under every cap that was accepted.
PlanIsUnderCaps ==
  ~dirty => \A i \in DOMAIN events : events[i].status = "accepted" =>
    \A slot \in PlanSlots : slot >= SlotOf(clock) /\ Covers(events[i], slot) => plan[slot] =< events[i].cap

NothingAhead == \A slot \in PlanSlots : clock =< slot * SlotTicks => energy[slot] = 0

\* The ticks of a slot that have passed.
Elapsed(t, slot) ==
  IF t =< slot * SlotTicks THEN 0
  ELSE IF t >= (slot + 1) * SlotTicks THEN SlotTicks ELSE t - slot * SlotTicks

\* Of a request that was accepted by its start, that every tick so far has kept to it.
KeptSoFar ==
  \A i \in DOMAIN events : events[i].status = "accepted" /\ events[i].answered =< events[i].starts =>
    \A slot \in PlanSlots : slot * SlotTicks >= events[i].starts /\ slot * SlotTicks < events[i].ends =>
      energy[slot] =< events[i].cap * Elapsed(clock, slot)

DeskInv == DeskShapes /\ AnsweredBefore /\ PlanIsUnderCaps /\ NothingAhead /\ KeptSoFar

\* Slots, as intervals of the clock.
LEMMA SlotBounds ==
  ASSUME DeskAssumption
  PROVE  /\ SlotTicks \in Nat \ {0}
         /\ \A t \in Nat : SlotOf(t) \in Nat /\ SlotOf(t) * SlotTicks =< t /\ t < (SlotOf(t) + 1) * SlotTicks
         /\ \A a \in Nat : \A b \in Nat : a < b => (a + 1) * SlotTicks =< b * SlotTicks
         /\ \A a \in Nat : a * SlotTicks \in Nat /\ (a + 1) * SlotTicks = a * SlotTicks + SlotTicks
<1>1. SlotTicks \in Nat \ {0}
  BY DEF DeskAssumption
<1> DEFINE w == SlotTicks
<1>2. w \in Nat \ {0}
  BY <1>1
<1> HIDE DEF w
<1>3. \A a \in Nat : a * w \in Nat /\ (a + 1) * w = a * w + w
  BY <1>2
<1>4. ASSUME NEW a \in Nat, NEW b \in Nat, a < b
      PROVE  (a + 1) * w =< b * w
  <2> DEFINE d == b - (a + 1)
  <2>1. d \in Nat /\ b = (a + 1) + d
    BY <1>4
  <2> HIDE DEF d
  <2>2. ((a + 1) + d) * w = (a + 1) * w + d * w /\ d * w \in Nat /\ (a + 1) * w \in Nat
    BY <1>2, <2>1
  <2> QED
    BY <2>1, <2>2
<1>5. ASSUME NEW t \in Nat
      PROVE  t \div w \in Nat /\ (t \div w) * w =< t /\ t < ((t \div w) + 1) * w
  <2> DEFINE q == t \div w
             r == t % w
  <2>1. q \in Nat /\ r \in 0..(w - 1) /\ t = w * q + r
    BY <1>2
  <2> HIDE DEF q, r
  <2>2. w * q = q * w /\ q * w \in Nat /\ (q + 1) * w = q * w + w
    BY <1>2, <2>1
  <2>3. q * w =< t /\ t < (q + 1) * w
    BY <1>2, <2>1, <2>2
  <2> QED
    BY <2>1, <2>3 DEF q
<1> QED
  BY <1>2, <1>3, <1>4, <1>5 DEF w, SlotOf

LEMMA SlotsFollow ==
  ASSUME DeskAssumption, NEW t \in Nat, NEW u \in Nat, t =< u
  PROVE  SlotOf(t) =< SlotOf(u)
<1> DEFINE a == SlotOf(t)
           b == SlotOf(u)
           at == a * SlotTicks
           end == (b + 1) * SlotTicks
<1>1. a \in Nat /\ b \in Nat /\ at =< t /\ u < end
  BY SlotBounds
<1>2. b < a => end =< at
  BY <1>1, SlotBounds
<1>3. at \in Nat /\ end \in Nat
  BY <1>1, SlotBounds
<1> HIDE DEF a, b, at, end
<1>4. ~(b < a)
  BY <1>1, <1>2, <1>3
<1>5. a =< b
  BY <1>1, <1>4
<1> QED
  BY <1>5 DEF a, b

\* A tick passes in the slot of the clock, and in no other.
LEMMA ElapsedPasses ==
  ASSUME DeskAssumption, NEW t \in Nat, NEW slot \in Nat
  PROVE  /\ Elapsed(t, slot) \in Nat
         /\ slot = SlotOf(t) => Elapsed(t + 1, slot) = Elapsed(t, slot) + 1
         /\ slot # SlotOf(t) => Elapsed(t + 1, slot) = Elapsed(t, slot)
<1> DEFINE q == SlotOf(t)
           from == slot * SlotTicks
           to == (slot + 1) * SlotTicks
           now0 == q * SlotTicks
           end0 == (q + 1) * SlotTicks
<1>1. /\ q \in Nat /\ now0 =< t /\ t < end0 /\ SlotTicks \in Nat \ {0}
      /\ from \in Nat /\ to = from + SlotTicks /\ now0 \in Nat /\ end0 = now0 + SlotTicks
  BY SlotBounds
<1>2. /\ slot < q => to =< now0
      /\ q < slot => end0 =< from
  BY <1>1, SlotBounds
<1>3. slot = q => from = now0
  OBVIOUS
<1>4. slot < q \/ q < slot \/ slot = q
  BY <1>1
<1>5. \A s \in Nat : Elapsed(s, slot) = IF s =< from THEN 0 ELSE IF s >= to THEN SlotTicks ELSE s - from
  BY DEF Elapsed
<1>6. /\ Elapsed(t, slot) = (IF t =< from THEN 0 ELSE IF t >= to THEN SlotTicks ELSE t - from)
      /\ Elapsed(t + 1, slot) = (IF t + 1 =< from THEN 0 ELSE IF t + 1 >= to THEN SlotTicks ELSE (t + 1) - from)
  BY <1>5
<1> HIDE DEF q, from, to, now0, end0
<1>7. CASE slot = q
  BY <1>1, <1>3, <1>6, <1>7 DEF q
<1>8. CASE slot < q
  BY <1>1, <1>2, <1>6, <1>8 DEF q
<1>9. CASE q < slot
  BY <1>1, <1>2, <1>6, <1>9 DEF q
<1> QED
  BY <1>4, <1>7, <1>8, <1>9

\* The cap of a slot is a number, no more than the connection and than every cap that
\* was accepted for it.
LEMMA CapForIs ==
  ASSUME DeskAssumption, events \in Seq(Asked), NEW slot
  PROVE  /\ CapFor(slot) \in 0..SiteConnection
         /\ \A i \in DOMAIN events : events[i].status = "accepted" /\ Covers(events[i], slot) =>
              CapFor(slot) =< events[i].cap
<1> DEFINE caps == {events[i].cap : i \in {i \in listBySite({"accepted"}) : Covers(events[i], slot)}}
           S == caps \cup {SiteConnection}
<1>1. \A i \in DOMAIN events : events[i].cap \in Nat
  <2>1. \A i \in DOMAIN events : events[i] \in Asked
    OBVIOUS
  <2> QED
    BY <2>1 DEF Asked
<1>2. S \in SUBSET Nat /\ S # {} /\ SiteConnection \in S /\ SiteConnection \in Nat
  BY <1>1 DEF DeskAssumption, listBySite
<1>3. CapFor(slot) = CHOOSE cap \in S : \A other \in S : cap <= other
  BY DEF CapFor
<1>4. \A i \in DOMAIN events : events[i].status = "accepted" /\ Covers(events[i], slot) => events[i].cap \in S
  BY DEF listBySite
<1> HIDE DEF S
<1>5. PICK n \in S : \A m \in S : ~ (<<m, n>> \in OpToRel(<, Nat))
  BY <1>2, NatLessThanWellFounded, WFMin
<1>6. \A m \in S : n <= m
  <2>1. \A m \in S : ~ (m < n)
    BY <1>2, <1>5 DEF OpToRel
  <2> QED
    BY <1>2, <2>1
<1>7. CapFor(slot) \in S /\ \A other \in S : CapFor(slot) <= other
  BY <1>3, <1>6
<1>8. CapFor(slot) \in 0..SiteConnection
  <2> DEFINE cap == CapFor(slot)
  <2>1. cap \in Nat /\ cap =< SiteConnection /\ SiteConnection \in Nat
    BY <1>2, <1>7
  <2> HIDE DEF cap
  <2>2. cap \in 0..SiteConnection
    BY <2>1
  <2> QED
    BY <2>2 DEF cap
<1> QED
  BY <1>4, <1>7, <1>8

LEMMA DeskBegins == DeskAssumption /\ DeskInit => DeskInv
<1> SUFFICES ASSUME DeskAssumption, DeskInit
             PROVE  DeskInv
  OBVIOUS
<1>1. MaxClock \in Nat /\ SiteConnection \in Nat
  BY DEF DeskAssumption
<1>2. events = <<>> /\ DOMAIN events = {} /\ events \in Seq(Asked)
  BY DEF DeskInit
<1>3. doing["grid"].what = "nothing"
  BY DEF DeskInit, Pages, Idle
<1>4. DeskShapes
  BY <1>1, <1>2, <1>3 DEF DeskInit, DeskShapes
<1>5. NothingAhead
  BY DEF DeskInit, NothingAhead
<1> QED
  BY <1>2, <1>4, <1>5 DEF DeskInv, AnsweredBefore, PlanIsUnderCaps, KeptSoFar

LEMMA SolvesKeepCaps ==
  ASSUME DeskAssumption, DeskInv, Solves
  PROVE  DeskInv'
<1>1. /\ UNCHANGED <<clock, events, energy, doing>>
      /\ plan' = [slot \in PlanSlots |-> IF slot < SlotOf(clock) THEN plan[slot] ELSE CapFor(slot)]
  BY DEF Solves
<1>2. DeskShapes /\ AnsweredBefore /\ NothingAhead /\ KeptSoFar /\ events \in Seq(Asked)
  BY DEF DeskInv, DeskShapes
<1>3. \A slot \in PlanSlots : /\ CapFor(slot) \in 0..SiteConnection
        /\ \A i \in DOMAIN events : events[i].status = "accepted" /\ Covers(events[i], slot) =>
             CapFor(slot) =< events[i].cap
  BY <1>2, CapForIs
<1>4. DeskShapes'
  <2>1. plan' \in [PlanSlots -> 0..SiteConnection]
    BY <1>1, <1>2, <1>3 DEF DeskShapes
  <2> QED
    BY <1>1, <1>2, <2>1 DEF DeskShapes
<1>5. PlanIsUnderCaps'
  <2> SUFFICES ASSUME NEW i \in DOMAIN events, events[i].status = "accepted", NEW slot \in PlanSlots,
                      slot >= SlotOf(clock), Covers(events[i], slot)
               PROVE  plan'[slot] =< events[i].cap
    BY <1>1 DEF PlanIsUnderCaps, Covers, SlotOf
  <2>1. slot \in Nat /\ SlotOf(clock) \in Nat
    <3>1. clock \in Nat /\ MaxClock \in Nat
      BY <1>2 DEF DeskShapes, DeskAssumption
    <3>2. SlotOf(clock) \in Nat /\ SlotOf(MaxClock) \in Nat
      BY <3>1, SlotBounds
    <3> QED
      BY <3>2 DEF PlanSlots
  <2>2. plan'[slot] = CapFor(slot)
    BY <1>1, <2>1
  <2> QED
    BY <1>3, <2>2
<1>6. AnsweredBefore' /\ NothingAhead' /\ KeptSoFar'
  BY <1>1, <1>2 DEF AnsweredBefore, NothingAhead, KeptSoFar, Elapsed
<1> QED
  BY <1>4, <1>5, <1>6 DEF DeskInv

\* What changes neither the requests, the clock, the plan nor the meter.
LEMMA PagesKeepCaps ==
  ASSUME DeskInv, UNCHANGED <<clock, events, dirty, plan, energy>>,
         DOMAIN doing' = Pages,
         doing'["grid"].what = "ask" =>
           doing'["grid"].starts \in Nat /\ doing'["grid"].ends \in Nat /\ doing'["grid"].cap \in Nat
  PROVE  DeskInv'
BY DEF DeskInv, DeskShapes, AnsweredBefore, PlanIsUnderCaps, NothingAhead, KeptSoFar, Covers, SlotOf, Elapsed

\* A change of the list: every request is one that was there, with its answer, or was
\* made or answered now.
LEMMA StoredKeepsCaps ==
  ASSUME DeskAssumption, DeskInv, NEW list \in Seq(Asked), Stored(list),
         \A i \in DOMAIN list : \/ i \in DOMAIN events /\ list[i] = events[i]
                                \/ list[i].answered = clock,
         DOMAIN doing' = Pages, doing'["grid"].what # "ask" \/ doing'["grid"] = doing["grid"]
  PROVE  DeskInv'
<1>1. events' = list /\ dirty' = TRUE /\ UNCHANGED <<clock, plan, energy>>
  BY DEF Stored
<1>2. DeskShapes'
  BY <1>1 DEF DeskInv, DeskShapes
<1>3. clock \in Nat
  BY DEF DeskInv, DeskShapes, DeskAssumption
<1>4. AnsweredBefore'
  BY <1>1, <1>3 DEF DeskInv, AnsweredBefore
<1>5. PlanIsUnderCaps' /\ NothingAhead'
  BY <1>1 DEF DeskInv, PlanIsUnderCaps, NothingAhead
<1>6. KeptSoFar'
  <2> SUFFICES ASSUME NEW i \in DOMAIN list, list[i].status = "accepted", list[i].answered =< list[i].starts,
                      NEW slot \in PlanSlots, slot * SlotTicks >= list[i].starts, slot * SlotTicks < list[i].ends
               PROVE  energy[slot] =< list[i].cap * Elapsed(clock, slot)
    BY <1>1 DEF KeptSoFar, Elapsed
  <2>1. CASE i \in DOMAIN events /\ list[i] = events[i]
    BY <2>1 DEF DeskInv, KeptSoFar
  <2>2. CASE list[i].answered = clock
    <3>1. list[i].starts \in Nat /\ list[i].cap \in Nat
      <4>1. list[i] \in Asked
        OBVIOUS
      <4> QED
        BY <4>1 DEF Asked
    <3>2. slot * SlotTicks \in Nat
      <4>1. slot \in Nat
        BY SlotBounds DEF PlanSlots, DeskAssumption
      <4> QED
        BY <4>1, SlotBounds
    <3>3. clock =< slot * SlotTicks
      BY <1>3, <2>2, <3>1, <3>2
    <3>4. energy[slot] = 0 /\ Elapsed(clock, slot) = 0
      BY <3>3 DEF DeskInv, NothingAhead, Elapsed
    <3> QED
      BY <3>1, <3>4
  <2> QED
    BY <2>1, <2>2
<1> QED
  BY <1>2, <1>4, <1>5, <1>6 DEF DeskInv

\* A tick, while the plan in force is the last change's.
LEMMA TicksKeepCaps ==
  ASSUME DeskAssumption, DeskInv, Ticks
  PROVE  DeskInv'
<1> DEFINE here == SlotOf(clock)
<1>1. /\ ~dirty /\ clock < MaxClock /\ clock' = clock + 1
      /\ energy' = [energy EXCEPT ![here] = @ + plan[here]]
      /\ UNCHANGED <<events, dirty, plan, doing>>
  BY DEF Ticks
<1>2. /\ clock \in Nat /\ MaxClock \in Nat /\ events \in Seq(Asked)
      /\ plan \in [PlanSlots -> 0..SiteConnection] /\ energy \in [PlanSlots -> Nat]
      /\ SiteConnection \in Nat
  <2>1. MaxClock \in Nat /\ SiteConnection \in Nat
    BY DEF DeskAssumption
  <2> QED
    BY <2>1 DEF DeskInv, DeskShapes
<1>3. /\ here \in Nat /\ SlotOf(clock + 1) \in Nat /\ SlotOf(MaxClock) \in Nat
      /\ here * SlotTicks =< clock /\ clock < (here + 1) * SlotTicks
      /\ SlotOf(clock + 1) * SlotTicks =< clock + 1 /\ clock + 1 < (SlotOf(clock + 1) + 1) * SlotTicks
      /\ SlotOf(MaxClock) * SlotTicks =< MaxClock /\ MaxClock < (SlotOf(MaxClock) + 1) * SlotTicks
  <2>1. clock \in Nat /\ clock + 1 \in Nat /\ MaxClock \in Nat
    BY <1>2
  <2>2. \A t \in Nat : SlotOf(t) \in Nat /\ SlotOf(t) * SlotTicks =< t /\ t < (SlotOf(t) + 1) * SlotTicks
    BY SlotBounds
  <2> QED
    BY <2>1, <2>2
<1>4. \A slot \in PlanSlots : slot \in Nat /\ slot * SlotTicks \in Nat
  BY <1>3, SlotBounds DEF PlanSlots
<1> HIDE DEF here
<1>5. \A a \in Nat : \A b \in Nat : a < b => (a + 1) * SlotTicks =< b * SlotTicks
  BY SlotBounds
<1>6. ASSUME NEW a \in Nat
      PROVE  a * SlotTicks \in Nat /\ (a + 1) * SlotTicks \in Nat
  <2>1. \A b \in Nat : b * SlotTicks \in Nat
    BY SlotBounds
  <2>2. a + 1 \in Nat
    OBVIOUS
  <2> QED
    BY <2>1, <2>2
<1>7. here \in PlanSlots /\ here =< SlotOf(clock + 1)
  <2>1. SlotOf(clock) =< SlotOf(MaxClock) /\ SlotOf(clock) =< SlotOf(clock + 1)
    BY <1>1, <1>2, SlotsFollow
  <2> QED
    BY <1>3, <2>1 DEF PlanSlots, here
<1>8. \A slot \in PlanSlots : energy'[slot] = IF slot = here THEN energy[here] + plan[here] ELSE energy[slot]
  BY <1>1, <1>2, <1>7
<1>9. DeskShapes'
  <2>1. energy' \in [PlanSlots -> Nat]
    <3>1. energy[here] + plan[here] \in Nat
      BY <1>2, <1>7
    <3> QED
      BY <1>1, <1>2, <3>1
  <2>2. clock' \in 0..MaxClock
    BY <1>1, <1>2
  <2> QED
    BY <1>1, <2>1, <2>2 DEF DeskInv, DeskShapes
<1>10. AnsweredBefore'
  <2>1. \A i \in DOMAIN events : events[i].answered \in Nat /\ events[i].answered =< clock
    <3>1. \A i \in DOMAIN events : events[i] \in Asked
      BY <1>2
    <3> QED
      BY <3>1 DEF DeskInv, AnsweredBefore, Asked
  <2> QED
    BY <1>1, <1>2, <2>1 DEF AnsweredBefore
<1>11. PlanIsUnderCaps'
  <2> SUFFICES ASSUME NEW i \in DOMAIN events, events[i].status = "accepted", NEW slot \in PlanSlots,
                      slot >= SlotOf(clock + 1), Covers(events[i], slot)
               PROVE  plan[slot] =< events[i].cap
    BY <1>1 DEF PlanIsUnderCaps, Covers, SlotOf
  <2>1. slot >= SlotOf(clock)
    BY <1>3, <1>4, <1>7 DEF here
  <2> QED
    BY <1>1, <2>1 DEF DeskInv, PlanIsUnderCaps
<1>12. NothingAhead'
  <2> SUFFICES ASSUME NEW slot \in PlanSlots, clock + 1 =< slot * SlotTicks
               PROVE  energy'[slot] = 0
    BY <1>1 DEF NothingAhead
  <2>1. clock =< slot * SlotTicks /\ slot # here
    <3> DEFINE at == slot * SlotTicks
    <3>1. at \in Nat /\ clock + 1 =< at /\ (slot = here => at =< clock)
      BY <1>3, <1>4
    <3> HIDE DEF at
    <3>2. clock =< at /\ slot # here
      BY <1>2, <3>1
    <3> QED
      BY <3>2 DEF at
  <2> QED
    BY <1>8, <2>1 DEF DeskInv, NothingAhead
<1>13. KeptSoFar'
  <2> SUFFICES ASSUME NEW i \in DOMAIN events, events[i].status = "accepted",
                      events[i].answered =< events[i].starts,
                      NEW slot \in PlanSlots, slot * SlotTicks >= events[i].starts, slot * SlotTicks < events[i].ends
               PROVE  energy'[slot] =< events[i].cap * Elapsed(clock + 1, slot)
    BY <1>1 DEF KeptSoFar, Elapsed
  <2> DEFINE was == Elapsed(clock, slot)
             cap == events[i].cap
  <2>1. /\ was \in Nat
        /\ slot = here => Elapsed(clock + 1, slot) = was + 1
        /\ slot # here => Elapsed(clock + 1, slot) = was
    BY <1>2, <1>4, ElapsedPasses DEF here
  <2>2. energy[slot] =< cap * was
    BY DEF DeskInv, KeptSoFar
  <2>3. cap \in Nat /\ events[i].starts \in Nat /\ events[i].ends \in Nat
    <3>1. events[i] \in Asked
      BY <1>2
    <3> QED
      BY <3>1 DEF Asked
  <2> HIDE DEF was
  <2>4. CASE slot # here
    BY <1>8, <2>1, <2>2, <2>4
  <2>5. CASE slot = here
    <3>1. Covers(events[i], slot)
      <4> DEFINE at == slot * SlotTicks
                 end == (slot + 1) * SlotTicks
      <4>1. at \in Nat /\ end \in Nat /\ at >= events[i].starts /\ at < events[i].ends /\ at =< clock /\ clock < end
        BY <1>3, <1>4, <1>6, <2>5
      <4> HIDE DEF at, end
      <4>2. events[i].starts < end /\ events[i].ends > at
        BY <1>2, <2>3, <4>1
      <4> QED
        BY <4>2 DEF Covers, at, end
    <3>2. slot >= SlotOf(clock)
      BY <1>3, <2>5 DEF here
    <3>3. plan[slot] =< cap
      BY <1>1, <3>1, <3>2 DEF DeskInv, PlanIsUnderCaps
    <3>4. plan[slot] \in Nat /\ energy[slot] \in Nat
      BY <1>2
    <3> HIDE DEF cap
    <3>5. cap * (was + 1) = cap * was + cap /\ cap * was \in Nat
      BY <2>1, <2>3
    <3>6. energy[slot] + plan[slot] =< cap * (was + 1)
      BY <2>2, <2>3, <3>3, <3>4, <3>5
    <3> QED
      BY <1>8, <2>1, <2>5, <3>6 DEF cap
  <2> QED
    BY <2>4, <2>5
<1> QED
  BY <1>9, <1>10, <1>11, <1>12, <1>13 DEF DeskInv

\* What the grid operator asks for is a number.
LEMMA CapAskedIs ==
  ASSUME DeskAssumption, DeskInv, NEW percent \in Reductions
  PROVE  CapAsked(percent) \in Nat
<1> DEFINE draw == plan[SlotOf(clock)]
           from == IF draw > 0 THEN draw ELSE SiteConnection
           part == from * percent
<1>1. /\ clock \in Nat /\ MaxClock \in Nat /\ clock =< MaxClock /\ SiteConnection \in Nat
      /\ percent \in 0..100 /\ plan \in [PlanSlots -> 0..SiteConnection]
  <2>1. MaxClock \in Nat /\ SiteConnection \in Nat /\ percent \in 0..100
    BY DEF DeskAssumption
  <2>2. clock \in 0..MaxClock /\ plan \in [PlanSlots -> 0..SiteConnection]
    BY DEF DeskInv, DeskShapes
  <2> QED
    BY <2>1, <2>2
<1>2. SlotOf(clock) \in PlanSlots
  <2>1. SlotOf(clock) \in Nat /\ SlotOf(MaxClock) \in Nat /\ SlotOf(clock) =< SlotOf(MaxClock)
    BY <1>1, SlotBounds, SlotsFollow
  <2> QED
    BY <2>1 DEF PlanSlots
<1>3. from \in Nat
  BY <1>1, <1>2
<1>4. CapAsked(percent) = from - part \div 100
  BY DEF CapAsked
<1> HIDE DEF from
<1>5. part \in Nat /\ part =< 100 * from
  <2> DEFINE rest == 100 - percent
  <2>1. rest \in Nat /\ percent \in Nat /\ percent + rest = 100
    BY <1>1
  <2> HIDE DEF rest
  <2>2. from * percent \in Nat /\ from * rest \in Nat /\ from * (percent + rest) = from * percent + from * rest
    BY <1>3, <2>1
  <2>3. from * 100 = from * percent + from * rest
    BY <2>1, <2>2
  <2> QED
    BY <1>3, <2>2, <2>3
<1> HIDE DEF part
<1>6. part \div 100 \in 0..from
  BY <1>3, <1>5
<1> QED
  BY <1>3, <1>4, <1>6

LEMMA RequestStoredKeepsCaps ==
  ASSUME DeskAssumption, DeskInv, RequestStored
  PROVE  DeskInv'
<1> DEFINE ask == doing["grid"]
           event == [starts |-> ask.starts, ends |-> ask.ends, cap |-> ask.cap,
                     status |-> IF automatic THEN "accepted" ELSE "requested",
                     answered |-> clock]
           list == Append(events, event)
<1>1. /\ ask.what = "ask" /\ Stored(list)
      /\ doing' = [doing EXCEPT !["grid"] = [what |-> "refresh"]]
  BY DEF RequestStored
<1>2. event \in Asked
  BY <1>1 DEF DeskInv, DeskShapes, DeskAssumption, Asked, Statuses
<1>3. event.answered = clock
  OBVIOUS
<1>4. events \in Seq(Asked) /\ DOMAIN doing = Pages /\ "grid" \in Pages
  BY DEF DeskInv, DeskShapes, Pages
<1> HIDE DEF event
<1>5. /\ list \in Seq(Asked)
      /\ \A i \in DOMAIN list : (i \in DOMAIN events /\ list[i] = events[i]) \/ list[i] = event
  BY <1>2, <1>4
<1>6. DOMAIN doing' = Pages /\ doing'["grid"].what # "ask"
  BY <1>1, <1>4
<1> HIDE DEF list
<1> QED
  BY <1>1, <1>3, <1>5, <1>6, StoredKeepsCaps

LEMMA ResponseStoredKeepsCaps ==
  ASSUME DeskAssumption, DeskInv, ResponseStored
  PROVE  DeskInv'
<1> DEFINE answer == doing["site"]
           now0 == clock
           status == IF answer.accept THEN "accepted" ELSE "declined"
           list == [events EXCEPT ![answer.of].status = status, ![answer.of].answered = clock]
<1>1. /\ Stored(list)
      /\ doing' = [doing EXCEPT !["site"] = [what |-> "refresh"]]
  BY DEF ResponseStored
<1>2. /\ events \in Seq(Asked) /\ DOMAIN doing = Pages /\ "grid" \in Pages /\ clock \in Nat
  BY DEF DeskInv, DeskShapes, Pages, DeskAssumption
<1>3. status \in Statuses
  BY DEF Statuses
<1> HIDE DEF status, answer
<1>4. /\ DOMAIN list = DOMAIN events
      /\ \A i \in DOMAIN events :
           list[i] = IF i = answer.of THEN [events[i] EXCEPT !.status = status, !.answered = clock] ELSE events[i]
  OBVIOUS
<1> HIDE DEF list
<1>5. \A i \in DOMAIN events : events[i] \in Asked
  BY <1>2
<1>6. ASSUME NEW i \in DOMAIN list
      PROVE  list[i] \in Asked /\ (list[i] = events[i] \/ list[i].answered = clock)
  BY <1>2, <1>3, <1>4, <1>5 DEF Asked
<1>7. list \in Seq(Asked)
  <2>1. DOMAIN events = 1..Len(events) /\ Len(events) \in Nat
    BY <1>2
  <2>2. list = [i \in 1..Len(events) |-> list[i]]
    BY <1>1, <1>4, <2>1 DEF list
  <2>3. \A i \in 1..Len(events) : list[i] \in Asked
    BY <1>4, <1>6, <2>1
  <2> QED
    BY <2>1, <2>2, <2>3
<1>8. DOMAIN doing' = Pages /\ doing'["grid"] = doing["grid"]
  BY <1>1, <1>2
<1> QED
  BY <1>1, <1>4, <1>6, <1>7, <1>8, StoredKeepsCaps

LEMMA DeskSteps == DeskAssumption /\ DeskInv /\ [DeskNext]_deskVars => DeskInv'
<1> SUFFICES ASSUME DeskAssumption, DeskInv, [DeskNext]_deskVars
             PROVE  DeskInv'
  OBVIOUS
<1>0. /\ DOMAIN doing = Pages /\ "grid" \in Pages
      /\ doing["grid"].what = "ask" =>
           doing["grid"].starts \in Nat /\ doing["grid"].ends \in Nat /\ doing["grid"].cap \in Nat
  BY DEF DeskInv, DeskShapes, Pages
<1>1. CASE Solves
  BY <1>1, SolvesKeepCaps
<1>2. CASE Ticks
  BY <1>2, TicksKeepCaps
<1>3. CASE Requests
  <2>1. PICK duration \in Durations, percent \in Reductions :
          doing' = [doing EXCEPT !["grid"] =
                     [what |-> "ask", starts |-> clock + 1, ends |-> clock + 1 + duration,
                      cap |-> CapAsked(percent)]]
    BY <1>3 DEF Requests
  <2>2. clock \in Nat /\ duration \in Nat /\ CapAsked(percent) \in Nat
    BY CapAskedIs DEF DeskInv, DeskShapes, DeskAssumption
  <2>3. /\ DOMAIN doing' = Pages /\ doing'["grid"].starts \in Nat /\ doing'["grid"].ends \in Nat
        /\ doing'["grid"].cap \in Nat
    BY <1>0, <2>1, <2>2
  <2>4. UNCHANGED <<clock, events, dirty, plan, energy>>
    BY <1>3 DEF Requests
  <2> QED
    BY <2>3, <2>4, PagesKeepCaps
<1>4. CASE RequestStored
  BY <1>4, RequestStoredKeepsCaps
<1>5. CASE ResponseStored
  BY <1>5, ResponseStoredKeepsCaps
<1>6. ASSUME NEW accept \in BOOLEAN, Responds(accept)
      PROVE  DeskInv'
  <2>1. DOMAIN doing' = Pages /\ doing'["grid"] = doing["grid"]
    BY <1>0, <1>6 DEF Responds
  <2>2. UNCHANGED <<clock, events, dirty, plan, energy>>
    BY <1>6 DEF Responds
  <2> QED
    BY <1>0, <2>1, <2>2, PagesKeepCaps
<1>7. ASSUME NEW page \in Pages, Refused(page) \/ Polls(page) \/ Refreshed(page)
      PROVE  DeskInv'
  <2>1. doing' = doing \/ doing' = [doing EXCEPT ![page] = Idle]
    BY <1>7 DEF Refused, Polls, Refreshed
  <2>2. DOMAIN doing' = Pages /\ (doing'["grid"] = doing["grid"] \/ doing'["grid"].what = "nothing")
    BY <1>0, <2>1 DEF Idle
  <2>3. UNCHANGED <<clock, events, dirty, plan, energy>>
    BY <1>7 DEF Refused, Polls, Refreshed
  <2> QED
    BY <1>0, <2>2, <2>3, PagesKeepCaps
<1>8. CASE UNCHANGED deskVars
  <2>1. UNCHANGED <<clock, events, dirty, plan, energy, doing>>
    BY <1>8 DEF deskVars
  <2> QED
    BY <1>0, <2>1, PagesKeepCaps
<1> QED
  BY <1>1, <1>2, <1>3, <1>4, <1>5, <1>6, <1>7, <1>8 DEF DeskNext

THEOREM DeskInvariant ==
  ASSUME DeskAssumption
  PROVE  DeskSpec => []DeskInv
BY DeskBegins, DeskSteps, PTL DEF DeskSpec

\* A request that the site had accepted by its start and never withdrew is held when it
\* is over: the loop has planned under its cap before the minute is out, in every slot
\* that its window touches, and the meter counts no more than was planned, for any slots,
\* windows and caps, and however requests, answers and polls overtake each other.
THEOREM KeptRequestsAreHeld ==
  ASSUME DeskAssumption
  PROVE  DeskSpec => []HeldIsReported
<1>1. DeskInv => HeldIsReported
  <2> SUFFICES ASSUME DeskInv, NEW i \in DOMAIN events, events[i].status = "accepted",
                      events[i].answered <= events[i].starts, clock >= events[i].ends,
                      NEW slot \in Measured(events[i])
               PROVE  energy[slot] <= events[i].cap * SlotTicks
    BY DEF HeldIsReported, Held
  <2> DEFINE at == slot * SlotTicks
             end == (slot + 1) * SlotTicks
  <2>1. /\ slot \in PlanSlots /\ at >= events[i].starts /\ at < events[i].ends /\ end <= clock
    BY DEF Measured
  <2>2. energy[slot] =< events[i].cap * Elapsed(clock, slot)
    BY <2>1 DEF DeskInv, KeptSoFar
  <2>3. clock \in Nat /\ slot \in Nat /\ SlotTicks \in Nat \ {0}
    BY <2>1, SlotBounds DEF DeskInv, DeskShapes, DeskAssumption, PlanSlots
  <2>4. at \in Nat /\ end = at + SlotTicks
    BY <2>3, SlotBounds
  <2>5. Elapsed(clock, slot) = IF clock =< at THEN 0 ELSE IF clock >= end THEN SlotTicks ELSE clock - at
    BY DEF Elapsed
  <2> HIDE DEF at, end
  <2>6. Elapsed(clock, slot) = SlotTicks
    BY <2>1, <2>3, <2>4, <2>5
  <2> QED
    BY <2>2, <2>6
<1> QED
  BY <1>1, DeskInvariant, PTL
=============================================================================
