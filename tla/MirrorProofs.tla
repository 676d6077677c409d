---------------------------- MODULE MirrorProofs ----------------------------
(***************************************************************************)
(* The mirror keeps what it says it has: as long as nothing was given up,  *)
(* every object of memory is in Postgres or on its way there, and nothing  *)
(* older comes after; and no two sessions share a transaction id unless    *)
(* hydrate() could not read them.  And the samples of the grid's signals   *)
(* that are stored are found again, and are what a report says they are.   *)
(***************************************************************************)
EXTENDS Mirror, GridSignals, FiniteSetTheorems, SequenceTheorems, NaturalsInduction, WellFoundedInduction, TLAPS

-----------------------------------------------------------------------------
(* The inductive invariant.                                                *)

RowsOf(k) == IF k \in Sessions THEN SessionRows ELSE ConnectorRows
RowSets ==
  {f \in UNION {[D -> SessionRows \cup ConnectorRows] : D \in SUBSET Keys} :
     \A k \in DOMAIN f : f[k] \in RowsOf(k)}
BatchSet == [rows : RowSets, deferrals : 0..MaxDeferrals]

\* TypeOK by sets of rows and of batches.
Typed ==
  /\ mem \in RowSets /\ tables \in RowSets /\ db \in RowSets
  /\ work \in Seq(BatchSet) /\ retries \in Seq(BatchSet)
  /\ \A i \in DOMAIN retries : retries[i].deferrals # 0
  /\ draining \in BOOLEAN /\ timer \in BOOLEAN /\ lost \in BOOLEAN
  /\ up \in BOOLEAN /\ blind \in BOOLEAN
  /\ draining = (work # <<>>)
  /\ timer => ~draining
  /\ tables # Empty => timer \/ draining
  /\ stop \in {"no", "flushing", "stopped"}
  /\ writes \in 0..MaxWrites /\ counter \in 0..writes /\ faults \in 0..MaxFaults

\* Which session has which transaction id, by a set of rows.
Ids(rows) == {<<s, rows[s].tx>> : s \in DOMAIN rows \cap Sessions}
IdsIn(batches) == UNION {Ids(batches[i].rows) : i \in DOMAIN batches}
AllIds == Ids(mem) \cup Ids(tables) \cup Ids(db) \cup IdsIn(work) \cup IdsIn(retries)

Distinct(ids) == \A p, q \in ids : p[2] = q[2] => p[1] = q[1]

\* Wherever a row waits, its id was issued by this counter: what is written
\* was in memory first, and what memory holds was read or is newer.
IdsAreIssued ==
  /\ Distinct(Ids(db))
  /\ \A p \in AllIds : p[2] <= writes
  /\ up /\ ~blind => Distinct(AllIds) /\ \A p \in AllIds : p[2] <= counter

\* A process that is down holds nothing.
DownIsEmpty == ~up => mem = Empty /\ tables = Empty /\ work = <<>> /\ retries = <<>>

\* The row of an object that arrives last is this one.
ArrivesLast(k, row, t, w, d) ==
  \/ k \in DOMAIN t /\ t[k] = row
  \/ /\ k \notin DOMAIN t
     /\ \E i \in DOMAIN w : /\ k \in DOMAIN w[i].rows /\ w[i].rows[k] = row
                            /\ \A j \in DOMAIN w : k \in DOMAIN w[j].rows => j <= i
  \/ /\ k \notin DOMAIN t /\ \A j \in DOMAIN w : k \notin DOMAIN w[j].rows
     /\ k \in DOMAIN d /\ d[k] = row

\* A session is on record, or is written before batch i.
Before(s, i, w, d) == s \in DOMAIN d \/ \E j \in DOMAIN w : j < i /\ s \in DOMAIN w[j].rows

ParentsFirst(t, w, d) ==
  /\ \A i \in DOMAIN w : \A b \in DOMAIN w[i].rows \cap Bays :
       w[i].rows[b].ref = NoSession \/ Before(w[i].rows[b].ref, i, w, d)
  /\ \A b \in DOMAIN t \cap Bays :
       t[b].ref = NoSession \/ t[b].ref \in DOMAIN t \/ Before(t[b].ref, Len(w) + 1, w, d)

\* While nothing is lost nothing waits for a parent, so nothing overtakes.
Complete == up /\ ~lost /\ stop # "stopped"
NothingOvertakes ==
  Complete =>
    /\ retries = <<>>
    /\ \A k \in DOMAIN mem : ArrivesLast(k, mem[k], tables, work, db)
    /\ ParentsFirst(tables, work, db)

IInv == Typed /\ IdsAreIssued /\ DownIsEmpty /\ NothingOvertakes

-----------------------------------------------------------------------------
(* Sets of rows.                                                           *)

\* Sets of rows are the functions TypeOK describes.
LEMMA RowSetsAreRows == \A f : f \in RowSets <=> IsRows(f)
<1>1. ASSUME NEW f \in RowSets PROVE IsRows(f)
  <2>1. PICK D \in SUBSET Keys : f \in [D -> SessionRows \cup ConnectorRows]
    BY <1>1 DEF RowSets
  <2>. QED BY <1>1, <2>1 DEF RowSets, IsRows, RowsOf
<1>2. ASSUME NEW f, IsRows(f) PROVE f \in RowSets
  BY <1>2 DEF RowSets, IsRows, RowsOf
<1>. QED BY <1>1, <1>2

LEMMA RowsHold ==
  ASSUME NEW f \in RowSets
  PROVE  DOMAIN f \subseteq Keys /\ \A k \in DOMAIN f : f[k] \in RowsOf(k)
BY DEF RowSets

LEMMA EmptyIsRows == Empty \in RowSets /\ DOMAIN Empty = {} /\ Ids(Empty) = {}
<1>1. Empty \in [{} -> SessionRows \cup ConnectorRows]
  BY DEF Empty
<1>. QED BY <1>1 DEF RowSets, Empty, Ids

\* The rows of f hide those of g.
LEMMA Overlaid ==
  ASSUME NEW f \in RowSets, NEW g \in RowSets
  PROVE  /\ Over(f, g) \in RowSets
         /\ DOMAIN Over(f, g) = DOMAIN f \cup DOMAIN g
         /\ \A k \in DOMAIN f : Over(f, g)[k] = f[k]
         /\ \A k \in DOMAIN g \ DOMAIN f : Over(f, g)[k] = g[k]
         /\ Ids(Over(f, g)) \subseteq Ids(f) \cup Ids(g)
<1>1. /\ DOMAIN Over(f, g) = DOMAIN f \cup DOMAIN g
      /\ \A k \in DOMAIN f : Over(f, g)[k] = f[k]
      /\ \A k \in DOMAIN g \ DOMAIN f : Over(f, g)[k] = g[k]
  BY DEF Over
<1>2. \A k \in DOMAIN Over(f, g) : Over(f, g)[k] \in RowsOf(k)
  BY <1>1, RowsHold
<1>3. IsRows(Over(f, g))
  <2>1. Over(f, g) \in [DOMAIN f \cup DOMAIN g -> SessionRows \cup ConnectorRows]
    BY <1>1, <1>2 DEF Over, RowsOf
  <2>. QED BY <1>1, <1>2, <2>1, RowsHold DEF IsRows, RowsOf
<1>4. Ids(Over(f, g)) \subseteq Ids(f) \cup Ids(g)
  BY <1>1 DEF Ids
<1>. QED BY <1>1, <1>3, <1>4, RowSetsAreRows

\* The id a row brings, if it is a session's.
NewIds(k, row) == IF k \in Sessions THEN {<<k, row.tx>>} ELSE {}

LEMMA OneSaved ==
  ASSUME NEW f \in RowSets, NEW k \in Keys, NEW row \in RowsOf(k)
  PROVE  /\ Put(f, Change(k, row)) \in RowSets
         /\ DOMAIN Put(f, Change(k, row)) = DOMAIN f \cup {k}
         /\ Put(f, Change(k, row))[k] = row
         /\ \A other \in DOMAIN f \ {k} : Put(f, Change(k, row))[other] = f[other]
         /\ Ids(Put(f, Change(k, row))) \subseteq Ids(f) \cup NewIds(k, row)
<1>. DEFINE one == [x \in {k} |-> row]
<1>1. Put(f, Change(k, row)) = Over(one, f)
  BY DEF Put, Change
<1>2. one \in RowSets
  <2>1. IsRows(one) BY DEF IsRows, RowsOf
  <2>. QED BY <2>1, RowSetsAreRows
<1>3. DOMAIN one = {k} /\ one[k] = row
  OBVIOUS
<1>4. Ids(one) \subseteq NewIds(k, row)
  BY <1>3 DEF Ids, NewIds
<1>. HIDE DEF one
<1>5. /\ Over(one, f) \in RowSets
      /\ DOMAIN Over(one, f) = DOMAIN one \cup DOMAIN f
      /\ \A x \in DOMAIN one : Over(one, f)[x] = one[x]
      /\ \A x \in DOMAIN f \ DOMAIN one : Over(one, f)[x] = f[x]
      /\ Ids(Over(one, f)) \subseteq Ids(one) \cup Ids(f)
  BY <1>2, Overlaid
<1>6. Ids(Over(one, f)) \subseteq Ids(f) \cup NewIds(k, row)
  BY <1>4, <1>5
<1>. QED BY <1>1, <1>3, <1>5, <1>6

LEMMA PartOfRows ==
  ASSUME NEW f \in RowSets, NEW part
  PROVE  /\ Only(f, part) \in RowSets
         /\ DOMAIN Only(f, part) = DOMAIN f \cap part
         /\ \A k \in DOMAIN f \cap part : Only(f, part)[k] = f[k]
         /\ Ids(Only(f, part)) \subseteq Ids(f)
<1>1. /\ DOMAIN Only(f, part) = DOMAIN f \cap part
      /\ \A k \in DOMAIN f \cap part : Only(f, part)[k] = f[k]
  BY DEF Only
<1>2. \A k \in DOMAIN Only(f, part) : Only(f, part)[k] \in RowsOf(k)
  BY <1>1, RowsHold
<1>3. IsRows(Only(f, part))
  <2>1. Only(f, part) \in [DOMAIN f \cap part -> SessionRows \cup ConnectorRows]
    BY <1>1, <1>2 DEF Only, RowsOf
  <2>. QED BY <1>1, <1>2, <2>1, RowsHold DEF IsRows, RowsOf
<1>. QED BY <1>1, <1>3, RowSetsAreRows DEF Ids

-----------------------------------------------------------------------------
(* Batches.                                                                *)

\* SetToSeq lists every element of a finite set once.
LEMMA Listed ==
  ASSUME NEW S, IsFiniteSet(S)
  PROVE  /\ SetToSeq(S) \in [1..Cardinality(S) -> S]
         /\ \A i, j \in 1..Cardinality(S) : SetToSeq(S)[i] = SetToSeq(S)[j] => i = j
         /\ \A x \in S : \E i \in 1..Cardinality(S) : SetToSeq(S)[i] = x
         /\ Cardinality(S) \in Nat
<1>1. Cardinality(S) \in Nat /\ ExistsBijection(1..Cardinality(S), S)
  BY FS_CardinalityType
<1>2. PICK f \in Bijection(1..Cardinality(S), S) : TRUE
  BY <1>1 DEF ExistsBijection
<1>3. f \in [1..Cardinality(S) -> S] /\ IsInjective(f)
  BY <1>2 DEF Bijection, Injection, IsInjective
<1>4. SetToSeq(S) \in [1..Cardinality(S) -> S] /\ IsInjective(SetToSeq(S))
  BY <1>3 DEF SetToSeq
<1>5. SetToSeq(S) \in Injection(1..Cardinality(S), S)
  BY <1>4 DEF Injection, IsInjective
<1>6. IsFiniteSet(1..Cardinality(S)) /\ Cardinality(1..Cardinality(S)) = Cardinality(S)
  BY <1>1, FS_Interval
<1>7. SetToSeq(S) \in Surjection(1..Cardinality(S), S)
  BY <1>5, <1>6, FS_Injection
<1>8. \A x \in S : \E i \in 1..Cardinality(S) : SetToSeq(S)[i] = x
  BY <1>7 DEF Surjection
<1>. QED BY <1>1, <1>4, <1>8 DEF IsInjective

\* The batches split the rows: each row is in one of them.
Split(batches, rows) ==
  /\ \A i \in DOMAIN batches :
       /\ DOMAIN batches[i].rows \subseteq DOMAIN rows
       /\ \A k \in DOMAIN batches[i].rows : batches[i].rows[k] = rows[k]
  /\ \A k \in DOMAIN rows : \E i \in DOMAIN batches : k \in DOMAIN batches[i].rows
  /\ \A i, j \in DOMAIN batches :
       \A k \in DOMAIN batches[i].rows : k \in DOMAIN batches[j].rows => i = j

LEMMA Division ==
  ASSUME NEW a \in Nat, NEW b \in Nat \ {0}
  PROVE  a \div b \in Nat /\ b * (a \div b) <= a /\ a < b * (a \div b) + b
OBVIOUS

\* The n-th row is in batch (n - 1) \div MaxBatch + 1, which exists.
LEMMA BatchExists ==
  ASSUME NEW size \in Nat \ {0}, NEW n \in Nat, NEW i \in 1..n
  PROVE  /\ (n + size - 1) \div size \in Nat
         /\ (i - 1) \div size + 1 \in 1..((n + size - 1) \div size)
<1>. DEFINE q == (i - 1) \div size
            m == (n + size - 1) \div size
<1>1. q \in Nat /\ size * q <= i - 1
  BY Division
<1>2. m \in Nat /\ n + size - 1 < size * m + size
  BY Division
<1>. HIDE DEF q, m
<1>3. size * q < size * m
  BY <1>1, <1>2
<1>4. q < m
  BY <1>1, <1>2, <1>3
<1>5. q + 1 \in 1..m
  BY <1>1, <1>2, <1>4
<1>. QED BY <1>2, <1>5 DEF q, m

LEMMA Batched ==
  ASSUME MirrorAssumption, NEW rows \in RowSets
  PROVE  /\ Batches(rows) \in Seq(BatchSet)
         /\ Split(Batches(rows), rows)
<1>. DEFINE keys == SetToSeq(DOMAIN rows)
            n == Cardinality(DOMAIN rows)
            Part(i) == {keys[j] : j \in {j \in DOMAIN keys : (j - 1) \div MaxBatch = i - 1}}
            number == (n + MaxBatch - 1) \div MaxBatch
<1>1. IsFiniteSet(DOMAIN rows)
  <2>1. IsFiniteSet(Keys)
    BY FS_Union DEF MirrorAssumption, Keys
  <2>. QED BY <2>1, RowsHold, FS_Subset
<1>2. /\ keys \in [1..n -> DOMAIN rows] /\ n \in Nat
      /\ \A i, j \in 1..n : keys[i] = keys[j] => i = j
      /\ \A k \in DOMAIN rows : \E i \in 1..n : keys[i] = k
  BY <1>1, Listed
<1>3. Len(keys) = n /\ DOMAIN keys = 1..n
  BY <1>2
<1>4. MaxBatch \in Nat \ {0} /\ 0 <= MaxDeferrals /\ MaxDeferrals \in Nat
  BY DEF MirrorAssumption
<1>5. number \in Nat
  BY <1>2, <1>4, Division
<1>6. Batches(rows) = [i \in 1..number |-> Batch(Only(rows, Part(i)), 0)]
  BY <1>3 DEF Batches
<1>. HIDE DEF keys, n, number
<1>7. \A i \in 1..number : /\ Only(rows, Part(i)) \in RowSets
                           /\ DOMAIN Only(rows, Part(i)) = DOMAIN rows \cap Part(i)
                           /\ \A k \in DOMAIN rows \cap Part(i) : Only(rows, Part(i))[k] = rows[k]
  BY PartOfRows
<1>8. ASSUME NEW k \in DOMAIN rows
      PROVE  \E i \in 1..number : k \in Part(i)
  <2>1. PICK j \in 1..n : keys[j] = k
    BY <1>2
  <2>2. (j - 1) \div MaxBatch + 1 \in 1..number
    BY <1>2, <1>4, BatchExists DEF number
  <2>3. (j - 1) \div MaxBatch \in Nat
    BY <1>4, Division
  <2>. QED BY <1>3, <2>1, <2>2, <2>3
<1>9. ASSUME NEW i \in 1..number, NEW other \in 1..number, NEW k \in Part(i) \cap Part(other)
      PROVE  i = other
  <2>1. PICK j \in 1..n : k = keys[j] /\ (j - 1) \div MaxBatch = i - 1
    BY <1>3, <1>9
  <2>2. PICK m \in 1..n : k = keys[m] /\ (m - 1) \div MaxBatch = other - 1
    BY <1>3, <1>9
  <2>3. j = m
    BY <1>2, <2>1, <2>2
  <2>. QED BY <1>5, <2>1, <2>2, <2>3
<1>. HIDE DEF Part
<1>10. /\ DOMAIN Batches(rows) = 1..number
       /\ \A i \in 1..number : /\ Batches(rows)[i].rows = Only(rows, Part(i))
                               /\ Batches(rows)[i] = Batch(Only(rows, Part(i)), 0)
  BY <1>6 DEF Batch
<1>11. Batches(rows) \in Seq(BatchSet)
  <2>1. 0 \in 0..MaxDeferrals
    BY <1>4
  <2>2. \A i \in 1..number : Batch(Only(rows, Part(i)), 0) \in BatchSet
    BY <1>7, <2>1 DEF Batch, BatchSet
  <2>. QED BY <1>5, <1>6, <2>2
<1>12. Split(Batches(rows), rows)
  <2>1. \A i \in 1..number :
          /\ DOMAIN Batches(rows)[i].rows = DOMAIN rows \cap Part(i)
          /\ \A k \in DOMAIN rows \cap Part(i) : Batches(rows)[i].rows[k] = rows[k]
    BY <1>7, <1>10
  <2>. QED BY <1>8, <1>9, <1>10, <2>1 DEF Split
<1>. QED BY <1>11, <1>12

LEMMA NoBatches ==
  <<>> \in Seq(BatchSet) /\ IdsIn(<<>>) = {} /\ \A i \in DOMAIN <<>> : FALSE
BY DEF IdsIn

LEMMA IdsOfBatches ==
  ASSUME NEW v \in Seq(BatchSet), NEW w \in Seq(BatchSet)
  PROVE  /\ IdsIn(v \o w) \subseteq IdsIn(v) \cup IdsIn(w)
         /\ v # <<>> => /\ Ids(Head(v).rows) \subseteq IdsIn(v)
                        /\ IdsIn(Tail(v)) \subseteq IdsIn(v)
<1>1. IdsIn(v \o w) \subseteq IdsIn(v) \cup IdsIn(w)
  <2>1. \A i \in DOMAIN (v \o w) :
          \/ i \in DOMAIN v /\ (v \o w)[i] = v[i]
          \/ i - Len(v) \in DOMAIN w /\ (v \o w)[i] = w[i - Len(v)]
    OBVIOUS
  <2>. QED BY <2>1 DEF IdsIn
<1>2. ASSUME v # <<>>
      PROVE  Ids(Head(v).rows) \subseteq IdsIn(v) /\ IdsIn(Tail(v)) \subseteq IdsIn(v)
  <2>1. 1 \in DOMAIN v /\ Head(v) = v[1]
    BY <1>2
  <2>2. \A i \in DOMAIN Tail(v) : i + 1 \in DOMAIN v /\ Tail(v)[i] = v[i + 1]
    BY <1>2
  <2>. QED BY <2>1, <2>2 DEF IdsIn
<1>. QED BY <1>1, <1>2

LEMMA IdsOfAppended ==
  ASSUME NEW v \in Seq(BatchSet), NEW batch \in BatchSet
  PROVE  IdsIn(Append(v, batch)) \subseteq IdsIn(v) \cup Ids(batch.rows)
<1>1. \A i \in DOMAIN Append(v, batch) :
        \/ i \in DOMAIN v /\ Append(v, batch)[i] = v[i]
        \/ Append(v, batch)[i] = batch
  OBVIOUS
<1>. QED BY <1>1 DEF IdsIn

LEMMA SplitIds == ASSUME NEW b, NEW rows, Split(b, rows) PROVE IdsIn(b) \subseteq Ids(rows)
BY DEF Split, IdsIn, Ids

LEMMA Passed ==
  ASSUME MirrorAssumption, NEW rows \in RowSets, NEW deferred \in Seq(BatchSet)
  PROVE  /\ Pass(rows, deferred) \in Seq(BatchSet)
         /\ IdsIn(Pass(rows, deferred)) \subseteq Ids(rows) \cup IdsIn(deferred)
<1>. DEFINE first == Batches(Only(rows, Sessions))
            rest == Batches(Only(rows, Bays))
<1>1. /\ first \in Seq(BatchSet) /\ rest \in Seq(BatchSet)
      /\ IdsIn(first) \subseteq Ids(rows) /\ IdsIn(rest) \subseteq Ids(rows)
  <2>1. /\ Only(rows, Sessions) \in RowSets /\ Only(rows, Bays) \in RowSets
        /\ Ids(Only(rows, Sessions)) \subseteq Ids(rows)
        /\ Ids(Only(rows, Bays)) \subseteq Ids(rows)
    BY PartOfRows
  <2>2. /\ first \in Seq(BatchSet) /\ Split(first, Only(rows, Sessions))
        /\ rest \in Seq(BatchSet) /\ Split(rest, Only(rows, Bays))
    BY <2>1, Batched
  <2>3. IdsIn(first) \subseteq Ids(Only(rows, Sessions)) /\ IdsIn(rest) \subseteq Ids(Only(rows, Bays))
    BY <2>2, SplitIds
  <2>. QED BY <2>1, <2>2, <2>3
<1>2. Pass(rows, deferred) = (first \o deferred) \o rest
  BY DEF Pass
<1>. HIDE DEF first, rest
<1>3. first \o deferred \in Seq(BatchSet) /\ (first \o deferred) \o rest \in Seq(BatchSet)
  BY <1>1
<1>4. /\ IdsIn(first \o deferred) \subseteq IdsIn(first) \cup IdsIn(deferred)
      /\ IdsIn((first \o deferred) \o rest) \subseteq IdsIn(first \o deferred) \cup IdsIn(rest)
  BY <1>1, <1>3, IdsOfBatches
<1>. QED BY <1>1, <1>2, <1>3, <1>4

\* A pass without deferred batches splits the rows, and every session is in
\* an earlier batch than any connector.
LEMMA PassedWhole ==
  ASSUME MirrorAssumption, NEW rows \in RowSets
  PROVE  /\ Split(Pass(rows, <<>>), rows)
         /\ \A i \in DOMAIN Pass(rows, <<>>) :
              \A b \in DOMAIN Pass(rows, <<>>)[i].rows \cap Bays, s \in DOMAIN rows \cap Sessions :
                \E j \in DOMAIN Pass(rows, <<>>) : j < i /\ s \in DOMAIN Pass(rows, <<>>)[j].rows
<1>. DEFINE S == Only(rows, Sessions)
            B == Only(rows, Bays)
            first == Batches(S)
            rest == Batches(B)
            P == Pass(rows, <<>>)
<1>1. /\ S \in RowSets /\ DOMAIN S = DOMAIN rows \cap Sessions
      /\ \A k \in DOMAIN rows \cap Sessions : S[k] = rows[k]
      /\ B \in RowSets /\ DOMAIN B = DOMAIN rows \cap Bays
      /\ \A k \in DOMAIN rows \cap Bays : B[k] = rows[k]
  BY PartOfRows
<1>2. /\ first \in Seq(BatchSet) /\ Split(first, S)
      /\ rest \in Seq(BatchSet) /\ Split(rest, B)
  BY <1>1, Batched
<1>3. P = (first \o <<>>) \o rest
  BY DEF Pass
<1>. HIDE DEF first, rest, P, S, B
<1>4. P = first \o rest
  BY <1>2, <1>3
<1>5. \A i \in DOMAIN P :
        \/ i \in DOMAIN first /\ P[i] = first[i]
        \/ i - Len(first) \in DOMAIN rest /\ P[i] = rest[i - Len(first)] /\ i > Len(first)
  BY <1>2, <1>4
<1>6. /\ \A i \in DOMAIN first : i \in DOMAIN P /\ P[i] = first[i] /\ i <= Len(first)
      /\ \A i \in DOMAIN rest : i + Len(first) \in DOMAIN P /\ P[i + Len(first)] = rest[i]
  BY <1>2, <1>4
<1>7. Sessions \cap Bays = {} /\ DOMAIN rows \subseteq Sessions \cup Bays
  BY RowsHold DEF MirrorAssumption, Keys
<1>8. \A i \in DOMAIN first :
        /\ DOMAIN first[i].rows \subseteq DOMAIN rows \cap Sessions
        /\ \A k \in DOMAIN first[i].rows : first[i].rows[k] = rows[k]
  BY <1>1, <1>2 DEF Split
<1>9. \A i \in DOMAIN rest :
        /\ DOMAIN rest[i].rows \subseteq DOMAIN rows \cap Bays
        /\ \A k \in DOMAIN rest[i].rows : rest[i].rows[k] = rows[k]
  BY <1>1, <1>2 DEF Split
<1>10. \A k \in DOMAIN rows \cap Sessions : \E i \in DOMAIN first : k \in DOMAIN first[i].rows
  BY <1>1, <1>2 DEF Split
<1>11. \A k \in DOMAIN rows \cap Bays : \E i \in DOMAIN rest : k \in DOMAIN rest[i].rows
  BY <1>1, <1>2 DEF Split
<1>12. \A i \in DOMAIN P : /\ DOMAIN P[i].rows \subseteq DOMAIN rows
                           /\ \A k \in DOMAIN P[i].rows : P[i].rows[k] = rows[k]
  BY <1>5, <1>8, <1>9
<1>13. \A k \in DOMAIN rows : \E i \in DOMAIN P : k \in DOMAIN P[i].rows
  BY <1>6, <1>7, <1>10, <1>11
<1>14. ASSUME NEW i \in DOMAIN P, NEW j \in DOMAIN P, NEW k \in DOMAIN P[i].rows, k \in DOMAIN P[j].rows
       PROVE  i = j
  <2>1. CASE i \in DOMAIN first /\ P[i] = first[i]
    <3>1. k \in Sessions /\ k \in DOMAIN first[i].rows
      BY <1>8, <1>14, <2>1
    <3>2. j \in DOMAIN first /\ P[j] = first[j]
      BY <1>5, <1>7, <1>9, <1>14, <3>1
    <3>. QED BY <1>2, <1>14, <2>1, <3>1, <3>2 DEF Split
  <2>2. CASE i - Len(first) \in DOMAIN rest /\ P[i] = rest[i - Len(first)]
    <3>1. k \in Bays /\ k \in DOMAIN rest[i - Len(first)].rows
      BY <1>9, <1>14, <2>2
    <3>2. j - Len(first) \in DOMAIN rest /\ P[j] = rest[j - Len(first)]
      BY <1>5, <1>7, <1>8, <1>14, <3>1
    <3>3. i - Len(first) = j - Len(first)
      BY <1>2, <1>14, <2>2, <3>1, <3>2 DEF Split
    <3>4. i \in Int /\ j \in Int /\ Len(first) \in Int
      BY <1>2, <1>4
    <3>. QED BY <3>3, <3>4
  <2>. QED BY <1>5, <2>1, <2>2
<1>15. ASSUME NEW i \in DOMAIN P, NEW b \in DOMAIN P[i].rows \cap Bays,
              NEW s \in DOMAIN rows \cap Sessions
       PROVE  \E j \in DOMAIN P : j < i /\ s \in DOMAIN P[j].rows
  <2>1. i > Len(first)
    BY <1>5, <1>7, <1>8
  <2>2. PICK j \in DOMAIN first : s \in DOMAIN first[j].rows
    BY <1>10
  <2>3. j <= Len(first) /\ j \in DOMAIN P /\ P[j] = first[j]
    BY <1>6
  <2>4. i \in Int /\ j \in Int /\ Len(first) \in Int
    BY <1>2, <1>4
  <2>. QED BY <2>1, <2>2, <2>3, <2>4
<1>16. Split(P, rows)
  BY <1>12, <1>13, <1>14 DEF Split
<1>. QED BY <1>15, <1>16 DEF P

\* A pass over everything queued, when nothing waits, leaves the order as it was.
LEMMA PassArrives ==
  ASSUME MirrorAssumption, NEW rows \in RowSets, NEW d, NEW k, NEW row,
         ArrivesLast(k, row, rows, <<>>, d)
  PROVE  ArrivesLast(k, row, Empty, Pass(rows, <<>>), d)
<1>. DEFINE P == Pass(rows, <<>>)
<1>1. Split(P, rows)
  BY PassedWhole
<1>2. DOMAIN Empty = {}
  BY EmptyIsRows
<1>3. P \in Seq(BatchSet)
  BY Passed, NoBatches
<1>. HIDE DEF P
<1>4. CASE k \in DOMAIN rows /\ rows[k] = row
  <2>1. PICK i \in DOMAIN P : k \in DOMAIN P[i].rows
    BY <1>1, <1>4 DEF Split
  <2>2. P[i].rows[k] = row /\ \A j \in DOMAIN P : k \in DOMAIN P[j].rows => j = i
    BY <1>1, <1>4, <2>1 DEF Split
  <2>3. i \in Nat
    BY <1>3
  <2>4. \A j \in DOMAIN P : k \in DOMAIN P[j].rows => j <= i
    BY <2>2, <2>3
  <2>. QED BY <1>2, <2>1, <2>2, <2>4 DEF ArrivesLast, P
<1>5. CASE k \notin DOMAIN rows /\ k \in DOMAIN d /\ d[k] = row
  BY <1>1, <1>2, <1>5 DEF Split, ArrivesLast, P
<1>. QED BY <1>4, <1>5 DEF ArrivesLast

LEMMA PassKeepsParents ==
  ASSUME MirrorAssumption, NEW rows \in RowSets, NEW d, ParentsFirst(rows, <<>>, d)
  PROVE  ParentsFirst(Empty, Pass(rows, <<>>), d)
<1>. DEFINE P == Pass(rows, <<>>)
<1>1. /\ Split(P, rows)
      /\ \A i \in DOMAIN P : \A b \in DOMAIN P[i].rows \cap Bays, s \in DOMAIN rows \cap Sessions :
           \E j \in DOMAIN P : j < i /\ s \in DOMAIN P[j].rows
  BY PassedWhole
<1>. HIDE DEF P
<1>2. ASSUME NEW i \in DOMAIN P, NEW b \in DOMAIN P[i].rows \cap Bays
      PROVE  P[i].rows[b].ref = NoSession \/ Before(P[i].rows[b].ref, i, P, d)
  <2>1. b \in DOMAIN rows \cap Bays /\ P[i].rows[b] = rows[b]
    BY <1>1, <1>2 DEF Split
  <2>2. rows[b].ref \in Sessions \cup {NoSession}
    BY <2>1, RowsHold DEF MirrorAssumption, RowsOf, ConnectorRows
  <2>3. rows[b].ref = NoSession \/ rows[b].ref \in DOMAIN rows \/ rows[b].ref \in DOMAIN d
    BY <2>1 DEF ParentsFirst, Before
  <2>. QED BY <1>1, <2>1, <2>2, <2>3 DEF Before
<1>. QED BY <1>2, EmptyIsRows DEF ParentsFirst, P

-----------------------------------------------------------------------------
(* The drain goes on.                                                      *)

LEMMA Going ==
  ASSUME MirrorAssumption, Typed, NEW left \in Seq(BatchSet), NEW deferred \in Seq(BatchSet),
         \A i \in DOMAIN deferred : deferred[i].deferrals # 0,
         left # <<>> => draining, TakeNext(left, deferred)
  PROVE  /\ tables' \in RowSets /\ work' \in Seq(BatchSet) /\ retries' \in Seq(BatchSet)
         /\ \A i \in DOMAIN retries' : retries'[i].deferrals # 0
         /\ draining' = (work' # <<>>) /\ draining' \in BOOLEAN
         /\ tables' # Empty => draining'
         /\ Ids(tables') \subseteq Ids(tables)
         /\ IdsIn(work') \subseteq IdsIn(left) \cup Ids(tables) \cup IdsIn(deferred)
         /\ IdsIn(retries') \subseteq IdsIn(deferred)
<1>1. CASE left # <<>>
  BY <1>1 DEF TakeNext, Typed
<1>2. CASE left = <<>>
  <2>1. /\ work' = Pass(tables, deferred) /\ tables' = Empty /\ retries' = <<>>
        /\ draining' = (work' # <<>>)
    BY <1>2 DEF TakeNext
  <2>2. /\ work' \in Seq(BatchSet)
        /\ IdsIn(work') \subseteq Ids(tables) \cup IdsIn(deferred)
    BY <2>1, Passed DEF Typed
  <2>3. retries' \in Seq(BatchSet) /\ IdsIn(retries') = {} /\ \A i \in DOMAIN retries' : FALSE
    BY <2>1, NoBatches
  <2>4. tables' \in RowSets /\ Ids(tables') = {}
    BY <2>1, EmptyIsRows
  <2>5. draining' \in BOOLEAN
    BY <2>1
  <2>. QED BY <2>1, <2>2, <2>3, <2>4, <2>5
<1>. QED BY <1>1, <1>2

LEMMA GoingOn ==
  ASSUME MirrorAssumption, Typed, NEW left \in Seq(BatchSet), TakeNext(left, <<>>),
         NEW d, ParentsFirst(tables, left, d)
  PROVE  /\ ParentsFirst(tables', work', d) /\ retries' = <<>>
         /\ \A k, row : ArrivesLast(k, row, tables, left, d) => ArrivesLast(k, row, tables', work', d)
<1>1. CASE left # <<>>
  BY <1>1 DEF TakeNext
<1>2. CASE left = <<>>
  <2>1. work' = Pass(tables, <<>>) /\ tables' = Empty /\ retries' = <<>>
    BY <1>2 DEF TakeNext
  <2>. QED BY <1>2, <2>1, PassArrives, PassKeepsParents DEF Typed
<1>. QED BY <1>1, <1>2

\* A batch that lands leaves the order of what follows as it was.
LEMMA LandingKeepsOrder ==
  ASSUME NEW t, NEW w \in Seq(BatchSet), w # <<>>, NEW d \in RowSets
  PROVE  /\ ParentsFirst(t, w, d) => ParentsFirst(t, Tail(w), Over(Head(w).rows, d))
         /\ \A k, row : ArrivesLast(k, row, t, w, d) =>
                          ArrivesLast(k, row, t, Tail(w), Over(Head(w).rows, d))
<1>. DEFINE head == Head(w).rows
            after == Over(head, d)
<1>1. /\ head = w[1].rows /\ 1 \in DOMAIN w /\ w[1] \in BatchSet
      /\ Len(w) \in Nat /\ Len(Tail(w)) = Len(w) - 1
  OBVIOUS
<1>2. /\ DOMAIN Tail(w) = 1..(Len(w) - 1) /\ DOMAIN w = 1..Len(w)
      /\ \A i \in DOMAIN Tail(w) : i + 1 \in DOMAIN w /\ Tail(w)[i] = w[i + 1]
      /\ \A i \in DOMAIN w : i = 1 \/ (i - 1 \in DOMAIN Tail(w) /\ w[i] = Tail(w)[i - 1])
  OBVIOUS
<1>3. head \in RowSets
  BY <1>1 DEF BatchSet
<1>4. /\ DOMAIN after = DOMAIN head \cup DOMAIN d
      /\ \A k \in DOMAIN head : after[k] = head[k]
      /\ \A k \in DOMAIN d \ DOMAIN head : after[k] = d[k]
  BY <1>3, Overlaid
<1>. HIDE DEF head, after
<1>5. ASSUME NEW s, NEW i \in Nat, Before(s, i + 1, w, d)
      PROVE  Before(s, i, Tail(w), after)
  <2>1. CASE s \in DOMAIN d
    BY <1>4, <2>1 DEF Before
  <2>2. ASSUME NEW j \in DOMAIN w, j < i + 1, s \in DOMAIN w[j].rows
        PROVE  Before(s, i, Tail(w), after)
    <3>1. CASE j = 1
      BY <1>1, <1>4, <2>2, <3>1 DEF Before
    <3>2. CASE j # 1
      <4>1. j - 1 \in DOMAIN Tail(w) /\ w[j] = Tail(w)[j - 1]
        BY <1>2, <3>2
      <4>2. j - 1 < i
        BY <1>2, <2>2
      <4>. QED BY <2>2, <4>1, <4>2 DEF Before
    <3>. QED BY <3>1, <3>2
  <2>. QED BY <1>5, <2>1, <2>2 DEF Before
<1>6. ASSUME ParentsFirst(t, w, d)
      PROVE  ParentsFirst(t, Tail(w), after)
  <2>1. ASSUME NEW i \in DOMAIN Tail(w), NEW b \in DOMAIN Tail(w)[i].rows \cap Bays
        PROVE  Tail(w)[i].rows[b].ref = NoSession \/ Before(Tail(w)[i].rows[b].ref, i, Tail(w), after)
    <3>1. i + 1 \in DOMAIN w /\ Tail(w)[i] = w[i + 1] /\ i \in Nat
      BY <1>2
    <3>2. w[i + 1].rows[b].ref = NoSession \/ Before(w[i + 1].rows[b].ref, i + 1, w, d)
      BY <1>6, <2>1, <3>1 DEF ParentsFirst
    <3>. QED BY <1>5, <3>1, <3>2
  <2>2. ASSUME NEW b \in DOMAIN t \cap Bays
        PROVE  \/ t[b].ref = NoSession \/ t[b].ref \in DOMAIN t
               \/ Before(t[b].ref, Len(Tail(w)) + 1, Tail(w), after)
    <3>1. Before(t[b].ref, Len(w) + 1, w, d) => Before(t[b].ref, Len(w), Tail(w), after)
      BY <1>1, <1>5
    <3>2. Len(Tail(w)) + 1 = Len(w)
      BY <1>1
    <3>. QED BY <1>6, <3>1, <3>2 DEF ParentsFirst
  <2>. QED BY <2>1, <2>2 DEF ParentsFirst
<1>7. ASSUME NEW k, NEW row, ArrivesLast(k, row, t, w, d)
      PROVE  ArrivesLast(k, row, t, Tail(w), after)
  <2>1. CASE k \in DOMAIN t /\ t[k] = row
    BY <2>1 DEF ArrivesLast
  <2>2. ASSUME k \notin DOMAIN t,
               NEW i \in DOMAIN w, k \in DOMAIN w[i].rows, w[i].rows[k] = row,
               \A j \in DOMAIN w : k \in DOMAIN w[j].rows => j <= i
        PROVE  ArrivesLast(k, row, t, Tail(w), after)
    <3>1. CASE i = 1
      <4>1. \A j \in DOMAIN Tail(w) : k \notin DOMAIN Tail(w)[j].rows
        BY <1>2, <2>2, <3>1
      <4>2. k \in DOMAIN after /\ after[k] = row
        BY <1>1, <1>4, <2>2, <3>1
      <4>. QED BY <2>2, <4>1, <4>2 DEF ArrivesLast
    <3>2. CASE i # 1
      <4>1. i - 1 \in DOMAIN Tail(w) /\ Tail(w)[i - 1] = w[i]
        BY <1>2, <3>2
      <4>2. \A j \in DOMAIN Tail(w) : k \in DOMAIN Tail(w)[j].rows => j <= i - 1
        BY <1>2, <2>2
      <4>. QED BY <2>2, <4>1, <4>2 DEF ArrivesLast
    <3>. QED BY <3>1, <3>2
  <2>3. CASE /\ k \notin DOMAIN t /\ \A j \in DOMAIN w : k \notin DOMAIN w[j].rows
             /\ k \in DOMAIN d /\ d[k] = row
    <3>1. \A j \in DOMAIN Tail(w) : k \notin DOMAIN Tail(w)[j].rows
      BY <1>2, <2>3
    <3>2. k \in DOMAIN after /\ after[k] = row
      BY <1>1, <1>4, <2>3
    <3>. QED BY <2>3, <3>1, <3>2 DEF ArrivesLast
  <2>. QED BY <1>7, <2>1, <2>2, <2>3 DEF ArrivesLast
<1>. QED BY <1>6, <1>7 DEF after, head

-----------------------------------------------------------------------------
(* Writes to memory.                                                       *)

\* A change that is not shed is in the queue as it is in memory.
LEMMA Queued ==
  ASSUME NEW t \in RowSets, NEW l \in BOOLEAN, NEW k \in Keys, NEW row \in RowsOf(k)
  PROVE  LET q == Enqueue([tables |-> t, lost |-> l], Change(k, row))
         IN \/ q = [tables |-> t, lost |-> TRUE]
            \/ q = [tables |-> Put(t, Change(k, row)), lost |-> l]
BY DEF Enqueue

LEMMA PutKeepsOrder ==
  ASSUME NEW m \in RowSets, NEW t \in RowSets, NEW w, NEW d,
         NEW k \in Keys, NEW row \in RowsOf(k),
         \A x \in DOMAIN m : ArrivesLast(x, m[x], t, w, d)
  PROVE  \A x \in DOMAIN Put(m, Change(k, row)) :
           ArrivesLast(x, Put(m, Change(k, row))[x], Put(t, Change(k, row)), w, d)
<1>. DEFINE M == Put(m, Change(k, row))
            T == Put(t, Change(k, row))
<1>1. /\ DOMAIN M = DOMAIN m \cup {k} /\ DOMAIN T = DOMAIN t \cup {k}
      /\ M[k] = row /\ T[k] = row
      /\ \A other \in DOMAIN m \ {k} : M[other] = m[other]
      /\ \A other \in DOMAIN t \ {k} : T[other] = t[other]
  <2>1. /\ DOMAIN M = DOMAIN m \cup {k} /\ M[k] = row
        /\ \A other \in DOMAIN m \ {k} : M[other] = m[other]
    BY DEF Put, Over, Change
  <2>2. /\ DOMAIN T = DOMAIN t \cup {k} /\ T[k] = row
        /\ \A other \in DOMAIN t \ {k} : T[other] = t[other]
    BY DEF Put, Over, Change
  <2>. QED BY <2>1, <2>2
<1>. HIDE DEF M, T
<1>2. ASSUME NEW x \in DOMAIN M
      PROVE  ArrivesLast(x, M[x], T, w, d)
  <2>1. CASE x = k
    BY <1>1, <2>1 DEF ArrivesLast
  <2>2. CASE x # k
    <3>1. ArrivesLast(x, m[x], t, w, d) /\ M[x] = m[x]
      BY <1>1, <2>2
    <3>2. x \in DOMAIN T <=> x \in DOMAIN t
      BY <1>1, <2>2
    <3>3. x \in DOMAIN t => T[x] = t[x]
      BY <1>1, <2>2
    <3>. QED BY <3>1, <3>2, <3>3 DEF ArrivesLast
  <2>. QED BY <2>1, <2>2
<1>. QED BY <1>2 DEF M, T

LEMMA PutKeepsParents ==
  ASSUME MirrorAssumption, NEW t \in RowSets, NEW w, NEW d,
         NEW k \in Keys, NEW row \in RowsOf(k), ParentsFirst(t, w, d),
         k \in Bays => row.ref = NoSession \/ row.ref \in DOMAIN t
  PROVE  ParentsFirst(Put(t, Change(k, row)), w, d)
<1>. DEFINE T == Put(t, Change(k, row))
<1>1. /\ DOMAIN T = DOMAIN t \cup {k} /\ T[k] = row
      /\ \A other \in DOMAIN t \ {k} : T[other] = t[other]
  BY DEF Put, Over, Change
<1>. HIDE DEF T
<1>2. ASSUME NEW b \in DOMAIN T \cap Bays
      PROVE  T[b].ref = NoSession \/ T[b].ref \in DOMAIN T \/ Before(T[b].ref, Len(w) + 1, w, d)
  <2>1. CASE b = k
    BY <1>1, <2>1
  <2>2. CASE b # k
    BY <1>1, <2>2 DEF ParentsFirst
  <2>. QED BY <2>1, <2>2
<1>. QED BY <1>2 DEF ParentsFirst, T

\* What a save makes of types, ids and order, from what it puts where.
LEMMA Saving ==
  ASSUME MirrorAssumption, IInv, NEW count \in {1, 2},
         NEW saved \in RowSets, NEW queued \in RowSets, NEW losing \in BOOLEAN,
         Save(count, saved, [tables |-> queued, lost |-> losing]),
         counter' \in 0..(writes + count), faults' \in 0..MaxFaults,
         losing = FALSE =>
           /\ lost = FALSE
           /\ NothingOvertakes /\ Complete =>
                /\ \A k \in DOMAIN saved : ArrivesLast(k, saved[k], queued, work, db)
                /\ ParentsFirst(queued, work, db)
  PROVE  /\ up' /\ DownIsEmpty' /\ NothingOvertakes'
         /\ Typed'
         /\ writes' = writes + count
<1>1. /\ up /\ up' = up /\ mem' = saved /\ writes' = writes + count /\ writes' <= MaxWrites
      /\ UNCHANGED <<work, retries, draining, stop, blind, db>>
  BY DEF Save
<1>2. CASE stop = "stopped"
  <2>1. UNCHANGED <<tables, lost, timer>>
    BY <1>2 DEF Save
  <2>2. ~Complete'
    BY <1>1, <1>2 DEF Complete
  <2>. QED BY <1>1, <2>1, <2>2 DEF IInv, Typed, DownIsEmpty, NothingOvertakes, MirrorAssumption
<1>3. CASE stop # "stopped"
  <2>1. tables' = queued /\ lost' = losing /\ timer' = (timer \/ ~draining)
    BY <1>3 DEF Save
  <2>2. Typed'
    <3>1. /\ timer' \in BOOLEAN /\ (timer' => ~draining')
          /\ tables' # Empty => timer' \/ draining'
      BY <1>1, <2>1 DEF IInv, Typed
    <3>2. mem' \in RowSets /\ tables' \in RowSets /\ lost' \in BOOLEAN
      BY <1>1, <2>1
    <3>3. writes' \in 0..MaxWrites /\ counter' \in 0..writes'
      BY <1>1 DEF IInv, Typed, MirrorAssumption
    <3>4. /\ db' \in RowSets /\ work' \in Seq(BatchSet) /\ retries' \in Seq(BatchSet)
          /\ \A i \in DOMAIN retries' : retries'[i].deferrals # 0
      BY <1>1 DEF IInv, Typed
    <3>5. /\ draining' \in BOOLEAN /\ up' \in BOOLEAN /\ blind' \in BOOLEAN
          /\ draining' = (work' # <<>>) /\ stop' \in {"no", "flushing", "stopped"}
      BY <1>1 DEF IInv, Typed
    <3>. QED BY <3>1, <3>2, <3>3, <3>4, <3>5 DEF Typed
  <2>3. ASSUME Complete'
        PROVE  /\ retries' = <<>>
               /\ \A k \in DOMAIN mem' : ArrivesLast(k, mem'[k], tables', work', db')
               /\ ParentsFirst(tables', work', db')
    <3>1. losing = FALSE /\ Complete
      BY <1>1, <1>3, <2>1, <2>3 DEF Complete
    <3>2. NothingOvertakes /\ retries = <<>>
      BY <3>1 DEF IInv, NothingOvertakes
    <3>. QED BY <1>1, <2>1, <3>1, <3>2
  <2>. QED BY <1>1, <2>2, <2>3 DEF NothingOvertakes, DownIsEmpty
<1>. QED BY <1>2, <1>3

\* Every id is a pair of a session and the number of a write.
LEMMA IdsAreNumbers ==
  ASSUME MirrorAssumption, Typed
  PROVE  /\ \A p \in AllIds : p[2] \in 1..MaxWrites
         /\ Ids(db) \subseteq AllIds
<1>1. \A rows \in RowSets : \A p \in Ids(rows) : p[2] \in 1..MaxWrites
  BY DEF RowSets, RowsOf, SessionRows, Ids
<1>2. \A batches \in Seq(BatchSet) : \A p \in IdsIn(batches) : p[2] \in 1..MaxWrites
  <2>1. \A batches \in Seq(BatchSet) : \A i \in DOMAIN batches : batches[i].rows \in RowSets
    <3>1. \A batches \in Seq(BatchSet) : \A i \in DOMAIN batches : batches[i] \in BatchSet
      OBVIOUS
    <3>. QED BY <3>1 DEF BatchSet
  <2>. QED BY <1>1, <2>1 DEF IdsIn
<1>. QED BY <1>1, <1>2 DEF AllIds, Typed

\* Ids that come from what is there, and at most a new one, stay distinct.
LEMMA IdsStay ==
  ASSUME MirrorAssumption, IInv, up, up' = up, blind' = blind, db' = db,
         writes' \in Nat, writes <= writes',
         NEW new, AllIds' \subseteq AllIds \cup new,
         \/ new = {} /\ counter' = counter
         \/ /\ counter' = counter + 1 /\ counter' <= writes'
            /\ \A p \in new : p[2] = counter + 1
            /\ \A p, q \in new : p[1] = q[1]
  PROVE  IdsAreIssued'
<1>1. /\ \A p \in AllIds : p[2] \in Nat /\ p[2] <= writes
      /\ counter \in Nat /\ writes \in Nat
  BY IdsAreNumbers DEF IInv, IdsAreIssued, Typed, MirrorAssumption
<1>2. Ids(db') = Ids(db) /\ Distinct(Ids(db))
  BY DEF IInv, IdsAreIssued
<1>3. ASSUME NEW p \in AllIds' PROVE p[2] <= writes'
  BY <1>1, <1>3
<1>4. ASSUME ~blind
      PROVE  Distinct(AllIds') /\ \A p \in AllIds' : p[2] <= counter'
  <2>1. Distinct(AllIds) /\ \A p \in AllIds : p[2] <= counter
    BY <1>4 DEF IInv, IdsAreIssued
  <2>2. CASE new = {} /\ counter' = counter
    BY <2>1, <2>2 DEF Distinct
  <2>3. CASE /\ counter' = counter + 1 /\ \A p \in new : p[2] = counter + 1
             /\ \A p, q \in new : p[1] = q[1]
    <3>1. \A p \in AllIds' : p[2] <= counter'
      BY <1>1, <2>1, <2>3
    <3>2. \A p \in AllIds : p[2] # counter + 1
      BY <1>1, <2>1
    <3>3. Distinct(AllIds')
      BY <2>1, <2>3, <3>2 DEF Distinct
    <3>. QED BY <3>1, <3>3
  <2>. QED BY <2>2, <2>3
<1>. QED BY <1>2, <1>3, <1>4 DEF IdsAreIssued

LEMMA OneWrite ==
  ASSUME MirrorAssumption, IInv, NEW s \in Sessions, NEW row \in SessionRows,
         <<s, row.tx>> \in Ids(mem), SaveOne(Change(s, row)), UNCHANGED <<counter, faults>>
  PROVE  IInv'
<1>. DEFINE change == Change(s, row)
<1>1. s \in Keys /\ row \in RowsOf(s) /\ s \notin Bays
  BY DEF Keys, RowsOf, MirrorAssumption
<1>2. /\ mem \in RowSets /\ tables \in RowSets /\ lost \in BOOLEAN
      /\ writes \in Nat /\ counter \in 0..writes
  BY DEF IInv, Typed, MirrorAssumption
<1>3. /\ Put(mem, change) \in RowSets
      /\ Ids(Put(mem, change)) \subseteq Ids(mem) \cup {<<s, row.tx>>}
  BY <1>1, <1>2, OneSaved DEF NewIds
<1>4. /\ Put(tables, change) \in RowSets
      /\ Ids(Put(tables, change)) \subseteq Ids(tables) \cup {<<s, row.tx>>}
  BY <1>1, <1>2, OneSaved DEF NewIds
<1>5. PICK queued \in RowSets, losing \in BOOLEAN :
        /\ Enqueue(Queue, change) = [tables |-> queued, lost |-> losing]
        /\ \/ queued = tables /\ losing = TRUE
           \/ queued = Put(tables, change) /\ losing = lost
  BY <1>1, <1>2, <1>4, Queued DEF Queue
<1>. HIDE DEF change
<1>6. Save(1, Put(mem, change), [tables |-> queued, lost |-> losing])
  BY <1>5 DEF SaveOne, change
<1>7. ASSUME losing = FALSE, NothingOvertakes, Complete
      PROVE  /\ \A k \in DOMAIN Put(mem, change) : ArrivesLast(k, Put(mem, change)[k], queued, work, db)
             /\ ParentsFirst(queued, work, db)
  <2>1. /\ \A k \in DOMAIN mem : ArrivesLast(k, mem[k], tables, work, db)
        /\ ParentsFirst(tables, work, db) /\ queued = Put(tables, change)
    BY <1>5, <1>7 DEF NothingOvertakes
  <2>. QED BY <1>1, <1>2, <2>1, PutKeepsOrder, PutKeepsParents DEF change
<1>8. losing = FALSE => lost = FALSE
  BY <1>5
<1>9. Typed' /\ DownIsEmpty' /\ NothingOvertakes' /\ writes' = writes + 1
  <2>1. counter' \in 0..(writes + 1) /\ faults' \in 0..MaxFaults
    BY <1>2 DEF IInv, Typed
  <2>. QED BY <1>3, <1>5, <1>6, <1>7, <1>8, <2>1, Saving
<1>10. IdsAreIssued'
  <2>1. /\ up /\ up' = up /\ blind' = blind /\ db' = db /\ work' = work /\ retries' = retries
        /\ mem' = Put(mem, change) /\ tables' \in {tables, queued}
    BY <1>6 DEF Save
  <2>2. Ids(mem') \subseteq AllIds /\ Ids(tables') \subseteq AllIds
    BY <1>3, <1>4, <1>5, <2>1 DEF AllIds
  <2>3. AllIds' \subseteq AllIds \cup {}
    BY <2>1, <2>2 DEF AllIds
  <2>4. writes' \in Nat /\ writes <= writes'
    BY <1>2, <1>9
  <2>. QED BY <2>1, <2>3, <2>4, IdsStay
<1>. QED BY <1>9, <1>10 DEF IInv

\* A session's row and then a connector's, which names that session or none.
LEMMA TwoWrites ==
  ASSUME MirrorAssumption, IInv, NEW s \in Sessions, NEW row \in SessionRows,
         NEW b \in Bays, NEW connector \in ConnectorRows, connector.ref \in {s, NoSession},
         \/ <<s, row.tx>> \in Ids(mem) /\ counter' = counter
         \/ row.tx = counter + 1 /\ counter' = counter + 1,
         SaveTwo(Change(s, row), Change(b, connector)), faults' \in 0..MaxFaults
  PROVE  IInv'
<1>. DEFINE first == Change(s, row)
            second == Change(b, connector)
<1>1. /\ s \in Keys /\ row \in RowsOf(s) /\ s \notin Bays
      /\ b \in Keys /\ connector \in RowsOf(b) /\ b \notin Sessions
  BY DEF Keys, RowsOf, MirrorAssumption
<1>2. /\ mem \in RowSets /\ tables \in RowSets /\ lost \in BOOLEAN
      /\ writes \in Nat /\ counter \in 0..writes
  BY DEF IInv, Typed, MirrorAssumption
<1>3. ASSUME NEW f \in RowSets
      PROVE  /\ Put(f, first) \in RowSets /\ Put(Put(f, first), second) \in RowSets
             /\ s \in DOMAIN Put(f, first)
             /\ Ids(Put(f, first)) \subseteq Ids(f) \cup {<<s, row.tx>>}
             /\ Ids(Put(Put(f, first), second)) \subseteq Ids(f) \cup {<<s, row.tx>>}
  <2>1. /\ Put(f, first) \in RowSets /\ s \in DOMAIN Put(f, first)
        /\ Ids(Put(f, first)) \subseteq Ids(f) \cup {<<s, row.tx>>}
    <3>1. /\ Put(f, first) \in RowSets
          /\ Ids(Put(f, first)) \subseteq Ids(f) \cup NewIds(s, row)
      BY <1>1, OneSaved
    <3>2. NewIds(s, row) = {<<s, row.tx>>}
      BY DEF NewIds
    <3>3. s \in DOMAIN Put(f, first)
      BY DEF Put, Over, Change
    <3>. HIDE DEF first
    <3>. QED BY <3>1, <3>2, <3>3
  <2>. HIDE DEF first
  <2>2. /\ Put(Put(f, first), second) \in RowSets
        /\ Ids(Put(Put(f, first), second)) \subseteq Ids(Put(f, first))
    BY <1>1, <2>1, OneSaved DEF NewIds
  <2>. QED BY <2>1, <2>2
<1>4. PICK queued \in RowSets, losing \in BOOLEAN :
        /\ Enqueue(Enqueue(Queue, first), second) = [tables |-> queued, lost |-> losing]
        /\ Ids(queued) \subseteq Ids(tables) \cup {<<s, row.tx>>}
        /\ losing = FALSE => lost = FALSE /\ queued = Put(Put(tables, first), second)
  <2>1. PICK t \in RowSets, l \in BOOLEAN :
          /\ Enqueue(Queue, first) = [tables |-> t, lost |-> l]
          /\ \/ t = tables /\ l = TRUE
             \/ t = Put(tables, first) /\ l = lost
    BY <1>1, <1>2, <1>3, Queued DEF Queue
  <2>2. Ids(t) \subseteq Ids(tables) \cup {<<s, row.tx>>}
    BY <1>2, <1>3, <2>1
  <2>. HIDE DEF first
  <2>3. Put(t, second) \in RowSets /\ Ids(Put(t, second)) \subseteq Ids(t)
    BY <1>1, OneSaved DEF NewIds
  <2>4. \/ Enqueue(Enqueue(Queue, first), second) = [tables |-> t, lost |-> TRUE]
        \/ Enqueue(Enqueue(Queue, first), second) = [tables |-> Put(t, second), lost |-> l]
    BY <1>1, <2>1, Queued
  <2>. HIDE DEF second
  <2>5. CASE Enqueue(Enqueue(Queue, first), second) = [tables |-> t, lost |-> TRUE]
    BY <2>2, <2>5
  <2>6. CASE Enqueue(Enqueue(Queue, first), second) = [tables |-> Put(t, second), lost |-> l]
    BY <2>1, <2>2, <2>3, <2>6
  <2>. QED BY <2>4, <2>5, <2>6
<1>5. Save(2, Put(Put(mem, first), second), [tables |-> queued, lost |-> losing])
  BY <1>4 DEF SaveTwo
<1>6. ASSUME losing = FALSE, NothingOvertakes, Complete
      PROVE  /\ \A k \in DOMAIN Put(Put(mem, first), second) :
                  ArrivesLast(k, Put(Put(mem, first), second)[k], queued, work, db)
             /\ ParentsFirst(queued, work, db)
  <2>1. /\ \A k \in DOMAIN mem : ArrivesLast(k, mem[k], tables, work, db)
        /\ ParentsFirst(tables, work, db) /\ queued = Put(Put(tables, first), second)
    BY <1>4, <1>6 DEF NothingOvertakes
  <2>2. Put(mem, first) \in RowSets /\ Put(tables, first) \in RowSets /\ s \in DOMAIN Put(tables, first)
    BY <1>2, <1>3
  <2>3. \A k \in DOMAIN Put(mem, first) :
          ArrivesLast(k, Put(mem, first)[k], Put(tables, first), work, db)
    BY <1>1, <1>2, <2>1, PutKeepsOrder
  <2>4. ParentsFirst(Put(tables, first), work, db)
    BY <1>1, <1>2, <2>1, PutKeepsParents
  <2>. HIDE DEF first
  <2>5. \A k \in DOMAIN Put(Put(mem, first), second) :
          ArrivesLast(k, Put(Put(mem, first), second)[k], Put(Put(tables, first), second), work, db)
    BY <1>1, <2>2, <2>3, PutKeepsOrder
  <2>6. ParentsFirst(Put(Put(tables, first), second), work, db)
    BY <1>1, <2>2, <2>4, PutKeepsParents
  <2>. QED BY <2>1, <2>5, <2>6
<1>. HIDE DEF first, second
<1>7. Typed' /\ DownIsEmpty' /\ NothingOvertakes' /\ writes' = writes + 2
  <2>1. counter' \in 0..(writes + 2)
    BY <1>2
  <2>2. Put(Put(mem, first), second) \in RowSets
    BY <1>2, <1>3
  <2>. QED BY <1>4, <1>5, <1>6, <2>1, <2>2, Saving
<1>8. IdsAreIssued'
  <2>1. /\ up /\ up' = up /\ blind' = blind /\ db' = db /\ work' = work /\ retries' = retries
        /\ mem' = Put(Put(mem, first), second) /\ tables' \in {tables, queued}
    BY <1>5 DEF Save
  <2>. DEFINE new == IF counter' = counter THEN {} ELSE {<<s, row.tx>>}
  <2>2. {<<s, row.tx>>} \subseteq Ids(mem) \cup new
    BY <1>2
  <2>3. Ids(mem') \subseteq AllIds \cup new /\ Ids(tables') \subseteq AllIds \cup new
    BY <1>2, <1>3, <1>4, <2>1, <2>2 DEF AllIds
  <2>4. AllIds' \subseteq AllIds \cup new
    BY <2>1, <2>3 DEF AllIds
  <2>5. writes' \in Nat /\ writes <= writes'
    BY <1>2, <1>7
  <2>6. \/ new = {} /\ counter' = counter
        \/ /\ counter' = counter + 1 /\ counter' <= writes'
           /\ \A p \in new : p[2] = counter + 1
           /\ \A p, q \in new : p[1] = q[1]
    BY <1>2, <1>7
  <2>. HIDE DEF new
  <2>. QED BY <2>1, <2>4, <2>5, <2>6, IdsStay
<1>. QED BY <1>7, <1>8 DEF IInv

LEMMA Starting ==
  ASSUME MirrorAssumption, IInv, NEW s \in Sessions, NEW b \in Bays, Start(s, b)
  PROVE  IInv'
<1>1. PICK valid \in BOOLEAN :
        /\ SaveTwo(Change(s, SessionRow(writes + 1, "active", counter + 1, b, valid)),
                   Change(b, ConnectorRow(writes + 2, s)))
        /\ IF valid THEN UNCHANGED faults ELSE faults < MaxFaults /\ faults' = faults + 1
  BY DEF Start
<1>2. writes + 2 <= MaxWrites
  BY <1>1 DEF SaveTwo, Save
<1>3. /\ writes \in Nat /\ MaxWrites \in Nat /\ counter \in 0..writes /\ faults \in 0..MaxFaults
      /\ MaxFaults \in Nat
  BY DEF IInv, Typed, MirrorAssumption
<1>4. counter + 1 \in 1..MaxWrites /\ writes + 1 \in 1..MaxWrites /\ writes + 2 \in 1..MaxWrites
  BY <1>2, <1>3
<1>5. SessionRow(writes + 1, "active", counter + 1, b, valid) \in SessionRows
  BY <1>4 DEF SessionRow, SessionRows
<1>6. /\ ConnectorRow(writes + 2, s) \in ConnectorRows
      /\ ConnectorRow(writes + 2, s).ref = s
  BY <1>4 DEF ConnectorRow, ConnectorRows
<1>7. /\ SessionRow(writes + 1, "active", counter + 1, b, valid).tx = counter + 1
      /\ counter' = counter + 1 /\ faults' \in 0..MaxFaults
  BY <1>1, <1>3 DEF SessionRow, Start
<1>. QED BY <1>1, <1>5, <1>6, <1>7, TwoWrites

\* The row of a session in memory that is active.
LEMMA ActiveRow ==
  ASSUME MirrorAssumption, IInv, NEW s \in Sessions, s \in DOMAIN mem,
         NEW ver \in 1..MaxWrites
  PROVE  /\ [mem[s] EXCEPT !.ver = ver, !.valid = TRUE] \in SessionRows
         /\ [mem[s] EXCEPT !.ver = ver, !.valid = TRUE].tx = mem[s].tx
         /\ [mem[s] EXCEPT !.ver = ver, !.status = "complete"] \in SessionRows
         /\ [mem[s] EXCEPT !.ver = ver, !.status = "complete"].tx = mem[s].tx
         /\ mem[s].ref \in Bays /\ <<s, mem[s].tx>> \in Ids(mem)
<1>1. mem[s] \in SessionRows
  BY RowsHold DEF IInv, Typed, RowsOf
<1>. QED BY <1>1 DEF SessionRows, Ids

LEMMA Metering ==
  ASSUME MirrorAssumption, IInv, NEW s \in Sessions, Meter(s)
  PROVE  IInv'
<1>1. writes + 1 \in 1..MaxWrites
  BY DEF Meter, SaveOne, Save, IInv, Typed, MirrorAssumption
<1>2. s \in DOMAIN mem /\ UNCHANGED <<counter, faults>>
      /\ SaveOne(Change(s, [mem[s] EXCEPT !.ver = writes + 1, !.valid = TRUE]))
  BY DEF Meter
<1>. QED BY <1>1, <1>2, ActiveRow, OneWrite

LEMMA Finishing ==
  ASSUME MirrorAssumption, IInv, NEW s \in Sessions, Finish(s)
  PROVE  IInv'
<1>1. writes + 1 \in 1..MaxWrites /\ writes + 2 \in 1..MaxWrites
  BY DEF Finish, SaveTwo, Save, IInv, Typed, MirrorAssumption
<1>2. /\ s \in DOMAIN mem /\ counter' = counter /\ faults' = faults
      /\ SaveTwo(Change(s, [mem[s] EXCEPT !.ver = writes + 1, !.status = "complete"]),
                 Change(mem[s].ref, ConnectorRow(writes + 2, NoSession)))
  BY DEF Finish
<1>3. /\ ConnectorRow(writes + 2, NoSession) \in ConnectorRows
      /\ ConnectorRow(writes + 2, NoSession).ref = NoSession
  BY <1>1 DEF ConnectorRow, ConnectorRows
<1>4. /\ [mem[s] EXCEPT !.ver = writes + 1, !.status = "complete"] \in SessionRows
      /\ <<s, [mem[s] EXCEPT !.ver = writes + 1, !.status = "complete"].tx>> \in Ids(mem)
      /\ mem[s].ref \in Bays
  BY <1>1, <1>2, ActiveRow
<1>5. faults' \in 0..MaxFaults
  BY <1>2 DEF IInv, Typed
<1>. QED BY <1>2, <1>3, <1>4, <1>5, TwoWrites

-----------------------------------------------------------------------------
(* The drain.                                                              *)

\* Postgres never holds one transaction id twice.
LEMMA Landed ==
  ASSUME NEW rows \in RowSets, Typed, Distinct(Ids(db)), ~ViolatesCheck(rows)
  PROVE  /\ Upserted(rows) \in RowSets /\ Distinct(Ids(Upserted(rows)))
         /\ Ids(Upserted(rows)) \subseteq Ids(rows) \cup Ids(db)
<1>. DEFINE after == Upserted(rows)
<1>1. /\ after \in RowSets /\ Ids(after) \subseteq Ids(rows) \cup Ids(db)
      /\ DOMAIN after = DOMAIN rows \cup DOMAIN db
      /\ \A k \in DOMAIN rows : after[k] = rows[k]
      /\ \A k \in DOMAIN db \ DOMAIN rows : after[k] = db[k]
  BY Overlaid DEF Upserted, Typed
<1>2. \A s \in DOMAIN rows \cap Sessions : \A t \in (DOMAIN after \cap Sessions) \ {s} :
        rows[s].tx # after[t].tx
  BY DEF ViolatesCheck
<1>. HIDE DEF after
<1>3. ASSUME NEW s \in DOMAIN after \cap Sessions, NEW t \in DOMAIN after \cap Sessions,
             after[s].tx = after[t].tx, s # t
      PROVE  FALSE
  <2>1. s \notin DOMAIN rows /\ t \notin DOMAIN rows
    BY <1>1, <1>2, <1>3
  <2>2. /\ <<s, after[s].tx>> \in Ids(db) /\ <<t, after[t].tx>> \in Ids(db)
    BY <1>1, <2>1 DEF Ids
  <2>. QED BY <1>3, <2>2 DEF Distinct
<1>4. Distinct(Ids(after))
  BY <1>3 DEF Distinct, Ids
<1>. QED BY <1>1, <1>4 DEF after

\* A step of the drain takes ids from where they were.
LEMMA DrainKeepsIds ==
  ASSUME MirrorAssumption, IInv, up, up' = up, blind' = blind, mem' = mem,
         counter' = counter, writes' = writes, Distinct(Ids(db')), AllIds' \subseteq AllIds
  PROVE  IdsAreIssued'
<1>1. \A p \in AllIds' : p[2] <= writes'
  BY DEF IInv, IdsAreIssued
<1>2. ~blind' => Distinct(AllIds') /\ \A p \in AllIds' : p[2] <= counter'
  BY DEF IInv, IdsAreIssued, Distinct
<1>. QED BY <1>1, <1>2 DEF IdsAreIssued

\* The drain took its next batch, having written, deferred or given up one.
LEMMA Drained ==
  ASSUME MirrorAssumption, IInv, up, UNCHANGED <<mem, counter, up, blind, writes>>,
         NEW left \in Seq(BatchSet), NEW deferred \in Seq(BatchSet), TakeNext(left, deferred),
         left # <<>> => draining, \A i \in DOMAIN deferred : deferred[i].deferrals # 0,
         IdsIn(left) \subseteq AllIds, IdsIn(deferred) \subseteq AllIds,
         db' \in RowSets, Distinct(Ids(db')), Ids(db') \subseteq AllIds,
         timer' = FALSE, lost' \in BOOLEAN, faults' \in 0..MaxFaults,
         stop' \in {"no", "flushing", "stopped"},
         Complete' /\ Complete =>
           /\ deferred = <<>> /\ ParentsFirst(tables, left, db')
           /\ \A k \in DOMAIN mem : ArrivesLast(k, mem[k], tables, left, db'),
         Complete' => Complete
  PROVE  IInv'
<1>1. Typed
  BY DEF IInv
<1>2. /\ tables' \in RowSets /\ work' \in Seq(BatchSet) /\ retries' \in Seq(BatchSet)
      /\ \A i \in DOMAIN retries' : retries'[i].deferrals # 0
      /\ draining' = (work' # <<>>) /\ draining' \in BOOLEAN
      /\ (tables' # Empty => draining')
      /\ Ids(tables') \subseteq Ids(tables)
      /\ IdsIn(work') \subseteq IdsIn(left) \cup Ids(tables) \cup IdsIn(deferred)
      /\ IdsIn(retries') \subseteq IdsIn(deferred)
  BY <1>1, Going
<1>3. Typed'
  <2>1. mem' \in RowSets /\ writes' \in 0..MaxWrites /\ counter' \in 0..writes'
    BY <1>1 DEF Typed
  <2>2. up' \in BOOLEAN /\ blind' \in BOOLEAN
    BY <1>1 DEF Typed
  <2>. QED BY <1>2, <2>1, <2>2 DEF Typed
<1>4. IdsAreIssued'
  <2>1. AllIds' \subseteq AllIds
    BY <1>2 DEF AllIds
  <2>. QED BY <2>1, DrainKeepsIds
<1>5. NothingOvertakes'
  <2>1. ASSUME Complete'
        PROVE  /\ retries' = <<>>
               /\ \A k \in DOMAIN mem' : ArrivesLast(k, mem'[k], tables', work', db')
               /\ ParentsFirst(tables', work', db')
    <3>1. /\ deferred = <<>> /\ ParentsFirst(tables, left, db')
          /\ \A k \in DOMAIN mem : ArrivesLast(k, mem[k], tables, left, db')
      BY <2>1
    <3>2. TakeNext(left, <<>>)
      BY <3>1
    <3>3. /\ ParentsFirst(tables', work', db') /\ retries' = <<>>
          /\ \A k, row : ArrivesLast(k, row, tables, left, db') => ArrivesLast(k, row, tables', work', db')
      BY <1>1, <3>1, <3>2, GoingOn
    <3>. QED BY <3>1, <3>3
  <2>. QED BY <2>1 DEF NothingOvertakes
<1>6. DownIsEmpty'
  BY DEF DownIsEmpty
<1>. QED BY <1>3, <1>4, <1>5, <1>6 DEF IInv

LEMMA Flushing ==
  ASSUME MirrorAssumption, IInv, TimerFires \/ Stop
  PROVE  IInv'
<1>1. /\ up /\ timer' = FALSE /\ UNCHANGED <<mem, counter, lost, up, blind, db, writes, faults>>
      /\ stop' \in {"no", "flushing", "stopped"} /\ (stop = "stopped" => stop' = "stopped")
  BY DEF TimerFires, Stop, GoOn, IInv, Typed
<1>2. CASE UNCHANGED <<tables, work, retries, draining>> /\ draining
  <2>1. Typed'
    <3>1. /\ timer' \in BOOLEAN /\ (timer' => ~draining') /\ (tables' # Empty => timer' \/ draining')
      BY <1>1, <1>2
    <3>. QED BY <1>1, <1>2, <3>1 DEF IInv, Typed
  <2>2. IdsAreIssued' /\ DownIsEmpty'
    <3>1. AllIds' = AllIds
      BY <1>1, <1>2 DEF AllIds
    <3>. QED BY <1>1, <1>2, <3>1 DEF IInv, IdsAreIssued, DownIsEmpty
  <2>3. Complete' => Complete
    BY <1>1 DEF Complete
  <2>4. NothingOvertakes'
    BY <1>1, <1>2, <2>3 DEF IInv, NothingOvertakes
  <2>. QED BY <2>1, <2>2, <2>4 DEF IInv
<1>3. CASE TakeNext(<<>>, retries) /\ ~draining
  <2>1. work = <<>> /\ retries \in Seq(BatchSet) /\ \A i \in DOMAIN retries : retries[i].deferrals # 0
    BY <1>3 DEF IInv, Typed
  <2>2. IdsIn(<<>>) \subseteq AllIds /\ IdsIn(retries) \subseteq AllIds /\ <<>> \in Seq(BatchSet)
    BY NoBatches DEF AllIds
  <2>3. /\ db' \in RowSets /\ Distinct(Ids(db')) /\ Ids(db') \subseteq AllIds
    BY <1>1 DEF IInv, Typed, IdsAreIssued, AllIds
  <2>4. Complete' => Complete
    BY <1>1 DEF Complete
  <2>5. Complete => /\ retries = <<>> /\ ParentsFirst(tables, <<>>, db')
                    /\ \A k \in DOMAIN mem : ArrivesLast(k, mem[k], tables, <<>>, db')
    BY <1>1, <2>1 DEF IInv, NothingOvertakes
  <2>6. lost' \in BOOLEAN /\ faults' \in 0..MaxFaults
    BY <1>1 DEF IInv, Typed
  <2>. QED BY <1>1, <1>3, <2>1, <2>2, <2>3, <2>4, <2>5, <2>6, Drained
<1>4. \/ UNCHANGED <<tables, work, retries, draining>> /\ draining
      \/ TakeNext(<<>>, retries) /\ ~draining
  BY DEF TimerFires, Stop, GoOn, IInv, Typed
<1>. QED BY <1>2, <1>3, <1>4

\* What the answers of the database leave alone.
LEMMA Answered ==
  ASSUME MirrorAssumption, IInv, up, draining, NEW deferred, GoOn(Tail(work), deferred),
         UNCHANGED <<mem, counter, timer, up, blind, writes>>
  PROVE  /\ Typed /\ work # <<>> /\ work \in Seq(BatchSet) /\ retries \in Seq(BatchSet)
         /\ Tail(work) \in Seq(BatchSet) /\ Head(work) \in BatchSet /\ Head(work).rows \in RowSets
         /\ timer' = FALSE /\ TakeNext(Tail(work), deferred)
         /\ stop' \in {"no", "flushing", "stopped"} /\ (stop = "stopped" => stop' = "stopped")
         /\ Ids(Head(work).rows) \subseteq AllIds /\ IdsIn(Tail(work)) \subseteq AllIds
         /\ IdsIn(retries) \subseteq AllIds /\ Ids(db) \subseteq AllIds
         /\ Distinct(Ids(db)) /\ db \in RowSets
         /\ \A i \in DOMAIN retries : retries[i].deferrals # 0
<1>1. Typed /\ work # <<>> /\ work \in Seq(BatchSet) /\ retries \in Seq(BatchSet) /\ db \in RowSets
      /\ \A i \in DOMAIN retries : retries[i].deferrals # 0
  BY DEF IInv, Typed
<1>2. Tail(work) \in Seq(BatchSet) /\ Head(work) \in BatchSet
  BY <1>1
<1>3. Head(work).rows \in RowSets
  BY <1>2 DEF BatchSet
<1>4. Ids(Head(work).rows) \subseteq IdsIn(work) /\ IdsIn(Tail(work)) \subseteq IdsIn(work)
  BY <1>1, IdsOfBatches
<1>5. timer' = FALSE
  BY <1>1 DEF Typed
<1>6. /\ TakeNext(Tail(work), deferred)
      /\ stop' \in {"no", "flushing", "stopped"} /\ (stop = "stopped" => stop' = "stopped")
  BY <1>1 DEF GoOn, Typed
<1>7. Distinct(Ids(db))
  BY DEF IInv, IdsAreIssued
<1>8. /\ Ids(Head(work).rows) \subseteq AllIds /\ IdsIn(Tail(work)) \subseteq AllIds
      /\ IdsIn(retries) \subseteq AllIds /\ Ids(db) \subseteq AllIds
  BY <1>4 DEF AllIds
<1>. QED BY <1>1, <1>2, <1>3, <1>5, <1>6, <1>7, <1>8

LEMMA Landing ==
  ASSUME MirrorAssumption, IInv, WriteLands
  PROVE  IInv'
<1>1. /\ up /\ draining /\ GoOn(Tail(work), retries)
      /\ UNCHANGED <<mem, counter, timer, lost, up, blind, writes, faults>>
      /\ ~ViolatesCheck(Head(work).rows) /\ db' = Upserted(Head(work).rows)
  BY DEF WriteLands
<1>2. /\ Typed /\ work # <<>> /\ work \in Seq(BatchSet) /\ retries \in Seq(BatchSet)
      /\ Tail(work) \in Seq(BatchSet) /\ Head(work).rows \in RowSets
      /\ timer' = FALSE /\ TakeNext(Tail(work), retries)
      /\ stop' \in {"no", "flushing", "stopped"} /\ (stop = "stopped" => stop' = "stopped")
      /\ Ids(Head(work).rows) \subseteq AllIds /\ IdsIn(Tail(work)) \subseteq AllIds
      /\ IdsIn(retries) \subseteq AllIds /\ Ids(db) \subseteq AllIds
      /\ Distinct(Ids(db)) /\ db \in RowSets
      /\ \A i \in DOMAIN retries : retries[i].deferrals # 0
  BY <1>1, Answered
<1>3. db' \in RowSets /\ Distinct(Ids(db')) /\ Ids(db') \subseteq Ids(Head(work).rows) \cup Ids(db)
  BY <1>1, <1>2, Landed
<1>4. Complete' => Complete
  BY <1>1, <1>2 DEF Complete
<1>5. Complete => /\ retries = <<>> /\ ParentsFirst(tables, Tail(work), db')
                  /\ \A k \in DOMAIN mem : ArrivesLast(k, mem[k], tables, Tail(work), db')
  <2>1. /\ ParentsFirst(tables, work, db) => ParentsFirst(tables, Tail(work), db')
        /\ \A k, row : ArrivesLast(k, row, tables, work, db) => ArrivesLast(k, row, tables, Tail(work), db')
    BY <1>1, <1>2, LandingKeepsOrder DEF Upserted
  <2>. QED BY <2>1 DEF IInv, NothingOvertakes
<1>6. lost' \in BOOLEAN /\ faults' \in 0..MaxFaults
  BY <1>1, <1>2 DEF Typed
<1>. QED BY <1>1, <1>2, <1>3, <1>4, <1>5, <1>6, Drained

\* As long as nothing is lost, no batch misses a parent.
LEMMA ParentsAreThere ==
  ASSUME NEW t, NEW w \in Seq(BatchSet), w # <<>>, ParentsFirst(t, w, db)
  PROVE  ~MissesParent(Head(w).rows)
<1>1. 1 \in DOMAIN w /\ Head(w) = w[1] /\ \A j \in DOMAIN w : ~(j < 1)
  OBVIOUS
<1>2. \A b \in DOMAIN w[1].rows \cap Bays :
        w[1].rows[b].ref = NoSession \/ w[1].rows[b].ref \in DOMAIN db
  BY <1>1 DEF ParentsFirst, Before
<1>. QED BY <1>1, <1>2 DEF MissesParent

LEMMA Deferring ==
  ASSUME MirrorAssumption, IInv, WriteDeferred
  PROVE  IInv'
<1>. DEFINE later == Append(retries, Deferred(Head(work)))
<1>1. /\ up /\ draining /\ GoOn(Tail(work), later)
      /\ UNCHANGED <<mem, counter, timer, lost, up, blind, db, writes, faults>>
      /\ MissesParent(Head(work).rows) /\ Head(work).deferrals < MaxDeferrals
  BY DEF WriteDeferred
<1>. HIDE DEF later
<1>2. /\ Typed /\ work # <<>> /\ work \in Seq(BatchSet) /\ retries \in Seq(BatchSet)
      /\ Tail(work) \in Seq(BatchSet) /\ Head(work) \in BatchSet
      /\ timer' = FALSE /\ TakeNext(Tail(work), later)
      /\ stop' \in {"no", "flushing", "stopped"} /\ (stop = "stopped" => stop' = "stopped")
      /\ Ids(Head(work).rows) \subseteq AllIds /\ IdsIn(Tail(work)) \subseteq AllIds
      /\ IdsIn(retries) \subseteq AllIds /\ Ids(db) \subseteq AllIds
      /\ Distinct(Ids(db)) /\ db \in RowSets
      /\ \A i \in DOMAIN retries : retries[i].deferrals # 0
  BY <1>1, Answered
<1>3. /\ Deferred(Head(work)) \in BatchSet /\ Deferred(Head(work)).rows = Head(work).rows
      /\ Deferred(Head(work)).deferrals # 0
  BY <1>1, <1>2 DEF Deferred, Batch, BatchSet, MirrorAssumption
<1>4. /\ later \in Seq(BatchSet)
      /\ \A i \in DOMAIN later : later[i].deferrals # 0
  <2>1. /\ later \in Seq(BatchSet)
        /\ \A i \in DOMAIN later :
             (i \in DOMAIN retries /\ later[i] = retries[i]) \/ later[i] = Deferred(Head(work))
    BY <1>2, <1>3 DEF later
  <2>. QED BY <1>2, <1>3, <2>1
<1>5. IdsIn(later) \subseteq AllIds
  BY <1>2, <1>3, IdsOfAppended DEF later
<1>6. ~Complete
  BY <1>1, <1>2, ParentsAreThere DEF IInv, NothingOvertakes
<1>7. Complete' => Complete
  BY <1>1, <1>2 DEF Complete
<1>8. lost' \in BOOLEAN /\ faults' \in 0..MaxFaults
  BY <1>1, <1>2 DEF Typed
<1>. QED BY <1>1, <1>2, <1>4, <1>5, <1>6, <1>7, <1>8, Drained

\* A batch that is given up is lost; it may have landed all the same.
LEMMA GivingUp ==
  ASSUME MirrorAssumption, IInv, WriteRefused \/ WriteFails
  PROVE  IInv'
<1>1. /\ up /\ draining /\ GoOn(Tail(work), retries) /\ lost' = TRUE
      /\ UNCHANGED <<mem, counter, timer, up, blind, writes>>
      /\ \/ db' = db
         \/ ~ViolatesCheck(Head(work).rows) /\ db' = Upserted(Head(work).rows)
  BY DEF WriteRefused, WriteFails
<1>2. faults' \in 0..MaxFaults
  BY DEF WriteRefused, WriteFails, IInv, Typed, MirrorAssumption
<1>3. /\ Typed /\ work # <<>> /\ work \in Seq(BatchSet) /\ retries \in Seq(BatchSet)
      /\ Tail(work) \in Seq(BatchSet) /\ Head(work).rows \in RowSets
      /\ timer' = FALSE /\ TakeNext(Tail(work), retries)
      /\ stop' \in {"no", "flushing", "stopped"} /\ (stop = "stopped" => stop' = "stopped")
      /\ Ids(Head(work).rows) \subseteq AllIds /\ IdsIn(Tail(work)) \subseteq AllIds
      /\ IdsIn(retries) \subseteq AllIds /\ Ids(db) \subseteq AllIds
      /\ Distinct(Ids(db)) /\ db \in RowSets
      /\ \A i \in DOMAIN retries : retries[i].deferrals # 0
  BY <1>1, Answered
<1>4. /\ db' \in RowSets /\ Distinct(Ids(db')) /\ Ids(db') \subseteq Ids(Head(work).rows) \cup Ids(db)
  BY <1>1, <1>3, Landed
<1>5. ~Complete'
  BY <1>1 DEF Complete
<1>. QED BY <1>1, <1>2, <1>3, <1>4, <1>5, Drained

-----------------------------------------------------------------------------
(* A crash and what follows it.                                            *)

LEMMA Crashing ==
  ASSUME MirrorAssumption, IInv, Crash
  PROVE  IInv'
<1>1. /\ up' = FALSE /\ faults < MaxFaults /\ faults' = faults + 1
      /\ mem' = Empty /\ counter' = 0 /\ tables' = Empty /\ work' = <<>> /\ retries' = <<>>
      /\ draining' = FALSE /\ timer' = FALSE /\ stop' = "no" /\ lost' = FALSE
      /\ UNCHANGED <<blind, writes>>
      /\ \/ db' = db
         \/ draining /\ ~ViolatesCheck(Head(work).rows) /\ db' = Upserted(Head(work).rows)
  BY DEF Crash
<1>2. Typed /\ Distinct(Ids(db))
  BY DEF IInv, IdsAreIssued
<1>3. draining => Head(work).rows \in RowSets /\ Ids(Head(work).rows) \subseteq IdsIn(work)
  <2>1. ASSUME draining PROVE work # <<>> /\ work \in Seq(BatchSet) /\ Head(work) \in BatchSet
    BY <1>2, <2>1 DEF Typed
  <2>. QED BY <2>1, IdsOfBatches DEF BatchSet
<1>4. db' \in RowSets /\ Distinct(Ids(db')) /\ Ids(db') \subseteq AllIds
  <2>1. CASE db' = db
    BY <1>2, <2>1 DEF Typed, AllIds
  <2>2. CASE draining /\ ~ViolatesCheck(Head(work).rows) /\ db' = Upserted(Head(work).rows)
    <3>1. /\ db' \in RowSets /\ Distinct(Ids(db'))
          /\ Ids(db') \subseteq Ids(Head(work).rows) \cup Ids(db)
      BY <1>2, <1>3, <2>2, Landed
    <3>. QED BY <1>3, <2>2, <3>1 DEF AllIds
  <2>. QED BY <1>1, <2>1, <2>2
<1>5. Typed'
  <2>1. /\ writes' \in 0..MaxWrites /\ counter' \in 0..writes' /\ faults' \in 0..MaxFaults
    BY <1>1, <1>2 DEF Typed, MirrorAssumption
  <2>2. /\ mem' \in RowSets /\ tables' \in RowSets
        /\ work' \in Seq(BatchSet) /\ retries' \in Seq(BatchSet)
        /\ \A i \in DOMAIN retries' : retries'[i].deferrals # 0
    BY <1>1, EmptyIsRows, NoBatches
  <2>3. blind' \in BOOLEAN /\ up' \in BOOLEAN
    BY <1>1, <1>2 DEF Typed
  <2>4. draining' = (work' # <<>>) /\ tables' = Empty /\ stop' \in {"no", "flushing", "stopped"}
    BY <1>1
  <2>. QED BY <1>1, <1>4, <2>1, <2>2, <2>3, <2>4 DEF Typed
<1>6. IdsAreIssued'
  <2>1. AllIds' \subseteq Ids(db')
    BY <1>1, EmptyIsRows, NoBatches DEF AllIds
  <2>2. \A p \in AllIds : p[2] <= writes
    BY DEF IInv, IdsAreIssued
  <2>. QED BY <1>1, <1>4, <2>1, <2>2 DEF IdsAreIssued
<1>. QED BY <1>1, <1>5, <1>6 DEF IInv, DownIsEmpty, NothingOvertakes, Complete

\* Of a set of numbers up to n that is not empty one is the highest.
LEMMA HighestExists ==
  ASSUME NEW n \in Nat, NEW S \in SUBSET (0..n), S # {}
  PROVE  \E i \in S : \A j \in S : j <= i
<1>. DEFINE Bounds == {b \in Nat : \A j \in S : j <= b}
<1>1. n \in Bounds
  OBVIOUS
<1>2. PICK b \in Bounds : \A c \in Bounds : ~(c < b)
  <2>1. \E b \in Bounds : \A c \in Bounds : <<c, b>> \notin OpToRel(<, Nat)
    BY <1>1, NatLessThanWellFounded, WFMin
  <2>. QED BY <2>1 DEF OpToRel
<1>3. b \in S
  <2>1. SUFFICES ASSUME b \notin S PROVE FALSE
    OBVIOUS
  <2>2. b # 0
    <3>1. PICK j \in S : TRUE
      OBVIOUS
    <3>2. j \in 0..n /\ j <= b
      OBVIOUS
    <3>. QED BY <2>1, <3>2
  <2>3. \A j \in S : j <= b - 1
    BY <2>1
  <2>4. b - 1 \in Bounds
    BY <2>2, <2>3
  <2>. QED BY <1>2, <2>4
<1>. QED BY <1>2, <1>3

LEMMA HighestIsHighest ==
  ASSUME MirrorAssumption, Typed, \A p \in Ids(db) : p[2] <= writes
  PROVE  Highest(db) \in 0..writes /\ \A p \in Ids(db) : p[2] <= Highest(db)
<1>. DEFINE ids == {db[s].tx : s \in DOMAIN db \cap Sessions} \cup {0}
<1>1. writes \in Nat
  BY DEF Typed, MirrorAssumption
<1>2. \A s \in DOMAIN db \cap Sessions : db[s].tx \in 0..writes
  <2>1. ASSUME NEW s \in DOMAIN db \cap Sessions PROVE db[s].tx \in 0..writes
    <3>1. <<s, db[s].tx>> \in Ids(db)
      BY DEF Ids
    <3>2. db[s].tx \in Nat
      BY RowsHold DEF Typed, RowsOf, SessionRows
    <3>3. db[s].tx <= writes
      BY <3>1
    <3>. QED BY <1>1, <3>2, <3>3
  <2>. QED BY <2>1
<1>3. ids \in SUBSET (0..writes) /\ ids # {}
  BY <1>1, <1>2
<1>. HIDE DEF ids
<1>4. \E i \in ids : \A j \in ids : j <= i
  BY <1>1, <1>3, HighestExists
<1>5. Highest(db) = CHOOSE i \in ids : \A j \in ids : j <= i
  BY DEF Highest, ids
<1>6. Highest(db) \in ids /\ \A j \in ids : j <= Highest(db)
  BY <1>4, <1>5
<1>7. \A p \in Ids(db) : p[2] \in ids
  BY DEF Ids, ids
<1>. QED BY <1>3, <1>6, <1>7

LEMMA ClosedIs ==
  ASSUME Typed
  PROVE  Closed(db) \in RowSets /\ Ids(Closed(db)) = Ids(db)
<1>1. /\ DOMAIN Closed(db) = DOMAIN db
      /\ \A k \in DOMAIN db : Closed(db)[k] = IF k \in Sessions /\ db[k].status = "active"
                                             THEN [db[k] EXCEPT !.status = "aborted"] ELSE db[k]
  BY DEF Closed
<1>2. \A k \in DOMAIN db : db[k] \in RowsOf(k) /\ k \in Keys
  BY RowsHold DEF Typed
<1>3. \A k \in DOMAIN db : /\ Closed(db)[k] \in RowsOf(k)
                           /\ k \in Sessions => Closed(db)[k].tx = db[k].tx
  BY <1>1, <1>2 DEF RowsOf, SessionRows
<1>4. IsRows(Closed(db))
  <2>1. Closed(db) \in [DOMAIN db -> SessionRows \cup ConnectorRows]
    BY <1>1, <1>3 DEF Closed, RowsOf
  <2>. QED BY <1>1, <1>2, <1>3, <2>1 DEF IsRows, RowsOf
<1>. QED BY <1>1, <1>3, <1>4, RowSetsAreRows DEF Ids

LEMMA Hydrating ==
  ASSUME MirrorAssumption, IInv, Hydrate
  PROVE  IInv'
<1>1. /\ ~up /\ up' = TRUE /\ UNCHANGED <<queueVars, writes>> /\ faults' \in Nat /\ faults' <= MaxFaults
      /\ \/ counter' = Highest(db)
         \/ counter' = 0 /\ blind'
      /\ blind' \in BOOLEAN
      /\ db' \in {db, Closed(db)}
      /\ mem' \in {Only(db', Sessions), Empty}
  <2>1. PICK idsRead \in BOOLEAN, closed \in BOOLEAN, historyRead \in BOOLEAN :
          /\ faults' = faults + Cardinality({i \in 1..3 : ~<<idsRead, closed, historyRead>>[i]})
          /\ faults' <= MaxFaults
          /\ counter' = IF idsRead THEN Highest(db) ELSE 0
          /\ blind' = ~idsRead
          /\ db' = IF closed THEN Closed(db) ELSE db
          /\ mem' = IF historyRead THEN Only(db', Sessions) ELSE Empty
    BY DEF Hydrate
  <2>2. Cardinality({i \in 1..3 : ~<<idsRead, closed, historyRead>>[i]}) \in Nat
    <3>1. IsFiniteSet(1..3)
      <4>1. 1 \in Int /\ 3 \in Int
        OBVIOUS
      <4>. QED BY <4>1, FS_Interval
    <3>2. IsFiniteSet({i \in 1..3 : ~<<idsRead, closed, historyRead>>[i]})
      BY <3>1, FS_Subset
    <3>. QED BY <3>2, FS_CardinalityType
  <2>3. faults' \in Nat
    BY <2>1, <2>2 DEF IInv, Typed
  <2>. QED BY <2>1, <2>3 DEF Hydrate
<1>2. Typed /\ Distinct(Ids(db)) /\ \A p \in Ids(db) : p[2] <= writes
  BY DEF IInv, IdsAreIssued, AllIds
<1>3. mem = Empty /\ tables = Empty /\ work = <<>> /\ retries = <<>>
  BY <1>1 DEF IInv, DownIsEmpty
<1>4. Highest(db) \in 0..writes /\ \A p \in Ids(db) : p[2] <= Highest(db)
  BY <1>2, HighestIsHighest
<1>5. db' \in RowSets /\ Ids(db') = Ids(db)
  BY <1>1, <1>2, ClosedIs DEF Typed
<1>6. /\ mem' \in RowSets /\ Ids(mem') \subseteq Ids(db')
      /\ \A k \in DOMAIN mem' : k \in DOMAIN db' /\ mem'[k] = db'[k]
  <2>1. CASE mem' = Empty
    BY <2>1, EmptyIsRows
  <2>2. CASE mem' = Only(db', Sessions)
    <3>1. Only(db', Sessions) \in RowSets /\ Ids(Only(db', Sessions)) \subseteq Ids(db')
      BY <1>5, PartOfRows
    <3>2. \A k \in DOMAIN Only(db', Sessions) : k \in DOMAIN db' /\ Only(db', Sessions)[k] = db'[k]
      BY DEF Only
    <3>. QED BY <2>2, <3>1, <3>2
  <2>. QED BY <1>1, <2>1, <2>2
<1>7. Typed'
  <2>1. counter' \in 0..writes' /\ writes' \in 0..MaxWrites
    <3>1. writes \in 0..MaxWrites /\ 0 \in 0..writes
      BY <1>2 DEF Typed, MirrorAssumption
    <3>. QED BY <1>1, <1>4, <3>1
  <2>2. faults' \in 0..MaxFaults
    BY <1>1 DEF MirrorAssumption
  <2>3. /\ tables' \in RowSets /\ work' \in Seq(BatchSet) /\ retries' \in Seq(BatchSet)
        /\ \A i \in DOMAIN retries' : retries'[i].deferrals # 0
        /\ draining' \in BOOLEAN /\ timer' \in BOOLEAN /\ lost' \in BOOLEAN
        /\ draining' = (work' # <<>>)
        /\ (timer' => ~draining') /\ (tables' # Empty => timer' \/ draining')
        /\ stop' \in {"no", "flushing", "stopped"}
    BY <1>1, <1>2 DEF Typed, queueVars
  <2>. QED BY <1>1, <1>5, <1>6, <2>1, <2>2, <2>3 DEF Typed
<1>8. IdsAreIssued'
  <2>1. AllIds' \subseteq Ids(db)
    BY <1>1, <1>3, <1>5, <1>6, EmptyIsRows, NoBatches DEF AllIds, queueVars
  <2>2. ~blind' => counter' = Highest(db)
    BY <1>1
  <2>. QED BY <1>1, <1>2, <1>4, <1>5, <2>1, <2>2 DEF IdsAreIssued, Distinct
<1>9. NothingOvertakes'
  <2>1. tables' = Empty /\ work' = <<>> /\ retries' = <<>>
    BY <1>1, <1>3 DEF queueVars
  <2>2. /\ \A i \in DOMAIN work' : FALSE
        /\ DOMAIN tables' = {}
    BY <2>1, NoBatches, EmptyIsRows
  <2>. QED BY <1>6, <2>1, <2>2 DEF NothingOvertakes, ArrivesLast, ParentsFirst
<1>. QED BY <1>1, <1>7, <1>8, <1>9 DEF IInv, DownIsEmpty

-----------------------------------------------------------------------------
(* The theorems.                                                           *)

LEMMA Initially == ASSUME MirrorAssumption, Init PROVE IInv
<1>1. /\ mem = Empty /\ counter = 0 /\ db = Empty /\ tables = Empty /\ work = <<>> /\ retries = <<>>
      /\ draining = FALSE /\ timer = FALSE /\ stop = "no" /\ lost = FALSE
      /\ up = TRUE /\ blind = FALSE /\ writes = 0 /\ faults = 0
  BY DEF Init
<1>2. Typed
  <2>1. 0 \in 0..MaxWrites /\ 0 \in 0..MaxFaults /\ 0 \in 0..0
    BY DEF MirrorAssumption
  <2>. QED BY <1>1, <2>1, EmptyIsRows, NoBatches DEF Typed
<1>3. AllIds = {}
  BY <1>1, EmptyIsRows, NoBatches DEF AllIds
<1>4. IdsAreIssued
  BY <1>3 DEF IdsAreIssued, Distinct, AllIds
<1>5. DownIsEmpty /\ NothingOvertakes
  <2>1. (\A i \in DOMAIN work : FALSE) /\ DOMAIN tables = {} /\ DOMAIN mem = {}
    BY <1>1, NoBatches, EmptyIsRows
  <2>. QED BY <1>1, <2>1 DEF DownIsEmpty, NothingOvertakes, ParentsFirst
<1>. QED BY <1>2, <1>4, <1>5 DEF IInv

LEMMA Stuttering == ASSUME IInv, UNCHANGED vars PROVE IInv'
<1>1. Typed'
  BY DEF IInv, vars, Typed
<1>2. IdsAreIssued'
  BY DEF IInv, vars, IdsAreIssued, AllIds
<1>3. DownIsEmpty' /\ NothingOvertakes'
  BY DEF IInv, vars, DownIsEmpty, NothingOvertakes, Complete
<1>. QED BY <1>1, <1>2, <1>3 DEF IInv

LEMMA Stepwise == ASSUME MirrorAssumption, IInv, [Next]_vars PROVE IInv'
<1>1. ASSUME NEW s \in Sessions, NEW b \in Bays, Start(s, b) PROVE IInv'
  BY <1>1, Starting
<1>2. ASSUME NEW s \in Sessions, Meter(s) PROVE IInv'
  BY <1>2, Metering
<1>3. ASSUME NEW s \in Sessions, Finish(s) PROVE IInv'
  BY <1>3, Finishing
<1>4. ASSUME TimerFires \/ Stop PROVE IInv'
  BY <1>4, Flushing
<1>5. ASSUME WriteLands PROVE IInv'
  BY <1>5, Landing
<1>6. ASSUME WriteDeferred PROVE IInv'
  BY <1>6, Deferring
<1>7. ASSUME WriteRefused \/ WriteFails PROVE IInv'
  BY <1>7, GivingUp
<1>8. ASSUME Crash PROVE IInv'
  BY <1>8, Crashing
<1>9. ASSUME Hydrate PROVE IInv'
  BY <1>9, Hydrating
<1>10. ASSUME UNCHANGED vars PROVE IInv'
  BY <1>10, Stuttering
<1>. QED BY <1>1, <1>2, <1>3, <1>4, <1>5, <1>6, <1>7, <1>8, <1>9, <1>10 DEF Next

\* What holds of the queue in every behaviour: types, ids that were issued, an
\* empty process while it is down, and, as long as nothing is lost, an order in
\* which nothing older comes after what is newer (writer.ts).
THEOREM InductiveInvariant == ASSUME MirrorAssumption PROVE Spec => []IInv
<1>1. Init => IInv
  BY Initially
<1>2. IInv /\ [Next]_vars => IInv'
  BY Stepwise
<1>. QED BY <1>1, <1>2, PTL DEF Spec

\* Every variable of repositories, queue and database keeps its type.
THEOREM TypeCorrect == ASSUME MirrorAssumption PROVE Spec => []TypeOK
<1>1. ASSUME Typed PROVE TypeOK
  <2>1. IsRows(mem) /\ IsRows(tables) /\ IsRows(db)
    BY <1>1, RowSetsAreRows DEF Typed
  <2>2. ASSUME NEW batches \in Seq(BatchSet), NEW i \in DOMAIN batches
        PROVE  IsRows(batches[i].rows) /\ batches[i].deferrals \in 0..MaxDeferrals
    <3>1. batches[i] \in BatchSet
      OBVIOUS
    <3>. QED BY <3>1, RowSetsAreRows DEF BatchSet
  <2>3. \A i \in DOMAIN work : IsRows(work[i].rows) /\ work[i].deferrals \in 0..MaxDeferrals
    BY <1>1, <2>2 DEF Typed
  <2>4. \A i \in DOMAIN retries : IsRows(retries[i].rows) /\ retries[i].deferrals \in 1..MaxDeferrals
    <3>1. ASSUME NEW i \in DOMAIN retries
          PROVE  IsRows(retries[i].rows) /\ retries[i].deferrals \in 1..MaxDeferrals
      <4>1. /\ IsRows(retries[i].rows) /\ retries[i].deferrals \in 0..MaxDeferrals
            /\ retries[i].deferrals # 0
        BY <1>1, <2>2 DEF Typed
      <4>. QED BY <4>1 DEF MirrorAssumption
    <3>. QED BY <3>1
  <2>. QED BY <1>1, <2>1, <2>3, <2>4 DEF Typed, TypeOK
<1>2. IInv => TypeOK
  BY <1>1 DEF IInv
<1>. QED BY <1>2, InductiveInvariant, PTL

\* What arrives last is what will be there.
LEMMA EventuallyLast ==
  ASSUME Typed, retries = <<>>, NEW k, NEW row, ArrivesLast(k, row, tables, work, db)
  PROVE  k \in DOMAIN Eventually /\ Eventually[k] = row
<1>1. Line = work /\ \A i \in DOMAIN work : i \in Nat
  BY DEF Line, Typed
<1>2. DOMAIN Eventually = DOMAIN tables \cup DOMAIN db \cup UNION {DOMAIN work[i].rows : i \in DOMAIN work}
  BY <1>1 DEF Eventually
<1>3. CASE k \in DOMAIN tables /\ tables[k] = row
  BY <1>2, <1>3 DEF Eventually
<1>4. ASSUME k \notin DOMAIN tables, NEW i \in DOMAIN work,
             k \in DOMAIN work[i].rows, work[i].rows[k] = row,
             \A j \in DOMAIN work : k \in DOMAIN work[j].rows => j <= i
      PROVE  k \in DOMAIN Eventually /\ Eventually[k] = row
  <2>1. i \in Holding(k) /\ \A j \in Holding(k) : i >= j /\ j \in Nat
    BY <1>1, <1>4 DEF Holding
  <2>2. Max(Holding(k)) = i
    BY <1>1, <2>1 DEF Max
  <2>3. k \in DOMAIN Eventually
    BY <1>2, <1>4
  <2>. QED BY <1>1, <1>4, <2>1, <2>2, <2>3 DEF Eventually
<1>5. CASE /\ k \notin DOMAIN tables /\ \A j \in DOMAIN work : k \notin DOMAIN work[j].rows
           /\ k \in DOMAIN db /\ db[k] = row
  <2>1. Holding(k) = {}
    BY <1>1, <1>5 DEF Holding
  <2>. QED BY <1>2, <1>5, <2>1 DEF Eventually
<1>. QED BY <1>3, <1>4, <1>5 DEF ArrivesLast

\* Every id that will be there is one that waits or is there.
LEMMA EventuallyKnown ==
  ASSUME Typed, NEW s \in DOMAIN Over(mem, Eventually) \cap Sessions
  PROVE  <<s, Over(mem, Eventually)[s].tx>> \in AllIds
<1>1. CASE s \in DOMAIN mem
  BY <1>1 DEF Over, AllIds, Ids
<1>2. CASE s \notin DOMAIN mem
  <2>1. s \in DOMAIN Eventually /\ Over(mem, Eventually)[s] = Eventually[s]
    BY <1>2 DEF Over
  <2>2. CASE s \in DOMAIN tables
    BY <2>1, <2>2 DEF Eventually, AllIds, Ids
  <2>3. CASE s \notin DOMAIN tables /\ Holding(s) # {}
    <3>1. PICK n \in Nat : DOMAIN Line = 1..n
      BY DEF Line, Typed
    <3>2. Max(Holding(s)) \in Holding(s)
      <4>1. Holding(s) \in SUBSET (0..n)
        BY <3>1 DEF Holding
      <4>2. \E i \in Holding(s) : \A j \in Holding(s) : i >= j
        <5>1. \E i \in Holding(s) : \A j \in Holding(s) : j <= i
          BY <2>3, <4>1, HighestExists
        <5>. QED BY <4>1, <5>1
      <4>. QED BY <4>2 DEF Max
    <3>3. PICK i \in DOMAIN Line : s \in DOMAIN Line[i].rows /\ Eventually[s] = Line[i].rows[s]
      BY <2>1, <2>3, <3>2 DEF Eventually, Holding
    <3>4. <<s, Eventually[s].tx>> \in IdsIn(Line)
      BY <3>3 DEF IdsIn, Ids
    <3>5. IdsIn(Line) \subseteq IdsIn(work) \cup IdsIn(retries)
      BY IdsOfBatches DEF Line, Typed
    <3>. QED BY <2>1, <3>4, <3>5 DEF AllIds
  <2>4. CASE s \notin DOMAIN tables /\ Holding(s) = {}
    <3>1. s \in DOMAIN db
      BY <2>1, <2>4 DEF Eventually, Holding
    <3>. QED BY <2>1, <2>4, <3>1 DEF Eventually, AllIds, Ids
  <2>. QED BY <2>2, <2>3, <2>4
<1>. QED BY <1>1, <1>2

\* As long as the mirror says it is complete, every object of memory is in
\* Postgres or on its way there and nothing older of it comes after; and no two
\* sessions, in memory, queued or on record, have one transaction id, unless
\* hydrate() could not read those on record (writer.ts, hydrate in index.ts).
THEOREM TheMirrorIsTrue == ASSUME MirrorAssumption PROVE Spec => []MirrorIsTrue
<1>1. ASSUME IInv PROVE CompleteMeansWhole
  <2>1. ASSUME Complete, NEW k \in DOMAIN mem
        PROVE  k \in DOMAIN Eventually /\ Eventually[k] = mem[k]
    BY <1>1, <2>1, EventuallyLast DEF IInv, NothingOvertakes
  <2>. QED BY <2>1 DEF CompleteMeansWhole, Complete
<1>2. ASSUME IInv PROVE StoredIdsAreUnique
  <2>. DEFINE All == Only(Over(mem, Eventually), Sessions)
  <2>1. ASSUME ~blind, NEW s \in DOMAIN All, NEW t \in DOMAIN All, All[s].tx = All[t].tx
        PROVE  s = t
    <3>1. /\ s \in DOMAIN Over(mem, Eventually) \cap Sessions
          /\ t \in DOMAIN Over(mem, Eventually) \cap Sessions
          /\ All[s] = Over(mem, Eventually)[s] /\ All[t] = Over(mem, Eventually)[t]
      BY DEF Only
    <3>2. Distinct(AllIds)
      <4>1. CASE up
        BY <1>2, <2>1, <4>1 DEF IInv, IdsAreIssued
      <4>2. CASE ~up
        <5>1. AllIds = Ids(db)
          BY <1>2, <4>2, EmptyIsRows, NoBatches DEF IInv, DownIsEmpty, AllIds
        <5>. QED BY <1>2, <5>1 DEF IInv, IdsAreIssued
      <4>. QED BY <4>1, <4>2
    <3>3. <<s, All[s].tx>> \in AllIds /\ <<t, All[t].tx>> \in AllIds
      BY <1>2, <3>1, EventuallyKnown DEF IInv
    <3>. HIDE DEF All
    <3>. QED BY <2>1, <3>2, <3>3 DEF Distinct
  <2>. QED BY <2>1 DEF StoredIdsAreUnique
<1>3. IInv => MirrorIsTrue
  BY <1>1, <1>2 DEF MirrorIsTrue
<1>. QED BY <1>3, InductiveInvariant, PTL

-----------------------------------------------------------------------------
(* The grid's signals: divisions and extremes first.                        *)

LEMMA QuotientIs ==
  ASSUME NEW s \in Nat \ {0}, NEW k \in Int, NEW a \in 0..(s - 1)
  PROVE  (s * k + a) \div s = k /\ (s * k + a) % s = a
OBVIOUS

LEMMA Quotient ==
  ASSUME NEW s \in Nat \ {0}, NEW t \in Int
  PROVE  t \div s \in Int /\ t % s \in 0..(s - 1) /\ t = s * (t \div s) + (t % s)
OBVIOUS

LEMMA FloorIs ==
  ASSUME NEW s \in Nat \ {0}, NEW k \in Int, NEW a \in 0..(s - 1)
  PROVE  FloorTo(s * k + a, s) = s * k
<1>1. (s * k + a) % s = a
  BY QuotientIs
<1>2. s * k \in Int
  OBVIOUS
<1> QED
  BY <1>1, <1>2 DEF FloorTo

LEMMA FloorIsMultiple ==
  ASSUME NEW s \in Nat \ {0}, NEW t \in Int
  PROVE  /\ FloorTo(t, s) = s * (t \div s) /\ FloorTo(t, s) \in Int
         /\ FloorTo(t, s) % s = 0 /\ FloorTo(t, s) <= t /\ t < FloorTo(t, s) + s
<1>1. t \div s \in Int /\ t % s \in 0..(s - 1) /\ t = s * (t \div s) + (t % s)
  BY Quotient
<1>2. FloorTo(t, s) = s * (t \div s) /\ s * (t \div s) \in Int
  BY <1>1 DEF FloorTo
<1>3. 0 \in 0..(s - 1)
  OBVIOUS
<1>4. (s * (t \div s) + 0) % s = 0
  BY <1>1, <1>3, QuotientIs
<1>5. s * (t \div s) + 0 = s * (t \div s)
  BY <1>2
<1> QED
  BY <1>1, <1>2, <1>4, <1>5

LEMMA MaxOfTwo ==
  ASSUME NEW a \in Int, NEW b \in Int
  PROVE  Max({a, b}) \in {a, b} /\ Max({a, b}) >= a /\ Max({a, b}) >= b
<1>1. \E x \in {a, b} : \A y \in {a, b} : x >= y
  <2>1. CASE a >= b
    BY <2>1
  <2>2. CASE b >= a
    BY <2>2
  <2> QED
    BY <2>1, <2>2
<1> QED
  BY <1>1 DEF Max

LEMMA MinOfTwo ==
  ASSUME NEW a \in Int, NEW b \in Int
  PROVE  Min({a, b}) \in {a, b} /\ Min({a, b}) <= a /\ Min({a, b}) <= b
<1>1. \E x \in {a, b} : \A y \in {a, b} : x =< y
  <2>1. CASE a <= b
    BY <2>1
  <2>2. CASE b <= a
    BY <2>2
  <2> QED
    BY <2>1, <2>2
<1> QED
  BY <1>1 DEF Min

\* Integers with a bound have a largest.
LEMMA MaxOfBounded ==
  ASSUME NEW S \in SUBSET Int, S # {}, NEW top \in Int, \A x \in S : x <= top
  PROVE  Max(S) \in S
<1> DEFINE below == {top - x : x \in S}
<1>1. \A x \in S : top - x \in Nat
  OBVIOUS
<1>2. below \subseteq Nat
  BY <1>1
<1>3. below # {}
  OBVIOUS
<1>4. PICK n \in below : \A m \in below : ~ (<<m, n>> \in OpToRel(<, Nat))
  <2> HIDE DEF below
  <2> QED
    BY <1>2, <1>3, NatLessThanWellFounded, WFMin
<1>5. \A m \in below : ~ (m < n)
  BY <1>2, <1>4 DEF OpToRel
<1>6. PICK x \in S : n = top - x
  BY <1>4
<1>7. ASSUME NEW y \in S PROVE x >= y
  <2>1. top - y \in below
    OBVIOUS
  <2>2. ~ (top - y < top - x)
    BY <2>1, <1>5, <1>6
  <2>3. x \in Int /\ y \in Int
    OBVIOUS
  <2> QED
    BY <2>2, <2>3
<1> QED
  BY <1>7 DEF Max

Snapshots == [start : Int, source : {"live", "synthetic", "none"}, fetched : Int]
SignalsTypeOK ==
  /\ now \in Lookback..MaxTime
  /\ cache \in Snapshots
  /\ callers \in [Callers -> [at : {"idle", "fetching"}, asked : Int, held : Snapshots]]
  /\ \A c \in Callers : callers[c].at = "fetching" => callers[c].asked \in Lookback..MaxTime
  /\ DOMAIN stored = {"carbon", "actual_carbon"}

\* What was ever covered can be looked up.
CoveredIsStored == covered \subseteq DOMAIN stored["carbon"]

\* A measurement is kept on the grid of slots, and is that of the slot's own
\* half hour or of the one before.
MeasuredInTime(samples) ==
  \A slot \in DOMAIN samples :
    /\ slot \in Int /\ slot % Step = 0
    /\ FloorTo(slot, LiveStep) - samples[slot] \in {0, LiveStep}

SignalsInv ==
  SignalsTypeOK /\ CoveredIsStored /\ MeasuredInTime(stored["actual_carbon"])

\* The provider's step is a number of slots.
LEMMA StepsAreSlots ==
  /\ Step \in Nat \ {0} /\ LiveStep \in Nat \ {0} /\ Horizon \in Nat \ {0}
  /\ LiveStep \div Step \in Nat \ {0} /\ LiveStep = Step * (LiveStep \div Step)
<1>1. Step \in Nat \ {0} /\ LiveStep \in Nat \ {0} /\ Horizon \in Nat \ {0} /\ LiveStep % Step = 0
  BY SignalAssumption
<1>2. LiveStep \div Step \in Int /\ LiveStep = Step * (LiveStep \div Step) + (LiveStep % Step)
  BY <1>1, Quotient
<1>3. LiveStep = Step * (LiveStep \div Step)
  BY <1>1, <1>2
<1>4. LiveStep \div Step > 0
  <2> DEFINE r == LiveStep \div Step
  <2> SUFFICES ASSUME r <= 0 PROVE FALSE
    BY <1>2
  <2>1. r \in Int /\ LiveStep = Step * r
    BY <1>2, <1>3
  <2> HIDE DEF r
  <2>2. Step * r <= 0
    BY <1>1, <2>1
  <2> QED
    BY <1>1, <2>1, <2>2
<1> QED
  BY <1>1, <1>2, <1>3, <1>4

\* The slots of a series, as multiples of a slot's length.
SlotGrid(u, m) == {Step * (u + i) : i \in 0..(m - 1)}
LEMMA SlotsAre ==
  ASSUME NEW u \in Int, NEW n \in Nat \ {0}, NEW r \in Nat \ {0}
  PROVE  SlotsOf(Step * u, n, Step * r) = SlotGrid(u, n * r)
<1>1. Step \in Nat \ {0}
  BY StepsAreSlots
<1>2. FloorTo(Step * u, Step) = Step * u
  <2>1. 0 \in 0..(Step - 1)
    BY <1>1
  <2>2. FloorTo(Step * u + 0, Step) = Step * u
    BY <1>1, <2>1, FloorIs
  <2>3. Step * u + 0 = Step * u
    BY <1>1
  <2> QED
    BY <2>2, <2>3
<1>3. n * r \in Nat \ {0}
  OBVIOUS
<1>4. Round(n * (Step * r), Step) = n * r
  <2>1. 2 * Step \in Nat \ {0} /\ Step \in 0..(2 * Step - 1)
    BY <1>1
  <2>2. ((2 * Step) * (n * r) + Step) \div (2 * Step) = n * r
    <3> DEFINE d == 2 * Step  m == n * r
    <3>1. d \in Nat \ {0} /\ Step \in 0..(d - 1) /\ m \in Int
      BY <1>3, <2>1
    <3> HIDE DEF d, m
    <3>2. (d * m + Step) \div d = m
      BY <3>1, QuotientIs
    <3> QED
      BY <3>2 DEF d, m
  <2>3. 2 * (n * (Step * r)) + Step = (2 * Step) * (n * r) + Step
    BY <1>1
  <2> QED
    BY <2>2, <2>3 DEF Round
<1>5. Max({1, n * r}) = n * r
  <2>1. Max({1, n * r}) \in {1, n * r} /\ Max({1, n * r}) >= n * r
    BY <1>3, MaxOfTwo
  <2> QED
    BY <1>3, <2>1
<1>6. \A i \in 0..(n * r - 1) : Step * u + i * Step = Step * (u + i)
  BY <1>1, <1>3
<1>7. SlotsOf(Step * u, n, Step * r) = {Step * u + i * Step : i \in 0..(n * r - 1)}
  BY <1>2, <1>4, <1>5 DEF SlotsOf
<1> QED
  BY <1>6, <1>7 DEF SlotGrid

\* A series that spans the horizon has a slot for every quarter hour of it.
LEMMA SpanIsCovered ==
  ASSUME NEW u \in Int, NEW n \in Nat \ {0}, NEW r \in Nat \ {0}, n * (Step * r) >= Horizon,
         NEW q \in Int, q >= Step * u, q <= Step * u + Horizon - 1, q % Step = 0
  PROVE  q \in SlotsOf(Step * u, n, Step * r)
<1>1. Step \in Nat \ {0} /\ Horizon \in Nat \ {0}
  BY StepsAreSlots
<1>2. q \div Step \in Int /\ q = Step * (q \div Step)
  BY <1>1, Quotient
<1> DEFINE v == q \div Step
<1>3. v \in Int /\ q = Step * v
  BY <1>2
<1> HIDE DEF v
<1> DEFINE i == v - u
<1>4. i \in Int /\ q = Step * (u + i) /\ q = Step * u + Step * i
  BY <1>1, <1>3
<1> HIDE DEF i
<1>5. Step * u \in Int /\ Step * i \in Int
  BY <1>1, <1>4
<1>6. Step * i >= 0 /\ Step * i < Horizon
  BY <1>1, <1>4, <1>5
<1>7. n * r \in Nat /\ n * (Step * r) = Step * (n * r)
  BY <1>1
<1>8. Step * i < Step * (n * r)
  BY <1>1, <1>5, <1>6, <1>7
<1>9. i >= 0
  <2> SUFFICES ASSUME i <= -1 PROVE FALSE
    BY <1>4
  <2>1. Step * i <= -Step
    BY <1>1, <1>4
  <2> QED
    BY <1>1, <1>5, <1>6, <2>1
<1>10. i < n * r
  <2> SUFFICES ASSUME i >= n * r PROVE FALSE
    BY <1>4, <1>7
  <2>1. Step * (i - n * r) >= 0 /\ Step * (i - n * r) = Step * i - Step * (n * r)
    BY <1>1, <1>4, <1>7
  <2> QED
    BY <1>1, <1>5, <1>7, <1>8, <2>1
<1>11. i \in 0..(n * r - 1)
  BY <1>4, <1>7, <1>9, <1>10
<1>12. SlotsOf(Step * u, n, Step * r) = SlotGrid(u, n * r)
  BY SlotsAre
<1> QED
  BY <1>4, <1>11, <1>12 DEF SlotGrid

LEMMA SizeOfDomain ==
  ASSUME NEW n \in Nat
  PROVE  IsFiniteSet(0..(n - 1)) /\ Cardinality(0..(n - 1)) = n
<1>1. 0 \in Int /\ n - 1 \in Int
  OBVIOUS
<1>2. /\ IsFiniteSet(0..(n - 1))
      /\ Cardinality(0..(n - 1)) = IF 0 > n - 1 THEN 0 ELSE (n - 1) - 0 + 1
  BY <1>1, FS_Interval
<1> QED
  BY <1>2

\* Samples of a series of n steps lie on its slots.
LEMMA SampledSlots ==
  ASSUME NEW n \in Nat, NEW series, DOMAIN series = 0..(n - 1), NEW start, NEW step
  PROVE  DOMAIN Samples(series, start, step) = SlotsOf(start, n, step)
BY SizeOfDomain DEF Samples

\* The start of a snapshot is on the grid of slots.
LEMMA StartIsSlot ==
  ASSUME NEW t \in Int
  PROVE  \E u \in Int : FloorTo(t, Step) = Step * u
<1>1. Step \in Nat \ {0}
  BY StepsAreSlots
<1>2. t \div Step \in Int /\ FloorTo(t, Step) = Step * (t \div Step)
  BY <1>1, Quotient, FloorIsMultiple
<1> QED
  BY <1>2

\* Every quarter hour that a snapshot covers is sampled.
LEMMA CoveredIsSampled ==
  ASSUME NEW snap, snap.source \in {"live", "synthetic"}, NEW u \in Int, snap.start = Step * u
  PROVE  {q \in 0..(snap.start + Horizon - 1) : q >= snap.start /\ q % Step = 0}
           \subseteq DOMAIN Samples(Series(snap), snap.start, StepOf(snap))
<1> DEFINE step == StepOf(snap)  n == Length(snap)
<1>1. Step \in Nat \ {0} /\ LiveStep \in Nat \ {0} /\ Horizon \in Nat \ {0}
  BY StepsAreSlots
<1>2. PICK r \in Nat \ {0} : step = Step * r
  <2>1. CASE snap.source = "live"
    BY <2>1, StepsAreSlots DEF StepOf
  <2>2. CASE snap.source = "synthetic"
    <3>1. step = Step * 1
      BY <1>1, <2>2 DEF StepOf
    <3> QED
      BY <3>1
  <2> QED
    BY <2>1, <2>2
<1>3. step \in Nat \ {0}
  BY <1>1, <1>2
<1>4. n = (Horizon + step - 1) \div step
  BY DEF Length
<1> HIDE DEF step, n
<1>5. n \in Nat \ {0} /\ n * step >= Horizon
  <2> DEFINE t == Horizon + step - 1
  <2>1. t \in Int /\ t >= step
    BY <1>1, <1>3
  <2>2. n = t \div step
    BY <1>4
  <2> HIDE DEF t
  <2>3. n \in Int /\ t % step \in 0..(step - 1) /\ t = step * n + (t % step)
    BY <1>3, <2>1, <2>2, Quotient
  <2>4. step * n \in Int /\ step * n = n * step
    BY <1>3, <2>3
  <2>5. step * n > t - step
    BY <1>3, <2>1, <2>3, <2>4
  <2>6. step * n >= Horizon
    BY <1>1, <1>3, <2>4, <2>5 DEF t
  <2>7. n > 0
    <3> SUFFICES ASSUME n <= 0 PROVE FALSE
      BY <2>3
    <3>1. step * n <= 0
      BY <1>3, <2>3
    <3> QED
      BY <1>1, <2>4, <2>6, <3>1
  <2> QED
    BY <2>3, <2>4, <2>6, <2>7
<1>6. DOMAIN Series(snap) = 0..(n - 1)
  BY DEF Series, n
<1>7. DOMAIN Samples(Series(snap), snap.start, step) = SlotsOf(snap.start, n, step)
  BY <1>5, <1>6, SampledSlots
<1>8. ASSUME NEW q \in 0..(snap.start + Horizon - 1), q >= snap.start, q % Step = 0
      PROVE  q \in SlotsOf(snap.start, n, step)
  <2>1. Step * u \in Int
    BY <1>1
  <2>2. q \in Int /\ q >= Step * u /\ q <= Step * u + Horizon - 1
    BY <1>1, <1>8, <2>1
  <2>3. n * (Step * r) >= Horizon
    BY <1>2, <1>5
  <2>4. q \in SlotsOf(Step * u, n, Step * r)
    BY <1>2, <1>5, <1>8, <2>2, <2>3, SpanIsCovered
  <2> QED
    BY <1>2, <2>4
<1> QED
  BY <1>7, <1>8 DEF step

\* The last half hour measured is one, and none before the snapshot's own.
LEMMA LastMeasured ==
  ASSUME NEW snap, snap.start \in Int, snap.fetched \in Int, now \in Int, Measured(snap) # {}
  PROVE  \E p \in Int : /\ Max(Measured(snap)) = LiveStep * p
                        /\ FloorTo(snap.start, LiveStep) <= LiveStep * p
<1> DEFINE top == Max({now, snap.fetched}) - LiveStep  from == FloorTo(snap.start, LiveStep)
<1>1. LiveStep \in Nat \ {0}
  BY StepsAreSlots
<1>2. from \in Int
  BY <1>1, FloorIsMultiple
<1>3. Max({now, snap.fetched}) \in {now, snap.fetched}
  BY MaxOfTwo
<1>4. top \in Int
  BY <1>1, <1>3
<1>5. Measured(snap) = {p \in from..top : p % LiveStep = 0}
  BY DEF Measured
<1> HIDE DEF top, from
<1>6. Measured(snap) \subseteq Int /\ \A x \in Measured(snap) : x <= top
  BY <1>2, <1>4, <1>5
<1>7. Max(Measured(snap)) \in Measured(snap)
  BY <1>4, <1>6, MaxOfBounded
<1> DEFINE last == Max(Measured(snap))
<1>8. last \in Int /\ from <= last /\ last % LiveStep = 0
  BY <1>2, <1>4, <1>5, <1>7
<1> HIDE DEF last
<1>9. last \div LiveStep \in Int /\ last = LiveStep * (last \div LiveStep)
  BY <1>1, <1>8, Quotient
<1> QED
  BY <1>8, <1>9 DEF last, from

\* Half hours that have begun are at most those measured.
LEMMA StepsAreMeasured ==
  ASSUME NEW d \in Nat, NEW a \in 0..(LiveStep - 1)
  PROVE  Round(LiveStep * d - a, LiveStep) \in {d - 1, d}
<1>1. LiveStep \in Nat \ {0} /\ 2 * LiveStep \in Nat \ {0}
  BY StepsAreSlots
<1>2. Round(LiveStep * d - a, LiveStep) = (2 * (LiveStep * d - a) + LiveStep) \div (2 * LiveStep)
  BY DEF Round
<1>3. CASE 2 * a <= LiveStep
  <2>1. LiveStep - 2 * a \in 0..(2 * LiveStep - 1)
    BY <1>1, <1>3
  <2>2. ((2 * LiveStep) * d + (LiveStep - 2 * a)) \div (2 * LiveStep) = d
    <3> DEFINE s == 2 * LiveStep  rest == LiveStep - 2 * a
    <3>1. s \in Nat \ {0} /\ rest \in 0..(s - 1) /\ d \in Int
      BY <1>1, <2>1
    <3> HIDE DEF s, rest
    <3>2. (s * d + rest) \div s = d
      BY <3>1, QuotientIs
    <3> QED
      BY <3>2 DEF s, rest
  <2>3. 2 * (LiveStep * d - a) + LiveStep = (2 * LiveStep) * d + (LiveStep - 2 * a)
    BY <1>1
  <2> QED
    BY <1>2, <2>2, <2>3
<1>4. CASE 2 * a > LiveStep
  <2>1. 3 * LiveStep - 2 * a \in 0..(2 * LiveStep - 1)
    BY <1>1, <1>4
  <2>2. ((2 * LiveStep) * (d - 1) + (3 * LiveStep - 2 * a)) \div (2 * LiveStep) = d - 1
    <3> DEFINE s == 2 * LiveStep  rest == 3 * LiveStep - 2 * a  e == d - 1
    <3>1. s \in Nat \ {0} /\ rest \in 0..(s - 1) /\ e \in Int
      BY <1>1, <2>1
    <3> HIDE DEF s, rest, e
    <3>2. (s * e + rest) \div s = e
      BY <3>1, QuotientIs
    <3> QED
      BY <3>2 DEF s, rest, e
  <2>3. 2 * (LiveStep * d - a) + LiveStep = (2 * LiveStep) * (d - 1) + (3 * LiveStep - 2 * a)
    BY <1>1
  <2> QED
    BY <1>2, <2>2, <2>3
<1> QED
  BY <1>1, <1>3, <1>4

\* So many steps of the measured series, and each holds its own half hour.
LEMMA ActualHoldsItsOwn ==
  ASSUME NEW snap, snap.start \in Int, snap.fetched \in Int, now \in Int, Measured(snap) # {},
         NEW k \in Int, NEW a \in 0..(LiveStep - 1), snap.start = LiveStep * k + a
  PROVE  /\ ActualSteps(snap) \in Nat \ {0}
         /\ \A i \in 0..(ActualSteps(snap) - 1) : ActualSeries(snap)[i] = LiveStep * (k + i)
<1>1. LiveStep \in Nat \ {0}
  BY StepsAreSlots
<1>2. FloorTo(snap.start, LiveStep) = LiveStep * k
  BY <1>1, FloorIs
<1>3. PICK p \in Int : Max(Measured(snap)) = LiveStep * p /\ LiveStep * k <= LiveStep * p
  BY <1>2, LastMeasured
<1> DEFINE d == p - k
<1>4. d \in Int /\ LiveStep * d = LiveStep * p - LiveStep * k
  BY <1>1
<1>5. LiveStep * k \in Int /\ LiveStep * p \in Int
  BY <1>1
<1>6. d \in Nat
  <2> HIDE DEF d
  <2> SUFFICES ASSUME d <= -1 PROVE FALSE
    BY <1>4
  <2>1. LiveStep * d <= -LiveStep
    BY <1>1, <1>4
  <2> QED
    BY <1>1, <1>3, <1>4, <1>5, <2>1
<1>7. Max(Measured(snap)) - snap.start = LiveStep * d - a
  BY <1>3, <1>4, <1>5
<1> HIDE DEF d
<1> DEFINE rounded == Round(Max(Measured(snap)) - snap.start, LiveStep)
<1>8. rounded \in {d - 1, d}
  BY <1>6, <1>7, StepsAreMeasured
<1>9. ActualSteps(snap) = Max({1, rounded + 1})
  BY DEF ActualSteps
<1> HIDE DEF rounded
<1>10. rounded + 1 \in Int
  BY <1>6, <1>8
<1>11. Max({1, rounded + 1}) \in {1, rounded + 1} /\ Max({1, rounded + 1}) >= 1
  <2> DEFINE steps == rounded + 1
  <2>1. steps \in Int /\ 1 \in Int
    BY <1>10
  <2> HIDE DEF steps
  <2>2. Max({1, steps}) \in {1, steps} /\ Max({1, steps}) >= 1
    BY <2>1, MaxOfTwo
  <2> QED
    BY <2>2 DEF steps
<1>12. ActualSteps(snap) \in Nat \ {0} /\ ActualSteps(snap) <= d + 1
  BY <1>6, <1>8, <1>9, <1>11
<1>13. ASSUME NEW i \in 0..(ActualSteps(snap) - 1)
       PROVE  ActualSeries(snap)[i] = LiveStep * (k + i)
  <2>1. i \in Nat /\ i <= d
    BY <1>6, <1>12
  <2>2. snap.start + i * LiveStep = LiveStep * (k + i) + a
    BY <1>1, <1>5, <2>1
  <2>3. FloorTo(snap.start + i * LiveStep, LiveStep) = LiveStep * (k + i)
    <3> DEFINE m == k + i
    <3>1. m \in Int
      BY <2>1
    <3> HIDE DEF m
    <3>2. FloorTo(LiveStep * m + a, LiveStep) = LiveStep * m
      BY <1>1, <3>1, FloorIs
    <3> QED
      BY <2>2, <3>2 DEF m
  <2>4. LiveStep * (k + i) \in Int /\ LiveStep * (k + i) <= LiveStep * p
    <3>1. LiveStep * (d - i) >= 0
      BY <1>1, <1>6, <2>1
    <3>2. LiveStep * p - LiveStep * (k + i) = LiveStep * (d - i)
      BY <1>1, <2>1 DEF d
    <3>3. LiveStep * (k + i) \in Int
      BY <1>1, <2>1
    <3> QED
      BY <1>5, <3>1, <3>2, <3>3
  <2>5. Min({LiveStep * (k + i), LiveStep * p}) = LiveStep * (k + i)
    <3> DEFINE x == LiveStep * (k + i)  y == LiveStep * p
    <3>1. x \in Int /\ y \in Int /\ x <= y
      BY <1>5, <2>4
    <3> HIDE DEF x, y
    <3>2. Min({x, y}) \in {x, y} /\ Min({x, y}) <= x
      BY <3>1, MinOfTwo
    <3>3. Min({x, y}) = x
      BY <3>1, <3>2
    <3> QED
      BY <3>3 DEF x, y
  <2>6. ActualSeries(snap)[i]
          = Min({FloorTo(snap.start + i * LiveStep, LiveStep), Max(Measured(snap))})
    BY DEF ActualSeries
  <2> QED
    BY <1>3, <2>3, <2>5, <2>6
<1> QED
  BY <1>12, <1>13

\* A slot lies in the half hour whose measurement it is given, or in the next.
LEMMA SlotHalfHour ==
  ASSUME NEW r \in Nat \ {0}, LiveStep = Step * r, NEW k \in Int, NEW a \in 0..(LiveStep - 1),
         NEW m \in Nat
  PROVE  /\ m \div r \in Nat
         /\ (Step * m + Step \div 2) \div LiveStep = m \div r
         /\ FloorTo((LiveStep * k + a) + Step * m, LiveStep) - LiveStep * (k + m \div r)
              \in {0, LiveStep}
<1>1. Step \in Nat \ {0} /\ LiveStep \in Nat \ {0}
  BY StepsAreSlots
<1> DEFINE j == m \div r  e == m % r
<1>2. j \in Int /\ e \in 0..(r - 1) /\ m = r * j + e
  <2>1. r \in Nat \ {0} /\ m \in Int
    OBVIOUS
  <2> QED
    BY <2>1, Quotient
<1> HIDE DEF j, e
<1>3. j \in Nat
  <2> SUFFICES ASSUME j <= -1 PROVE FALSE
    BY <1>2
  <2>1. r * j <= -r
    BY <1>2
  <2> QED
    BY <1>2, <2>1
<1>4. Step * m = LiveStep * j + Step * e
  <2>1. Step * m = Step * (r * j) + Step * e
    BY <1>1, <1>2
  <2>2. Step * (r * j) = LiveStep * j
    BY <1>1, <1>2
  <2> QED
    BY <2>1, <2>2
<1>5. Step * e \in 0..(LiveStep - Step)
  <2>1. Step * e \in Int /\ Step * e >= 0
    BY <1>1, <1>2
  <2>2. Step * (r - 1 - e) >= 0
    BY <1>1, <1>2
  <2>3. Step * (r - 1 - e) = LiveStep - Step - Step * e
    BY <1>1, <1>2
  <2> QED
    BY <1>1, <2>1, <2>2, <2>3
<1> DEFINE w == Step * e
<1>6. w \in 0..(LiveStep - Step) /\ Step * m = LiveStep * j + w
  BY <1>4, <1>5
<1> HIDE DEF w
<1>7. (Step * m + Step \div 2) \div LiveStep = j
  <2>1. Step \div 2 \in 0..(Step - 1)
    BY <1>1
  <2>2. w + Step \div 2 \in 0..(LiveStep - 1)
    BY <1>1, <1>6, <2>1
  <2> DEFINE rest == w + Step \div 2
  <2>3. rest \in 0..(LiveStep - 1) /\ Step * m + Step \div 2 = LiveStep * j + rest
    BY <1>1, <1>3, <1>6, <2>1, <2>2
  <2> HIDE DEF rest
  <2>4. (LiveStep * j + rest) \div LiveStep = j
    BY <1>1, <1>3, <2>3, QuotientIs
  <2> QED
    BY <2>3, <2>4
<1>8. FloorTo((LiveStep * k + a) + Step * m, LiveStep) - LiveStep * (k + j) \in {0, LiveStep}
  <2> DEFINE x == k + j  t == (LiveStep * k + a) + Step * m
  <2>1. x \in Int /\ LiveStep * x \in Int
    BY <1>1, <1>3
  <2>2. t = LiveStep * x + (a + w)
    <3>1. LiveStep * x = LiveStep * k + LiveStep * j
      BY <1>1, <1>3
    <3>2. LiveStep * k \in Int /\ LiveStep * j \in Int
      BY <1>1, <1>3
    <3> HIDE DEF x
    <3> QED
      BY <1>1, <1>6, <2>1, <3>1, <3>2
  <2>3. FloorTo(t, LiveStep) \in {LiveStep * x, LiveStep * (x + 1)}
    <3> HIDE DEF x, t
    <3>1. CASE a + w < LiveStep
      <4> DEFINE rest == a + w
      <4>1. rest \in 0..(LiveStep - 1) /\ t = LiveStep * x + rest
        BY <1>1, <1>6, <2>2, <3>1
      <4> HIDE DEF rest
      <4>2. FloorTo(LiveStep * x + rest, LiveStep) = LiveStep * x
        BY <1>1, <2>1, <4>1, FloorIs
      <4> QED
        BY <4>1, <4>2
    <3>2. CASE a + w >= LiveStep
      <4> DEFINE rest == a + w - LiveStep  next == x + 1
      <4>1. rest \in 0..(LiveStep - 1)
        BY <1>1, <1>6, <3>2
      <4>2. next \in Int /\ LiveStep * next = LiveStep * x + LiveStep
        BY <1>1, <2>1
      <4>3. t = LiveStep * next + rest
        BY <1>1, <1>6, <2>1, <2>2, <4>2
      <4> HIDE DEF rest, next
      <4>4. FloorTo(LiveStep * next + rest, LiveStep) = LiveStep * next
        BY <1>1, <4>1, <4>2, FloorIs
      <4> QED
        BY <4>3, <4>4 DEF next
    <3>3. a + w \in Int
      BY <1>1, <1>6
    <3> QED
      BY <1>1, <3>1, <3>2, <3>3
  <2>4. LiveStep * (x + 1) = LiveStep * x + LiveStep
    BY <1>1, <2>1
  <2>5. FloorTo(t, LiveStep) - LiveStep * x \in {0, LiveStep}
    <3> HIDE DEF x, t
    <3> QED
      BY <1>1, <2>1, <2>3, <2>4
  <2> QED
    BY <2>5
<1> QED
  BY <1>3, <1>7, <1>8 DEF j

LEMMA ClampsToItself ==
  ASSUME NEW i \in Int, NEW lo \in Int, NEW hi \in Int, lo <= i, i <= hi
  PROVE  Clamp(i, lo, hi) = i
<1>1. Min({i, hi}) \in {i, hi} /\ Min({i, hi}) <= i /\ Min({i, hi}) <= hi
  BY MinOfTwo
<1>2. Min({i, hi}) = i
  BY <1>1
<1>3. Max({lo, i}) \in {lo, i} /\ Max({lo, i}) >= lo /\ Max({lo, i}) >= i
  BY MaxOfTwo
<1>4. Max({lo, i}) = i
  BY <1>3
<1> QED
  BY <1>2, <1>4 DEF Clamp

\* What the operator measured is stored in its own time.
LEMMA ActualInTime ==
  ASSUME NEW snap, snap.start \in Int, snap.fetched \in Int, now \in Int, Measured(snap) # {},
         NEW u \in Int, snap.start = Step * u
  PROVE  MeasuredInTime(Samples(ActualSeries(snap), snap.start, LiveStep))
<1> DEFINE samples == Samples(ActualSeries(snap), snap.start, LiveStep)  n == ActualSteps(snap)
<1>1. Step \in Nat \ {0} /\ LiveStep \in Nat \ {0}
  BY StepsAreSlots
<1>2. PICK r \in Nat \ {0} : LiveStep = Step * r
  BY StepsAreSlots
<1> DEFINE k == snap.start \div LiveStep  a == snap.start % LiveStep
<1>3. k \in Int /\ a \in 0..(LiveStep - 1) /\ snap.start = LiveStep * k + a
  BY <1>1, Quotient
<1> HIDE DEF k, a
<1>4. n \in Nat \ {0} /\ \A i \in 0..(n - 1) : ActualSeries(snap)[i] = LiveStep * (k + i)
  BY <1>3, ActualHoldsItsOwn
<1>5. DOMAIN ActualSeries(snap) = 0..(n - 1)
  BY DEF ActualSeries
<1> HIDE DEF n
<1>6. Cardinality(DOMAIN ActualSeries(snap)) = n
  BY <1>4, <1>5, SizeOfDomain
<1>7. DOMAIN samples = SlotGrid(u, n * r)
  <2>1. DOMAIN samples = SlotsOf(snap.start, n, LiveStep)
    BY <1>4, <1>5, SampledSlots
  <2>2. SlotsOf(Step * u, n, Step * r) = SlotGrid(u, n * r)
    BY <1>4, SlotsAre
  <2> QED
    BY <1>2, <2>1, <2>2
<1>8. ASSUME NEW slot \in DOMAIN samples
      PROVE  /\ slot \in Int /\ slot % Step = 0
             /\ FloorTo(slot, LiveStep) - samples[slot] \in {0, LiveStep}
  <2>1. PICK m \in 0..(n * r - 1) : slot = Step * (u + m)
    BY <1>7, <1>8 DEF SlotGrid
  <2>2. n * r \in Nat
    BY <1>4
  <2>3. m \in Nat /\ m < n * r
    BY <2>1, <2>2
  <2> DEFINE v == u + m  j == m \div r
  <2>4. v \in Int /\ slot = Step * v
    BY <2>1, <2>3
  <2>5. slot \in Int /\ slot % Step = 0
    <3> HIDE DEF v
    <3>1. 0 \in 0..(Step - 1)
      BY <1>1
    <3>2. (Step * v + 0) % Step = 0
      BY <1>1, <2>4, <3>1, QuotientIs
    <3>3. Step * v \in Int /\ Step * v + 0 = Step * v
      BY <1>1, <2>4
    <3> QED
      BY <2>4, <3>2, <3>3
  <2>6. slot = snap.start + Step * m /\ Step * m \in Int /\ snap.start \in Int
    BY <1>1, <2>1, <2>3
  <2>7. /\ j \in Nat /\ (Step * m + Step \div 2) \div LiveStep = j
        /\ FloorTo((LiveStep * k + a) + Step * m, LiveStep) - LiveStep * (k + j) \in {0, LiveStep}
    BY <1>2, <1>3, <2>3, SlotHalfHour
  <2>8. j <= n - 1
    <3>1. m % r \in 0..(r - 1) /\ m = r * j + (m % r)
      BY <2>3, Quotient
    <3> HIDE DEF j
    <3> SUFFICES ASSUME j >= n PROVE FALSE
      BY <1>4, <2>7
    <3>2. r * (j - n) >= 0 /\ r * (j - n) = r * j - n * r /\ r * j \in Int
      BY <1>4, <2>7
    <3> QED
      BY <2>2, <2>3, <3>1, <3>2
  <2> HIDE DEF j, v
  <2>9. ((slot + Step \div 2) - snap.start) \div LiveStep = j
    <3>1. (slot + Step \div 2) - snap.start = Step * m + Step \div 2
      BY <1>1, <2>6
    <3> QED
      BY <2>7, <3>1
  <2>10. Clamp(j, 0, n - 1) = j
    BY <1>4, <2>7, <2>8, ClampsToItself
  <2>11. samples[slot] = ActualSeries(snap)[j]
    <3>1. samples[slot] = ValueAt(ActualSeries(snap), snap.start, LiveStep, slot + Step \div 2)
      BY <1>8 DEF Samples
    <3> DEFINE pos == ((slot + Step \div 2) - snap.start) \div LiveStep
               size == Cardinality(DOMAIN ActualSeries(snap))
    <3>2. samples[slot] = ActualSeries(snap)[Clamp(pos, 0, size - 1)]
      BY <3>1 DEF ValueAt
    <3>3. pos = j /\ size = n
      BY <1>6, <2>9
    <3> HIDE DEF pos, size, samples
    <3> QED
      BY <2>10, <3>2, <3>3
  <2>12. samples[slot] = LiveStep * (k + j)
    BY <1>4, <2>7, <2>8, <2>11
  <2> QED
    BY <1>3, <2>5, <2>6, <2>7, <2>12
<1> QED
  BY <1>8 DEF MeasuredInTime

-----------------------------------------------------------------------------
(* The signals' invariant.                                                  *)

LEMMA SignalsInitially == SignalsInit => SignalsInv
<1> SUFFICES ASSUME SignalsInit PROVE SignalsInv
  OBVIOUS
<1>1. Lookback \in Lookback..MaxTime
  BY SignalAssumption
<1>2. NoSnapshot \in Snapshots
  BY DEF NoSnapshot, Snapshots
<1>3. Idle \in [at : {"idle", "fetching"}, asked : Int, held : Snapshots] /\ Idle.at = "idle"
  BY <1>2 DEF Idle
<1>4. SignalsTypeOK
  BY <1>1, <1>2, <1>3 DEF SignalsInit, SignalsTypeOK
<1>5. DOMAIN stored["actual_carbon"] = {}
  BY DEF SignalsInit
<1>6. CoveredIsStored
  BY DEF SignalsInit, CoveredIsStored
<1> QED
  BY <1>4, <1>5, <1>6 DEF SignalsInv, MeasuredInTime

LEMMA Taken ==
  ASSUME NEW kind, NEW samples
  PROVE  /\ DOMAIN upsertMany(kind, samples) = DOMAIN samples \cup DOMAIN stored[kind]
         /\ \A slot \in DOMAIN samples : upsertMany(kind, samples)[slot] = samples[slot]
         /\ \A slot \in DOMAIN stored[kind] \ DOMAIN samples :
              upsertMany(kind, samples)[slot] = stored[kind][slot]
BY DEF upsertMany

\* Whatever snapshot is kept, what was covered stays in store and measurements in their time.
LEMMA KeepsKeeps ==
  ASSUME SignalsInv, NEW snap \in Snapshots, snap.source # "none", NEW u \in Int,
         snap.start = Step * u, Keeps(snap)
  PROVE  /\ cache' \in Snapshots /\ DOMAIN stored' = {"carbon", "actual_carbon"}
         /\ CoveredIsStored' /\ MeasuredInTime(stored["actual_carbon"])'
<1> DEFINE forecast == Samples(Series(snap), snap.start, StepOf(snap))
           actual == Samples(ActualSeries(snap), snap.start, LiveStep)
<1>1. snap.source \in {"live", "synthetic"} /\ snap.start \in Int /\ snap.fetched \in Int
  BY DEF Snapshots
<1>2. now \in Int /\ DOMAIN stored = {"carbon", "actual_carbon"}
  BY SignalAssumption DEF SignalsInv, SignalsTypeOK
<1>3. /\ cache' = snap /\ DOMAIN stored' = {"carbon", "actual_carbon"}
      /\ stored'["carbon"] = upsertMany("carbon", forecast)
      /\ stored'["actual_carbon"] = IF HasActual(snap) THEN upsertMany("actual_carbon", actual)
                                    ELSE stored["actual_carbon"]
      /\ covered' = covered \cup
           {q \in 0..(snap.start + Horizon - 1) : q >= snap.start /\ q % Step = 0}
  BY <1>2 DEF Keeps
<1>4. {q \in 0..(snap.start + Horizon - 1) : q >= snap.start /\ q % Step = 0} \subseteq DOMAIN forecast
  BY <1>1, CoveredIsSampled
<1>5. HasActual(snap) => MeasuredInTime(actual)
  BY <1>1, <1>2, ActualInTime DEF HasActual
<1>6. MeasuredInTime(stored["actual_carbon"]) /\ covered \subseteq DOMAIN stored["carbon"]
  BY DEF SignalsInv, CoveredIsStored
<1> HIDE DEF forecast, actual
<1>7. CoveredIsStored'
  <2>1. DOMAIN stored'["carbon"] = DOMAIN forecast \cup DOMAIN stored["carbon"]
    BY <1>3, Taken
  <2>2. covered' \subseteq DOMAIN stored'["carbon"]
    BY <1>3, <1>4, <1>6, <2>1
  <2> QED
    BY <2>2 DEF CoveredIsStored
<1>8. MeasuredInTime(stored'["actual_carbon"])
  <2>1. CASE HasActual(snap)
    <3>1. stored'["actual_carbon"] = upsertMany("actual_carbon", actual)
      BY <1>3, <2>1
    <3>2. MeasuredInTime(upsertMany("actual_carbon", actual))
      <4> DEFINE taken == upsertMany("actual_carbon", actual)
      <4>1. /\ DOMAIN taken = DOMAIN actual \cup DOMAIN stored["actual_carbon"]
            /\ \A slot \in DOMAIN actual : taken[slot] = actual[slot]
            /\ \A slot \in DOMAIN stored["actual_carbon"] \ DOMAIN actual :
                 taken[slot] = stored["actual_carbon"][slot]
        BY Taken
      <4> HIDE DEF taken
      <4>2. MeasuredInTime(actual) /\ MeasuredInTime(stored["actual_carbon"])
        BY <1>5, <1>6, <2>1
      <4>3. MeasuredInTime(taken)
        <5>1. ASSUME NEW slot \in DOMAIN taken
              PROVE  /\ slot \in Int /\ slot % Step = 0
                     /\ FloorTo(slot, LiveStep) - taken[slot] \in {0, LiveStep}
          <6>1. CASE slot \in DOMAIN actual
            BY <4>1, <4>2, <6>1 DEF MeasuredInTime
          <6>2. CASE slot \notin DOMAIN actual
            BY <4>1, <4>2, <5>1, <6>2 DEF MeasuredInTime
          <6> QED
            BY <6>1, <6>2
        <5> QED
          BY <5>1 DEF MeasuredInTime
      <4> QED
        BY <4>3 DEF taken
    <3> QED
      BY <3>1, <3>2
  <2>2. CASE ~HasActual(snap)
    BY <1>3, <1>6, <2>2
  <2> QED
    BY <2>1, <2>2
<1>9. MeasuredInTime(stored["actual_carbon"])'
  BY <1>8 DEF MeasuredInTime
<1> QED
  BY <1>3, <1>7, <1>9

LEMMA SignalsStep == SignalsInv /\ [SignalsNext]_signalVars => SignalsInv'
<1> SUFFICES ASSUME SignalsInv, [SignalsNext]_signalVars PROVE SignalsInv'
  OBVIOUS
<1> DEFINE Waits == [at : {"idle", "fetching"}, asked : Int, held : Snapshots]
<1>1. Lookback \in Nat \ {0} /\ MaxTime \in Nat
  BY SignalAssumption
<1>2. now \in Lookback..MaxTime /\ now \in Int
  BY <1>1 DEF SignalsInv, SignalsTypeOK
<1>3. CASE UNCHANGED signalVars
  BY <1>3 DEF signalVars, SignalsInv, SignalsTypeOK, CoveredIsStored, MeasuredInTime
<1>4. ASSUME NEW c \in Callers, Cached(c) PROVE SignalsInv'
  BY <1>4 DEF Cached, signalVars, SignalsInv, SignalsTypeOK, CoveredIsStored, MeasuredInTime
<1>5. ASSUME NEW c \in Callers, Asks(c) PROVE SignalsInv'
  <2> DEFINE wait == [at |-> "fetching", asked |-> now, held |-> cache]
  <2>1. wait \in Waits /\ wait.asked \in Lookback..MaxTime
    BY <1>2 DEF SignalsInv, SignalsTypeOK
  <2>2. callers' = [callers EXCEPT ![c] = wait]
    BY <1>5 DEF Asks
  <2> HIDE DEF wait
  <2>3. /\ callers' \in [Callers -> Waits]
        /\ \A d \in Callers : callers'[d].at = "fetching" => callers'[d].asked \in Lookback..MaxTime
    BY <2>1, <2>2 DEF SignalsInv, SignalsTypeOK
  <2>4. SignalsTypeOK'
    BY <1>5, <2>3 DEF Asks, SignalsInv, SignalsTypeOK
  <2> QED
    BY <1>5, <2>4 DEF Asks, SignalsInv, CoveredIsStored, MeasuredInTime
<1>6. NoSnapshot \in Snapshots /\ Idle \in Waits /\ Idle.at = "idle"
  BY DEF NoSnapshot, Snapshots, Idle
<1>7. ASSUME NEW c \in Callers, Returns(c)
      PROVE  /\ callers' \in [Callers -> Waits]
             /\ \A d \in Callers : callers'[d].at = "fetching" => callers'[d].asked \in Lookback..MaxTime
  BY <1>6, <1>7 DEF Returns, SignalsInv, SignalsTypeOK
<1>8. ASSUME NEW c \in Callers, callers[c].at = "fetching", NEW source \in {"live", "synthetic"},
             Keeps([start |-> StartOf(c), source |-> source, fetched |-> callers[c].asked]),
             Returns(c), now' = now
      PROVE  SignalsInv'
  <2> DEFINE snap == [start |-> StartOf(c), source |-> source, fetched |-> callers[c].asked]
  <2>1. callers[c].asked \in Lookback..MaxTime
    BY <1>8 DEF SignalsInv, SignalsTypeOK
  <2>2. callers[c].asked \in Int /\ callers[c].asked - Lookback \in Int
    BY <1>1, <2>1
  <2>3. PICK u \in Int : StartOf(c) = Step * u
    BY <2>2, StartIsSlot DEF StartOf
  <2>4. StartOf(c) \in Int
    BY <2>3, StepsAreSlots
  <2>5. snap \in Snapshots /\ snap.source # "none" /\ snap.start = Step * u /\ Keeps(snap)
    BY <1>8, <2>2, <2>3, <2>4 DEF Snapshots
  <2> HIDE DEF snap
  <2>6. /\ cache' \in Snapshots /\ DOMAIN stored' = {"carbon", "actual_carbon"}
        /\ CoveredIsStored' /\ MeasuredInTime(stored["actual_carbon"])'
    BY <2>5, KeepsKeeps
  <2>7. SignalsTypeOK'
    BY <1>2, <1>7, <1>8, <2>6 DEF SignalsTypeOK
  <2> QED
    BY <2>6, <2>7 DEF SignalsInv
<1>9. ASSUME NEW c \in Callers, Answers(c) PROVE SignalsInv'
  BY <1>8, <1>9 DEF Answers
<1>10. ASSUME NEW c \in Callers, Fails(c) PROVE SignalsInv'
  <2>1. CASE callers[c].held # NoSnapshot
    <3>1. Returns(c) /\ UNCHANGED <<now, cache, stored, covered>>
      BY <1>10, <2>1 DEF Fails
    <3>2. SignalsTypeOK'
      BY <1>7, <3>1 DEF SignalsInv, SignalsTypeOK
    <3> QED
      BY <3>1, <3>2 DEF SignalsInv, CoveredIsStored, MeasuredInTime
  <2>2. CASE callers[c].held = NoSnapshot
    BY <1>8, <1>10, <2>2 DEF Fails
  <2> QED
    BY <2>1, <2>2
<1>11. CASE Tick
  <2>1. now' \in Lookback..MaxTime
    BY <1>1, <1>2, <1>11 DEF Tick
  <2>2. SignalsTypeOK'
    BY <1>11, <2>1 DEF Tick, SignalsInv, SignalsTypeOK
  <2> QED
    BY <1>11, <2>2 DEF Tick, SignalsInv, CoveredIsStored, MeasuredInTime
<1>12. ASSUME NEW t \in Jumps, Jump(t) PROVE SignalsInv'
  <2>1. now' \in Lookback..MaxTime
    BY <1>12, SignalAssumption DEF Jump
  <2>2. SignalsTypeOK'
    BY <1>12, <2>1 DEF Jump, SignalsInv, SignalsTypeOK
  <2> QED
    BY <1>12, <2>2 DEF Jump, SignalsInv, CoveredIsStored, MeasuredInTime
<1> QED
  BY <1>3, <1>4, <1>5, <1>9, <1>10, <1>11, <1>12 DEF SignalsNext

\* A snapshot starts where its caller asked for one, on the grid of slots; what any snapshot ever
\* covered can be looked up, and what was measured is kept for the half hour it was measured in or
\* the next, however callers, answers, failures and jumps of the clock interleave (service.ts).
THEOREM SignalsInvariant == SignalsSpec => []SignalsInv
<1> QED
  BY SignalsInitially, SignalsStep, PTL DEF SignalsSpec

-----------------------------------------------------------------------------
LEMMA WindowIsFinite ==
  ASSUME NEW from \in Int, NEW to \in Int
  PROVE  IsFiniteSet(Window(from, to))
<1> DEFINE lo == FloorTo(from, Step)  hi == Max({CeilTo(to, Step), lo + Step})
<1>1. Step \in Nat \ {0}
  BY StepsAreSlots
<1>2. lo \in Int /\ CeilTo(to, Step) \in Int
  BY <1>1, FloorIsMultiple DEF CeilTo
<1>3. hi \in Int
  <2> DEFINE x == CeilTo(to, Step)  y == lo + Step
  <2>1. x \in Int /\ y \in Int
    BY <1>1, <1>2
  <2> HIDE DEF x, y
  <2>2. Max({x, y}) \in {x, y}
    BY <2>1, MaxOfTwo
  <2>3. Max({x, y}) \in Int
    BY <2>1, <2>2
  <2> QED
    BY <2>3 DEF x, y
<1>4. Window(from, to) \subseteq lo..(hi - 1)
  BY DEF Window
<1> HIDE DEF lo, hi
<1>5. hi - 1 \in Int
  BY <1>3
<1>6. IsFiniteSet(lo..(hi - 1))
  BY <1>2, <1>5, FS_Interval
<1> QED
  BY <1>4, <1>6, FS_Subset

\* Measurements of a window are as many as its quarter hours only if each has one.
LEMMA ActualIsWhole ==
  ASSUME SignalsInv, NEW from \in Int, NEW to \in Int, Basis(from, to) = "actual"
  PROVE  Window(from, to) \subseteq DOMAIN stored["actual_carbon"]
<1> DEFINE listed == ListedSlots("actual_carbon", from, to)  window == Window(from, to)
<1>1. \A slot \in listed : slot \in Int /\ slot % Step = 0
  BY DEF SignalsInv, MeasuredInTime, ListedSlots
<1> DEFINE lo == FloorTo(from, Step)  hi == Max({CeilTo(to, Step), FloorTo(from, Step) + Step})
<1>2. lo \in Int /\ hi \in Int
  <2>1. Step \in Nat \ {0}
    BY StepsAreSlots
  <2>2. lo \in Int /\ CeilTo(to, Step) \in Int
    BY <2>1, FloorIsMultiple DEF CeilTo
  <2> DEFINE x == CeilTo(to, Step)  y == FloorTo(from, Step) + Step
  <2>3. x \in Int /\ y \in Int
    BY <2>1, <2>2
  <2> HIDE DEF x, y
  <2>4. Max({x, y}) \in {x, y}
    BY <2>3, MaxOfTwo
  <2>5. Max({x, y}) \in Int
    BY <2>3, <2>4
  <2> QED
    BY <2>2, <2>5 DEF x, y
<1>3. window = {q \in lo..(hi - 1) : q % Step = 0}
  BY DEF Window
<1>4. \A slot \in listed : lo <= slot /\ slot < hi
  BY DEF ListedSlots
<1>5. listed \subseteq DOMAIN stored["actual_carbon"]
  BY DEF ListedSlots
<1>6. IsFiniteSet(window)
  BY WindowIsFinite
<1>7. Cardinality(listed) >= Cardinality(window)
  BY DEF Basis
<1> HIDE DEF listed, window, lo, hi
<1>8. listed \subseteq window
  BY <1>1, <1>2, <1>3, <1>4
<1>9. IsFiniteSet(listed) /\ Cardinality(listed) <= Cardinality(window)
      /\ (Cardinality(listed) = Cardinality(window) => listed = window)
  BY <1>6, <1>8, FS_Subset
<1>10. Cardinality(listed) \in Nat /\ Cardinality(window) \in Nat
  BY <1>6, <1>9, FS_CardinalityType
<1>11. listed = window
  BY <1>7, <1>9, <1>10
<1> QED
  BY <1>5, <1>11 DEF window

\* A report finds every quarter hour that some snapshot covered, and one that says "actual" leaves
\* no quarter hour to a forecast and takes none from another time (historicalSignals and persist in
\* service.ts), for any steps, lookback, horizon, callers, failures and jumps of the clock.
THEOREM TheSignalsAreTrue == SignalsSpec => []SignalsAreTrue
<1>1. ASSUME SignalsInv PROVE SignalsAreTrue
  <2>1. now \in Int
    BY <1>1, SignalAssumption DEF SignalsInv, SignalsTypeOK
  <2>2. ASSUME NEW w \in Windows PROVE w[1] \in Int /\ w[2] \in Int
    BY <2>1, <2>2 DEF Windows
  <2>3. HistoryIsFound
    <3>1. ASSUME NEW w \in Windows PROVE Window(w[1], w[2]) \cap covered \subseteq Found(w[1], w[2])
      <4>1. CASE Basis(w[1], w[2]) = "actual"
        <5>1. Window(w[1], w[2]) \subseteq DOMAIN stored["actual_carbon"]
          BY <1>1, <2>2, <3>1, <4>1, ActualIsWhole
        <5> QED
          BY <4>1, <5>1 DEF Found, SourceOf
      <4>2. CASE Basis(w[1], w[2]) # "actual"
        BY <1>1, <4>2 DEF Found, SourceOf, SignalsInv, CoveredIsStored
      <4> QED
        BY <4>1, <4>2
    <3> QED
      BY <3>1 DEF HistoryIsFound
  <2>4. ActualIsNotForecast
    <3>1. ASSUME NEW w \in Windows, Basis(w[1], w[2]) = "actual"
          PROVE  /\ Window(w[1], w[2]) \subseteq Found(w[1], w[2])
                 /\ \A q \in Window(w[1], w[2]) :
                      FloorTo(q, LiveStep) - stored["actual_carbon"][q] \in {0, LiveStep}
      <4>1. Window(w[1], w[2]) \subseteq DOMAIN stored["actual_carbon"]
        BY <1>1, <2>2, <3>1, ActualIsWhole
      <4>2. Window(w[1], w[2]) \subseteq Found(w[1], w[2])
        BY <3>1, <4>1 DEF Found, SourceOf
      <4> QED
        BY <1>1, <4>1, <4>2 DEF SignalsInv, MeasuredInTime
    <3> QED
      BY <3>1 DEF ActualIsNotForecast
  <2> QED
    BY <2>3, <2>4 DEF SignalsAreTrue
<1> QED
  BY <1>1, SignalsInvariant, PTL
=============================================================================
