---------------------------- MODULE LedgerProofs ----------------------------
(***************************************************************************)
(* Every statement the runtime runs on the ledger keeps its tables sound,  *)
(* for any requests, buckets, definitions, limits and processes.           *)
(***************************************************************************)
EXTENDS Ledger, FiniteSetTheorems, TLAPS

\* An empty ledger, as a fresh boot finds it, is sound.
LEMMA EmptySound == Sound(EmptyLedger)
<1> USE LedgerAssumption
<1>1. EmptyLedger \in Tables
  BY DEF EmptyLedger, Tables
<1>2. RowShape(EmptyLedger)
  BY DEF EmptyLedger, RowShape, Terminal
<1>3. Agreed(EmptyLedger)
  BY DEF EmptyLedger, Agreed, Active
<1>4. SlotsWithin(EmptyLedger)
  BY DEF EmptyLedger, SlotsWithin, Occupying
<1>5. StartsWithin(EmptyLedger)
  BY DEF EmptyLedger, StartsWithin
<1> QED
  BY <1>1, <1>2, <1>3, <1>4, <1>5 DEF Sound

\* The rows of one bucket are finitely many, and fewer rows count for less.
LEMMA RowsFinite ==
  ASSUME NEW S \in SUBSET Requests
  PROVE  IsFiniteSet(S) /\ Cardinality(S) \in Nat
BY LedgerAssumption, FS_Subset, FS_CardinalityType

\* A part of the rows is no more than all of them.
LEMMA FewerRows ==
  ASSUME NEW S \in SUBSET Requests, NEW T \in SUBSET S
  PROVE  Cardinality(T) <= Cardinality(S)
BY LedgerAssumption, RowsFinite, FS_Subset

\* Inserting a row adds at most one.
LEMMA OneMoreRow ==
  ASSUME NEW S \in SUBSET Requests, NEW r \in Requests
  PROVE  Cardinality(S \cup {r}) <= Cardinality(S) + 1
<1> IsFiniteSet(S) /\ Cardinality(S) \in Nat
  BY RowsFinite
<1> QED
  BY FS_AddElement

\* Deleting completed rows changes nothing else.
LEMMA DeleteFacts ==
  ASSUME NEW db \in Tables, RowShape(db), NEW gone \in SUBSET Completed(db)
  PROVE  /\ DeleteRows(db, gone) \in Tables
         /\ RowShape(DeleteRows(db, gone))
         /\ DeleteRows(db, gone).starts = db.starts
         /\ DeleteRows(db, gone).bucket = db.bucket
         /\ \A r \in Requests :
              \/ DeleteRows(db, gone).state[r] = db.state[r]
              \/ db.state[r] \in Terminal /\ DeleteRows(db, gone).state[r] = "absent"
<1> DEFINE new == DeleteRows(db, gone)
<1>1. new \in Tables
  BY DEF DeleteRows, Tables
<1>2. /\ new.starts = db.starts
      /\ new.bucket = db.bucket
      /\ \A r \in Requests : new.state[r] = IF r \in gone THEN "absent" ELSE db.state[r]
      /\ \A r \in Requests : new.finished[r] = IF r \in gone THEN NULL ELSE db.finished[r]
  BY DEF DeleteRows, Tables
<1>3. \A r \in gone : r \in Requests /\ db.state[r] \in Terminal
  BY DEF Completed, RowShape
<1>4. RowShape(new)
  BY <1>2 DEF RowShape, Terminal
<1> HIDE DEF new
<1> QED
  BY <1>1, <1>2, <1>3, <1>4 DEF new

-----------------------------------------------------------------------------
(* _maintain(), statement by statement *)

\* Reaping abandons the rows of the dead, and moves nothing else.
LEMMA ReapFacts ==
  ASSUME NEW db \in Tables, RowShape(db), NEW tick \in Nat, NEW living
  PROVE  LET m == Reap(db, tick, living) IN
         /\ m \in Tables
         /\ RowShape(m)
         /\ m.starts = db.starts
         /\ m.bucket = db.bucket
         /\ \A r \in Requests :
              m.state[r] = IF r \in DeadRows(db, living) THEN "abandoned" ELSE db.state[r]
<1> USE LedgerAssumption
<1> DEFINE m == Reap(db, tick, living)
<1>1. m \in Tables
  BY DEF Reap, Tables, Terminal
<1>2. /\ m.starts = db.starts
      /\ m.bucket = db.bucket
      /\ \A r \in Requests :
           /\ m.state[r] = IF r \in DeadRows(db, living) THEN "abandoned" ELSE db.state[r]
           /\ m.finished[r] = IF r \in DeadRows(db, living) THEN tick ELSE db.finished[r]
  BY DEF Reap, Tables
<1> HIDE DEF m
<1>3. RowShape(m)
  BY <1>2 DEF RowShape, Terminal
<1> QED
  BY <1>1, <1>2, <1>3 DEF m

\* Expiring forgets exactly the starts that have left the window.
LEMMA ExpireStartsFacts ==
  ASSUME NEW db \in Tables, RowShape(db), NEW tick \in Nat
  PROVE  LET m == ExpireStarts(db, tick) IN
         /\ m \in Tables
         /\ RowShape(m)
         /\ m.state = db.state
         /\ m.bucket = db.bucket
         /\ \A r \in Requests :
              m.starts[r] = IF Expired(db, r, tick) THEN NULL ELSE db.starts[r]
<1> USE LedgerAssumption
<1> DEFINE m == ExpireStarts(db, tick)
<1>1. m \in Tables
  BY DEF ExpireStarts, Tables
<1>2. /\ m.state = db.state
      /\ m.finished = db.finished
      /\ m.bucket = db.bucket
      /\ \A r \in Requests :
           m.starts[r] = IF Expired(db, r, tick) THEN NULL ELSE db.starts[r]
  BY DEF ExpireStarts, Tables
<1> HIDE DEF m
<1>3. RowShape(m)
  BY <1>2 DEF RowShape
<1> QED
  BY <1>1, <1>2, <1>3 DEF m

\* The two deletions of history take completed rows only.
LEMMA HistoryFacts ==
  ASSUME NEW db \in Tables, RowShape(db), NEW tick \in Nat
  PROVE  LET m == TrimHistory(ExpireHistory(db, tick)) IN
         /\ m \in Tables
         /\ RowShape(m)
         /\ m.starts = db.starts
         /\ m.bucket = db.bucket
         /\ \A r \in Requests : \/ m.state[r] = db.state[r]
                                \/ db.state[r] \in Terminal /\ m.state[r] = "absent"
<1> DEFINE old == {r \in Completed(db) : db.finished[r] < tick - RecentSeconds}
           e == DeleteRows(db, old)
           excess == {r \in Completed(e) :
             Cardinality({s \in Completed(e) : Precedes(e, s, r)}) >= RecentLimit}
<1>1. old \in SUBSET Completed(db)
  OBVIOUS
<1> HIDE DEF old
<1>2. /\ e \in Tables /\ RowShape(e) /\ e.starts = db.starts /\ e.bucket = db.bucket
      /\ \A r \in Requests : \/ e.state[r] = db.state[r]
                             \/ db.state[r] \in Terminal /\ e.state[r] = "absent"
  BY <1>1, DeleteFacts
<1> HIDE DEF e
<1>3. excess \in SUBSET Completed(e)
  OBVIOUS
<1>4. TrimHistory(ExpireHistory(db, tick)) = DeleteRows(e, excess)
  BY DEF TrimHistory, ExpireHistory, e, old
<1> HIDE DEF excess
<1> DEFINE m == DeleteRows(e, excess)
<1>5. /\ m \in Tables /\ RowShape(m) /\ m.starts = e.starts /\ m.bucket = e.bucket
      /\ \A r \in Requests : \/ m.state[r] = e.state[r]
                             \/ e.state[r] \in Terminal /\ m.state[r] = "absent"
  BY <1>2, <1>3, DeleteFacts
<1>6. "absent" \notin Terminal
  BY DEF Terminal
<1> HIDE DEF m
<1>7. \A r \in Requests : \/ m.state[r] = db.state[r]
                          \/ db.state[r] \in Terminal /\ m.state[r] = "absent"
  BY <1>2, <1>5, <1>6
<1> QED
  BY <1>2, <1>4, <1>5, <1>7 DEF m

\* A bucket is dropped only when no row and no start mentions it.
LEMMA DropBucketsFacts ==
  ASSUME NEW db \in Tables, RowShape(db)
  PROVE  LET m == DropBuckets(db) IN
         /\ m \in Tables
         /\ RowShape(m)
         /\ m.starts = db.starts
         /\ m.state = db.state
         /\ \A r \in Requests : db.state[r] # "absent" \/ db.starts[r] # NULL =>
              m.bucket[BucketOf[r]] = db.bucket[BucketOf[r]]
<1> USE LedgerAssumption
<1> DEFINE m == DropBuckets(db)
           used(b) == \E r \in Requests : /\ BucketOf[r] = b
                                          /\ db.state[r] # "absent" \/ db.starts[r] # NULL
<1>1. m \in Tables
  BY DEF DropBuckets, Tables
<1>2. /\ m.state = db.state /\ m.finished = db.finished /\ m.starts = db.starts
      /\ \A b \in Buckets : m.bucket[b] = IF used(b) THEN db.bucket[b] ELSE NULL
  BY DEF DropBuckets, Tables
<1>3. \A r \in Requests : db.state[r] # "absent" \/ db.starts[r] # NULL =>
        BucketOf[r] \in Buckets /\ used(BucketOf[r])
  OBVIOUS
<1> HIDE DEF m, used
<1>4. RowShape(m)
  BY <1>2 DEF RowShape
<1> QED
  BY <1>1, <1>2, <1>3, <1>4 DEF m

\* What _maintain() as a whole may do to a row: nothing, abandon it because
\* its process is dead, or delete it once it is completed; and it drops
\* exactly the starts that have left the window.
LEMMA MaintainFacts ==
  ASSUME NEW db \in Tables, RowShape(db), NEW tick \in Nat, NEW living
  PROVE  LET m == Maintain(db, tick, living) IN
         /\ m \in Tables
         /\ RowShape(m)
         /\ \A r \in Requests :
              m.starts[r] = IF Expired(db, r, tick) THEN NULL ELSE db.starts[r]
         /\ \A r \in Requests :
              \/ m.state[r] = db.state[r] /\ r \notin DeadRows(db, living)
              \/ m.state[r] \in {"abandoned", "absent"} /\ r \in DeadRows(db, living)
              \/ m.state[r] = "absent" /\ db.state[r] \in Terminal
         /\ \A r \in Requests : m.state[r] \in Active \/ m.starts[r] # NULL =>
              m.bucket[BucketOf[r]] = db.bucket[BucketOf[r]]
<1> DEFINE m1 == Reap(db, tick, living)
           m2 == ExpireStarts(m1, tick)
           m3 == TrimHistory(ExpireHistory(m2, tick))
           m == DropBuckets(m3)
<1>1. /\ m1 \in Tables /\ RowShape(m1) /\ m1.starts = db.starts /\ m1.bucket = db.bucket
      /\ \A r \in Requests :
           m1.state[r] = IF r \in DeadRows(db, living) THEN "abandoned" ELSE db.state[r]
  BY ReapFacts
<1> HIDE DEF m1
<1>2. /\ m2 \in Tables /\ RowShape(m2) /\ m2.state = m1.state /\ m2.bucket = m1.bucket
      /\ \A r \in Requests :
           m2.starts[r] = IF Expired(m1, r, tick) THEN NULL ELSE m1.starts[r]
  BY <1>1, ExpireStartsFacts
<1> HIDE DEF m2
<1>3. /\ m3 \in Tables /\ RowShape(m3) /\ m3.starts = m2.starts /\ m3.bucket = m2.bucket
      /\ \A r \in Requests : \/ m3.state[r] = m2.state[r]
                             \/ m2.state[r] \in Terminal /\ m3.state[r] = "absent"
  BY <1>2, HistoryFacts
<1> HIDE DEF m3
<1>4. /\ m \in Tables /\ RowShape(m) /\ m.starts = m3.starts /\ m.state = m3.state
      /\ \A r \in Requests : m3.state[r] # "absent" \/ m3.starts[r] # NULL =>
           m.bucket[BucketOf[r]] = m3.bucket[BucketOf[r]]
  BY <1>3, DropBucketsFacts
<1>5. m = Maintain(db, tick, living)
  BY DEF Maintain, m1, m2, m3
<1> HIDE DEF m
<1>6. \A r \in Requests :
        m.starts[r] = IF Expired(db, r, tick) THEN NULL ELSE db.starts[r]
  BY <1>1, <1>2, <1>3, <1>4 DEF Expired
<1>7. \A r \in Requests :
        \/ m.state[r] = db.state[r] /\ r \notin DeadRows(db, living)
        \/ m.state[r] \in {"abandoned", "absent"} /\ r \in DeadRows(db, living)
        \/ m.state[r] = "absent" /\ db.state[r] \in Terminal
  BY <1>1, <1>2, <1>3, <1>4
<1>8. \A r \in Requests : m.state[r] \in Active \/ m.starts[r] # NULL =>
        m.bucket[BucketOf[r]] = db.bucket[BucketOf[r]]
  BY <1>1, <1>2, <1>3, <1>4 DEF Active
<1> QED
  BY <1>4, <1>5, <1>6, <1>7, <1>8

-----------------------------------------------------------------------------
(* Each transaction keeps the tables sound *)

\* Counting fewer rows under an unchanged limit.
LEMMA CountsShrink ==
  ASSUME NEW db, NEW m,
         \A r \in Requests : m.state[r] \in Occupying => db.state[r] \in Occupying,
         \A r \in Requests : m.starts[r] # NULL => db.starts[r] # NULL,
         SlotsWithin(db), StartsWithin(db)
  PROVE  SlotsWithin(m) /\ StartsWithin(m)
<1> USE LedgerAssumption
<1>1. ASSUME NEW r \in Requests, m.state[r] \in Occupying
      PROVE  Within(Cardinality(Occupied(m, BucketOf[r])), MaxConcurrent[DefinitionOf[r]])
  <2> DEFINE S == Occupied(db, BucketOf[r])
             T == Occupied(m, BucketOf[r])
  <2>1. S \in SUBSET Requests /\ T \in SUBSET S /\ T \in SUBSET Requests
    BY DEF Occupied, InBucket
  <2>2. Within(Cardinality(S), MaxConcurrent[DefinitionOf[r]])
    BY <1>1 DEF SlotsWithin
  <2> HIDE DEF S, T
  <2>3. /\ Cardinality(T) <= Cardinality(S)
        /\ Cardinality(S) \in Nat /\ Cardinality(T) \in Nat
    BY <2>1, FewerRows, RowsFinite
  <2>4. MaxConcurrent[DefinitionOf[r]] # NULL => MaxConcurrent[DefinitionOf[r]] \in Nat
    BY DEF Limit
  <2> QED
    BY <2>2, <2>3, <2>4 DEF Within, T
<1>2. ASSUME NEW r \in Requests, m.starts[r] # NULL
      PROVE  Within(Cardinality(RecentStarts(m, BucketOf[r])), PerMinute[DefinitionOf[r]])
  <2> DEFINE S == RecentStarts(db, BucketOf[r])
             T == RecentStarts(m, BucketOf[r])
  <2>1. S \in SUBSET Requests /\ T \in SUBSET S /\ T \in SUBSET Requests
    BY DEF RecentStarts, InBucket
  <2>2. Within(Cardinality(S), PerMinute[DefinitionOf[r]])
    BY <1>2 DEF StartsWithin
  <2> HIDE DEF S, T
  <2>3. /\ Cardinality(T) <= Cardinality(S)
        /\ Cardinality(S) \in Nat /\ Cardinality(T) \in Nat
    BY <2>1, FewerRows, RowsFinite
  <2>4. PerMinute[DefinitionOf[r]] # NULL => PerMinute[DefinitionOf[r]] \in Nat
    BY DEF Limit
  <2> QED
    BY <2>2, <2>3, <2>4 DEF Within, T
<1> QED
  BY <1>1, <1>2 DEF SlotsWithin, StartsWithin

\* _maintain() leaves the tables sound.
LEMMA MaintainSound ==
  ASSUME NEW db, Sound(db), NEW tick \in Nat, NEW living
  PROVE  Sound(Maintain(db, tick, living))
<1> DEFINE m == Maintain(db, tick, living)
<1>1. db \in Tables /\ RowShape(db) /\ Agreed(db) /\ SlotsWithin(db) /\ StartsWithin(db)
  BY DEF Sound
<1>2. /\ m \in Tables
      /\ RowShape(m)
      /\ \A r \in Requests :
           m.starts[r] = IF Expired(db, r, tick) THEN NULL ELSE db.starts[r]
      /\ \A r \in Requests : m.state[r] = db.state[r] \/ m.state[r] \in {"abandoned", "absent"}
      /\ \A r \in Requests : m.state[r] \in Active \/ m.starts[r] # NULL =>
           m.bucket[BucketOf[r]] = db.bucket[BucketOf[r]]
  BY <1>1, MaintainFacts
<1> HIDE DEF m
<1>3. \A r \in Requests : m.starts[r] # NULL => db.starts[r] # NULL
  BY <1>2
<1>4. \A r \in Requests : /\ m.state[r] \in Active => db.state[r] \in Active
                          /\ m.state[r] \in Occupying => db.state[r] \in Occupying
  BY <1>2 DEF Active, Occupying
<1>5. Agreed(m)
  BY <1>1, <1>2, <1>3, <1>4 DEF Agreed
<1>6. SlotsWithin(m) /\ StartsWithin(m)
  BY <1>1, <1>3, <1>4, CountsShrink
<1> QED
  BY <1>2, <1>5, <1>6 DEF Sound, m

\* Recording the definition and the waiting row, once a conflict is ruled out.
LEMMA RegisterSound ==
  ASSUME NEW db, Sound(db), NEW r \in Requests, NEW known,
         db.state[r] = IF r \notin known THEN "absent" ELSE "waiting", ~ Conflict(db, r)
  PROVE  LET m == Register(db, r, r \notin known) IN
         /\ Sound(m)
         /\ m.starts = db.starts
         /\ m.state = [db.state EXCEPT ![r] = "waiting"]
         /\ m.bucket[BucketOf[r]] = DefinitionOf[r]
<1> USE LedgerAssumption
<1> DEFINE m == Register(db, r, r \notin known)
<1>1. db \in Tables /\ RowShape(db) /\ Agreed(db) /\ SlotsWithin(db) /\ StartsWithin(db)
  BY DEF Sound
<1>2. /\ m.state = [db.state EXCEPT ![r] = "waiting"]
      /\ m.finished = db.finished
      /\ m.starts = db.starts
      /\ m.bucket = [db.bucket EXCEPT ![BucketOf[r]] = DefinitionOf[r]]
  BY <1>1 DEF Register, Tables
<1>3. m \in Tables
  BY <1>1 DEF Register, Tables, Active
<1> HIDE DEF m
<1>4. RowShape(m)
  BY <1>1, <1>2 DEF RowShape, Tables, Terminal
<1>5. Agreed(m)
  <2> SUFFICES ASSUME NEW s \in Requests, m.state[s] \in Active \/ m.starts[s] # NULL
               PROVE  m.bucket[BucketOf[s]] = DefinitionOf[s]
    BY DEF Agreed
  <2>1. CASE BucketOf[s] = BucketOf[r] /\ s # r
    <3>1. db.state[s] \in Active \/ db.starts[s] # NULL
      BY <1>1, <1>2, <2>1 DEF Tables
    <3>2. db.bucket[BucketOf[s]] = DefinitionOf[s]
      BY <1>1, <3>1, Zenon DEF Agreed
    <3>3. DefinitionOf[s] # NULL
      <4>1. DefinitionOf[s] \in Definitions /\ NULL \notin Definitions
        OBVIOUS
      <4> QED
        BY <4>1, Zenon
    <3>4. db.bucket[BucketOf[r]] \in {NULL, DefinitionOf[r]}
      BY <2>1, <3>1 DEF Conflict, InBucket
    <3>5. m.bucket[BucketOf[s]] = DefinitionOf[r]
      BY <1>1, <1>2, <2>1 DEF Tables
    <3> QED
      BY <2>1, <3>2, <3>3, <3>4, <3>5
  <2>2. CASE s = r
    BY <1>1, <1>2, <2>2 DEF Tables
  <2>3. CASE BucketOf[s] # BucketOf[r]
    BY <1>1, <1>2, <2>3 DEF Agreed, Tables
  <2> QED
    BY <2>1, <2>2, <2>3
<1>6. SlotsWithin(m) /\ StartsWithin(m)
  <2>1. \A s \in Requests : /\ m.state[s] \in Occupying => db.state[s] \in Occupying
                            /\ m.starts[s] # NULL => db.starts[s] # NULL
    BY <1>1, <1>2 DEF Occupying, Tables
  <2> QED
    BY <1>1, <2>1, CountsShrink
<1>7. m.bucket[BucketOf[r]] = DefinitionOf[r]
  BY <1>1, <1>2 DEF Tables
<1> QED
  BY <1>2, <1>3, <1>4, <1>5, <1>6, <1>7 DEF Sound, m

\* Taking the last free slot or start fills the budget and does not pass it.
LEMMA GrantSound ==
  ASSUME NEW db, Sound(db), NEW r \in Requests, NEW tick \in Nat,
         db.state[r] = "waiting", db.bucket[BucketOf[r]] = DefinitionOf[r],
         HasRoom(db, r)
  PROVE  LET m == Grant(db, r, tick) IN
         /\ Sound(m)
         /\ m.state = [db.state EXCEPT ![r] = "running"]
         /\ m.starts = [db.starts EXCEPT ![r] = tick]
         /\ m.bucket = db.bucket
<1> USE LedgerAssumption
<1> DEFINE m == Grant(db, r, tick)
           b == BucketOf[r]
<1>1. db \in Tables /\ RowShape(db) /\ Agreed(db) /\ SlotsWithin(db) /\ StartsWithin(db)
  BY DEF Sound
<1>2. /\ m.state = [db.state EXCEPT ![r] = "running"]
      /\ m.finished = db.finished
      /\ m.starts = [db.starts EXCEPT ![r] = tick]
      /\ m.bucket = db.bucket
  BY <1>1 DEF Grant, Tables
<1>3. m \in Tables
  BY <1>1 DEF Grant, Tables, Active
<1> HIDE DEF m
<1>4. RowShape(m)
  BY <1>1, <1>2 DEF RowShape, Tables, Terminal
<1>5. Agreed(m)
  BY <1>1, <1>2 DEF Agreed, Tables, Active
<1>6. ASSUME NEW s \in Requests, m.state[s] \in Occupying
      PROVE  Within(Cardinality(Occupied(m, BucketOf[s])), MaxConcurrent[DefinitionOf[s]])
  <2> DEFINE S == Occupied(db, BucketOf[s])
             T == Occupied(m, BucketOf[s])
  <2>1. S \in SUBSET Requests /\ T \in SUBSET Requests
    BY DEF Occupied, InBucket
  <2>2. /\ Cardinality(S) \in Nat /\ Cardinality(T) \in Nat
        /\ Cardinality(S \cup {r}) <= Cardinality(S) + 1
    BY <2>1, RowsFinite, OneMoreRow
  <2>3. MaxConcurrent[DefinitionOf[s]] # NULL => MaxConcurrent[DefinitionOf[s]] \in Nat
    BY DEF Limit
  <2>4. CASE BucketOf[s] = b
    <3>1. T = S \cup {r}
      BY <1>1, <1>2, <2>4 DEF Occupied, InBucket, Occupying, Tables
    <3>2. DefinitionOf[s] = DefinitionOf[r]
      BY <1>2, <1>5, <1>6, <2>4 DEF Agreed, Active, Occupying
    <3>3. Below(Cardinality(S), MaxConcurrent[DefinitionOf[s]])
      BY <2>4, <3>2 DEF HasRoom
    <3> HIDE DEF S, T
    <3>4. Cardinality(T) <= Cardinality(S) + 1
      BY <2>2, <3>1
    <3>5. Within(Cardinality(T), MaxConcurrent[DefinitionOf[s]])
      BY <2>2, <2>3, <3>3, <3>4 DEF Below, Within
    <3> QED
      BY <3>5 DEF T
  <2>5. CASE BucketOf[s] # b
    <3>1. T = S /\ db.state[s] \in Occupying
      BY <1>1, <1>2, <1>6, <2>5 DEF Occupied, InBucket, Tables
    <3> QED
      BY <1>1, <3>1 DEF SlotsWithin
  <2> QED
    BY <2>4, <2>5
<1>7. ASSUME NEW s \in Requests, m.starts[s] # NULL
      PROVE  Within(Cardinality(RecentStarts(m, BucketOf[s])), PerMinute[DefinitionOf[s]])
  <2> DEFINE S == RecentStarts(db, BucketOf[s])
             T == RecentStarts(m, BucketOf[s])
  <2>1. S \in SUBSET Requests /\ T \in SUBSET Requests
    BY DEF RecentStarts, InBucket
  <2>2. /\ Cardinality(S) \in Nat /\ Cardinality(T) \in Nat
        /\ Cardinality(S \cup {r}) <= Cardinality(S) + 1
    BY <2>1, RowsFinite, OneMoreRow
  <2>3. PerMinute[DefinitionOf[s]] # NULL => PerMinute[DefinitionOf[s]] \in Nat
    BY DEF Limit
  <2>4. CASE BucketOf[s] = b
    <3>1. T = S \cup {r}
      BY <1>1, <1>2, <2>4 DEF RecentStarts, InBucket, Tables
    <3>2. DefinitionOf[s] = DefinitionOf[r]
      BY <1>2, <1>5, <1>7, <2>4 DEF Agreed
    <3>3. Below(Cardinality(S), PerMinute[DefinitionOf[s]])
      BY <2>4, <3>2 DEF HasRoom
    <3> HIDE DEF S, T
    <3>4. Cardinality(T) <= Cardinality(S) + 1
      BY <2>2, <3>1
    <3>5. Within(Cardinality(T), PerMinute[DefinitionOf[s]])
      BY <2>2, <2>3, <3>3, <3>4 DEF Below, Within
    <3> QED
      BY <3>5 DEF T
  <2>5. CASE BucketOf[s] # b
    <3>1. T = S /\ db.starts[s] # NULL
      BY <1>1, <1>2, <1>7, <2>5 DEF RecentStarts, InBucket, Tables
    <3> QED
      BY <1>1, <3>1 DEF StartsWithin
  <2> QED
    BY <2>4, <2>5
<1>8. SlotsWithin(m) /\ StartsWithin(m)
  BY <1>6, <1>7 DEF SlotsWithin, StartsWithin
<1> QED
  BY <1>2, <1>3, <1>4, <1>5, <1>8 DEF Sound, m

\* streaming() and finish() touch one row.
LEMMA StreamSound ==
  ASSUME NEW db, Sound(db), NEW r \in Requests, db.state[r] = "running"
  PROVE  LET m == MarkStreaming(db, r) IN
         /\ Sound(m)
         /\ m.state = [db.state EXCEPT ![r] = "streaming"]
         /\ m.starts = db.starts
<1> USE LedgerAssumption
<1> DEFINE m == MarkStreaming(db, r)
<1>1. db \in Tables /\ RowShape(db) /\ Agreed(db) /\ SlotsWithin(db) /\ StartsWithin(db)
  BY DEF Sound
<1>2. /\ m.state = [db.state EXCEPT ![r] = "streaming"]
      /\ m.finished = db.finished /\ m.starts = db.starts /\ m.bucket = db.bucket
  BY <1>1 DEF MarkStreaming, Tables
<1>3. m \in Tables
  BY <1>1 DEF MarkStreaming, Tables, Active
<1> HIDE DEF m
<1>4. RowShape(m)
  BY <1>1, <1>2 DEF RowShape, Tables, Terminal
<1>5. Agreed(m)
  BY <1>1, <1>2 DEF Agreed, Tables, Active
<1>6. \A s \in Requests : m.state[s] \in Occupying => db.state[s] \in Occupying
  BY <1>1, <1>2 DEF Tables, Occupying
<1>7. SlotsWithin(m) /\ StartsWithin(m)
  BY <1>1, <1>2, <1>6, CountsShrink
<1> QED
  BY <1>2, <1>3, <1>4, <1>5, <1>7 DEF Sound, m

\* Completing a row leaves the tables sound and the starts as they are.
LEMMA CompleteSound ==
  ASSUME NEW db, Sound(db), NEW r \in Requests, NEW outcome \in Terminal, NEW tick \in Nat
  PROVE  LET m == Complete(db, r, outcome, tick) IN
         /\ Sound(m)
         /\ m.state = [db.state EXCEPT ![r] = outcome]
         /\ m.starts = db.starts
<1> USE LedgerAssumption
<1> DEFINE m == Complete(db, r, outcome, tick)
<1>1. db \in Tables /\ RowShape(db) /\ Agreed(db) /\ SlotsWithin(db) /\ StartsWithin(db)
  BY DEF Sound
<1>2. /\ m.state = [db.state EXCEPT ![r] = outcome]
      /\ m.finished = [db.finished EXCEPT ![r] = tick]
      /\ m.starts = db.starts /\ m.bucket = db.bucket
  BY <1>1 DEF Complete, Tables
<1>3. m \in Tables
  BY <1>1 DEF Complete, Tables
<1> HIDE DEF m
<1>4. RowShape(m)
  BY <1>1, <1>2 DEF RowShape, Tables
<1>5. \A s \in Requests : /\ m.state[s] \in Active => db.state[s] \in Active
                          /\ m.state[s] \in Occupying => db.state[s] \in Occupying
  BY <1>1, <1>2 DEF Tables, Active, Occupying, Terminal
<1>6. Agreed(m)
  BY <1>1, <1>2, <1>5 DEF Agreed
<1>7. SlotsWithin(m) /\ StartsWithin(m)
  BY <1>1, <1>2, <1>5, CountsShrink
<1> QED
  BY <1>2, <1>3, <1>4, <1>6, <1>7 DEF Sound, m
=============================================================================
