----------------------------- MODULE StepProofs -----------------------------
(***************************************************************************)
(* What a step of Admission may never do, for any processes, requests,     *)
(* limits and lag: take a row back, make a request wait for a slot or a    *)
(* start that nobody living uses, or do anything that Permits does not     *)
(* allow.                                                                  *)
(***************************************************************************)
EXTENDS AdmissionProofs

\* A row that cleanup finds dead belongs to a request that died with its
\* process.
LEMMA DeadRowsDied ==
  ASSUME Inv, NEW s \in Requests
  PROVE  s \in DeadRows(db, running) <=> db.state[s] \in Active /\ pc[s] = "dead"
<1> USE LedgerAssumption
<1>1. OwnerOf(s) /\ RowOf(s) /\ running \cap exited = {} /\ running \subseteq Processes
  BY DEF Inv, TypeOK
<1>2. Alive(ProcessOf[s], running) <=> ProcessOf[s] \in running
  <2>1. ASSUME NEW q \in running, q.pid = ProcessOf[s].pid, q.started = ProcessOf[s].started
        PROVE  q = ProcessOf[s]
    <3>1. q \in [pid : Nat, started : Nat] /\ ProcessOf[s] \in [pid : Nat, started : Nat]
      BY <1>1
    <3>2. /\ q = [pid |-> q.pid, started |-> q.started]
          /\ ProcessOf[s] = [pid |-> ProcessOf[s].pid, started |-> ProcessOf[s].started]
      BY <3>1
    <3> QED
      BY <2>1, <3>2
  <2> QED
    BY <2>1 DEF Alive
<1>3. db.state[s] \in Active => pc[s] # "idle"
  BY <1>1 DEF RowOf, NoTrace, Active
<1> QED
  BY <1>1, <1>2, <1>3 DEF DeadRows, OwnerOf

-----------------------------------------------------------------------------
(* Rows only move forward *)

Forward(before, after, r) ==
  \/ after = before
  \/ before = "absent" /\ after \in {"waiting", "running"}
  \/ before = "waiting" /\ after = "running"
  \/ before = "running" /\ after = "streaming"
  \/ before \in Active /\ after \in Terminal
  \/ before \in Terminal /\ after = "absent"
  \/ before \in Active /\ after = "absent" /\ ProcessOf[r] \in exited

\* What Forward says statement by statement is what Advances says of a step.
LEMMA ForwardAdvances ==
  ASSUME NEW r \in Requests, Forward(db.state[r], db'.state[r], r)
  PROVE  Advances(r)
BY DEF Forward, Advances, Successors, Active, Terminal

\* Cleanup abandons or prunes, of the active rows only those of the dead.
LEMMA MaintainForward ==
  ASSUME Inv, NEW t \in Nat, NEW s \in Requests
  PROVE  Forward(db.state[s], Maintain(db, t, running).state[s], s)
<1> DEFINE m == Maintain(db, t, running)
<1>1. db \in Tables /\ RowShape(db) /\ OwnerOf(s)
  BY DEF Inv, Sound
<1>2. \/ m.state[s] = db.state[s]
      \/ m.state[s] \in {"abandoned", "absent"} /\ s \in DeadRows(db, running)
      \/ m.state[s] = "absent" /\ db.state[s] \in Terminal
  BY <1>1, MaintainFacts
<1> HIDE DEF m
<1>3. s \in DeadRows(db, running) => db.state[s] \in Active /\ ProcessOf[s] \in exited
  BY <1>1, DeadRowsDied DEF OwnerOf
<1>4. Forward(db.state[s], m.state[s], s)
  BY <1>2, <1>3 DEF Forward, Terminal
<1> QED
  BY <1>4 DEF m

\* So does a whole attempt, whose own row is new or was waiting.
LEMMA AttemptForward ==
  ASSUME Inv, NEW r \in Requests, Attempt(r), NEW s \in Requests
  PROVE  /\ s # r => Forward(db.state[s], Registered(r).state[s], s)
         /\ db.state[r] \in {"absent", "waiting"} /\ Registered(r).state[r] = "waiting"
<1> USE LedgerAssumption
<1> DEFINE m == Maintained(r)
           w == Registered(r)
<1>1. tick[r] \in Nat /\ Sound(db) /\ RowOf(r) /\ pc[r] = "sampled"
  BY DEF Inv, TypeOK, Attempt
<1>2. Sound(m) /\ m \in Tables
  BY <1>1, MaintainSound DEF Maintained, Sound
<1>3. Forward(db.state[s], m.state[s], s)
  BY <1>1, MaintainForward DEF Maintained
<1> HIDE DEF m
<1>4. s # r => w.state[s] = m.state[s]
  BY <1>2 DEF Registered, Register, Tables, m
<1>5. db.state[r] \in {"absent", "waiting"}
  BY <1>1 DEF RowOf, NoTrace, Queued, Acquiring
<1>6. w.state[r] = "waiting"
  BY AttemptFacts
<1> QED
  BY <1>3, <1>4, <1>5, <1>6 DEF w

\* An attempt that ends in waiting moves rows forward.
LEMMA EnqueueForward ==
  ASSUME Inv, NEW r \in Requests, Attempt(r), db' = Registered(r), NEW s \in Requests
  PROVE  Forward(db.state[s], db'.state[s], s)
BY AttemptForward DEF Forward

\* An admission moves its own row on, and maintains the others.
LEMMA GrantForward ==
  ASSUME Inv, NEW r \in Requests, Admissible(r),
         db' = Grant(Registered(r), r, tick[r]), NEW s \in Requests
  PROVE  Forward(db.state[s], db'.state[s], s)
<1> DEFINE w == Registered(r)
<1>1. /\ s # r => Forward(db.state[s], w.state[s], s)
      /\ db.state[r] \in {"absent", "waiting"}
  BY AttemptForward DEF Admissible
<1>2. w \in Tables
  BY AttemptFacts DEF Admissible, Sound
<1> HIDE DEF w
<1>3. db'.state = [w.state EXCEPT ![r] = "running"]
  BY <1>2 DEF Grant, Tables, w
<1>4. w.state \in [Requests -> Active \cup Terminal \cup {"absent"}]
  BY <1>2 DEF Tables
<1> QED
  BY <1>1, <1>3, <1>4 DEF Forward

\* A completion ends an active row and touches no other.
LEMMA CompletionForward ==
  ASSUME Inv, NEW r \in Requests, Completable(db, r), NEW outcome \in Terminal,
         db' = Complete(db, r, outcome, clock), NEW s \in Requests
  PROVE  Forward(db.state[s], db'.state[s], s)
<1>1. db \in Tables /\ RowShape(db)
  BY DEF Inv, Sound
<1>2. db.state[r] \in Active
  BY <1>1 DEF Completable, RowShape, Tables
<1>3. db'.state = [db.state EXCEPT ![r] = outcome]
  BY <1>1 DEF Complete, Tables
<1>4. db.state \in [Requests -> Active \cup Terminal \cup {"absent"}]
  BY <1>1 DEF Tables
<1> QED
  BY <1>2, <1>3, <1>4 DEF Forward

\* Every step moves every row forward or leaves it.
LEMMA NextForward ==
  ASSUME Inv, [Next]_vars, NEW s \in Requests
  PROVE  Forward(db.state[s], db'.state[s], s)
<1>1. CASE UNCHANGED db
  BY <1>1 DEF Forward
<1>2. ASSUME NEW r \in Requests, Enqueue(r) \/ Admit(r) \/ InterruptedCommit(r)
      PROVE  Forward(db.state[s], db'.state[s], s)
  <2>1. CASE Attempt(r) /\ db' = Registered(r)
    BY <2>1, EnqueueForward
  <2>2. CASE Admissible(r) /\ db' = Grant(Registered(r), r, tick[r])
    BY <2>2, GrantForward
  <2> QED
    BY <1>2, <2>1, <2>2 DEF Enqueue, Admit, InterruptedCommit
<1>3. ASSUME NEW r \in Requests, Cleanup(r)
      PROVE  Forward(db.state[s], db'.state[s], s)
  <2> DEFINE outcome == IF pc[r] = "closing" THEN "cancelled" ELSE "error"
  <2>1. outcome \in Terminal
    BY DEF Terminal
  <2>2. UNCHANGED db \/ (Completable(db, r) /\ db' = Complete(db, r, outcome, clock))
    BY <1>3 DEF Cleanup
  <2> HIDE DEF outcome
  <2>3. CASE Completable(db, r) /\ db' = Complete(db, r, outcome, clock)
    BY <2>1, <2>3, CompletionForward
  <2> QED
    BY <1>1, <2>2, <2>3
<1>4. ASSUME NEW r \in Requests, NEW outcome \in Outcomes, Finish(r, outcome)
      PROVE  Forward(db.state[s], db'.state[s], s)
  <2>1. outcome \in Terminal
    BY DEF Outcomes, Terminal
  <2> QED
    BY <1>4, <2>1, CompletionForward DEF Finish
<1>5. ASSUME NEW r \in Requests, Stream(r)
      PROVE  Forward(db.state[s], db'.state[s], s)
  <2>1. db \in Tables
    BY DEF Inv, Sound
  <2>2. db'.state = [db.state EXCEPT ![r] = "streaming"] /\ db.state[r] = "running"
    BY <1>5, <2>1 DEF Stream, MarkStreaming, Tables
  <2>3. db.state \in [Requests -> Active \cup Terminal \cup {"absent"}]
    BY <2>1 DEF Tables
  <2> QED
    BY <2>2, <2>3 DEF Forward
<1>6. CASE Snapshot
  <2>1. PICK t \in Nat : db' = Maintain(db, t, running)
    BY <1>6 DEF Snapshot, Inv, TypeOK
  <2> QED
    BY <2>1, MaintainForward
<1>7. ASSUME NEW r \in Requests, QuietStep(r) \/ Cancel(r)
      PROVE  UNCHANGED db
  BY <1>7 DEF QuietStep, Begin, SeeCancelled, Sample, Refuse, AdmitCancelled, Wake,
     Interrupt, StorageFails, CleanupFails, GiveUp, Cancel
<1>8. CASE Tick \/ UNCHANGED vars \/ \E p \in Processes : Spawn(p) \/ Crash(p)
  BY <1>1, <1>8 DEF Tick, vars, Spawn, Crash
<1> QED
  <2>1. ASSUME NEW r \in Requests, Begin(r) \/ Step(r) \/ Fault(r) \/ Cancel(r) \/ Stream(r)
        PROVE  Forward(db.state[s], db'.state[s], s)
    BY <1>1, <1>2, <1>3, <1>5, <1>7, <2>1 DEF Step, Fault, QuietStep
  <2> QED
    BY <1>4, <1>6, <1>8, <2>1 DEF Next

\* No transaction takes a row back: a completed row keeps its outcome, and
\* only the dead lose an active one (_maintain, streaming and finish of
\* runtime.py).
THEOREM Lifecycle == Spec => RowLifecycle
<1>1. Inv /\ [Next]_vars => [\A r \in Requests : Advances(r)]_vars
  BY NextForward, ForwardAdvances
<1> QED
  BY <1>1, Invariance, PTL DEF Spec, RowLifecycle

-----------------------------------------------------------------------------
(* Waiting has a cause *)

\* Everything the deciding transaction counts is in use or recent.
LEMMA CountedIsReal ==
  ASSUME Inv, NEW r \in Requests, Attempt(r)
  PROVE  LET w == Registered(r) b == BucketOf[r] IN
         /\ Occupied(w, b) \subseteq Occupants(b)
         /\ RecentStarts(w, b) \subseteq AdmittedSince(b, tick[r] - Window)
<1> USE LedgerAssumption, AdmissionAssumption
<1> DEFINE m == Maintained(r)
           w == Registered(r)
           b == BucketOf[r]
<1>1. /\ tick[r] \in Nat /\ Sound(db) /\ db \in Tables /\ RowShape(db)
      /\ \A s \in Requests : /\ OwnerOf(s) /\ RowOf(s) /\ StartOf(s)
                             /\ admittedAt[s] \in Nat \cup {NULL}
  BY DEF Inv, TypeOK, Sound
<1>2. /\ m \in Tables
      /\ \A s \in Requests :
           m.starts[s] = IF Expired(db, s, tick[r]) THEN NULL ELSE db.starts[s]
      /\ \A s \in Requests :
           \/ m.state[s] = db.state[s] /\ s \notin DeadRows(db, running)
           \/ m.state[s] \in {"abandoned", "absent"}
  BY <1>1, MaintainFacts DEF Maintained
<1> HIDE DEF m
<1>3. /\ w.starts = m.starts
      /\ \A s \in Requests : s # r => w.state[s] = m.state[s]
  BY <1>2 DEF Registered, Register, Tables, m
<1>4. w.state[r] = "waiting"
  BY AttemptFacts
<1> HIDE DEF w
<1>5. ASSUME NEW s \in Occupied(w, b)
      PROVE  s \in Occupants(b)
  <2>1. s \in Requests /\ BucketOf[s] = b /\ w.state[s] \in Occupying /\ s # r
    BY <1>4 DEF Occupied, InBucket, Occupying
  <2>2. db.state[s] \in Occupying /\ s \notin DeadRows(db, running)
    BY <1>2, <1>3, <2>1 DEF Occupying
  <2>3. pc[s] # "dead"
    BY <2>1, <2>2, DeadRowsDied DEF Occupying, Active
  <2> QED
    BY <1>1, <2>1, <2>2, <2>3 DEF RowOf, OwnerOf, Occupants, InBucket
<1>6. ASSUME NEW s \in RecentStarts(w, b)
      PROVE  s \in AdmittedSince(b, tick[r] - Window)
  <2>1. s \in Requests /\ BucketOf[s] = b /\ w.starts[s] # NULL
    BY DEF RecentStarts, InBucket
  <2>2. db.starts[s] # NULL /\ ~ Expired(db, s, tick[r])
    BY <1>2, <1>3, <2>1
  <2>3. db.starts[s] \in Nat /\ admittedAt[s] \in Nat /\ db.starts[s] <= admittedAt[s]
    BY <1>1, <2>1, <2>2 DEF StartOf, Tables
  <2>4. admittedAt[s] > tick[r] - Window
    BY <1>1, <2>2, <2>3 DEF Expired
  <2> QED
    BY <2>1, <2>3, <2>4 DEF AdmittedSince, InBucket
<1> QED
  BY <1>5, <1>6 DEF w

\* What the deciding transaction counted is there among the living requests.
LEMMA EnqueuedIsFull ==
  ASSUME Inv, NEW r \in Requests, Enqueue(r)
  PROVE  Full(r)
<1> USE LedgerAssumption
<1> DEFINE w == Registered(r)
           b == BucketOf[r]
           d == DefinitionOf[r]
           O == Occupied(w, b)
           S == RecentStarts(w, b)
           L == Occupants(b)
           A == AdmittedSince(b, tick[r] - Window)
<1>1. O \subseteq L /\ S \subseteq A /\ L \in SUBSET Requests /\ A \in SUBSET Requests
  BY CountedIsReal DEF Enqueue, Occupants, AdmittedSince, InBucket
<1>2. ~ Below(Cardinality(O), MaxConcurrent[d]) \/ ~ Below(Cardinality(S), PerMinute[d])
  BY DEF Enqueue, HasRoom
<1>3. MaxConcurrent[d] \in Limit /\ PerMinute[d] \in Limit
  OBVIOUS
<1> HIDE DEF w, O, S, L, A
<1>4. /\ Cardinality(O) \in Nat /\ Cardinality(L) \in Nat /\ Cardinality(O) <= Cardinality(L)
      /\ Cardinality(S) \in Nat /\ Cardinality(A) \in Nat /\ Cardinality(S) <= Cardinality(A)
  BY <1>1, FewerRows, RowsFinite
<1>5. \/ MaxConcurrent[d] # NULL /\ Cardinality(L) >= MaxConcurrent[d]
      \/ PerMinute[d] # NULL /\ Cardinality(A) >= PerMinute[d]
  BY <1>2, <1>3, <1>4 DEF Below, Limit
<1> QED
  BY <1>5 DEF Full, L, A

\* No action but Enqueue makes a request wait.
LEMMA OnlyEnqueueWaits ==
  ASSUME Inv, Next, NEW r \in Requests, pc[r] = "sampled", pc'[r] = "waiting"
  PROVE  Enqueue(r)
<1> USE DEF Goto
<1>0. pc \in [Requests -> Phases]
  BY DEF Inv, TypeOK
<1>1. ASSUME NEW s \in Requests, QuietStep(s) \/ Cleanup(s) \/ Admit(s) \/ InterruptedCommit(s)
      PROVE  FALSE
  BY <1>0, <1>1 DEF QuietStep, Begin, SeeCancelled, Sample, Refuse, AdmitCancelled, Wake,
     Interrupt, StorageFails, CleanupFails, GiveUp, Cleanup, Admit, InterruptedCommit
<1>2. ASSUME NEW s \in Requests, Enqueue(s)
      PROVE  Enqueue(r)
  BY <1>0, <1>2 DEF Enqueue
<1>3. ASSUME NEW s \in Requests, Cancel(s) \/ Stream(s)
      PROVE  FALSE
  BY <1>3 DEF Cancel, Stream
<1>4. ASSUME NEW s \in Requests, NEW outcome \in Outcomes, Finish(s, outcome)
      PROVE  FALSE
  BY <1>0, <1>4 DEF Finish
<1>5. ASSUME NEW p \in Processes, Spawn(p) \/ Crash(p)
      PROVE  FALSE
  BY <1>0, <1>5 DEF Spawn, Crash
<1>6. CASE Snapshot \/ Tick
  BY <1>6 DEF Snapshot, Tick
<1> QED
  BY <1>1, <1>2, <1>3, <1>4, <1>5, <1>6 DEF Next, Step, Fault, QuietStep

\* Nobody is made to wait for a slot or a start that a crash, a failure or
\* time has freed: cleanup runs in the transaction that decides.
THEOREM CauseToWait == Spec => WaitsForCause
<1>1. Inv /\ [Next]_vars =>
        [\A r \in Requests : pc[r] = "sampled" /\ pc'[r] = "waiting" => Full(r)]_vars
  BY OnlyEnqueueWaits, EnqueuedIsFull
<1> QED
  BY <1>1, Invariance, PTL DEF Spec, WaitsForCause

-----------------------------------------------------------------------------
(* Admission implements Permits *)

\* The promise counts as the ledger does.
LEMMA SameCount == \A S : Promise!Cardinality(S) = Cardinality(S)
BY DEF Promise!Cardinality, Cardinality

\* The clients with a permit in hand, as the promise sees them.
InHand == {r \in Requests : pc[r] = "held"}

\* A boot starts with every permit available.
LEMMA PromiseInit == Init => Promise!Init
BY DEF Init, Promise!Init

\* A step that admits nobody while the clock stands still gives permits back,
\* or is not seen.
LEMMA GivesBack ==
  ASSUME UNCHANGED <<clock, admittedAt>>, InHand' \subseteq InHand
  PROVE  [Promise!Next]_(Promise!vars)
<1>1. CASE InHand' = InHand
  BY <1>1 DEF Promise!vars, InHand
<1>2. CASE InHand' # InHand
  <2> DEFINE given == InHand \ InHand'
  <2>1. given \in SUBSET InHand /\ given # {} /\ InHand' = InHand \ given
    BY <1>2
  <2>2. Promise!Release
    BY <2>1 DEF Promise!Release, InHand
  <2> QED
    BY <2>2 DEF Promise!Next
<1> QED
  BY <1>1, <1>2

\* Whoever holds a permit or got one lately still has the row or the start
\* that the admitting transaction counts: nobody it sees is missed.
LEMMA Counted ==
  ASSUME Inv, NEW r \in Requests, Admissible(r)
  PROVE  LET w == Registered(r) b == BucketOf[r] IN
         /\ Promise!Held(b) \subseteq Occupied(w, b)
         /\ Promise!Recent(b) \subseteq RecentStarts(w, b)
<1> USE LedgerAssumption, AdmissionAssumption
<1> DEFINE w == Registered(r)
           b == BucketOf[r]
<1>1. \A s \in Requests : s # r => Kept(s, w)
  BY AttemptFacts DEF Admissible
<1>2. pc[r] = "sampled" /\ admittedAt[r] = NULL
  BY DEF Admissible, Attempt, Inv, RowOf, NoTrace, Queued, Acquiring
<1>3. \A s \in Requests : RowOf(s) /\ StartOf(s) /\ admittedAt[s] \in Nat \cup {NULL}
  BY DEF Inv, TypeOK
<1> HIDE DEF w
<1>4. ASSUME NEW s \in Promise!Held(b)
      PROVE  s \in Occupied(w, b)
  <2>1. s \in Requests /\ pc[s] = "held" /\ BucketOf[s] = b /\ s # r
    BY <1>2 DEF Promise!Held
  <2>2. db.state[s] \in Occupying /\ w.state[s] = db.state[s]
    BY <1>1, <1>3, <2>1 DEF RowOf, Kept, Occupying, Active
  <2> QED
    BY <2>1, <2>2 DEF Occupied, InBucket
<1>5. ASSUME NEW s \in Promise!Recent(b)
      PROVE  s \in RecentStarts(w, b)
  <2>1. /\ s \in Requests /\ BucketOf[s] = b /\ s # r
        /\ admittedAt[s] # NULL /\ clock < admittedAt[s] + (Window - MaxLag)
    BY <1>2 DEF Promise!Recent
  <2>2. clock < admittedAt[s] + Window - MaxLag
    <3>1. admittedAt[s] \in Nat /\ clock \in Nat
      BY <1>3, <2>1 DEF Inv, TypeOK
    <3> QED
      BY <2>1, <3>1
  <2>3. db.starts[s] # NULL /\ w.starts[s] = db.starts[s]
    BY <1>1, <1>3, <2>1, <2>2 DEF StartOf, Kept
  <2> QED
    BY <2>1, <2>3 DEF RecentStarts, InBucket
<1> QED
  BY <1>4, <1>5 DEF w

\* A committed admission is a grant, whether acquire() returns or an interrupt
\* takes the permit on its way to the caller.
LEMMA Grants ==
  ASSUME Inv, NEW r \in Requests, Admissible(r),
         admittedAt' = [admittedAt EXCEPT ![r] = clock], UNCHANGED clock,
         NEW phase \in {"held", "closing", "leaked"}, Goto(r, phase)
  PROVE  Promise!Grant(r)
<1> USE LedgerAssumption, AdmissionAssumption
<1> DEFINE w == Registered(r)
           b == BucketOf[r]
           d == DefinitionOf[r]
           H == Promise!Held(b)
           R == Promise!Recent(b)
           O == Occupied(w, b)
           S == RecentStarts(w, b)
<1>1. /\ Sound(w) /\ w.bucket[b] = d /\ HasRoom(w, r)
  BY AttemptFacts DEF Admissible
<1>2. admittedAt[r] = NULL /\ pc \in [Requests -> Phases]
  BY DEF Admissible, Attempt, Inv, RowOf, NoTrace, Queued, Acquiring, TypeOK
<1>3. H \subseteq O /\ R \subseteq S
  BY Counted
<1> HIDE DEF w
<1>4. O \in SUBSET Requests /\ S \in SUBSET Requests
  BY DEF Occupied, RecentStarts, InBucket
<1>5. ASSUME NEW s \in H \cup R
      PROVE  DefinitionOf[s] = d
  <2>1. s \in O \/ s \in S
    BY <1>3
  <2>2. /\ s \in Requests /\ BucketOf[s] = b
        /\ w.state[s] \in Active \/ w.starts[s] # NULL
    BY <2>1 DEF Occupied, RecentStarts, InBucket, Occupying, Active
  <2> QED
    BY <1>1, <2>2 DEF Sound, Agreed
<1>6. /\ Below(Cardinality(O), MaxConcurrent[d])
      /\ Below(Cardinality(S), PerMinute[d])
  BY <1>1 DEF HasRoom
<1>7. MaxConcurrent[d] \in Limit /\ PerMinute[d] \in Limit
  OBVIOUS
<1> HIDE DEF H, R, O, S
<1>8. /\ Cardinality(H) \in Nat /\ Cardinality(O) \in Nat /\ Cardinality(H) <= Cardinality(O)
      /\ Cardinality(R) \in Nat /\ Cardinality(S) \in Nat /\ Cardinality(R) <= Cardinality(S)
  BY <1>3, <1>4, FewerRows, RowsFinite
<1>9. MaxConcurrent[d] # NULL => Cardinality(H) < MaxConcurrent[d]
  BY <1>6, <1>7, <1>8 DEF Below, Limit
<1>10. PerMinute[d] # NULL => Cardinality(R) < PerMinute[d]
  BY <1>6, <1>7, <1>8 DEF Below, Limit
<1>11. InHand' \in {InHand, InHand \cup {r}}
  <2>1. \A s \in Requests : pc'[s] = IF s = r THEN phase ELSE pc[s]
    BY <1>2 DEF Goto
  <2>2. pc[r] # "held"
    BY DEF Admissible, Attempt
  <2>3. CASE phase = "held"
    BY <2>1, <2>3 DEF InHand
  <2>4. CASE phase # "held"
    BY <2>1, <2>2, <2>4 DEF InHand
  <2> QED
    BY <2>3, <2>4
<1>12. /\ Promise!Cardinality(H) = Cardinality(H)
       /\ Promise!Cardinality(R) = Cardinality(R)
  BY SameCount
<1> QED
  BY <1>2, <1>5, <1>9, <1>10, <1>11, <1>12 DEF Promise!Grant, InHand, H, R

\* Each step of Admission is one of Permits, or invisible to it.
LEMMA PromiseNext == Inv /\ [Next]_vars => [Promise!Next]_(Promise!vars)
<1> SUFFICES ASSUME Inv, [Next]_vars PROVE [Promise!Next]_(Promise!vars)
  OBVIOUS
<1> USE DEF Goto, hosts, local
<1>0. pc \in [Requests -> Phases]
  BY DEF Inv, TypeOK
<1>1. ASSUME NEW r \in Requests, Admit(r)
      PROVE  [Promise!Next]_(Promise!vars)
  <2>1. Promise!Grant(r)
    BY <1>1, Grants DEF Admit
  <2> QED
    BY <2>1 DEF Promise!Next
<1>2. ASSUME NEW r \in Requests, InterruptedCommit(r)
      PROVE  [Promise!Next]_(Promise!vars)
  <2>1. PICK phase : phase = IF r \in inserted' THEN "closing" ELSE "leaked"
    OBVIOUS
  <2>2. /\ pc' = [pc EXCEPT ![r] = phase] /\ phase \in {"closing", "leaked"}
        /\ UNCHANGED clock
    BY <1>2, <2>1 DEF InterruptedCommit
  <2>3. CASE UNCHANGED admittedAt
    <3>1. InHand' \subseteq InHand
      BY <1>0, <2>2 DEF InHand
    <3> QED
      BY <2>2, <2>3, <3>1, GivesBack
  <2>4. CASE Admissible(r) /\ admittedAt' = [admittedAt EXCEPT ![r] = clock]
    <3>1. Promise!Grant(r)
      BY <2>2, <2>4, Grants
    <3> QED
      BY <3>1 DEF Promise!Next
  <2> QED
    BY <1>2, <2>3, <2>4 DEF InterruptedCommit
<1>3. ASSUME NEW r \in Requests,
             QuietStep(r) \/ Enqueue(r) \/ Cleanup(r) \/ Cancel(r) \/ Stream(r)
      PROVE  [Promise!Next]_(Promise!vars)
  <2>1. /\ UNCHANGED <<clock, admittedAt>>
        /\ UNCHANGED pc \/ \E phase \in Phases \ {"held"} : pc' = [pc EXCEPT ![r] = phase]
    BY <1>3 DEF QuietStep, Begin, SeeCancelled, Sample, Refuse, AdmitCancelled, Wake,
       Interrupt, StorageFails, CleanupFails, GiveUp, Enqueue, Cleanup, Cancel, Stream, Phases
  <2>2. InHand' \subseteq InHand
    BY <1>0, <2>1 DEF InHand
  <2> QED
    BY <2>1, <2>2, GivesBack
<1>4. ASSUME NEW r \in Requests, NEW outcome \in Outcomes, Finish(r, outcome)
      PROVE  [Promise!Next]_(Promise!vars)
  <2>1. UNCHANGED <<clock, admittedAt>> /\ pc' = [pc EXCEPT ![r] = "finished"]
    BY <1>4 DEF Finish
  <2>2. InHand' \subseteq InHand
    BY <1>0, <2>1 DEF InHand
  <2> QED
    BY <2>1, <2>2, GivesBack
<1>5. ASSUME NEW p \in Processes, Spawn(p) \/ Crash(p)
      PROVE  [Promise!Next]_(Promise!vars)
  <2>1. /\ UNCHANGED <<clock, admittedAt>>
        /\ \A r \in Requests : pc'[r] \in {pc[r], "dead"}
    BY <1>0, <1>5 DEF Spawn, Crash
  <2>2. InHand' \subseteq InHand
    BY <2>1 DEF InHand
  <2> QED
    BY <2>1, <2>2, GivesBack
<1>6. CASE Snapshot \/ UNCHANGED vars
  <2>1. UNCHANGED <<clock, admittedAt, pc>>
    BY <1>6 DEF Snapshot, vars
  <2>2. InHand' \subseteq InHand
    BY <2>1 DEF InHand
  <2> QED
    BY <2>1, <2>2, GivesBack
<1>7. CASE Tick
  <2>1. Promise!Pass
    BY <1>7 DEF Tick, Promise!Pass
  <2> QED
    BY <2>1 DEF Promise!Next
<1> QED
  <2>1. ASSUME NEW r \in Requests, Begin(r) \/ Step(r) \/ Fault(r) \/ Cancel(r) \/ Stream(r)
        PROVE  [Promise!Next]_(Promise!vars)
    BY <1>1, <1>2, <1>3, <2>1 DEF Step, Fault, QuietStep
  <2> QED
    BY <1>4, <1>5, <1>6, <1>7, <2>1 DEF Next

\* The polling threads, their failures and the processes' deaths together do
\* nothing that the permit service of Permits does not allow.
THEOREM Refinement == Spec => KeepsPromise
<1> QED
  BY PromiseInit, PromiseNext, Invariance, PTL DEF Spec, Promise!Spec, KeepsPromise

-----------------------------------------------------------------------------
(* What the promise is worth *)

\* No more requests than the limit of each of them.
Bounded(S, limitOf) == \A r \in S : Within(Cardinality(S), limitOf[DefinitionOf[r]])

\* Who holds a permit of the bucket or was granted one lately has the same
\* terms as the others, and there are no more of either than these allow.
Honoured(b) ==
  /\ \A r, s \in Promise!Held(b) \cup Promise!Recent(b) : DefinitionOf[r] = DefinitionOf[s]
  /\ Bounded(Promise!Held(b), MaxConcurrent)
  /\ Bounded(Promise!Recent(b), PerMinute)

PromiseInv ==
  /\ clock \in Nat /\ admittedAt \in [Requests -> Nat \cup {NULL}]
  /\ \A b \in Buckets : Honoured(b)

\* A bound outlives those it counts.
LEMMA FewerBounded ==
  ASSUME NEW limitOf \in [Definitions -> Limit], NEW S \in SUBSET Requests, NEW T \in SUBSET S,
         Bounded(S, limitOf)
  PROVE  Bounded(T, limitOf)
<1> SUFFICES ASSUME NEW r \in T, limitOf[DefinitionOf[r]] # NULL
             PROVE  Cardinality(T) <= limitOf[DefinitionOf[r]]
  BY DEF Bounded, Within
<1>1. Cardinality(T) <= Cardinality(S) /\ Cardinality(T) \in Nat /\ Cardinality(S) \in Nat
  BY FewerRows, RowsFinite
<1>2. Cardinality(S) <= limitOf[DefinitionOf[r]]
  BY DEF Bounded, Within
<1>3. limitOf[DefinitionOf[r]] \in Nat
  BY LedgerAssumption DEF Limit
<1> QED
  BY <1>1, <1>2, <1>3

\* One more is within a bound that had room for it.
LEMMA OneMoreBounded ==
  ASSUME NEW limitOf \in [Definitions -> Limit], NEW S \in SUBSET Requests, NEW r \in Requests,
         \A s \in S : DefinitionOf[s] = DefinitionOf[r],
         limitOf[DefinitionOf[r]] # NULL => Cardinality(S) < limitOf[DefinitionOf[r]]
  PROVE  Bounded(S \cup {r}, limitOf)
<1> SUFFICES ASSUME NEW s \in S \cup {r}, limitOf[DefinitionOf[s]] # NULL
             PROVE  Cardinality(S \cup {r}) <= limitOf[DefinitionOf[s]]
  BY DEF Bounded, Within
<1>1. DefinitionOf[s] = DefinitionOf[r]
  OBVIOUS
<1>2. /\ Cardinality(S \cup {r}) <= Cardinality(S) + 1
      /\ Cardinality(S \cup {r}) \in Nat /\ Cardinality(S) \in Nat
  BY OneMoreRow, RowsFinite
<1>3. limitOf[DefinitionOf[r]] \in Nat
  BY <1>1, LedgerAssumption DEF Limit
<1> QED
  BY <1>1, <1>2, <1>3

\* A step of Permits keeps its buckets within their terms.
LEMMA PromiseStep == PromiseInv /\ [Promise!Next]_(Promise!vars) => PromiseInv'
<1> USE LedgerAssumption
<1> SUFFICES ASSUME PromiseInv, [Promise!Next]_(Promise!vars)
             PROVE  PromiseInv'
  OBVIOUS
<1>1. \A b : Promise!Held(b) \in SUBSET Requests /\ Promise!Recent(b) \in SUBSET Requests
  BY DEF Promise!Held, Promise!Recent
<1>2. ASSUME clock' \in Nat, admittedAt' = admittedAt, clock' >= clock, InHand' \subseteq InHand
      PROVE  PromiseInv'
  <2>1. ASSUME NEW b \in Buckets
        PROVE  Honoured(b)'
    <3>1. Honoured(b)
      BY DEF PromiseInv
    <3>2. Promise!Held(b)' \in SUBSET Promise!Held(b)
      BY <1>2 DEF Promise!Held, InHand
    <3>3. Promise!Recent(b)' \in SUBSET Promise!Recent(b)
      <4>1. ASSUME NEW s \in Promise!Recent(b)'
            PROVE  s \in Promise!Recent(b)
        <5>1. /\ s \in Requests /\ BucketOf[s] = b /\ admittedAt[s] # NULL
              /\ clock' < admittedAt[s] + (Window - MaxLag)
          BY <1>2 DEF Promise!Recent
        <5>2. admittedAt[s] \in Nat /\ clock \in Nat
          BY <5>1 DEF PromiseInv
        <5>3. clock < admittedAt[s] + (Window - MaxLag)
          BY <1>2, <5>1, <5>2, AdmissionAssumption
        <5> QED
          BY <5>1, <5>3 DEF Promise!Recent
      <4> QED
        BY <4>1
    <3>4. Bounded(Promise!Held(b)', MaxConcurrent) /\ Bounded(Promise!Recent(b)', PerMinute)
      BY <1>1, <3>1, <3>2, <3>3, FewerBounded DEF Honoured
    <3> QED
      BY <3>1, <3>2, <3>3, <3>4 DEF Honoured, Bounded
  <2> QED
    BY <1>2, <2>1 DEF PromiseInv
<1>3. ASSUME NEW r \in Requests, Promise!Grant(r)
      PROVE  PromiseInv'
  <2>1. /\ \A d \in Promise!Held(BucketOf[r]) \cup Promise!Recent(BucketOf[r]) :
             DefinitionOf[d] = DefinitionOf[r]
        /\ MaxConcurrent[DefinitionOf[r]] # NULL =>
             Cardinality(Promise!Held(BucketOf[r])) < MaxConcurrent[DefinitionOf[r]]
        /\ PerMinute[DefinitionOf[r]] # NULL =>
             Cardinality(Promise!Recent(BucketOf[r])) < PerMinute[DefinitionOf[r]]
        /\ admittedAt' = [admittedAt EXCEPT ![r] = clock] /\ clock' = clock
        /\ InHand' \in {InHand, InHand \cup {r}}
    BY <1>3, SameCount DEF Promise!Grant, InHand
  <2>2. clock' \in Nat /\ admittedAt' \in [Requests -> Nat \cup {NULL}]
    BY <2>1 DEF PromiseInv
  <2>3. ASSUME NEW b \in Buckets
        PROVE  Honoured(b)'
    <3>1. Honoured(b)
      BY DEF PromiseInv
    <3>2. /\ Promise!Held(b)' \subseteq Promise!Held(b) \cup {r}
          /\ Promise!Recent(b)' \subseteq Promise!Recent(b) \cup {r}
      BY <2>1 DEF Promise!Held, Promise!Recent, InHand, PromiseInv
    <3>3. CASE BucketOf[r] # b
      <4>1. /\ Promise!Held(b)' \subseteq Promise!Held(b)
            /\ Promise!Recent(b)' \subseteq Promise!Recent(b)
        BY <3>2, <3>3 DEF Promise!Held, Promise!Recent
      <4>2. Bounded(Promise!Held(b)', MaxConcurrent) /\ Bounded(Promise!Recent(b)', PerMinute)
        BY <1>1, <3>1, <4>1, FewerBounded DEF Honoured
      <4> QED
        BY <3>1, <4>1, <4>2 DEF Honoured, Bounded
    <3>4. CASE BucketOf[r] = b
      <4>1. /\ Bounded(Promise!Held(b) \cup {r}, MaxConcurrent)
            /\ Bounded(Promise!Recent(b) \cup {r}, PerMinute)
        BY <1>1, <2>1, <3>4, OneMoreBounded
      <4>2. /\ Promise!Held(b) \cup {r} \in SUBSET Requests
            /\ Promise!Recent(b) \cup {r} \in SUBSET Requests
        BY <1>1
      <4>3. Bounded(Promise!Held(b)', MaxConcurrent) /\ Bounded(Promise!Recent(b)', PerMinute)
        BY <3>2, <4>1, <4>2, FewerBounded
      <4> QED
        BY <2>1, <3>1, <3>2, <3>4, <4>3 DEF Honoured, Bounded
    <3> QED
      BY <3>3, <3>4
  <2> QED
    BY <2>2, <2>3 DEF PromiseInv
<1>4. CASE Promise!Release
  <2>1. clock' = clock /\ admittedAt' = admittedAt /\ InHand' \subseteq InHand
    BY <1>4 DEF Promise!Release, InHand
  <2> QED
    BY <1>2, <2>1 DEF PromiseInv
<1>5. CASE Promise!Pass
  <2>1. clock' = clock + 1 /\ admittedAt' = admittedAt /\ InHand' = InHand
    BY <1>5 DEF Promise!Pass, InHand
  <2> QED
    BY <1>2, <2>1 DEF PromiseInv
<1>6. CASE UNCHANGED Promise!vars
  <2>1. clock' = clock /\ admittedAt' = admittedAt /\ InHand' = InHand
    BY <1>6 DEF Promise!vars, InHand
  <2> QED
    BY <1>2, <2>1 DEF PromiseInv
<1> QED
  BY <1>3, <1>4, <1>5, <1>6 DEF Promise!Next

\* The limits follow from the promise alone: whatever keeps the promise of
\* Permits, by polling or otherwise, keeps to max_concurrent and to
\* requests_per_minute, and mixes no definitions.
THEOREM PromiseSuffices == KeepsPromise => [](ConcurrencyLimit /\ RateLimit)
<1> USE LedgerAssumption, AdmissionAssumption
<1>1. Promise!Init => PromiseInv
  <2> SUFFICES ASSUME Promise!Init PROVE PromiseInv
    OBVIOUS
  <2>1. clock = 0 /\ admittedAt = [r \in Requests |-> NULL] /\ InHand = {}
    BY DEF Promise!Init, InHand
  <2>2. \A b : Promise!Held(b) = {} /\ Promise!Recent(b) = {}
    BY <2>1 DEF Promise!Held, Promise!Recent, InHand
  <2> QED
    BY <2>1, <2>2 DEF PromiseInv, Honoured, Bounded
<1>2. ASSUME PromiseInv
      PROVE  ConcurrencyLimit
  <2> SUFFICES ASSUME NEW r \in Requests, pc[r] = "held", MaxConcurrent[DefinitionOf[r]] # NULL
               PROVE  Cardinality(Holders(BucketOf[r])) <= MaxConcurrent[DefinitionOf[r]]
    BY DEF ConcurrencyLimit
  <2>1. Holders(BucketOf[r]) = Promise!Held(BucketOf[r]) /\ r \in Holders(BucketOf[r])
    BY DEF Holders, InBucket, Promise!Held
  <2>2. Honoured(BucketOf[r])
    BY <1>2 DEF PromiseInv
  <2> QED
    BY <2>1, <2>2 DEF Honoured, Bounded, Within
<1>3. ASSUME PromiseInv
      PROVE  RateLimit
  <2> SUFFICES ASSUME NEW b \in Buckets, NEW r \in AdmittedWithin(b, Window - MaxLag),
                      PerMinute[DefinitionOf[r]] # NULL
               PROVE  Cardinality(AdmittedWithin(b, Window - MaxLag)) <= PerMinute[DefinitionOf[r]]
    BY DEF RateLimit, RateBound
  <2>1. ASSUME NEW s \in Requests, admittedAt[s] # NULL
        PROVE  clock - admittedAt[s] < Window - MaxLag <=> clock < admittedAt[s] + (Window - MaxLag)
    <3>1. clock \in Nat /\ admittedAt[s] \in Nat
      BY <1>3, <2>1 DEF PromiseInv
    <3> QED
      BY <3>1
  <2>2. AdmittedWithin(b, Window - MaxLag) = Promise!Recent(b)
    BY <2>1 DEF AdmittedWithin, InBucket, Promise!Recent
  <2>3. Honoured(b)
    BY <1>3 DEF PromiseInv
  <2> QED
    BY <2>2, <2>3 DEF Honoured, Bounded, Within
<1> QED
  BY <1>1, <1>2, <1>3, PromiseStep, PTL DEF KeepsPromise, Promise!Spec
=============================================================================
