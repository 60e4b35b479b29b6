-------------------------- MODULE AdmissionProofs ---------------------------
(***************************************************************************)
(* Safety of Admission for any processes, requests, limits and lag.        *)
(***************************************************************************)
EXTENDS AdmissionInvariant, LedgerProofs

\* The first ledger of a boot satisfies the invariant.
LEMMA InitInv == Init => Inv
<1> USE LedgerAssumption
<1> SUFFICES ASSUME Init PROVE Inv
  OBVIOUS
<1>1. Sound(db) /\ db \in Tables
  BY EmptySound DEF Init, Sound
<1>2. TypeOK
  BY <1>1 DEF Init, TypeOK, Phases
<1>3. \A r \in Requests : OwnerOf(r) /\ RowOf(r) /\ StartOf(r)
  BY DEF Init, OwnerOf, RowOf, StartOf, NoTrace, EmptyLedger, Acquiring, Raising,
         Occupying, Active
<1> QED
  BY <1>1, <1>2, <1>3 DEF Init, Inv

-----------------------------------------------------------------------------
(* What a transaction of one request does to the rows of the others *)

\* A row left alone, or one that its transaction found dead or completed; a
\* start is dropped only when its window is over.
Kept(s, m) ==
  /\ db.state[s] = "absent" => m.state[s] = "absent"
  /\ pc[s] \notin {"idle", "dead"} /\ db.state[s] \in Active => m.state[s] = db.state[s]
  /\ m.state[s] \in Active => m.state[s] = db.state[s]
  /\ m.starts[s] \in {NULL, db.starts[s]}
  /\ db.starts[s] # NULL /\ clock < admittedAt[s] + Window - MaxLag =>
       m.starts[s] = db.starts[s]

\* The maintenance of a living host never touches the active row of a
\* living process, and never forgets a start of the last Window - MaxLag.
LEMMA MaintainKeeps ==
  ASSUME Inv, NEW t \in Nat, t <= clock, NEW s \in Requests
  PROVE  Kept(s, Maintain(db, t, running))
<1> USE LedgerAssumption, AdmissionAssumption
<1> DEFINE m == Maintain(db, t, running)
<1>1. db \in Tables /\ RowShape(db) /\ clock \in Nat /\ OwnerOf(s) /\ RowOf(s) /\ StartOf(s)
      /\ admittedAt[s] \in Nat \cup {NULL}
  BY DEF Inv, Sound, TypeOK
<1>2. /\ m.starts[s] = IF Expired(db, s, t) THEN NULL ELSE db.starts[s]
      /\ \/ m.state[s] = db.state[s] /\ s \notin DeadRows(db, running)
         \/ m.state[s] \in {"abandoned", "absent"} /\ s \in DeadRows(db, running)
         \/ m.state[s] = "absent" /\ db.state[s] \in Terminal
  BY <1>1, MaintainFacts
<1> HIDE DEF m
<1>3. s \in DeadRows(db, running) => db.state[s] \in Active /\ ProcessOf[s] \notin running
  BY DEF DeadRows, Alive
<1>4. /\ db.state[s] = "absent" => m.state[s] = "absent"
      /\ pc[s] \notin {"idle", "dead"} /\ db.state[s] \in Active => m.state[s] = db.state[s]
      /\ m.state[s] \in Active => m.state[s] = db.state[s]
  BY <1>1, <1>2, <1>3 DEF OwnerOf, Active, Terminal
<1>5. db.starts[s] # NULL /\ clock < admittedAt[s] + Window - MaxLag =>
        m.starts[s] = db.starts[s]
  <2> SUFFICES ASSUME db.starts[s] # NULL, clock < admittedAt[s] + Window - MaxLag
               PROVE  ~ Expired(db, s, t)
    BY <1>2
  <2>1. db.starts[s] \in Nat /\ admittedAt[s] \in Nat /\ admittedAt[s] <= db.starts[s] + MaxLag
    BY <1>1 DEF StartOf, Tables
  <2> QED
    BY <1>1, <2>1 DEF Expired
<1> QED
  BY <1>2, <1>4, <1>5 DEF Kept, m

\* A request whose row is kept and whose thread does not move stays as the
\* invariant describes it.
LEMMA Undisturbed ==
  ASSUME Inv, NEW s \in Requests, UNCHANGED <<clock, hosts>>,
         pc'[s] = pc[s], tick'[s] = tick[s], admittedAt'[s] = admittedAt[s],
         s \in inserted' <=> s \in inserted, Kept(s, db')
  PROVE  OwnerOf(s)' /\ RowOf(s)' /\ StartOf(s)'
<1> USE LedgerAssumption, AdmissionAssumption
<1>1. OwnerOf(s) /\ RowOf(s) /\ StartOf(s)
  BY DEF Inv
<1>2. OwnerOf(s)'
  BY <1>1 DEF OwnerOf, hosts
<1>3. RowOf(s)'
  BY <1>1 DEF RowOf, Kept, NoTrace, Queued, Occupying, Active, Acquiring, Raising
<1>4. StartOf(s)'
  BY <1>1 DEF StartOf, Kept
<1> QED
  BY <1>2, <1>3, <1>4

\* The rows before the admission decision: maintenance, then the request's
\* own waiting row.
LEMMA AttemptFacts ==
  ASSUME Inv, NEW r \in Requests, Attempt(r)
  PROVE  LET g == Registered(r) IN
         /\ Sound(g)
         /\ g.state[r] = "waiting" /\ g.starts[r] = NULL
         /\ g.bucket[BucketOf[r]] = DefinitionOf[r]
         /\ \A s \in Requests : s # r => Kept(s, g)
<1> USE LedgerAssumption, AdmissionAssumption
<1> DEFINE m == Maintained(r)
           g == Registered(r)
<1>1. /\ db \in Tables /\ Sound(db) /\ RowOf(r) /\ StartOf(r) /\ OwnerOf(r)
      /\ pc[r] = "sampled" /\ tick[r] \in Nat /\ tick[r] <= clock /\ ~ Refused(r)
  BY DEF Inv, TypeOK, Attempt, StartOf
<1>2. Sound(m)
  BY <1>1, MaintainSound DEF Maintained
<1>3. \A s \in Requests : Kept(s, m)
  BY <1>1, MaintainKeeps DEF Maintained
<1>4. ~ Conflict(m, r) /\ m.state[r] = IF r \notin inserted THEN "absent" ELSE "waiting"
  BY <1>1, <1>3 DEF Refused, Kept, RowOf, NoTrace, Acquiring
<1>5. m.starts[r] = NULL
  BY <1>1, <1>3 DEF Kept, RowOf, NoTrace, Queued, Acquiring
<1> HIDE DEF m
<1>6. /\ Sound(g)
      /\ g.starts = m.starts
      /\ g.state = [m.state EXCEPT ![r] = "waiting"]
      /\ g.bucket[BucketOf[r]] = DefinitionOf[r]
  BY <1>2, <1>4, RegisterSound DEF Registered, m
<1>7. m.state \in [Requests -> Active \cup Terminal \cup {"absent"}]
  BY <1>2 DEF Sound, Tables
<1> HIDE DEF g
<1>8. \A s \in Requests : s # r => Kept(s, g)
  BY <1>3, <1>6, <1>7 DEF Kept
<1>9. g.state[r] = "waiting" /\ g.starts[r] = NULL
  BY <1>5, <1>6, <1>7
<1> QED
  BY <1>6, <1>8, <1>9 DEF g

\* The same with the permit granted.
LEMMA GrantFacts ==
  ASSUME Inv, NEW r \in Requests, Admissible(r)
  PROVE  LET g == Grant(Registered(r), r, tick[r]) IN
         /\ Sound(g)
         /\ g.state[r] = "running" /\ g.starts[r] = tick[r]
         /\ \A s \in Requests : s # r => Kept(s, g)
<1> DEFINE w == Registered(r)
           g == Grant(w, r, tick[r])
<1>1. /\ Sound(w) /\ w.state[r] = "waiting" /\ HasRoom(w, r)
      /\ w.bucket[BucketOf[r]] = DefinitionOf[r]
      /\ \A s \in Requests : s # r => Kept(s, w)
  BY AttemptFacts DEF Admissible
<1>2. tick[r] \in Nat
  BY DEF Inv, TypeOK
<1> HIDE DEF w
<1>3. /\ Sound(g)
      /\ g.state = [w.state EXCEPT ![r] = "running"]
      /\ g.starts = [w.starts EXCEPT ![r] = tick[r]]
  BY <1>1, <1>2, GrantSound
<1>4. w \in Tables
  BY <1>1 DEF Sound
<1> HIDE DEF g
<1>5. \A s \in Requests : s # r => Kept(s, g)
  BY <1>1, <1>3, <1>4 DEF Kept, Tables
<1>6. g.state[r] = "running" /\ g.starts[r] = tick[r]
  BY <1>3, <1>4 DEF Tables
<1> QED
  BY <1>3, <1>5, <1>6 DEF g, w

-----------------------------------------------------------------------------
(* Every step preserves the invariant *)

\* One thread moves; the others keep their rows.
Moves(r) ==
  /\ UNCHANGED <<clock, hosts>>
  /\ \A s \in Requests : s # r =>
       /\ pc'[s] = pc[s] /\ tick'[s] = tick[s] /\ admittedAt'[s] = admittedAt[s]
       /\ s \in inserted' <=> s \in inserted
       /\ Kept(s, db')

\* A step that moves one request keeps the invariant when it keeps that
\* request's part of it.
LEMMA OneMoves ==
  ASSUME Inv, NEW r \in Requests, Moves(r), TypeOK', Sound(db)',
         OwnerOf(r)', RowOf(r)', StartOf(r)'
  PROVE  Inv'
<1>1. ASSUME NEW s \in Requests, s # r
      PROVE  OwnerOf(s)' /\ RowOf(s)' /\ StartOf(s)'
  BY <1>1, Undisturbed DEF Moves
<1>2. (running \cap exited = {})'
  BY DEF Inv, Moves, hosts
<1> QED
  BY <1>1, <1>2 DEF Inv

\* The steps that leave the ledger alone.
LEMMA UnchangedKept ==
  ASSUME NEW s \in Requests
  PROVE  Kept(s, db)
BY DEF Kept

QuietStep(r) ==
  \/ Begin(r) \/ SeeCancelled(r) \/ Sample(r) \/ Refuse(r) \/ AdmitCancelled(r)
  \/ Wake(r) \/ Interrupt(r) \/ StorageFails(r) \/ CleanupFails(r) \/ GiveUp(r)

\* Steps outside a transaction: the phase and the tick of one request.
LEMMA QuietInv ==
  ASSUME Inv, NEW r \in Requests, QuietStep(r)
  PROVE  Inv'
<1> USE LedgerAssumption, AdmissionAssumption
<1>1. /\ TypeOK /\ Sound(db) /\ OwnerOf(r) /\ RowOf(r) /\ StartOf(r)
      /\ db \in Tables
  BY DEF Inv, TypeOK
<1>2. /\ UNCHANGED <<db, clock, hosts, inserted, cancelled, admittedAt>>
      /\ \E phase \in Phases : pc' = [pc EXCEPT ![r] = phase]
      /\ tick' = tick \/ tick' = [tick EXCEPT ![r] = clock]
  BY DEF QuietStep, Begin, SeeCancelled, Sample, Refuse, AdmitCancelled, Wake, Interrupt,
         StorageFails, CleanupFails, GiveUp, Goto, local, Phases
<1>3. TypeOK'
  BY <1>1, <1>2 DEF TypeOK, hosts
<1>4. Sound(db)'
  BY <1>1, <1>2
<1>5. Moves(r)
  <2>1. \A s \in Requests : s # r => Kept(s, db')
    BY <1>2, UnchangedKept
  <2>2. \A s \in Requests : s # r => pc'[s] = pc[s] /\ tick'[s] = tick[s]
    BY <1>1, <1>2 DEF TypeOK
  <2> QED
    BY <1>2, <2>1, <2>2 DEF Moves
<1>6. OwnerOf(r)'
  BY <1>1 DEF QuietStep, Begin, SeeCancelled, Sample, Refuse, AdmitCancelled, Wake, Interrupt,
     StorageFails, CleanupFails, GiveUp, Goto, local, hosts, OwnerOf, TypeOK, Attempt,
     Admissible, Acquiring, Raising
<1>7. RowOf(r)'
  <2> USE <1>1 DEF Goto, local, hosts, RowOf, TypeOK, Acquiring, Raising, NoTrace, Queued
  <2>1. CASE Begin(r)
    BY <2>1 DEF Begin, Occupying
  <2>2. CASE SeeCancelled(r) \/ Sample(r) \/ Refuse(r) \/ AdmitCancelled(r)
              \/ Wake(r) \/ Interrupt(r) \/ StorageFails(r)
    BY <2>2 DEF SeeCancelled, Sample, Refuse, AdmitCancelled, Wake, Interrupt,
                StorageFails, Attempt, Admissible, Occupying
  <2>3. CASE CleanupFails(r)
    BY <2>3 DEF CleanupFails
  <2>4. CASE GiveUp(r)
    BY <2>4 DEF GiveUp
  <2> QED
    BY <2>1, <2>2, <2>3, <2>4 DEF QuietStep
<1>8. StartOf(r)'
  <2>1. CASE Sample(r)
    BY <1>1, <2>1 DEF Sample, Goto, hosts, StartOf, TypeOK
  <2>2. CASE ~ Sample(r)
    <3>1. pc'[r] # "sampled" /\ UNCHANGED <<db, clock, admittedAt>>
      BY <1>1, <2>2 DEF QuietStep, Begin, SeeCancelled, Refuse, AdmitCancelled, Wake,
         Interrupt, StorageFails, CleanupFails, GiveUp, Goto, TypeOK
    <3> QED
      BY <1>1, <3>1 DEF StartOf
  <2> QED
    BY <2>1, <2>2
<1> QED
  BY <1>3, <1>4, <1>5, <1>6, <1>7, <1>8, OneMoves

\* The steps that commit an attempt: with a waiting row, ...
LEMMA EnqueueInv ==
  ASSUME Inv, NEW r \in Requests, Attempt(r),
         db' = Registered(r), UNCHANGED <<clock, hosts, tick, cancelled, admittedAt>>,
         NEW phase \in {"waiting", "closing", "leaked"}, Goto(r, phase),
         NEW done \in BOOLEAN, inserted' = IF done THEN inserted \cup {r} ELSE inserted,
         phase = "waiting" => done, phase = "closing" /\ ~ done => r \in inserted
  PROVE  Inv'
<1> USE LedgerAssumption, AdmissionAssumption
<1> DEFINE g == Registered(r)
<1>1. /\ TypeOK /\ OwnerOf(r) /\ RowOf(r) /\ StartOf(r) /\ pc[r] = "sampled"
  BY DEF Inv, Attempt
<1>2. /\ Sound(g) /\ g.state[r] = "waiting" /\ g.starts[r] = NULL
      /\ \A s \in Requests : s # r => Kept(s, g)
  BY AttemptFacts
<1> HIDE DEF g
<1>3. db' = g
  BY DEF g
<1>4. TypeOK' /\ Sound(db)'
  BY <1>1, <1>2, <1>3 DEF TypeOK, Goto, hosts, Phases, Sound
<1>5. Moves(r)
  <2>1. \A s \in Requests : s # r => pc'[s] = pc[s] /\ (s \in inserted' <=> s \in inserted)
    BY <1>1 DEF TypeOK, Goto
  <2> QED
    BY <1>2, <1>3, <2>1 DEF Moves
<1>6. pc'[r] = phase /\ admittedAt[r] = NULL
  BY <1>1 DEF TypeOK, Goto, RowOf, NoTrace, Queued, Acquiring
<1>7. OwnerOf(r)'
  BY <1>1, <1>6 DEF OwnerOf, hosts
<1>8. RowOf(r)'
  BY <1>1, <1>2, <1>3, <1>6 DEF RowOf, Queued, Acquiring, Raising, Occupying
<1>9. StartOf(r)'
  BY <1>2, <1>3, <1>6 DEF StartOf
<1> QED
  BY <1>4, <1>5, <1>7, <1>8, <1>9, OneMoves

\* ... or with a permit.
LEMMA AdmitInv ==
  ASSUME Inv, NEW r \in Requests, Admissible(r),
         db' = Grant(Registered(r), r, tick[r]),
         admittedAt' = [admittedAt EXCEPT ![r] = clock],
         UNCHANGED <<clock, hosts, tick, cancelled>>,
         NEW phase \in {"held", "closing", "leaked"}, Goto(r, phase),
         NEW done \in BOOLEAN, inserted' = IF done THEN inserted \cup {r} ELSE inserted,
         phase = "closing" /\ ~ done => r \in inserted
  PROVE  Inv'
<1> USE LedgerAssumption, AdmissionAssumption
<1> DEFINE g == Grant(Registered(r), r, tick[r])
<1>1. /\ TypeOK /\ OwnerOf(r) /\ RowOf(r) /\ StartOf(r) /\ pc[r] = "sampled"
  BY DEF Inv, Attempt, Admissible
<1>2. /\ Sound(g) /\ g.state[r] = "running" /\ g.starts[r] = tick[r]
      /\ \A s \in Requests : s # r => Kept(s, g)
  BY GrantFacts
<1> HIDE DEF g
<1>3. db' = g
  BY DEF g
<1>4. TypeOK' /\ Sound(db)'
  BY <1>1, <1>2, <1>3 DEF TypeOK, Goto, hosts, Phases, Sound
<1>5. Moves(r)
  <2>1. \A s \in Requests : s # r =>
          pc'[s] = pc[s] /\ admittedAt'[s] = admittedAt[s] /\ (s \in inserted' <=> s \in inserted)
    BY <1>1 DEF TypeOK, Goto
  <2> QED
    BY <1>2, <1>3, <2>1 DEF Moves
<1>6. pc'[r] = phase /\ admittedAt'[r] = clock /\ clock \in Nat
  BY <1>1 DEF TypeOK, Goto
<1>7. OwnerOf(r)'
  BY <1>1, <1>6 DEF OwnerOf, hosts
<1>8. RowOf(r)'
  BY <1>1, <1>2, <1>3, <1>6 DEF RowOf, Acquiring, Raising, Occupying, Active
<1>9. StartOf(r)'
  <2>1. tick[r] \in Nat /\ tick[r] <= clock /\ clock <= tick[r] + MaxLag
    BY <1>1 DEF StartOf, TypeOK
  <2> QED
    BY <1>2, <1>3, <1>6, <2>1 DEF StartOf
<1> QED
  BY <1>4, <1>5, <1>7, <1>8, <1>9, OneMoves

\* The three commits of an attempt, heard of or not.
LEMMA CommitInv ==
  ASSUME Inv, NEW r \in Requests, Enqueue(r) \/ Admit(r) \/ InterruptedCommit(r)
  PROVE  Inv'
<1>1. CASE Enqueue(r)
  <2>1. inserted' = IF TRUE THEN inserted \cup {r} ELSE inserted
    BY <1>1 DEF Enqueue
  <2> QED
    BY <1>1, <2>1, EnqueueInv DEF Enqueue
<1>2. CASE Admit(r)
  <2>1. inserted' = IF TRUE THEN inserted \cup {r} ELSE inserted
    BY <1>2 DEF Admit
  <2> QED
    BY <1>2, <2>1, AdmitInv DEF Admit
<1>3. CASE InterruptedCommit(r)
  <2>1. PICK set \in BOOLEAN : inserted' = IF set THEN inserted \cup {r} ELSE inserted
    BY <1>3 DEF InterruptedCommit
  <2>2. PICK phase : phase = IF r \in inserted' THEN "closing" ELSE "leaked"
    OBVIOUS
  <2>3. /\ inserted' = IF set THEN inserted \cup {r} ELSE inserted
        /\ phase \in {"waiting", "closing", "leaked"} /\ phase \in {"held", "closing", "leaked"}
        /\ phase # "waiting" /\ (phase = "closing" /\ ~ set => r \in inserted)
        /\ Goto(r, phase) /\ Attempt(r)
        /\ UNCHANGED <<clock, hosts, tick, cancelled>>
    BY <1>3, <2>1, <2>2 DEF InterruptedCommit
  <2>4. CASE db' = Registered(r) /\ UNCHANGED admittedAt
    BY <2>3, <2>4, EnqueueInv
  <2>5. CASE /\ Admissible(r) /\ db' = Grant(Registered(r), r, tick[r])
             /\ admittedAt' = [admittedAt EXCEPT ![r] = clock]
    BY <2>3, <2>5, AdmitInv
  <2> QED
    BY <1>3, <2>4, <2>5 DEF InterruptedCommit
<1> QED
  BY <1>1, <1>2, <1>3

\* The steps that finish a row or mark it streaming.
LEMMA CompletionInv ==
  ASSUME Inv, NEW r \in Requests,
         Cleanup(r) \/ Stream(r) \/ \E outcome \in Outcomes : Finish(r, outcome)
  PROVE  Inv'
<1> USE LedgerAssumption, AdmissionAssumption
<1>1. /\ TypeOK /\ Sound(db) /\ OwnerOf(r) /\ RowOf(r) /\ StartOf(r)
      /\ db \in Tables /\ RowShape(db) /\ clock \in Nat
  BY DEF Inv, TypeOK, Sound
<1>2. CASE Stream(r)
  <2>1. /\ Sound(db') /\ db'.state = [db.state EXCEPT ![r] = "streaming"]
        /\ db'.starts = db.starts
    BY <1>1, <1>2, StreamSound DEF Stream
  <2>2. /\ UNCHANGED <<clock, hosts, pc, local, admittedAt>> /\ pc[r] = "held"
        /\ db.state[r] = "running"
    BY <1>2 DEF Stream
  <2>3. TypeOK'
    BY <1>1, <2>1, <2>2 DEF TypeOK, hosts, local, Sound
  <2>4. Moves(r)
    BY <1>1, <2>1, <2>2 DEF Moves, Kept, local, Tables
  <2>5. OwnerOf(r)' /\ StartOf(r)'
    BY <1>1, <2>1, <2>2 DEF OwnerOf, StartOf, hosts, local
  <2>6. RowOf(r)'
    BY <1>1, <2>1, <2>2 DEF RowOf, local, Tables, Acquiring, Raising, Occupying
  <2> QED
    BY <2>1, <2>3, <2>4, <2>5, <2>6, OneMoves
<1>3. ASSUME NEW outcome \in Outcomes, NEW phase \in {"finished", "failed"},
             pc[r] \in {"held", "closing", "failing"}, Goto(r, phase),
             db' = Complete(db, r, outcome, clock),
             UNCHANGED <<clock, hosts, local, admittedAt>>
      PROVE  Inv'
  <2>1. outcome \in Terminal
    BY DEF Outcomes, Terminal
  <2>2. /\ Sound(db') /\ db'.state = [db.state EXCEPT ![r] = outcome]
        /\ db'.starts = db.starts
    BY <1>1, <1>3, <2>1, CompleteSound
  <2>3. TypeOK'
    BY <1>1, <1>3, <2>2 DEF TypeOK, Goto, hosts, local, Sound, Phases
  <2>4. Moves(r)
    BY <1>1, <1>3, <2>2 DEF Moves, Kept, Goto, TypeOK, local, Tables
  <2>5. pc'[r] = phase /\ db'.state[r] = outcome
    BY <1>1, <1>3, <2>2 DEF Goto, TypeOK, Tables
  <2>6. OwnerOf(r)' /\ StartOf(r)'
    BY <1>1, <1>3, <2>2, <2>5 DEF OwnerOf, StartOf, hosts, local
  <2>7. RowOf(r)'
    BY <1>1, <1>3, <2>1, <2>5 DEF RowOf, local, Acquiring, Raising, Occupying, Active, Terminal
  <2> QED
    BY <2>2, <2>3, <2>4, <2>6, <2>7, OneMoves
<1>4. CASE \E outcome \in Outcomes : Finish(r, outcome)
  BY <1>3, <1>4 DEF Finish
<1>5. CASE Cleanup(r)
  <2>1. CASE r \in inserted /\ Completable(db, r)
             /\ db' = Complete(db, r, IF pc[r] = "closing" THEN "cancelled" ELSE "error", clock)
    <3>1. (IF pc[r] = "closing" THEN "cancelled" ELSE "error") \in Outcomes
      BY DEF Outcomes
    <3> QED
      BY <1>3, <1>5, <2>1, <3>1 DEF Cleanup, Raising
  <2>2. CASE (r \notin inserted \/ ~ Completable(db, r)) /\ UNCHANGED db
    <3>1. /\ UNCHANGED <<clock, hosts, local, admittedAt>>
          /\ pc[r] \in Raising /\ pc' = [pc EXCEPT ![r] = "failed"]
      BY <1>5 DEF Cleanup, Goto
    <3>2. TypeOK' /\ Sound(db)'
      BY <1>1, <2>2, <3>1 DEF TypeOK, hosts, local, Phases
    <3>3. Moves(r)
      BY <1>1, <2>2, <3>1 DEF Moves, Kept, TypeOK, local
    <3>4. db.state[r] \notin Active
      BY <1>1, <2>2, <3>1 DEF RowOf, NoTrace, Completable, RowShape, Active, Terminal, Raising
    <3>5. pc'[r] = "failed"
      BY <1>1, <3>1 DEF TypeOK
    <3>6. OwnerOf(r)' /\ StartOf(r)'
      BY <1>1, <2>2, <3>1, <3>5 DEF OwnerOf, StartOf, hosts, local, Raising
    <3>7. RowOf(r)'
      BY <1>1, <2>2, <3>1, <3>4, <3>5 DEF RowOf, Acquiring, Raising, Occupying, Active
    <3> QED
      BY <3>2, <3>3, <3>6, <3>7, OneMoves
  <2> QED
    BY <1>5, <2>1, <2>2 DEF Cleanup
<1> QED
  BY <1>2, <1>4, <1>5

\* A cancelled event, a snapshot, and what happens to processes and time.
LEMMA HostInv ==
  ASSUME Inv,
         \/ \E r \in Requests : Cancel(r)
         \/ Snapshot
         \/ \E p \in Processes : Spawn(p) \/ Crash(p)
         \/ Tick
  PROVE  Inv'
<1> USE LedgerAssumption, AdmissionAssumption
<1>1. /\ TypeOK /\ Sound(db) /\ running \cap exited = {} /\ db \in Tables /\ clock \in Nat
      /\ \A s \in Requests : OwnerOf(s) /\ RowOf(s) /\ StartOf(s)
  BY DEF Inv, TypeOK
<1>2. ASSUME NEW r \in Requests, Cancel(r) PROVE Inv'
  <2>1. /\ UNCHANGED <<db, clock, hosts, pc, tick, inserted, admittedAt>>
        /\ cancelled' = cancelled \cup {r}
    BY <1>2 DEF Cancel
  <2>2. TypeOK' /\ Sound(db)' /\ (running \cap exited = {})'
    BY <1>1, <2>1 DEF TypeOK, hosts
  <2>3. ASSUME NEW s \in Requests PROVE OwnerOf(s)' /\ RowOf(s)' /\ StartOf(s)'
    BY <2>1, UnchangedKept, Undisturbed
  <2> QED
    BY <2>2, <2>3 DEF Inv
<1>3. CASE Snapshot
  <2>1. PICK sampled \in 0..clock : db' = Maintain(db, sampled, running)
    BY <1>3 DEF Snapshot
  <2>2. UNCHANGED <<clock, hosts, pc, local, admittedAt>>
    BY <1>3 DEF Snapshot
  <2>3. Sound(db')
    BY <1>1, <2>1, MaintainSound
  <2>4. TypeOK' /\ Sound(db)' /\ (running \cap exited = {})'
    BY <1>1, <2>2, <2>3 DEF TypeOK, hosts, local, Sound
  <2>5. ASSUME NEW s \in Requests PROVE OwnerOf(s)' /\ RowOf(s)' /\ StartOf(s)'
    <3>1. Kept(s, db')
      BY <1>1, <2>1, MaintainKeeps
    <3> QED
      BY <2>2, <3>1, Undisturbed DEF local
  <2> QED
    BY <2>4, <2>5 DEF Inv
<1>4. ASSUME NEW p \in Processes, Spawn(p) PROVE Inv'
  <2>1. /\ running' = running \cup {p} /\ p \notin exited
        /\ UNCHANGED <<db, clock, exited, pc, local, admittedAt>>
    BY <1>4 DEF Spawn
  <2>2. TypeOK' /\ Sound(db)' /\ (running \cap exited = {})'
    BY <1>1, <2>1 DEF TypeOK, local
  <2>3. ASSUME NEW s \in Requests PROVE OwnerOf(s)' /\ RowOf(s)' /\ StartOf(s)'
    <3>1. OwnerOf(s)'
      BY <1>1, <2>1 DEF OwnerOf
    <3>2. RowOf(s)' /\ StartOf(s)'
      BY <1>1, <2>1 DEF RowOf, StartOf, NoTrace, Queued, local
    <3> QED
      BY <3>1, <3>2
  <2> QED
    BY <2>2, <2>3 DEF Inv
<1>5. ASSUME NEW p \in Processes, Crash(p) PROVE Inv'
  <2>1. /\ p \in running /\ running' = running \ {p} /\ exited' = exited \cup {p}
        /\ pc' = [r \in Requests |->
                    IF ProcessOf[r] = p /\ pc[r] # "idle" THEN "dead" ELSE pc[r]]
        /\ UNCHANGED <<db, clock, local, admittedAt>>
    BY <1>5 DEF Crash
  <2>2. TypeOK' /\ Sound(db)' /\ (running \cap exited = {})'
    BY <1>1, <2>1 DEF TypeOK, local, Phases
  <2>3. ASSUME NEW s \in Requests PROVE OwnerOf(s)' /\ RowOf(s)' /\ StartOf(s)'
    <3>1. /\ OwnerOf(s) /\ RowOf(s) /\ StartOf(s)
          /\ pc'[s] = IF ProcessOf[s] = p /\ pc[s] # "idle" THEN "dead" ELSE pc[s]
      BY <1>1, <2>1
    <3>2. OwnerOf(s)'
      BY <2>1, <3>1 DEF OwnerOf
    <3>3. RowOf(s)'
      BY <2>1, <3>1 DEF RowOf, NoTrace, Queued, local, Acquiring, Raising
    <3>4. StartOf(s)'
      BY <2>1, <3>1 DEF StartOf, local
    <3> QED
      BY <3>2, <3>3, <3>4
  <2> QED
    BY <2>2, <2>3 DEF Inv
<1>6. CASE Tick
  <2>1. /\ clock' = clock + 1
        /\ \A r \in Requests : pc[r] = "sampled" => clock < tick[r] + MaxLag
        /\ UNCHANGED <<db, hosts, pc, local, admittedAt>>
    BY <1>6 DEF Tick
  <2>2. TypeOK' /\ Sound(db)' /\ (running \cap exited = {})'
    BY <1>1, <2>1 DEF TypeOK, hosts, local
  <2>3. ASSUME NEW s \in Requests PROVE OwnerOf(s)' /\ RowOf(s)' /\ StartOf(s)'
    <3>1. OwnerOf(s)' /\ RowOf(s)'
      BY <1>1, <2>1 DEF OwnerOf, RowOf, NoTrace, Queued, hosts, local
    <3>2. /\ clock \in Nat /\ tick[s] \in Nat /\ admittedAt[s] \in Nat \cup {NULL}
          /\ db' = db /\ pc' = pc /\ tick' = tick /\ admittedAt' = admittedAt
      BY <1>1, <2>1 DEF TypeOK, local
    <3>a. StartOf(s) /\ clock' = clock + 1 /\ MaxLag \in Nat /\ Window \in Nat
      BY <1>1, <2>1
    <3>b. pc[s] = "sampled" => tick[s] <= clock /\ clock < tick[s] + MaxLag
      BY <2>1, <3>a DEF StartOf
    <3>3. pc[s] = "sampled" => tick[s] <= clock' /\ clock' <= tick[s] + MaxLag
      BY <3>2, <3>a, <3>b
    <3>c. admittedAt[s] # NULL =>
            /\ admittedAt[s] <= clock
            /\ clock < admittedAt[s] + Window - MaxLag => db.starts[s] # NULL
      BY <3>a DEF StartOf
    <3>4. admittedAt[s] # NULL =>
            /\ admittedAt[s] <= clock'
            /\ clock' < admittedAt[s] + Window - MaxLag => db.starts[s] # NULL
      BY <3>2, <3>a, <3>c
    <3>5. StartOf(s)'
      BY <1>1, <3>2, <3>3, <3>4 DEF StartOf
    <3> QED
      BY <3>1, <3>5
  <2> QED
    BY <2>2, <2>3 DEF Inv
<1> QED
  BY <1>2, <1>3, <1>4, <1>5, <1>6

\* The invariant is inductive.
LEMMA NextInv == Inv /\ [Next]_vars => Inv'
<1> SUFFICES ASSUME Inv, [Next]_vars PROVE Inv'
  OBVIOUS
<1>1. ASSUME NEW r \in Requests, Begin(r) \/ Step(r) \/ Fault(r) \/ Cancel(r) \/ Stream(r)
      PROVE  Inv'
  <2>1. CASE QuietStep(r)
    BY <2>1, QuietInv
  <2>2. CASE Enqueue(r) \/ Admit(r) \/ InterruptedCommit(r)
    BY <2>2, CommitInv
  <2>3. CASE Cleanup(r) \/ Stream(r)
    BY <2>3, CompletionInv
  <2>4. CASE Cancel(r)
    BY <2>4, HostInv
  <2> QED
    BY <1>1, <2>1, <2>2, <2>3, <2>4 DEF Step, Fault, QuietStep
<1>2. ASSUME NEW r \in Requests, NEW outcome \in Outcomes, Finish(r, outcome)
      PROVE  Inv'
  BY <1>2, CompletionInv
<1>3. ASSUME \/ Snapshot \/ Tick \/ \E p \in Processes : Spawn(p) \/ Crash(p)
      PROVE  Inv'
  BY <1>3, HostInv
<1>4. CASE UNCHANGED vars
  <2>1. Sound(db)' /\ TypeOK' /\ (running \cap exited = {})'
    BY <1>4 DEF Inv, TypeOK, vars, hosts, local
  <2>2. ASSUME NEW s \in Requests PROVE OwnerOf(s)' /\ RowOf(s)' /\ StartOf(s)'
    <3>1. UNCHANGED db /\ UNCHANGED <<clock, hosts, pc, tick, admittedAt, inserted>>
      BY <1>4 DEF vars, local, hosts
    <3>2. Kept(s, db')
      BY <3>1, UnchangedKept
    <3> QED
      BY <3>1, <3>2, Undisturbed
  <2> QED
    BY <2>1, <2>2 DEF Inv
<1> QED
  BY <1>1, <1>2, <1>3, <1>4 DEF Next

-----------------------------------------------------------------------------
(* What the invariant implies *)

\* The whole invariant holds of every reachable state.
THEOREM Invariance == Spec => []Inv
<1> QED
  BY InitInv, NextInv, PTL DEF Spec

\* Type correctness, in particular: every transaction writes well-formed rows.
THEOREM TypeCorrect == Spec => []TypeOK
<1>1. Inv => TypeOK
  BY DEF Inv
<1> QED
  BY <1>1, Invariance, PTL

\* A client in possession of a permit is backed by its row, whatever dies and
\* whatever is pruned around it (_maintain of runtime.py).
THEOREM Backed == Spec => []PermitBacked
<1>1. Inv => PermitBacked
  BY DEF Inv, PermitBacked, RowOf, Queued
<1> QED
  BY <1>1, Invariance, PTL

\* A finished or refused request holds no slot.
THEOREM Released == Spec => []ReleasedWhenOver
<1>1. Inv => ReleasedWhenOver
  BY DEF Inv, ReleasedWhenOver, RowOf
<1> QED
  BY <1>1, Invariance, PTL

\* No two configurations of a source share its budget.
THEOREM DefinitionAgreed == Spec => []OneDefinition
<1>1. Inv => OneDefinition
  BY DEF Inv, OneDefinition, Sound
<1> QED
  BY <1>1, Invariance, PTL

\* The permits in the hands of a bucket's clients never exceed max_concurrent:
\* each holder has an occupying row, and the rows were counted under one lock.
THEOREM Concurrency == Spec => []ConcurrencyLimit
<1>1. ASSUME Inv PROVE ConcurrencyLimit
  <2> USE LedgerAssumption
  <2> SUFFICES ASSUME NEW r \in Requests, pc[r] = "held", MaxConcurrent[DefinitionOf[r]] # NULL
               PROVE  Cardinality(Holders(BucketOf[r])) <= MaxConcurrent[DefinitionOf[r]]
    BY DEF ConcurrencyLimit
  <2> DEFINE S == Occupied(db, BucketOf[r])
             H == Holders(BucketOf[r])
  <2>1. db.state[r] \in Occupying /\ SlotsWithin(db)
    BY <1>1 DEF Inv, RowOf, Sound
  <2>2. Cardinality(S) <= MaxConcurrent[DefinitionOf[r]]
    BY <2>1 DEF SlotsWithin, Within
  <2>3. S \in SUBSET Requests /\ H \in SUBSET S /\ H \in SUBSET Requests
    BY <1>1 DEF Occupied, Holders, InBucket, Inv, RowOf
  <2> HIDE DEF S, H
  <2>4. Cardinality(H) <= Cardinality(S) /\ Cardinality(H) \in Nat /\ Cardinality(S) \in Nat
    BY <2>3, FewerRows, RowsFinite
  <2>5. MaxConcurrent[DefinitionOf[r]] \in Nat
    BY DEF Limit
  <2>6. Cardinality(H) <= MaxConcurrent[DefinitionOf[r]]
    BY <2>2, <2>4, <2>5
  <2> QED
    BY <2>6 DEF H
<1> QED
  BY <1>1, Invariance, PTL

\* No span of Window - MaxLag sees more admissions than requests_per_minute:
\* an admission that recent is still recorded in starts.
THEOREM Rate == Spec => []RateLimit
<1>1. ASSUME Inv PROVE RateLimit
  <2> USE LedgerAssumption, AdmissionAssumption
  <2> SUFFICES ASSUME NEW b \in Buckets, NEW r \in AdmittedWithin(b, Window - MaxLag),
                      PerMinute[DefinitionOf[r]] # NULL
               PROVE  Cardinality(AdmittedWithin(b, Window - MaxLag))
                        <= PerMinute[DefinitionOf[r]]
    BY DEF RateLimit, RateBound
  <2> DEFINE A == AdmittedWithin(b, Window - MaxLag)
             S == RecentStarts(db, b)
  <2>1. A \in SUBSET Requests /\ S \in SUBSET Requests
    BY DEF AdmittedWithin, RecentStarts, InBucket
  <2>2. A \in SUBSET S
    <3> SUFFICES ASSUME NEW s \in A PROVE s \in S
      OBVIOUS
    <3>1. /\ s \in InBucket(b) /\ s \in Requests
          /\ admittedAt[s] # NULL /\ clock - admittedAt[s] < Window - MaxLag
      BY DEF AdmittedWithin, InBucket
    <3>2. clock \in Nat /\ admittedAt[s] \in Nat /\ StartOf(s)
      BY <1>1, <3>1 DEF Inv, TypeOK
    <3>3. db.starts[s] # NULL
      BY <3>1, <3>2 DEF StartOf
    <3> QED
      BY <3>1, <3>3 DEF RecentStarts
  <2>3. r \in S /\ BucketOf[r] = b
    BY <2>2 DEF AdmittedWithin, InBucket
  <2>4. Cardinality(S) <= PerMinute[DefinitionOf[r]]
    BY <1>1, <2>1, <2>3 DEF Inv, Sound, StartsWithin, Within, RecentStarts
  <2>5. r \in Requests
    BY <2>1, <2>3
  <2> HIDE DEF A, S
  <2>6. Cardinality(A) <= Cardinality(S) /\ Cardinality(A) \in Nat /\ Cardinality(S) \in Nat
    BY <2>1, <2>2, FewerRows, RowsFinite
  <2>7. PerMinute[DefinitionOf[r]] \in Nat
    BY <2>5 DEF Limit
  <2>8. Cardinality(A) <= PerMinute[DefinitionOf[r]]
    BY <2>4, <2>6, <2>7
  <2> QED
    BY <2>8 DEF A
<1> QED
  BY <1>1, Invariance, PTL
=============================================================================
