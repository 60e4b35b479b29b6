------------------------- MODULE ConnectionProofs ---------------------------
(***************************************************************************)
(* Safety of Connection for any number of connections and workers, whoever *)
(* streams, whatever the limit, and whether or not callers are considerate *)
(* when they close.                                                        *)
(***************************************************************************)
EXTENDS Connection, FiniteSetTheorems, TLAPS

-----------------------------------------------------------------------------
(* The inductive invariant *)

Admitting == {"acquiring", "granted", "locked", "adding", "rejecting"}
Early == {"idle", "acquiring"}

\* A request is finished just when its row is completed, and has a slot
\* from its grant until then.
RowInv(w) ==
  /\ w \in finished <=> row[w] \in Outcomes
  /\ pc[w] = "idle" => row[w] = "absent"
  /\ pc[w] = "acquiring" => row[w] \in {"absent", "waiting"}
  /\ pc[w] \notin Early \cup {"over"} => row[w] \in Occupying \cup Outcomes
  /\ pc[w] = "leaving" => row[w] \in Outcomes \/ w \in refused
  /\ pc[w] = "over" => row[w] \notin Active \/ w \in refused \cup struck
  /\ w \in registered \cup unfinished => pc[w] \notin Early

\* Who takes care that an active row is finished: a worker that is on its
\* way into the set of requests, or the set, every member of which _close()
\* has before it while it finishes requests.
CareInv(w) ==
  row[w] \in Active =>
    \/ w \in Forsaken
    \/ pc[w] \in Admitting
    \/ w \in registered /\ (closing[ConnectionOf[w]] = "finishing" => w \in unfinished)

\* A request comes into the set once, from the way there.
EntryInv(w) ==
  /\ w \in registered => w \in entered
  /\ pc[w] \in {"idle"} \cup Admitting => w \notin entered

\* The lock makes the look at the closed event and the entry into the set one.
LockInv(w) ==
  LET c == ConnectionOf[w] IN
  /\ pc[w] \in {"locked", "adding", "rejecting"} => lock[c] = w
  /\ pc[w] = "adding" => closing[c] \in {"open", "set"} \/ c \in cut
  /\ closing[c] = "finishing" => lock[c] = c
  /\ closing[c] \in {"shutting", "closed"} => w \notin registered \/ c \in cut

\* What is recorded of a response has happened.
TruthInv(w) ==
  /\ row[w] = "done" \/ outcome[w] = "done" => w \in consumed
  /\ row[w] = "streaming" \/ pc[w] \in {"received", "marking"} => w \in received
  /\ row[w] = "error" \/ outcome[w] = "error" => w \in failed \/ Closed(w)

Inv ==
  /\ TypeOK
  /\ \A w \in Workers : RowInv(w) /\ CareInv(w) /\ EntryInv(w) /\ LockInv(w) /\ TruthInv(w)

\* Nothing has started at first.
LEMMA InitInv == Init => Inv
<1> USE ConnectionAssumption
<1> SUFFICES ASSUME Init PROVE Inv
  OBVIOUS
<1>1. TypeOK
  BY DEF Init, TypeOK, Outcomes
<1>2. \A w \in Workers : RowInv(w) /\ CareInv(w) /\ EntryInv(w) /\ LockInv(w) /\ TruthInv(w)
  BY DEF Init, RowInv, CareInv, EntryInv, LockInv, TruthInv, Outcomes, Active, Early, Admitting
<1> QED
  BY <1>1, <1>2 DEF Inv

\* A worker that asks for a permit, gets one, or gives up.
LEMMA AdmissionInv ==
  ASSUME Inv, NEW w \in Workers, Remember, UNCHANGED <<limit, struck, cut>>,
         Start(w) \/ Queue(w) \/ Acquire(w) \/ AcquireClosed(w) \/ AcquireFails(w)
  PROVE  Inv'
<1> USE ConnectionAssumption
<1>1. TypeOK /\ RowInv(w) /\ CareInv(w) /\ EntryInv(w) /\ LockInv(w) /\ TruthInv(w)
  BY DEF Inv
<1>2. TypeOK'
  BY <1>1 DEF TypeOK, Remember, Start, Queue, Acquire, AcquireClosed, AcquireFails, Goto,
       Record,
       RecordFails, AcquireRaises, Closed, ledger, generator, context, Active, Occupying,
       Outcomes
<1>3. ASSUME NEW v \in Workers
      PROVE  RowInv(v)' /\ CareInv(v)' /\ EntryInv(v)' /\ LockInv(v)' /\ TruthInv(v)'
  <2>1. RowInv(v) /\ CareInv(v) /\ EntryInv(v) /\ LockInv(v) /\ TruthInv(v)
    BY DEF Inv
  <2>2. RowInv(v)'
    BY <1>1, <2>1 DEF TypeOK, RowInv, Start, Queue, Acquire, AcquireClosed, AcquireFails,
       Goto, Record, RecordFails, AcquireRaises, Closed, ledger, generator, context,
       Active, Occupying, Outcomes, Early
  <2>3. CareInv(v)'
    BY <1>1, <2>1 DEF TypeOK, RowInv, LockInv, CareInv, EntryInv, Forsaken, Remember, Start,
       Queue, Acquire, AcquireClosed,
       AcquireFails, Goto, Record, RecordFails, AcquireRaises, Closed, ledger, generator,
       context, Active, Occupying, Outcomes, Early, Admitting
  <2>4. LockInv(v)'
    BY <1>1, <2>1 DEF TypeOK, LockInv, Start, Queue, Acquire, AcquireClosed, AcquireFails,
       Goto, Record, RecordFails, AcquireRaises, Closed, ledger, generator, context
  <2>5. TruthInv(v)'
    BY <1>1, <2>1 DEF TypeOK, TruthInv, RowInv, Start, Queue, Acquire, AcquireClosed,
       AcquireFails, Goto, Record, RecordFails, AcquireRaises, Closed, ledger, generator,
       context, Outcomes
  <2>6. EntryInv(v)'
    BY <1>1, <2>1 DEF TypeOK, EntryInv, Remember, Admitting, Start, Queue, Acquire,
       AcquireClosed, AcquireFails,
       Goto, Record, RecordFails, AcquireRaises, Closed, ledger, generator, context
  <2> QED
    BY <2>2, <2>3, <2>4, <2>5, <2>6
<1> QED
  BY <1>2, <1>3 DEF Inv

\* A worker on its way into the set of requests, or turned away.
LEMMA RegistrationInv ==
  ASSUME Inv, NEW w \in Workers, Remember, UNCHANGED <<limit, struck, cut>>,
         TakeLock(w) \/ Look(w) \/ Add(w) \/ Reject(w)
  PROVE  Inv'
<1> USE ConnectionAssumption
<1>1. TypeOK /\ RowInv(w) /\ CareInv(w) /\ EntryInv(w) /\ LockInv(w) /\ TruthInv(w)
  BY DEF Inv
<1>2. TypeOK'
  BY <1>1 DEF TypeOK, Remember, TakeLock, Look, Add, Reject, Goto, Lock, Unlock, Record,
       RecordFails, Closed, ledger, generator, context, Active, Occupying, Outcomes
<1>3. ASSUME NEW v \in Workers
      PROVE  RowInv(v)' /\ CareInv(v)' /\ EntryInv(v)' /\ LockInv(v)' /\ TruthInv(v)'
  <2>1. RowInv(v) /\ CareInv(v) /\ EntryInv(v) /\ LockInv(v) /\ TruthInv(v)
    BY DEF Inv
  <2>2. RowInv(v)'
    BY <1>1, <2>1 DEF TypeOK, RowInv, TakeLock, Look, Add, Reject, Goto, Lock, Unlock,
       Record, RecordFails, Closed, ledger, generator, context, Active, Occupying,
       Outcomes, Early
  <2>3. CareInv(v)'
    BY <1>1, <2>1 DEF TypeOK, RowInv, LockInv, CareInv, EntryInv, Forsaken, Remember,
       TakeLock, Look, Add, Reject,
       Goto, Lock, Unlock, Record, RecordFails, Closed, ledger, generator, context,
       Active, Occupying, Outcomes, Early, Admitting
  <2>4. LockInv(v)'
    BY <1>1, <2>1 DEF TypeOK, LockInv, TakeLock, Look, Add, Reject, Goto, Lock,
       Unlock, Record, RecordFails, Closed, ledger, generator, context
  <2>5. TruthInv(v)'
    BY <1>1, <2>1 DEF TypeOK, TruthInv, RowInv, TakeLock, Look, Add, Reject, Goto,
       Lock, Unlock, Record, RecordFails, Closed, ledger, generator, context, Outcomes
  <2>6. EntryInv(v)'
    BY <1>1, <2>1 DEF TypeOK, EntryInv, Remember, Admitting, TakeLock, Look, Add, Reject,
       Goto, Lock,
       Unlock, Record, RecordFails, Closed, ledger, generator, context
  <2> QED
    BY <2>2, <2>3, <2>4, <2>5, <2>6
<1> QED
  BY <1>2, <1>3 DEF Inv

\* A worker in its loop over the response.
LEMMA LoopInv ==
  ASSUME Inv, NEW w \in Workers, Remember, UNCHANGED <<limit, struck, cut>>,
         CheckOpen(w) \/ Call(w) \/ Receive(w) \/ End(w) \/ Fail(w) \/ CheckStillOpen(w)
         \/ Mark(w) \/ Resume(w) \/ Drop(w)
  PROVE  Inv'
<1> USE ConnectionAssumption
<1>1. TypeOK /\ RowInv(w) /\ CareInv(w) /\ EntryInv(w) /\ LockInv(w) /\ TruthInv(w)
  BY DEF Inv
<1>2. TypeOK'
  BY <1>1 DEF TypeOK, Remember, CheckOpen, Call, Receive, End, Fail, CheckStillOpen, Mark,
       Resume,
       Drop, Goto, Unwind, Closed, Whole, ledger, generator, context, Active, Occupying,
       Outcomes
<1>3. ASSUME NEW v \in Workers
      PROVE  RowInv(v)' /\ CareInv(v)' /\ EntryInv(v)' /\ LockInv(v)' /\ TruthInv(v)'
  <2>1. RowInv(v) /\ CareInv(v) /\ EntryInv(v) /\ LockInv(v) /\ TruthInv(v)
    BY DEF Inv
  <2>2. RowInv(v)'
    BY <1>1, <2>1 DEF TypeOK, RowInv, CheckOpen, Call, Receive, End, Fail, CheckStillOpen,
       Mark, Resume, Drop, Goto, Unwind, Closed, Whole, ledger, generator, context,
       Active, Occupying, Outcomes, Early
  <2>3. CareInv(v)'
    BY <1>1, <2>1 DEF TypeOK, RowInv, LockInv, CareInv, EntryInv, Forsaken, Remember,
       CheckOpen, Call, Receive, End, Fail,
       CheckStillOpen, Mark, Resume, Drop, Goto, Unwind, Closed, Whole, ledger, generator,
       context, Active, Occupying, Outcomes, Early, Admitting
  <2>4. LockInv(v)'
    BY <1>1, <2>1 DEF TypeOK, LockInv, CheckOpen, Call, Receive, End, Fail, CheckStillOpen,
       Mark, Resume, Drop, Goto, Unwind, Closed, Whole, ledger, generator, context
  <2>5. TruthInv(v)'
    BY <1>1, <2>1 DEF TypeOK, TruthInv, RowInv, CheckOpen, Call, Receive, End, Fail,
       CheckStillOpen, Mark, Resume, Drop, Goto, Unwind, Closed, Whole, ledger, generator,
       context, Outcomes
  <2>6. EntryInv(v)'
    BY <1>1, <2>1 DEF TypeOK, EntryInv, Remember, Admitting, CheckOpen, Call, Receive, End,
       Fail, CheckStillOpen,
       Mark, Resume, Drop, Goto, Unwind, Closed, Whole, ledger, generator, context
  <2> QED
    BY <2>2, <2>3, <2>4, <2>5, <2>6
<1> QED
  BY <1>2, <1>3 DEF Inv

\* A worker in its finally blocks.
LEMMA EndingInv ==
  ASSUME Inv, NEW w \in Workers, Remember, UNCHANGED <<limit, struck, cut>>,
         CloseExecution(w) \/ Finish(w) \/ Discard(w)
  PROVE  Inv'
<1> USE ConnectionAssumption
<1>1. TypeOK /\ RowInv(w) /\ CareInv(w) /\ EntryInv(w) /\ LockInv(w) /\ TruthInv(w)
  BY DEF Inv
<1>2. TypeOK'
  BY <1>1 DEF TypeOK, Remember, CloseExecution, Finish, Discard, Goto, Record, RecordFails,
       ledger,
       generator, context, Active, Occupying, Outcomes
<1>3. ASSUME NEW v \in Workers
      PROVE  RowInv(v)' /\ CareInv(v)' /\ EntryInv(v)' /\ LockInv(v)' /\ TruthInv(v)'
  <2>1. RowInv(v) /\ CareInv(v) /\ EntryInv(v) /\ LockInv(v) /\ TruthInv(v)
    BY DEF Inv
  <2>2. RowInv(v)'
    BY <1>1, <2>1 DEF TypeOK, RowInv, CloseExecution, Finish, Discard, Goto, Record,
       RecordFails, ledger, generator, context, Active, Occupying, Outcomes, Early
  <2>3. CareInv(v)'
    BY <1>1, <2>1 DEF TypeOK, RowInv, LockInv, CareInv, EntryInv, Forsaken, Remember,
       CloseExecution, Finish, Discard, Goto,
       Record, RecordFails, ledger, generator, context, Active, Occupying, Outcomes,
       Early, Admitting
  <2>4. LockInv(v)'
    BY <1>1, <2>1 DEF TypeOK, LockInv, CloseExecution, Finish, Discard, Goto, Record,
       RecordFails, ledger, generator, context
  <2>5. TruthInv(v)'
    BY <1>1, <2>1 DEF TypeOK, TruthInv, RowInv, CloseExecution, Finish, Discard, Goto, Record,
       RecordFails, Closed, ledger, generator, context, Outcomes
  <2>6. EntryInv(v)'
    BY <1>1, <2>1 DEF TypeOK, EntryInv, Remember, Admitting, CloseExecution, Finish, Discard,
       Goto, Record,
       RecordFails, ledger, generator, context
  <2> QED
    BY <2>2, <2>3, <2>4, <2>5, <2>6
<1> QED
  BY <1>2, <1>3 DEF Inv

\* A worker that is struck before its try block, or at its last lock.
LEMMA InterruptInv ==
  ASSUME Inv, NEW w \in Workers, Remember, UNCHANGED <<limit, cut>>,
         Strike(w) \/ Desert(w)
  PROVE  Inv'
<1> USE ConnectionAssumption
<1>1. TypeOK /\ RowInv(w) /\ CareInv(w) /\ EntryInv(w) /\ LockInv(w) /\ TruthInv(w)
  BY DEF Inv
<1>2. TypeOK'
  BY <1>1 DEF TypeOK, Remember, Strike, Desert, Goto, Lock, Unlock, Record,
       RecordFails, Closed, ledger, generator, context, Active, Occupying, Outcomes
<1>3. ASSUME NEW v \in Workers
      PROVE  RowInv(v)' /\ CareInv(v)' /\ EntryInv(v)' /\ LockInv(v)' /\ TruthInv(v)'
  <2>1. RowInv(v) /\ CareInv(v) /\ EntryInv(v) /\ LockInv(v) /\ TruthInv(v)
    BY DEF Inv
  <2>2. RowInv(v)'
    BY <1>1, <2>1 DEF TypeOK, RowInv, Strike, Desert, Goto, Lock, Unlock,
       Record, RecordFails, Closed, ledger, generator, context, Active, Occupying,
       Outcomes, Early
  <2>3. CareInv(v)'
    BY <1>1, <2>1 DEF TypeOK, RowInv, LockInv, CareInv, EntryInv, Forsaken, Remember, Strike,
       Desert,
       Goto, Lock, Unlock, Record, RecordFails, Closed, ledger, generator, context,
       Active, Occupying, Outcomes, Early, Admitting
  <2>4. LockInv(v)'
    BY <1>1, <2>1 DEF TypeOK, LockInv, Strike, Desert, Goto, Lock,
       Unlock, Record, RecordFails, Closed, ledger, generator, context
  <2>5. TruthInv(v)'
    BY <1>1, <2>1 DEF TypeOK, TruthInv, RowInv, Strike, Desert, Goto,
       Lock, Unlock, Record, RecordFails, Closed, ledger, generator, context, Outcomes
  <2>6. EntryInv(v)'
    BY <1>1, <2>1 DEF TypeOK, EntryInv, Remember, Admitting, Strike, Desert, Goto, Lock,
       Unlock, Record, RecordFails, Closed, ledger, generator, context
  <2> QED
    BY <2>2, <2>3, <2>4, <2>5, <2>6
<1> QED
  BY <1>2, <1>3 DEF Inv

\* The event is set, or the exit interrupted, whoever is where.
LEMMA ClosingInv ==
  ASSUME Inv, NEW c \in Connections, Remember, UNCHANGED <<limit, struck>>,
         Close(c) \/ InterruptExit(c)
  PROVE  Inv'
<1> USE ConnectionAssumption
<1>1. TypeOK'
  BY DEF Inv, TypeOK, Remember, Close, InterruptExit, Lock, Unlock, ledger, generator, context
<1>2. ASSUME NEW v \in Workers
      PROVE  RowInv(v)' /\ CareInv(v)' /\ EntryInv(v)' /\ LockInv(v)' /\ TruthInv(v)'
  <2>1. TypeOK /\ RowInv(v) /\ CareInv(v) /\ EntryInv(v) /\ LockInv(v) /\ TruthInv(v)
    BY DEF Inv
  <2>2. RowInv(v)' /\ TruthInv(v)'
    BY <2>1 DEF TypeOK, RowInv, TruthInv, Closed, Close, InterruptExit, ledger, generator
  <2>3. CareInv(v)'
    BY <2>1 DEF TypeOK, CareInv, EntryInv, Forsaken, Remember, Close, InterruptExit, ledger,
       generator
  <2>4. LockInv(v)'
    BY <2>1 DEF TypeOK, LockInv, Close, InterruptExit, Lock, Unlock, ledger, generator
  <2>5. EntryInv(v)'
    BY <2>1 DEF TypeOK, EntryInv, Remember, Close, InterruptExit, ledger, generator
  <2> QED
    BY <2>2, <2>3, <2>4, <2>5
<1> QED
  BY <1>1, <1>2 DEF Inv

\* The set of requests is complete once _close() has the lock.
LEMMA LockingInv ==
  ASSUME Inv, NEW c \in Connections, Remember,
         UNCHANGED <<limit, struck, cut>>, CloseLocks(c)
  PROVE  Inv'
<1> USE ConnectionAssumption
<1>1. TypeOK'
  BY DEF Inv, TypeOK, Remember, CloseLocks, Lock, Unlock, ledger, generator, context
<1>2. ASSUME NEW v \in Workers
      PROVE  RowInv(v)' /\ CareInv(v)' /\ EntryInv(v)' /\ LockInv(v)' /\ TruthInv(v)'
  <2>1. TypeOK /\ RowInv(v) /\ CareInv(v) /\ EntryInv(v) /\ LockInv(v) /\ TruthInv(v)
    BY DEF Inv
  <2>2. RowInv(v)' /\ TruthInv(v)'
    BY <2>1 DEF TypeOK, RowInv, TruthInv, Closed, CloseLocks, ledger, generator
  <2>3. CareInv(v)'
    BY <2>1 DEF TypeOK, CareInv, EntryInv, Forsaken, Remember, CloseLocks, ledger, generator
  <2>4. LockInv(v)'
    BY <2>1 DEF TypeOK, LockInv, CloseLocks, Lock, Unlock, ledger, generator
  <2>5. EntryInv(v)'
    BY <2>1 DEF TypeOK, EntryInv, Remember, CloseLocks, ledger, generator
  <2> QED
    BY <2>2, <2>3, <2>4, <2>5
<1> QED
  BY <1>1, <1>2 DEF Inv

\* Every registered request was finished, or is forsaken.
LEMMA UnlockingInv ==
  ASSUME Inv, NEW c \in Connections, Remember,
         UNCHANGED <<limit, struck, cut>>, CloseUnlocks(c)
  PROVE  Inv'
<1> USE ConnectionAssumption
<1>1. TypeOK'
  BY DEF Inv, TypeOK, Remember, CloseUnlocks, Lock, Unlock, ledger, generator, context
<1>2. ASSUME NEW v \in Workers
      PROVE  RowInv(v)' /\ CareInv(v)' /\ EntryInv(v)' /\ LockInv(v)' /\ TruthInv(v)'
  <2>1. TypeOK /\ RowInv(v) /\ CareInv(v) /\ EntryInv(v) /\ LockInv(v) /\ TruthInv(v)
    BY DEF Inv
  <2>2. RowInv(v)' /\ TruthInv(v)'
    BY <2>1 DEF TypeOK, RowInv, TruthInv, Closed, CloseUnlocks, ledger, generator
  <2>3. CareInv(v)'
    BY <2>1 DEF TypeOK, CareInv, EntryInv, Forsaken, Remember, CloseUnlocks, ledger, generator
  <2>4. LockInv(v)'
    BY <2>1 DEF TypeOK, LockInv, CloseUnlocks, Lock, Unlock, ledger, generator
  <2>5. EntryInv(v)'
    BY <2>1 DEF TypeOK, EntryInv, Remember, CloseUnlocks, ledger, generator
  <2> QED
    BY <2>2, <2>3, <2>4, <2>5
<1> QED
  BY <1>1, <1>2 DEF Inv

\* The HTTP client's exchanges are no part of the invariant.
LEMMA ShuttingInv ==
  ASSUME Inv, NEW c \in Connections, Remember,
         UNCHANGED <<limit, struck, cut>>, CloseClient(c)
  PROVE  Inv'
<1> USE ConnectionAssumption
<1>1. TypeOK'
  BY DEF Inv, TypeOK, Remember, CloseClient, Lock, Unlock, ledger, generator, context
<1>2. ASSUME NEW v \in Workers
      PROVE  RowInv(v)' /\ CareInv(v)' /\ EntryInv(v)' /\ LockInv(v)' /\ TruthInv(v)'
  <2>1. TypeOK /\ RowInv(v) /\ CareInv(v) /\ EntryInv(v) /\ LockInv(v) /\ TruthInv(v)
    BY DEF Inv
  <2>2. RowInv(v)' /\ TruthInv(v)'
    BY <2>1 DEF TypeOK, RowInv, TruthInv, Closed, CloseClient, ledger, generator
  <2>3. CareInv(v)'
    BY <2>1 DEF TypeOK, CareInv, EntryInv, Forsaken, Remember, CloseClient, ledger, generator
  <2>4. LockInv(v)'
    BY <2>1 DEF TypeOK, LockInv, CloseClient, Lock, Unlock, ledger, generator
  <2>5. EntryInv(v)'
    BY <2>1 DEF TypeOK, EntryInv, Remember, CloseClient, ledger, generator
  <2> QED
    BY <2>2, <2>3, <2>4, <2>5
<1> QED
  BY <1>1, <1>2 DEF Inv

\* _close() finishes a request, or keeps its failure.
LEMMA FinishingInv ==
  ASSUME Inv, NEW c \in Connections, NEW w \in Workers, Remember,
         UNCHANGED <<limit, struck, cut>>, CloseFinishes(c, w)
  PROVE  Inv'
<1> USE ConnectionAssumption
<1>1. TypeOK'
  BY DEF Inv, TypeOK, Remember, CloseFinishes, Record, RecordFails, generator, Outcomes
<1>2. ASSUME NEW v \in Workers
      PROVE  RowInv(v)' /\ CareInv(v)' /\ EntryInv(v)' /\ LockInv(v)' /\ TruthInv(v)'
  <2>1. TypeOK /\ RowInv(v) /\ CareInv(v) /\ EntryInv(v) /\ LockInv(v) /\ TruthInv(v) /\ RowInv(w)
    BY DEF Inv
  <2>2. RowInv(v)'
    BY <2>1 DEF TypeOK, RowInv, CloseFinishes, Record, RecordFails, generator, Outcomes,
       Active, Occupying, Early
  <2>3. CareInv(v)'
    BY <2>1 DEF TypeOK, RowInv, CareInv, EntryInv, Forsaken, Remember, CloseFinishes, Record,
       RecordFails,
       generator, Outcomes, Active
  <2>4. LockInv(v)'
    BY <2>1 DEF LockInv, CloseFinishes
  <2>5. TruthInv(v)'
    BY <2>1 DEF TypeOK, TruthInv, Closed, CloseFinishes, Record, RecordFails, generator
  <2>6. EntryInv(v)'
    BY <2>1 DEF TypeOK, EntryInv, Remember, CloseFinishes, generator
  <2> QED
    BY <2>2, <2>3, <2>4, <2>5, <2>6
<1> QED
  BY <1>1, <1>2 DEF Inv

\* Every step of the worker threads, their consumers and the context exits.
LEMMA StepInv == Inv /\ [Next]_vars => Inv'
<1> USE ConnectionAssumption
<1> SUFFICES ASSUME Inv, [Next]_vars PROVE Inv'
  OBVIOUS
<1>1. CASE UNCHANGED vars
  BY <1>1 DEF Inv, TypeOK, RowInv, CareInv, EntryInv, LockInv, TruthInv, Forsaken, Closed, vars,
     ledger, generator, context
<1>2. ASSUME NEW w \in Workers, Run(w) PROVE Inv'
  BY <1>2, AdmissionInv, RegistrationInv, LoopInv, EndingInv DEF Run
<1>3. ASSUME NEW w \in Workers, Consume(w) PROVE Inv'
  BY <1>3, AdmissionInv, LoopInv DEF Consume
<1>4. ASSUME NEW w \in Workers, Interrupt(w) PROVE Inv'
  BY <1>4, InterruptInv DEF Interrupt
<1>5. ASSUME NEW c \in Connections, Leave(c) PROVE Inv'
  BY <1>5, ClosingInv DEF Leave
<1>6. ASSUME NEW c \in Connections, Exit(c) PROVE Inv'
  BY <1>6, LockingInv, UnlockingInv, ShuttingInv, FinishingInv DEF Exit
<1> QED
  BY <1>1, <1>2, <1>3, <1>4, <1>5, <1>6 DEF Next

-----------------------------------------------------------------------------
(* The theorems *)

\* The invariant holds in every behaviour of Connection.
THEOREM ConnectionInvariance == Spec => []Inv
<1>1. Init => Inv
  BY InitInv
<1>2. Inv /\ [Next]_vars => Inv'
  BY StepInv
<1> QED
  BY <1>1, <1>2, PTL DEF Spec

\* Phases, rows and sets of workers keep their types.
THEOREM ConnectionTypeCorrect == Spec => []TypeOK
<1>1. Inv => TypeOK
  BY DEF Inv
<1> QED
  BY <1>1, ConnectionInvariance, PTL

\* execute() registers under the lock what it saw open under the lock, and
\* _close() walks the set under it: a closed connection leaves no permit.
THEOREM CloseLeavesNothing == Spec => []ClosedIsClean
<1>1. Inv => ClosedIsClean
  <2> SUFFICES ASSUME Inv, NEW w \in Workers,
                      closing[ConnectionOf[w]] \in {"shutting", "closed"},
                      ConnectionOf[w] \notin cut, row[w] \in Active
               PROVE  w \in Forsaken \/ pc[w] \in {"acquiring", "granted", "locked",
       "rejecting"}
    BY DEF ClosedIsClean
  <2>1. CareInv(w) /\ LockInv(w)
    BY DEF Inv
  <2> QED
    BY <2>1 DEF CareInv, LockInv, Admitting
<1> QED
  BY <1>1, ConnectionInvariance, PTL

\* Whichever way a generator ends, its row is completed, but for a refused
\* finish() and for interrupts before the try block; and of the latter those
\* that had come into the set stay there for the context exit.
THEOREM EndsAreReleased == Spec => []EndedIsReleased
<1>1. Inv => EndedIsReleased
  <2> SUFFICES ASSUME Inv, NEW w \in Workers, pc[w] = "over", row[w] \in Active
               PROVE  \/ w \in refused
                      \/ w \in struck /\ (w \in entered => w \in registered)
    BY DEF EndedIsReleased
  <2>1. RowInv(w) /\ CareInv(w)
    BY DEF Inv
  <2> QED
    BY <2>1 DEF RowInv, CareInv, Admitting, Forsaken
<1> QED
  BY <1>1, ConnectionInvariance, PTL

\* A step leaves a completed row as it is: finish() and streaming() look at
\* _finished, and acquire() owns no completed row.
LEMMA OutcomeStep ==
  ASSUME Inv, [Next]_vars, NEW w \in Workers, row[w] \in Outcomes
  PROVE  row'[w] = row[w]
<1> USE ConnectionAssumption
<1>1. TypeOK /\ w \in finished
  BY DEF Inv, RowInv
<1>2. CASE UNCHANGED vars
  BY <1>2 DEF vars, ledger
<1>3. ASSUME NEW v \in Workers, Run(v) PROVE row'[w] = row[w]
  <2>1. RowInv(v)
    BY DEF Inv
  <2>2. CASE Acquire(v) \/ AcquireClosed(v)
    BY <1>1, <2>1, <2>2 DEF TypeOK, RowInv, Acquire, AcquireClosed, AcquireRaises, Record,
         RecordFails, Outcomes
  <2>3. CASE Reject(v) \/ Mark(v) \/ Finish(v)
    BY <1>1, <2>3 DEF TypeOK, Reject, Mark, Finish, Record, RecordFails
  <2>4. CASE row' = row
    BY <2>4
  <2> QED
    BY <1>3, <2>2, <2>3, <2>4 DEF Run, TakeLock, Look, Add, CheckOpen, Call, Receive, End, Fail,
       CheckStillOpen, CloseExecution, Discard, ledger
<1>4. ASSUME NEW v \in Workers, Consume(v) PROVE row'[w] = row[w]
  <2>1. RowInv(v)
    BY DEF Inv
  <2> QED
    BY <1>1, <1>4, <2>1 DEF TypeOK, RowInv, Consume, Start, Queue, AcquireFails, AcquireRaises,
       Resume, Drop, Record, RecordFails, Outcomes, ledger
<1>5. ASSUME NEW v \in Workers, Interrupt(v) PROVE row'[w] = row[w]
  BY <1>5 DEF Interrupt, Strike, Desert, ledger
<1>6. ASSUME NEW c \in Connections, Leave(c) \/ Exit(c) PROVE row'[w] = row[w]
  BY <1>1, <1>6 DEF TypeOK, Leave, Close, InterruptExit, Exit, CloseLocks, CloseUnlocks,
       CloseClient, CloseFinishes,
     Record, RecordFails, ledger
<1> QED
  BY <1>2, <1>3, <1>4, <1>5, <1>6 DEF Next

\* The worker and the context exit may both come to finish a request: the
\* first outcome stays.
THEOREM OutcomesStay == Spec => OutcomeStays
<1>1. Inv /\ [Next]_vars => [\A w \in Workers : row[w] \in Outcomes => row'[w] = row[w]]_vars
  BY OutcomeStep
<1> QED
  BY <1>1, ConnectionInvariance, PTL DEF Spec, OutcomeStays

-----------------------------------------------------------------------------
(* Slots and exchanges *)

\* An exchange is open inside the loop only, until the client is closed, and
\* nobody but _close() completes the row of a worker that is there.
Inside == {"looping", "calling", "reading", "received", "marking", "suspended", "unwinding"}

ExchangeInv(w) ==
  /\ w \in exchange => pc[w] \in Inside /\ closing[ConnectionOf[w]] # "closed"
  /\ pc[w] \in Admitting \cup Inside \cup {"finishing"} /\ row[w] \in Outcomes
       => closing[ConnectionOf[w]] \in {"finishing", "shutting", "closed"}

\* The rows that occupy a slot of the bucket.
Slots == {w \in Workers : row[w] \in Occupying}

\* A worker's step, which leaves every exit where it is.
LEMMA WorkerExchange ==
  ASSUME Inv, \A v \in Workers : ExchangeInv(v), NEW w \in Workers,
         Run(w) \/ Consume(w) \/ Interrupt(w)
  PROVE  \A v \in Workers : ExchangeInv(v)'
<1> USE ConnectionAssumption
<1>1. TypeOK /\ RowInv(w) /\ LockInv(w) /\ ExchangeInv(w)
  BY DEF Inv
<1>2. UNCHANGED closing
  BY DEF Run, Consume, Interrupt, Start, Queue, Acquire, AcquireClosed, AcquireFails, TakeLock,
     Look, Add, Reject, Strike, Desert, CheckOpen, Call, Receive, End, Fail, CheckStillOpen, Mark,
     Resume, Drop, CloseExecution, Finish, Discard, context
<1>3. ASSUME NEW v \in Workers
      PROVE  ExchangeInv(v)'
  <2>1. ExchangeInv(v)
    OBVIOUS
  <2>2. CASE Start(w) \/ Queue(w) \/ Acquire(w) \/ AcquireClosed(w) \/ AcquireFails(w)
    BY <1>1, <1>2, <2>1, <2>2 DEF TypeOK, RowInv, ExchangeInv, Start, Queue, Acquire,
       AcquireClosed, AcquireFails, Goto, Record, RecordFails, AcquireRaises, ledger,
       generator, Occupying, Outcomes, Admitting, Inside
  <2>3. CASE TakeLock(w) \/ Look(w) \/ Add(w) \/ Reject(w) \/ Strike(w)
    BY <1>1, <1>2, <2>1, <2>3 DEF TypeOK, RowInv, ExchangeInv, TakeLock, Look, Add, Reject,
       Strike, Goto, Record, RecordFails, ledger, generator, Outcomes, Admitting, Inside
  <2>4. CASE CheckOpen(w) \/ Call(w) \/ Receive(w) \/ End(w) \/ Fail(w) \/ CheckStillOpen(w)
             \/ Mark(w) \/ Resume(w) \/ Drop(w)
    BY <1>1, <1>2, <2>1, <2>4 DEF TypeOK, RowInv, ExchangeInv, CheckOpen, Call, Receive, End,
       Fail, CheckStillOpen, Mark, Resume, Drop, Goto, Unwind, Closed, Whole, ledger,
       generator, Outcomes, Admitting, Inside
  <2>5. CASE CloseExecution(w) \/ Finish(w) \/ Discard(w) \/ Desert(w)
    BY <1>1, <1>2, <2>1, <2>5 DEF TypeOK, RowInv, ExchangeInv, CloseExecution, Finish, Discard,
       Desert, Goto, Record, RecordFails, ledger, generator, Outcomes, Admitting, Inside
  <2> QED
    BY <2>2, <2>3, <2>4, <2>5 DEF Run, Consume, Interrupt
<1> QED
  BY <1>3

\* A step of a context exit, which leaves every worker where it is.
LEMMA ExitExchange ==
  ASSUME Inv, \A v \in Workers : ExchangeInv(v), NEW c \in Connections, Leave(c) \/ Exit(c)
  PROVE  \A v \in Workers : ExchangeInv(v)'
<1> USE ConnectionAssumption
<1>1. TypeOK
  BY DEF Inv
<1>2. ASSUME NEW v \in Workers
      PROVE  ExchangeInv(v)'
  <2>1. ExchangeInv(v)
    OBVIOUS
  <2>2. CASE Leave(c) \/ CloseLocks(c) \/ CloseUnlocks(c) \/ CloseClient(c)
    BY <1>1, <2>1, <2>2 DEF TypeOK, ExchangeInv, Leave, Close, InterruptExit, CloseLocks,
       CloseUnlocks, CloseClient, ledger, generator
  <2>3. ASSUME NEW w \in Workers, CloseFinishes(c, w)
        PROVE  ExchangeInv(v)'
    BY <1>1, <2>1, <2>3 DEF TypeOK, ExchangeInv, CloseFinishes, Record, RecordFails, generator,
       Outcomes
  <2> QED
    BY <2>2, <2>3 DEF Exit
<1> QED
  BY <1>2

\* Only Acquire occupies a slot, and only one that is free.
LEMMA SlotsStep ==
  ASSUME Inv, Cardinality(Slots) <= limit, [Next]_vars
  PROVE  (Cardinality(Slots) <= limit)'
<1> USE ConnectionAssumption
<1>1. TypeOK /\ \A w \in Workers : RowInv(w)
  BY DEF Inv
<1>2. limit' = limit /\ limit \in Nat
  BY <1>1 DEF TypeOK, Next, Run, Consume, Interrupt, Leave, Exit, vars
<1>3. IsFiniteSet(Slots) /\ Cardinality(Slots) \in Nat
  <2>1. Slots \subseteq Workers
    BY DEF Slots
  <2> QED
    BY <2>1, FS_Subset, FS_CardinalityType
<1>4. ASSUME NEW w \in Workers, Acquire(w)
      PROVE  (Cardinality(Slots) <= limit)'
  <2>1. w \notin Slots /\ Slots' = Slots \cup {w}
    BY <1>1, <1>4 DEF TypeOK, RowInv, Acquire, Slots, Occupying
  <2>2. Cardinality(Slots') = Cardinality(Slots) + 1
    BY <1>3, <2>1, FS_AddElement
  <2>3. Cardinality(Slots) < limit
    BY <1>4 DEF Acquire, Slots
  <2> QED
    BY <1>2, <1>3, <2>2, <2>3
<1>5. CASE Slots' \subseteq Slots
  <2>1. Cardinality(Slots') \in Nat /\ Cardinality(Slots') <= Cardinality(Slots)
    BY <1>3, <1>5, FS_Subset, FS_CardinalityType
  <2> QED
    BY <1>2, <1>3, <2>1
<1>6. Slots' \subseteq Slots \/ \E w \in Workers : Acquire(w)
  <2>1. CASE row' = row
    BY <2>1 DEF Slots
  <2>2. ASSUME NEW w \in Workers, Queue(w) \/ AcquireClosed(w) \/ AcquireFails(w) \/ Reject(w)
                                    \/ Mark(w) \/ Finish(w)
        PROVE  Slots' \subseteq Slots
    <3>1. RowInv(w)
      BY <1>1
    <3> QED
      BY <1>1, <2>2, <3>1 DEF TypeOK, RowInv, Queue, AcquireClosed, AcquireFails,
       AcquireRaises, Reject,
         Mark, Finish, Record, RecordFails, Slots, Occupying, Outcomes, Early
  <2>3. ASSUME NEW c \in Connections, NEW w \in Workers, CloseFinishes(c, w)
        PROVE  Slots' \subseteq Slots
    BY <1>1, <2>3 DEF TypeOK, CloseFinishes, Record, RecordFails, Slots, Occupying
  <2> QED
    BY <2>1, <2>2, <2>3 DEF Next, Run, Consume, Interrupt, Leave, Exit, Start, TakeLock, Look,
       Add, Strike, Desert, InterruptExit, CheckOpen, Call, Receive, End, Fail, CheckStillOpen,
       Resume, Drop, CloseExecution, Discard, Close, CloseLocks, CloseUnlocks, CloseClient,
       vars, ledger
<1> QED
  BY <1>4, <1>5, <1>6

\* Exchanges stay within the loop, and slots within the limit.
THEOREM ExchangesAndSlots == Spec => [](/\ \A w \in Workers : ExchangeInv(w)
                                        /\ Cardinality(Slots) <= limit)
<1> DEFINE Both == (\A w \in Workers : ExchangeInv(w)) /\ Cardinality(Slots) <= limit
<1>1. Init => Both
  <2> SUFFICES ASSUME Init PROVE Both
    OBVIOUS
  <2>1. \A w \in Workers : ExchangeInv(w)
    BY DEF Init, ExchangeInv, Outcomes
  <2>2. Slots = {}
    BY DEF Init, Slots, Occupying
  <2>3. Cardinality(Slots) = 0
    BY <2>2, FS_EmptySet
  <2> QED
    BY <2>1, <2>3, ConnectionAssumption DEF Init
<1>2. Inv /\ Both /\ [Next]_vars => Both'
  <2> SUFFICES ASSUME Inv, Both, [Next]_vars PROVE Both'
    OBVIOUS
  <2>1. (Cardinality(Slots) <= limit)'
    BY SlotsStep
  <2>2. (\A w \in Workers : ExchangeInv(w))'
    <3>1. CASE UNCHANGED vars
      BY <3>1 DEF ExchangeInv, vars, ledger, generator, context
    <3>2. ASSUME NEW w \in Workers, Run(w) \/ Consume(w) \/ Interrupt(w)
          PROVE  (\A v \in Workers : ExchangeInv(v))'
      BY <3>2, WorkerExchange
    <3>3. ASSUME NEW c \in Connections, Leave(c) \/ Exit(c)
          PROVE  (\A v \in Workers : ExchangeInv(v))'
      BY <3>3, ExitExchange
    <3> QED
      BY <3>1, <3>2, <3>3 DEF Next
  <2> QED
    BY <2>1, <2>2
<1> QED
  BY <1>1, <1>2, ConnectionInvariance, PTL DEF Spec

\* While an exchange is open its request has its slot, unless _close() is
\* between finishing the requests and closing the client.
LEMMA CoveredUntilExit ==
  ASSUME Inv, NEW w \in exchange, ExchangeInv(w)
  PROVE  row[w] \in Occupying \/ closing[ConnectionOf[w]] \in {"finishing", "shutting"}
<1>1. w \in Workers
  BY DEF Inv, TypeOK
<1>2. row[w] \in Occupying \cup Outcomes
  BY <1>1 DEF Inv, RowInv, ExchangeInv, Inside, Early
<1> QED
  BY <1>2 DEF ExchangeInv

\* execute() records "done" only after StopIteration, "streaming" only with a
\* chunk in its hands and "error" only for an exception, and completes a row
\* only after its exchange; what _close() completes is excepted.
THEOREM ActivityIsTruthful == Spec => []TruthfulActivity
<1>1. Inv /\ (\A w \in Workers : ExchangeInv(w)) => TruthfulActivity
  BY CoveredUntilExit DEF Inv, TruthInv, TruthfulActivity
<1> QED
  BY <1>1, ConnectionInvariance, ExchangesAndSlots, PTL

\* No more exchanges are open at once than max_concurrent, but for those of a
\* connection whose context is just being left.
THEOREM ExchangesWithinLimit ==
  Spec => [](Cardinality({w \in exchange : closing[ConnectionOf[w]] \notin {"finishing", "shutting"}})
               <= limit)
<1> DEFINE open == {w \in exchange : closing[ConnectionOf[w]] \notin {"finishing", "shutting"}}
<1>1. ASSUME Inv, \A w \in Workers : ExchangeInv(w), Cardinality(Slots) <= limit
      PROVE  Cardinality(open) <= limit
  <2>1. open \subseteq Slots
    BY <1>1, CoveredUntilExit DEF Inv, TypeOK, Slots
  <2>2. IsFiniteSet(Slots)
    BY ConnectionAssumption, FS_Subset, Slots \subseteq Workers DEF Slots
  <2>3. /\ Cardinality(open) \in Nat /\ Cardinality(Slots) \in Nat
        /\ Cardinality(open) <= Cardinality(Slots)
    BY <2>1, <2>2, FS_Subset, FS_CardinalityType
  <2>4. limit \in Nat
    BY <1>1, ConnectionAssumption DEF Inv, TypeOK
  <2> QED
    BY <1>1, <2>3, <2>4
<1> QED
  BY <1>1, ConnectionInvariance, ExchangesAndSlots, PTL
=============================================================================
