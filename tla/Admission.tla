----------------------------- MODULE Admission ------------------------------
(***************************************************************************)
(* _Admission.acquire(), _Request and Runtime.snapshot() of                *)
(* src/sheetbend/runtime/runtime.py: the threads of several processes that *)
(* poll the shared ledger for a permit, use it and give it back, while     *)
(* processes start and die, storage fails, and users interrupt.            *)
(*                                                                         *)
(* Every ledger transaction (BEGIN IMMEDIATE ... commit) is one step; a    *)
(* transaction that raises leaves the ledger as it was.  What the code     *)
(* does outside the transactions is not atomic with them: acquire() reads  *)
(* the clock first and only then waits for the write lock, so the tick it  *)
(* works with can be up to MaxLag old when it commits.                     *)
(*                                                                         *)
(* Phases of a request, pc[r]:                                             *)
(*   idle     acquire() has not been called                                *)
(*   polling  at the top of the loop                                       *)
(*   sampled  has read the clock, has not had its transaction              *)
(*   waiting  asleep between two attempts                                  *)
(*   held     acquire() has returned; the client owns the permit           *)
(*   closing, failing   in the exception handler; the row is to be         *)
(*            finished as "cancelled" or as "error"                        *)
(*   finished the permit was given back                                    *)
(*   failed   acquire() raised and left no active row                      *)
(*   leaked   nobody will finish the row, though the process lives         *)
(*   dead     the process died                                             *)
(***************************************************************************)
EXTENDS Ledger

CONSTANTS
  MaxLag,          \* most that passes between reading the clock and committing
  MaxClock         \* bound on the clock, for model checking

ASSUME AdmissionAssumption == MaxLag \in Nat /\ MaxClock \in Nat

VARIABLES
  db,              \* the ledger file
  clock,           \* time.monotonic(), one clock for the whole host
  running,         \* the processes that are alive
  exited,          \* the processes that are not any more
  pc,              \* phase of each request
  tick,            \* the tick local of acquire()
  inserted,        \* requests whose inserted local is True
  cancelled,       \* requests whose cancelled event is set
  admittedAt       \* history: when the transaction that admitted it committed

local == <<tick, inserted, cancelled>>
hosts == <<running, exited>>
vars == <<db, clock, running, exited, pc, tick, inserted, cancelled, admittedAt>>

Phases == {"idle", "polling", "sampled", "waiting", "held", "closing", "failing",
           "finished", "failed", "leaked", "dead"}

\* Inside acquire(): the thread is at work on a permit it does not have.
Acquiring == {"polling", "sampled", "waiting"}
Raising   == {"closing", "failing"}

TypeOK ==
  /\ db \in Tables
  /\ clock \in Nat
  /\ running \subseteq Processes /\ exited \subseteq Processes
  /\ pc \in [Requests -> Phases]
  /\ tick \in [Requests -> Nat]
  /\ inserted \subseteq Requests /\ cancelled \subseteq Requests
  /\ admittedAt \in [Requests -> Nat \cup {NULL}]

Init ==
  /\ db = EmptyLedger
  /\ clock = 0
  /\ running = {} /\ exited = {}
  /\ pc = [r \in Requests |-> "idle"]
  /\ tick = [r \in Requests |-> 0]
  /\ inserted = {} /\ cancelled = {}
  /\ admittedAt = [r \in Requests |-> NULL]

Goto(r, phase) == pc' = [pc EXCEPT ![r] = phase]

-----------------------------------------------------------------------------
(* The acquire() loop *)

Begin(r) ==
  /\ pc[r] = "idle" /\ ProcessOf[r] \in running
  /\ Goto(r, "polling")
  /\ UNCHANGED <<db, clock, hosts, local, admittedAt>>

SeeCancelled(r) ==
  /\ pc[r] = "polling" /\ r \in cancelled
  /\ Goto(r, "closing")
  /\ UNCHANGED <<db, clock, hosts, local, admittedAt>>

\* now, tick = time.time(), time.monotonic(), before the transaction opens
Sample(r) ==
  /\ pc[r] = "polling" /\ r \notin cancelled
  /\ tick' = [tick EXCEPT ![r] = clock]
  /\ Goto(r, "sampled")
  /\ UNCHANGED <<db, clock, hosts, inserted, cancelled, admittedAt>>

Maintained(r) == Maintain(db, tick[r], running)
Registered(r) == Register(Maintained(r), r, r \notin inserted)

\* The two CoordinationErrors: a conflicting definition, a lost waiting row.
Refused(r) ==
  \/ Conflict(Maintained(r), r)
  \/ r \in inserted /\ Maintained(r).state[r] # "waiting"

Attempt(r) == pc[r] = "sampled" /\ ~ Refused(r)
Admissible(r) == Attempt(r) /\ HasRoom(Registered(r), r)

Refuse(r) ==
  /\ pc[r] = "sampled" /\ Refused(r)
  /\ Goto(r, "failing")
  /\ UNCHANGED <<db, clock, hosts, local, admittedAt>>

Enqueue(r) ==
  /\ Attempt(r) /\ ~ HasRoom(Registered(r), r)
  /\ db' = Registered(r)
  /\ inserted' = inserted \cup {r}
  /\ Goto(r, "waiting")
  /\ UNCHANGED <<clock, hosts, tick, cancelled, admittedAt>>

\* The second look at the event, inside the transaction, rolls it back.
AdmitCancelled(r) ==
  /\ Admissible(r) /\ r \in cancelled
  /\ Goto(r, "closing")
  /\ UNCHANGED <<db, clock, hosts, local, admittedAt>>

Admit(r) ==
  /\ Admissible(r) /\ r \notin cancelled
  /\ db' = Grant(Registered(r), r, tick[r])
  /\ admittedAt' = [admittedAt EXCEPT ![r] = clock]
  /\ inserted' = inserted \cup {r}
  /\ Goto(r, "held")
  /\ UNCHANGED <<clock, hosts, tick, cancelled>>

Wake(r) ==
  /\ pc[r] = "waiting"
  /\ Goto(r, "polling")
  /\ UNCHANGED <<db, clock, hosts, local, admittedAt>>

-----------------------------------------------------------------------------
(* What can go wrong in it *)

\* KeyboardInterrupt in the loop; an open transaction is rolled back.
Interrupt(r) ==
  /\ pc[r] \in Acquiring
  /\ Goto(r, "closing")
  /\ UNCHANGED <<db, clock, hosts, local, admittedAt>>

\* KeyboardInterrupt after the commit, before "inserted = True" or after it
\* and before the return: the handler finishes the row only if this attempt
\* or an earlier one has set inserted.
InterruptedCommit(r) ==
  /\ Attempt(r)
  /\ \/ /\ ~ HasRoom(Registered(r), r)
        /\ db' = Registered(r)
        /\ UNCHANGED admittedAt
     \/ /\ Admissible(r) /\ r \notin cancelled
        /\ db' = Grant(Registered(r), r, tick[r])
        /\ admittedAt' = [admittedAt EXCEPT ![r] = clock]
  /\ \E set \in BOOLEAN : inserted' = IF set THEN inserted \cup {r} ELSE inserted
  /\ Goto(r, IF r \in inserted' THEN "closing" ELSE "leaked")
  /\ UNCHANGED <<clock, hosts, tick, cancelled>>

\* The write lock times out, the disk is full, a recorded process cannot be
\* examined: CoordinationError, nothing committed.
StorageFails(r) ==
  /\ pc[r] = "sampled"
  /\ Goto(r, "failing")
  /\ UNCHANGED <<db, clock, hosts, local, admittedAt>>

\* Mutant of Cleanup: the handler forgets the row of an earlier attempt.
CleanupForgets(r) ==
  /\ pc[r] \in Raising
  /\ Goto(r, "failed")
  /\ UNCHANGED <<db, clock, hosts, local, admittedAt>>

\* except BaseException: if inserted: request.finish(...)
Cleanup(r) ==
  /\ pc[r] \in Raising
  /\ \/ /\ r \notin inserted \/ ~ Completable(db, r)
        /\ UNCHANGED db
     \/ /\ r \in inserted /\ Completable(db, r)
        /\ db' = Complete(db, r, IF pc[r] = "closing" THEN "cancelled" ELSE "error", clock)
  /\ Goto(r, "failed")
  /\ UNCHANGED <<clock, hosts, local, admittedAt>>

\* That finish() raises as well; the note on the exception is all that is left.
CleanupFails(r) ==
  /\ pc[r] \in Raising /\ r \in inserted
  /\ Goto(r, "leaked")
  /\ UNCHANGED <<db, clock, hosts, local, admittedAt>>

-----------------------------------------------------------------------------
(* The permit in the client's hands *)

\* Connection._close() sets the event; it matters while acquire() runs.
Cancel(r) ==
  /\ pc[r] \in Acquiring /\ r \notin cancelled
  /\ cancelled' = cancelled \cup {r}
  /\ UNCHANGED <<db, clock, hosts, pc, tick, inserted, admittedAt>>

Stream(r) ==
  /\ pc[r] = "held" /\ db.state[r] = "running"
  /\ db' = MarkStreaming(db, r)
  /\ UNCHANGED <<clock, hosts, pc, local, admittedAt>>

Finish(r, outcome) ==
  /\ pc[r] = "held" /\ Completable(db, r)
  /\ db' = Complete(db, r, outcome, clock)
  /\ Goto(r, "finished")
  /\ UNCHANGED <<clock, hosts, local, admittedAt>>

\* The last party that would finish the row stops trying: its finish()
\* raised, or an interrupt struck before its try block.
GiveUp(r) ==
  /\ pc[r] = "held"
  /\ Goto(r, "leaked")
  /\ UNCHANGED <<db, clock, hosts, local, admittedAt>>

-----------------------------------------------------------------------------
(* The rest of the host *)

\* Runtime.snapshot() samples the clock before its transaction, too.
Snapshot ==
  /\ \E sampled \in 0..clock :
       /\ clock <= sampled + MaxLag
       /\ db' = Maintain(db, sampled, running)
  /\ UNCHANGED <<clock, hosts, pc, local, admittedAt>>

\* A pid may be used again, but not by two live processes.
Spawn(p) ==
  /\ p \notin running \cup exited
  /\ \A q \in running : q.pid # p.pid
  /\ running' = running \cup {p}
  /\ UNCHANGED <<db, clock, exited, pc, local, admittedAt>>

Crash(p) ==
  /\ p \in running
  /\ running' = running \ {p}
  /\ exited' = exited \cup {p}
  /\ pc' = [r \in Requests |->
              IF ProcessOf[r] = p /\ pc[r] # "idle" THEN "dead" ELSE pc[r]]
  /\ UNCHANGED <<db, clock, local, admittedAt>>

\* Nothing bounds how long a thread sleeps, but a sampled tick is used
\* within MaxLag.
Tick ==
  /\ clock < MaxClock
  /\ \A r \in Requests : pc[r] = "sampled" => clock < tick[r] + MaxLag
  /\ clock' = clock + 1
  /\ UNCHANGED <<db, hosts, pc, local, admittedAt>>

-----------------------------------------------------------------------------
Outcomes == {"done", "error", "cancelled"}

\* What a thread does next when nothing fails.
Step(r) ==
  \/ SeeCancelled(r) \/ Sample(r) \/ Refuse(r) \/ Enqueue(r)
  \/ AdmitCancelled(r) \/ Admit(r) \/ Wake(r) \/ Cleanup(r)

Fault(r) ==
  \/ Interrupt(r) \/ InterruptedCommit(r) \/ StorageFails(r)
  \/ CleanupFails(r) \/ GiveUp(r)

Next ==
  \/ \E r \in Requests : Begin(r) \/ Step(r) \/ Fault(r) \/ Cancel(r) \/ Stream(r)
  \/ \E r \in Requests, outcome \in Outcomes : Finish(r, outcome)
  \/ \E p \in Processes : Spawn(p) \/ Crash(p)
  \/ Snapshot
  \/ Tick

Spec == Init /\ [][Next]_vars

-----------------------------------------------------------------------------
(* Safety *)

Holders(b) == {r \in InBucket(b) : pc[r] = "held"}

\* However many processes share a bucket, however they die, stall or are
\* interrupted, the permits its clients hold at one time never exceed the
\* max_concurrent that each holder's own configuration states.
ConcurrencyLimit ==
  \A r \in Requests :
    pc[r] = "held" =>
      LET limit == MaxConcurrent[DefinitionOf[r]] IN
      limit # NULL => Cardinality(Holders(BucketOf[r])) <= limit

\* A client that holds a permit is backed by an occupying row: cleanup of
\* dead processes and of history never takes the row of a live request, so
\* "Request record was lost" is never raised.  Likewise for a waiting row.
PermitBacked ==
  \A r \in Requests :
    /\ pc[r] = "held" => db.state[r] \in Occupying
    /\ pc[r] \in Acquiring /\ r \in inserted => db.state[r] = "waiting"

\* A request that is over without an error of its own bookkeeping holds no
\* slot: rolled back attempts leave no row, the handler finishes exactly
\* the rows that were committed.
ReleasedWhenOver ==
  \A r \in Requests : pc[r] \in {"finished", "failed"} => db.state[r] \notin Active

\* All live requests and all recent starts of a bucket were made under the
\* definition the bucket records: nobody resets a busy budget by reloading
\* a different configuration.
OneDefinition == Agreed(db)

AdmittedWithin(b, age) ==
  {r \in InBucket(b) : admittedAt[r] # NULL /\ clock - admittedAt[r] < age}

RateBound(age) ==
  \A b \in Buckets : \A r \in AdmittedWithin(b, age) :
    LET limit == PerMinute[DefinitionOf[r]] IN
    limit # NULL => Cardinality(AdmittedWithin(b, age)) <= limit

\* The rolling budget, as far as the code keeps it: no span of Window minus
\* MaxLag sees more than requests_per_minute admissions of a bucket, pruned
\* history, deaths and reloads included.
RateLimit == RateBound(Window - MaxLag)

\* The rolling budget as documented: no 60-second span does (README.md,
\* "requests_per_minute is a rolling 60-second limit on admitted request
\* starts").
DocumentedRateLimit == RateBound(Window)

-----------------------------------------------------------------------------
(* Action properties *)

Successors ==
  [ absent |-> {"waiting", "running"}, waiting |-> {"running"} \cup Terminal,
    running |-> {"streaming"} \cup Terminal, streaming |-> Terminal,
    done |-> {}, error |-> {}, cancelled |-> {}, abandoned |-> {} ]

Advances(r) ==
  LET before == db.state[r] after == db'.state[r] IN
  \/ after \in Successors[before] \cup {before}
  \/ after = "absent" /\ before \in Terminal
  \/ after = "absent" /\ before \in Active /\ ProcessOf[r] \in exited

\* A row only moves forward.  A completed row keeps its outcome until it is
\* pruned; an active one is never pruned unless its process is dead.
RowLifecycle == [][\A r \in Requests : Advances(r)]_vars

\* What really takes up room in a bucket: admitted requests of processes
\* that are alive whose row has not been finished.
Occupants(b) ==
  {s \in InBucket(b) : /\ admittedAt[s] # NULL
                       /\ pc[s] \in {"held", "closing", "leaked"}
                       /\ ProcessOf[s] \in running}

\* What really counts against its budget by a clock that reads t.
AdmittedSince(b, t) == {s \in InBucket(b) : admittedAt[s] # NULL /\ admittedAt[s] > t}

Full(r) ==
  LET b == BucketOf[r] d == DefinitionOf[r] IN
  \/ MaxConcurrent[d] # NULL /\ Cardinality(Occupants(b)) >= MaxConcurrent[d]
  \/ PerMinute[d] # NULL /\ Cardinality(AdmittedSince(b, tick[r] - Window)) >= PerMinute[d]

\* A request is only made to wait for a cause: as many living requests as
\* its max_concurrent occupy the bucket, or as many admissions as its
\* requests_per_minute are less than a window old.  A slot or a start that
\* a crash, a failure or time has freed is never held against anyone.
WaitsForCause ==
  [][\A r \in Requests : pc[r] = "sampled" /\ pc'[r] = "waiting" => Full(r)]_vars

-----------------------------------------------------------------------------
(* Liveness *)

\* The threads in acquire() and in its handler keep running, and a client
\* that holds a permit gives it back: a response ends, times out or is
\* abandoned, and execute() finishes the row in each case.
Fairness ==
  \A r \in Requests :
    WF_vars(Step(r)) /\ WF_vars(\E outcome \in Outcomes : Finish(r, outcome))

FairSpec == Spec /\ Fairness

\* A row nobody will finish holds its slot until its process is dead.
Clogged(b) == \E r \in InBucket(b) : pc[r] = "leaked"

\* Polling without a queue admits or refuses everyone in the end, over the
\* rows of dead processes too, once no living process sits on a lost slot.
EventuallyServed ==
  \A r \in Requests :
    <>[] ~ Clogged(BucketOf[r]) => (pc[r] \in Acquiring ~> pc[r] \notin Acquiring)
=============================================================================
