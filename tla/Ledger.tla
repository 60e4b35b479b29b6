------------------------------- MODULE Ledger -------------------------------
(***************************************************************************)
(* The host-local SQLite ledger that every cooperating process shares      *)
(* (src/sheetbend/runtime/runtime.py over the tables of storage.py).       *)
(*                                                                         *)
(* A value of the ledger is a record with one component per table column   *)
(* that decides anything:                                                  *)
(*   state     requests.state, or "absent" when the row does not exist     *)
(*   finished  requests.finished_tick, or NULL                             *)
(*   starts    the tick of the request's row in starts, or NULL            *)
(*   bucket    buckets.fingerprint, or NULL when the row does not exist    *)
(* The columns an acquire call writes once and nobody updates (bucket,     *)
(* pid and process_started) are functions of the request.  A request is    *)
(* admitted at most once, so it owns at most one row of starts.            *)
(*                                                                         *)
(* Each operator is one SQL statement, or one transaction body built from  *)
(* them, as a function from ledgers to ledgers.                            *)
(***************************************************************************)
EXTENDS Integers, FiniteSets

CONSTANTS
  Requests,        \* request ids (uuid4 text); numbers, for the ORDER BY
  Buckets,         \* digests of (registry namespace, source name)
  Definitions,     \* fingerprints of a source's shared definition
  Processes,       \* process identities [pid, started] (psutil create_time)
  BucketOf,        \* the bucket a request's source is accounted in
  DefinitionOf,    \* the definition its registry snapshot was loaded with
  ProcessOf,       \* the process that issues it
  MaxConcurrent,   \* rate_limit.max_concurrent of a definition, or NULL
  PerMinute,       \* rate_limit.requests_per_minute of it, or NULL
  Window,          \* _WINDOW_SECONDS, in clock units
  RecentSeconds,   \* _RECENT_SECONDS, in clock units
  RecentLimit,     \* _RECENT_LIMIT
  NULL

Limit == (Nat \ {0}) \cup {NULL}

\* The schema's minimum of 1 for both limits is what makes them positive.
ASSUME LedgerAssumption ==
  /\ Requests \subseteq Nat /\ IsFiniteSet(Requests)
  /\ Processes \subseteq [pid : Nat, started : Nat]
  /\ BucketOf \in [Requests -> Buckets]
  /\ DefinitionOf \in [Requests -> Definitions]
  /\ ProcessOf \in [Requests -> Processes]
  /\ MaxConcurrent \in [Definitions -> Limit]
  /\ PerMinute \in [Definitions -> Limit]
  /\ Window \in Nat /\ RecentSeconds \in Nat /\ RecentLimit \in Nat
  /\ NULL \notin Nat /\ NULL \notin Definitions

Active   == {"waiting", "running", "streaming"}
Terminal == {"done", "error", "cancelled", "abandoned"}
Occupying == {"running", "streaming"}

Tables == [ state:    [Requests -> Active \cup Terminal \cup {"absent"}],
            finished: [Requests -> Nat \cup {NULL}],
            starts:   [Requests -> Nat \cup {NULL}],
            bucket:   [Buckets -> Definitions \cup {NULL}] ]

EmptyLedger == [ state    |-> [r \in Requests |-> "absent"],
                 finished |-> [r \in Requests |-> NULL],
                 starts   |-> [r \in Requests |-> NULL],
                 bucket   |-> [b \in Buckets |-> NULL] ]

-----------------------------------------------------------------------------
(* _maintain(): what every admission attempt and every snapshot runs first *)

\* Mutant of Alive: any owner of the pid will do.
AliveByPid(p, living) == \E q \in living : q.pid = p.pid

\* alive(): the recorded pid exists and was created when the row says.
Alive(p, living) ==
  \E q \in living : q.pid = p.pid /\ q.started = p.started

\* Mutant of DeadRows: completed rows are looked at as well.
DeadRowsOfAnyState(db, living) ==
  {r \in Requests : db.state[r] # "absent" /\ ~ Alive(ProcessOf[r], living)}

DeadRows(db, living) ==
  {r \in Requests : db.state[r] \in Active /\ ~ Alive(ProcessOf[r], living)}

\* Mutant of Reap: a state that is not one of _TERMINAL.
ReapAsLost(db, tick, living) ==
  [db EXCEPT
     !.state = [r \in Requests |->
                  IF r \in DeadRows(db, living) THEN "lost" ELSE db.state[r]]]

\* UPDATE requests SET state='abandoned' ... for each dead process
Reap(db, tick, living) ==
  [db EXCEPT
     !.state    = [r \in Requests |->
                     IF r \in DeadRows(db, living) THEN "abandoned" ELSE db.state[r]],
     !.finished = [r \in Requests |->
                     IF r \in DeadRows(db, living) THEN tick ELSE db.finished[r]]]

\* Mutants of Expired: one unit too early, one too late.
ExpiredEarly(db, r, tick) == db.starts[r] # NULL /\ db.starts[r] <= tick - Window + 1
ExpiredLate(db, r, tick) == db.starts[r] # NULL /\ db.starts[r] < tick - Window

Expired(db, r, tick) == db.starts[r] # NULL /\ db.starts[r] <= tick - Window

\* DELETE FROM starts WHERE tick <= ?
ExpireStarts(db, tick) ==
  [db EXCEPT !.starts = [r \in Requests |->
                           IF Expired(db, r, tick) THEN NULL ELSE db.starts[r]]]

DeleteRows(db, gone) ==
  [db EXCEPT
     !.state    = [r \in Requests |-> IF r \in gone THEN "absent" ELSE db.state[r]],
     !.finished = [r \in Requests |-> IF r \in gone THEN NULL ELSE db.finished[r]]]

Completed(db) == {r \in Requests : db.finished[r] # NULL}

\* Mutant of ExpireHistory: the age of a row is that of its start.
ExpireHistoryByStart(db, tick) ==
  DeleteRows(db, {r \in Requests : db.state[r] \notin {"absent", "waiting"} /\ db.starts[r] = NULL})

\* DELETE FROM requests WHERE finished_tick < ?
ExpireHistory(db, tick) ==
  DeleteRows(db, {r \in Completed(db) : db.finished[r] < tick - RecentSeconds})

\* ORDER BY finished_tick DESC, request_id
Precedes(db, r, s) ==
  \/ db.finished[r] > db.finished[s]
  \/ db.finished[r] = db.finished[s] /\ r < s

\* ... LIMIT -1 OFFSET _RECENT_LIMIT
TrimHistory(db) ==
  DeleteRows(db, {r \in Completed(db) :
    Cardinality({s \in Completed(db) : Precedes(db, s, r)}) >= RecentLimit})

\* DELETE FROM buckets that neither requests nor starts mention
DropBuckets(db) ==
  [db EXCEPT !.bucket = [b \in Buckets |->
     IF \E r \in Requests : /\ BucketOf[r] = b
                            /\ db.state[r] # "absent" \/ db.starts[r] # NULL
     THEN db.bucket[b] ELSE NULL]]

Maintain(db, tick, living) ==
  DropBuckets(TrimHistory(ExpireHistory(
    ExpireStarts(Reap(db, tick, living), tick), tick)))

-----------------------------------------------------------------------------
(* The statements of one admission attempt, after _maintain *)

InBucket(b) == {r \in Requests : BucketOf[r] = b}

\* SELECT count(*) ... state IN ('running', 'streaming')
Occupied(db, b) == {r \in InBucket(b) : db.state[r] \in Occupying}

\* SELECT count(*) FROM starts
RecentStarts(db, b) == {r \in InBucket(b) : db.starts[r] # NULL}

\* Mutant of Conflict: recent starts do not keep a definition.
ConflictIfActive(db, r) ==
  LET b == BucketOf[r] IN
  /\ db.bucket[b] \notin {NULL, DefinitionOf[r]}
  /\ \E s \in InBucket(b) : db.state[s] \in Active

\* A busy or recently used bucket may not be redefined.
Conflict(db, r) ==
  LET b == BucketOf[r] IN
  /\ db.bucket[b] \notin {NULL, DefinitionOf[r]}
  /\ \E s \in InBucket(b) : db.state[s] \in Active \/ db.starts[s] # NULL

\* INSERT OR REPLACE INTO buckets; INSERT INTO requests on the first attempt
Register(db, r, first) ==
  [db EXCEPT !.bucket[BucketOf[r]] = DefinitionOf[r],
             !.state[r] = IF first THEN "waiting" ELSE @]

\* Mutant of Below: a full bucket takes one more.
BelowOrAt(n, limit) == limit # NULL => n <= limit

Below(n, limit) == limit # NULL => n < limit

HasRoom(db, r) ==
  /\ Below(Cardinality(Occupied(db, BucketOf[r])), MaxConcurrent[DefinitionOf[r]])
  /\ Below(Cardinality(RecentStarts(db, BucketOf[r])), PerMinute[DefinitionOf[r]])

\* INSERT INTO starts; UPDATE requests SET state='running'
Grant(db, r, tick) ==
  [db EXCEPT !.starts[r] = tick, !.state[r] = "running"]

-----------------------------------------------------------------------------
(* _Request.streaming() and _Request.finish() *)

MarkStreaming(db, r) == [db EXCEPT !.state[r] = "streaming"]

\* WHERE request_id=? AND finished_tick IS NULL
Completable(db, r) == db.state[r] # "absent" /\ db.finished[r] = NULL

Complete(db, r, outcome, tick) ==
  [db EXCEPT !.state[r] = outcome, !.finished[r] = tick]

-----------------------------------------------------------------------------
(* What every committed transaction leaves true of the tables *)

\* Exactly the completed rows have a finished_tick.
RowShape(db) ==
  \A r \in Requests : db.finished[r] # NULL <=> db.state[r] \in Terminal

\* The live requests and the recent starts of a bucket were made under the
\* definition the bucket records.
Agreed(db) ==
  \A r \in Requests :
    db.state[r] \in Active \/ db.starts[r] # NULL =>
      db.bucket[BucketOf[r]] = DefinitionOf[r]

Within(n, limit) == limit # NULL => n <= limit

SlotsWithin(db) ==
  \A r \in Requests : db.state[r] \in Occupying =>
    Within(Cardinality(Occupied(db, BucketOf[r])), MaxConcurrent[DefinitionOf[r]])

StartsWithin(db) ==
  \A r \in Requests : db.starts[r] # NULL =>
    Within(Cardinality(RecentStarts(db, BucketOf[r])), PerMinute[DefinitionOf[r]])

Sound(db) ==
  db \in Tables /\ RowShape(db) /\ Agreed(db) /\ SlotsWithin(db) /\ StartsWithin(db)
=============================================================================
