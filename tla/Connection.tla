----------------------------- MODULE Connection -----------------------------
(***************************************************************************)
(* The lifetime of source.connect() in src/sheetbend/llm_adapter.py: the   *)
(* worker threads that iterate responses (_ConnectedChat.execute), the     *)
(* consumers that may suspend, resume or drop them, and the context exit   *)
(* that closes the connection under them (_close, then the HTTP client).   *)
(*                                                                         *)
(* A worker is one execute() generator.  Its row of the ledger is moved by *)
(* acquire(), streaming() and finish(), one transaction each; Admission    *)
(* has their insides.  Storage may fail in any of them.                    *)
(*                                                                         *)
(* Phases of a worker, pc[w]:                                              *)
(*   idle       the generator has not been started                         *)
(*   acquiring  in acquire()                                               *)
(*   granted    acquire() has returned; waits for the connection's lock    *)
(*   locked     has the lock, has not looked at the closed event           *)
(*   adding, rejecting   has looked: open, closed; still has the lock      *)
(*   looping    at the top of the loop, before _ensure_open()              *)
(*   calling    has passed it; about to call next(execution)               *)
(*   reading    in next(execution), the HTTP exchange is open              *)
(*   received   has a chunk; before the second _ensure_open()              *)
(*   marking    in request.streaming()                                     *)
(*   suspended  the chunk was yielded; the consumer decides what is next   *)
(*   unwinding  in the outer finally: execution.close()                    *)
(*   finishing  in request.finish(outcome[w])                              *)
(*   leaving    waits for the lock to discard the request                  *)
(*   over       the generator has ended                                    *)
(*                                                                         *)
(* A KeyboardInterrupt may strike a worker up to its try block, in it and  *)
(* at the last lock, and the context exit once the event is set.  One in   *)
(* finish() makes it fail, unless it comes after the commit.               *)
(***************************************************************************)
EXTENDS Integers, FiniteSets

CONSTANTS
  Connections, Workers,
  ConnectionOf,     \* the connection whose model a worker executes
  Streams,          \* the workers that execute with stream=True
  Limits,           \* what may be configured as max_concurrent of the bucket
                    \* that all the connections share
  Considerate,      \* whether callers finish their workers before closing
  NULL

ASSUME ConnectionAssumption ==
  /\ IsFiniteSet(Workers)
  /\ ConnectionOf \in [Workers -> Connections]
  /\ Streams \subseteq Workers
  /\ Limits \subseteq Nat \ {0}
  /\ Considerate \in BOOLEAN
  /\ Workers \cap Connections = {}
  /\ NULL \notin Workers \cup Connections

VARIABLES
  limit,            \* the configured one
  pc,
  row,              \* requests.state of the worker's request
  finished,         \* requests whose _finished is True
  outcome,          \* the state local of execute(): what finish() will record
  started,          \* workers whose started_stream is True
  registered,       \* the union of the connections' _requests
  lock,             \* who has each connection's _lock: a worker, the
                    \* connection itself (its _close), or NULL
  closing,          \* how far the context exit of each connection is
  unfinished,       \* requests its _close has yet to finish
  exchange,         \* workers with an HTTP exchange open
  received,         \* history: workers whose exchange has yielded a chunk
  consumed,         \* history: workers whose exchange ended by itself
  failed,           \* history: workers whose exchange or streaming() failed
  refused,          \* history: requests whose last finish() failed
  entered,          \* history: requests that have been in _requests
  struck,           \* history: workers interrupted before their try block
  cut               \* history: connections whose context exit was interrupted

ledger == <<row, finished, refused>>
generator == <<outcome, started, exchange, received, consumed, failed>>
context == <<registered, lock, closing, unfinished>>
vars == <<limit, pc, ledger, generator, context, entered, struck, cut>>

Active    == {"waiting", "running", "streaming"}
Occupying == {"running", "streaming"}
Outcomes  == {"done", "error", "cancelled"}

\* _closed.is_set()
Closed(w) == closing[ConnectionOf[w]] # "open"

TypeOK ==
  /\ limit \in Limits
  /\ pc \in [Workers ->
       {"idle", "acquiring", "granted", "locked", "adding", "rejecting", "looping",
        "calling", "reading", "received", "marking", "suspended", "unwinding",
        "finishing", "leaving", "over"}]
  /\ row \in [Workers -> Active \cup Outcomes \cup {"absent"}]
  /\ outcome \in [Workers -> Outcomes]
  /\ lock \in [Connections -> Workers \cup Connections \cup {NULL}]
  /\ closing \in [Connections -> {"open", "set", "finishing", "shutting", "closed"}]
  /\ \A S \in {finished, started, registered, unfinished, exchange, received,
               consumed, failed, refused, entered, struck} : S \subseteq Workers
  /\ cut \subseteq Connections

Init ==
  /\ limit \in Limits
  /\ pc = [w \in Workers |-> "idle"]
  /\ row = [w \in Workers |-> "absent"]
  /\ outcome = [w \in Workers |-> "cancelled"]
  /\ lock = [c \in Connections |-> NULL]
  /\ closing = [c \in Connections |-> "open"]
  /\ finished = {} /\ started = {} /\ registered = {} /\ unfinished = {}
  /\ exchange = {} /\ received = {} /\ consumed = {} /\ failed = {} /\ refused = {}
  /\ entered = {} /\ struck = {} /\ cut = {}

Goto(w, phase) == pc' = [pc EXCEPT ![w] = phase]

\* An exception or the end of the response: the outer finally comes next.
Unwind(w, state) ==
  /\ outcome' = [outcome EXCEPT ![w] = state]
  /\ Goto(w, "unwinding")

Lock(c, who) == lock[c] = NULL /\ lock' = [lock EXCEPT ![c] = who]
Unlock(c) == lock' = [lock EXCEPT ![c] = NULL]

\* Mutant of Record: _finished is not looked at.
RecordAgain(w, state) ==
  /\ row' = [row EXCEPT ![w] = state]
  /\ finished' = finished \cup {w}
  /\ refused' = refused \ {w}

\* _Request.finish(): once, and only over a row that is not completed.
Record(w, state) ==
  /\ row' = [row EXCEPT ![w] = IF w \in finished THEN @ ELSE state]
  /\ finished' = finished \cup {w}
  /\ refused' = refused \ {w}

\* The transaction raises and the row stays as it is.
RecordFails(w) ==
  /\ w \notin finished
  /\ refused' = refused \cup {w}
  /\ UNCHANGED <<row, finished>>

-----------------------------------------------------------------------------
(* execute(): a permit, and a place among the connection's requests *)

Start(w) ==
  /\ pc[w] = "idle"
  /\ Goto(w, IF Closed(w) THEN "over" ELSE "acquiring")
  /\ UNCHANGED <<ledger, generator, context>>

\* One attempt of acquire(), to which the bucket either has room or not.
Queue(w) ==
  /\ pc[w] = "acquiring" /\ row[w] = "absent" /\ ~ Closed(w)
  /\ row' = [row EXCEPT ![w] = "waiting"]
  /\ UNCHANGED <<pc, finished, refused, generator, context>>

Acquire(w) ==
  /\ pc[w] = "acquiring" /\ ~ Closed(w)
  /\ Cardinality({v \in Workers : row[v] \in Occupying}) < limit
  /\ row' = [row EXCEPT ![w] = "running"]
  /\ Goto(w, "granted")
  /\ UNCHANGED <<finished, refused, generator, context>>

\* acquire() raises and finishes its waiting row.
AcquireRaises(w, state) ==
  /\ \/ row[w] = "absent" /\ UNCHANGED <<row, finished, refused>>
     \/ row[w] = "waiting" /\ (Record(w, state) \/ RecordFails(w))
  /\ Goto(w, "over")

\* ConnectionClosedError
AcquireClosed(w) ==
  /\ pc[w] = "acquiring" /\ Closed(w)
  /\ AcquireRaises(w, "cancelled")
  /\ UNCHANGED <<generator, context>>

\* CoordinationError: a conflicting definition, a storage failure
AcquireFails(w) ==
  /\ pc[w] = "acquiring"
  /\ AcquireRaises(w, "error")
  /\ failed' = failed \cup {w}
  /\ UNCHANGED <<outcome, started, exchange, received, consumed, context>>

TakeLock(w) ==
  /\ pc[w] = "granted"
  /\ Lock(ConnectionOf[w], w)
  /\ Goto(w, "locked")
  /\ UNCHANGED <<ledger, generator, registered, closing, unfinished>>

\* Mutant of Look: the closed event is not looked at again under the lock.
LookAway(w) ==
  /\ pc[w] = "locked"
  /\ Goto(w, "adding")
  /\ UNCHANGED <<ledger, generator, context>>

Look(w) ==
  /\ pc[w] = "locked"
  /\ Goto(w, IF Closed(w) THEN "rejecting" ELSE "adding")
  /\ UNCHANGED <<ledger, generator, context>>

Add(w) ==
  /\ pc[w] = "adding"
  /\ registered' = registered \cup {w}
  /\ Unlock(ConnectionOf[w])
  /\ Goto(w, "looping")
  /\ UNCHANGED <<ledger, generator, closing, unfinished>>

\* Mutant of Reject: raises without giving the permit back.
RejectOnly(w) ==
  /\ pc[w] = "rejecting"
  /\ Unlock(ConnectionOf[w])
  /\ Goto(w, "over")
  /\ UNCHANGED <<ledger, generator, registered, closing, unfinished>>

\* The connection was closed while acquire() returned.
Reject(w) ==
  /\ pc[w] = "rejecting"
  /\ \/ Record(w, "cancelled")
     \/ RecordFails(w)
  /\ Unlock(ConnectionOf[w])
  /\ Goto(w, "over")
  /\ UNCHANGED <<generator, registered, closing, unfinished>>

\* KeyboardInterrupt between the return of acquire() and the try block: no
\* handler finishes the request, but _close() does if it was registered.
Strike(w) ==
  /\ \/ /\ pc[w] = "granted"
        /\ UNCHANGED <<lock, registered>>
     \/ /\ pc[w] \in {"locked", "adding", "rejecting"}
        /\ Unlock(ConnectionOf[w])
        /\ UNCHANGED registered
     \/ /\ pc[w] = "adding"
        /\ registered' = registered \cup {w}
        /\ Unlock(ConnectionOf[w])
  /\ struck' = struck \cup {w}
  /\ Goto(w, "over")
  /\ UNCHANGED <<ledger, generator, closing, unfinished>>

-----------------------------------------------------------------------------
(* execute(): the loop over the upstream response *)

\* _ensure_open() at the top: ConnectionClosedError is an Exception.
CheckOpen(w) ==
  /\ pc[w] = "looping"
  /\ \/ Closed(w) /\ Unwind(w, "error")
     \/ ~ Closed(w) /\ Goto(w, "calling") /\ UNCHANGED outcome
  /\ UNCHANGED <<ledger, started, exchange, received, consumed, failed, context>>

\* A response without streaming comes as one chunk and leaves no exchange.
Whole(w) == w \in received \ Streams

\* next(execution): the first one sends the request.  get_client() refuses
\* once the event is set and the HTTP client once it is closed; a closed
\* client also cuts off the exchange that a later one reads from.
Call(w) ==
  /\ pc[w] = "calling"
  /\ \/ /\ closing[ConnectionOf[w]] # "closed" /\ ~ Whole(w)
        /\ exchange' = exchange \cup {w}
        /\ Goto(w, "reading")
        /\ UNCHANGED outcome
     \/ /\ Whole(w)
        /\ Goto(w, "reading")
        /\ UNCHANGED <<exchange, outcome>>
     \/ /\ Closed(w) /\ ~ Whole(w)
        /\ Unwind(w, "error")
        /\ UNCHANGED exchange
  /\ UNCHANGED <<ledger, started, received, consumed, failed, context>>

Receive(w) ==
  /\ pc[w] = "reading" /\ w \in exchange
  /\ received' = received \cup {w}
  /\ exchange' = IF w \in Streams THEN exchange ELSE exchange \ {w}
  /\ Goto(w, "received")
  /\ UNCHANGED <<ledger, outcome, started, consumed, failed, context>>

\* StopIteration
End(w) ==
  /\ pc[w] = "reading" /\ (w \in exchange \/ Whole(w))
  /\ consumed' = consumed \cup {w}
  /\ exchange' = exchange \ {w}
  /\ Unwind(w, "done")
  /\ UNCHANGED <<ledger, started, received, failed, context>>

Fail(w) ==
  /\ pc[w] = "reading"
  /\ failed' = failed \cup {w}
  /\ Unwind(w, "error")
  /\ UNCHANGED <<ledger, started, exchange, received, consumed, context>>

CheckStillOpen(w) ==
  /\ pc[w] = "received"
  /\ \/ Closed(w) /\ Unwind(w, "error")
     \/ /\ ~ Closed(w)
        /\ Goto(w, IF w \in Streams \ started THEN "marking" ELSE "suspended")
        /\ UNCHANGED outcome
  /\ UNCHANGED <<ledger, started, exchange, received, consumed, failed, context>>

\* request.streaming() does nothing to a request that _close has finished.
Mark(w) ==
  /\ pc[w] = "marking"
  /\ \/ /\ row' = [row EXCEPT ![w] = IF w \in finished THEN @ ELSE "streaming"]
        /\ started' = started \cup {w}
        /\ Goto(w, "suspended")
        /\ UNCHANGED <<outcome, failed>>
     \/ /\ w \notin finished
        /\ failed' = failed \cup {w}
        /\ Unwind(w, "error")
        /\ UNCHANGED <<row, started>>
  /\ UNCHANGED <<finished, refused, exchange, received, consumed, context>>

Resume(w) ==
  /\ pc[w] = "suspended"
  /\ Goto(w, "looping")
  /\ UNCHANGED <<ledger, generator, context>>

\* Mutant of Drop: the state starts out as "done".
DropAsDone(w) ==
  /\ pc[w] \in {"looping", "calling", "reading", "received", "marking", "suspended"}
  /\ Unwind(w, "done")
  /\ UNCHANGED <<ledger, started, exchange, received, consumed, failed, context>>

\* GeneratorExit, or KeyboardInterrupt anywhere in the try block: not an
\* Exception, so the state stays "cancelled".
Drop(w) ==
  /\ pc[w] \in {"looping", "calling", "reading", "received", "marking", "suspended"}
  /\ Unwind(w, "cancelled")
  /\ UNCHANGED <<ledger, started, exchange, received, consumed, failed, context>>

-----------------------------------------------------------------------------
(* execute(): the finally blocks *)

CloseExecution(w) ==
  /\ pc[w] = "unwinding"
  /\ exchange' = exchange \ {w}
  /\ Goto(w, "finishing")
  /\ UNCHANGED <<ledger, outcome, started, received, consumed, failed, context>>

\* Mutant of Finish: a request that was cancelled is left to _close().
FinishUncancelled(w) ==
  /\ pc[w] = "finishing"
  /\ \/ outcome[w] = "cancelled" /\ UNCHANGED ledger
     \/ outcome[w] # "cancelled" /\ (Record(w, outcome[w]) \/ RecordFails(w))
  /\ Goto(w, "leaving")
  /\ UNCHANGED <<generator, context>>

Finish(w) ==
  /\ pc[w] = "finishing"
  /\ \/ Record(w, outcome[w])
     \/ RecordFails(w)
  /\ Goto(w, "leaving")
  /\ UNCHANGED <<generator, context>>

Discard(w) ==
  /\ pc[w] = "leaving"
  /\ lock[ConnectionOf[w]] = NULL
  /\ registered' = registered \ {w}
  /\ Goto(w, "over")
  /\ UNCHANGED <<ledger, generator, lock, closing, unfinished>>

\* KeyboardInterrupt in the last finally: the request stays in the set.
Desert(w) ==
  /\ pc[w] = "leaving"
  /\ Goto(w, "over")
  /\ UNCHANGED <<ledger, generator, context, struck>>

-----------------------------------------------------------------------------
(* The context exit of connected_model() *)

Busy(c) ==
  {w \in Workers : ConnectionOf[w] = c /\ pc[w] \notin {"idle", "suspended", "over"}}

\* _closed.set()
Close(c) ==
  /\ closing[c] = "open"
  /\ Considerate => Busy(c) = {}
  /\ closing' = [closing EXCEPT ![c] = "set"]
  /\ UNCHANGED <<pc, ledger, generator, registered, lock, unfinished, cut>>

\* Mutant of CloseLocks: a response that streams is left to its consumer.
CloseLocksRunning(c) ==
  /\ closing[c] = "set"
  /\ Lock(c, c)
  /\ closing' = [closing EXCEPT ![c] = "finishing"]
  /\ unfinished' = unfinished \cup {w \in registered : ConnectionOf[w] = c /\ row[w] = "running"}
  /\ UNCHANGED <<pc, ledger, generator, registered>>

CloseLocks(c) ==
  /\ closing[c] = "set"
  /\ Lock(c, c)
  /\ closing' = [closing EXCEPT ![c] = "finishing"]
  /\ unfinished' = unfinished \cup {w \in registered : ConnectionOf[w] = c}
  /\ UNCHANGED <<pc, ledger, generator, registered>>

\* Mutant of CloseFinishes: a state that is not one of _TERMINAL.
CloseFinishesAsClosed(c, w) ==
  /\ closing[c] = "finishing" /\ w \in unfinished /\ ConnectionOf[w] = c
  /\ Record(w, "closed")
  /\ unfinished' = unfinished \ {w}
  /\ UNCHANGED <<pc, generator, registered, lock, closing>>

\* One request of the loop; a failure is kept for the end.
CloseFinishes(c, w) ==
  /\ closing[c] = "finishing" /\ w \in unfinished /\ ConnectionOf[w] = c
  /\ \/ Record(w, "cancelled")
     \/ RecordFails(w)
  /\ unfinished' = unfinished \ {w}
  /\ UNCHANGED <<pc, generator, registered, lock, closing>>

CloseUnlocks(c) ==
  /\ closing[c] = "finishing"
  /\ {w \in unfinished : ConnectionOf[w] = c} = {}
  /\ registered' = {w \in registered : ConnectionOf[w] # c}
  /\ Unlock(c)
  /\ closing' = [closing EXCEPT ![c] = "shutting"]
  /\ UNCHANGED <<pc, ledger, generator, unfinished>>

\* KeyboardInterrupt while _close() waits for the lock or walks the set: the
\* lock is given back, the rest is left as it is, and the clients are closed.
InterruptExit(c) ==
  /\ closing[c] \in {"set", "finishing"}
  /\ closing' = [closing EXCEPT ![c] = "shutting"]
  /\ lock' = [lock EXCEPT ![c] = IF @ = c THEN NULL ELSE @]
  /\ unfinished' = {w \in unfinished : ConnectionOf[w] # c}
  /\ cut' = cut \cup {c}
  /\ UNCHANGED <<pc, ledger, generator, registered>>

\* The OpenAI and httpx clients' own context exits.
CloseClient(c) ==
  /\ closing[c] = "shutting"
  /\ closing' = [closing EXCEPT ![c] = "closed"]
  /\ exchange' = {w \in exchange : ConnectionOf[w] # c}
  /\ UNCHANGED <<pc, ledger, outcome, started, received, consumed, failed,
                 registered, lock, unfinished>>

-----------------------------------------------------------------------------
Remember == entered' = entered \cup registered'

\* What a thread inside execute() goes on doing by itself.
Run(w) ==
  /\ \/ Acquire(w) \/ AcquireClosed(w) \/ TakeLock(w) \/ Look(w) \/ Add(w)
     \/ Reject(w) \/ CheckOpen(w) \/ Call(w) \/ Receive(w) \/ End(w) \/ Fail(w) \/ CheckStillOpen(w)
     \/ Mark(w) \/ CloseExecution(w) \/ Finish(w) \/ Discard(w)
  /\ Remember /\ UNCHANGED <<limit, struck, cut>>

\* What its consumer decides, or the bucket's other users, or storage.
Consume(w) ==
  /\ Start(w) \/ Queue(w) \/ AcquireFails(w) \/ Resume(w) \/ Drop(w)
  /\ Remember /\ UNCHANGED <<limit, struck, cut>>

Interrupt(w) ==
  /\ Strike(w) \/ Desert(w)
  /\ Remember /\ UNCHANGED <<limit, cut>>

Exit(c) ==
  /\ \/ CloseLocks(c) \/ CloseUnlocks(c) \/ CloseClient(c)
     \/ \E w \in Workers : CloseFinishes(c, w)
  /\ Remember /\ UNCHANGED <<limit, struck, cut>>

\* The end of the context's body, or an interrupt after it.
Leave(c) ==
  /\ Close(c) \/ InterruptExit(c)
  /\ Remember /\ UNCHANGED <<limit, struck>>

Next ==
  \/ \E w \in Workers : Run(w) \/ Consume(w) \/ Interrupt(w)
  \/ \E c \in Connections : Leave(c) \/ Exit(c)

Spec == Init /\ [][Next]_vars

\* Threads in execute() and in the context exit keep running; a provider
\* answers or times out.  Nobody has to resume or drop a response.
FairSpec ==
  /\ Spec
  /\ \A w \in Workers : WF_vars(Run(w))
  /\ \A c \in Connections : WF_vars(Exit(c))

-----------------------------------------------------------------------------
(* Safety *)

\* Requests whose slot nobody is going to give back before their process
\* dies: the ledger refused their end, or an interrupt struck after the
\* return of acquire() and before _requests.add(), where execute() has no
\* handler and the context exit does not know them.
Forsaken == refused \cup (struck \ entered)

\* A connection whose exit has not been interrupted has, once it is closed,
\* no request left that occupies a slot, except one whose worker is still on
\* the way from acquire() to the look at the closed event, and forsaken
\* ones: a request is either registered before _close() walks the set or
\* rejected.
ClosedIsClean ==
  \A w \in Workers :
    /\ closing[ConnectionOf[w]] \in {"shutting", "closed"} /\ ConnectionOf[w] \notin cut
    /\ row[w] \in Active
    => w \in Forsaken \/ pc[w] \in {"acquiring", "granted", "locked", "rejecting"}

\* A generator that has ended has completed its row, unless the ledger has
\* refused that or an interrupt struck it before its try block.  Then, if
\* the request had come into the set, it is still there for the context exit
\* to finish; if it had not, it is nobody's.  However else a generator ends,
\* dropped, failed, rejected or overtaken by the exit, it leaves no slot
\* behind.
EndedIsReleased ==
  \A w \in Workers :
    pc[w] = "over" /\ row[w] \in Active =>
      \/ w \in refused
      \/ w \in struck /\ (w \in entered => w \in registered)

\* What the activity view says of a request is so: "done" means that the
\* response was consumed, "streaming" that an upstream event has arrived,
\* "error" that something failed, if the context was not closed meanwhile;
\* and while the exchange is open the request is shown with its slot, if the
\* context is not just being left.
TruthfulActivity ==
  \A w \in Workers :
    /\ row[w] = "done" => w \in consumed
    /\ row[w] = "streaming" => w \in received
    /\ row[w] = "error" => w \in failed \/ Closed(w)
    /\ w \in exchange =>
         row[w] \in Occupying \/ closing[ConnectionOf[w]] \in {"finishing", "shutting"}

\* Between them the worker and the context exit finish a request once: the
\* outcome recorded first stays.
OutcomeStays ==
  [][\A w \in Workers : row[w] \in Outcomes => row'[w] = row[w]]_vars

\* README.md: "max_concurrent covers active client requests through response
\* consumption", that is, an open exchange is backed by an occupied slot.
PermitCoversExchange ==
  \A w \in exchange : row[w] \in Occupying

\* README.md: "Failed, cancelled, and abandoned requests remain
\* distinguishable", that is, "error" is not recorded for a closed context.
ErrorMeansFailure ==
  \A w \in Workers : row[w] = "error" => w \in failed

-----------------------------------------------------------------------------
(* Liveness *)

\* Closing a connection frees its slots without its consumers' help, those
\* of registered requests included that an interrupt has struck, if the exit
\* is not interrupted; nor does a struck worker keep the lock from it.
ClosingReleases ==
  \A w \in Workers :
    closing[ConnectionOf[w]] = "set"
      ~> row[w] \notin Active \/ w \in Forsaken \/ ConnectionOf[w] \in cut

\* README.md: "Consume or close streams before starting work that would
\* exceed their shared concurrency limit".  That is all a caller has to see
\* to: a worker that waits for a permit for ever waits for responses that
\* are left suspended, or whose end the ledger refused, or which an
\* interrupt struck before their try block.
WaitsForSuspended ==
  \A w \in Workers :
    pc[w] = "acquiring" ~>
      \/ pc[w] # "acquiring"
      \/ \E v \in Workers :
           /\ row[v] \in Occupying
           /\ pc[v] = "suspended" \/ v \in refused \cup struck
=============================================================================
