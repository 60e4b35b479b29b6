# A TLA+ model of Sheetbend

Sheetbend selects a configured inference source for an application, opens a
connection to it for the LLM library, and keeps all applications of a user on one
host within the source's shared limits. This directory models the parts of it that
decide something, checks them with TLC, and proves with TLAPS the safety of each of them:
admission, storage, connections, selection, reasoning, configuration and diagnostics.

Paths below are relative to `src/sheetbend/` of the repository.

## The system

| Component | State | Operations | Talks to |
| --- | --- | --- | --- |
| Admission control, `runtime/runtime.py` | the ledger: `requests`, `starts`, `buckets` | `acquire()`, `streaming()`, `finish()`, `snapshot()`; each first reaps and prunes (`_maintain`) | storage, process liveness; called by connections, the catalog, the viewer |
| Storage, `runtime/storage.py` | one SQLite file per boot in a private directory | `transaction()`, `BEGIN IMMEDIATE` to commit | SQLite, the file system |
| Process identity, `runtime/process.py` | none | `identity()`, `alive()` | psutil |
| Connected model, `llm_adapter.py` | closed event, lock, set of requests, HTTP client | `execute()` (a generator), `_close()`, `build_kwargs()` | admission, LLM's `Chat`, the provider |
| Registry, `registry.py` | a validated snapshot of the configuration | `from_file()`, `source()` | config, sources |
| Source, `source.py` | its definition, its `_Admission` | `connect()`, `check()`, `list_models()`, `resolve_auth()` | adapter, admission |
| Reasoning, `reasoning.py` | none | `resolve_reasoning()` | config (on defaults), source (on choices) |
| Configuration, `config.py` and its schema | none | `select_config_path()`, `validate_config()` | the file |
| Diagnostics, `checks.py`, `check_result.py` | a report in the making | `check_source()` | source |
| Command line, `cli.py` | an exit status | `check_command()`; the rest is presentation | registry, source |

Admission is where the hard behaviour is. Unrelated processes share the ledger and
nothing else: no daemon, no queue, no heartbeat. Every process polls; each attempt is
one short write transaction that reaps rows of dead processes, expires starts and
history, checks that the bucket's definition agrees, and counts. The clock is read
before the transaction. A process can die at any point, its pid can be used again,
storage can refuse, a user can interrupt, and a permit can be lost between the commit
and the variable that remembers it. Next in line is the lifetime of a connection: its
context exit races with workers that are on their way from `acquire()` into the set
of requests, or suspended at a `yield` that nobody may resume. Selection and reasoning
are sequential, but a small slip there sends a prompt to a source, or a setting to a
model, that the caller excluded. Storage has to come into being under callers that know
nothing of each other: each prepares the directory, removes the ledgers of earlier
boots, and creates and opens this one, and any of them may die in between. A report of
six probes takes a permit six times from a bucket that others use.

What makes each part correct:

- Admission: the limits hold whoever dies; a holder keeps its row and everybody else
  loses theirs; a busy bucket keeps its definition; pruning forgets no recent start;
  waiting has a cause and, with fair threads, an end.
- Connection: each request is finished, once, whichever of the worker and the context
  exit comes first; closing frees suspended streams; activity says what happened.
- Selection: never outside the caller's boundary, first in the caller's order, refused
  only for a cause, not moved by edits elsewhere.
- Reasoning and capabilities: what loads can be used; a choice is neither weakened nor
  overridden; a probe changes no declaration.
- Storage: one journal of whole transactions per boot; old boots' files go first, this
  one's stay; no call is refused for what others do, only the busy timeout is another's
  doing; a view creates nothing.
- Configuration: a chosen file that is absent is an error, and one file is one quota,
  whatever path leads to it.
- Diagnostics: a report has all its results whatever fails, each is true, nothing is
  sent before every refusal was considered, and the command ends.

`PROJECT.json` lists the components with what is left out of each, and the hazards of
this code, each with its line and the properties that watch it.

## Modules

**`Ledger`** has the tables as a record of functions and one operator per SQL
statement (`Reap`, `ExpireStarts`, `TrimHistory`, `Conflict`, `HasRoom`, `Grant`, ...),
without any state machine, plus the predicate `Sound` that every transaction keeps.
Columns written once (bucket, pid, creation time) are functions of the request;
columns that only display are left out. A request owns at most one row of `starts`,
which the source table does not say but `acquire()` does: it inserts one and returns.

**`Admission`** is `acquire()` and its surroundings. A request is a thread with a phase
`pc[r]`; a transaction is one action, since `BEGIN IMMEDIATE` serialises writers. The
code between transactions is not atomic with them:

| Action | Code |
| --- | --- |
| `Begin`, `SeeCancelled`, `Sample`, `Wake` | the loop outside the transaction (runtime.py:186-190, 235-238) |
| `Refuse`, `Enqueue`, `AdmitCancelled`, `Admit` | the transaction: conflict or lost row, no room, second look at the event, permit (191-234) |
| `Interrupt`, `InterruptedCommit`, `StorageFails` | `KeyboardInterrupt` before the commit and between it and the return, a transaction that raises |
| `Cleanup`, `CleanupFails` | the `except BaseException` handler (239-245) |
| `Stream`, `Finish`, `GiveUp` | `_Request.streaming()`, `finish()`, and its failure |
| `Cancel` | `_close()` sets the event (llm_adapter.py:150) |
| `Snapshot` | `Runtime.snapshot()` (73-98) |
| `Spawn`, `Crash`, `Tick` | the host |

**`Permits`** is what admission promises: clients, holders and grant times, without
processes, polling, a database or a sampled clock. **`AdmissionPermits`** instantiates
it over `Admission` and states that one implements the other.

**`AdmissionInvariant`** strengthens the safety properties to an inductive invariant.
**`LedgerProofs`**, **`AdmissionProofs`** and **`StepProofs`** hold the proofs,
**`MCAdmission`** the instances for TLC.

**`Connection`** is one level up: workers that run the generator `execute()`, their
consumers, and the exit of `connected_model()`. Admission is reduced to the row of
each worker and a slot count, since its insides are modelled above; each lock
acquisition, check of the closed event, call upstream and ledger update of `execute()`
and `_close()` is a step of its own. The limit of the bucket is a variable that is
chosen at the start, so that one run has several. `MCConnection` has the instances,
**`ConnectionProofs`** the proofs.

| Interrupt | Code (llm_adapter.py) |
| --- | --- |
| `Strike` | a worker between the return of `acquire()` and its `try` block (107-118), where no handler finishes the request |
| `Drop`, `CloseExecution` | a worker inside the `try` block and in its `finally` (119-137), like a dropped generator |
| `RecordFails` | inside `finish()`, before its commit |
| `Desert` | a worker at its last lock (145-147): the request stays in the set |
| `InterruptExit` | the context exit once the event is set (151-160): `_close()` catches `Exception` only, gives the lock back and leaves the rest of the set as it is |

The history variables `entered`, `struck`, `refused` and `cut` record whose request has
been in the set, whom an interrupt struck before the `try` block, whose `finish()` was
refused and which exit was interrupted. They restrict no step; the properties need them to
name what they except: `Forsaken` are the requests that nobody finishes before their
process dies.

**`Selection`** is `Registry.source()` as operators (`Eligible`, `Candidates`,
`Automatic`, `Explicit`, `Source`) and a program that repeats a request while the file
is edited and reloaded. Edits that `validate_config()` refuses do not load.
**`SelectionProofs`** has the proofs.

**`Storage`** is the inside of one `transaction()`, which `Admission` takes as an atomic
step. A ledger is two files, the database and its write-ahead log, and their content is
the journal of the transactions they hold, which is what later ones can tell apart.

| Action | Code (runtime/storage.py) |
| --- | --- |
| `Enter` | `_private_directory()`: make it, find it absent, or refuse it (83-100) |
| `Look`, `YieldNone` | a view of no ledger (143-147) |
| `List`, `Inspect`, `Unlink`, `Swept` | the loop over the files of earlier boots, one at a time (148-154) |
| `Create`, `Confirm` | `_private_file()` of the database and its sidecars (103-119, 155-157) |
| `Connect`, `Begin`, `Busy` | `sqlite3.connect()`, `BEGIN IMMEDIATE` and its timeout (158-163) |
| `Commit`, `Fault`, `Close` | the end of the body, an error anywhere, the `finally` (170-176) |
| `Crash`, `Reboot`, `Spoil` | the host, and somebody who changes a file's mode or links |

SQLite is external: a rolled-back transaction leaves nothing, a connection that is the
last to close moves the log into the database, and locks die with their process.

**`Journal`** is what `Admission` takes for granted of it: a sequence of transactions,
each of which sees all before it, empty again after a reboot. `Storage` contains the
refinement mapping (`Promised`): the journal is the log if there is one, else the
database. `MCStorage` has the instance, **`StorageProofs`** the proofs.

**`Config`** is `Registry.from_file()` with `select_config_path()`, in the steps between
which somebody may edit files and links: choose a path, read it, look for a broken link
if there was nothing, resolve the path to name the buckets. It has no next-state relation
of its own. A path may be a link to a file, not to another link: a chain of links names
the file it ends at, as one does.

**`Checks`** extends `Config` to the command `sheetbend check`: usage, loading, selection,
then one probe after the other, each with a permit, an exchange, a `finish()` and a
judgement. Other applications load a configuration the same way and take one permit each.
Answers are abstracted to what the probes tell apart; what they establish is written down
apart from the code's tests of them (`Establishes`, `Passes`). `MCChecks` has the instance,
**`ChecksProofs`** the proofs of both modules.

**`Binding`** follows the declaration of a model from the file (`Written`) through
defaults and validation (`Load`), `connect()` and `check()`, to the body of a request
(`Prompt`). `MCBinding` has the instance, **`BindingProofs`** the proofs.

Definitions whose comment begins with "Mutant of" are no part of the model. Each is a
plausible slip in the definition that follows it; putting it in that definition's place
makes TLC find a violation of a named property, which shows that the property can fail.

## Runs

`tlc -config X.cfg M` runs a configuration. All pass but the three that refute a
sentence of the documentation.

| Configuration, module | Question | Bounds, and why they are enough |
| --- | --- | --- |
| `Slots`, `MCAdmission` | Do slots survive crashes, pid reuse, interrupts and storage failures? | three requests in three processes, two of which share a pid in turn, one slot, `Window`, history and clock of one unit: one request can hold, one die, one poll |
| `Rate`, `MCAdmission` | Does the rolling budget hold with stale ticks? | two requests, one start per window of 3, ticks up to 1 old, clock to 6: two full windows, and history shorter than the window, so that pruning rows would show |
| `Served`, `MCAdmission` | Does every polling request come to an end? | two requests, reused pid, time stands still, so no slot is freed by ageing |
| `Promise`, `MCAdmission` | Does admission implement `Permits`, and can a reload reset a busy or recently used bucket? | three requests of two definitions with different limits, a window of one unit, no lag (stale ticks are in `Rate`) |
| `Documented`, `MCAdmission` | Does the budget hold for the whole documented window? | refuted, see findings |
| `Lifetime`, `MCConnection` | Does every request end once, closing free its slots, and waiting end? | a streaming and a plain worker of one connection, a limit of one or two; both pass through every phase against every stage of the exit |
| `Exchange`, `MCConnection` | Is an open exchange always backed by a slot? | two applications, one slot; callers who finish their busy workers first; refuted |
| `Outcome`, `MCConnection` | Does "error" mean that something failed? | refuted |
| `Selection`, `Selection` | Are boundaries, order and refusals right, and stable under edits? | three names, two organizations, every request form: three sources are what a tie next to a third scope needs |
| `Binding`, `MCBinding` | Is a declaration used as written? | all controls, defaults and value tables over two of the three levels (the third is treated alike), two capabilities with different defaults |
| `Storage`, `MCStorage` | Do the files implement the journal, among sweeps, crashes and reboots? | two processes, two boots, three transactions in each, the first database tampered with: one process can be at any step of its sweep while the other sweeps, creates, commits or dies |
| `Checks`, `MCChecks` | Is a report complete and true, a quota shared, and does the command end? | the command and one other application, two paths to one file and a third file, one edit, two faults, a limit of one: a fault in one probe and another in a later one, or in its `finish()` |

`MaxClock` bounds time, `MaxLag` bounds the age of a sampled tick (the 5 seconds that a
transaction waits for the write lock, plus scheduling), `RecentLimit` is 1 instead of
1000. All admission runs have one bucket, for buckets share nothing but `_maintain()`; the
theorems are about any number. `MaxBoot` and `MaxLog` bound reboots and transactions,
`MaxEdits` and `MaxFaults` what goes wrong around a check. `Lifetime`, `Exchange`,
`Outcome`, `Binding`, `Storage` and `Checks` do not check for deadlock: a program may
leave its responses suspended for ever, an invalid file is never loaded, a command exits,
and the journal of a bounded instance is full at some point.

### Fairness

`Served` assumes weak fairness of what each thread does next inside `acquire()` and its
handler, and of the client giving its permit back. The first is a running thread of a
live process; the second is the documented duty to consume or close responses, which
`execute()` turns into a `finish()` in every case. Nothing is assumed of processes
starting or dying, of snapshots, interrupts or time. `EventuallyServed` exempts buckets
in which a live process has lost track of a row for good (`leaked`): the code says that
a paused live process keeps its slot, and so does a forgotten row. With two requests
weak fairness is enough; with more, a poller may in principle always meet a full bucket,
and README.md of the repository promises no fairness.

`Lifetime` assumes weak fairness of each worker inside `execute()`, where the provider
answers or times out, and of the context exit. No consumer has to resume or drop
anything: `ClosingReleases` holds for streams abandoned at `yield`. Storage need not fail
either (`AcquireFails` is not counted on), so `WaitsForSuspended` says something: a worker
that waits for ever waits for a stream that somebody has left suspended, or for a request
whose end the ledger refused or which an interrupt struck before its `try` block. Interrupts
are not fair either. `ClosingReleases` excepts forsaken requests and exits that were
themselves interrupted, and includes struck requests that had come into the set. That is the README's "Consume or close streams before starting work
that would exceed their shared concurrency limit", and it shows that nothing else is asked
of a caller.

`Storage` assumes that a process inside `transaction()` goes on; bodies are short and do
no I/O. Faults, crashes and reboots are not fair. `Checks` assumes that the command goes
on, that a provider answers or times out, and that the other application, which asks once,
gives its permit back.

## Findings

1. **The rolling window is shorter than 60 seconds** (`Documented`). `acquire()` reads
   `time.monotonic()` before it waits for the write lock, and records that tick as the
   start. A start commits up to `MaxLag` after its tick and expires one window after the
   tick. Two admissions can commit `Window - MaxLag` apart. What does hold, and is
   proved, is the limit for every span shorter than that (`RateLimit`).
2. **A slot is released before its exchange is closed** (`Exchange`). `_close()` finishes
   suspended streams, then the HTTP client's context is left. In between another
   application is admitted while the exchange is open. What does hold, and is
   proved, is that this is the only case: an open exchange has its slot unless its context
   is just being left (`TruthfulActivity`), and apart from those no more exchanges are open
   than `max_concurrent` (`ExchangesWithinLimit`).
3. **A closed context can be recorded as an error** (`Outcome`). `execute()` records its
   own `ConnectionClosedError` as `error`; `acquire()` records it as `cancelled`. Which
   one a worker of a closed connection gets depends on who finishes the request first. What
   does hold, and is proved, is that a request is an error only when something failed or
   its connection was closed (`TruthfulActivity`).

Three more observations are no contradiction of a sentence. `EndedIsReleased` excepts a
request that an interrupt strikes after `acquire()` has returned and before
`_requests.add()`: nobody finishes it, and its slot is taken until the process dies. It says
that this is the only such case, apart from a refused `finish()`. `ClosedIsClean` and
`ClosingReleases` except the connections whose exit was interrupted: what `_close()` had not
yet finished stays active. And `CommandEnds` says the third: when the
`finish()` of a probe is refused by the ledger, its row stays active as long as the process
lives, and with `max_concurrent = 1` the next probe of the same `check --all` waits for it
without end. Without the exception for a lost `finish()` the property is violated.

## Proofs

### Admission

TLAPS proves, for any finite set of requests and any buckets, definitions, processes,
limits, window, history bounds and lag, that `Spec` of `Admission` implies:

| Theorem | Module | Property |
| --- | --- | --- |
| `Invariance` | `AdmissionProofs` | `Inv`, the inductive invariant |
| `TypeCorrect` | `AdmissionProofs` | `TypeOK` |
| `Backed` | `AdmissionProofs` | `PermitBacked` |
| `Released` | `AdmissionProofs` | `ReleasedWhenOver` |
| `DefinitionAgreed` | `AdmissionProofs` | `OneDefinition` |
| `Concurrency` | `AdmissionProofs` | `ConcurrencyLimit` |
| `Rate` | `AdmissionProofs` | `RateLimit` |
| `Refinement` | `StepProofs` | `KeepsPromise`: `Admission` implements `Permits` |
| `PromiseSuffices` | `StepProofs` | `ConcurrencyLimit` and `RateLimit`, from `KeepsPromise` alone |
| `Lifecycle` | `StepProofs` | `RowLifecycle` |
| `CauseToWait` | `StepProofs` | `WaitsForCause` |

The assumptions are `LedgerAssumption` (types of the constants, positive limits as the
schema requires, finitely many requests) and `AdmissionAssumption` (bounds are natural
numbers). TLC evaluates both in every admission run.

**The argument.** None of the properties is inductive by itself. `ConcurrencyLimit`
counts phases of threads, the code counts rows, so a holder must be backed by a row;
that survives reaping only because a holder's process runs, and pruning only because
exactly the completed rows have a finish time; the count of rows bounds the count of
holders only if all of them were admitted under one limit, hence the agreement of
definitions; and agreement survives the removal of idle buckets only if rows and starts
keep their bucket. `Inv` is the conjunction of these: `Sound(db)`, what every transaction
leaves true of the tables, `OwnerOf` (who runs), `RowOf` (the row a phase implies, and
the converse for occupying rows) and `StartOf` (a recorded start is at most `MaxLag`
older than its commit, and stays recorded for a window by its own tick). The last one
turns the code's count of `starts` into `RateLimit`.

`LedgerProofs` has a lemma per statement and concludes that `Maintain`, `Register`,
`Grant`, `MarkStreaming` and `Complete` keep `Sound`; all reasoning about cardinalities
is there. `AdmissionProofs` goes through the actions: those that leave the ledger alone
(`QuietInv`), those that commit an attempt, completions, and the host, with
`Undisturbed` saying what a transaction of one request means for all others.

`StepProofs` shows that a committed admission is a `Grant` of `Permits`: the
transaction counts occupying rows and recorded starts, and `Counted` says that every
client in hand and every admission of the last `Window - MaxLag` is among them, so
what the promise counts is no more than what the code counted. All other steps return
permits, let time pass or are invisible. The instance checked by `Promise` has no lag;
the theorem has any. `PromiseSuffices` says what the promise is worth: from the actions of
`Permits` alone, without a row, a poll or `Inv`, it follows that those who hold a permit of a
bucket or were granted one lately have one definition, and are no more than it allows. So
the limits are proved twice, from the tables and from the abstract specification, and
any other implementation of `Permits` would have them too.

The module also proves the converse direction for waiting: every row that the deciding
transaction counts belongs to a living request that was admitted and not finished
(`DeadRowsDied`: cleanup in that transaction recognises exactly the requests that died
with their process), and every start it counts is an admission inside the window; and,
one statement at a time, that rows only move forward.

### Storage

TLAPS proves, for any processes, any number of boots and transactions and any tampering,
that `Spec` of `Storage` implies:

| Theorem (in `StorageProofs`) | Property |
| --- | --- |
| `StorageInvariance` | `Inv`, the inductive invariant |
| `StorageTypeCorrect` | `TypeOK` |
| `SweptFirst` | `SweptBeforeUse` |
| `JournalKept` | `KeepsJournal`: `Storage` implements `Journal` |
| `NothingIsLost` | what a process has read stays, and only a reboot takes a transaction back |
| `FailureHasCause` | `FailsForCause` |
| `ViewsAreIdle` | `ViewsCreateNothing` |

The assumption is `StorageAssumption`: the bounds are natural numbers and `NULL` is
neither a process nor a journal.

**The argument.** That a commit appends to the journal it saw needs that nobody else
committed since `BEGIN IMMEDIATE`, hence that only the one with the lock is at its yield
(`LockInv`). That the journal survives the sweeps of others needs that no list ever has a
file of this boot; that it is empty after a reboot, that no file of a later boot exists
yet; that creating the database does not change it, that there is no log without a
database (`SweepInv`, `FilesInv`). That nobody is refused because of another, nor finds the
database gone, needs that it stays once a caller has created, seen or opened it
(`PlaceInv`). `SweepInv` also
says that what is left of earlier boots is in the list of every caller that sweeps, and
nothing is left past it. Each action has a lemma; `Moved` and `Bystander` reduce it to the
caller that moves, given that the step is `Calm`: it removes no database of this boot and
adds no file to an earlier one. `NothingIsLost` is what `Admission` relies on when processes
meet in the ledger, drawn from the steps of `Journal`.

### Connections

TLAPS proves, for any connections, workers, streams and limits, whether or not callers are
considerate when they close, that `Spec` of `Connection` implies:

| Theorem (in `ConnectionProofs`) | Property |
| --- | --- |
| `ConnectionInvariance` | `Inv`, the inductive invariant |
| `ConnectionTypeCorrect` | `TypeOK` |
| `CloseLeavesNothing` | `ClosedIsClean` |
| `EndsAreReleased` | `EndedIsReleased` |
| `ActivityIsTruthful` | `TruthfulActivity` |
| `OutcomesStay` | `OutcomeStays` |
| `ExchangesAndSlots` | open exchanges stay inside the loop, occupied slots within the limit |
| `ExchangesWithinLimit` | no more exchanges are open than `max_concurrent`, contexts being left apart |

The assumption is `ConnectionAssumption`: types, that the workers are finitely many, and
that nothing is both a worker and a connection, so that the holder of a lock is one of
them.

**The argument.** Closing leaves nothing because every active row is taken care of at each
moment (`CareInv`): by a worker still on its way into the set of requests, or by the set
itself, all of which `_close()` has before it from the moment it has the lock; the only
others are forsaken. That a worker does not slip into the set behind `_close()` is
`LockInv`: who is about to add has the lock and saw the connection open or its event just
set, and no request is registered after the walk, unless the exit was interrupted.
`EntryInv` says that a request comes into the set once, so that what an interrupt struck
before is told from what it struck after. `RowInv` ties `_finished` to the completed row,
from which the first outcome stays, and lets a generator end over an active row only if the
ledger refused or an interrupt struck, which with `CareInv` is `EndedIsReleased`; `TruthInv` is what the recorded states say has happened. `ExchangesAndSlots`
is a second layer, which uses the first: an exchange is open only from the call upstream to
the worker's unwinding, and as long as a worker is there nobody but the exit of its context
completes its row. So an exchange whose row occupies no slot belongs to a context that is
finishing requests or shutting its client (`CoveredUntilExit`), and counting slots counts
all other exchanges.

### Selection

TLAPS proves, for any finite set of names and any organizations, that `Spec` of `Selection`
implies:

| Theorem (in `SelectionProofs`) | Property |
| --- | --- |
| `SelectionInvariance` | `Inv`, the inductive invariant |
| `SelectionTypeCorrect` | `TypeOK` |
| `BoundaryKept` | `InsideBoundary` |
| `OrderFollowed` | `BestChoice` |
| `RefusedWithReason` | `RefusedForCause` |
| `NotDisplaced` | `Undisplaced` |

The assumption is `SelectionAssumption`: names are finite, and `NULL` is no name,
organization or exception.

**The argument.** `Inv` is short, a validated registry and the answer `source()` gives for
it; the work is in what `source()` computes. A sequence that passes the argument checks
has no scope twice (it has as many members as it is long), so an allowed source has one
place in the order, and candidates are the eligible sources at the least place that has
any (`CandidatesAreFirst`, `PlaceOf`). An edit that concerns neither an earlier place nor
the same one leaves this place and its candidates as they were, but for the edited source
(`CandidatesStay`).

### Reasoning

TLAPS proves, for any levels, values of "on" and capabilities, that `Spec` of `Binding`
implies:

| Theorem (in `BindingProofs`) | Property |
| --- | --- |
| `BindingInvariance` | `Inv`, the inductive invariant |
| `BindingTypeCorrect` | `TypeOK` |
| `OnlyDeclarations` | `DeclarationsDecide` |
| `ChoicesHold` | `NeverSoftened` |
| `OptionsHold` | `OneControl` |

The assumption is `BindingAssumption`: levels and native values have none of the names
"provider", "off", "on" and "none", and `NULL` is none of the values.

**The argument.** A declaration that validates is complete (`LoadedIsComplete`), and for a
complete declaration the plan of a supported choice is `Faithful`: it has the parameter of
the declared control with the value the table gives it (`PlansAreFaithful`). An open
connection has such a plan (`ConnectionInv`), a prompt that went out was not refused
(`PromptInv`), and then `Body` can neither replace the plan's value nor silently drop the
prompt's.

### Configuration and diagnostics

TLAPS proves, for any finite set of applications, any paths, edits, situations and faults
and any limit, that `Spec` of `Checks` (which contains `Config`) implies:

| Theorem (in `ChecksProofs`) | Property |
| --- | --- |
| `ChecksInvariance` | `Inv`, the inductive invariant |
| `ChecksTypes` | `TypeOK` |
| `ExplicitChoices` | `ExplicitIsNeverEmpty` |
| `QuotaIsShared` | `SharedQuota` |
| `ReportsAreComplete` | `ReportIsComplete` |
| `NothingSentInVain` | `SentForCause` |
| `VerdictsAreTrue` | `VerdictIsTrue` |

The assumptions are `ConfigAssumption` (finitely many applications, links that end at files,
`NULL` is no path) and `ChecksAssumption` (one of the applications is the command, the limit
is positive, `NULL` is no exit status).

**The argument.** Two applications that read one file count together because the name of
the bucket is the file that was read; the code resolves the path after reading it, so this
needs that the path still leads there, which `LoadInv` says of a load that nobody disturbs.
It needs `LinksEnd`, that resolving once is enough, which edits keep. `QuotaInv` counts the
requests of each bucket: taking a permit adds one where there was room, and every other
step adds none. An explicit choice is never empty because `LoadInv` has a file for everyone
who gets past the diagnosis.

A report is complete and true because of what each phase may rely on. `ResultsInv` says that
the results so far are those of the first tests of the plan, in its order, and what an exit
status says of them. `ProgressInv` ties the row of the test in progress to the stage of the
probe, and says that those to come have none: a judged test has a row that is `done`, so its
verdict has an answer that was consumed. `CauseInv` collects the refusals that a command has
behind it before it probes: usage, a loaded file, consent for an external source, and a
model that is fit for the current test.

### What is only model-checked

Liveness, which is outside the prover's reach: `EventuallyServed`, `ClosingReleases`,
`WaitsForSuspended`, `LockIsFreed` and `CommandEnds`. And the three sentences of the
documentation that are refuted, of which there is nothing to prove; what holds in their
place is, see the findings. Every other property of the runs is a theorem.

## Not modelled, and the plan

In this order:

1. `Connection` after a fork, where the child inherits the requests of the parent. The
   repository's README excludes the use (line 224), so this would document what happens.
2. Two applications that load different configurations for one path, in the full
   composition of `Config` and `Admission`; today `Admission` has the definitions and
   `Checks` the namespaces.

Left out for good: how a secret, a CA bundle, an endpoint or a header is judged (checks of
text and library calls without state; a situation or a file is fit or not), parsing of
provider responses and generation of probe images, the commands that only print, the
display and the output schemas (presentation), the choice of the runtime directory from
the environment (an input of `Storage`), the LLM library and the OpenAI client (external;
the model has what the adapter relies on). What `disturbed` excludes from `SharedQuota` is
real but a matter of the person who edits: who moves a link while an application is
between reading the file and resolving the path gets that file's limits under the other
file's name.

A few details are folded together where no property tells them apart. `Selection` enumerates
well-typed requests, so the `TypeError` of registry.py:79-80 is no answer of it. `Binding`
has the selection errors of `connect()`, not its credential or import failures. In `Storage`
the `lstat()` calls of `Confirm` are one step, for each judges one file by itself and a
sidecar that goes away between two is no error, and a `PRAGMA` that fails or finds another
`user_version` is a `Fault`.
