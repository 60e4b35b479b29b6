------------------------------ MODULE Storage -------------------------------
(***************************************************************************)
(* Store.transaction() of src/sheetbend/runtime/storage.py: processes that *)
(* prepare a private directory, sweep the ledgers of earlier boots, create *)
(* and open the ledger of this boot, run one transaction and close, with   *)
(* crashes, faults and reboots between any two steps.                      *)
(*                                                                         *)
(* A ledger is two files of the directory, the database and its write-     *)
(* ahead log; a file's content is the journal of the transactions it has.  *)
(* The other sidecars hold no transactions.  SQLite is external.           *)
(*                                                                         *)
(* Phases of a call, pc[p]:                                                *)
(*   entering    in _private_directory()                                   *)
(*   looking     a view, about to look whether there is a ledger           *)
(*   listing     about to list the directory                               *)
(*   sweeping    has the list, at the top of the loop                      *)
(*   unlinking   has found target[p] to be in order, or gone               *)
(*   creating    in os.open(O_CREAT | O_EXCL)                              *)
(*   confirming  in lstat() of the database and its sidecars               *)
(*   opening     in sqlite3.connect()                                      *)
(*   waiting     in BEGIN IMMEDIATE                                        *)
(*   body        at the yield, with the write lock                         *)
(*   committed, refused, failed   about to close the connection, if any    *)
(***************************************************************************)
EXTENDS Integers, Sequences

CONSTANTS
  Processes,
  Spoilable,        \* files whose mode or links are changed by hand
  MaxBoot,          \* bound on reboots
  MaxLog,           \* bound on the transactions of a boot
  NULL

ASSUME StorageAssumption ==
  /\ MaxBoot \in Nat
  /\ MaxLog \in Nat
  /\ NULL \notin Processes \cup Seq(Processes)

VARIABLES
  boot,             \* boot_id()
  directory,        \* the runtime directory: "orphan" has no parent either,
                    \* "unfit" is not private, or on a network filesystem
  main, wal,        \* per boot, the content of the two files, or NULL
  unfit,            \* files that are not private, regular and unlinked
  pc,
  creates,          \* the create argument of a call
  todo, target,     \* the rest of a sweep's list, and the file it looks at
  open,             \* processes with a connection
  lock,             \* who has the write lock, or NULL
  view,             \* the journal as a transaction found it
  saw               \* history: the same of the last one that was committed

files == <<main, wal>>
sweep == <<todo, target>>
sqlite == <<open, lock, view>>
locals == <<creates, sweep, view, saw>>
vars == <<boot, directory, files, unfit, pc, creates, sweep, sqlite, saw>>

Boots == 0..MaxBoot
Names == Boots \X {"main", "wal"}
Content(f) == IF f[2] = "main" THEN main[f[1]] ELSE wal[f[1]]
Exists(f) == Content(f) # NULL
\* The ledger of this boot, as a connection reads it.
Ledger ==
  IF wal[boot] # NULL THEN wal[boot] ELSE IF main[boot] # NULL THEN main[boot] ELSE <<>>

TypeOK ==
  /\ boot \in Boots
  /\ directory \in {"orphan", "absent", "fit", "unfit"}
  /\ main \in [Boots -> Seq(Processes) \cup {NULL}]
  /\ wal \in [Boots -> Seq(Processes) \cup {NULL}]
  /\ unfit \subseteq Names
  /\ pc \in [Processes ->
       {"idle", "entering", "looking", "listing", "sweeping", "unlinking", "creating",
        "confirming", "opening", "waiting", "body", "committed", "refused", "failed"}]
  /\ creates \in [Processes -> BOOLEAN]
  /\ todo \in [Processes -> SUBSET Names]
  /\ target \in [Processes -> Names \cup {NULL}]
  /\ open \subseteq Processes
  /\ lock \in Processes \cup {NULL}
  /\ view \in [Processes -> Seq(Processes)]
  /\ saw \in [Processes -> Seq(Processes)]

Init ==
  /\ boot = 0
  /\ directory \in {"orphan", "absent", "fit", "unfit"}
  /\ main = [b \in Boots |-> NULL]
  /\ wal = [b \in Boots |-> NULL]
  /\ unfit = {}
  /\ pc = [p \in Processes |-> "idle"]
  /\ creates = [p \in Processes |-> FALSE]
  /\ todo = [p \in Processes |-> {}]
  /\ target = [p \in Processes |-> NULL]
  /\ open = {} /\ lock = NULL
  /\ view = [p \in Processes |-> <<>>]
  /\ saw = [p \in Processes |-> <<>>]

Goto(p, phase) == pc' = [pc EXCEPT ![p] = phase]

\* The call is over, and its locals are gone.
Leave(p) ==
  /\ Goto(p, "idle")
  /\ creates' = [creates EXCEPT ![p] = FALSE]
  /\ todo' = [todo EXCEPT ![p] = {}]
  /\ target' = [target EXCEPT ![p] = NULL]
  /\ view' = [view EXCEPT ![p] = <<>>]

-----------------------------------------------------------------------------
(* The directory and its old ledgers *)

Call(p) ==
  /\ pc[p] = "idle"
  /\ Len(Ledger) < MaxLog
  /\ Goto(p, "entering")
  /\ \E c \in BOOLEAN : creates' = [creates EXCEPT ![p] = c]
  /\ UNCHANGED <<boot, directory, files, unfit, sweep, sqlite, saw>>

\* Mutant of YieldNone: the view takes None for a journal.
YieldNoJournal(p) ==
  /\ saw' = [saw EXCEPT ![p] = NULL]
  /\ Leave(p)

\* transaction() yields None: there is no ledger to view.
YieldNone(p) ==
  /\ saw' = [saw EXCEPT ![p] = <<>>]
  /\ Leave(p)

\* Mutant of Enter: a view makes the directory, too.
EnterMaking(p) ==
  /\ pc[p] = "entering"
  /\ directory' = IF directory = "absent" THEN "fit" ELSE directory
  /\ \/ directory = "unfit" /\ Goto(p, "refused") /\ UNCHANGED locals
     \/ directory = "orphan" /\ creates[p] /\ Goto(p, "refused") /\ UNCHANGED locals
     \/ directory = "orphan" /\ ~ creates[p] /\ YieldNone(p)
     \/ directory' = "fit" /\ Goto(p, IF creates[p] THEN "listing" ELSE "looking") /\ UNCHANGED locals
  /\ UNCHANGED <<boot, files, unfit, open, lock>>

\* _private_directory(): mkdir() takes no missing parents along.
Enter(p) ==
  /\ pc[p] = "entering"
  /\ directory' = IF creates[p] /\ directory = "absent" THEN "fit" ELSE directory
  /\ \/ directory = "unfit" /\ Goto(p, "refused") /\ UNCHANGED locals
     \/ directory = "orphan" /\ creates[p] /\ Goto(p, "refused") /\ UNCHANGED locals
     \/ directory' \in {"orphan", "absent"} /\ ~ creates[p] /\ YieldNone(p)
     \/ directory' = "fit" /\ Goto(p, IF creates[p] THEN "listing" ELSE "looking") /\ UNCHANGED locals
  /\ UNCHANGED <<boot, files, unfit, open, lock>>

Look(p) ==
  /\ pc[p] = "looking"
  /\ \/ main[boot] = NULL /\ YieldNone(p)
     \/ main[boot] # NULL /\ Goto(p, "confirming") /\ UNCHANGED locals
  /\ UNCHANGED <<boot, directory, files, unfit, open, lock>>

\* Mutant of List: spares the database of this boot and not its sidecars.
ListSidecars(p) ==
  /\ pc[p] = "listing"
  /\ todo' = [todo EXCEPT ![p] = {f \in Names : Exists(f) /\ f # <<boot, "main">>}]
  /\ Goto(p, "sweeping")
  /\ UNCHANGED <<boot, directory, files, unfit, creates, target, sqlite, saw>>

\* iterdir(): a list, of which those that start with path.name are spared.
List(p) ==
  /\ pc[p] = "listing"
  /\ todo' = [todo EXCEPT ![p] = {f \in Names : Exists(f) /\ f[1] # boot}]
  /\ Goto(p, "sweeping")
  /\ UNCHANGED <<boot, directory, files, unfit, creates, target, sqlite, saw>>

\* Mutant of Inspect: a file that somebody else has removed is not in order.
InspectStrictly(p) ==
  /\ pc[p] = "sweeping"
  /\ \E f \in todo[p] :
       /\ todo' = [todo EXCEPT ![p] = @ \ {f}]
       /\ target' = [target EXCEPT ![p] = f]
       /\ Goto(p, IF Exists(f) /\ f \notin unfit THEN "unlinking" ELSE "refused")
  /\ UNCHANGED <<boot, directory, files, unfit, creates, sqlite, saw>>

\* _private_file(previous), in the order of the list
Inspect(p) ==
  /\ pc[p] = "sweeping"
  /\ \E f \in todo[p] :
       /\ todo' = [todo EXCEPT ![p] = @ \ {f}]
       /\ target' = [target EXCEPT ![p] = f]
       /\ Goto(p, IF Exists(f) /\ f \in unfit THEN "refused" ELSE "unlinking")
  /\ UNCHANGED <<boot, directory, files, unfit, creates, sqlite, saw>>

Remove(f) ==
  /\ main' = IF f[2] = "main" THEN [main EXCEPT ![f[1]] = NULL] ELSE main
  /\ wal' = IF f[2] = "wal" THEN [wal EXCEPT ![f[1]] = NULL] ELSE wal
  /\ unfit' = unfit \ {f}

\* Mutant of Unlink: leaves the loop after the first file.
UnlinkOne(p) ==
  /\ pc[p] = "unlinking"
  /\ Remove(target[p])
  /\ Goto(p, "creating")
  /\ UNCHANGED <<boot, directory, creates, sweep, sqlite, saw>>

\* unlink(missing_ok=True)
Unlink(p) ==
  /\ pc[p] = "unlinking"
  /\ Remove(target[p])
  /\ Goto(p, "sweeping")
  /\ UNCHANGED <<boot, directory, creates, sweep, sqlite, saw>>

Swept(p) ==
  /\ pc[p] = "sweeping" /\ todo[p] = {}
  /\ Goto(p, "creating")
  /\ UNCHANGED <<boot, directory, files, unfit, creates, sweep, sqlite, saw>>

-----------------------------------------------------------------------------
(* The ledger of this boot *)

\* FileExistsError is no error.
Create(p) ==
  /\ pc[p] = "creating"
  /\ main' = [main EXCEPT ![boot] = IF @ = NULL THEN <<>> ELSE @]
  /\ Goto(p, "confirming")
  /\ UNCHANGED <<boot, directory, wal, unfit, creates, sweep, sqlite, saw>>

\* A database that is missing after its creation is an error; a missing
\* sidecar is none, nor is, so far, the database that a view has just seen.
Confirm(p) ==
  /\ pc[p] = "confirming"
  /\ LET spoilt == \E f \in Names : f[1] = boot /\ Exists(f) /\ f \in unfit
         vanished == creates[p] /\ main[boot] = NULL
     IN  Goto(p, IF spoilt \/ vanished THEN "refused" ELSE "opening")
  /\ UNCHANGED <<boot, directory, files, unfit, creates, sweep, sqlite, saw>>

\* sqlite3.connect(mode=rw) does not create.
Connect(p) ==
  /\ pc[p] = "opening"
  /\ \/ main[boot] = NULL /\ Goto(p, "failed") /\ UNCHANGED open
     \/ main[boot] # NULL /\ Goto(p, "waiting") /\ open' = open \cup {p}
  /\ UNCHANGED <<boot, directory, files, unfit, creates, sweep, lock, view, saw>>

\* Mutant of Begin: no transaction, or one that does not lock.
BeginDeferred(p) ==
  /\ pc[p] = "waiting"
  /\ lock' = p
  /\ view' = [view EXCEPT ![p] = Ledger]
  /\ Goto(p, "body")
  /\ UNCHANGED <<boot, directory, files, unfit, creates, sweep, open, saw>>

\* BEGIN IMMEDIATE; the schema is made if it is not there.
Begin(p) ==
  /\ pc[p] = "waiting" /\ lock = NULL
  /\ lock' = p
  /\ view' = [view EXCEPT ![p] = Ledger]
  /\ Goto(p, "body")
  /\ UNCHANGED <<boot, directory, files, unfit, creates, sweep, open, saw>>

\* The busy timeout: another transaction had the lock all the time.
Busy(p) ==
  /\ pc[p] = "waiting" /\ lock # NULL
  /\ Goto(p, "failed")
  /\ UNCHANGED <<boot, directory, files, unfit, creates, sweep, sqlite, saw>>

Commit(p) ==
  /\ pc[p] = "body"
  /\ wal' = [wal EXCEPT ![boot] = Append(view[p], p)]
  /\ saw' = [saw EXCEPT ![p] = view[p]]
  /\ lock' = NULL
  /\ Goto(p, "committed")
  /\ UNCHANGED <<boot, directory, main, unfit, creates, sweep, open, view>>

\* OSError, sqlite3.Error, or whatever the body raises.
Fault(p) ==
  /\ pc[p] \notin {"idle", "committed", "refused", "failed"}
  /\ Goto(p, "failed")
  /\ UNCHANGED <<boot, directory, files, unfit, creates, sweep, sqlite, saw>>

\* SQLite empties the write-ahead log when its last connection closes.
Disconnect(p) ==
  /\ open' = open \ {p}
  /\ lock' = IF lock = p THEN NULL ELSE lock
  /\ IF open = {p} /\ wal[boot] # NULL
     THEN /\ main' = [main EXCEPT ![boot] = wal[boot]]
          /\ wal' = [wal EXCEPT ![boot] = NULL]
     ELSE UNCHANGED files

\* Mutant of Close: closes after a commit, not in a finally.
CloseCommitted(p) ==
  /\ \/ pc[p] = "committed" /\ Disconnect(p)
     \/ pc[p] \in {"refused", "failed"} /\ UNCHANGED <<open, lock, files>>
  /\ Leave(p)
  /\ UNCHANGED <<boot, directory, unfit, saw>>

\* The finally: a transaction that was not committed leaves nothing.
Close(p) ==
  /\ pc[p] \in {"committed", "refused", "failed"}
  /\ Disconnect(p)
  /\ Leave(p)
  /\ UNCHANGED <<boot, directory, unfit, saw>>

-----------------------------------------------------------------------------
(* What happens to processes, files and the host *)

\* The process dies, its locks with it; another takes its place.
Crash(p) ==
  /\ pc[p] # "idle"
  /\ Leave(p)
  /\ open' = open \ {p}
  /\ lock' = IF lock = p THEN NULL ELSE lock
  /\ UNCHANGED <<boot, directory, files, unfit, saw>>

\* Nobody survives; the directory does unless it is on a temporary filesystem.
Reboot ==
  /\ boot < MaxBoot
  /\ boot' = boot + 1
  /\ \/ UNCHANGED <<directory, files, unfit>>
     \/ /\ directory' = IF directory = "orphan" THEN "orphan" ELSE "absent"
        /\ main' = [b \in Boots |-> NULL]
        /\ wal' = [b \in Boots |-> NULL]
        /\ unfit' = {}
  /\ pc' = [p \in Processes |-> "idle"]
  /\ creates' = [p \in Processes |-> FALSE]
  /\ todo' = [p \in Processes |-> {}]
  /\ target' = [p \in Processes |-> NULL]
  /\ open' = {} /\ lock' = NULL
  /\ view' = [p \in Processes |-> <<>>]
  /\ saw' = [p \in Processes |-> <<>>]

Spoil(f) ==
  /\ Exists(f) /\ f \notin unfit
  /\ unfit' = unfit \cup {f}
  /\ UNCHANGED <<boot, directory, files, pc, creates, sweep, sqlite, saw>>

Step(p) ==
  \/ Enter(p) \/ Look(p) \/ List(p) \/ Inspect(p) \/ Unlink(p) \/ Swept(p) \/ Create(p)
  \/ Confirm(p) \/ Connect(p) \/ Begin(p) \/ Busy(p) \/ Commit(p) \/ Close(p)

Next ==
  \/ \E p \in Processes : Step(p) \/ Call(p) \/ Fault(p) \/ Crash(p)
  \/ \E f \in Spoilable \cap Names : Spoil(f)
  \/ Reboot

Spec == Init /\ [][Next]_vars

\* A process in a call keeps running; bodies are short and do no I/O.
FairSpec == Spec /\ \A p \in Processes : WF_vars(Step(p))

-----------------------------------------------------------------------------
(* Properties *)

\* What Admission builds on: the ledger of a boot begins empty, and every
\* transaction sees all those that were committed before it and loses none,
\* whoever sweeps, creates, closes or dies meanwhile.
Promised == INSTANCE Journal WITH Clients <- Processes, log <- Ledger, seen <- saw
KeepsJournal == Promised!Spec

\* README.md: "new requests remove prior-boot ledger files", before any
\* transaction of theirs, also when several sweep at once.
SweptBeforeUse ==
  \A p \in Processes :
    pc[p] = "body" /\ creates[p] => \A f \in Names : f[1] < boot => ~ Exists(f)

Refuses(p) == pc[p] # "refused" /\ pc'[p] = "refused"
HasCause == directory # "fit" \/ \E f \in unfit : Exists(f)
Finds(p) == Connect(p) => pc'[p] = "waiting"

\* No call is refused for what other callers do while they start, sweep and
\* create: a refusal has its cause in the directory or in a spoilt file, and
\* the database that a call has created or seen is there when it connects.
\* One caller makes another fail by the busy timeout only.
FailsForCause ==
  [][\A p \in Processes : (Refuses(p) => HasCause) /\ Finds(p)]_vars

OnlyViews == \A p \in Processes : pc[p] # "idle" => ~ creates[p]
NothingCreated ==
  /\ directory' # directory => boot' # boot
  /\ \A b \in Boots : main[b] = NULL => main'[b] = NULL

\* test_runtime.py: "empty_view_do_not_create_state".  While views alone
\* run, no directory and no ledger appears.
ViewsCreateNothing == [][OnlyViews => NothingCreated]_vars

\* Neither a failure nor a death keeps the write lock.
LockIsFreed == \A p \in Processes : lock = p ~> lock # p
=============================================================================
