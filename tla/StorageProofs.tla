--------------------------- MODULE StorageProofs ----------------------------
(***************************************************************************)
(* Proofs about Storage, for any processes and any number of boots and     *)
(* transactions: an inductive invariant, what it says of the sweep, and    *)
(* that the files implement the journal of Journal.                        *)
(***************************************************************************)
EXTENDS Storage, TLAPS

-----------------------------------------------------------------------------
(* The inductive invariant *)

\* Later boots have no files yet; this one's log has a database beside it;
\* and both are in a directory that exists.
FilesInv ==
  /\ \A b \in Boots : b > boot => main[b] = NULL /\ wal[b] = NULL
  /\ main[boot] = NULL => wal[boot] = NULL
  /\ directory \in {"orphan", "absent"} => main[boot] = NULL

Sweeping == {"listing", "sweeping", "unlinking", "creating"}
Using == {"waiting", "body"}
Arrived == Sweeping \cup Using \cup {"looking", "confirming", "opening"}

\* Who sweeps has come to create, and found the directory in order; whoever
\* created the database or opened it can rely on it.
PlaceInv(p) ==
  /\ pc[p] \in Sweeping => creates[p]
  /\ pc[p] \in Arrived => directory = "fit"
  /\ pc[p] \in Using => main[boot] # NULL
  /\ pc[p] \in {"confirming", "opening"} => main[boot] # NULL

\* The one that has the lock has the whole journal in view.
LockInv(p) == pc[p] = "body" => lock = p /\ view[p] = Ledger

\* What a sweep has yet to remove.
Left(p) ==
  IF pc[p] = "sweeping" THEN todo[p]
  ELSE IF pc[p] = "unlinking" THEN todo[p] \cup {target[p]} ELSE {}

\* A sweep removes nothing of this boot, and leaves nothing of earlier ones.
SweepInv(p) ==
  /\ \A f \in todo[p] : f[1] # boot
  /\ pc[p] = "unlinking" => target[p] \in Names /\ target[p][1] # boot
  /\ creates[p] /\ pc[p] \in Arrived \ {"listing"} =>
       \A f \in Names : f[1] < boot /\ Exists(f) => f \in Left(p)

Inv ==
  /\ TypeOK
  /\ FilesInv
  /\ \A p \in Processes : PlaceInv(p) /\ LockInv(p) /\ SweepInv(p)

\* Nothing has been stored or started at first.
LEMMA InitInv == Init => Inv
<1> USE StorageAssumption
<1> SUFFICES ASSUME Init PROVE Inv
  OBVIOUS
<1>1. TypeOK
  BY DEF Init, TypeOK, Boots, Names
<1>2. FilesInv
  BY DEF Init, FilesInv, Boots
<1>3. \A p \in Processes : PlaceInv(p) /\ LockInv(p) /\ SweepInv(p)
  BY DEF Init, PlaceInv, LockInv, SweepInv, Sweeping, Using, Arrived
<1> QED
  BY <1>1, <1>2, <1>3 DEF Inv

-----------------------------------------------------------------------------
(* What a step leaves alone *)

\* Steps of the host apart, the directory stays fit, the database of this
\* boot stays, its journal changes by a commit only, and no file of an
\* earlier boot appears.
Calm ==
  /\ boot' = boot
  /\ directory = "fit" => directory' = "fit"
  /\ main[boot] # NULL => main'[boot] # NULL
  /\ \A f \in Names : f[1] < boot /\ Exists(f)' => Exists(f)

\* A caller that does not move keeps its part of the invariant.
LEMMA Bystander ==
  ASSUME Inv, Calm, NEW p \in Processes,
         pc'[p] = pc[p], creates'[p] = creates[p], todo'[p] = todo[p],
         target'[p] = target[p], view'[p] = view[p],
         pc[p] = "body" => lock' = lock /\ Ledger' = Ledger
  PROVE  PlaceInv(p)' /\ LockInv(p)' /\ SweepInv(p)'
<1>1. PlaceInv(p) /\ LockInv(p) /\ SweepInv(p)
  BY DEF Inv
<1>2. PlaceInv(p)'
  BY <1>1 DEF Calm, PlaceInv
<1>3. LockInv(p)'
  BY <1>1 DEF LockInv
<1>4. SweepInv(p)'
  <2>1. Left(p)' = Left(p)
    BY DEF Left
  <2> QED
    BY <1>1, <2>1 DEF Calm, SweepInv
<1> QED
  BY <1>2, <1>3, <1>4

\* A caller that has left has no part to keep.
LEMMA Gone ==
  ASSUME NEW p \in Processes, pc'[p] \in {"idle", "entering", "committed", "refused", "failed"},
         \A f \in todo'[p] : f[1] # boot'
  PROVE  PlaceInv(p)' /\ LockInv(p)' /\ SweepInv(p)'
BY DEF PlaceInv, LockInv, SweepInv, Sweeping, Using, Arrived

\* A step that touches no file.
LEMMA Untouched ==
  ASSUME Inv, UNCHANGED <<boot, directory, files>>
  PROVE  FilesInv' /\ Calm /\ Ledger' = Ledger
<1>1. FilesInv'
  BY DEF Inv, FilesInv, files
<1>2. Ledger' = Ledger
  BY DEF Ledger, files
<1>3. Calm
  BY DEF Calm, Exists, Content, files
<1> QED
  BY <1>1, <1>2, <1>3

\* The journal is one.
LEMMA LedgerType == TypeOK => Ledger \in Seq(Processes)
BY StorageAssumption DEF TypeOK, Ledger, Boots

\* The other callers do not move, and whoever has the lock still has it, and
\* the journal in view.
Alone(p) ==
  \A q \in Processes \ {p} :
    /\ pc'[q] = pc[q] /\ creates'[q] = creates[q] /\ view'[q] = view[q]
    /\ todo'[q] = todo[q] /\ target'[q] = target[q]
    /\ pc[q] = "body" => lock' = lock /\ Ledger' = Ledger

\* A step of one caller keeps the invariant when it keeps that caller's part.
LEMMA Moved ==
  ASSUME Inv, NEW p \in Processes, TypeOK', FilesInv', Calm, Alone(p),
         PlaceInv(p)', LockInv(p)', SweepInv(p)'
  PROVE  Inv'
<1>1. ASSUME NEW q \in Processes \ {p} PROVE PlaceInv(q)' /\ LockInv(q)' /\ SweepInv(q)'
  BY Bystander DEF Alone
<1> QED
  BY <1>1 DEF Inv

-----------------------------------------------------------------------------
(* Steps that touch no file *)

Phases ==
  {"idle", "entering", "looking", "listing", "sweeping", "unlinking", "creating",
   "confirming", "opening", "waiting", "body", "committed", "refused", "failed"}

\* The types of what belongs to the callers.
LocalsType ==
  /\ pc \in [Processes -> Phases]
  /\ creates \in [Processes -> BOOLEAN]
  /\ todo \in [Processes -> SUBSET Names]
  /\ target \in [Processes -> Names \cup {NULL}]
  /\ view \in [Processes -> Seq(Processes)]

\* A call that is over has no locals, and nobody else's change.
LEMMA Leaving ==
  ASSUME TypeOK, NEW p \in Processes, Leave(p)
  PROVE  /\ LocalsType'
         /\ pc'[p] = "idle" /\ todo'[p] = {}
         /\ \A q \in Processes \ {p} :
              /\ pc'[q] = pc[q] /\ creates'[q] = creates[q] /\ view'[q] = view[q]
              /\ todo'[q] = todo[q] /\ target'[q] = target[q]
<1>1. LocalsType
  BY DEF TypeOK, LocalsType, Phases
<1>2. <<>> \in Seq(Processes)
  OBVIOUS
<1> QED
  BY <1>1, <1>2 DEF LocalsType, Leave, Goto, Phases

\* A call begins with nothing in hand.
LEMMA CallInv ==
  ASSUME Inv, NEW p \in Processes, Call(p)
  PROVE  Inv'
<1>1. TypeOK'
  BY DEF Inv, TypeOK, Call, Goto, sweep, files, sqlite
<1>2. FilesInv' /\ Calm /\ Ledger' = Ledger
  BY Untouched DEF Call
<1>3. Alone(p) /\ pc'[p] = "entering" /\ todo'[p] = todo[p] /\ boot' = boot
  BY <1>2 DEF Inv, TypeOK, Call, Goto, Alone, sweep, sqlite
<1>4. SweepInv(p)
  BY DEF Inv
<1> QED
  BY <1>1, <1>2, <1>3, <1>4, Gone, Moved DEF SweepInv

\* A view that finds nothing.
LEMMA NoneInv ==
  ASSUME Inv, NEW p \in Processes, YieldNone(p),
         UNCHANGED <<boot, directory, files, unfit, open, lock>>
  PROVE  Inv'
<1>1. FilesInv' /\ Calm /\ Ledger' = Ledger
  BY Untouched
<1>2. TypeOK /\ Leave(p) /\ saw' = [saw EXCEPT ![p] = <<>>]
  BY DEF Inv, YieldNone
<1>3. LocalsType'
  BY <1>2, Leaving
<1>4. saw' \in [Processes -> Seq(Processes)]
  <2>1. <<>> \in Seq(Processes)
    OBVIOUS
  <2> QED
    BY <1>2, <2>1 DEF TypeOK
<1>5. TypeOK'
  BY <1>2, <1>3, <1>4 DEF TypeOK, LocalsType, Phases, files
<1>6. Alone(p) /\ pc'[p] = "idle" /\ todo'[p] = {}
  BY <1>1, <1>2, Leaving DEF Alone
<1> QED
  BY <1>1, <1>5, <1>6, Gone, Moved

\* A view that has seen the database goes on to confirm it.
LEMMA LookInv ==
  ASSUME Inv, NEW p \in Processes, Look(p)
  PROVE  Inv'
<1>1. CASE main[boot] = NULL
  BY <1>1, NoneInv DEF Look
<1>2. CASE main[boot] # NULL
  <2>1. /\ pc[p] = "looking" /\ pc' = [pc EXCEPT ![p] = "confirming"]
        /\ UNCHANGED <<boot, directory, files, unfit, open, lock, creates, sweep, view, saw>>
    BY <1>2 DEF Look, Goto, locals
  <2>2. TypeOK' /\ pc'[p] = "confirming"
    BY <2>1 DEF Inv, TypeOK, files, sweep
  <2>3. FilesInv' /\ Calm /\ Ledger' = Ledger
    BY <2>1, Untouched
  <2>4. Alone(p)
    BY <2>1, <2>3 DEF Inv, TypeOK, Alone, sweep
  <2>5. PlaceInv(p) /\ SweepInv(p)
    BY DEF Inv
  <2>6. PlaceInv(p)' /\ LockInv(p)'
    BY <1>2, <2>1, <2>2, <2>5 DEF PlaceInv, LockInv, files, Sweeping, Using, Arrived
  <2>7. SweepInv(p)'
    BY <2>1, <2>2, <2>3, <2>5 DEF Calm, SweepInv, Left, Arrived, Sweeping, Using, sweep
  <2> QED
    BY <2>2, <2>3, <2>4, <2>6, <2>7, Moved
<1> QED
  BY <1>1, <1>2

\* The sweep has come to the end of its list.
LEMMA SweptInv ==
  ASSUME Inv, NEW p \in Processes, Swept(p)
  PROVE  Inv'
<1>1. TypeOK'
  BY DEF Inv, TypeOK, Swept, Goto, files, sweep, sqlite
<1>2. FilesInv' /\ Calm /\ Ledger' = Ledger
  BY Untouched DEF Swept
<1>3. Alone(p)
  BY <1>2 DEF Inv, TypeOK, Swept, Goto, Alone, sweep, sqlite
<1>4. PlaceInv(p) /\ LockInv(p) /\ SweepInv(p) /\ TypeOK
  BY DEF Inv
<1>5. PlaceInv(p)' /\ LockInv(p)'
  BY <1>4 DEF TypeOK, Swept, Goto, PlaceInv, LockInv, Sweeping, Using, Arrived, files
<1>6. SweepInv(p)'
  BY <1>2, <1>4 DEF TypeOK, Swept, Goto, Calm, SweepInv, Left, Sweeping, Using, Arrived, sweep
<1> QED
  BY <1>1, <1>2, <1>3, <1>5, <1>6, Moved

\* The files of this boot are looked at.
LEMMA ConfirmInv ==
  ASSUME Inv, NEW p \in Processes, Confirm(p)
  PROVE  Inv'
<1>1. TypeOK'
  BY DEF Inv, TypeOK, Confirm, Goto, files, sweep, sqlite
<1>2. FilesInv' /\ Calm /\ Ledger' = Ledger
  BY Untouched DEF Confirm
<1>3. Alone(p)
  BY <1>2 DEF Inv, TypeOK, Confirm, Goto, Alone, sweep, sqlite
<1>4. PlaceInv(p) /\ LockInv(p) /\ SweepInv(p) /\ TypeOK
  BY DEF Inv
<1>5. PlaceInv(p)' /\ LockInv(p)'
  BY <1>4 DEF TypeOK, Confirm, Goto, PlaceInv, LockInv, Sweeping, Using, Arrived, files
<1>6. SweepInv(p)'
  BY <1>2, <1>4 DEF TypeOK, Confirm, Goto, Calm, SweepInv, Left, Sweeping, Using, Arrived, sweep
<1> QED
  BY <1>1, <1>2, <1>3, <1>5, <1>6, Moved

\* What connects has a database.
LEMMA ConnectInv ==
  ASSUME Inv, NEW p \in Processes, Connect(p)
  PROVE  Inv'
<1>1. TypeOK'
  BY DEF Inv, TypeOK, Connect, Goto, files, sweep, sqlite
<1>2. FilesInv' /\ Calm /\ Ledger' = Ledger
  BY Untouched DEF Connect
<1>3. Alone(p)
  BY <1>2 DEF Inv, TypeOK, Connect, Goto, Alone, sweep, sqlite
<1>4. PlaceInv(p) /\ LockInv(p) /\ SweepInv(p) /\ TypeOK
  BY DEF Inv
<1>5. PlaceInv(p)' /\ LockInv(p)'
  BY <1>4 DEF TypeOK, Connect, Goto, PlaceInv, LockInv, Sweeping, Using, Arrived, files
<1>6. SweepInv(p)'
  BY <1>2, <1>4 DEF TypeOK, Connect, Goto, Calm, SweepInv, Left, Sweeping, Using, Arrived, sweep
<1> QED
  BY <1>1, <1>2, <1>3, <1>5, <1>6, Moved

\* Giving up on the lock.
LEMMA BusyInv ==
  ASSUME Inv, NEW p \in Processes, Busy(p)
  PROVE  Inv'
<1>1. TypeOK'
  BY DEF Inv, TypeOK, Busy, Goto, files, sweep, sqlite
<1>2. FilesInv' /\ Calm /\ Ledger' = Ledger
  BY Untouched DEF Busy
<1>3. Alone(p)
  BY <1>2 DEF Inv, TypeOK, Busy, Goto, Alone, sweep, sqlite
<1>4. PlaceInv(p) /\ LockInv(p) /\ SweepInv(p) /\ TypeOK
  BY DEF Inv
<1>5. PlaceInv(p)' /\ LockInv(p)'
  BY <1>4 DEF TypeOK, Busy, Goto, PlaceInv, LockInv, Sweeping, Using, Arrived, files
<1>6. SweepInv(p)'
  BY <1>2, <1>4 DEF TypeOK, Busy, Goto, Calm, SweepInv, Left, Sweeping, Using, Arrived, sweep
<1> QED
  BY <1>1, <1>2, <1>3, <1>5, <1>6, Moved

\* A fault at any point.
LEMMA FaultInv ==
  ASSUME Inv, NEW p \in Processes, Fault(p)
  PROVE  Inv'
<1>1. TypeOK'
  BY DEF Inv, TypeOK, Fault, Goto, files, sweep, sqlite
<1>2. FilesInv' /\ Calm /\ Ledger' = Ledger
  BY Untouched DEF Fault
<1>3. Alone(p)
  BY <1>2 DEF Inv, TypeOK, Fault, Goto, Alone, sweep, sqlite
<1>4. PlaceInv(p) /\ LockInv(p) /\ SweepInv(p) /\ TypeOK
  BY DEF Inv
<1>5. PlaceInv(p)' /\ LockInv(p)'
  BY <1>4 DEF TypeOK, Fault, Goto, PlaceInv, LockInv, Sweeping, Using, Arrived, files
<1>6. SweepInv(p)'
  BY <1>2, <1>4 DEF TypeOK, Fault, Goto, Calm, SweepInv, Left, Sweeping, Using, Arrived, sweep
<1> QED
  BY <1>1, <1>2, <1>3, <1>5, <1>6, Moved

\* The list has all the files of earlier boots, and none of this one.
LEMMA ListInv ==
  ASSUME Inv, NEW p \in Processes, List(p)
  PROVE  Inv'
<1>1. TypeOK'
  BY DEF Inv, TypeOK, List, Goto, files, sweep, sqlite
<1>2. FilesInv' /\ Calm /\ Ledger' = Ledger
  BY Untouched DEF List
<1>3. Alone(p)
  BY <1>2 DEF Inv, TypeOK, List, Goto, Alone, sweep, sqlite
<1>4. PlaceInv(p) /\ LockInv(p) /\ SweepInv(p) /\ TypeOK
  BY DEF Inv
<1>5. PlaceInv(p)' /\ LockInv(p)'
  BY <1>4 DEF TypeOK, List, Goto, PlaceInv, LockInv, Sweeping, Using, Arrived, files
<1>6. SweepInv(p)'
  <2>1. /\ pc'[p] = "sweeping" /\ boot' = boot
        /\ todo'[p] = {f \in Names : Exists(f) /\ f[1] # boot}
    BY <1>4 DEF TypeOK, List, Goto
  <2>2. \A f \in Names : f[1] < boot => f[1] # boot
    BY <1>4, StorageAssumption DEF TypeOK, Names, Boots
  <2> QED
    BY <1>2, <2>1, <2>2 DEF Calm, SweepInv, Left
<1> QED
  BY <1>1, <1>2, <1>3, <1>5, <1>6, Moved

\* The file that is looked at is still to be removed.
LEMMA InspectInv ==
  ASSUME Inv, NEW p \in Processes, Inspect(p)
  PROVE  Inv'
<1>1. TypeOK'
  BY DEF Inv, TypeOK, Inspect, Goto, files, sweep, sqlite
<1>2. FilesInv' /\ Calm /\ Ledger' = Ledger
  BY Untouched DEF Inspect
<1>3. Alone(p)
  BY <1>2 DEF Inv, TypeOK, Inspect, Goto, Alone, sweep, sqlite
<1>4. PlaceInv(p) /\ LockInv(p) /\ SweepInv(p) /\ TypeOK
  BY DEF Inv
<1>5. PlaceInv(p)' /\ LockInv(p)'
  BY <1>4 DEF TypeOK, Inspect, Goto, PlaceInv, LockInv, Sweeping, Using, Arrived, files
<1>6. SweepInv(p)'
  <2>1. PICK f \in todo[p] :
          /\ todo' = [todo EXCEPT ![p] = @ \ {f}]
          /\ target' = [target EXCEPT ![p] = f]
          /\ Goto(p, IF Exists(f) /\ f \in unfit THEN "refused" ELSE "unlinking")
    BY DEF Inspect
  <2>2. /\ pc[p] = "sweeping" /\ f \in Names /\ f[1] # boot /\ boot' = boot /\ creates' = creates
        /\ pc'[p] \in {"refused", "unlinking"}
        /\ target'[p] = f /\ todo'[p] = todo[p] \ {f}
    BY <1>4, <2>1 DEF TypeOK, Inspect, Goto, SweepInv
  <2>3. \A g \in Names : g[1] < boot /\ Exists(g) /\ creates[p] => g \in todo[p]
    BY <1>4, <2>2 DEF SweepInv, Left, Arrived, Sweeping, Using
  <2> QED
    BY <1>2, <1>4, <2>2, <2>3 DEF Calm, SweepInv, Left, Sweeping, Using, Arrived
<1> QED
  BY <1>1, <1>2, <1>3, <1>5, <1>6, Moved

\* The lock is free, so nobody else is at a yield; the view is the journal.
LEMMA BeginInv ==
  ASSUME Inv, NEW p \in Processes, Begin(p)
  PROVE  Inv'
<1> USE StorageAssumption
<1>1. PlaceInv(p) /\ SweepInv(p) /\ TypeOK /\ Ledger \in Seq(Processes)
  BY LedgerType DEF Inv
<1>2. /\ pc[p] = "waiting" /\ lock = NULL /\ lock' = p
      /\ view' = [view EXCEPT ![p] = Ledger]
      /\ pc' = [pc EXCEPT ![p] = "body"]
      /\ UNCHANGED <<boot, directory, main, wal, unfit, creates, todo, target, open, saw>>
  BY DEF Begin, Goto, files, sweep
<1>3. TypeOK' /\ pc'[p] = "body" /\ view'[p] = Ledger
  BY <1>1, <1>2 DEF TypeOK
<1>4. FilesInv' /\ Calm /\ Ledger' = Ledger
  BY <1>2, Untouched DEF files
<1>5. Alone(p)
  <2>1. ASSUME NEW q \in Processes PROVE pc[q] # "body"
    BY <1>2 DEF Inv, LockInv
  <2> QED
    BY <1>1, <1>2, <2>1 DEF TypeOK, Alone
<1>6. PlaceInv(p)' /\ LockInv(p)'
  BY <1>1, <1>2, <1>3, <1>4 DEF PlaceInv, LockInv, Sweeping, Using, Arrived
<1>7. SweepInv(p)'
  BY <1>1, <1>2, <1>3, <1>4 DEF Calm, SweepInv, Left, Sweeping, Using, Arrived
<1> QED
  BY <1>3, <1>4, <1>5, <1>6, <1>7, Moved

\* A file is spoilt: the callers find out later.
LEMMA SpoilInv ==
  ASSUME Inv, NEW f \in Names, Spoil(f)
  PROVE  Inv'
<1>1. TypeOK'
  BY DEF Inv, TypeOK, Spoil, files, sweep, sqlite
<1>2. FilesInv' /\ Calm /\ Ledger' = Ledger
  BY Untouched DEF Spoil
<1>3. ASSUME NEW q \in Processes PROVE PlaceInv(q)' /\ LockInv(q)' /\ SweepInv(q)'
  BY <1>2, Bystander DEF Spoil, sweep, sqlite
<1> QED
  BY <1>1, <1>2, <1>3 DEF Inv

\* A crash frees the lock of the one that had it.
LEMMA CrashInv ==
  ASSUME Inv, NEW p \in Processes, Crash(p)
  PROVE  Inv'
<1> USE StorageAssumption
<1>1. TypeOK /\ Leave(p) /\ UNCHANGED <<boot, directory, files, unfit, saw>>
      /\ open' = open \ {p} /\ lock' = IF lock = p THEN NULL ELSE lock
  BY DEF Inv, Crash
<1>2. FilesInv' /\ Calm /\ Ledger' = Ledger
  BY <1>1, Untouched
<1>3. LocalsType' /\ pc'[p] = "idle" /\ todo'[p] = {}
  BY <1>1, Leaving
<1>4. TypeOK'
  BY <1>1, <1>3 DEF TypeOK, LocalsType, Phases, files
<1>5. Alone(p)
  <2>1. ASSUME NEW q \in Processes \ {p}, pc[q] = "body" PROVE lock' = lock
    BY <1>1, <2>1 DEF Inv, LockInv
  <2> QED
    BY <1>1, <1>2, <2>1, Leaving DEF Alone
<1> QED
  BY <1>2, <1>3, <1>4, <1>5, Gone, Moved

\* Nobody survives a reboot, and what survives of the files is of earlier
\* boots.
LEMMA RebootInv == Inv /\ Reboot => Inv'
<1> USE StorageAssumption
<1> SUFFICES ASSUME Inv, Reboot PROVE Inv'
  OBVIOUS
<1>1. TypeOK /\ FilesInv /\ boot' = boot + 1 /\ boot < MaxBoot /\ boot' \in Boots
  BY DEF Inv, TypeOK, Boots, Reboot
<1>2. /\ directory' \in {"orphan", "absent", "fit", "unfit"}
      /\ main' \in [Boots -> Seq(Processes) \cup {NULL}]
      /\ wal' \in [Boots -> Seq(Processes) \cup {NULL}]
      /\ unfit' \subseteq Names
  BY <1>1 DEF TypeOK, Reboot, files
<1>3. TypeOK'
  <2>1. <<>> \in Seq(Processes)
    OBVIOUS
  <2> QED
    BY <1>1, <1>2, <2>1 DEF TypeOK, Reboot
<1>4. FilesInv'
  <2>1. \A b \in Boots : b > boot => main'[b] = NULL /\ wal'[b] = NULL
    BY <1>1 DEF FilesInv, Reboot, files
  <2>2. boot \in Int /\ boot' \in Boots /\ boot' > boot /\ \A b \in Boots : b \in Int
    BY <1>1 DEF TypeOK, Boots
  <2>3. main'[boot'] = NULL /\ wal'[boot'] = NULL
    BY <2>1, <2>2
  <2>4. \A b \in Boots : b > boot' => b > boot
    BY <2>2
  <2> QED
    BY <2>1, <2>3, <2>4 DEF FilesInv
<1>5. ASSUME NEW q \in Processes PROVE PlaceInv(q)' /\ LockInv(q)' /\ SweepInv(q)'
  <2>1. pc'[q] = "idle" /\ todo'[q] = {}
    BY DEF Reboot
  <2> QED
    BY <2>1, Gone
<1> QED
  BY <1>3, <1>4, <1>5 DEF Inv

-----------------------------------------------------------------------------
(* Steps that change the directory or its files *)

\* The directory is made, found or refused.
LEMMA EnterInv ==
  ASSUME Inv, NEW p \in Processes, Enter(p)
  PROVE  Inv'
<1>1. PlaceInv(p) /\ SweepInv(p) /\ TypeOK /\ FilesInv
      /\ pc[p] = "entering" /\ UNCHANGED <<boot, files, unfit, open, lock>>
  BY DEF Inv, Enter
<1>2. CASE YieldNone(p) /\ UNCHANGED directory
  BY <1>1, <1>2, NoneInv
<1>3. ASSUME NEW phase \in {"refused", "listing", "looking"},
             Goto(p, phase), UNCHANGED locals,
             directory' = directory \/ (directory = "absent" /\ directory' = "fit"),
             phase \in {"listing", "looking"} => directory' = "fit",
             phase = "listing" => creates[p], phase = "looking" => ~ creates[p]
      PROVE  Inv'
  <2>1. pc' = [pc EXCEPT ![p] = phase] /\ UNCHANGED <<creates, todo, target, view, saw>>
    BY <1>3 DEF Goto, locals, sweep
  <2>2. TypeOK' /\ pc'[p] = phase
    BY <1>1, <1>3, <2>1 DEF TypeOK, files
  <2>3. FilesInv' /\ Calm /\ Ledger' = Ledger
    BY <1>1, <1>3, <2>1 DEF FilesInv, Calm, Ledger, Exists, Content, files
  <2>4. Alone(p)
    BY <1>1, <2>1, <2>3 DEF TypeOK, Alone
  <2>5. PlaceInv(p)' /\ LockInv(p)'
    BY <1>1, <1>3, <2>1, <2>2 DEF PlaceInv, LockInv, Sweeping, Using, Arrived
  <2>6. SweepInv(p)'
    BY <1>1, <1>3, <2>1, <2>2 DEF SweepInv, Arrived, Sweeping, Using
  <2> QED
    BY <2>2, <2>3, <2>4, <2>5, <2>6, Moved
<1>4. CASE directory = "unfit" \/ (directory = "orphan" /\ creates[p])
  <2>1. Goto(p, "refused") /\ UNCHANGED locals /\ directory' = directory
    BY <1>4 DEF Enter
  <2> QED
    BY <1>3, <2>1
<1>5. CASE directory \in {"orphan", "absent"} /\ ~ creates[p]
  BY <1>2, <1>5 DEF Enter
<1>6. CASE directory = "fit" \/ (directory = "absent" /\ creates[p])
  <2>1. Goto(p, IF creates[p] THEN "listing" ELSE "looking") /\ UNCHANGED locals
        /\ directory' = "fit"
    BY <1>6 DEF Enter
  <2>2. CASE creates[p]
    BY <1>3, <1>6, <2>1, <2>2
  <2>3. CASE ~ creates[p]
    BY <1>3, <1>6, <2>1, <2>3
  <2> QED
    BY <2>2, <2>3
<1>7. directory \in {"orphan", "absent", "fit", "unfit"}
  BY <1>1 DEF TypeOK
<1> QED
  BY <1>4, <1>5, <1>6, <1>7

\* The file that is removed is not of this boot.
LEMMA UnlinkInv ==
  ASSUME Inv, NEW p \in Processes, Unlink(p)
  PROVE  Inv'
<1> USE StorageAssumption
<1>0. PICK f : f = target[p]
  OBVIOUS
<1>1. PlaceInv(p) /\ SweepInv(p) /\ TypeOK /\ FilesInv /\ boot \in Boots
  BY DEF Inv, TypeOK
<1>2. /\ pc[p] = "unlinking" /\ pc' = [pc EXCEPT ![p] = "sweeping"]
      /\ main' = IF f[2] = "main" THEN [main EXCEPT ![f[1]] = NULL] ELSE main
      /\ wal' = IF f[2] = "wal" THEN [wal EXCEPT ![f[1]] = NULL] ELSE wal
      /\ unfit' = unfit \ {f}
      /\ UNCHANGED <<boot, directory, creates, todo, target, open, lock, view, saw>>
  BY <1>0 DEF Unlink, Remove, Goto, sweep, sqlite
<1>3. f \in Names /\ f[1] # boot /\ f[1] \in Boots /\ f[2] \in {"main", "wal"}
  BY <1>0, <1>1, <1>2 DEF SweepInv, Names
<1>4. /\ main'[boot] = main[boot] /\ wal'[boot] = wal[boot]
      /\ \A b \in Boots : main'[b] \in {main[b], NULL} /\ wal'[b] \in {wal[b], NULL}
      /\ main' \in [Boots -> Seq(Processes) \cup {NULL}]
      /\ wal' \in [Boots -> Seq(Processes) \cup {NULL}]
  BY <1>1, <1>2, <1>3 DEF TypeOK
<1>5. TypeOK' /\ pc'[p] = "sweeping"
  BY <1>1, <1>2, <1>4 DEF TypeOK
<1>6. FilesInv' /\ Ledger' = Ledger
  BY <1>1, <1>2, <1>4 DEF FilesInv, Ledger
<1>7. /\ \A g \in Names : Exists(g)' => Exists(g)
      /\ ~ Exists(f)'
  <2>1. \A g \in Names : g[1] \in Boots
    BY DEF Names
  <2>2. \A g \in Names : Exists(g)' => Exists(g)
    BY <1>4, <2>1 DEF Exists, Content
  <2>3. ~ Exists(f)'
    BY <1>1, <1>2, <1>3 DEF TypeOK, Exists, Content
  <2> QED
    BY <2>2, <2>3
<1>8. Calm
  BY <1>2, <1>4, <1>7 DEF Calm
<1>9. Alone(p)
  BY <1>1, <1>2, <1>6 DEF TypeOK, Alone
<1>10. PlaceInv(p)' /\ LockInv(p)'
  BY <1>1, <1>2, <1>5 DEF PlaceInv, LockInv, Sweeping, Using, Arrived
<1>11. SweepInv(p)'
  <2>1. /\ \A g \in todo[p] : g[1] # boot
        /\ creates[p] => \A g \in Names : g[1] < boot /\ Exists(g) => g \in todo[p] \cup {f}
    BY <1>0, <1>1, <1>2 DEF SweepInv, Left, Arrived, Sweeping
  <2>2. \A g \in Names : Exists(g)' => Exists(g) /\ g # f
    BY <1>7
  <2>3. boot' = boot /\ todo' = todo /\ creates' = creates
    BY <1>2
  <2>4. Left(p)' = todo[p]
    BY <1>5, <2>3 DEF Left
  <2> QED
    BY <1>5, <2>1, <2>2, <2>3, <2>4 DEF SweepInv
<1> QED
  BY <1>5, <1>6, <1>8, <1>9, <1>10, <1>11, Moved

\* A new database has no transactions, and there was no log without one.
LEMMA CreateInv ==
  ASSUME Inv, NEW p \in Processes, Create(p)
  PROVE  Inv'
<1> USE StorageAssumption
<1>1. PlaceInv(p) /\ SweepInv(p) /\ TypeOK /\ FilesInv /\ boot \in Boots
  BY DEF Inv, TypeOK
<1>2. /\ pc[p] = "creating" /\ pc' = [pc EXCEPT ![p] = "confirming"]
      /\ main' = [main EXCEPT ![boot] = IF @ = NULL THEN <<>> ELSE @]
      /\ UNCHANGED <<boot, directory, wal, unfit, creates, todo, target, open, lock, view, saw>>
  BY DEF Create, Goto, sweep, sqlite
<1>3. <<>> \in Seq(Processes)
  OBVIOUS
<1>4. /\ main' \in [Boots -> Seq(Processes) \cup {NULL}]
      /\ main'[boot] = (IF main[boot] = NULL THEN <<>> ELSE main[boot])
      /\ main'[boot] # NULL
      /\ \A b \in Boots \ {boot} : main'[b] = main[b]
  BY <1>1, <1>2, <1>3 DEF TypeOK
<1>5. TypeOK' /\ pc'[p] = "confirming"
  BY <1>1, <1>2, <1>4 DEF TypeOK
<1>6. boot \in Int /\ ~ (boot > boot) /\ ~ (boot < boot)
  BY <1>1 DEF Boots
<1>7. FilesInv' /\ Ledger' = Ledger
  <2>1. directory = "fit"
    BY <1>1, <1>2 DEF PlaceInv, Arrived, Sweeping
  <2>2. FilesInv'
    BY <1>1, <1>2, <1>4, <1>6, <2>1 DEF FilesInv
  <2>3. Ledger' = Ledger
    BY <1>1, <1>2, <1>4 DEF FilesInv, Ledger
  <2> QED
    BY <2>2, <2>3
<1>8. Calm
  <2>1. \A f \in Names : f[1] < boot => f[1] \in Boots \ {boot}
    BY <1>1, <1>6 DEF Names
  <2> QED
    BY <1>2, <1>4, <2>1 DEF Calm, Exists, Content
<1>9. Alone(p)
  BY <1>1, <1>2, <1>7 DEF TypeOK, Alone
<1>10. PlaceInv(p)' /\ LockInv(p)'
  BY <1>1, <1>2, <1>4, <1>5 DEF PlaceInv, LockInv, Sweeping, Using, Arrived
<1>11. SweepInv(p)'
  BY <1>1, <1>2, <1>5, <1>8 DEF Calm, SweepInv, Left, Sweeping, Using, Arrived
<1> QED
  BY <1>5, <1>7, <1>8, <1>9, <1>10, <1>11, Moved

\* The journal grows by the transaction that had it in view.
LEMMA CommitStep ==
  ASSUME Inv, NEW p \in Processes, Commit(p)
  PROVE  Inv' /\ Ledger' = Append(Ledger, p) /\ saw' = [saw EXCEPT ![p] = Ledger]
<1> USE StorageAssumption
<1>1. PlaceInv(p) /\ LockInv(p) /\ SweepInv(p) /\ TypeOK /\ FilesInv /\ boot \in Boots
  BY DEF Inv, TypeOK
<1>2. /\ pc[p] = "body" /\ pc' = [pc EXCEPT ![p] = "committed"]
      /\ wal' = [wal EXCEPT ![boot] = Append(view[p], p)]
      /\ saw' = [saw EXCEPT ![p] = view[p]]
      /\ lock' = NULL
      /\ UNCHANGED <<boot, directory, main, unfit, creates, todo, target, open, view>>
  BY DEF Commit, Goto, sweep
<1>3. lock = p /\ view[p] = Ledger /\ main[boot] # NULL
  BY <1>1, <1>2 DEF LockInv, PlaceInv, Using
<1>4. Append(view[p], p) \in Seq(Processes) /\ Append(view[p], p) # NULL
  <2>1. view[p] \in Seq(Processes)
    BY <1>1 DEF TypeOK
  <2>2. Append(view[p], p) \in Seq(Processes)
    BY <2>1
  <2> QED
    BY <2>2
<1>5. /\ wal' \in [Boots -> Seq(Processes) \cup {NULL}]
      /\ wal'[boot] = Append(view[p], p)
      /\ \A b \in Boots \ {boot} : wal'[b] = wal[b]
  BY <1>1, <1>2, <1>4 DEF TypeOK
<1>6. TypeOK' /\ pc'[p] = "committed" /\ todo'[p] = todo[p]
  BY <1>1, <1>2, <1>5 DEF TypeOK
<1>7. boot \in Int /\ ~ (boot > boot) /\ ~ (boot < boot)
  BY <1>1 DEF Boots
<1>8. FilesInv'
  BY <1>1, <1>2, <1>3, <1>5, <1>7 DEF FilesInv
<1>9. Ledger' = Append(Ledger, p)
  BY <1>2, <1>3, <1>4, <1>5 DEF Ledger
<1>10. Calm
  <2>1. \A f \in Names : f[1] < boot => f[1] \in Boots \ {boot}
    BY <1>1, <1>7 DEF Names
  <2> QED
    BY <1>2, <1>5, <2>1 DEF Calm, Exists, Content
<1>11. Alone(p)
  <2>1. ASSUME NEW q \in Processes \ {p} PROVE pc[q] # "body"
    BY <1>3 DEF Inv, LockInv
  <2> QED
    BY <1>1, <1>2, <2>1 DEF TypeOK, Alone
<1>12. \A f \in todo'[p] : f[1] # boot'
  BY <1>1, <1>2, <1>6 DEF SweepInv
<1> QED
  BY <1>2, <1>3, <1>6, <1>8, <1>9, <1>10, <1>11, <1>12, Gone, Moved

\* The last one to close moves the journal from the log to the database.
LEMMA CloseStep ==
  ASSUME Inv, NEW p \in Processes, Close(p)
  PROVE  Inv' /\ Ledger' = Ledger /\ \A b \in Boots : main[b] = NULL => main'[b] = NULL
<1> USE StorageAssumption
<1>1. TypeOK /\ FilesInv /\ boot \in Boots
  BY DEF Inv, TypeOK
<1>2. /\ pc[p] \in {"committed", "refused", "failed"} /\ Leave(p)
      /\ UNCHANGED <<boot, directory, unfit, saw>>
      /\ open' = open \ {p} /\ lock' = IF lock = p THEN NULL ELSE lock
  BY DEF Close, Disconnect
<1>3. LocalsType' /\ pc'[p] = "idle" /\ todo'[p] = {}
  BY <1>1, <1>2, Leaving
<1>4. CASE UNCHANGED files
  <2>1. main' = main /\ wal' = wal
    BY <1>4 DEF files
  <2>2. TypeOK'
    BY <1>1, <1>2, <1>3, <2>1 DEF TypeOK, LocalsType, Phases
  <2>3. FilesInv' /\ Calm /\ Ledger' = Ledger
    BY <1>2, <1>4, Untouched
  <2>4. Alone(p)
    <3>1. ASSUME NEW q \in Processes \ {p}, pc[q] = "body" PROVE lock' = lock
      BY <1>2, <3>1 DEF Inv, LockInv
    <3> QED
      BY <1>1, <1>2, <2>3, <3>1, Leaving DEF Alone
  <2> QED
    BY <1>3, <2>1, <2>2, <2>3, <2>4, Gone, Moved
<1>5. CASE /\ wal[boot] # NULL
           /\ main' = [main EXCEPT ![boot] = wal[boot]]
           /\ wal' = [wal EXCEPT ![boot] = NULL]
  <2>1. /\ main' \in [Boots -> Seq(Processes) \cup {NULL}]
        /\ wal' \in [Boots -> Seq(Processes) \cup {NULL}]
        /\ main'[boot] = wal[boot] /\ main[boot] # NULL /\ wal'[boot] = NULL
        /\ \A b \in Boots \ {boot} : main'[b] = main[b] /\ wal'[b] = wal[b]
    BY <1>1, <1>5 DEF TypeOK, FilesInv
  <2>2. TypeOK'
    BY <1>1, <1>2, <1>3, <2>1 DEF TypeOK, LocalsType, Phases
  <2>3. boot \in Int /\ ~ (boot > boot) /\ ~ (boot < boot)
    BY <1>1 DEF Boots
  <2>4. FilesInv'
    BY <1>1, <1>2, <2>1, <2>3, <1>5 DEF FilesInv
  <2>5. Ledger' = Ledger
    BY <1>2, <1>5, <2>1 DEF Ledger
  <2>6. Calm
    <3>1. \A f \in Names : f[1] < boot => f[1] \in Boots \ {boot}
      BY <1>1, <2>3 DEF Names
    <3> QED
      BY <1>2, <1>5, <2>1, <3>1 DEF Calm, Exists, Content
  <2>7. Alone(p)
    <3>1. ASSUME NEW q \in Processes \ {p}, pc[q] = "body" PROVE lock' = lock
      BY <1>2, <3>1 DEF Inv, LockInv
    <3> QED
      BY <1>1, <1>2, <2>5, <3>1, Leaving DEF Alone
  <2>8. \A b \in Boots : main[b] = NULL => main'[b] = NULL
    BY <2>1
  <2> QED
    BY <1>3, <2>2, <2>4, <2>5, <2>6, <2>7, <2>8, Gone, Moved
<1> QED
  BY <1>4, <1>5 DEF Close, Disconnect

-----------------------------------------------------------------------------
(* The invariant *)

\* The invariant is inductive.
LEMMA StepInv == Inv /\ [Next]_vars => Inv'
<1> SUFFICES ASSUME Inv, [Next]_vars PROVE Inv'
  OBVIOUS
<1>1. CASE \E p \in Processes : Step(p) \/ Call(p) \/ Fault(p) \/ Crash(p)
  BY <1>1, EnterInv, LookInv, ListInv, InspectInv, UnlinkInv, SweptInv, CreateInv, ConfirmInv,
     ConnectInv, BeginInv, BusyInv, CommitStep, CloseStep, CallInv, FaultInv, CrashInv DEF Step
<1>2. CASE \E f \in Spoilable \cap Names : Spoil(f)
  BY <1>2, SpoilInv
<1>3. CASE Reboot
  BY <1>3, RebootInv
<1>4. CASE UNCHANGED vars
  BY <1>4 DEF vars, files, sweep, sqlite, Inv, TypeOK, FilesInv, PlaceInv, LockInv, SweepInv,
     Left, Ledger, Exists, Content
<1> QED
  BY <1>1, <1>2, <1>3, <1>4 DEF Next

\* The parts of the invariant hold in every state that transaction() can
\* bring about, with any callers, faults, crashes and reboots.
THEOREM StorageInvariance == Spec => []Inv
BY InitInv, StepInv, PTL DEF Spec

\* Every variable of Storage keeps its type.
THEOREM StorageTypeCorrect == Spec => []TypeOK
<1>1. Inv => TypeOK
  BY DEF Inv
<1> QED
  BY <1>1, StorageInvariance, PTL

\* A caller that has come to create finds no file of an earlier boot at its
\* yield, however many sweep at once and whoever of them dies.
THEOREM SweptFirst == Spec => []SweptBeforeUse
<1>1. Inv => SweptBeforeUse
  BY DEF Inv, SweptBeforeUse, SweepInv, Left, Arrived, Using
<1> QED
  BY <1>1, StorageInvariance, PTL

-----------------------------------------------------------------------------
(* Implementing the journal *)

\* A call that yields None has seen the empty journal.
LEMMA NoneIsView ==
  ASSUME Inv, NEW p \in Processes, YieldNone(p), Ledger = <<>>, UNCHANGED <<boot, files>>
  PROVE  Promised!View(p)
<1>1. Ledger' = Ledger
  BY DEF Ledger, files
<1> QED
  BY <1>1 DEF YieldNone, Promised!View

\* Every step of a caller is a transaction of the journal, the view of an
\* empty one, or invisible.
LEMMA CallerStep ==
  ASSUME Inv, NEW p \in Processes, Step(p) \/ Call(p) \/ Fault(p) \/ Crash(p)
  PROVE  \/ Promised!Write(p)
         \/ Promised!View(p)
         \/ UNCHANGED <<boot, Ledger, saw>>
<1>1. FilesInv /\ SweepInv(p) /\ TypeOK
  BY DEF Inv
<1>2. CASE Commit(p)
  <2>1. boot' = boot
    BY <1>2 DEF Commit
  <2> QED
    BY <1>2, <2>1, CommitStep DEF Promised!Write
<1>3. CASE Close(p)
  BY <1>3, CloseStep DEF Close
<1>4. CASE Enter(p)
  <2>1. CASE directory \in {"orphan", "absent"} /\ ~ creates[p]
    <3>1. YieldNone(p) /\ UNCHANGED <<boot, files>>
      BY <1>4, <2>1 DEF Enter
    <3>2. Ledger = <<>>
      BY <1>1, <2>1 DEF FilesInv, Ledger
    <3> QED
      BY <3>1, <3>2, NoneIsView
  <2>2. CASE ~ (directory \in {"orphan", "absent"} /\ ~ creates[p])
    <3>1. UNCHANGED locals /\ UNCHANGED <<boot, files>>
      BY <1>4, <2>2 DEF Enter
    <3> QED
      BY <3>1 DEF locals, files, Ledger
  <2> QED
    BY <2>1, <2>2
<1>5. CASE Look(p)
  <2>1. CASE main[boot] = NULL
    <3>1. YieldNone(p) /\ UNCHANGED <<boot, files>>
      BY <1>5, <2>1 DEF Look
    <3>2. Ledger = <<>>
      BY <1>1, <2>1 DEF FilesInv, Ledger
    <3> QED
      BY <3>1, <3>2, NoneIsView
  <2>2. CASE main[boot] # NULL
    BY <1>5, <2>2 DEF Look, locals, files, Ledger
  <2> QED
    BY <2>1, <2>2
<1>6. CASE Unlink(p)
  <2>1. target[p][1] # boot
    BY <1>1, <1>6 DEF SweepInv, Unlink
  <2>2. main'[boot] = main[boot] /\ wal'[boot] = wal[boot]
    BY <1>1, <1>6, <2>1 DEF TypeOK, Unlink, Remove
  <2> QED
    BY <1>6, <2>2 DEF Unlink, Ledger
<1>7. CASE Create(p)
  <2>1. main'[boot] = (IF main[boot] = NULL THEN <<>> ELSE main[boot])
    BY <1>1, <1>7 DEF TypeOK, Create
  <2>2. <<>> # NULL
    <3>1. <<>> \in Seq(Processes)
      OBVIOUS
    <3> QED
      BY <3>1, StorageAssumption
  <2> QED
    BY <1>1, <1>7, <2>1, <2>2 DEF FilesInv, Create, Ledger
<1>8. CASE \/ List(p) \/ Inspect(p) \/ Swept(p) \/ Confirm(p) \/ Connect(p) \/ Begin(p)
           \/ Busy(p) \/ Call(p) \/ Fault(p) \/ Crash(p)
  <2>1. UNCHANGED <<boot, files, saw>>
    BY <1>8 DEF List, Inspect, Swept, Confirm, Connect, Begin, Busy, Call, Fault, Crash
  <2> QED
    BY <2>1 DEF files, Ledger
<1> QED
  BY <1>2, <1>3, <1>4, <1>5, <1>6, <1>7, <1>8 DEF Step

\* A reboot leaves no file of the new boot, hence an empty journal.
LEMMA RebootIsRestart == Inv /\ Reboot => Promised!Restart
<1> SUFFICES ASSUME Inv, Reboot PROVE Promised!Restart
  OBVIOUS
<1>1. boot' = boot + 1 /\ boot' \in Boots /\ boot' > boot
  BY StorageAssumption DEF Inv, TypeOK, Boots, Reboot
<1>2. main'[boot'] = NULL /\ wal'[boot'] = NULL
  BY <1>1 DEF Inv, FilesInv, Reboot, files
<1>3. Ledger' = <<>>
  BY <1>2 DEF Ledger
<1> QED
  BY <1>1, <1>3 DEF Reboot, Promised!Restart

\* Each step of Storage is one of Journal, or invisible to it.
LEMMA StepImplements == Inv /\ [Next]_vars => [Promised!Next]_(Promised!vars)
<1> SUFFICES ASSUME Inv, [Next]_vars
             PROVE  Promised!Next \/ UNCHANGED <<boot, Ledger, saw>>
  BY DEF Promised!vars
<1>1. CASE \E p \in Processes : Step(p) \/ Call(p) \/ Fault(p) \/ Crash(p)
  BY <1>1, CallerStep DEF Promised!Next
<1>2. CASE \E f \in Spoilable \cap Names : Spoil(f)
  BY <1>2 DEF Spoil, files, Ledger
<1>3. CASE Reboot
  BY <1>3, RebootIsRestart DEF Promised!Next
<1>4. CASE UNCHANGED vars
  BY <1>4 DEF vars, files, Ledger
<1> QED
  BY <1>1, <1>2, <1>3, <1>4 DEF Next

\* The files of the runtime directory implement the journal of Journal: no
\* transaction is lost or seen twice, and none survives its boot.
THEOREM JournalKept == Spec => KeepsJournal
<1>1. Init => Promised!Init
  BY StorageAssumption DEF Init, Ledger, Boots, Promised!Init
<1> QED
  BY <1>1, InitInv, StepInv, StepImplements, PTL DEF Spec, KeepsJournal, Promised!Spec

\* s is t or a beginning of it.
Beginning(s, t) == Len(s) <= Len(t) /\ \A i \in 1..Len(s) : s[i] = t[i]

\* What a process has last read of the ledger is still there.
ReadsLast == \A p \in Processes : Beginning(saw[p], Ledger)

\* A connection reads a sequence of transactions.
LEMMA LedgerIsJournal == TypeOK => Ledger \in Seq(Processes)
<1> SUFFICES ASSUME TypeOK PROVE Ledger \in Seq(Processes)
  OBVIOUS
<1>1. /\ main[boot] \in Seq(Processes) \cup {NULL}
      /\ wal[boot] \in Seq(Processes) \cup {NULL}
  BY DEF TypeOK
<1>2. <<>> \in Seq(Processes)
  OBVIOUS
<1> QED
  BY <1>1, <1>2 DEF Ledger

\* Every sequence is a beginning of itself.
LEMMA BeginsItself ==
  ASSUME NEW s \in Seq(Processes)
  PROVE  Beginning(s, s)
BY DEF Beginning

\* Appending continues what a sequence continues.
LEMMA AppendContinues ==
  ASSUME NEW s \in Seq(Processes), NEW t \in Seq(Processes), NEW p \in Processes,
         Beginning(s, t)
  PROVE  Beginning(s, Append(t, p))
<1>1. Len(Append(t, p)) = Len(t) + 1 /\ \A i \in 1..Len(t) : Append(t, p)[i] = t[i]
  OBVIOUS
<1>2. Len(s) \in Nat /\ Len(t) \in Nat /\ Len(s) <= Len(t)
  BY DEF Beginning
<1>3. 1..Len(s) \subseteq 1..Len(t) /\ Len(s) <= Len(t) + 1
  BY <1>2
<1> QED
  BY <1>1, <1>3 DEF Beginning

\* The steps of Journal keep what has been read, and in one boot all that
\* has been written.
LEMMA JournalStep ==
  ASSUME TypeOK, TypeOK', ReadsLast, Promised!Next \/ UNCHANGED <<boot, Ledger, saw>>
  PROVE  ReadsLast' /\ (boot' = boot => Beginning(Ledger, Ledger'))
<1>1. /\ Ledger \in Seq(Processes) /\ boot \in Nat
      /\ \A p \in Processes : saw[p] \in Seq(Processes)
  BY LedgerIsJournal, StorageAssumption DEF TypeOK, Boots
<1>2. Beginning(Ledger, Ledger)
  BY <1>1, BeginsItself
<1>3. ASSUME NEW p \in Processes, Promised!Write(p)
      PROVE  ReadsLast' /\ Beginning(Ledger, Ledger')
  <2>1. Ledger' = Append(Ledger, p) /\ saw' = [saw EXCEPT ![p] = Ledger]
    BY <1>3 DEF Promised!Write
  <2>2. Beginning(Ledger, Ledger')
    BY <1>1, <1>2, <2>1, AppendContinues
  <2>3. ASSUME NEW q \in Processes PROVE Beginning(saw'[q], Ledger')
    <3>1. CASE q = p
      BY <2>1, <2>2, <3>1 DEF TypeOK
    <3>2. CASE q # p
      <4>1. Beginning(saw[q], Append(Ledger, p))
        BY <1>1, AppendContinues DEF ReadsLast
      <4> QED
        BY <2>1, <3>2, <4>1 DEF TypeOK
    <3> QED
      BY <3>1, <3>2
  <2> QED
    BY <2>2, <2>3 DEF ReadsLast
<1>4. ASSUME NEW p \in Processes, Promised!View(p)
      PROVE  ReadsLast' /\ Beginning(Ledger, Ledger')
  <2>1. Ledger' = Ledger /\ saw' = [saw EXCEPT ![p] = Ledger]
    BY <1>4 DEF Promised!View
  <2>2. \A q \in Processes : saw'[q] \in {saw[q], Ledger}
    BY <2>1 DEF TypeOK
  <2> QED
    BY <1>2, <2>1, <2>2 DEF ReadsLast
<1>5. CASE Promised!Restart
  <2>1. boot' # boot
    BY <1>1, <1>5 DEF Promised!Restart
  <2>2. /\ saw' = [p \in Processes |-> <<>>]
        /\ Ledger' = <<>>
    BY <1>5 DEF Promised!Restart
  <2>3. Beginning(<<>>, <<>>)
    BY DEF Beginning
  <2> QED
    BY <2>1, <2>2, <2>3 DEF ReadsLast
<1>6. CASE UNCHANGED <<boot, Ledger, saw>>
  BY <1>2, <1>6 DEF ReadsLast
<1> QED
  BY <1>3, <1>4, <1>5, <1>6 DEF Promised!Next

\* What Admission's processes rely on when they share rows through the
\* ledger: whatever a process has read in a committed transaction is still
\* there, and no step but a reboot takes back a transaction of anybody.
THEOREM NothingIsLost ==
  Spec => []ReadsLast /\ [][boot' = boot => Beginning(Ledger, Ledger')]_vars
<1>1. Init => ReadsLast
  <2> SUFFICES ASSUME Init PROVE ReadsLast
    OBVIOUS
  <2>1. Ledger = <<>> /\ \A p \in Processes : saw[p] = <<>>
    BY StorageAssumption DEF Init, Ledger, Boots
  <2>2. Beginning(<<>>, <<>>)
    BY DEF Beginning
  <2> QED
    BY <2>1, <2>2 DEF ReadsLast
<1>2. ASSUME Inv, Inv', ReadsLast, [Next]_vars
      PROVE  ReadsLast' /\ (boot' = boot => Beginning(Ledger, Ledger'))
  <2>1. TypeOK /\ TypeOK'
    BY <1>2 DEF Inv
  <2>2. Promised!Next \/ UNCHANGED <<boot, Ledger, saw>>
    BY <1>2, StepImplements DEF Promised!vars
  <2> QED
    BY <1>2, <2>1, <2>2, JournalStep
<1>3. Inv /\ Inv' /\ ReadsLast /\ [Next]_vars
      => ReadsLast' /\ [boot' = boot => Beginning(Ledger, Ledger')]_vars
  BY <1>2
<1> QED
  BY <1>1, <1>3, InitInv, StepInv, PTL DEF Spec

-----------------------------------------------------------------------------
(* What a step may never do *)

\* The actions after which a caller is about to be refused.
LEMMA WhoRefuses ==
  ASSUME TypeOK, Next, NEW p \in Processes, Refuses(p)
  PROVE  Enter(p) \/ Inspect(p) \/ Confirm(p)
<1>1. CASE \E q \in Processes : Step(q) \/ Call(q) \/ Fault(q) \/ Crash(q)
  <2>1. PICK q \in Processes : Step(q) \/ Call(q) \/ Fault(q) \/ Crash(q)
    BY <1>1
  <2>2. CASE q # p
    <3>1. pc'[p] = pc[p]
      BY <2>1, <2>2 DEF TypeOK, Step, Call, Enter, Look, List, Inspect, Unlink, Swept, Create,
         Confirm, Connect, Begin, Busy, Commit, Fault, Close, Crash, YieldNone, Leave, Goto
    <3> QED
      BY <3>1 DEF Refuses
  <2>3. CASE q = p
    BY <2>1, <2>3 DEF TypeOK, Refuses, Step, Call, Look, List, Unlink, Swept, Create, Connect,
       Begin, Busy, Commit, Fault, Close, Crash, YieldNone, Leave, Goto
  <2> QED
    BY <2>2, <2>3
<1>2. CASE \E f \in Spoilable \cap Names : Spoil(f)
  BY <1>2 DEF Spoil, Refuses
<1>3. CASE Reboot
  BY <1>3 DEF Reboot, Refuses
<1> QED
  BY <1>1, <1>2, <1>3 DEF Next

\* A caller is only refused for the state of the directory or of a file, and
\* finds the database when it connects, whoever starts, sweeps and creates
\* beside it.
THEOREM FailureHasCause == Spec => FailsForCause
<1>1. Inv /\ [Next]_vars => [\A p \in Processes : (Refuses(p) => HasCause) /\ Finds(p)]_vars
  <2> SUFFICES ASSUME Inv, Next, NEW p \in Processes
               PROVE  (Refuses(p) => HasCause) /\ Finds(p)
    OBVIOUS
  <2>1. TypeOK /\ PlaceInv(p)
    BY DEF Inv
  <2>2. ASSUME Enter(p), Refuses(p) PROVE HasCause
    BY <2>1, <2>2 DEF TypeOK, Enter, Goto, Refuses, YieldNone, Leave, HasCause
  <2>3. ASSUME Inspect(p), Refuses(p) PROVE HasCause
    BY <2>1, <2>3 DEF TypeOK, Inspect, Goto, Refuses, HasCause
  <2>4. ASSUME Confirm(p), Refuses(p) PROVE HasCause
    BY <2>1, <2>4 DEF TypeOK, PlaceInv, Confirm, Goto, Refuses, HasCause
  <2>5. Finds(p)
    BY <2>1 DEF TypeOK, PlaceInv, Finds, Connect, Goto
  <2> QED
    BY <2>1, <2>2, <2>3, <2>4, <2>5, WhoRefuses
<1> QED
  BY <1>1, StorageInvariance, PTL DEF Spec, FailsForCause

\* A view takes what is there: without a caller that creates, neither the
\* directory nor a database appears.
THEOREM ViewsAreIdle == Spec => ViewsCreateNothing
<1>1. Inv /\ [Next]_vars => [OnlyViews => NothingCreated]_vars
  <2> SUFFICES ASSUME Inv, Next, OnlyViews PROVE NothingCreated
    OBVIOUS
  <2>1. TypeOK /\ boot \in Boots
    BY DEF Inv, TypeOK
  <2>2. ASSUME NEW p \in Processes, Step(p) \/ Call(p) \/ Fault(p) \/ Crash(p)
        PROVE  NothingCreated
    <3>1. PlaceInv(p) /\ (pc[p] # "idle" => ~ creates[p])
      BY DEF Inv, OnlyViews
    <3>2. CASE Close(p)
      BY <3>2, CloseStep DEF Close, NothingCreated
    <3>3. CASE Unlink(p)
      BY <3>1, <3>3 DEF PlaceInv, Sweeping, Unlink
    <3>4. CASE Create(p)
      BY <3>1, <3>4 DEF PlaceInv, Sweeping, Create
    <3>5. CASE Enter(p)
      BY <3>1, <3>5 DEF Enter, files, NothingCreated
    <3>6. CASE \/ Look(p) \/ List(p) \/ Inspect(p) \/ Swept(p) \/ Confirm(p) \/ Connect(p) \/ Begin(p)
               \/ Busy(p) \/ Commit(p) \/ Call(p) \/ Fault(p) \/ Crash(p)
      <4>1. UNCHANGED <<directory, main>>
        BY <3>6 DEF Look, List, Inspect, Swept, Confirm, Connect, Begin, Busy, Commit, Call, Fault,
           Crash, files
      <4> QED
        BY <4>1 DEF NothingCreated
    <3> QED
      BY <2>2, <3>2, <3>3, <3>4, <3>5, <3>6 DEF Step
  <2>3. ASSUME NEW f \in Names, Spoil(f) PROVE NothingCreated
    BY <2>3 DEF Spoil, files, NothingCreated
  <2>4. CASE Reboot
    <3>1. boot' # boot
      BY <2>1, <2>4, StorageAssumption DEF Boots, Reboot
    <3>2. \A b \in Boots : main'[b] \in {main[b], NULL}
      BY <2>4 DEF Reboot, files
    <3> QED
      BY <3>1, <3>2 DEF NothingCreated
  <2> QED
    BY <2>2, <2>3, <2>4 DEF Next
<1> QED
  BY <1>1, StorageInvariance, PTL DEF Spec, ViewsCreateNothing
=============================================================================
