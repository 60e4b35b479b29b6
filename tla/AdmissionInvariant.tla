------------------------- MODULE AdmissionInvariant -------------------------
(***************************************************************************)
(* The inductive invariant behind the safety properties of Admission: how  *)
(* the row of a request follows the phase of its thread, and how the ticks *)
(* recorded in starts follow the clock.                                    *)
(***************************************************************************)
EXTENDS AdmissionPermits

\* A request's process has been started, and is alive unless the request
\* died with it.
OwnerOf(r) ==
  /\ pc[r] \notin {"idle", "dead"} => ProcessOf[r] \in running
  /\ pc[r] = "dead" => ProcessOf[r] \in exited

\* Until an attempt commits, the request has left no trace in the tables.
NoTrace(r) == db.state[r] = "absent" /\ db.starts[r] = NULL /\ admittedAt[r] = NULL

Queued(r) == db.state[r] = "waiting" /\ db.starts[r] = NULL /\ admittedAt[r] = NULL

RowOf(r) ==
  /\ pc[r] = "idle" => r \notin inserted
  /\ pc[r] \in {"idle"} \cup Acquiring \cup Raising /\ r \notin inserted => NoTrace(r)
  /\ pc[r] \in Acquiring /\ r \in inserted => Queued(r)
  /\ pc[r] = "held" => db.state[r] \in Occupying
  /\ pc[r] \in {"finished", "failed"} => db.state[r] \notin Active
  /\ db.state[r] \in Occupying =>
       admittedAt[r] # NULL /\ pc[r] \in {"held", "closing", "leaked", "dead"}

\* A start is recorded with a tick at most MaxLag older than its commit, and
\* stays recorded until the window is over by that tick.
StartOf(r) ==
  /\ pc[r] = "sampled" => tick[r] <= clock /\ clock <= tick[r] + MaxLag
  /\ admittedAt[r] # NULL =>
       /\ admittedAt[r] <= clock
       /\ clock < admittedAt[r] + Window - MaxLag => db.starts[r] # NULL
  /\ db.starts[r] # NULL =>
       /\ admittedAt[r] # NULL
       /\ db.starts[r] <= admittedAt[r] /\ admittedAt[r] <= db.starts[r] + MaxLag

Inv ==
  /\ TypeOK
  /\ Sound(db)
  /\ running \cap exited = {}
  /\ \A r \in Requests : OwnerOf(r) /\ RowOf(r) /\ StartOf(r)
=============================================================================
