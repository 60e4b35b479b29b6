------------------------------ MODULE Journal -------------------------------
(***************************************************************************)
(* What Admission takes for granted of the runtime ledger: in one boot of  *)
(* the host it is a journal of whole transactions, each of which sees all  *)
(* those before it, and a new boot begins with an empty one.               *)
(***************************************************************************)
EXTENDS Integers, Sequences

CONSTANTS Clients

VARIABLES
  boot,
  log,        \* the clients whose transactions were committed in this boot
  seen        \* the journal as each client's last transaction found it

vars == <<boot, log, seen>>

Init ==
  /\ boot = 0
  /\ log = <<>>
  /\ seen = [c \in Clients |-> <<>>]

Write(c) ==
  /\ log' = Append(log, c)
  /\ seen' = [seen EXCEPT ![c] = log]
  /\ UNCHANGED boot

\* A view of a ledger that does not exist writes nothing.
View(c) ==
  /\ log = <<>>
  /\ seen' = [seen EXCEPT ![c] = log]
  /\ UNCHANGED <<boot, log>>

Restart ==
  /\ boot' = boot + 1
  /\ log' = <<>>
  /\ seen' = [c \in Clients |-> <<>>]

Next == Restart \/ \E c \in Clients : Write(c) \/ View(c)

Spec == Init /\ [][Next]_vars
=============================================================================
