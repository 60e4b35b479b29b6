---------------------------- MODULE MCAdmission -----------------------------
(***************************************************************************)
(* Small instances of Admission for TLC.                                   *)
(***************************************************************************)
EXTENDS AdmissionInvariant, TLC

CONSTANTS b1, dA, dB

\* Two processes that use one pid in turn, and one beside them.
P1 == [pid |-> 10, started |-> 1]
P1Again == [pid |-> 10, started |-> 2]
P2 == [pid |-> 20, started |-> 1]

ReusedPid == {P1, P1Again, P2}
TwoPids == {P1, P2}

\* The proofs are about any number of buckets.
OneBucket == [r \in Requests |-> b1]

\* Request 1 is issued by the process that dies, 2 by the next owner of its
\* pid, the others by a third process.
InTurn == [r \in Requests |-> IF r = 1 THEN P1 ELSE IF r = 2 THEN P1Again ELSE P2]
\* Request 1 has a process of its own.
SideBySide == [r \in Requests |-> IF r = 1 THEN P1 ELSE P2]

SameDefinition == [r \in Requests |-> dA]
\* Request 2 was loaded from an edited source.
Edited == [r \in Requests |-> IF r = 2 THEN dB ELSE dA]

OneEach == [d \in Definitions |-> 1]
\* The edit raises the limit.
Raised == [d \in Definitions |-> IF d = dA THEN 1 ELSE 2]
Unlimited == [d \in Definitions |-> NULL]
=============================================================================
