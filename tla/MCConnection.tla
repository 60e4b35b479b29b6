---------------------------- MODULE MCConnection ----------------------------
(***************************************************************************)
(* Small instances of Connection for TLC.                                  *)
(***************************************************************************)
EXTENDS Connection, TLC

CONSTANTS c1, c2, w1, w2, w3

OneConnection == [w \in Workers |-> c1]
\* Another application has a connection to the same source.
TwoConnections == [w \in Workers |-> IF w = w1 THEN c1 ELSE c2]
=============================================================================
