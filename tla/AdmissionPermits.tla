-------------------------- MODULE AdmissionPermits --------------------------
(***************************************************************************)
(* The polling implementation of Admission keeps the promise of Permits:   *)
(* the clients with a permit in hand are the requests acquire() returned   *)
(* to and nobody finished or killed, and a permit is granted when its      *)
(* transaction commits.  The span is the window less the age a sampled     *)
(* clock can have.                                                         *)
(***************************************************************************)
EXTENDS Admission

Promise == INSTANCE Permits WITH
  Clients <- Requests, Agreements <- Definitions, TermsOf <- DefinitionOf,
  AtOnce <- MaxConcurrent, PerSpan <- PerMinute, Span <- Window - MaxLag,
  now <- clock, holders <- {r \in Requests : pc[r] = "held"}, grantedAt <- admittedAt

\* Every behaviour of the ledger, its threads and their failures is one the
\* promise allows.
KeepsPromise == Promise!Spec
=============================================================================
