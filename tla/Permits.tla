------------------------------ MODULE Permits -------------------------------
(***************************************************************************)
(* What host-local admission control promises, without processes, polling, *)
(* a database or a clock that anyone reads: a bucket hands out permits     *)
(* under the terms its current users agree on.                             *)
(***************************************************************************)
EXTENDS Integers, FiniteSets

CONSTANTS
  Clients, Buckets, Agreements,
  BucketOf,        \* the bucket a client draws on
  TermsOf,         \* the terms it was configured with
  AtOnce,          \* permits held at one time under given terms, or NULL
  PerSpan,         \* permits granted in one span under given terms, or NULL
  Span,            \* in units of the clock
  NULL

VARIABLES
  now,
  holders,         \* clients that have a permit in hand
  grantedAt        \* when each client's permit was granted, or NULL

vars == <<now, holders, grantedAt>>

Init ==
  /\ now = 0
  /\ holders = {}
  /\ grantedAt = [c \in Clients |-> NULL]

Held(b) == {c \in holders : BucketOf[c] = b}

Recent(b) ==
  {c \in Clients : BucketOf[c] = b /\ grantedAt[c] # NULL /\ now < grantedAt[c] + Span}

\* A client is granted one permit in its life.  The permit may be lost on
\* the way to it, and then it still counts as granted.
Grant(c) ==
  LET b == BucketOf[c] terms == TermsOf[c] IN
  /\ grantedAt[c] = NULL
  /\ \A d \in Held(b) \cup Recent(b) : TermsOf[d] = terms
  /\ AtOnce[terms] # NULL => Cardinality(Held(b)) < AtOnce[terms]
  /\ PerSpan[terms] # NULL => Cardinality(Recent(b)) < PerSpan[terms]
  /\ grantedAt' = [grantedAt EXCEPT ![c] = now]
  /\ holders' \in {holders, holders \cup {c}}
  /\ UNCHANGED now

\* Permits come back one at a time, or all of a dead process's at once.
Release ==
  /\ \E given \in SUBSET holders : given # {} /\ holders' = holders \ given
  /\ UNCHANGED <<now, grantedAt>>

Pass == now' = now + 1 /\ UNCHANGED <<holders, grantedAt>>

Next == (\E c \in Clients : Grant(c)) \/ Release \/ Pass

Spec == Init /\ [][Next]_vars
=============================================================================
