-------------------------- MODULE SelectionProofs ---------------------------
(***************************************************************************)
(* Selection for any finite set of names and any organizations: whatever   *)
(* is configured and edited, Registry.source() stays inside the boundary   *)
(* of the request, follows its order, refuses for a cause only, and is not *)
(* moved by edits that do not concern it.                                  *)
(***************************************************************************)
EXTENDS Selection, FiniteSetTheorems, SequenceTheorems, TLAPS

-----------------------------------------------------------------------------
(* The caller's scopes *)

\* Each scope is known and passed once.
WellFormed(s) ==
  /\ Cardinality(Range(s)) = Len(s)
  /\ Range(s) \subseteq Scopes

\* At most three scopes are passed.
LEMMA ScopesAreShort ==
  ASSUME NEW r \in Requests
  PROVE  LET s == r.allowed.scopes IN
         /\ s \in Seq(Scopes \cup {"unknown"})
         /\ Len(s) \in 0..3
         /\ DOMAIN s = 1..Len(s)
<1> DEFINE s == r.allowed.scopes
           S == Scopes \cup {"unknown"}
<1>1. s \in SeqOf(Scopes, 2) \/ s \in SeqOf(S, 3)
  BY DEF Requests, AllowedScopes
<1>2. PICK n \in 0..3 : s \in [1..n -> S]
  <2>1. CASE s \in SeqOf(Scopes, 2)
    BY <2>1 DEF SeqOf
  <2>2. CASE s \in SeqOf(S, 3)
    BY <2>2 DEF SeqOf
  <2> QED
    BY <1>1, <2>1, <2>2
<1> HIDE DEF s, S
<1>3. s \in Seq(S) /\ Len(s) = n
  BY <1>2
<1>4. DOMAIN s = 1..Len(s)
  BY <1>2, <1>3
<1> QED
  BY <1>3, <1>4 DEF s, S

\* A sequence as long as it has different members has none of them twice.
LEMMA WellFormedIsInjective ==
  ASSUME NEW s, NEW n \in Nat, DOMAIN s = 1..n, s \in [1..n -> Range(s)],
         Len(s) = n, WellFormed(s)
  PROVE  \A i, j \in DOMAIN s : s[i] = s[j] => i = j
<1>1. s \in Surjection(1..n, Range(s))
  BY DEF Surjection, Range
<1>2. IsFiniteSet(1..n) /\ Cardinality(1..n) = n
  BY FS_Interval
<1>3. s \in Injection(1..n, Range(s))
  BY <1>1, <1>2, FS_Surjection DEF WellFormed
<1> QED
  BY <1>3 DEF Injection, IsInjective

\* Everything the proofs need to know of the scopes of a request.
LEMMA ScopesOf ==
  ASSUME NEW r \in Requests
  PROVE  LET s == r.allowed.scopes IN
         /\ DOMAIN s \subseteq 1..3
         /\ Range(s) = {s[i] : i \in DOMAIN s}
         /\ WellFormed(s) => \A i, j \in DOMAIN s : s[i] = s[j] => i = j
<1> DEFINE s == r.allowed.scopes
<1>1. s \in Seq(Scopes \cup {"unknown"}) /\ Len(s) \in 0..3 /\ DOMAIN s = 1..Len(s)
  BY ScopesAreShort
<1> HIDE DEF s
<1>2. Range(s) = {s[i] : i \in DOMAIN s}
  BY DEF Range
<1>3. s \in [1..Len(s) -> Range(s)]
  <2>1. s \in [1..Len(s) -> Scopes \cup {"unknown"}]
    BY <1>1
  <2> QED
    BY <1>2, <2>1
<1>4. WellFormed(s) => \A i, j \in DOMAIN s : s[i] = s[j] => i = j
  BY <1>1, <1>3, WellFormedIsInjective
<1> QED
  BY <1>1, <1>2, <1>4 DEF s

\* The first of up to three places.
LEMMA FirstPlace ==
  ASSUME NEW P \in SUBSET (1..3), P # {}
  PROVE  Min(P) \in P /\ \A i \in P : Min(P) <= i
<1>1. \E x \in P : \A y \in P : x <= y
  <2>1. CASE 1 \in P
    BY <2>1
  <2>2. CASE 1 \notin P /\ 2 \in P
    BY <2>2
  <2>3. CASE 1 \notin P /\ 2 \notin P
    <3>1. \A y \in P : y = 3
      BY <2>3
    <3>2. PICK x : x \in P
      OBVIOUS
    <3> QED
      BY <3>1, <3>2
  <2> QED
    BY <2>1, <2>2, <2>3
<1> QED
  BY <1>1 DEF Min

-----------------------------------------------------------------------------
(* source() *)

\* What passes the argument checks.
Accepted(r) ==
  /\ ~ (~ r.allowed.ordered /\ Cardinality(Range(r.allowed.scopes)) > 1)
  /\ WellFormed(r.allowed.scopes)

\* The checks come first, then either way of selecting.
LEMMA SourceIsChecked ==
  ASSUME NEW known, NEW preferred, NEW r
  PROVE  LET s == r.allowed.scopes IN
         Source(known, preferred, r) =
           IF Accepted(r)
           THEN IF r.name # NULL THEN Explicit(known, r.name, s, r.organization)
                ELSE Automatic(known, preferred, s, r.organization)
           ELSE IF ~ r.allowed.ordered /\ Cardinality(Range(s)) > 1
           THEN Raised("TypeError") ELSE Raised("ValueError")
BY Zenon DEF Source, Accepted, WellFormed

\* The three ways automatic selection ends.
LEMMA AutomaticCases ==
  ASSUME NEW known, NEW preferred, NEW s, NEW organization
  PROVE  LET a == Automatic(known, preferred, s, organization)
             C == Candidates(known, s, organization)
         IN
         \/ Priority(known, s, organization) = {} /\ a = Raised("SelectionError")
         \/ /\ Priority(known, s, organization) # {}
            /\ \/ preferred \in C /\ a = Chosen(preferred)
               \/ /\ preferred \notin C /\ Cardinality(C) = 1
                  /\ a = Chosen(CHOOSE n \in C : TRUE)
               \/ preferred \notin C /\ Cardinality(C) # 1 /\ a = Raised("SelectionError")
BY DEF Automatic

\* A single candidate is the one that is chosen.
LEMMA OnlyCandidate ==
  ASSUME NEW C \in SUBSET Names, Cardinality(C) = 1
  PROVE  C = {CHOOSE n \in C : TRUE}
<1>1. IsFiniteSet(C)
  BY SelectionAssumption, FS_Subset
<1>2. PICK n : C = {n}
  BY <1>1, FS_Singleton
<1> QED
  BY <1>2

\* Candidates are the eligible sources of the caller's first scope that has
\* any, and stand at one place of its order.
LEMMA CandidatesAreFirst ==
  ASSUME NEW r \in Requests, WellFormed(r.allowed.scopes),
         NEW known, Priority(known, r.allowed.scopes, r.organization) # {}
  PROVE  LET s == r.allowed.scopes
             P == Priority(known, s, r.organization)
         IN
         /\ Min(P) \in DOMAIN s
         /\ \A i \in P : Min(P) <= i
         /\ \E n \in Eligible(known, s, r.organization) : known[n].scope = s[Min(P)]
         /\ Candidates(known, s, r.organization) =
              {n \in Eligible(known, s, r.organization) : known[n].scope = s[Min(P)]}
<1> DEFINE s == r.allowed.scopes
           P == Priority(known, s, r.organization)
<1>1. DOMAIN s \subseteq 1..3
  BY ScopesOf
<1>2. P \in SUBSET (1..3)
  BY <1>1 DEF Priority
<1>3. Min(P) \in P /\ \A i \in P : Min(P) <= i
  BY <1>2, FirstPlace
<1> QED
  BY <1>3 DEF Priority, Candidates

-----------------------------------------------------------------------------
(* The invariant *)

\* A registry that has been validated, and what a request gets from it.
Inv ==
  /\ DOMAIN sources \subseteq Names
  /\ \A n \in DOMAIN sources : sources[n] \in SourceDefinitions
  /\ default \in DOMAIN sources \cup {NULL}
  /\ request \in Requests
  /\ answer = Source(sources, default, request)

\* A program starts with an empty registry.
LEMMA InitInv == Init => Inv
BY DEF Init, Inv

\* A reload is a validated registry, and the answer is that of source().
LEMMA StepInv == Inv /\ [Next]_vars => Inv'
<1> SUFFICES ASSUME Inv, [Next]_vars PROVE Inv'
  OBVIOUS
<1>1. CASE UNCHANGED vars
  BY <1>1 DEF Inv, vars
<1>2. ASSUME NEW n \in Names, Define(n) PROVE Inv'
  BY <1>2 DEF Inv, Define, Reload
<1>3. ASSUME NEW n \in Names, Delete(n) PROVE Inv'
  BY <1>3 DEF Inv, Delete, Reload
<1>4. ASSUME NEW n \in Names \cup {NULL}, Prefer(n) PROVE Inv'
  BY <1>4 DEF Inv, Prefer, Reload
<1> QED
  BY <1>1, <1>2, <1>3, <1>4 DEF Next

\* The program always has the answer source() gives for what is loaded.
THEOREM SelectionInvariance == Spec => []Inv
<1>1. Init => Inv
  BY InitInv
<1>2. Inv /\ [Next]_vars => Inv'
  BY StepInv
<1> QED
  BY <1>1, <1>2, PTL DEF Spec

-----------------------------------------------------------------------------
(* Boundary, order and refusals *)

\* Allows() is eligible() of the request that is repeated.
LEMMA AllowsIsEligible ==
  ASSUME Inv, NEW n \in DOMAIN sources
  PROVE  Allows(n) <=> n \in Eligible(sources, request.allowed.scopes, request.organization)
<1>1. Range(request.allowed.scopes) =
        {request.allowed.scopes[i] : i \in DOMAIN request.allowed.scopes}
  BY ScopesOf DEF Inv
<1> QED
  BY <1>1 DEF Allows, Eligible

\* What a request has got when it got a source.
LEMMA WhenChosen ==
  ASSUME Inv, answer.source # NULL
  PROVE  LET s == request.allowed.scopes
             E == Eligible(sources, s, request.organization)
             C == Candidates(sources, s, request.organization)
         IN
         /\ Accepted(request)
         /\ answer = Chosen(answer.source) /\ answer.source \in E
         /\ request.name # NULL => answer.source = request.name
         /\ request.name = NULL =>
              /\ Priority(sources, s, request.organization) # {}
              /\ answer.source \in C
              /\ IF default \in C THEN answer.source = default ELSE C = {answer.source}
<1> DEFINE s == request.allowed.scopes
           E == Eligible(sources, s, request.organization)
           C == Candidates(sources, s, request.organization)
<1>1. Accepted(request)
  BY SourceIsChecked DEF Inv, Raised
<1>2. CASE request.name # NULL
  <2>1. answer = Explicit(sources, request.name, s, request.organization)
    BY <1>1, <1>2, SourceIsChecked DEF Inv
  <2> QED
    BY <1>1, <1>2, <2>1 DEF Explicit, Chosen, Raised
<1>3. CASE request.name = NULL
  <2>1. answer = Automatic(sources, default, s, request.organization)
    BY <1>1, <1>3, SourceIsChecked DEF Inv
  <2>2. C \subseteq E /\ E \subseteq Names
    BY DEF Candidates, Eligible, Inv
  <2>3. answer # Raised("SelectionError")
    BY DEF Raised
  <2>4. /\ Priority(sources, s, request.organization) # {}
        /\ \/ default \in C /\ answer = Chosen(default)
           \/ /\ default \notin C /\ Cardinality(C) = 1
              /\ answer = Chosen(CHOOSE n \in C : TRUE)
    BY <2>1, <2>3, AutomaticCases
  <2>5. CASE default \in C
    <3>1. answer = Chosen(default) /\ answer.source = default
      BY <2>4, <2>5 DEF Chosen
    <3> QED
      BY <1>1, <1>3, <2>2, <2>4, <2>5, <3>1
  <2>6. CASE default \notin C
    <3>1. C = {CHOOSE n \in C : TRUE}
      BY <2>2, <2>4, <2>6, OnlyCandidate
    <3>2. answer = Chosen(answer.source) /\ C = {answer.source}
      <4> HIDE DEF C
      <4>1. PICK n : n = CHOOSE m \in C : TRUE
        OBVIOUS
      <4>2. answer = Chosen(n) /\ C = {n}
        BY <2>4, <2>6, <3>1, <4>1
      <4> QED
        BY <4>2 DEF Chosen
    <3> QED
      BY <1>1, <1>3, <2>2, <2>4, <2>6, <3>2
  <2> QED
    BY <2>5, <2>6
<1> QED
  BY <1>2, <1>3

\* The answer is a source of the registry or one of the three exceptions.
THEOREM SelectionTypeCorrect == Spec => []TypeOK
<1>1. Inv => TypeOK
  <2> SUFFICES ASSUME Inv PROVE TypeOK
    OBVIOUS
  <2>1. \/ answer.source \in DOMAIN sources /\ answer.raised = NULL
        \/ answer.source = NULL /\ answer.raised \in {"TypeError", "ValueError", "SelectionError"}
    <3>1. CASE answer.source # NULL
      BY <3>1, WhenChosen DEF Chosen, Eligible
    <3>2. CASE answer.source = NULL
      <4> DEFINE s == request.allowed.scopes
                 C == Candidates(sources, s, request.organization)
      <4>1. C \subseteq Names
        BY DEF Candidates, Eligible, Inv
      <4>2. ASSUME Cardinality(C) = 1 PROVE (CHOOSE n \in C : TRUE) \in Names
        BY <4>1, <4>2, OnlyCandidate
      <4>3. Automatic(sources, default, s, request.organization).source = NULL
            => Automatic(sources, default, s, request.organization) = Raised("SelectionError")
        <5> DEFINE a == Automatic(sources, default, s, request.organization)
        <5>1. \/ a = Raised("SelectionError")
              \/ default \in C /\ a = Chosen(default)
              \/ Cardinality(C) = 1 /\ a = Chosen(CHOOSE n \in C : TRUE)
          BY AutomaticCases
        <5>2. ASSUME NEW n \in Names PROVE Chosen(n).source # NULL
          BY SelectionAssumption DEF Chosen
        <5> QED
          BY <4>1, <4>2, <5>1, <5>2
      <4>4. request.name # NULL => request.name \in Names
        BY DEF Inv, Requests
      <4>5. request.name # NULL /\ Explicit(sources, request.name, s, request.organization).source = NULL
            => Explicit(sources, request.name, s, request.organization) = Raised("SelectionError")
        BY <4>4, SelectionAssumption DEF Explicit, Chosen
      <4>6. answer \in {Raised("SelectionError"), Raised("TypeError"), Raised("ValueError")}
        BY <3>2, <4>3, <4>5, SourceIsChecked DEF Inv
      <4> QED
        BY <4>6 DEF Raised
    <3> QED
      BY <3>1, <3>2
  <2> QED
    BY <2>1 DEF Inv, TypeOK
<1> QED
  BY <1>1, SelectionInvariance, PTL

\* Neither a name nor the default gets a caller out of its boundary.
THEOREM BoundaryKept == Spec => []InsideBoundary
<1>1. Inv => InsideBoundary
  <2> SUFFICES ASSUME Inv, answer.source # NULL PROVE Allows(answer.source)
    BY DEF InsideBoundary
  <2>1. answer.source \in Eligible(sources, request.allowed.scopes, request.organization)
    BY WhenChosen
  <2>2. answer.source \in DOMAIN sources
    BY <2>1 DEF Eligible
  <2> QED
    BY <2>1, <2>2, AllowsIsEligible
<1> QED
  BY <1>1, SelectionInvariance, PTL

\* An allowed source has one place in the order, which is one of those that
\* the loop over the scopes looks at.
LEMMA PlaceOf ==
  ASSUME Inv, WellFormed(request.allowed.scopes), NEW n \in DOMAIN sources, Allows(n)
  PROVE  LET s == request.allowed.scopes IN
         /\ Place(n) \in Priority(sources, s, request.organization)
         /\ Place(n) \in DOMAIN s /\ s[Place(n)] = sources[n].scope
         /\ \A i \in DOMAIN s : s[i] = sources[n].scope => i = Place(n)
<1> DEFINE s == request.allowed.scopes
<1>1. \A i, j \in DOMAIN s : s[i] = s[j] => i = j
  BY ScopesOf DEF Inv
<1>2. Place(n) \in DOMAIN s /\ s[Place(n)] = sources[n].scope
  BY DEF Allows, Place
<1>3. n \in Eligible(sources, s, request.organization)
  BY AllowsIsEligible
<1> QED
  BY <1>1, <1>2, <1>3 DEF Priority

\* Automatic selection follows the caller's order; the default only decides
\* between equals.
THEOREM OrderFollowed == Spec => []BestChoice
<1>1. Inv => BestChoice
  <2> SUFFICES ASSUME Inv, answer.source # NULL, request.name = NULL,
                      NEW n \in DOMAIN sources \ {answer.source}, Allows(n)
               PROVE  \/ Place(answer.source) < Place(n)
                      \/ Place(answer.source) = Place(n) /\ answer.source = default
    BY DEF BestChoice
  <2> DEFINE s == request.allowed.scopes
             a == answer.source
             P == Priority(sources, s, request.organization)
             E == Eligible(sources, s, request.organization)
             C == Candidates(sources, s, request.organization)
  <2>1. WellFormed(s) /\ P # {} /\ a \in E /\ a \in C /\ (a # default => C = {a})
    BY WhenChosen DEF Accepted
  <2>2. Min(P) \in DOMAIN s /\ (\A i \in P : Min(P) <= i)
        /\ C = {m \in E : sources[m].scope = s[Min(P)]}
    BY <2>1, CandidatesAreFirst DEF Inv
  <2>3. a \in DOMAIN sources /\ Allows(a)
    BY <2>1, AllowsIsEligible DEF Eligible
  <2>4. Place(a) = Min(P)
    BY <2>1, <2>2, <2>3, PlaceOf
  <2>5. Place(n) \in P /\ s[Place(n)] = sources[n].scope /\ n \in E
    BY <2>1, PlaceOf, AllowsIsEligible
  <2>6. Place(a) <= Place(n) /\ Place(a) \in Int /\ Place(n) \in Int
    BY <2>2, <2>4, <2>5, ScopesOf DEF Inv, Priority
  <2>7. CASE Place(n) = Min(P)
    <3>1. n \in C
      BY <2>2, <2>5, <2>7
    <3> QED
      BY <2>1, <2>4, <2>7, <3>1
  <2>8. CASE Place(n) # Min(P)
    BY <2>4, <2>6, <2>8
  <2> QED
    BY <2>7, <2>8
<1> QED
  BY <1>1, SelectionInvariance, PTL

\* What a request has got when selection refused it.
LEMMA WhenRefused ==
  ASSUME Inv, answer.raised = "SelectionError"
  PROVE  LET s == request.allowed.scopes
             C == Candidates(sources, s, request.organization)
         IN
         /\ WellFormed(s)
         /\ request.name # NULL =>
              request.name \notin Eligible(sources, s, request.organization)
         /\ request.name = NULL =>
              \/ Priority(sources, s, request.organization) = {}
              \/ /\ Priority(sources, s, request.organization) # {}
                 /\ default \notin C /\ Cardinality(C) # 1
<1> DEFINE s == request.allowed.scopes
<1>1. Accepted(request)
  BY SourceIsChecked DEF Inv, Raised
<1>2. \A n : answer # Chosen(n)
  BY SelectionAssumption DEF Chosen
<1>3. CASE request.name # NULL
  BY <1>1, <1>2, <1>3, SourceIsChecked DEF Inv, Explicit, Accepted
<1>4. CASE request.name = NULL
  <2>1. answer = Automatic(sources, default, s, request.organization)
    BY <1>1, <1>4, SourceIsChecked DEF Inv
  <2> QED
    BY <1>1, <1>2, <1>4, <2>1, AutomaticCases DEF Accepted
<1> QED
  BY <1>3, <1>4

\* A refusal always has its cause in what the caller and the file say.
THEOREM RefusedWithReason == Spec => []RefusedForCause
<1>1. Inv => RefusedForCause
  <2> SUFFICES ASSUME Inv, answer.raised = "SelectionError" PROVE RefusedForCause
    BY DEF RefusedForCause
  <2> DEFINE s == request.allowed.scopes
             P == Priority(sources, s, request.organization)
             E == Eligible(sources, s, request.organization)
             C == Candidates(sources, s, request.organization)
  <2>1. CASE request.name # NULL
    BY <2>1, WhenRefused, AllowsIsEligible DEF RefusedForCause
  <2>2. ASSUME request.name = NULL, NEW n \in DOMAIN sources, Allows(n)
        PROVE  \E m \in DOMAIN sources : Allows(m) /\
                 \/ Place(m) < Place(n)
                 \/ m # n /\ Place(m) = Place(n) /\ n # default
    <3>1. WellFormed(s) /\ Place(n) \in P /\ n \in E /\ s[Place(n)] = sources[n].scope
      BY <2>2, WhenRefused, PlaceOf, AllowsIsEligible
    <3>2. P # {} /\ default \notin C /\ Cardinality(C) # 1
      BY <2>2, <3>1, WhenRefused
    <3>3. Min(P) \in DOMAIN s /\ (\A i \in P : Min(P) <= i)
          /\ (\E m \in E : sources[m].scope = s[Min(P)])
          /\ C = {m \in E : sources[m].scope = s[Min(P)]}
      BY <3>1, <3>2, CandidatesAreFirst DEF Inv
    <3>4. ASSUME NEW m \in C
          PROVE  m \in DOMAIN sources /\ Allows(m) /\ Place(m) = Min(P)
      <4>1. m \in DOMAIN sources /\ Allows(m) /\ sources[m].scope = s[Min(P)]
        BY <3>3, <3>4, AllowsIsEligible DEF Eligible
      <4> QED
        BY <3>1, <3>3, <4>1, PlaceOf
    <3>5. Min(P) <= Place(n) /\ Min(P) \in Int /\ Place(n) \in Int
      BY <3>1, <3>3, ScopesOf DEF Inv, Priority
    <3>6. C # {n}
      BY <3>2, FS_Singleton
    <3>7. PICK m \in C : m # n
      BY <3>3, <3>6
    <3>8. CASE Place(n) = Min(P)
      <4>1. n \in C
        BY <3>1, <3>3, <3>8
      <4> QED
        BY <3>2, <3>4, <3>7, <3>8, <4>1
    <3>9. CASE Place(n) # Min(P)
      BY <3>4, <3>5, <3>7, <3>9
    <3> QED
      BY <3>8, <3>9
  <2> QED
    BY <2>1, <2>2 DEF RefusedForCause
<1> QED
  BY <1>1, SelectionInvariance, PTL

-----------------------------------------------------------------------------
(* Edits that do not concern a request *)

\* Away from n nothing changes, and n does not come to a place of the order
\* up to p.
Elsewhere(known, edited, n, s, p) ==
  /\ DOMAIN edited \subseteq Names
  /\ \A m \in Names \ {n} : /\ m \in DOMAIN known <=> m \in DOMAIN edited
                            /\ m \in DOMAIN known => edited[m] = known[m]
  /\ n \in DOMAIN edited =>
       \A i \in DOMAIN s : s[i] = edited[n].scope => i > p

\* The first scope that has candidates stays the first, with the candidates
\* it had, but for n.
LEMMA CandidatesStay ==
  ASSUME NEW r \in Requests, WellFormed(r.allowed.scopes),
         NEW known, DOMAIN known \subseteq Names, NEW edited, NEW n \in Names,
         Priority(known, r.allowed.scopes, r.organization) # {},
         NEW a \in Candidates(known, r.allowed.scopes, r.organization), a # n,
         Elsewhere(known, edited, n, r.allowed.scopes,
                   Min(Priority(known, r.allowed.scopes, r.organization)))
  PROVE  /\ Priority(edited, r.allowed.scopes, r.organization) # {}
         /\ Candidates(edited, r.allowed.scopes, r.organization) =
              Candidates(known, r.allowed.scopes, r.organization) \ {n}
<1> DEFINE s == r.allowed.scopes
           E == Eligible(known, s, r.organization)
           F == Eligible(edited, s, r.organization)
           P == Priority(known, s, r.organization)
           Q == Priority(edited, s, r.organization)
<1>1. PICK p : p = Min(P)
  OBVIOUS
<1>2. /\ p \in DOMAIN s /\ \A i \in P : p <= i
      /\ Candidates(known, s, r.organization) = {m \in E : known[m].scope = s[p]}
  BY <1>1, CandidatesAreFirst
<1>3. DOMAIN s \subseteq 1..3 /\ \A i, j \in DOMAIN s : s[i] = s[j] => i = j
  BY ScopesOf
<1>4. \A m \in Names \ {n} : m \in E <=> m \in F
  BY <1>1 DEF Elsewhere, Eligible
<1>5. E \subseteq Names /\ F \subseteq Names
  BY DEF Elsewhere, Eligible
<1>6. a \in F /\ edited[a].scope = s[p] /\ p \in Q
  <2>1. a \in Names /\ a \in DOMAIN known /\ a \in E /\ known[a].scope = s[p]
    BY <1>2, <1>5 DEF Eligible
  <2>2. edited[a] = known[a] /\ a \in F
    BY <1>4, <2>1 DEF Elsewhere
  <2> QED
    BY <1>2, <2>1, <2>2 DEF Priority
<1>7. ASSUME NEW i \in Q PROVE p <= i
  <2>1. PICK m \in F : i \in DOMAIN s /\ edited[m].scope = s[i]
    BY <1>7 DEF Priority
  <2>2. CASE m = n
    BY <1>1, <1>3, <2>1, <2>2, <1>2 DEF Elsewhere, Eligible
  <2>3. CASE m # n
    <3>1. m \in E /\ known[m] = edited[m]
      BY <1>4, <1>5, <2>1, <2>3 DEF Elsewhere, Eligible
    <3> QED
      BY <1>2, <2>1, <3>1 DEF Priority
  <2> QED
    BY <2>2, <2>3
<1>8. PICK q : q = Min(Q)
  OBVIOUS
<1>9. /\ q \in DOMAIN s /\ (\A i \in Q : q <= i) /\ (\E m \in F : edited[m].scope = s[q])
      /\ Candidates(edited, s, r.organization) = {m \in F : edited[m].scope = s[q]}
  BY <1>6, <1>8, CandidatesAreFirst
<1>10. q = p
  <2>1. q \in Q
    BY <1>9 DEF Priority
  <2> QED
    BY <1>2, <1>3, <1>6, <1>7, <1>9, <2>1
<1>11. ASSUME NEW m \in F, edited[m].scope = s[p] PROVE m # n
  BY <1>1, <1>2, <1>3, <1>11 DEF Elsewhere, Eligible
<1>12. ASSUME NEW m \in Names \ {n}, m \in E PROVE known[m] = edited[m]
  BY <1>12 DEF Elsewhere, Eligible
<1> QED
  BY <1>2, <1>4, <1>5, <1>6, <1>9, <1>10, <1>11, <1>12

\* The answer after an edit that does not concern the request.
LEMMA AnswerStays ==
  ASSUME Inv, [Next]_vars, Inv', answer.source # NULL, default' = default,
         NEW n \in Names, answer.source # n,
         Elsewhere(sources, sources', n, request.allowed.scopes, Place(answer.source))
  PROVE  answer' = answer
<1> DEFINE s == request.allowed.scopes
           E == Eligible(sources, s, request.organization)
           C == Candidates(sources, s, request.organization)
           P == Priority(sources, s, request.organization)
<1>1. request' = request
  BY DEF Next, vars, Define, Delete, Prefer, Reload
<1>2. answer' = Source(sources', default, request)
  BY <1>1 DEF Inv
<1>3. PICK a : a = answer.source
  OBVIOUS
<1>4. /\ Accepted(request) /\ WellFormed(s) /\ answer = Chosen(a)
      /\ a \in E /\ a \in DOMAIN sources /\ a \in Names /\ a # n
  BY <1>3, WhenChosen DEF Accepted, Eligible, Inv
<1>5. CASE request.name # NULL
  <2>1. a = request.name
    BY <1>3, <1>5, WhenChosen
  <2>2. a \in Eligible(sources', s, request.organization)
    BY <1>4 DEF Elsewhere, Eligible
  <2> QED
    BY <1>2, <1>4, <1>5, <2>1, <2>2, SourceIsChecked DEF Explicit
<1>6. CASE request.name = NULL
  <2>1. P # {} /\ a \in C /\ (IF default \in C THEN a = default ELSE C = {a})
    BY <1>3, <1>6, WhenChosen
  <2>2. Place(a) = Min(P)
    <3>1. Allows(a)
      BY <1>4, AllowsIsEligible
    <3>2. Min(P) \in DOMAIN s /\ C = {m \in E : sources[m].scope = s[Min(P)]}
      BY <1>4, <2>1, CandidatesAreFirst DEF Inv
    <3> QED
      BY <1>4, <2>1, <3>1, <3>2, PlaceOf
  <2>3. Elsewhere(sources, sources', n, s, Min(P))
    BY <1>3, <2>2
  <2>4. DOMAIN sources \subseteq Names /\ request \in Requests
    BY DEF Inv
  <2>5. PICK edited : edited = sources'
    OBVIOUS
  <2>6. /\ Priority(edited, s, request.organization) # {}
        /\ Candidates(edited, s, request.organization) = C \ {n}
    <3>1. PICK known, r : known = sources /\ r = request
      OBVIOUS
    <3>2. /\ r \in Requests /\ WellFormed(r.allowed.scopes) /\ DOMAIN known \subseteq Names
          /\ Priority(known, r.allowed.scopes, r.organization) # {}
          /\ a \in Candidates(known, r.allowed.scopes, r.organization) /\ a # n
      BY <1>4, <2>1, <2>4, <3>1
    <3>3. Elsewhere(known, edited, n, r.allowed.scopes,
                    Min(Priority(known, r.allowed.scopes, r.organization)))
      BY <2>3, <2>5, <3>1
    <3>4. /\ Priority(edited, r.allowed.scopes, r.organization) # {}
          /\ Candidates(edited, r.allowed.scopes, r.organization) =
               Candidates(known, r.allowed.scopes, r.organization) \ {n}
      BY <3>2, <3>3, CandidatesStay
    <3> QED
      BY <3>1, <3>4
  <2>7. answer' = Automatic(edited, default, s, request.organization)
    BY <1>2, <1>4, <1>6, <2>5, SourceIsChecked
  <2>8. CASE default \in C
    BY <1>4, <2>1, <2>6, <2>7, <2>8, AutomaticCases
  <2>9. CASE default \notin C
    <3>1. Candidates(edited, s, request.organization) = {a}
      BY <1>4, <2>1, <2>6, <2>9
    <3>2. Cardinality({a}) = 1 /\ (CHOOSE m \in {a} : TRUE) = a
      BY FS_Singleton
    <3> QED
      BY <1>4, <2>1, <2>6, <2>7, <2>9, <3>1, <3>2, AutomaticCases
  <2> QED
    BY <2>8, <2>9
<1> QED
  BY <1>5, <1>6

\* A program keeps its source while others are edited that it does not
\* allow, or likes less.
THEOREM NotDisplaced == Spec => Undisplaced
<1> DEFINE Concerns(n) ==
      /\ answer.source \notin {NULL, n} /\ default' = default
      /\ \A m \in Names \ {n} : /\ m \in DOMAIN sources <=> m \in DOMAIN sources'
                                /\ m \in DOMAIN sources => sources'[m] = sources[m]
      /\ n \in DOMAIN sources' => LET moved == sources'[n].scope IN
           \/ \A i \in DOMAIN request.allowed.scopes : request.allowed.scopes[i] # moved
           \/ \E i \in DOMAIN request.allowed.scopes :
                request.allowed.scopes[i] = moved /\ i > Place(answer.source)
<1>1. ASSUME Inv, Inv', [Next]_vars, NEW n \in Names, Concerns(n)
      PROVE  answer' = answer
  <2>1. Accepted(request)
    BY <1>1, WhenChosen
  <2>2. \A i, j \in DOMAIN request.allowed.scopes :
          request.allowed.scopes[i] = request.allowed.scopes[j] => i = j
    BY <1>1, <2>1, ScopesOf DEF Inv, Accepted
  <2>3. Elsewhere(sources, sources', n, request.allowed.scopes, Place(answer.source))
    BY <1>1, <2>2 DEF Elsewhere, Inv
  <2> QED
    BY <1>1, <2>3, AnswerStays
<1>2. Inv /\ Inv' /\ [Next]_vars => [\A n \in Names : Concerns(n) => answer' = answer]_vars
  BY <1>1
<1> QED
  BY <1>2, SelectionInvariance, PTL DEF Spec, Undisplaced
=============================================================================
