----------------------------- MODULE Selection ------------------------------
(***************************************************************************)
(* Registry.source() of src/sheetbend/registry.py: which configured source *)
(* a caller's constraints select, and what an edit of the configuration    *)
(* may change about it.  A program repeats one request while the file it   *)
(* is loaded from is edited and reloaded.                                  *)
(***************************************************************************)
EXTENDS Integers, Sequences, FiniteSets, FiniteSetsExt, SequencesExt

CONSTANTS
  Names,           \* of sources
  Organizations,
  NULL

ASSUME SelectionAssumption ==
  /\ NULL \notin Names \cup Organizations \cup {"TypeError", "ValueError", "SelectionError"}
  /\ IsFiniteSet(Names)

Scopes == {"local", "institutional", "external"}

\* The schema requires an organization of institutional sources only.
SourceDefinitions ==
  {[scope |-> "local", organization |-> NULL], [scope |-> "external", organization |-> NULL]}
    \cup {[scope |-> "institutional", organization |-> o] : o \in Organizations}

\* What a caller may pass for allowed_scopes: a sequence, or a set, here the
\* sequence that tuple() makes of it.
AllowedScopes ==
  [ordered : BOOLEAN,
   scopes : SeqOf(Scopes, 2) \cup {s \in SeqOf(Scopes \cup {"unknown"}, 3) : Len(s) = 3}]

Requests ==
  [name : Names \cup {NULL}, allowed : AllowedScopes, organization : Organizations \cup {NULL}]

VARIABLES
  sources,         \* the validated sources of the registry
  default,         \* default_source, or NULL
  request,         \* the arguments of source()
  answer           \* what it returned or raised

vars == <<sources, default, request, answer>>

Chosen(n) == [source |-> n, raised |-> NULL]
Raised(e) == [source |-> NULL, raised |-> e]

\* Mutant of Eligible: the organization is not compared.
EligibleByScope(known, scopes, organization) ==
  {n \in DOMAIN known :
     /\ known[n].scope \in Range(scopes)
     /\ organization # NULL => known[n].scope = "institutional"}

\* eligible()
Eligible(known, scopes, organization) ==
  {n \in DOMAIN known :
     /\ known[n].scope \in Range(scopes)
     /\ organization # NULL =>
          known[n].scope = "institutional" /\ known[n].organization = organization}

\* The loop over scope_order stops at the first scope that has candidates.
Priority(known, scopes, organization) ==
  {i \in DOMAIN scopes :
     \E n \in Eligible(known, scopes, organization) : known[n].scope = scopes[i]}

\* Mutant of Candidates: the scopes are an allow-list without an order.
CandidatesOfAnyScope(known, scopes, organization) == Eligible(known, scopes, organization)

Candidates(known, scopes, organization) ==
  LET first == scopes[Min(Priority(known, scopes, organization))] IN
  {n \in Eligible(known, scopes, organization) : known[n].scope = first}

\* Mutants of Automatic: an eligible default goes before the caller's order;
\* a default that is no candidate is an error.
AutomaticDefault(known, preferred, scopes, organization) ==
  IF Priority(known, scopes, organization) = {} THEN Raised("SelectionError")
  ELSE IF preferred \in Eligible(known, scopes, organization) THEN Chosen(preferred)
  ELSE LET candidates == Candidates(known, scopes, organization) IN
       IF Cardinality(candidates) = 1 THEN Chosen(CHOOSE n \in candidates : TRUE)
       ELSE Raised("SelectionError")

AutomaticStrict(known, preferred, scopes, organization) ==
  IF Priority(known, scopes, organization) = {} THEN Raised("SelectionError")
  ELSE LET candidates == Candidates(known, scopes, organization) IN
       CASE preferred \in candidates     -> Chosen(preferred)
         [] preferred = NULL /\ Cardinality(candidates) = 1
                                         -> Chosen(CHOOSE n \in candidates : TRUE)
         [] OTHER                        -> Raised("SelectionError")

Automatic(known, preferred, scopes, organization) ==
  IF Priority(known, scopes, organization) = {} THEN Raised("SelectionError")
  ELSE LET candidates == Candidates(known, scopes, organization) IN
       CASE preferred \in candidates     -> Chosen(preferred)
         [] preferred \notin candidates /\ Cardinality(candidates) = 1
                                         -> Chosen(CHOOSE n \in candidates : TRUE)
         [] OTHER                        -> Raised("SelectionError")

\* Mutant of Explicit: the name alone decides.
ExplicitUnchecked(known, name, scopes, organization) == Chosen(name)

Explicit(known, name, scopes, organization) ==
  IF name \in Eligible(known, scopes, organization)
  THEN Chosen(name) ELSE Raised("SelectionError")

\* The argument checks, in their order, then either way of selecting.
Source(known, preferred, r) ==
  LET scopes == r.allowed.scopes IN
  CASE ~ r.allowed.ordered /\ Cardinality(Range(scopes)) > 1     -> Raised("TypeError")
    [] OTHER ->
  CASE Cardinality(Range(scopes)) # Len(scopes)                  -> Raised("ValueError")
    [] OTHER ->
  CASE ~ Range(scopes) \subseteq Scopes                          -> Raised("ValueError")
    [] OTHER ->
  IF r.name # NULL
  THEN Explicit(known, r.name, scopes, r.organization)
  ELSE Automatic(known, preferred, scopes, r.organization)

-----------------------------------------------------------------------------
\* from_file() of a missing implicit default: no sources.
Init ==
  /\ sources = << >>
  /\ default = NULL
  /\ request \in {r \in Requests : ~ r.allowed.ordered => IsInjective(r.allowed.scopes)}
  /\ answer = Source(<< >>, NULL, request)

\* A reload that passes validate_config(): default_source names a source.
Reload(known, preferred) ==
  /\ preferred \in DOMAIN known \cup {NULL}
  /\ sources' = known
  /\ default' = preferred
  /\ answer' = Source(known, preferred, request)
  /\ UNCHANGED request

Define(n) ==
  \E d \in SourceDefinitions :
    Reload([m \in DOMAIN sources \cup {n} |-> IF m = n THEN d ELSE sources[m]], default)

Delete(n) ==
  /\ n \in DOMAIN sources
  /\ Reload([m \in DOMAIN sources \ {n} |-> sources[m]], default)

Prefer(n) == Reload(sources, n)

Next ==
  \/ \E n \in Names : Define(n) \/ Delete(n)
  \/ \E n \in Names \cup {NULL} : Prefer(n)

Spec == Init /\ [][Next]_vars

-----------------------------------------------------------------------------
(* Properties *)

TypeOK ==
  /\ DOMAIN sources \subseteq Names
  /\ \A n \in DOMAIN sources : sources[n] \in SourceDefinitions
  /\ default \in DOMAIN sources \cup {NULL}
  /\ request \in Requests
  /\ \/ answer.source \in DOMAIN sources /\ answer.raised = NULL
     \/ answer.source = NULL /\ answer.raised \in {"TypeError", "ValueError", "SelectionError"}

Allows(n) ==
  /\ \E i \in DOMAIN request.allowed.scopes : request.allowed.scopes[i] = sources[n].scope
  /\ request.organization # NULL =>
       sources[n].scope = "institutional" /\ sources[n].organization = request.organization

\* No request, however it names a source and whatever the default is, gets
\* one outside the scopes and the organization it allows.
InsideBoundary == answer.source # NULL => Allows(answer.source)

\* Place of a source in the caller's order.
Place(n) == CHOOSE i \in DOMAIN request.allowed.scopes :
              request.allowed.scopes[i] = sources[n].scope

\* Without a name, no allowed source of an earlier scope is passed over, not
\* even for the configured default; and one of the same scope is passed over
\* for the default only.
BestChoice ==
  answer.source # NULL /\ request.name = NULL =>
    \A n \in DOMAIN sources \ {answer.source} :
      Allows(n) => \/ Place(answer.source) < Place(n)
                   \/ Place(answer.source) = Place(n) /\ answer.source = default

\* A well-formed request is only refused when it leaves nothing or a choice
\* between equals that the default does not decide.
RefusedForCause ==
  answer.raised = "SelectionError" =>
    IF request.name # NULL
    THEN request.name \notin DOMAIN sources \/ ~ Allows(request.name)
    ELSE \A n \in DOMAIN sources : Allows(n) =>
           \E m \in DOMAIN sources : Allows(m) /\
             \/ Place(m) < Place(n)
             \/ m # n /\ Place(m) = Place(n) /\ n # default

\* An edit of one source, in a scope that comes after the selected one or
\* that the caller does not allow, never moves a request elsewhere.
Undisplaced ==
  [][\A n \in Names :
       /\ answer.source \notin {NULL, n} /\ default' = default
       /\ \A m \in Names \ {n} : /\ m \in DOMAIN sources <=> m \in DOMAIN sources'
                                 /\ m \in DOMAIN sources => sources'[m] = sources[m]
       /\ n \in DOMAIN sources' => LET moved == sources'[n].scope IN
            \/ \A i \in DOMAIN request.allowed.scopes : request.allowed.scopes[i] # moved
            \/ \E i \in DOMAIN request.allowed.scopes :
                 request.allowed.scopes[i] = moved /\ i > Place(answer.source)
       => answer' = answer]_vars
=============================================================================
