---------------------------- MODULE ChecksProofs ----------------------------
(***************************************************************************)
(* Safety of Config and Checks for any finite set of applications, any     *)
(* paths, edits, situations and faults, and any limit.                     *)
(***************************************************************************)
EXTENDS Checks, FiniteSetTheorems, SequenceTheorems, TLAPS

-----------------------------------------------------------------------------
(* The inductive invariant *)

\* A link points to no link.
LinksEnd == \A p \in Paths : disk[p] \in Paths => disk[disk[p]] \notin Paths

\* A load that nobody disturbs names its buckets after the file it has read,
\* and one without a file goes on for a default only.
LoadInv(c) ==
  /\ step[c] # "start" => path[c] \in Paths
  /\ step[c] \in {"start", "opening", "absent", "refused"} => read[c] = NULL
  /\ step[c] \in {"resolving", "loaded"} /\ Explicit(c) => read[c] # NULL
  /\ c \notin disturbed /\ read[c] # NULL =>
       /\ step[c] = "resolving" => Resolved(path[c]) = read[c]
       /\ step[c] = "loaded" => namespace[c] = read[c]

ConfigInv == ConfigTypeOK /\ LinksEnd /\ \A c \in Clients : LoadInv(c)

\* Another application has its registry before it asks for a permit.
OtherInv(c) == holding[c] # "before" => step[c] = "loaded"

\* A bucket holds no more than its limit.
QuotaInv == \A bucket \in Paths : Occupying(bucket) <= MaxConcurrent

\* Nothing has been sent before the probes.
BeforeInv ==
  phase \in {"usage", "loading"} =>
    /\ results = <<>> /\ stage = "preparing" /\ code = NULL
    /\ \A t \in Tests : rows[t] = "none"

\* What check_command() has established by then.
UsageFits ==
  ~ (\/ situation.all /\ situation.test # NULL
     \/ ~ situation.all /\ Plan = <<"models">> /\ situation.reasoning # NULL)

CauseInv ==
  /\ phase \in {"loading", "probing"} => UsageFits
  /\ phase = "probing" =>
       /\ step[Checker] = "loaded" /\ read[Checker] # NULL
       /\ situation.scope = "external" => situation.allowExternal
       /\ stage # "preparing" => Fit(Current)

\* The results so far are those of the first tests of the plan.
ResultsInv ==
  /\ Len(results) <= Len(Plan)
  /\ \A i \in 1..Len(results) : results[i].test = Plan[i]
  /\ phase = "probing" => Len(results) < Len(Plan) /\ code = NULL
  /\ phase = "aborted" => code = 1
  /\ phase = "exited" =>
       \/ /\ Len(results) = Len(Plan) /\ code \in {0, 1}
          /\ code = 0 <=> \A i \in 1..Len(results) : results[i].ok
       \/ results = <<>> /\ code \in {1, 2} /\ \A t \in Tests : rows[t] = "none"

\* The row and the answer of the test in progress, and of those to come.
ProgressInv ==
  phase = "probing" =>
    /\ \A j \in 1..Len(Plan) : j > Len(results) + 1 => rows[Plan[j]] = "none"
    /\ stage \in {"preparing", "acquiring"} => rows[Current] = "none"
    /\ stage \in {"exchanging", "finishing"} => rows[Current] = "running"
    /\ stage = "judging" => rows[Current] = "done"
    /\ stage = "finishing" => answer \in Answers(Current) \cup {NULL}
    /\ stage = "judging" => answer \in Answers(Current)

Inv ==
  /\ TypeOK
  /\ LinksEnd /\ \A c \in Clients : LoadInv(c)
  /\ \A c \in Others : OtherInv(c)
  /\ QuotaInv /\ BeforeInv /\ CauseInv /\ SentForCause /\ ResultsInv /\ ProgressInv

-----------------------------------------------------------------------------
(* The load of a configuration *)

\* A canonical path is a path, and no link.
LEMMA ResolvedFacts ==
  ASSUME ConfigTypeOK, LinksEnd, NEW p \in Paths
  PROVE Resolved(p) \in Paths /\ disk[Resolved(p)] \in {"missing", "valid", "broken"}
BY DEF ConfigTypeOK, LinksEnd, Resolved, Held

\* Whatever a client was given, select_config_path() returns a path.
LEMMA SelectedFacts ==
  ASSUME ConfigTypeOK, NEW c \in Clients
  PROVE SelectedPath(c) \in Paths
<1>1. /\ choice[c].argument \in Paths \cup {NULL}
      /\ choice[c].environment \in Paths \cup {NULL, ""}
  BY DEF ConfigTypeOK, Choice
<1>2. CASE choice[c].argument # NULL
  BY <1>1, <1>2 DEF SelectedPath
<1>3. CASE choice[c].argument = NULL /\ Explicit(c)
  BY <1>1, <1>3 DEF SelectedPath, Explicit
<1>4. CASE choice[c].argument = NULL /\ ~ Explicit(c)
  BY <1>4, ConfigAssumption DEF SelectedPath
<1>5. QED
  BY <1>2, <1>3, <1>4

\* A step of a load concerns nobody else's.
LEMMA LoadFrame ==
  ASSUME ConfigTypeOK, NEW c \in Clients, Load(c)
  PROVE /\ UNCHANGED <<disk, edits, choice, disturbed>>
        /\ step[c] \notin {"loaded", "refused"}
        /\ \A d \in Clients \ {c} : /\ step'[d] = step[d]
                                    /\ path'[d] = path[d]
                                    /\ read'[d] = read[d]
                                    /\ namespace'[d] = namespace[d]
        /\ namespace' # namespace => step[c] = "resolving"
<1>1. CASE SelectPath(c)
  BY <1>1 DEF SelectPath, Proceed, ConfigTypeOK
<1>2. CASE Read(c)
  BY <1>2 DEF Read, Proceed, ConfigTypeOK
<1>3. CASE Diagnose(c)
  BY <1>3 DEF Diagnose, Proceed, ConfigTypeOK
<1>4. CASE Resolve(c)
  BY <1>4 DEF Resolve, Proceed, ConfigTypeOK
<1>5. QED
  BY <1>1, <1>2, <1>3, <1>4 DEF Load

\* A load keeps to its types, and what it has read is what it names its
\* buckets after.
LEMMA LoadStep ==
  ASSUME ConfigInv, NEW c \in Clients, Load(c)
  PROVE ConfigInv'
<1> USE DEF ConfigInv
<1>1. /\ UNCHANGED <<disk, edits, choice, disturbed>>
      /\ \A d \in Clients \ {c} : /\ step'[d] = step[d]
                                  /\ path'[d] = path[d]
                                  /\ read'[d] = read[d]
                                  /\ namespace'[d] = namespace[d]
  BY LoadFrame
<1>2. LinksEnd'
  BY <1>1 DEF LinksEnd
<1>3. \A d \in Clients \ {c} : LoadInv(d)'
  BY <1>1 DEF LoadInv, Explicit, Resolved
<1>4. ConfigTypeOK' /\ LoadInv(c)'
  <2>1. CASE SelectPath(c)
    <3>1. SelectedPath(c) \in Paths
      BY SelectedFacts
    <3>2. ConfigTypeOK'
      BY <1>1, <2>1, <3>1 DEF SelectPath, Proceed, ConfigTypeOK
    <3>3. step'[c] = "opening" /\ path'[c] = SelectedPath(c) /\ read'[c] = read[c] /\ step[c] = "start"
      BY <2>1 DEF SelectPath, Proceed, ConfigTypeOK
    <3>4. QED
      BY <1>1, <3>1, <3>2, <3>3 DEF LoadInv
  <2>2. CASE Read(c)
    <3>1. path[c] \in Paths /\ step[c] = "opening" /\ read[c] = NULL
      BY <2>2 DEF Read, LoadInv
    <3>2. PICK file : file = Resolved(path[c])
      OBVIOUS
    <3>3. file \in Paths /\ disk[file] \in {"missing", "valid", "broken"}
      BY <3>1, <3>2, ResolvedFacts
    <3>4. /\ read' = [read EXCEPT ![c] = IF disk[file] = "valid" THEN file ELSE NULL]
          /\ UNCHANGED <<disk, edits, choice, path, namespace, disturbed>>
          /\ step' = [step EXCEPT ![c] = CASE disk[file] = "valid"   -> "resolving"
                                           [] disk[file] = "broken"  -> "refused"
                                           [] disk[file] = "missing" -> "absent"]
      BY <2>2, <3>2 DEF Read, Proceed
    <3>5. CASE disk[file] = "valid"
      <4>1. step' = [step EXCEPT ![c] = "resolving"] /\ read' = [read EXCEPT ![c] = file]
        BY <3>4, <3>5
      <4>2. ConfigTypeOK' /\ step'[c] = "resolving" /\ read'[c] = file
        BY <3>3, <3>4, <4>1 DEF ConfigTypeOK
      <4>3. path'[c] = path[c] /\ Resolved(path[c])' = file /\ file # NULL
        BY <3>2, <3>3, <3>4, ConfigAssumption DEF Resolved
      <4>4. QED
        BY <3>1, <4>2, <4>3 DEF LoadInv
    <3>6. CASE disk[file] # "valid"
      <4>1. PICK s \in {"refused", "absent"} :
               step' = [step EXCEPT ![c] = s] /\ read' = [read EXCEPT ![c] = NULL]
        BY <3>3, <3>4, <3>6
      <4>2. ConfigTypeOK' /\ step'[c] = s /\ read'[c] = NULL
        BY <3>3, <3>4, <4>1 DEF ConfigTypeOK
      <4>3. QED
        BY <1>1, <3>1, <3>4, <4>2 DEF LoadInv
    <3>7. QED
      BY <3>5, <3>6
  <2>3. CASE Diagnose(c)
    <3>1. PICK s \in {"refused", "resolving"} :
             step' = [step EXCEPT ![c] = s] /\ (s = "resolving" => ~ Explicit(c))
      BY <2>3 DEF Diagnose, Proceed
    <3>2. UNCHANGED <<disk, edits, choice, path, read, namespace, disturbed>> /\ step[c] = "absent"
      BY <2>3 DEF Diagnose
    <3>3. ConfigTypeOK' /\ step'[c] = s
      BY <3>1, <3>2 DEF ConfigTypeOK
    <3>4. path[c] \in Paths /\ read[c] = NULL /\ Explicit(c)' = Explicit(c)
      BY <3>2 DEF LoadInv, Explicit
    <3>5. QED
      BY <3>1, <3>2, <3>3, <3>4 DEF LoadInv
  <2>4. CASE Resolve(c)
    <3>1. /\ UNCHANGED <<disk, edits, choice, path, read, disturbed>> /\ step[c] = "resolving"
          /\ step' = [step EXCEPT ![c] = "loaded"]
          /\ namespace' = [namespace EXCEPT ![c] = Resolved(path[c])]
      BY <2>4 DEF Resolve, Proceed
    <3>2. path[c] \in Paths
      BY <3>1 DEF LoadInv
    <3>3. Resolved(path[c]) \in Paths
      BY <3>2, ResolvedFacts
    <3>4. ConfigTypeOK' /\ step'[c] = "loaded" /\ namespace'[c] = Resolved(path[c])
      BY <3>1, <3>3 DEF ConfigTypeOK
    <3>5. Explicit(c)' = Explicit(c)
      BY <3>1 DEF Explicit
    <3>6. QED
      BY <3>1, <3>2, <3>4, <3>5 DEF LoadInv
  <2>5. QED
    BY <2>1, <2>2, <2>3, <2>4 DEF Load
<1>5. QED
  BY <1>2, <1>3, <1>4

\* An edit disturbs the loads whose path it changes, and no other.
LEMMA EditStep ==
  ASSUME ConfigInv, NEW p \in Paths, Edit(p)
  PROVE ConfigInv' /\ UNCHANGED loading
<1> USE DEF ConfigInv
<1>1. UNCHANGED loading /\ UNCHANGED <<choice, step, path, read, namespace>>
  BY DEF Edit, loading
<1>2. PICK held \in Held \ {p, disk[p]} :
         /\ held \in Paths => disk[held] \notin Paths /\ \A q \in Paths : disk[q] # p
         /\ disk' = [disk EXCEPT ![p] = held]
  BY DEF Edit
<1>3. disturbed' = disturbed \cup {c \in Clients : step[c] = "resolving" /\ path[c] = p}
  BY DEF Edit
<1>4. ConfigTypeOK'
  <2>1. edits' \in 0..MaxEdits
    BY ConfigAssumption DEF Edit, ConfigTypeOK
  <2>2. QED
    BY <1>1, <1>2, <1>3, <2>1 DEF ConfigTypeOK
<1>5. LinksEnd'
  BY <1>2 DEF LinksEnd, ConfigTypeOK
<1>6. ASSUME NEW c \in Clients
      PROVE LoadInv(c)'
  <2>1. Explicit(c)' = Explicit(c)
    BY <1>1 DEF Explicit
  <2>2. ASSUME c \notin disturbed', step[c] = "resolving"
        PROVE c \notin disturbed /\ Resolved(path[c])' = Resolved(path[c])
    <3>1. c \notin disturbed /\ path[c] # p /\ path[c] \in Paths
      BY <1>3, <2>2 DEF LoadInv
    <3>2. QED
      BY <1>1, <1>2, <3>1 DEF Resolved, ConfigTypeOK
  <2>3. c \notin disturbed' => c \notin disturbed
    BY <1>3
  <2>4. QED
    BY <1>1, <2>1, <2>2, <2>3 DEF LoadInv
<1>7. QED
  BY <1>1, <1>4, <1>5, <1>6

\* An explicit choice never ends in an empty registry.
LEMMA ExplicitFollows == ConfigInv => ExplicitIsNeverEmpty
BY DEF ConfigInv, LoadInv, ExplicitIsNeverEmpty

-----------------------------------------------------------------------------
(* The plan and the permits *)

\* There are six tests.
LEMMA TestsFacts ==
  /\ Tests = {"models", "text", "schema", "stream", "tools", "vision"}
  /\ TESTS \in Seq(Tests) /\ Len(TESTS) = 6
  /\ \A i, j \in 1..6 : TESTS[i] = TESTS[j] => i = j
BY DEF TESTS, Tests

\* A plan has a test at least, and no test twice.
LEMMA PlanFacts ==
  ASSUME situation \in Situation
  PROVE /\ Plan \in Seq(Tests) /\ Len(Plan) \in 1..6
        /\ \A i, j \in 1..Len(Plan) : Plan[i] = Plan[j] => i = j
        /\ situation.all \in BOOLEAN
        /\ situation.all \/ Len(Plan) = 1
        /\ ~ situation.all /\ Plan[1] = "models" => Plan = <<"models">>
<1> USE TestsFacts
<1>1. situation.all \in BOOLEAN /\ situation.test \in Tests \cup {NULL}
  BY DEF Situation
<1>2. CASE situation.all
  <2>1. Plan = TESTS
    BY <1>2 DEF Plan
  <2>2. Plan \in Seq(Tests) /\ Len(Plan) = 6
    BY <2>1
  <2>3. \A i, j \in 1..Len(Plan) : Plan[i] = Plan[j] => i = j
    BY <2>1, <2>2
  <2>4. QED
    BY <1>1, <1>2, <2>2, <2>3
<1>3. CASE ~ situation.all
  <2>1. PICK t \in Tests : Plan = <<t>>
    <3>1. CASE situation.test = NULL
      BY <1>3, <3>1 DEF Plan
    <3>2. CASE situation.test # NULL
      BY <1>1, <1>3, <3>2 DEF Plan
    <3>3. QED
      BY <3>1, <3>2
  <2>2. Plan \in Seq(Tests) /\ Len(Plan) = 1 /\ Plan[1] = t
    BY <2>1
  <2>3. QED
    BY <1>1, <1>3, <2>1, <2>2
<1>4. QED
  BY <1>1, <1>2, <1>3

\* Who holds a permit of a bucket, and the probes that do.
Users(bucket) == {c \in Others : holding[c] = "in" /\ namespace[c] = bucket}
Running == {t \in Tests : rows[t] = "running"}

\* Applications and tests are few enough to count.
LEMMA Finite ==
  /\ \A bucket : IsFiniteSet(Users(bucket)) /\ Cardinality(Users(bucket)) \in Nat
  /\ IsFiniteSet(Running) /\ Cardinality(Running) \in Nat
  /\ \A bucket : Occupying(bucket) \in Nat
<1>1. IsFiniteSet(Others)
  BY ConfigAssumption, FS_Subset, Others \subseteq Clients DEF Others
<1>2. ASSUME NEW bucket
      PROVE IsFiniteSet(Users(bucket)) /\ Cardinality(Users(bucket)) \in Nat
  <2>1. Users(bucket) \subseteq Others
    BY DEF Users
  <2>2. QED
    BY <1>1, <2>1, FS_Subset, FS_CardinalityType
<1>3. IsFiniteSet(Running) /\ Cardinality(Running) \in Nat
  <2>1. IsFiniteSet({"models", "text", "schema", "stream", "tools", "vision"})
    <3>1. IsFiniteSet({"models", "text", "schema"})
      <4>1. IsFiniteSet({"models"} \cup {"text"} \cup {"schema"})
        BY FS_Singleton, FS_Union
      <4>2. QED
        BY <4>1, {"models"} \cup {"text"} \cup {"schema"} = {"models", "text", "schema"}
    <3>2. IsFiniteSet({"stream", "tools", "vision"})
      <4>1. IsFiniteSet({"stream"} \cup {"tools"} \cup {"vision"})
        BY FS_Singleton, FS_Union
      <4>2. QED
        BY <4>1, {"stream"} \cup {"tools"} \cup {"vision"} = {"stream", "tools", "vision"}
    <3>3. IsFiniteSet({"models", "text", "schema"} \cup {"stream", "tools", "vision"})
      BY <3>1, <3>2, FS_Union
    <3>4. QED
      BY <3>3, {"models", "text", "schema"} \cup {"stream", "tools", "vision"}
                 = {"models", "text", "schema", "stream", "tools", "vision"}
  <2>2. Running \subseteq {"models", "text", "schema", "stream", "tools", "vision"}
    BY TestsFacts DEF Running
  <2>3. QED
    BY <2>1, <2>2, FS_Subset, FS_CardinalityType
<1>4. \A bucket : Occupying(bucket) \in Nat
  <2>1. ASSUME NEW bucket
        PROVE Occupying(bucket) \in Nat
    <3>1. Cardinality(Users(bucket)) \in Nat /\ Cardinality(Running) \in Nat
      BY <1>2, <1>3
    <3>2. QED
      BY <3>1 DEF Occupying, Users, Running
  <2>2. QED
    BY <2>1
<1>5. QED
  BY <1>2, <1>3, <1>4

\* Nobody new in a bucket, and nothing new running: no more is occupied.
LEMMA FewerOccupy ==
  ASSUME NEW bucket, Users(bucket)' \subseteq Users(bucket), Running' \subseteq Running,
         Over => Over',
         \/ Over' \/ Running' = {} \/ namespace'[Checker] = namespace[Checker]
  PROVE Occupying(bucket)' \in Nat /\ Occupying(bucket)' <= Occupying(bucket)
<1>1. IsFiniteSet(Users(bucket)) /\ Cardinality(Users(bucket)) \in Nat
  BY Finite
<1>2. IsFiniteSet(Running) /\ Cardinality(Running) \in Nat
  BY Finite
<1>3. /\ Cardinality(Users(bucket)') \in Nat
      /\ Cardinality(Users(bucket)') <= Cardinality(Users(bucket))
  BY <1>1, FS_Subset, FS_CardinalityType
<1>4. Cardinality(Running') \in Nat /\ Cardinality(Running') <= Cardinality(Running)
  BY <1>2, FS_Subset, FS_CardinalityType
<1>5. Occupying(bucket) = Cardinality(Users(bucket))
        + IF Over \/ namespace[Checker] # bucket THEN 0 ELSE Cardinality(Running)
  BY DEF Occupying, Users, Running
<1>6. Occupying(bucket)' = Cardinality(Users(bucket)')
        + IF Over' \/ namespace'[Checker] # bucket THEN 0 ELSE Cardinality(Running')
  BY DEF Occupying, Users, Running
<1>7. Running' = {} => Cardinality(Running') = 0
  BY FS_EmptySet
<1>8. QED
  BY <1>1, <1>2, <1>3, <1>4, <1>5, <1>6, <1>7

-----------------------------------------------------------------------------
(* The steps of the command *)

\* The test in progress is one of the plan's; the earlier ones and the later
\* ones are others.
LEMMA CurrentFacts ==
  ASSUME TypeOK, ResultsInv, phase = "probing"
  PROVE /\ Current \in Tests /\ Len(results) \in Nat
        /\ Len(results) + 1 \in 1..Len(Plan) /\ Len(results) + 1 <= Len(TESTS)
        /\ \A j \in 1..Len(Plan) : j # Len(results) + 1 => Plan[j] # Current
<1>1. Plan \in Seq(Tests) /\ \A i, j \in 1..Len(Plan) : Plan[i] = Plan[j] => i = j
  BY PlanFacts DEF TypeOK
<1>2. Len(results) \in Nat /\ Len(results) + 1 \in 1..Len(Plan)
  BY <1>1 DEF TypeOK, ResultsInv
<1>3. PICK n \in 1..6 : n = Len(Plan)
  BY PlanFacts DEF TypeOK
<1>4. PICK k \in Nat : k = Len(results)
  BY <1>2
<1>5. k + 1 \in 1..n
  BY <1>2, <1>3, <1>4
<1>6. k + 1 <= 6
  BY <1>5
<1>7. Len(TESTS) = 6
  BY TestsFacts
<1>8. Len(results) + 1 <= Len(TESTS)
  BY <1>4, <1>6, <1>7
<1>9. QED
  BY <1>1, <1>2, <1>8 DEF Current

\* A verdict is what the test establishes.
LEMMA PassesFacts ==
  ASSUME NEW t \in Tests, NEW a \in Answers(t)
  PROVE /\ Passes(t, a) \in BOOLEAN
        /\ Passes(t, a) <=> a \in Establishes(t)
<1>1. t \in {"models", "text", "schema", "stream", "tools", "vision"}
  BY TestsFacts
<1>2. CASE t = "models"
  <2>1. a \in Catalogs /\ (Passes(t, a) <=> a.text = "catalog")
    BY <1>2 DEF Answers, Passes
  <2>2. Establishes(t) = {b \in Catalogs : b.text = "catalog"}
    BY <1>2 DEF Establishes
  <2>3. Passes(t, a) = (a.text = "catalog")
    BY <1>2 DEF Passes
  <2>4. QED
    BY <2>1, <2>2, <2>3
<1>3. CASE t = "tools"
  <2>1. a \in ToolAnswers /\ (Passes(t, a) <=> a.calls = "valid")
    BY <1>3 DEF Answers, Passes
  <2>2. Establishes(t) = {b \in ToolAnswers : b.calls = "valid"}
    BY <1>3 DEF Establishes
  <2>3. Passes(t, a) = (a.calls = "valid")
    BY <1>3 DEF Passes
  <2>4. QED
    BY <2>1, <2>2, <2>3
<1>4. CASE t \in {"text", "schema", "stream", "vision"}
  <2>1. a \in Prose
    BY <1>4 DEF Answers
  <2>2. Passes(t, a) = (/\ a.text # ""
                        /\ t = "schema" => a.text = "object"
                        /\ t = "vision" => a.text = "green")
    BY <1>4 DEF Passes
  <2>3. a \in Establishes(t) <=> (/\ a.text # ""
                                  /\ t = "schema" => a.text = "object"
                                  /\ t = "vision" => a.text = "green")
    BY <1>4, <2>1 DEF Establishes
  <2>4. QED
    BY <2>2, <2>3
<1>5. QED
  BY <1>1, <1>2, <1>3, <1>4

\* What a provider sends is what it may send to the test.
LEMMA AnswersFacts ==
  ASSUME NEW t \in Tests
  PROVE /\ Answers(t) \subseteq Catalogs \cup Prose \cup ToolAnswers
        /\ Establishes(t) \subseteq Answers(t)
<1>1. t \in {"models", "text", "schema", "stream", "tools", "vision"}
  BY TestsFacts
<1>2. QED
  BY <1>1 DEF Answers, Establishes

\* A command that runs leaves the configurations alone.
LEMMA ConfigFrame ==
  ASSUME ConfigInv, UNCHANGED configVars
  PROVE ConfigInv'
BY DEF ConfigInv, ConfigTypeOK, LinksEnd, LoadInv, Explicit, Resolved, configVars, loading

\* The plan and the usage are given by the arguments.
LEMMA PlanFrame ==
  ASSUME UNCHANGED situation
  PROVE Plan' = Plan /\ UsageFits' = UsageFits /\ \A t : Fit(t)' = Fit(t)
BY DEF Plan, UsageFits, Fit

\* A step of the command, or of nobody, that makes nothing run.
LEMMA OthersFrame ==
  ASSUME Inv, UNCHANGED <<configVars, holding>>, Over => Over', Running' \subseteq Running
  PROVE QuotaInv' /\ \A c \in Others : OtherInv(c)'
<1>1. UNCHANGED <<step, namespace, holding>>
  BY DEF configVars, loading
<1>2. ASSUME NEW bucket \in Paths
      PROVE Occupying(bucket)' <= MaxConcurrent
  <2>1. Users(bucket)' = Users(bucket) /\ namespace'[Checker] = namespace[Checker]
    BY <1>1 DEF Users
  <2>2. Occupying(bucket)' \in Nat /\ Occupying(bucket)' <= Occupying(bucket)
    BY <2>1, FewerOccupy
  <2>3. Occupying(bucket) \in Nat
    BY Finite
  <2>4. QED
    BY <2>2, <2>3, ChecksAssumption DEF Inv, QuotaInv
<1>3. QED
  BY <1>1, <1>2 DEF Inv, QuotaInv, OtherInv

\* The last step of a probe, whatever its verdict.
LEMMA Concluded ==
  ASSUME Inv, phase = "probing", NEW ok \in BOOLEAN, Conclude(ok),
         UNCHANGED <<configVars, situation, holding>>,
         lost' \subseteq Tests, faults' \in 0..MaxFaults,
         rows' \in [Tests -> {"none", "running", "done", "error", "cancelled"}],
         \A t \in Tests \ {Current} : rows'[t] = rows[t],
         rows'[Current] # "none" => rows[Current] # "none",
         rows'[Current] = "running" => rows[Current] = "running"
  PROVE Inv'
<1> USE DEF Inv
<1>1. /\ Current \in Tests /\ Len(results) \in Nat
      /\ Len(results) + 1 \in 1..Len(Plan)
      /\ \A j \in 1..Len(Plan) : j # Len(results) + 1 => Plan[j] # Current
  BY CurrentFacts
<1>2. Plan \in Seq(Tests) /\ Len(Plan) \in 1..6
  BY PlanFacts DEF TypeOK
<1>3. ConfigInv'
  BY ConfigFrame DEF ConfigInv, TypeOK
<1>4. Plan' = Plan /\ UsageFits' = UsageFits /\ \A t : Fit(t)' = Fit(t)
  BY PlanFrame
<1>5. PICK result : result = [test |-> Current, ok |-> ok]
  OBVIOUS
<1>6. /\ result \in [test : Tests, ok : BOOLEAN]
      /\ results' = Append(results, result)
      /\ result.test = Current /\ result.ok = ok
  BY <1>1, <1>5 DEF Conclude
<1>7. /\ results' \in Seq([test : Tests, ok : BOOLEAN])
      /\ Len(results') = Len(results) + 1
      /\ \A i \in 1..Len(results) : results'[i] = results[i]
      /\ results'[Len(results) + 1] = result
  BY <1>6 DEF TypeOK
<1>8. stage' = "preparing" /\ answer' = NULL
  BY DEF Conclude
<1>9. \/ Len(results') < Len(Plan) /\ phase' = "probing" /\ code' = NULL
      \/ /\ Len(results') = Len(Plan) /\ phase' = "exited" /\ code' \in {0, 1}
         /\ code' = 0 <=> \A i \in 1..Len(results') : results'[i].ok
  <2>1. CASE Len(results') < Len(Plan)
    BY <1>4, <2>1 DEF Conclude, ResultsInv
  <2>2. CASE ~ (Len(results') < Len(Plan))
    <3>1. /\ phase' = "exited"
          /\ code' = IF \A i \in DOMAIN results' : results'[i].ok THEN 0 ELSE 1
      BY <1>4, <2>2 DEF Conclude, Exit
    <3>2. DOMAIN results' = 1..Len(results')
      BY <1>7
    <3>3. Len(results') = Len(Plan)
      BY <1>1, <1>2, <1>7, <2>2
    <3>4. QED
      BY <3>1, <3>2, <3>3
  <2>3. QED
    BY <2>1, <2>2
<1>10. TypeOK'
  <2>1. Len(results) + 1 <= Len(TESTS)
    BY CurrentFacts
  <2>2. Len(results') <= Len(TESTS)
    BY <1>7, <2>1
  <2>3. QED
    BY <1>3, <1>7, <1>8, <1>9, <2>2 DEF TypeOK, ConfigInv
<1>11. QuotaInv' /\ \A c \in Others : OtherInv(c)'
  <2>1. Running' \subseteq Running
    BY <1>1 DEF Running
  <2>2. UNCHANGED <<configVars, holding>> /\ (Over => Over')
    BY DEF Over
  <2>3. QED
    BY <2>1, <2>2, OthersFrame
<1>12. BeforeInv'
  BY <1>9 DEF BeforeInv
<1>13. CauseInv'
  BY <1>4, <1>8, <1>9 DEF CauseInv, configVars, loading
<1>14. SentForCause'
  <2>1. \A t \in Tests : rows'[t] # "none" => rows[t] # "none"
    OBVIOUS
  <2>2. UNCHANGED <<situation, step, read>>
    BY DEF configVars, loading
  <2>3. QED
    BY <2>1, <2>2 DEF SentForCause
<1>15. ResultsInv'
  <2>1. \A i \in 1..Len(results') : results'[i].test = Plan[i]
    <3>1. ASSUME NEW i \in 1..Len(results')
          PROVE results'[i].test = Plan[i]
      <4>1. CASE i = Len(results) + 1
        BY <1>6, <1>7, <4>1 DEF Current
      <4>2. CASE i # Len(results) + 1
        BY <1>1, <1>7, <4>2 DEF ResultsInv
      <4>3. QED
        BY <4>1, <4>2
    <3>2. QED
      BY <3>1
  <2>2. QED
    BY <1>1, <1>4, <1>7, <1>9, <2>1 DEF ResultsInv
<1>16. ProgressInv'
  <2>1. SUFFICES ASSUME phase' = "probing"
                 PROVE ProgressInv'
    BY DEF ProgressInv
  <2>2. \A j \in 1..Len(Plan) : j > Len(results) + 1 => rows'[Plan[j]] = "none"
    <3>1. ASSUME NEW j \in 1..Len(Plan), j > Len(results) + 1
          PROVE rows'[Plan[j]] = "none"
      <4>1. Plan[j] \in Tests \ {Current} /\ rows[Plan[j]] = "none"
        BY <1>1, <1>2, <3>1 DEF ProgressInv
      <4>2. QED
        BY <4>1
    <3>2. QED
      BY <3>1
  <2>3. Len(results') < Len(Plan) /\ Current' = Plan[Len(results) + 2]
    BY <1>1, <1>4, <1>7, <1>9, <2>1 DEF Current
  <2>4. rows'[Current'] = "none"
    BY <1>1, <1>2, <1>7, <2>2, <2>3
  <2>5. QED
    BY <1>1, <1>2, <1>4, <1>7, <1>8, <2>2, <2>4 DEF ProgressInv
<1>17. QED
  BY <1>3, <1>10, <1>11, <1>12, <1>13, <1>14, <1>15, <1>16 DEF ConfigInv

\* check_command() up to the first probe makes nothing run.
LEMMA UsageStep ==
  ASSUME Inv, Usage
  PROVE Inv'
<1> USE DEF Inv
<1>1. /\ UNCHANGED <<configVars, situation, stage, results, rows, answer, lost, faults, holding>>
      /\ phase = "usage"
      /\ \/ ~ UsageFits /\ phase' = "exited" /\ code' = 2
         \/ UsageFits /\ phase' = "loading" /\ code' = code
  BY DEF Usage, Exit, UsageFits
<1>2. results = <<>> /\ stage = "preparing" /\ code = NULL /\ \A t \in Tests : rows[t] = "none"
  BY <1>1 DEF BeforeInv
<1>3. ConfigInv'
  BY <1>1, ConfigFrame DEF ConfigInv, TypeOK
<1>4. Plan' = Plan /\ (UsageFits' <=> UsageFits)
  BY <1>1, PlanFrame
<1>5. TypeOK'
  BY <1>1, <1>3 DEF TypeOK, ConfigInv
<1>6. QuotaInv' /\ \A c \in Others : OtherInv(c)'
  <2>1. Running' = Running /\ (Over => Over')
    BY <1>1 DEF Running, Over
  <2>2. QED
    BY <1>1, <2>1, OthersFrame
<1>7. BeforeInv' /\ CauseInv' /\ SentForCause' /\ ResultsInv' /\ ProgressInv'
  BY <1>1, <1>2, <1>4 DEF BeforeInv, CauseInv, SentForCause, ResultsInv, ProgressInv
<1>8. QED
  BY <1>3, <1>5, <1>6, <1>7 DEF ConfigInv

\* A source is chosen before anything is sent.
LEMMA ChooseStep ==
  ASSUME Inv, Choose
  PROVE Inv'
<1> USE DEF Inv
<1>1. /\ UNCHANGED <<configVars, situation, stage, results, rows, answer, lost, faults, holding>>
      /\ phase = "loading"
      /\ \/ /\ step[Checker] = "loaded" /\ read[Checker] # NULL
            /\ situation.scope = "external" => situation.allowExternal
            /\ phase' = "probing" /\ code' = code
         \/ phase' = "exited" /\ code' = 1
  BY DEF Choose, Exit
<1>2. results = <<>> /\ stage = "preparing" /\ code = NULL /\ \A t \in Tests : rows[t] = "none"
  BY <1>1 DEF BeforeInv
<1>3. ConfigInv'
  BY <1>1, ConfigFrame DEF ConfigInv, TypeOK
<1>4. Plan' = Plan /\ (UsageFits' <=> UsageFits) /\ Plan \in Seq(Tests) /\ Len(Plan) \in 1..6
  BY <1>1, PlanFrame, PlanFacts DEF TypeOK
<1>5. TypeOK'
  BY <1>1, <1>3 DEF TypeOK, ConfigInv
<1>6. QuotaInv' /\ \A c \in Others : OtherInv(c)'
  <2>1. Running' = Running /\ (Over => Over')
    BY <1>1 DEF Running, Over
  <2>2. QED
    BY <1>1, <2>1, OthersFrame
<1>7. BeforeInv' /\ SentForCause'
  BY <1>1, <1>2 DEF BeforeInv, SentForCause
<1>8. CauseInv'
  BY <1>1, <1>2, <1>4 DEF CauseInv, configVars, loading
<1>9. ResultsInv'
  BY <1>1, <1>2, <1>4 DEF ResultsInv
<1>10. ProgressInv'
  <2>1. SUFFICES ASSUME phase' = "probing"
                 PROVE ProgressInv'
    BY DEF ProgressInv
  <2>2. \A j \in 1..Len(Plan) : Plan[j] \in Tests
    BY <1>4
  <2>3. Current' = Plan[1] /\ Len(results) = 0
    BY <1>1, <1>2, <1>4 DEF Current
  <2>4. QED
    BY <1>1, <1>2, <1>4, <2>2, <2>3 DEF ProgressInv
<1>11. QED
  BY <1>3, <1>5, <1>6, <1>7, <1>8, <1>9, <1>10 DEF ConfigInv

\* A probe that goes on: its test and the results stay what they are.
LEMMA Continued ==
  ASSUME Inv, phase = "probing",
         UNCHANGED <<configVars, situation, phase, results, code, lost, holding>>,
         stage' \in {"acquiring", "exchanging", "finishing", "judging"},
         answer' \in Catalogs \cup Prose \cup ToolAnswers \cup {NULL},
         stage' = "finishing" => answer' \in Answers(Current) \cup {NULL},
         stage' = "judging" => answer' \in Answers(Current),
         faults' \in 0..MaxFaults,
         rows' \in [Tests -> {"none", "running", "done", "error", "cancelled"}],
         \A t \in Tests \ {Current} : rows'[t] = rows[t],
         Fit(Current),
         stage' = "acquiring" => rows'[Current] = "none",
         stage' \in {"exchanging", "finishing"} => rows'[Current] = "running",
         stage' = "judging" => rows'[Current] = "done",
         QuotaInv'
  PROVE Inv'
<1> USE DEF Inv
<1>1. /\ Current \in Tests /\ Len(results) \in Nat
      /\ Len(results) + 1 \in 1..Len(Plan)
      /\ \A j \in 1..Len(Plan) : j # Len(results) + 1 => Plan[j] # Current
  BY CurrentFacts
<1>2. /\ Plan \in Seq(Tests) /\ situation.all \in BOOLEAN
      /\ situation.all \/ Len(Plan) = 1
      /\ ~ situation.all /\ Plan[1] = "models" => Plan = <<"models">>
  BY PlanFacts DEF TypeOK
<1>3. ConfigInv'
  BY ConfigFrame DEF ConfigInv, TypeOK
<1>4. Plan' = Plan /\ (UsageFits' <=> UsageFits) /\ Current' = Current /\ (Fit(Current)' <=> Fit(Current))
  BY PlanFrame DEF Current
<1>5. TypeOK'
  BY <1>1, <1>3, AnswersFacts DEF TypeOK, ConfigInv
<1>6. \A c \in Others : OtherInv(c)'
  BY DEF OtherInv, configVars, loading
<1>7. BeforeInv' /\ ResultsInv'
  BY <1>4 DEF BeforeInv, ResultsInv
<1>8. CauseInv'
  BY <1>4 DEF CauseInv, configVars, loading
<1>9. ProgressInv'
  BY <1>1, <1>2, <1>4 DEF ProgressInv
<1>10. SentForCause'
  <2>1. /\ step[Checker] = "loaded" /\ read[Checker] # NULL /\ UsageFits
        /\ situation.scope = "external" => situation.allowExternal
    BY DEF CauseInv
  <2>2. situation.all => situation.test = NULL
    BY <2>1 DEF UsageFits
  <2>3. Current = "models" => situation.reasoning = NULL \/ situation.all
    <3>1. ~ situation.all => Current = Plan[1]
      BY <1>1, <1>2 DEF Current
    <3>2. QED
      BY <1>2, <2>1, <3>1 DEF UsageFits
  <2>4. UNCHANGED <<step, read, situation>>
    BY DEF configVars, loading
  <2>5. ASSUME NEW t \in Tests, rows'[t] # "none"
        PROVE /\ situation.all => situation.test = NULL
              /\ situation.scope = "external" => situation.allowExternal
              /\ step[Checker] = "loaded" /\ read[Checker] # NULL
              /\ situation.credential
              /\ t = "models" => situation.reasoning = NULL \/ situation.all
              /\ t # "models" => situation.extra /\ situation.reasoning # "unfit"
    <3>1. CASE t = Current
      BY <2>1, <2>2, <2>3, <3>1 DEF Fit
    <3>2. CASE t # Current
      BY <2>5, <3>2 DEF SentForCause
    <3>3. QED
      BY <3>1, <3>2
  <2>6. QED
    BY <2>4, <2>5 DEF SentForCause
<1>11. QED
  BY <1>3, <1>5, <1>6, <1>7, <1>8, <1>9, <1>10 DEF ConfigInv

\* A probe that is fit goes for a permit; one that is not has failed.
LEMMA PrepareStep ==
  ASSUME Inv, Prepare
  PROVE Inv'
<1> USE DEF Inv
<1>1. /\ phase = "probing" /\ stage = "preparing"
      /\ UNCHANGED <<configVars, situation, rows, lost, faults, holding>>
  BY DEF Prepare
<1>2. Current \in Tests
  BY <1>1, CurrentFacts
<1>3. CASE Fit(Current) /\ stage' = "acquiring" /\ UNCHANGED <<phase, results, answer, code>>
  <2>1. (Over => Over') /\ Running' \subseteq Running
    BY <1>1, <1>3 DEF Over, Running
  <2>2. QuotaInv'
    BY <1>1, <2>1, OthersFrame
  <2>3. rows'[Current] = "none"
    BY <1>1 DEF ProgressInv
  <2>4. QED
    BY <1>1, <1>3, <2>2, <2>3, Continued DEF TypeOK
<1>4. CASE ~ Fit(Current) /\ Conclude(FALSE)
  BY <1>1, <1>2, <1>4, Concluded DEF TypeOK
<1>5. QED
  BY <1>3, <1>4 DEF Prepare

\* A permit is the one more that the bucket has room for.
LEMMA AcquireStep ==
  ASSUME Inv, Acquire
  PROVE Inv'
<1> USE DEF Inv
<1>1. /\ phase = "probing" /\ stage = "acquiring" /\ stage' = "exchanging"
      /\ Occupying(namespace[Checker]) < MaxConcurrent
      /\ rows' = [rows EXCEPT ![Current] = "running"]
      /\ UNCHANGED <<configVars, situation, phase, results, answer, lost, code, faults, holding>>
  BY DEF Acquire
<1>2. Current \in Tests /\ rows[Current] = "none"
  BY <1>1, CurrentFacts DEF ProgressInv
<1>3. UNCHANGED namespace
  BY <1>1 DEF configVars, loading
<1>4. QuotaInv'
  <2>1. Running' = Running \cup {Current} /\ Current \notin Running
    BY <1>1, <1>2 DEF Running, TypeOK
  <2>2. Cardinality(Running') = Cardinality(Running) + 1
    BY <2>1, Finite, FS_AddElement
  <2>3. ASSUME NEW bucket \in Paths
        PROVE Occupying(bucket)' <= MaxConcurrent
    <3>1. Users(bucket)' = Users(bucket) /\ (Over' <=> Over)
      BY <1>1, <1>3 DEF Users, Over
    <3>2. /\ Occupying(bucket) = Cardinality(Users(bucket))
               + IF Over \/ namespace[Checker] # bucket THEN 0 ELSE Cardinality(Running)
          /\ Occupying(bucket)' = Cardinality(Users(bucket))
               + IF Over \/ namespace[Checker] # bucket THEN 0 ELSE Cardinality(Running')
      BY <1>3, <3>1 DEF Occupying, Users, Running
    <3>3. /\ Cardinality(Users(bucket)) \in Nat /\ Cardinality(Running) \in Nat
          /\ Occupying(bucket) <= MaxConcurrent
      BY Finite DEF QuotaInv
    <3>4. CASE namespace[Checker] = bucket
      BY <1>1, <2>2, <3>2, <3>3, <3>4, ChecksAssumption
    <3>5. CASE namespace[Checker] # bucket
      BY <3>2, <3>3, <3>5
    <3>6. QED
      BY <3>4, <3>5
  <2>4. QED
    BY <2>3 DEF QuotaInv
<1>5. Fit(Current)
  BY <1>1 DEF CauseInv
<1>6. /\ rows' \in [Tests -> {"none", "running", "done", "error", "cancelled"}]
      /\ \A t \in Tests \ {Current} : rows'[t] = rows[t]
      /\ rows'[Current] = "running"
  BY <1>1, <1>2 DEF TypeOK
<1>7. QED
  BY <1>1, <1>4, <1>5, <1>6, Continued DEF TypeOK

\* A permit that the ledger refuses is a failed probe without a row.
LEMMA AcquireFailsStep ==
  ASSUME Inv, AcquireFails
  PROVE Inv'
<1>1. phase = "probing" /\ Current \in Tests
  BY CurrentFacts DEF AcquireFails, Inv
<1>2. UNCHANGED <<configVars, situation, rows, lost, holding>> /\ Conclude(FALSE)
  BY DEF AcquireFails
<1>3. faults' \in 0..MaxFaults
  BY ChecksAssumption DEF AcquireFails, Fault, Inv, TypeOK
<1>4. QED
  BY <1>1, <1>2, <1>3, Concluded DEF Inv, TypeOK

\* What comes back is kept for the judgement, and the row stays active.
LEMMA ExchangeStep ==
  ASSUME Inv, Exchange
  PROVE Inv'
<1> USE DEF Inv
<1>1. /\ phase = "probing" /\ stage = "exchanging" /\ stage' = "finishing"
      /\ UNCHANGED <<configVars, situation, phase, results, rows, lost, code, holding>>
  BY DEF Exchange
<1>2. Current \in Tests
  BY <1>1, CurrentFacts
<1>3. /\ answer' \in Answers(Current) \cup {NULL}
      /\ Answers(Current) \subseteq Catalogs \cup Prose \cup ToolAnswers
  BY <1>2, AnswersFacts DEF Exchange
<1>4. faults' \in 0..MaxFaults
  BY ChecksAssumption DEF Exchange, Fault, TypeOK
<1>5. QuotaInv'
  <2>1. (Over => Over') /\ Running' \subseteq Running
    BY <1>1 DEF Over, Running
  <2>2. QED
    BY <1>1, <2>1, OthersFrame
<1>6. rows'[Current] = "running" /\ Fit(Current)
  BY <1>1 DEF ProgressInv, CauseInv
<1>7. QED
  BY <1>1, <1>3, <1>4, <1>5, <1>6, Continued DEF TypeOK

\* Whatever becomes of finish(), the row of the probe is no second one.
LEMMA FinishStep ==
  ASSUME Inv, Finish
  PROVE Inv'
<1> USE DEF Inv
<1>1. /\ phase = "probing" /\ stage = "finishing"
      /\ UNCHANGED <<configVars, situation, holding>>
  BY DEF Finish
<1>2. Current \in Tests /\ rows[Current] = "running" /\ answer \in Answers(Current) \cup {NULL}
  BY <1>1, CurrentFacts DEF ProgressInv
<1>3. CASE /\ Failed /\ Conclude(FALSE) /\ rows' = [rows EXCEPT ![Current] = "error"]
           /\ UNCHANGED <<lost, faults>>
  <2>1. /\ rows' \in [Tests -> {"none", "running", "done", "error", "cancelled"}]
        /\ \A t \in Tests \ {Current} : rows'[t] = rows[t]
        /\ rows'[Current] = "error"
    BY <1>2, <1>3 DEF TypeOK
  <2>2. QED
    BY <1>1, <1>2, <1>3, <2>1, Concluded DEF TypeOK
<1>4. CASE /\ ~ Failed
           /\ rows' = [rows EXCEPT ![Current] = "done"]
           /\ stage' = "judging"
           /\ UNCHANGED <<phase, results, answer, code, lost, faults>>
  <2>1. /\ rows' \in [Tests -> {"none", "running", "done", "error", "cancelled"}]
        /\ \A t \in Tests \ {Current} : rows'[t] = rows[t]
        /\ rows'[Current] = "done"
    BY <1>2, <1>4 DEF TypeOK
  <2>2. QuotaInv'
    <3>1. (Over => Over') /\ Running' \subseteq Running
      BY <1>4, <2>1 DEF Over, Running
    <3>2. QED
      BY <1>1, <3>1, OthersFrame
  <2>3. answer' \in Answers(Current) /\ Fit(Current)
    BY <1>1, <1>2, <1>4 DEF Failed, CauseInv
  <2>4. QED
    BY <1>1, <1>4, <2>1, <2>2, <2>3, Continued DEF TypeOK
<1>5. CASE Fault /\ Conclude(FALSE) /\ lost' = lost \cup {Current} /\ UNCHANGED rows
  <2>1. faults' \in 0..MaxFaults /\ lost' \subseteq Tests
    BY <1>2, <1>5, ChecksAssumption DEF Fault, TypeOK
  <2>2. QED
    BY <1>1, <1>2, <1>5, <2>1, Concluded DEF TypeOK
<1>6. QED
  BY <1>3, <1>4, <1>5 DEF Finish

\* The verdict is the only thing that a judgement adds.
LEMMA JudgeStep ==
  ASSUME Inv, Judge
  PROVE Inv'
<1>1. phase = "probing" /\ stage = "judging" /\ Current \in Tests
  BY CurrentFacts DEF Judge, Inv
<1>2. Passes(Current, answer) \in BOOLEAN
  <2>1. answer \in Answers(Current)
    BY <1>1 DEF Inv, ProgressInv
  <2>2. QED
    BY <1>1, <2>1, PassesFacts
<1>3. UNCHANGED <<configVars, situation, rows, lost, faults, holding>> /\ Conclude(Passes(Current, answer))
  BY DEF Judge
<1>4. QED
  BY <1>1, <1>2, <1>3, Concluded DEF Inv, TypeOK

\* An interrupted command is over.
LEMMA InterruptStep ==
  ASSUME Inv, Interrupt
  PROVE Inv'
<1> USE DEF Inv
<1>1. /\ phase = "probing" /\ phase' = "aborted" /\ code' = 1
      /\ rows' = [rows EXCEPT ![Current] = IF rows[Current] = "running" THEN "cancelled" ELSE rows[Current]]
      /\ UNCHANGED <<configVars, situation, stage, results, answer, lost, faults, holding>>
  BY DEF Interrupt
<1>2. Current \in Tests
  BY <1>1, CurrentFacts
<1>3. /\ rows' \in [Tests -> {"none", "running", "done", "error", "cancelled"}]
      /\ \A t \in Tests : /\ rows'[t] # "none" => rows[t] # "none"
                          /\ rows'[t] = "running" => rows[t] = "running"
  BY <1>1, <1>2 DEF TypeOK
<1>4. ConfigInv'
  BY <1>1, ConfigFrame DEF ConfigInv, TypeOK
<1>5. TypeOK'
  BY <1>1, <1>3, <1>4 DEF TypeOK, ConfigInv
<1>6. QuotaInv' /\ \A c \in Others : OtherInv(c)'
  <2>1. (Over => Over') /\ Running' \subseteq Running
    BY <1>1, <1>3 DEF Over, Running
  <2>2. QED
    BY <1>1, <2>1, OthersFrame
<1>7. SentForCause'
  BY <1>1, <1>3 DEF SentForCause, configVars, loading
<1>8. Plan' = Plan
  BY <1>1, PlanFrame
<1>9. BeforeInv' /\ CauseInv' /\ ResultsInv' /\ ProgressInv'
  BY <1>1, <1>8 DEF BeforeInv, CauseInv, ResultsInv, ProgressInv
<1>10. QED
  BY <1>4, <1>5, <1>6, <1>7, <1>9 DEF ConfigInv

-----------------------------------------------------------------------------
(* The loads, the edits and the other applications *)

\* The command is as it was, if its own configuration is once it is loaded.
LEMMA CommandFrame ==
  ASSUME Inv, UNCHANGED command, ConfigInv',
         holding' \in [Others -> {"before", "in", "after"}],
         step[Checker] = "loaded" => step'[Checker] = "loaded" /\ read'[Checker] = read[Checker]
  PROVE /\ TypeOK' /\ LinksEnd' /\ \A c \in Clients : LoadInv(c)'
        /\ BeforeInv' /\ CauseInv' /\ SentForCause' /\ ResultsInv' /\ ProgressInv'
<1> USE DEF Inv
<1>1. UNCHANGED <<situation, phase, stage, results, rows, answer, lost, code, faults>>
  BY DEF command
<1>2. Plan' = Plan /\ (UsageFits' <=> UsageFits) /\ \A t : Fit(t)' = Fit(t)
  BY <1>1, PlanFrame
<1>3. Current' = Current
  BY <1>1, <1>2 DEF Current
<1>4. TypeOK'
  BY <1>1 DEF TypeOK, ConfigInv
<1>5. CauseInv'
  BY <1>1, <1>2, <1>3 DEF CauseInv
<1>6. SentForCause'
  BY <1>1 DEF SentForCause
<1>7. BeforeInv' /\ ResultsInv' /\ ProgressInv'
  BY <1>1, <1>2, <1>3 DEF BeforeInv, ResultsInv, ProgressInv
<1>8. QED
  BY <1>4, <1>5, <1>6, <1>7 DEF ConfigInv

\* Who has not loaded has asked for no permit, the command included.
LEMMA LoadingStep ==
  ASSUME Inv, NEW c \in Clients, Load(c), UNCHANGED <<command, holding>>
  PROVE Inv'
<1> USE DEF Inv
<1>1. ConfigInv'
  BY LoadStep DEF ConfigInv, TypeOK
<1>2. /\ step[c] \notin {"loaded", "refused"}
      /\ \A d \in Clients \ {c} : /\ step'[d] = step[d]
                                  /\ read'[d] = read[d]
                                  /\ namespace'[d] = namespace[d]
  BY LoadFrame DEF TypeOK
<1>3. UNCHANGED <<phase, rows, holding>>
  BY DEF command
<1>4. \A d \in Clients : step[d] = "loaded" => step'[d] = "loaded" /\ read'[d] = read[d]
  BY <1>2
<1>5. /\ TypeOK' /\ LinksEnd' /\ \A d \in Clients : LoadInv(d)'
      /\ BeforeInv' /\ CauseInv' /\ SentForCause' /\ ResultsInv' /\ ProgressInv'
  <2>1. holding' \in [Others -> {"before", "in", "after"}]
    BY DEF TypeOK
  <2>2. step[Checker] = "loaded" => step'[Checker] = "loaded" /\ read'[Checker] = read[Checker]
    BY <1>4, ChecksAssumption
  <2>3. QED
    BY <1>1, <2>1, <2>2, CommandFrame
<1>6. \A d \in Others : OtherInv(d)'
  BY <1>3, <1>4 DEF OtherInv, Others
<1>7. QuotaInv'
  <2>1. ASSUME NEW bucket \in Paths
        PROVE Occupying(bucket)' <= MaxConcurrent
    <3>1. Users(bucket)' \subseteq Users(bucket)
      <4>1. c \in Others => holding[c] = "before"
        BY <1>2 DEF OtherInv
      <4>2. QED
        BY <1>2, <1>3, <4>1 DEF Users, Others
    <3>2. Over \/ Running = {} \/ namespace'[Checker] = namespace[Checker]
      <4>1. CASE c = Checker
        <5>1. phase # "probing"
          BY <1>2, <4>1 DEF CauseInv
        <5>2. QED
          BY <5>1 DEF BeforeInv, Over, Running, TypeOK
      <4>2. CASE c # Checker
        BY <1>2, <4>2, ChecksAssumption
      <4>3. QED
        BY <4>1, <4>2
    <3>3. Running' = Running /\ (Over' <=> Over)
      BY <1>3 DEF Running, Over
    <3>4. Occupying(bucket)' \in Nat /\ Occupying(bucket)' <= Occupying(bucket)
      BY <3>1, <3>2, <3>3, FewerOccupy
    <3>5. Occupying(bucket) \in Nat
      BY Finite
    <3>6. QED
      BY <3>4, <3>5, ChecksAssumption DEF QuotaInv
  <2>2. QED
    BY <2>1 DEF QuotaInv
<1>8. QED
  BY <1>5, <1>6, <1>7

\* An edit is seen by nobody but those who are still loading.
LEMMA EditingStep ==
  ASSUME Inv, NEW p \in Paths, Edit(p), UNCHANGED <<command, holding>>
  PROVE Inv'
<1> USE DEF Inv
<1>1. ConfigInv' /\ UNCHANGED <<choice, step, path, read, namespace>>
  BY EditStep DEF ConfigInv, TypeOK, loading
<1>2. UNCHANGED <<phase, rows, holding>>
  BY DEF command
<1>3. /\ TypeOK' /\ LinksEnd' /\ \A d \in Clients : LoadInv(d)'
      /\ BeforeInv' /\ CauseInv' /\ SentForCause' /\ ResultsInv' /\ ProgressInv'
  BY <1>1, CommandFrame DEF TypeOK
<1>4. QuotaInv' /\ \A c \in Others : OtherInv(c)'
  BY <1>1, <1>2 DEF QuotaInv, Occupying, Over, OtherInv
<1>5. QED
  BY <1>3, <1>4

\* The permit of another application is one more of its bucket's.
LEMMA TakeStep ==
  ASSUME Inv, NEW c \in Others, Take(c)
  PROVE Inv'
<1> USE DEF Inv
<1>1. /\ step[c] = "loaded" /\ read[c] # NULL /\ holding[c] = "before"
      /\ Occupying(namespace[c]) < MaxConcurrent
      /\ holding' = [holding EXCEPT ![c] = "in"]
      /\ UNCHANGED <<configVars, command>>
  BY DEF Take
<1>2. UNCHANGED <<step, read, namespace, phase, rows>>
  BY <1>1 DEF configVars, loading, command
<1>3. ConfigInv'
  BY <1>1, ConfigFrame DEF ConfigInv, TypeOK
<1>4. holding' \in [Others -> {"before", "in", "after"}]
  BY <1>1 DEF TypeOK
<1>5. /\ TypeOK' /\ LinksEnd' /\ \A d \in Clients : LoadInv(d)'
      /\ BeforeInv' /\ CauseInv' /\ SentForCause' /\ ResultsInv' /\ ProgressInv'
  BY <1>1, <1>2, <1>3, <1>4, CommandFrame
<1>6. \A d \in Others : OtherInv(d)'
  BY <1>1, <1>2 DEF OtherInv, TypeOK
<1>7. ASSUME NEW bucket \in Paths
      PROVE Occupying(bucket)' <= MaxConcurrent
  <2>1. /\ Occupying(bucket) = Cardinality(Users(bucket))
             + IF Over \/ namespace[Checker] # bucket THEN 0 ELSE Cardinality(Running)
        /\ Occupying(bucket)' = Cardinality(Users(bucket)')
             + IF Over \/ namespace[Checker] # bucket THEN 0 ELSE Cardinality(Running)
    BY <1>2 DEF Occupying, Users, Running, Over
  <2>2. /\ Cardinality(Users(bucket)) \in Nat /\ Cardinality(Running) \in Nat
        /\ Occupying(bucket) <= MaxConcurrent
    BY Finite DEF QuotaInv
  <2>3. CASE namespace[c] = bucket
    <3>1. Users(bucket)' = Users(bucket) \cup {c} /\ c \notin Users(bucket)
      BY <1>1, <1>2, <2>3 DEF Users, TypeOK
    <3>2. Cardinality(Users(bucket)') = Cardinality(Users(bucket)) + 1
      BY <3>1, Finite, FS_AddElement
    <3>3. QED
      BY <1>1, <2>1, <2>2, <2>3, <3>2, ChecksAssumption
  <2>4. CASE namespace[c] # bucket
    <3>1. Users(bucket)' = Users(bucket)
      BY <1>1, <1>2, <2>4 DEF Users, TypeOK
    <3>2. QED
      BY <2>1, <2>2, <3>1
  <2>5. QED
    BY <2>3, <2>4
<1>8. QED
  BY <1>5, <1>6, <1>7 DEF QuotaInv

\* A permit given back makes room.
LEMMA GiveStep ==
  ASSUME Inv, NEW c \in Others, Give(c)
  PROVE Inv'
<1> USE DEF Inv
<1>1. /\ holding[c] = "in" /\ holding' = [holding EXCEPT ![c] = "after"]
      /\ UNCHANGED <<configVars, command>>
  BY DEF Give
<1>2. UNCHANGED <<step, read, namespace, phase, rows>>
  BY <1>1 DEF configVars, loading, command
<1>3. ConfigInv'
  BY <1>1, ConfigFrame DEF ConfigInv, TypeOK
<1>4. holding' \in [Others -> {"before", "in", "after"}]
  BY <1>1 DEF TypeOK
<1>5. /\ TypeOK' /\ LinksEnd' /\ \A d \in Clients : LoadInv(d)'
      /\ BeforeInv' /\ CauseInv' /\ SentForCause' /\ ResultsInv' /\ ProgressInv'
  BY <1>1, <1>2, <1>3, <1>4, CommandFrame
<1>6. \A d \in Others : OtherInv(d)'
  BY <1>1, <1>2 DEF OtherInv, TypeOK
<1>7. ASSUME NEW bucket \in Paths
      PROVE Occupying(bucket)' <= MaxConcurrent
  <2>1. Users(bucket)' \subseteq Users(bucket)
    BY <1>1, <1>2 DEF Users, TypeOK
  <2>2. Running' \subseteq Running /\ (Over => Over') /\ namespace'[Checker] = namespace[Checker]
    BY <1>2 DEF Running, Over
  <2>3. Occupying(bucket)' \in Nat /\ Occupying(bucket)' <= Occupying(bucket)
    BY <2>1, <2>2, FewerOccupy
  <2>4. Occupying(bucket) \in Nat
    BY Finite
  <2>5. QED
    BY <2>3, <2>4, ChecksAssumption DEF QuotaInv
<1>8. QED
  BY <1>5, <1>6, <1>7 DEF QuotaInv

-----------------------------------------------------------------------------
(* The theorems *)

\* Inv holds before anything has happened.
LEMMA InitInv == Init => Inv
<1> SUFFICES ASSUME Init
             PROVE Inv
  OBVIOUS
<1> USE DEF Init
<1>1. ConfigInv
  <2>1. ConfigTypeOK /\ LinksEnd
    BY ConfigAssumption DEF ConfigInit, ConfigTypeOK, LinksEnd
  <2>2. \A c \in Clients : LoadInv(c)
    BY DEF ConfigInit, LoadInv
  <2>3. QED
    BY <2>1, <2>2 DEF ConfigInv
<1>2. situation \in Situation
  BY ChecksAssumption
<1>3. TypeOK
  <2>1. <<>> \in Seq([test : Tests, ok : BOOLEAN]) /\ Len(<<>>) = 0 /\ Len(TESTS) = 6
    BY TestsFacts
  <2>2. 0 \in 0..MaxFaults
    BY ChecksAssumption
  <2>3. QED
    BY <1>1, <1>2, <2>1, <2>2 DEF TypeOK, ConfigInv
<1>4. \A c \in Others : OtherInv(c)
  BY DEF OtherInv
<1>5. QuotaInv
  <2>1. ASSUME NEW bucket \in Paths
        PROVE Occupying(bucket) <= MaxConcurrent
    <3>1. Users(bucket) = {} /\ Running = {}
      BY DEF Users, Running
    <3>2. Cardinality(Users(bucket)) = 0 /\ Cardinality(Running) = 0
      BY <3>1, FS_EmptySet
    <3>3. Occupying(bucket) = 0
      BY <3>2 DEF Occupying, Users, Running
    <3>4. QED
      BY <3>3, ChecksAssumption
  <2>2. QED
    BY <2>1 DEF QuotaInv
<1>6. BeforeInv /\ CauseInv /\ SentForCause /\ ProgressInv
  BY DEF BeforeInv, CauseInv, SentForCause, ProgressInv
<1>7. ResultsInv
  <2>1. Len(Plan) \in Nat
    BY <1>2, PlanFacts
  <2>2. QED
    BY <2>1 DEF ResultsInv
<1>8. QED
  BY <1>1, <1>3, <1>4, <1>5, <1>6, <1>7 DEF Inv, ConfigInv

\* Inv is inductive.
LEMMA NextInv == Inv /\ [Next]_vars => Inv'
<1> SUFFICES ASSUME Inv, [Next]_vars
             PROVE Inv'
  OBVIOUS
<1>1. CASE Usage
  BY <1>1, UsageStep
<1>2. CASE LoadOwn
  BY <1>2, LoadingStep, ChecksAssumption DEF LoadOwn
<1>3. CASE Choose
  BY <1>3, ChooseStep
<1>4. CASE Prepare
  BY <1>4, PrepareStep
<1>5. CASE Acquire
  BY <1>5, AcquireStep
<1>6. CASE AcquireFails
  BY <1>6, AcquireFailsStep
<1>7. CASE Exchange
  BY <1>7, ExchangeStep
<1>8. CASE Finish
  BY <1>8, FinishStep
<1>9. CASE Judge
  BY <1>9, JudgeStep
<1>10. CASE Interrupt
  BY <1>10, InterruptStep
<1>11. ASSUME NEW c \in Others, LoadOther(c)
       PROVE Inv'
  BY <1>11, LoadingStep DEF LoadOther, Others
<1>12. ASSUME NEW c \in Others, Take(c)
       PROVE Inv'
  BY <1>12, TakeStep
<1>13. ASSUME NEW c \in Others, Give(c)
       PROVE Inv'
  BY <1>13, GiveStep
<1>14. ASSUME NEW p \in Paths, Edit(p), UNCHANGED <<command, holding>>
       PROVE Inv'
  BY <1>14, EditingStep
<1>15. CASE UNCHANGED vars
  <2>1. UNCHANGED <<configVars, command, holding>>
    BY <1>15 DEF vars
  <2>2. ConfigInv'
    BY <2>1, ConfigFrame DEF Inv, ConfigInv, TypeOK
  <2>3. UNCHANGED <<step, read, namespace, phase, rows>>
    BY <2>1 DEF configVars, loading, command
  <2>4. /\ TypeOK' /\ LinksEnd' /\ \A c \in Clients : LoadInv(c)'
        /\ BeforeInv' /\ CauseInv' /\ SentForCause' /\ ResultsInv' /\ ProgressInv'
    BY <2>1, <2>2, <2>3, CommandFrame DEF Inv, TypeOK
  <2>5. QuotaInv' /\ \A c \in Others : OtherInv(c)'
    BY <2>1, <2>3 DEF Inv, QuotaInv, Occupying, Over, OtherInv
  <2>6. QED
    BY <2>4, <2>5 DEF Inv
<1>16. QED
  BY <1>1, <1>2, <1>3, <1>4, <1>5, <1>6, <1>7, <1>8, <1>9, <1>10, <1>11, <1>12, <1>13, <1>14, <1>15
     DEF Next, Command

\* Inv holds in every state of every behaviour.
THEOREM ChecksInvariance == Spec => []Inv
BY InitInv, NextInv, PTL DEF Spec

\* Type correctness of the command, the other applications and their loads.
THEOREM ChecksTypes == Spec => []TypeOK
<1>1. Inv => TypeOK
  BY DEF Inv
<1>2. QED
  BY <1>1, ChecksInvariance, PTL

\* An application whose user has chosen a file works with that file's
\* sources or does not start, whatever is edited while it loads.
THEOREM ExplicitChoices == Spec => []ExplicitIsNeverEmpty
<1>1. Inv => ExplicitIsNeverEmpty
  BY ExplicitFollows DEF Inv, ConfigInv, TypeOK
<1>2. QED
  BY <1>1, ChecksInvariance, PTL

\* A limit belongs to the file: who has read the same file, by whichever
\* path, is in the same bucket, and a bucket is never over its limit.
THEOREM QuotaIsShared == Spec => []SharedQuota
<1>1. ASSUME Inv
      PROVE SharedQuota
  <2>1. ASSUME NEW file \in Paths,
               NEW users, users = {c \in Clients \ disturbed : read[c] = file}
        PROVE Cardinality({c \in users \cap Others : holding[c] = "in"})
                + (IF Over \/ Checker \notin users THEN 0
                   ELSE Cardinality({t \in Tests : rows[t] = "running"}))
              <= MaxConcurrent
    <3>1. \A c \in users : step[c] = "loaded" => namespace[c] = file
      BY <1>1, <2>1, ConfigAssumption DEF Inv, LoadInv
    <3>2. PICK held : held = {c \in users \cap Others : holding[c] = "in"}
      OBVIOUS
    <3>3. held \subseteq Users(file)
      BY <1>1, <2>1, <3>1, <3>2 DEF Inv, OtherInv, Users
    <3>4. Cardinality(held) \in Nat /\ Cardinality(held) <= Cardinality(Users(file))
      BY <3>3, Finite, FS_Subset, FS_CardinalityType
    <3>5. /\ Cardinality(Users(file)) \in Nat /\ Cardinality(Running) \in Nat
          /\ Occupying(file) <= MaxConcurrent
          /\ Occupying(file) = Cardinality(Users(file))
               + IF Over \/ namespace[Checker] # file THEN 0 ELSE Cardinality(Running)
      BY <1>1, Finite DEF Inv, QuotaInv, Occupying, Users, Running
    <3>6. Over \/ Checker \notin users \/ Running = {} \/ namespace[Checker] = file
      <4>1. CASE phase = "probing"
        BY <1>1, <3>1, <4>1 DEF Inv, CauseInv
      <4>2. CASE phase \in {"usage", "loading"}
        BY <1>1, <4>2 DEF Inv, BeforeInv, Running
      <4>3. CASE phase \in {"exited", "aborted"}
        BY <4>3 DEF Over
      <4>4. QED
        BY <1>1, <4>1, <4>2, <4>3 DEF Inv, TypeOK
    <3>7. Running = {} => Cardinality(Running) = 0
      BY FS_EmptySet
    <3>8. Cardinality(held) + (IF Over \/ Checker \notin users THEN 0 ELSE Cardinality(Running))
            <= MaxConcurrent
      BY <3>4, <3>5, <3>6, <3>7, ChecksAssumption
    <3>9. QED
      BY <3>2, <3>8 DEF Running
  <2>2. QED
    BY <2>1 DEF SharedQuota
<1>2. QED
  BY <1>1, ChecksInvariance, PTL

\* A command that was not interrupted has reported on every test of its plan
\* or has sent nothing, and its exit status is 0 just when all have passed.
THEOREM ReportsAreComplete == Spec => []ReportIsComplete
<1>1. ASSUME Inv
      PROVE ReportIsComplete
  <2>1. PICK collected : collected = [i \in DOMAIN results |-> results[i].test]
    OBVIOUS
  <2>2. /\ Len(results) \in Nat /\ DOMAIN results = 1..Len(results)
        /\ Plan \in Seq(Tests) /\ Len(Plan) \in 1..6
    BY <1>1, PlanFacts DEF Inv, TypeOK
  <2>3. Len(results) = Len(Plan) => collected = Plan
    BY <1>1, <2>1, <2>2 DEF Inv, ResultsInv
  <2>4. results = <<>> => collected # Plan
    BY <2>1, <2>2
  <2>5. phase = "exited" =>
          collected = Plan \/ (results = <<>> /\ code # 0 /\ \A t \in Tests : rows[t] = "none")
    BY <1>1, <2>3 DEF Inv, ResultsInv
  <2>6. code = 0 <=> phase = "exited" /\ collected = Plan /\ \A i \in DOMAIN results : results[i].ok
    <3>1. CASE phase = "exited"
      BY <1>1, <2>2, <2>3, <2>4, <3>1 DEF Inv, ResultsInv
    <3>2. CASE phase # "exited"
      BY <1>1, <3>2, ChecksAssumption DEF Inv, TypeOK, ResultsInv, BeforeInv
    <3>3. QED
      BY <3>1, <3>2
  <2>7. QED
    BY <2>1, <2>5, <2>6 DEF ReportIsComplete
<1>2. QED
  BY <1>1, ChecksInvariance, PTL

\* No probe is sent that the usage, the scope, the configuration, the
\* reasoning choice or the credentials stand against.
THEOREM NothingSentInVain == Spec => []SentForCause
<1>1. Inv => SentForCause
  BY DEF Inv
<1>2. QED
  BY <1>1, ChecksInvariance, PTL

\* A conclusion adds one result, about the test in progress.
LEMMA OneResult ==
  ASSUME Inv, phase = "probing", NEW ok \in BOOLEAN, Conclude(ok)
  PROVE \A i \in DOMAIN results' \ DOMAIN results : results'[i].test = Current /\ results'[i].ok = ok
<1>1. Current \in Tests
  BY CurrentFacts DEF Inv
<1>2. PICK result : result = [test |-> Current, ok |-> ok]
  OBVIOUS
<1>3. /\ results' = Append(results, result)
      /\ result.test = Current /\ result.ok = ok
      /\ result \in [test : Tests, ok : BOOLEAN]
  BY <1>1, <1>2 DEF Conclude
<1>4. \A i \in DOMAIN results' \ DOMAIN results : results'[i] = result
  BY <1>3 DEF Inv, TypeOK
<1>5. QED
  BY <1>3, <1>4

\* A verdict is true: the request is recorded as consumed and the answer is
\* what the test is about, or the probe has failed.
THEOREM VerdictsAreTrue == Spec => VerdictIsTrue
<1>1. ASSUME Inv, [Next]_vars
      PROVE [\A i \in DOMAIN results' \ DOMAIN results :
               LET r == results'[i] IN
               r.ok <=> rows'[r.test] = "done" /\ answer \in Establishes(r.test)]_vars
  <2>1. ASSUME NEW i \in DOMAIN results' \ DOMAIN results
        PROVE results'[i].ok <=> /\ rows'[results'[i].test] = "done"
                                 /\ answer \in Establishes(results'[i].test)
    <3>1. results' # results
      BY <2>1
    <3>2. \/ Prepare \/ AcquireFails \/ Finish \/ Judge
      BY <1>1, <3>1 DEF Next, Command, Usage, LoadOwn, Choose, Acquire, Exchange, Interrupt,
                        LoadOther, Take, Give, vars, command
    <3>3. phase = "probing" /\ Current \in Tests
      BY <1>1, <3>2, CurrentFacts DEF Inv, Prepare, AcquireFails, Finish, Judge
    <3>4. ASSUME Conclude(FALSE), rows'[Current] # "done"
          PROVE results'[i].ok <=> /\ rows'[results'[i].test] = "done"
                                   /\ answer \in Establishes(results'[i].test)
      <4>1. results'[i].test = Current /\ results'[i].ok = FALSE
        BY <1>1, <2>1, <3>3, <3>4, OneResult
      <4>2. QED
        BY <3>4, <4>1
    <3>5. CASE Prepare
      BY <1>1, <3>1, <3>3, <3>4, <3>5 DEF Prepare, Inv, ProgressInv
    <3>6. CASE AcquireFails
      BY <1>1, <3>3, <3>4, <3>6 DEF AcquireFails, Inv, ProgressInv
    <3>7. CASE Finish
      <4>1. Conclude(FALSE) /\ rows' \in {rows, [rows EXCEPT ![Current] = "error"]}
        BY <3>1, <3>7 DEF Finish
      <4>2. rows[Current] = "running"
        BY <1>1, <3>3, <3>7 DEF Finish, Inv, ProgressInv
      <4>3. rows'[Current] # "done"
        BY <1>1, <3>3, <4>1, <4>2 DEF Inv, TypeOK
      <4>4. QED
        BY <3>4, <4>1, <4>3
    <3>8. CASE Judge
      <4>1. /\ stage = "judging" /\ rows' = rows
            /\ Conclude(Passes(Current, answer))
        BY <3>8 DEF Judge
      <4>2. rows'[Current] = "done" /\ answer \in Answers(Current)
        BY <1>1, <3>3, <4>1 DEF Inv, ProgressInv
      <4>3. /\ Passes(Current, answer) \in BOOLEAN
            /\ Passes(Current, answer) <=> answer \in Establishes(Current)
        BY <3>3, <4>2, PassesFacts
      <4>4. results'[i].test = Current /\ results'[i].ok = Passes(Current, answer)
        BY <1>1, <2>1, <3>3, <4>1, <4>3, OneResult
      <4>5. QED
        BY <4>2, <4>3, <4>4
    <3>9. QED
      BY <3>2, <3>5, <3>6, <3>7, <3>8
  <2>2. QED
    BY <2>1
<1>2. QED
  BY <1>1, ChecksInvariance, PTL DEF Spec, VerdictIsTrue
=============================================================================
