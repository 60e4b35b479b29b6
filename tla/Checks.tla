------------------------------- MODULE Checks -------------------------------
(***************************************************************************)
(* sheetbend check: check_command() of src/sheetbend/cli.py, Source.check, *)
(* check_all() and list_models() of src/sheetbend/source.py and the probes *)
(* of src/sheetbend/checks.py.  One command loads its configuration,       *)
(* selects a source and probes it, test by test, each with a permit of the *)
(* source's bucket, while other applications that may have the same        *)
(* configuration hold permits, the ledger and the provider fail, and the   *)
(* user interrupts.                                                        *)
(*                                                                         *)
(* A registry with sources has one.  Admission, Connection and Binding     *)
(* have the insides of a permit, of a connection and of a model's options; *)
(* here a row of the ledger is one state, and taking a permit one step.    *)
(*                                                                         *)
(* Stages of a probe, stage:                                               *)
(*   preparing   before acquire(): reasoning, the llm extra, credentials   *)
(*   acquiring   in acquire()                                              *)
(*   exchanging  has a permit, and the request is on its way               *)
(*   finishing   the exchange has ended; in finish()                       *)
(*   judging     the connection is closed; the answer is looked at         *)
(***************************************************************************)
EXTENDS Config, Sequences

CONSTANTS
  Checker,          \* the client that runs the command
  Situations,       \* arguments and surroundings of it: see Situation
  MaxConcurrent,    \* of the source, in every configuration
  MaxFaults         \* bound on what goes wrong with the ledger and the provider

\* test = NULL: --test was not given.  An unconfigured model is one whose
\* reasoning choices are unfit.  A credential stands for all that is needed
\* of the environment: the secret, the CA bundle.
Situation ==
  [all : BOOLEAN, test : {"models", "text", "schema", "stream", "tools", "vision", NULL},
   reasoning : {"fit", "unfit", NULL}, model : {"given", "blank"},
   allowExternal : BOOLEAN, scope : {"local", "external"},
   credential : BOOLEAN, extra : BOOLEAN]

ASSUME ChecksAssumption ==
  /\ Checker \in Clients
  /\ Situations \subseteq Situation
  /\ MaxConcurrent \in Nat \ {0}
  /\ MaxFaults \in Nat
  /\ NULL \notin {0, 1, 2}

VARIABLES
  situation,
  phase, stage,
  results,          \* of the CheckReport, or the one CheckResult
  rows,             \* per test, the state of its request, "none" without one
  answer,           \* what the provider has sent to the test in progress
  lost,             \* history: tests whose finish() failed
  code,             \* exit status, NULL before
  faults,           \* failures of the ledger and the provider so far
  holding           \* per other client: before, in or after its one request

command == <<situation, phase, stage, results, rows, answer, lost, code, faults>>
vars == <<configVars, command, holding>>

TESTS == <<"models", "text", "schema", "stream", "tools", "vision">>
Tests == {TESTS[i] : i \in DOMAIN TESTS}
Others == Clients \ {Checker}

\* The default of --test is "models".
Plan ==
  CASE situation.all                             -> TESTS
    [] ~ situation.all /\ situation.test = NULL  -> <<"models">>
    [] OTHER                                     -> <<situation.test>>
Current == Plan[Len(results) + 1]

Catalogs == [text : {"catalog", "wrong shape", "not JSON"}, calls : {"none"}]
Prose == [text : {"", "words", "green", "object", "wrong object"}, calls : {"none"}]
ToolAnswers == [text : {"", "words"}, calls : {"none", "valid", "invalid", "several"}]
Answers(test) ==
  CASE test = "models" -> Catalogs [] test = "tools" -> ToolAnswers [] OTHER -> Prose

\* What README.md says the probes establish, as sets of answers.
Establishes(test) ==
  CASE test = "models" -> {a \in Catalogs : a.text = "catalog"}
    [] test = "tools"  -> {a \in ToolAnswers : a.calls = "valid"}
    [] test = "schema" -> {a \in Prose : a.text = "object"}
    [] test = "vision" -> {a \in Prose : a.text = "green"}
    [] OTHER           -> {a \in Prose : a.text # ""}

TypeOK ==
  /\ ConfigTypeOK
  /\ situation \in Situation
  /\ phase \in {"usage", "loading", "probing", "exited", "aborted"}
  /\ stage \in {"preparing", "acquiring", "exchanging", "finishing", "judging"}
  /\ results \in Seq([test : Tests, ok : BOOLEAN]) /\ Len(results) <= Len(TESTS)
  /\ rows \in [Tests -> {"none", "running", "done", "error", "cancelled"}]
  /\ answer \in Catalogs \cup Prose \cup ToolAnswers \cup {NULL}
  /\ lost \subseteq Tests
  /\ code \in {0, 1, 2, NULL}
  /\ faults \in 0..MaxFaults
  /\ holding \in [Others -> {"before", "in", "after"}]

Init ==
  /\ ConfigInit
  /\ situation \in Situations
  /\ phase = "usage" /\ stage = "preparing"
  /\ results = <<>>
  /\ rows = [t \in Tests |-> "none"]
  /\ answer = NULL
  /\ lost = {}
  /\ code = NULL
  /\ faults = 0
  /\ holding = [c \in Others |-> "before"]

Exit(status) == phase' = "exited" /\ code' = status
Fault == faults < MaxFaults /\ faults' = faults + 1
Over == phase \in {"exited", "aborted"}

\* Requests that occupy a slot of a bucket; those of a dead process do not.
Occupying(bucket) ==
  Cardinality({c \in Others : holding[c] = "in" /\ namespace[c] = bucket})
    + IF Over \/ namespace[Checker] # bucket THEN 0
      ELSE Cardinality({t \in Tests : rows[t] = "running"})

-----------------------------------------------------------------------------
(* check_command() up to the first probe *)

Usage ==
  /\ phase = "usage"
  /\ IF \/ situation.all /\ situation.test # NULL
        \/ ~ situation.all /\ Plan = <<"models">> /\ situation.reasoning # NULL
     THEN Exit(2) ELSE phase' = "loading" /\ UNCHANGED code
  /\ UNCHANGED <<configVars, situation, stage, results, rows, answer, lost, faults, holding>>

LoadOwn ==
  /\ phase = "loading"
  /\ Load(Checker)
  /\ UNCHANGED <<command, holding>>

\* Mutant of Choose: --allow-external is not asked for.
ChooseAny ==
  /\ phase = "loading" /\ step[Checker] \in {"loaded", "refused"}
  /\ IF step[Checker] = "loaded" /\ read[Checker] # NULL /\ situation.model # "blank"
     THEN phase' = "probing" /\ UNCHANGED code ELSE Exit(1)
  /\ UNCHANGED <<configVars, situation, stage, results, rows, answer, lost, faults, holding>>

\* ConfigError, SelectionError of an empty registry or of a scope, ValueError
\* of _selected_model(); otherwise the tests begin.
Choose ==
  /\ phase = "loading" /\ step[Checker] \in {"loaded", "refused"}
  /\ IF /\ step[Checker] = "loaded" /\ read[Checker] # NULL
        /\ situation.scope = "external" => situation.allowExternal
        /\ situation.model # "blank"
     THEN phase' = "probing" /\ UNCHANGED code ELSE Exit(1)
  /\ UNCHANGED <<configVars, situation, stage, results, rows, answer, lost, faults, holding>>

-----------------------------------------------------------------------------
(* One probe: check_source() *)

\* Mutant of Conclude: the report ends with the first failure.
ConcludeAtFailure(ok) ==
  /\ results' = Append(results, [test |-> Current, ok |-> ok])
  /\ stage' = "preparing"
  /\ answer' = NULL
  /\ IF ok /\ Len(results') < Len(Plan) THEN UNCHANGED <<phase, code>>
     ELSE Exit(IF \A i \in DOMAIN results' : results'[i].ok THEN 0 ELSE 1)

\* Its last step: CheckReport.ok decides the status of the last one's.
Conclude(ok) ==
  /\ results' = Append(results, [test |-> Current, ok |-> ok])
  /\ stage' = "preparing"
  /\ answer' = NULL
  /\ IF Len(results') < Len(Plan) THEN UNCHANGED <<phase, code>>
     ELSE Exit(IF \A i \in DOMAIN results' : results'[i].ok THEN 0 ELSE 1)

\* The reasoning choice, the import and the credentials, before a permit.
Fit(test) ==
  /\ situation.credential
  /\ test # "models" => situation.extra /\ situation.reasoning # "unfit"

Prepare ==
  /\ phase = "probing" /\ stage = "preparing"
  /\ \/ Fit(Current) /\ stage' = "acquiring" /\ UNCHANGED <<phase, results, answer, code>>
     \/ ~ Fit(Current) /\ Conclude(FALSE)
  /\ UNCHANGED <<configVars, situation, rows, lost, faults, holding>>

Acquire ==
  /\ phase = "probing" /\ stage = "acquiring"
  /\ Occupying(namespace[Checker]) < MaxConcurrent
  /\ rows' = [rows EXCEPT ![Current] = "running"]
  /\ stage' = "exchanging"
  /\ UNCHANGED <<configVars, situation, phase, results, answer, lost, code, faults, holding>>

\* CoordinationError; its row, if it has one, does not occupy a slot.
AcquireFails ==
  /\ phase = "probing" /\ stage = "acquiring"
  /\ Fault
  /\ Conclude(FALSE)
  /\ UNCHANGED <<configVars, situation, rows, lost, holding>>

\* The provider answers, as it should or not, or the exchange fails and the
\* answer is none.
Exchange ==
  /\ phase = "probing" /\ stage = "exchanging"
  /\ \/ answer' \in Establishes(Current) /\ UNCHANGED faults
     \/ answer' \in (Answers(Current) \cup {NULL}) \ Establishes(Current) /\ Fault
  /\ stage' = "finishing"
  /\ UNCHANGED <<configVars, situation, phase, results, rows, lost, code, holding>>

\* A catalog that is not JSON fails with the permit still held.
Failed == answer # NULL => answer.text = "not JSON"

\* Mutant of Finish: only what has succeeded is finished.
FinishDone ==
  /\ phase = "probing" /\ stage = "finishing"
  /\ IF Failed THEN Conclude(FALSE) /\ UNCHANGED rows
     ELSE /\ rows' = [rows EXCEPT ![Current] = "done"]
          /\ stage' = "judging"
          /\ UNCHANGED <<phase, results, answer, code>>
  /\ UNCHANGED <<configVars, situation, lost, faults, holding>>

\* A finish() that raises makes the probe fail, and nobody finishes the row.
Finish ==
  /\ phase = "probing" /\ stage = "finishing"
  /\ \/ Failed /\ Conclude(FALSE) /\ rows' = [rows EXCEPT ![Current] = "error"] /\ UNCHANGED <<lost, faults>>
     \/ /\ ~ Failed
        /\ rows' = [rows EXCEPT ![Current] = "done"]
        /\ stage' = "judging"
        /\ UNCHANGED <<phase, results, answer, code, lost, faults>>
     \/ Fault /\ Conclude(FALSE) /\ lost' = lost \cup {Current} /\ UNCHANGED rows
  /\ UNCHANGED <<configVars, situation, holding>>

\* Mutant of Passes: a tool call has to come with text.
PassesWithText(test, a) ==
  CASE test = "models" -> a.text = "catalog"
    [] test = "tools"  -> a.calls = "valid" /\ a.text # ""
    [] OTHER           -> /\ a.text # ""
                          /\ test = "schema" => a.text = "object"
                          /\ test = "vision" => a.text = "green"

\* list_models() after its with block, _probe_generation()
Passes(test, a) ==
  CASE test = "models" -> a.text = "catalog"
    [] test = "tools"  -> a.calls = "valid"
    [] OTHER           -> /\ a.text # ""
                          /\ test = "schema" => a.text = "object"
                          /\ test = "vision" => a.text = "green"

Judge ==
  /\ phase = "probing" /\ stage = "judging"
  /\ Conclude(Passes(Current, answer))
  /\ UNCHANGED <<configVars, situation, rows, lost, faults, holding>>

\* Mutant of Interrupt: a state that finish() does not know.
InterruptUnknown ==
  /\ phase = "probing"
  /\ rows' = [rows EXCEPT ![Current] = IF @ = "running" THEN "interrupted" ELSE @]
  /\ phase' = "aborted" /\ code' = 1
  /\ UNCHANGED <<configVars, situation, stage, results, answer, lost, faults, holding>>

\* KeyboardInterrupt is no Exception: nothing collects it.
Interrupt ==
  /\ phase = "probing"
  /\ rows' = [rows EXCEPT ![Current] = IF @ = "running" THEN "cancelled" ELSE @]
  /\ phase' = "aborted" /\ code' = 1
  /\ UNCHANGED <<configVars, situation, stage, results, answer, lost, faults, holding>>

-----------------------------------------------------------------------------
(* Another application *)

LoadOther(c) == Load(c) /\ UNCHANGED <<command, holding>>

Take(c) ==
  /\ step[c] = "loaded" /\ read[c] # NULL /\ holding[c] = "before"
  /\ Occupying(namespace[c]) < MaxConcurrent
  /\ holding' = [holding EXCEPT ![c] = "in"]
  /\ UNCHANGED <<configVars, command>>

Give(c) ==
  /\ holding[c] = "in"
  /\ holding' = [holding EXCEPT ![c] = "after"]
  /\ UNCHANGED <<configVars, command>>

-----------------------------------------------------------------------------
Command ==
  \/ Usage \/ LoadOwn \/ Choose \/ Prepare \/ Acquire \/ AcquireFails \/ Exchange \/ Finish \/ Judge

Next ==
  \/ Command \/ Interrupt
  \/ \E c \in Others : LoadOther(c) \/ Take(c) \/ Give(c)
  \/ \E p \in Paths : Edit(p) /\ UNCHANGED <<command, holding>>

Spec == Init /\ [][Next]_vars

\* The command keeps running, a provider answers or times out, and the
\* others, which ask once, give their permits back.  acquire() may fail but
\* need not: it is not counted on.
FairSpec ==
  /\ Spec
  /\ WF_vars(Usage \/ LoadOwn \/ Choose \/ Prepare \/ Acquire \/ Exchange \/ Finish \/ Judge)
  /\ \A c \in Others : WF_vars(Give(c))

-----------------------------------------------------------------------------
(* Properties *)

\* README.md: "Symlink paths to the same file share it".  All that the
\* applications with one configuration file have in flight, together, is
\* within its limit, unless a link was changed under one that was loading.
SharedQuota ==
  \A file \in Paths :
    LET users == {c \in Clients \ disturbed : read[c] = file} IN
    Cardinality({c \in users \cap Others : holding[c] = "in"})
      + (IF Over \/ Checker \notin users THEN 0
         ELSE Cardinality({t \in Tests : rows[t] = "running"}))
    <= MaxConcurrent

\* README.md: "the explicit diagnostic report intentionally collects all six
\* results" and "a failing check/report exits 1".  A command that is not
\* interrupted has every result of its plan, in order, whatever failed in
\* between, or has been refused and has sent nothing; and it says with 0, and
\* with nothing else, that all is well.
ReportIsComplete ==
  LET collected == [i \in DOMAIN results |-> results[i].test] IN
  /\ phase = "exited" =>
       collected = Plan \/ (results = <<>> /\ code # 0 /\ \A t \in Tests : rows[t] = "none")
  /\ code = 0 <=> phase = "exited" /\ collected = Plan /\ \A i \in DOMAIN results : results[i].ok

\* A probe passes just when its request is recorded as consumed and the
\* provider's answer establishes what the test is about.
VerdictIsTrue ==
  [][\A i \in DOMAIN results' \ DOMAIN results :
       LET r == results'[i] IN
       r.ok <=> rows'[r.test] = "done" /\ answer \in Establishes(r.test)]_vars

\* A request is made only if nothing on this side stands against it: a
\* usage that makes sense, a scope that was allowed, a file that was not
\* refused, a reasoning choice that can be met, credentials.
SentForCause ==
  \A t \in Tests : rows[t] # "none" =>
    /\ situation.all => situation.test = NULL
    /\ situation.scope = "external" => situation.allowExternal
    /\ step[Checker] = "loaded" /\ read[Checker] # NULL
    /\ situation.credential
    /\ t = "models" => situation.reasoning = NULL \/ situation.all
    /\ t # "models" => situation.extra /\ situation.reasoning # "unfit"

\* A command ends: no probe waits for the permit of an earlier one.  The
\* exception is a probe whose finish() was lost: its row stays until the
\* process dies, and with max_concurrent = 1 the next probe waits for it.
CommandEnds == phase = "usage" ~> Over \/ lost # {}
=============================================================================
