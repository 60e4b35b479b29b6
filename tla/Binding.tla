------------------------------ MODULE Binding -------------------------------
(***************************************************************************)
(* How a declaration of a model becomes the controls of a request: the     *)
(* defaults and checks of validate_config(), Source.connect() and the      *)
(* probes of Source.check(), resolve_reasoning(), and build_kwargs() of    *)
(* the connected model (src/sheetbend/config.py, source.py, reasoning.py,  *)
(* llm_adapter.py).                                                        *)
(*                                                                         *)
(* One source with one configured model.  A caller opens connections to    *)
(* it, one at a time, probes it or an unconfigured model, and prompts.     *)
(***************************************************************************)
EXTENDS Integers, FiniteSets, Functions

CONSTANTS
  Levels,          \* named efforts: low, medium, high
  Presets,         \* the native values that "on" may stand for
  Capabilities,
  CapabilityDefaults,   \* those the schema's defaults declare
  NULL

Choices  == {"provider", "off", "on"} \cup Levels
Controls == {"unknown", "fixed-off", "fixed-on", "reasoning_effort", "chat_template_kwargs"}
Efforts  == {"none"} \cup Levels \cup Presets
Models   == {"configured", "other"}

ASSUME BindingAssumption ==
  /\ {"provider", "off", "on", "none"} \cap (Levels \cup Presets) = {}
  /\ CapabilityDefaults \subseteq Capabilities
  /\ NULL \notin Choices \cup Controls \cup Efforts \cup {"SelectionError"}
  /\ NULL \notin BOOLEAN

\* The values table: the schema fixes what each key but "on" may stand for.
ValueTables ==
  LET meant(choice) == CASE choice = "off" -> {"none"}
                         [] choice = "on"  -> Presets
                         [] OTHER          -> {choice}
  IN UNION {{v \in [keys -> Efforts] : \A k \in keys : v[k] \in meant(k)} :
              keys \in SUBSET (Choices \ {"provider"})}

NoValues == << >>
Absent(values) == DOMAIN values = {}

\* A model's table as the file has it; an omitted key is NULL.
Written == [control : Controls \cup {NULL}, default : Choices \cup {NULL},
            values : ValueTables, capabilities : SUBSET Capabilities]

VARIABLES
  written,         \* the file
  definition,      \* Source._definition of the model, or NULL: not loaded
  connection,      \* the open connection, or NULL
  last,            \* the last operation of the caller and what it raised
  sent             \* the last prompt and the request body it became, or NULL

vars == <<written, definition, connection, last, sent>>

-----------------------------------------------------------------------------
\* Mutant of Defaulted: only the default choice is filled in.
DefaultedChoice(d) == [d EXCEPT !.default = IF @ = NULL THEN "provider" ELSE @]

\* _apply_defaults()
Defaulted(d) ==
  [d EXCEPT !.control = IF @ = NULL THEN "unknown" ELSE @,
            !.default = IF @ = NULL THEN "provider" ELSE @]

\* Mutant of Supported: a level counts as "on" for a template's switch.
SupportedLoosely(d, selected) ==
  \/ selected = "provider"
  \/ d.control = "fixed-off" /\ selected = "off"
  \/ d.control = "fixed-on" /\ selected = "on"
  \/ d.control = "reasoning_effort" /\ selected \in DOMAIN d.values
  \/ d.control = "chat_template_kwargs"

\* resolve_reasoning(): whether the declaration supports a choice
Supported(d, selected) ==
  \/ selected = "provider"
  \/ d.control = "fixed-off" /\ selected = "off"
  \/ d.control = "fixed-on" /\ selected = "on"
  \/ d.control = "reasoning_effort" /\ selected \in DOMAIN d.values
  \/ d.control = "chat_template_kwargs" /\ selected \in {"off", "on"}

Selected(d, requested) == IF requested = NULL THEN d.default ELSE requested

\* ... and what it sends: at most one of the two parameters.
Plan(d, requested) ==
  LET selected == Selected(d, requested) IN
  [requested |-> requested, selected |-> selected, control |-> d.control,
   effort |-> IF d.control = "reasoning_effort" /\ selected # "provider"
              THEN d.values[selected] ELSE NULL,
   thinking |-> IF d.control = "chat_template_kwargs" /\ selected # "provider"
                THEN selected = "on" ELSE NULL]

\* The schema's condition on the values table, then the resolver on the default.
Valid(d) ==
  /\ d.control = "reasoning_effort" <=> ~ Absent(d.values)
  /\ Supported(Defaulted(d), Defaulted(d).default)

\* _model_definition(): an unconfigured model gets the schema's defaults.
ModelDefinition(model) ==
  IF model = "configured" THEN definition
  ELSE [control |-> "unknown", default |-> "provider", values |-> NoValues,
        capabilities |-> CapabilityDefaults]

Connected(d, requested, capabilities) ==
  [plan |-> Plan(d, requested), efforts |-> Range(d.values), capabilities |-> capabilities]

-----------------------------------------------------------------------------
Init ==
  /\ written \in Written
  /\ definition = NULL
  /\ connection = NULL
  /\ last = [call |-> "none"]
  /\ sent = NULL

\* The registry of an invalid file is never made.
Load ==
  /\ definition = NULL /\ Valid(written)
  /\ definition' = Defaulted(written)
  /\ UNCHANGED <<written, connection, last, sent>>

Loaded == definition # NULL /\ connection = NULL

Opened(d, requested, capabilities) ==
  /\ connection' = Connected(d, requested, capabilities)
  /\ UNCHANGED <<written, definition, sent>>

\* connect(): the model must be configured, the requirements declared, the
\* choice supported, in this order.
Connect(model, requires, requested) ==
  LET d == ModelDefinition(model)
      error == IF \/ model # "configured"
                  \/ ~ requires \subseteq d.capabilities
                  \/ ~ Supported(d, Selected(d, requested))
               THEN "SelectionError" ELSE NULL
  IN
  /\ Loaded
  /\ last' = [call |-> "connect", model |-> model, requires |-> requires,
              requested |-> requested, error |-> error]
  /\ IF error = NULL THEN Opened(d, requested, d.capabilities)
     ELSE UNCHANGED <<written, definition, connection, sent>>

\* Mutant of Probe: the probed capability is set in the source's definition.
ProbeInPlace(model, capability, requested) ==
  LET d == ModelDefinition(model) IN
  /\ Loaded /\ Supported(d, Selected(d, requested))
  /\ last' = [call |-> "check", model |-> model, requested |-> requested, error |-> NULL]
  /\ connection' = Connected(d, requested, d.capabilities \cup ({capability} \ {NULL}))
  /\ definition' = [definition EXCEPT !.capabilities = @ \cup ({capability} \ {NULL})]
  /\ UNCHANGED <<written, sent>>

\* check(): any model, and the capability it probes taken as declared, on a
\* copy of the definition.
Probe(model, capability, requested) ==
  LET d == ModelDefinition(model)
      error == IF Supported(d, Selected(d, requested)) THEN NULL ELSE "SelectionError"
  IN
  /\ Loaded
  /\ last' = [call |-> "check", model |-> model, requested |-> requested, error |-> error]
  /\ IF error = NULL
     THEN Opened(d, requested, d.capabilities \cup ({capability} \ {NULL}))
     ELSE UNCHANGED <<written, definition, connection, sent>>

\* Mutant of NativeRefused: only the value is looked at.
NativeUnlisted(c, effort) == effort # NULL /\ effort \notin c.efforts

\* _validate_native_reasoning() of the prompt's own reasoning_effort
NativeRefused(c, effort) ==
  /\ effort # NULL
  /\ \/ c.plan.selected # "provider" \/ c.plan.control # "reasoning_effort"
     \/ effort \notin c.efforts

\* build_kwargs(): a chat template option of the prompt meets the plan's
TemplateRefused(c, thinking) == thinking # NULL /\ c.plan.thinking # NULL

\* LLM's own build_kwargs() gives the prompt's options, the plan overrides.
Body(c, effort, thinking) ==
  [effort   |-> IF c.plan.effort # NULL THEN c.plan.effort ELSE effort,
   thinking |-> IF c.plan.thinking # NULL THEN c.plan.thinking ELSE thinking]

\* Both option of a prompt are taken as LLM might pass them on; its option
\* model refuses some of them sooner.
Prompt(effort, thinking) ==
  /\ connection # NULL
  /\ ~ NativeRefused(connection, effort) /\ ~ TemplateRefused(connection, thinking)
  /\ sent' = [effort |-> effort, thinking |-> thinking,
              body |-> Body(connection, effort, thinking)]
  /\ UNCHANGED <<written, definition, connection, last>>

Close ==
  /\ connection # NULL
  /\ connection' = NULL /\ sent' = NULL
  /\ UNCHANGED <<written, definition, last>>

Next ==
  \/ Load
  \/ \E model \in Models, requested \in Choices \cup {NULL} :
       \/ \E requires \in SUBSET Capabilities : Connect(model, requires, requested)
       \/ \E capability \in Capabilities \cup {NULL} : Probe(model, capability, requested)
  \/ \E effort \in Efforts \cup {NULL}, thinking \in BOOLEAN \cup {NULL} :
       Prompt(effort, thinking)
  \/ Close

Spec == Init /\ [][Next]_vars

-----------------------------------------------------------------------------
(* Properties *)

TypeOK ==
  /\ written \in Written
  /\ definition # NULL =>
       definition \in Written /\ NULL \notin {definition.control, definition.default}
  /\ connection # NULL =>
       /\ connection.plan.selected \in Choices /\ connection.plan.control \in Controls
       /\ connection.efforts \subseteq Efforts /\ connection.capabilities \subseteq Capabilities
  /\ sent # NULL =>
       /\ connection # NULL
       /\ sent.body \in [effort : Efforts \cup {NULL}, thinking : BOOLEAN \cup {NULL}]

\* A file that loads can be used: connecting with the configured default
\* and with capabilities the file declares never fails, and a requirement
\* the file does not declare is never met, whatever was probed before.
DeclarationsDecide ==
  last.call = "connect" /\ last.model = "configured" =>
    /\ ~ last.requires \subseteq written.capabilities => last.error # NULL
    /\ last.requires \subseteq written.capabilities /\ last.requested = NULL => last.error = NULL

\* What the request says in the control the model is declared to have.
Says(b, control, effort, thinking) ==
  CASE control = "reasoning_effort"     -> b.effort \in effort
    [] control = "chat_template_kwargs" -> b.thinking = thinking /\ b.effort = NULL
    [] OTHER                            -> b.effort = NULL

\* "Off never becomes low": what goes out never weakens the choice the
\* connection was opened with, whatever options the prompts bring.
NeverSoftened ==
  sent # NULL =>
    LET plan == connection.plan b == sent.body IN
    CASE plan.selected = "off" -> /\ plan.control \notin {"fixed-on", "unknown"}
                                  /\ Says(b, plan.control, {"none"}, FALSE)
      [] plan.selected = "on"  -> /\ plan.control \notin {"fixed-off", "unknown"}
                                  /\ Says(b, plan.control, Presets, TRUE)
      [] plan.selected \in Levels -> plan.control = "reasoning_effort" /\ b.effort = plan.selected
      [] OTHER                    -> b.effort = sent.effort /\ b.thinking = sent.thinking

\* One controlling choice: a prompt that goes out has its own options in
\* the body unchanged, none was overridden silently, and no effort goes out
\* that the file does not list for the model.
OneControl ==
  sent # NULL =>
    /\ sent.effort # NULL => sent.body.effort = sent.effort
    /\ sent.thinking # NULL => sent.body.thinking = sent.thinking
    /\ sent.body.effort # NULL => sent.body.effort \in Range(written.values)
=============================================================================
