--------------------------- MODULE BindingProofs ----------------------------
(***************************************************************************)
(* Reasoning and capabilities for any levels, any native values of "on"    *)
(* and any capabilities: a choice goes out as it was declared, whatever a  *)
(* caller connects, probes and prompts.                                    *)
(***************************************************************************)
EXTENDS Binding, TLAPS

-----------------------------------------------------------------------------
(* Declarations *)

\* A declaration with all its keys, as connect() and check() get it.
Complete(d) ==
  /\ d.control \in Controls /\ d.default \in Choices /\ d.values \in ValueTables
  /\ d.capabilities \subseteq Capabilities
  /\ Supported(d, d.default)

\* What the keys of a values table stand for.
LEMMA Tables ==
  ASSUME NEW v \in ValueTables
  PROVE  /\ \A k \in DOMAIN v : v[k] \in Efforts
         /\ "off" \in DOMAIN v => v["off"] = "none"
         /\ "on" \in DOMAIN v => v["on"] \in Presets
         /\ \A k \in Levels : k \in DOMAIN v => v[k] = k
         /\ Range(v) = {v[k] : k \in DOMAIN v} /\ Range(v) \subseteq Efforts
<1> DEFINE meant(k) == CASE k = "off" -> {"none"} [] k = "on" -> Presets [] OTHER -> {k}
<1>1. PICK keys \in SUBSET (Choices \ {"provider"}) :
        v \in {f \in [keys -> Efforts] : \A k \in keys : f[k] \in meant(k)}
  BY DEF ValueTables
<1>2. meant("off") = {"none"} /\ meant("on") = Presets
  OBVIOUS
<1>3. ASSUME NEW k \in Levels PROVE meant(k) = {k}
  BY BindingAssumption
<1> HIDE DEF meant
<1>4. DOMAIN v = keys /\ \A k \in keys : v[k] \in Efforts /\ v[k] \in meant(k)
  BY <1>1
<1>5. Range(v) = {v[k] : k \in DOMAIN v}
  BY DEF Range
<1> QED
  BY <1>2, <1>3, <1>4, <1>5

\* A table without keys.
LEMMA NoTable == NoValues \in ValueTables /\ Range(NoValues) = {}
<1>1. NoValues \in [{} -> Efforts]
  BY DEF NoValues
<1>2. NoValues \in ValueTables
  BY <1>1 DEF ValueTables
<1> QED
  BY <1>1, <1>2 DEF Range

\* A file that validates declares its model completely.
LEMMA LoadedIsComplete ==
  ASSUME NEW d \in Written, Valid(d)
  PROVE  Complete(Defaulted(d))
BY BindingAssumption DEF Written, Valid, Complete, Defaulted, Controls, Choices

\* The schema's defaults do as well.
LEMMA DefaultsAreComplete ==
  Complete([control |-> "unknown", default |-> "provider", values |-> NoValues,
            capabilities |-> CapabilityDefaults])
BY NoTable, BindingAssumption DEF Complete, Supported, Controls, Choices

-----------------------------------------------------------------------------
(* The inductive invariant *)

DefinitionInv ==
  /\ written \in Written
  /\ definition # NULL => Valid(written) /\ definition = Defaulted(written)

\* An open connection was made for a choice its model's declaration supports.
ConnectionInv ==
  connection # NULL =>
    /\ definition # NULL
    /\ \E model \in Models, requested \in Choices \cup {NULL}, capabilities \in SUBSET Capabilities :
         LET d == ModelDefinition(model) IN
         /\ Supported(d, Selected(d, requested))
         /\ connection = Connected(d, requested, capabilities)

\* What connect() last said follows from the declaration alone.
AnswerInv ==
  last.call = "connect" /\ last.model = "configured" =>
    /\ definition # NULL
    /\ last.requested \in Choices \cup {NULL}
    /\ last.error = IF \/ ~ last.requires \subseteq definition.capabilities
                       \/ ~ Supported(definition, Selected(definition, last.requested))
                    THEN "SelectionError" ELSE NULL

\* A prompt that went out was not refused.
PromptInv ==
  sent # NULL =>
    /\ connection # NULL
    /\ \E effort \in Efforts \cup {NULL}, thinking \in BOOLEAN \cup {NULL} :
         /\ ~ NativeRefused(connection, effort) /\ ~ TemplateRefused(connection, thinking)
         /\ sent = [effort |-> effort, thinking |-> thinking,
                    body |-> Body(connection, effort, thinking)]

Inv == DefinitionInv /\ ConnectionInv /\ AnswerInv /\ PromptInv

\* Nothing is loaded at first.
LEMMA InitInv == Init => Inv
BY DEF Init, Inv, DefinitionInv, ConnectionInv, AnswerInv, PromptInv

\* Whichever model connect() or check() is called for has a complete
\* declaration.
LEMMA ModelsAreComplete ==
  ASSUME DefinitionInv, definition # NULL, NEW model \in Models
  PROVE  Complete(ModelDefinition(model))
BY LoadedIsComplete, DefaultsAreComplete DEF DefinitionInv, ModelDefinition

\* connect() opens for what the declaration supports.
LEMMA ConnectInv ==
  ASSUME Inv, NEW model \in Models, NEW requested \in Choices \cup {NULL},
         NEW requires \in SUBSET Capabilities, Connect(model, requires, requested)
  PROVE  Inv'
<1>1. PICK d : d = ModelDefinition(model)
  OBVIOUS
<1>2. definition # NULL /\ connection = NULL /\ sent = NULL
  BY DEF Connect, Loaded, Inv, PromptInv
<1>3. UNCHANGED <<written, definition, sent>> /\ ModelDefinition(model)' = d
  BY <1>1 DEF Connect, Opened, ModelDefinition
<1>4. Complete(d)
  BY <1>1, <1>2, ModelsAreComplete DEF Inv
<1>5. DefinitionInv' /\ PromptInv'
  BY <1>2, <1>3 DEF Inv, DefinitionInv, PromptInv
<1>6. CASE model = "configured" /\ requires \subseteq d.capabilities
           /\ Supported(d, Selected(d, requested))
  <2>1. connection' = Connected(d, requested, d.capabilities)
    BY <1>1, <1>6 DEF Connect, Opened
  <2>2. last' = [call |-> "connect", model |-> model, requires |-> requires,
                 requested |-> requested, error |-> NULL]
    BY <1>1, <1>6 DEF Connect
  <2>3. d = definition
    BY <1>1, <1>6 DEF ModelDefinition
  <2>4. ConnectionInv'
    BY <1>2, <1>3, <1>4, <1>6, <2>1 DEF ConnectionInv, Complete
  <2>5. AnswerInv'
    BY <1>2, <1>3, <1>6, <2>2, <2>3 DEF AnswerInv
  <2> QED
    BY <1>5, <2>4, <2>5 DEF Inv
<1>7. CASE ~ (model = "configured" /\ requires \subseteq d.capabilities
              /\ Supported(d, Selected(d, requested)))
  <2>1. connection' = connection
    BY <1>1, <1>7, BindingAssumption DEF Connect
  <2>2. last' = [call |-> "connect", model |-> model, requires |-> requires,
                 requested |-> requested, error |-> "SelectionError"]
    BY <1>1, <1>7 DEF Connect
  <2>3. model = "configured" => d = definition
    BY <1>1 DEF ModelDefinition
  <2>4. ConnectionInv'
    BY <1>2, <2>1 DEF ConnectionInv
  <2>5. AnswerInv'
    BY <1>2, <1>3, <1>7, <2>2, <2>3 DEF AnswerInv
  <2> QED
    BY <1>5, <2>4, <2>5 DEF Inv
<1> QED
  BY <1>6, <1>7

\* check() opens for any model, with its probed capability, and leaves the
\* declaration as it is.
LEMMA ProbeInv ==
  ASSUME Inv, NEW model \in Models, NEW requested \in Choices \cup {NULL},
         NEW capability \in Capabilities \cup {NULL}, Probe(model, capability, requested)
  PROVE  Inv'
<1>1. PICK d : d = ModelDefinition(model)
  OBVIOUS
<1>2. definition # NULL /\ connection = NULL /\ sent = NULL
  BY DEF Probe, Loaded, Inv, PromptInv
<1>3. UNCHANGED <<written, definition, sent>> /\ ModelDefinition(model)' = d
  BY <1>1 DEF Probe, Opened, ModelDefinition
<1>4. Complete(d)
  BY <1>1, <1>2, ModelsAreComplete DEF Inv
<1>5. DefinitionInv' /\ PromptInv'
  BY <1>2, <1>3 DEF Inv, DefinitionInv, PromptInv
<1>6. last'.call = "check"
  BY DEF Probe
<1>7. AnswerInv'
  BY <1>6 DEF AnswerInv
<1>8. ConnectionInv'
  <2>1. CASE Supported(d, Selected(d, requested))
    <3>1. PICK capabilities \in SUBSET Capabilities :
            connection' = Connected(d, requested, capabilities)
      BY <1>1, <1>4, <2>1 DEF Probe, Opened, Complete
    <3> QED
      BY <1>2, <1>3, <2>1, <3>1 DEF ConnectionInv
  <2>2. CASE ~ Supported(d, Selected(d, requested))
    BY <1>1, <1>2, <2>2, BindingAssumption DEF Probe, ConnectionInv
  <2> QED
    BY <2>1, <2>2
<1> QED
  BY <1>5, <1>7, <1>8 DEF Inv

\* Every step of a caller.
LEMMA StepInv == Inv /\ [Next]_vars => Inv'
<1> SUFFICES ASSUME Inv, [Next]_vars PROVE Inv'
  OBVIOUS
<1>1. CASE UNCHANGED vars
  BY <1>1 DEF Inv, DefinitionInv, ConnectionInv, AnswerInv, PromptInv, vars, ModelDefinition
<1>2. CASE Load
  BY <1>2 DEF Load, Inv, DefinitionInv, ConnectionInv, AnswerInv, PromptInv
<1>3. ASSUME NEW effort \in Efforts \cup {NULL}, NEW thinking \in BOOLEAN \cup {NULL},
             Prompt(effort, thinking)
      PROVE  Inv'
  <2>1. DefinitionInv' /\ ConnectionInv' /\ AnswerInv'
    BY <1>3 DEF Prompt, Inv, DefinitionInv, ConnectionInv, AnswerInv, ModelDefinition
  <2>2. PromptInv'
    BY <1>3 DEF Prompt, PromptInv
  <2> QED
    BY <2>1, <2>2 DEF Inv
<1>4. CASE Close
  BY <1>4 DEF Close, Inv, DefinitionInv, ConnectionInv, AnswerInv, PromptInv
<1> QED
  BY <1>1, <1>2, <1>3, <1>4, ConnectInv, ProbeInv DEF Next

\* The invariant holds whatever a caller does.
THEOREM BindingInvariance == Spec => []Inv
<1>1. Init => Inv
  BY InitInv
<1>2. Inv /\ [Next]_vars => Inv'
  BY StepInv
<1> QED
  BY <1>1, <1>2, PTL DEF Spec

-----------------------------------------------------------------------------
(* What a plan sends *)

\* Each choice has the parameter of the declared control, with the value
\* the declaration gives it.
Faithful(plan, values) ==
  /\ plan.selected \in Choices /\ plan.control \in Controls
  /\ plan.effort \in Range(values) \cup {NULL} /\ plan.thinking \in BOOLEAN \cup {NULL}
  /\ plan.selected = "provider" => plan.effort = NULL /\ plan.thinking = NULL
  /\ plan.selected = "off" =>
       /\ plan.control \in {"fixed-off", "reasoning_effort", "chat_template_kwargs"}
       /\ plan.effort = IF plan.control = "reasoning_effort" THEN "none" ELSE NULL
       /\ plan.thinking = IF plan.control = "chat_template_kwargs" THEN FALSE ELSE NULL
  /\ plan.selected = "on" =>
       /\ plan.control \in {"fixed-on", "reasoning_effort", "chat_template_kwargs"}
       /\ IF plan.control = "reasoning_effort" THEN plan.effort \in Presets
          ELSE plan.effort = NULL
       /\ plan.thinking = IF plan.control = "chat_template_kwargs" THEN TRUE ELSE NULL
  /\ plan.selected \in Levels =>
       plan.control = "reasoning_effort" /\ plan.effort = plan.selected /\ plan.thinking = NULL

\* resolve_reasoning() of a supported choice makes a faithful plan.
LEMMA PlansAreFaithful ==
  ASSUME NEW d, Complete(d), NEW requested \in Choices \cup {NULL},
         Supported(d, Selected(d, requested))
  PROVE  Faithful(Plan(d, requested), d.values)
<1>1. PICK selected, plan : selected = Selected(d, requested) /\ plan = Plan(d, requested)
  OBVIOUS
<1>2. selected \in Choices /\ d.control \in Controls /\ Supported(d, selected)
  BY <1>1 DEF Selected, Complete
<1>3. /\ plan.selected = selected /\ plan.control = d.control
      /\ plan.effort = IF d.control = "reasoning_effort" /\ selected # "provider"
                       THEN d.values[selected] ELSE NULL
      /\ plan.thinking = IF d.control = "chat_template_kwargs" /\ selected # "provider"
                         THEN selected = "on" ELSE NULL
  BY <1>1 DEF Plan
<1>4. /\ \A k \in DOMAIN d.values : d.values[k] \in Range(d.values)
      /\ "off" \in DOMAIN d.values => d.values["off"] = "none"
      /\ "on" \in DOMAIN d.values => d.values["on"] \in Presets
      /\ \A k \in Levels : k \in DOMAIN d.values => d.values[k] = k
  BY Tables DEF Complete
<1>5. selected \in {"provider", "off", "on"} \/ selected \in Levels
  BY <1>2 DEF Choices
<1>6. /\ NULL \notin BOOLEAN
      /\ \A k \in Levels : k \notin {"provider", "off", "on"}
  BY BindingAssumption
<1>7. ASSUME selected = "provider" PROVE Faithful(plan, d.values)
  <2>1. plan.effort = NULL /\ plan.thinking = NULL
    BY <1>3, <1>7
  <2> QED
    BY <1>2, <1>3, <1>6, <1>7, <2>1 DEF Faithful
<1>8. ASSUME selected = "off" PROVE Faithful(plan, d.values)
  <2>1. plan.thinking = IF plan.control = "chat_template_kwargs" THEN FALSE ELSE NULL
    BY <1>3, <1>8
  <2>2. plan.effort = IF plan.control = "reasoning_effort" THEN "none" ELSE NULL
    BY <1>2, <1>3, <1>4, <1>8 DEF Supported
  <2>3. plan.control \in {"fixed-off", "reasoning_effort", "chat_template_kwargs"}
    BY <1>2, <1>3, <1>8 DEF Supported
  <2>4. plan.effort \in Range(d.values) \cup {NULL}
    BY <1>2, <1>3, <1>4, <1>8 DEF Supported
  <2> QED
    BY <1>2, <1>3, <1>6, <1>8, <2>1, <2>2, <2>3, <2>4 DEF Faithful
<1>9. ASSUME selected = "on" PROVE Faithful(plan, d.values)
  <2>1. plan.thinking = IF plan.control = "chat_template_kwargs" THEN TRUE ELSE NULL
    BY <1>3, <1>9
  <2>2. IF plan.control = "reasoning_effort" THEN plan.effort \in Presets ELSE plan.effort = NULL
    BY <1>2, <1>3, <1>4, <1>9 DEF Supported
  <2>3. plan.control \in {"fixed-on", "reasoning_effort", "chat_template_kwargs"}
    BY <1>2, <1>3, <1>9 DEF Supported
  <2>4. plan.effort \in Range(d.values) \cup {NULL}
    BY <1>2, <1>3, <1>4, <1>9 DEF Supported
  <2> QED
    BY <1>2, <1>3, <1>6, <1>9, <2>1, <2>2, <2>3, <2>4 DEF Faithful
<1>10. ASSUME selected \in Levels PROVE Faithful(plan, d.values)
  <2>1. plan.control = "reasoning_effort" /\ selected \in DOMAIN d.values
    BY <1>2, <1>3, <1>6, <1>10 DEF Supported
  <2>2. plan.effort = selected /\ plan.effort \in Range(d.values) /\ plan.thinking = NULL
    BY <1>3, <1>4, <1>6, <1>10, <2>1
  <2> QED
    BY <1>2, <1>3, <1>6, <1>10, <2>1, <2>2 DEF Faithful
<1> QED
  BY <1>1, <1>5, <1>7, <1>8, <1>9, <1>10

-----------------------------------------------------------------------------
(* The theorems *)

\* An open connection has a faithful plan, and lists the efforts that the
\* file lists for its model.
LEMMA OpenConnections ==
  ASSUME Inv, connection # NULL
  PROVE  /\ Faithful(connection.plan, written.values) \/ Faithful(connection.plan, NoValues)
         /\ connection.efforts \in {Range(written.values), {}}
         /\ connection.plan.effort \in connection.efforts \cup {NULL}
         /\ connection.efforts \subseteq Efforts
         /\ connection.capabilities \subseteq Capabilities
<1>1. PICK model \in Models, requested \in Choices \cup {NULL}, capabilities \in SUBSET Capabilities :
        /\ Supported(ModelDefinition(model), Selected(ModelDefinition(model), requested))
        /\ connection = Connected(ModelDefinition(model), requested, capabilities)
  BY DEF Inv, ConnectionInv
<1>2. PICK d : d = ModelDefinition(model)
  OBVIOUS
<1>3. definition = Defaulted(written) /\ Complete(d)
  BY <1>2, ModelsAreComplete DEF Inv, DefinitionInv, ConnectionInv
<1>4. d.values \in {written.values, NoValues}
  BY <1>2, <1>3 DEF ModelDefinition, Defaulted, Inv, DefinitionInv, Written
<1>5. /\ connection.plan = Plan(d, requested) /\ connection.efforts = Range(d.values)
      /\ connection.capabilities = capabilities
  BY <1>1, <1>2 DEF Connected
<1>6. Faithful(connection.plan, d.values)
  BY <1>1, <1>2, <1>3, <1>5, PlansAreFaithful
<1>7. Range(d.values) \subseteq Efforts
  BY <1>3, Tables DEF Complete
<1>8. Faithful(connection.plan, d.values) => connection.plan.effort \in Range(d.values) \cup {NULL}
  BY DEF Faithful
<1> QED
  BY <1>4, <1>5, <1>6, <1>7, <1>8, NoTable

\* A prompt that went out, as build_kwargs() saw and made it.
LEMMA PromptsOut ==
  ASSUME Inv, sent # NULL
  PROVE  /\ connection # NULL
         /\ sent.effort \in Efforts \cup {NULL} /\ sent.thinking \in BOOLEAN \cup {NULL}
         /\ ~ NativeRefused(connection, sent.effort) /\ ~ TemplateRefused(connection, sent.thinking)
         /\ sent.body = Body(connection, sent.effort, sent.thinking)
<1>1. PICK effort \in Efforts \cup {NULL}, thinking \in BOOLEAN \cup {NULL} :
        /\ ~ NativeRefused(connection, effort) /\ ~ TemplateRefused(connection, thinking)
        /\ sent = [effort |-> effort, thinking |-> thinking,
                   body |-> Body(connection, effort, thinking)]
  BY DEF Inv, PromptInv
<1>2. sent.effort = effort /\ sent.thinking = thinking
      /\ sent.body = Body(connection, effort, thinking)
  BY <1>1
<1> QED
  BY <1>1, <1>2 DEF Inv, PromptInv

\* Declarations, connections and bodies keep their types.
THEOREM BindingTypeCorrect == Spec => []TypeOK
<1>1. Inv => TypeOK
  <2> SUFFICES ASSUME Inv PROVE TypeOK
    OBVIOUS
  <2>1. written \in Written
    BY DEF Inv, DefinitionInv
  <2>2. ASSUME definition # NULL
        PROVE  definition \in Written /\ NULL \notin {definition.control, definition.default}
    BY <2>2, BindingAssumption DEF Inv, DefinitionInv, Written, Defaulted, Controls, Choices
  <2>3. ASSUME connection # NULL
        PROVE  /\ connection.plan.selected \in Choices /\ connection.plan.control \in Controls
               /\ connection.efforts \subseteq Efforts
               /\ connection.capabilities \subseteq Capabilities
    BY <2>3, OpenConnections DEF Faithful
  <2>4. ASSUME sent # NULL
        PROVE  /\ connection # NULL
               /\ sent.body \in [effort : Efforts \cup {NULL}, thinking : BOOLEAN \cup {NULL}]
    <3>1. /\ connection.plan.effort \in Efforts \cup {NULL}
          /\ connection.plan.thinking \in BOOLEAN \cup {NULL}
      BY <2>4, PromptsOut, OpenConnections DEF Faithful
    <3> QED
      BY <2>4, <3>1, PromptsOut DEF Body
  <2> QED
    BY <2>1, <2>2, <2>3, <2>4 DEF TypeOK
<1> QED
  BY <1>1, BindingInvariance, PTL

\* What the file declares, and nothing else, decides about connect().
THEOREM OnlyDeclarations == Spec => []DeclarationsDecide
<1>1. Inv => DeclarationsDecide
  <2> SUFFICES ASSUME Inv, last.call = "connect", last.model = "configured"
               PROVE  /\ ~ last.requires \subseteq written.capabilities => last.error # NULL
                      /\ last.requires \subseteq written.capabilities /\ last.requested = NULL
                           => last.error = NULL
    BY DEF DeclarationsDecide
  <2>1. definition = Defaulted(written) /\ Valid(written) /\ written \in Written
        /\ last.error = IF \/ ~ last.requires \subseteq definition.capabilities
                           \/ ~ Supported(definition, Selected(definition, last.requested))
                        THEN "SelectionError" ELSE NULL
    BY DEF Inv, DefinitionInv, AnswerInv
  <2>2. definition.capabilities = written.capabilities
    BY <2>1 DEF Defaulted, Written
  <2>3. last.requested = NULL => Supported(definition, Selected(definition, last.requested))
    BY <2>1 DEF Valid, Selected
  <2>4. "SelectionError" # NULL
    BY BindingAssumption
  <2> QED
    BY <2>1, <2>2, <2>3, <2>4
<1> QED
  BY <1>1, BindingInvariance, PTL

\* A prompt's own option goes out as it is, or the prompt does not.
THEOREM OptionsHold == Spec => []OneControl
<1>1. Inv => OneControl
  <2> SUFFICES ASSUME Inv, sent # NULL
               PROVE  /\ sent.effort # NULL => sent.body.effort = sent.effort
                      /\ sent.thinking # NULL => sent.body.thinking = sent.thinking
                      /\ sent.body.effort # NULL => sent.body.effort \in Range(written.values)
    BY DEF OneControl
  <2>1. /\ sent.effort # NULL => connection.plan.selected = "provider"
                                 /\ sent.effort \in connection.efforts
        /\ sent.thinking # NULL => connection.plan.thinking = NULL
    BY PromptsOut DEF NativeRefused, TemplateRefused
  <2>2. connection.plan.selected = "provider" => connection.plan.effort = NULL
    BY PromptsOut, OpenConnections DEF Faithful
  <2>3. /\ connection.plan.effort \in connection.efforts \cup {NULL}
        /\ connection.efforts \subseteq Range(written.values)
    BY PromptsOut, OpenConnections
  <2>4. /\ sent.body.effort = IF connection.plan.effort # NULL THEN connection.plan.effort
                              ELSE sent.effort
        /\ sent.body.thinking = IF connection.plan.thinking # NULL THEN connection.plan.thinking
                                ELSE sent.thinking
    BY PromptsOut DEF Body
  <2> QED
    BY <2>1, <2>2, <2>3, <2>4
<1> QED
  BY <1>1, BindingInvariance, PTL

\* Off never becomes low, and no level another one.
THEOREM ChoicesHold == Spec => []NeverSoftened
<1>1. Inv => NeverSoftened
  <2> SUFFICES ASSUME Inv, sent # NULL PROVE NeverSoftened
    BY DEF NeverSoftened
  <2>1. PICK plan, b : plan = connection.plan /\ b = sent.body
    OBVIOUS
  <2>2. Faithful(plan, written.values) \/ Faithful(plan, NoValues)
    BY <2>1, PromptsOut, OpenConnections
  <2>3. plan.selected # "provider" => sent.effort = NULL
    BY <2>1, PromptsOut DEF NativeRefused
  <2>4. /\ b.effort = IF plan.effort # NULL THEN plan.effort ELSE sent.effort
        /\ b.thinking = IF plan.thinking # NULL THEN plan.thinking ELSE sent.thinking
    BY <2>1, PromptsOut DEF Body
  <2>5. /\ NULL \notin {"none"} \cup Levels \cup Presets \cup BOOLEAN
        /\ \A k \in Levels : k \notin {"provider", "off", "on"}
    BY BindingAssumption DEF Efforts
  <2>6. ASSUME plan.selected = "off"
        PROVE  plan.control \notin {"fixed-on", "unknown"} /\ Says(b, plan.control, {"none"}, FALSE)
    BY <2>2, <2>3, <2>4, <2>5, <2>6 DEF Faithful, Says
  <2>7. ASSUME plan.selected = "on"
        PROVE  plan.control \notin {"fixed-off", "unknown"} /\ Says(b, plan.control, Presets, TRUE)
    BY <2>2, <2>3, <2>4, <2>5, <2>7 DEF Faithful, Says
  <2>8. ASSUME plan.selected \in Levels
        PROVE  plan.control = "reasoning_effort" /\ b.effort = plan.selected
    BY <2>2, <2>4, <2>5, <2>8 DEF Faithful
  <2>9. ASSUME plan.selected \notin {"off", "on"}, plan.selected \notin Levels
        PROVE  b.effort = sent.effort /\ b.thinking = sent.thinking
    BY <2>2, <2>4, <2>9 DEF Faithful, Choices
  <2> QED
    BY <2>1, <2>5, <2>6, <2>7, <2>8, <2>9 DEF NeverSoftened
<1> QED
  BY <1>1, BindingInvariance, PTL
=============================================================================
