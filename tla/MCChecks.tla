------------------------------ MODULE MCChecks ------------------------------
(***************************************************************************)
(* A small instance of Checks for TLC.                                     *)
(***************************************************************************)
EXTENDS Checks, TLC

CONSTANTS home, link, other

\* The command goes by the implicit default, by its argument, a link, or by
\* its environment; the other application by the default.
SomeChoices ==
  LET default == [argument |-> NULL, environment |-> "", xdg |-> "relative"] IN
  "check" :> {default, [default EXCEPT !.argument = link, !.environment = other],
              [default EXCEPT !.environment = home]}
    @@ "chat" :> {default}

\* The default is a file or missing; the link points to it.
SomeDisks ==
  {(home :> held) @@ (link :> home) @@ (other :> "valid") : held \in {"valid", "missing"}}

\* The file is removed or written badly, the link turned to another file.
SomeEdits == {<<home, "missing">>, <<home, "broken">>, <<home, "valid">>, <<link, other>>}

Ordinary ==
  [all |-> TRUE, test |-> NULL, reasoning |-> NULL, model |-> "given", allowExternal |-> FALSE,
   scope |-> "local", credential |-> TRUE, extra |-> TRUE]

\* One thing at a time is out of the ordinary.
SomeSituations ==
  {Ordinary}
    \cup {[Ordinary EXCEPT !.all = FALSE, !.test = t] : t \in Tests \cup {NULL}}
    \cup {[Ordinary EXCEPT !.test = "text"],
          [Ordinary EXCEPT !.reasoning = "unfit"],
          [Ordinary EXCEPT !.all = FALSE, !.reasoning = "fit"],
          [Ordinary EXCEPT !.model = "blank"],
          [Ordinary EXCEPT !.scope = "external"],
          [Ordinary EXCEPT !.all = FALSE, !.scope = "external", !.allowExternal = TRUE],
          [Ordinary EXCEPT !.credential = FALSE],
          [Ordinary EXCEPT !.extra = FALSE]}
=============================================================================
