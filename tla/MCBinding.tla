----------------------------- MODULE MCBinding ------------------------------
(* Two of the three levels, one of the values "on" may have in common with  *)
(* a level and one not, and a capability with either default.               *)
EXTENDS Binding

SomeLevels       == {"low", "high"}
SomePresets      == {"minimal", "high"}
SomeCapabilities == {"streaming", "tools"}
OnByDefault      == {"streaming"}
=============================================================================
