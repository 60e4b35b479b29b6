------------------------------- MODULE Config -------------------------------
(***************************************************************************)
(* Registry.from_file() of src/sheetbend/registry.py with the choice of    *)
(* the file in src/sheetbend/config.py: applications choose one file, read *)
(* it, validate it and derive from its canonical path the namespace of the *)
(* buckets they share, while somebody edits files and links.               *)
(*                                                                         *)
(* A path holds nothing, a file that is a valid configuration or not, or a *)
(* link to another path, which is none itself.  What validation looks at   *)
(* is in Selection and Binding.                                            *)
(*                                                                         *)
(* Steps of a load, step[c]:                                               *)
(*   start      in select_config_path()                                    *)
(*   opening    about to open, read and validate the file                  *)
(*   absent     FileNotFoundError: about to look for a broken link         *)
(*   resolving  has valid data; about to resolve the path                  *)
(*   loaded, refused   has a registry; has raised ConfigError              *)
(***************************************************************************)
EXTENDS Integers, FiniteSets

CONSTANTS
  Clients,          \* applications that load a configuration
  Paths,
  Home,             \* the default under the home directory
  Choices,          \* arguments and environments of a client: see Choice
  Disks,            \* what the paths may hold to begin with
  Edits,            \* what somebody may make of a path
  MaxEdits,         \* bound on edits
  NULL

\* config_path, SHEETBEND_CONFIG and XDG_CONFIG_HOME
Choice ==
  [argument : Paths \cup {NULL},
   environment : Paths \cup {NULL, ""},
   xdg : Paths \cup {NULL, "relative"}]

Held == Paths \cup {"missing", "valid", "broken"}

ASSUME ConfigAssumption ==
  /\ IsFiniteSet(Clients)
  /\ Home \in Paths
  /\ Choices \in [Clients -> SUBSET Choice]
  /\ Disks \subseteq {d \in [Paths -> Held] : \A p \in Paths : d[p] \in Paths => d[d[p]] \notin Paths}
  /\ Edits \subseteq Paths \X Held
  /\ MaxEdits \in Nat
  /\ NULL \notin Paths

VARIABLES
  disk, edits,
  choice, step,
  path,             \* what select_config_path() returned
  read,             \* the file a client has its data from, NULL if from none
  namespace,        \* the canonical path its buckets are named after
  disturbed         \* history: clients whose path was edited between reading
                    \* the file and resolving the path

loading == <<choice, step, path, read, namespace>>
configVars == <<disk, edits, loading, disturbed>>

Resolved(p) == IF disk[p] \in Paths THEN disk[p] ELSE p

ConfigTypeOK ==
  /\ disk \in [Paths -> Held]
  /\ edits \in 0..MaxEdits
  /\ choice \in [Clients -> Choice]
  /\ step \in [Clients -> {"start", "opening", "absent", "resolving", "loaded", "refused"}]
  /\ path \in [Clients -> Paths \cup {NULL}]
  /\ read \in [Clients -> Paths \cup {NULL}]
  /\ namespace \in [Clients -> Paths \cup {NULL}]
  /\ disturbed \subseteq Clients

ConfigInit ==
  /\ disk \in Disks
  /\ edits = 0
  /\ choice \in [Clients -> Choice] /\ \A c \in Clients : choice[c] \in Choices[c]
  /\ step = [c \in Clients |-> "start"]
  /\ path = [c \in Clients |-> NULL]
  /\ read = [c \in Clients |-> NULL]
  /\ namespace = [c \in Clients |-> NULL]
  /\ disturbed = {}

Proceed(c, s) == step' = [step EXCEPT ![c] = s]

\* An empty SHEETBEND_CONFIG is no choice.
Explicit(c) == choice[c].argument # NULL \/ choice[c].environment \notin {NULL, ""}

SelectedPath(c) ==
  CASE choice[c].argument # NULL              -> choice[c].argument
    [] choice[c].argument = NULL /\ Explicit(c) -> choice[c].environment
    [] OTHER -> IF choice[c].xdg \in Paths THEN choice[c].xdg ELSE Home

SelectPath(c) ==
  /\ step[c] = "start"
  /\ path' = [path EXCEPT ![c] = SelectedPath(c)]
  /\ Proceed(c, "opening")
  /\ UNCHANGED <<disk, edits, choice, read, namespace, disturbed>>

\* open(), tomllib.load() and validate_config()
Read(c) ==
  /\ step[c] = "opening"
  /\ LET file == Resolved(path[c]) IN
       /\ Proceed(c, CASE disk[file] = "valid"   -> "resolving"
                       [] disk[file] = "broken"  -> "refused"
                       [] disk[file] = "missing" -> "absent")
       /\ read' = [read EXCEPT ![c] = IF disk[file] = "valid" THEN file ELSE NULL]
  /\ UNCHANGED <<disk, edits, choice, path, namespace, disturbed>>

\* Mutant of Diagnose: a missing file is an empty registry unless it is a
\* broken link, whoever has chosen it.
DiagnoseLink(c) ==
  /\ step[c] = "absent"
  /\ Proceed(c, IF disk[path[c]] \in Paths THEN "refused" ELSE "resolving")
  /\ UNCHANGED <<disk, edits, choice, path, read, namespace, disturbed>>

\* A missing default is an empty registry; a broken link is not missing.
Diagnose(c) ==
  /\ step[c] = "absent"
  /\ Proceed(c, IF Explicit(c) \/ disk[path[c]] \in Paths THEN "refused" ELSE "resolving")
  /\ UNCHANGED <<disk, edits, choice, path, read, namespace, disturbed>>

\* Mutant of Resolve: the absolute path, links and all.
ResolveAbsolute(c) ==
  /\ step[c] = "resolving"
  /\ namespace' = [namespace EXCEPT ![c] = path[c]]
  /\ Proceed(c, "loaded")
  /\ UNCHANGED <<disk, edits, choice, path, read, disturbed>>

\* Registry.__init__(): the path is resolved after the file was read.
Resolve(c) ==
  /\ step[c] = "resolving"
  /\ namespace' = [namespace EXCEPT ![c] = Resolved(path[c])]
  /\ Proceed(c, "loaded")
  /\ UNCHANGED <<disk, edits, choice, path, read, disturbed>>

Load(c) == SelectPath(c) \/ Read(c) \/ Diagnose(c) \/ Resolve(c)

\* Somebody writes or removes a file, or makes a link in its place.  When
\* nobody is going to read it any more, edits are left out.
Edit(p) ==
  /\ edits < MaxEdits
  /\ \E c \in Clients : step[c] \notin {"loaded", "refused"}
  /\ edits' = edits + 1
  /\ \E held \in Held \ {p, disk[p]} :
       /\ <<p, held>> \in Edits
       /\ held \in Paths => disk[held] \notin Paths /\ \A q \in Paths : disk[q] # p
       /\ disk' = [disk EXCEPT ![p] = held]
  /\ disturbed' = disturbed \cup {c \in Clients : step[c] = "resolving" /\ path[c] = p}
  /\ UNCHANGED loading

-----------------------------------------------------------------------------
\* README.md: "An explicitly selected missing, unreadable, or malformed
\* configuration is an error", whatever is edited in the middle of it: no
\* client with an explicit choice goes on with an empty registry.
ExplicitIsNeverEmpty ==
  \A c \in Clients : step[c] = "loaded" /\ Explicit(c) => read[c] # NULL
=============================================================================
