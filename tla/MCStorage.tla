----------------------------- MODULE MCStorage ------------------------------
(***************************************************************************)
(* A small instance of Storage for TLC.                                    *)
(***************************************************************************)
EXTENDS Storage, TLC

\* The database of the first boot is tampered with, while in use or later.
FirstDatabase == {<<0, "main">>}
=============================================================================
