------------------------------- MODULE Optional -------------------------------
(***************************************************************************)
(* Rust's Option: a value, or None.                                        *)
(***************************************************************************)
EXTENDS Integers

CONSTANT None

ASSUME NoneAssumption == None \notin Int

Option(S) == S \cup {None}
=============================================================================
