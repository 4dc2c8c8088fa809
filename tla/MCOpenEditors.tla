---------------------------- MODULE MCOpenEditors ----------------------------
(* Files and panes that only differ by their names. *)
EXTENDS OpenEditors
Alike == Permutations(Files) \cup Permutations(PaneIds)
==============================================================================
