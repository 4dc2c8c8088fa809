---------------------------- MODULE MCMonacoHost ----------------------------
(* Two files and two panes that only differ by their names. *)
EXTENDS MonacoHost
Alike == Permutations(Files) \cup Permutations(PaneIds)
=============================================================================
