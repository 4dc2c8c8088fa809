------------------------ MODULE MCContextMaintenance ------------------------
(***************************************************************************)
(* Instances of ContextMaintenance for TLC.                                *)
(***************************************************************************)
EXTENDS ContextMaintenance

CONSTANTS
  CodingChanges,  \* how often the coding state changes
  Changing,       \* the other sources that change, once
  Requests        \* how many requests a worker prepares

\* Closing changes the terminals, opening a project the project: an instance in
\* which those do not change does without.
MCMaxVersion == [s \in Sources |-> IF s = "coding" THEN CodingChanges
                                   ELSE IF s \in Changing THEN 1 ELSE 0]

\* The window prepares a request whenever the workspace opens or closes.
MCMaxPrepared == [t \in Threads |-> IF t = "ui" THEN 0 ELSE Requests]
==============================================================================
