------------------------------ MODULE MCPlanner ------------------------------
(***************************************************************************)
(* Instances of Planner for TLC.  The tool calls are ones the gate of      *)
(* ActionGate tells apart: reading and writing a file, both local, and     *)
(* fetching over the network.  A batch writes two files, so that a failure *)
(* can leave it half done; a remote batch needs a writing tool that is not *)
(* local.                                                                  *)
(***************************************************************************)
EXTENDS Planner, TLC

CONSTANT Active  \* the active policies

G == INSTANCE ActionGate

LocalCall(risk, action) ==
  [risk |-> risk, privacy |-> "LocalOnly", internet |-> FALSE,
   category |-> "Filesystem", action |-> action, deletes |-> "no",
   git |-> "none", rewrites |-> FALSE]

CallOf ==
  [read        |-> LocalCall("Workspace", "Read"),
   write       |-> LocalCall("Modify", "Write"),
   rename      |-> LocalCall("Modify", "Write"),
   fetch       |-> [LocalCall("External", "Network") EXCEPT !.internet = TRUE,
                      !.privacy = "CloudOnly", !.category = "Internet"],
   batch       |-> LocalCall("Modify", "Write"),
   remoteBatch |-> [LocalCall("Modify", "Write") EXCEPT !.privacy = "Mixed"]]

MCSize == [w \in Work |-> IF w \in Batches THEN 2 ELSE 1]
MCVerdict == [w \in Work |-> G!Gate(Active, CallOf[w])]

OfflineFirst == <<"OfflineFirst">>
PrivacyMaximum == <<"PrivacyMaximum">>

ThreadSymmetry == Permutations(Threads)
==============================================================================
