------------------------------ MODULE ActionGate ------------------------------
(***************************************************************************)
(* What decides whether a tool call may run, must be reviewed or is        *)
(* refused: the Action Policies (crates/jaymi-policies), the Permission    *)
(* Engine (crates/jaymi-permissions), the risk of the call                 *)
(* (crates/jaymi-tools) and the Planner's combination of the three.        *)
(*                                                                         *)
(* A call is what those three look at:                                     *)
(*   risk         the tool's declared ToolRisk                             *)
(*   privacy      the tool's PrivacyMode ("Mixed": neither local nor cloud *)
(*                only)                                                    *)
(*   internet     the tool requires internet access                        *)
(*   category, action   of the permission request                          *)
(*   deletes      "no", or how the command "delete" deletes: "trash", or   *)
(*                "permanent" (also when no method is given)               *)
(*   git          "none", "reads" (Status), "mutates", "destroys" (Discard)*)
(*   rewrites     the LSP operation is a Rename                            *)
(***************************************************************************)
EXTENDS Integers, SequencesExt

Decisions == {"Allowed", "RequiresApproval", "Denied"}
Severity == [Allowed |-> 0, RequiresApproval |-> 1, Denied |-> 2]

Risks == {"Safe", "Workspace", "Modify", "Destructive", "External"}
Rank == [Safe |-> 0, Workspace |-> 1, Modify |-> 2, Destructive |-> 3,
         External |-> 4]

Calls == [risk: Risks,
          privacy: {"LocalOnly", "Mixed", "CloudOnly"},
          internet: BOOLEAN,
          category: {"Filesystem", "Terminal", "Internet", "Communication",
                     "System", "AiProviders"},
          action: {"Read", "Write", "Execute", "Delete", "Network", "Import",
                   "Export"},
          deletes: {"no", "trash", "permanent"},
          git: {"none", "reads", "mutates", "destroys"},
          rewrites: BOOLEAN]

BuiltinPolicies == {"OfflineFirst", "HighestQuality", "FastestResponse",
                    "PrivacyMaximum", "BatterySaver", "DeveloperMode",
                    "CreativeMode", "ResearchMode"}
------------------------------------------------------------------------------
(* Seeded fault: the last policy wins.                                     *)
LastDecision(d, e) == e

(* PolicyDecision::escalate: Denied > RequiresApproval > Allowed.          *)
Escalate(d, e) == IF Severity[e] > Severity[d] THEN e ELSE d

(* What one active policy asks of a call; the other built-ins are only     *)
(* recorded.                                                               *)
PolicyAsks(policy, c) ==
  CASE policy = "OfflineFirst" /\ (c.internet \/ c.privacy = "CloudOnly")
         -> "RequiresApproval"
    [] policy = "PrivacyMaximum" /\ (c.internet \/ c.privacy # "LocalOnly")
         -> "Denied"
    [] OTHER -> "Allowed"

(* evaluate_policies: one pass over the active policies, in order.         *)
EvaluatePolicies(active, c) ==
  FoldLeft(LAMBDA decision, policy : Escalate(decision, PolicyAsks(policy, c)),
           "Allowed", active)
------------------------------------------------------------------------------
(* PermissionEngine::check.                                                *)
CheckPermission(c) ==
  CASE c.category = "Filesystem" /\ c.action = "Read" -> "Allowed"
    [] c.category = "Filesystem" /\ c.action \in {"Write", "Delete"}
         -> "RequiresApproval"
    [] c.category = "Terminal" /\ c.action = "Execute" -> "RequiresApproval"
    [] OTHER -> "Denied"
------------------------------------------------------------------------------
(* Seeded fault: a recoverable delete keeps the tool's own risk.           *)
RisksWithoutTrash(c) ==
       {c.risk}
  \cup (IF c.deletes = "permanent" THEN {"Destructive"} ELSE {})
  \cup (IF c.git = "destroys" THEN {"Destructive"} ELSE {})
  \cup (IF c.git = "mutates" \/ c.rewrites THEN {"Modify"} ELSE {})
  \cup (IF c.internet THEN {"External"} ELSE {})

(* Everything that escalates the risk of this invocation.                  *)
RisksOf(c) ==
       {c.risk}
  \cup (IF c.deletes = "permanent" \/ c.git = "destroys" THEN {"Destructive"} ELSE {})
  \cup (IF c.deletes = "trash" \/ c.git = "mutates" \/ c.rewrites THEN {"Modify"} ELSE {})
  \cup (IF c.internet THEN {"External"} ELSE {})

(* ToolRisk::effective_for: the highest of them, never below the base.     *)
EffectiveRisk(c) == CHOOSE r \in RisksOf(c) : \A q \in RisksOf(c) : Rank[q] <= Rank[r]

(* ToolRisk::requires_review.                                              *)
RequiresReview(risk) == Rank[risk] >= Rank["Modify"]
------------------------------------------------------------------------------
(* combine_gate_decision.  A policy that denies also skips the permission  *)
(* check, which makes no difference here.                                  *)
Combine(policy, permission, risk) ==
  IF "Denied" \in {policy, permission} THEN "Denied"
  ELSE IF "RequiresApproval" \in {policy, permission} \/ RequiresReview(risk)
    THEN "RequiresApproval"
  ELSE "Allowed"

Gate(active, c) ==
  Combine(EvaluatePolicies(active, c), CheckPermission(c), EffectiveRisk(c))
==============================================================================
