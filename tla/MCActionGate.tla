----------------------------- MODULE MCActionGate -----------------------------
(***************************************************************************)
(* ActionGate over bounded inputs: every kind of call, under every list of *)
(* at most MaxActive policies, built by activating one policy at a time.   *)
(***************************************************************************)
EXTENDS ActionGate

CONSTANTS
  Candidates,  \* the policies that can be activated
  MaxActive    \* bound: length of the active list

ASSUME CandidatesAssumption == Candidates \subseteq BuiltinPolicies

VARIABLES active, call

Init == active = <<>> /\ call \in Calls

Activate ==
  /\ Len(active) < MaxActive
  /\ \E policy \in Candidates : active' = Append(active, policy)
  /\ UNCHANGED call

Next == Activate

Spec == Init /\ [][Next]_<<active, call>>
------------------------------------------------------------------------------
(* Local data and the network are out of reach of a call that nobody       *)
(* reviewed, whatever the tool declares about itself and whichever         *)
(* policies are active: the gate lets a call through unseen only if it     *)
(* deletes, mutates and fetches nothing.                                   *)
UnseenCallsAreHarmless ==
  Gate(active, call) = "Allowed" =>
    /\ call.deletes = "no" /\ call.git \notin {"mutates", "destroys"}
    /\ ~call.rewrites /\ ~call.internet
    /\ call.category = "Filesystem" /\ call.action = "Read"

(* A refusal is final: neither engine's Denied is softened into a review   *)
(* by what the other one or the tool's risk says.                          *)
DenialIsFinal ==
  ("Denied" \in {EvaluatePolicies(active, call), CheckPermission(call)})
    = (Gate(active, call) = "Denied")

(* The verdict of the policies does not depend on the order they were      *)
(* activated in: it is the strictest thing any of them asks.               *)
StrictestPolicyWins ==
  LET asked == {PolicyAsks(active[i], call) : i \in DOMAIN active} \cup {"Allowed"}
  IN  /\ EvaluatePolicies(active, call) \in asked
      /\ \A d \in asked : Severity[d] <= Severity[EvaluatePolicies(active, call)]

(* Activating a policy never relaxes the gate.                             *)
PoliciesOnlyTighten ==
  [][Severity[Gate(active', call')] >= Severity[Gate(active, call)]]_<<active, call>>
==============================================================================
