---------------------------- MODULE ReviewContract ----------------------------
(***************************************************************************)
(* What the Planner promises its user about one piece of proposed work     *)
(* after another: docs/planner.md, "Review Before Action".  Work is        *)
(* cleared to run by the gate or by the user's consent, at most one        *)
(* proposal waits for consent at a time, a proposal that stopped waiting   *)
(* never waits again, and the tools are only ever called for work that was *)
(* cleared.                                                                *)
(***************************************************************************)
EXTENDS Naturals

CONSTANT Plans

VARIABLES
  stage,    \* how far each plan has come
  consent,  \* plans the user consented to
  calls     \* tool calls made for each plan

contractVars == <<stage, consent, calls>>

Stages == {"unborn", "waiting", "closed", "cleared", "running", "done"}

ContractTypeOK ==
  /\ stage \in [Plans -> Stages]
  /\ consent \subseteq Plans
  /\ calls \in [Plans -> Nat]

ContractInit ==
  /\ stage = [p \in Plans |-> "unborn"]
  /\ consent = {}
  /\ calls = [p \in Plans |-> 0]

Step(p, from, to) ==
  /\ stage[p] = from
  /\ stage' = [stage EXCEPT ![p] = to]

(* Every waiting proposal is closed; the map leaves the other plans alone. *)
AllClosed == [p \in Plans |-> IF stage[p] = "waiting" THEN "closed" ELSE stage[p]]

(* Proposed work is cleared at once, refused at once, or waits for consent *)
(* in the place of whatever waited before.                                 *)
Clear(p) == Step(p, "unborn", "cleared") /\ UNCHANGED <<consent, calls>>

Refuse(p) == Step(p, "unborn", "closed") /\ UNCHANGED <<consent, calls>>

Ask(p) ==
  /\ stage[p] = "unborn"
  /\ stage' = [AllClosed EXCEPT ![p] = "waiting"]
  /\ UNCHANGED <<consent, calls>>

CloseAll == stage' = AllClosed /\ UNCHANGED <<consent, calls>>

Close(p) == Step(p, "waiting", "closed") /\ UNCHANGED <<consent, calls>>

(* The user may consent to anything that was ever proposed, too late too.  *)
Consent(p) ==
  /\ stage[p] # "unborn"
  /\ consent' = consent \cup {p}
  /\ UNCHANGED <<stage, calls>>

Accept(p) ==
  /\ p \in consent
  /\ Step(p, "waiting", "cleared")
  /\ UNCHANGED <<consent, calls>>

Start(p) == Step(p, "cleared", "running") /\ UNCHANGED <<consent, calls>>

Work(p) ==
  /\ \/ Step(p, "running", "running")
     \/ Step(p, "running", "done")
  /\ calls' = [calls EXCEPT ![p] = @ + 1]
  /\ UNCHANGED consent

ContractNext ==
  \/ CloseAll
  \/ \E p \in Plans :
       \/ Clear(p) \/ Refuse(p) \/ Ask(p) \/ Close(p)
       \/ Consent(p) \/ Accept(p) \/ Start(p) \/ Work(p)

ContractSpec == ContractInit /\ [][ContractNext]_contractVars
==============================================================================
