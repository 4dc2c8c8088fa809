--------------------------- MODULE ActionGate_proofs ---------------------------
(***************************************************************************)
(* Proofs about the gate, for every list of active policies, however long. *)
(* The first two need only that the policies come to some decision; the    *)
(* others unfold the pass over the list, one policy more at a time.        *)
(***************************************************************************)
EXTENDS MCActionGate, WellFoundedInduction, TLAPS

(* What escalates a call is a risk, and the tool declares one.             *)
LEMMA RisksAreRisks ==
  ASSUME NEW c \in Calls
  PROVE  RisksOf(c) \subseteq Risks /\ c.risk \in RisksOf(c)
  BY DEF Calls, RisksOf, Risks

(* Nothing that escalates the risk of a call is lost in the maximum.       *)
LEMMA EffectiveRiskIsHighest ==
  ASSUME NEW c \in Calls
  PROVE  /\ EffectiveRisk(c) \in RisksOf(c)
         /\ \A q \in RisksOf(c) : Rank[q] <= Rank[EffectiveRisk(c)]
<1>1. \E r \in RisksOf(c) : \A q \in RisksOf(c) : Rank[q] <= Rank[r]
  BY RisksAreRisks DEF Risks, Rank
<1> QED BY <1>1 DEF EffectiveRisk

(* Whatever the active policies and the tool's own declaration say, the    *)
(* gate lets a call pass unseen only if it is harmless.                    *)
LEMMA AllowedIsHarmless ==
  ASSUME NEW c \in Calls, NEW policies, Gate(policies, c) = "Allowed"
  PROVE  /\ c.deletes = "no" /\ c.git \notin {"mutates", "destroys"}
         /\ ~c.rewrites /\ ~c.internet
         /\ c.category = "Filesystem" /\ c.action = "Read"
<1>1. CheckPermission(c) = "Allowed" /\ ~RequiresReview(EffectiveRisk(c))
  BY DEF Gate, Combine, CheckPermission
<1>2. c.category = "Filesystem" /\ c.action = "Read"
  BY <1>1 DEF CheckPermission
<1>3. \A q \in RisksOf(c) : Rank[q] < Rank["Modify"]
  BY <1>1, EffectiveRiskIsHighest, RisksAreRisks DEF RequiresReview, Rank, Risks
<1>4. RisksOf(c) \cap {"Modify", "Destructive", "External"} = {}
  BY <1>3 DEF Rank
<1>5. /\ c.deletes \in {"no", "trash", "permanent"} /\ c.rewrites \in BOOLEAN
      /\ c.internet \in BOOLEAN
  BY DEF Calls
<1> QED BY <1>2, <1>4, <1>5 DEF RisksOf

CallOK == call \in Calls

(* Activating policies leaves the call alone.                              *)
LEMMA CallStaysACall == Spec => []CallOK
<1>1. Init => CallOK
  BY DEF Init, CallOK
<1>2. CallOK /\ [Next]_<<active, call>> => CallOK'
  BY DEF Next, Activate, CallOK
<1> QED BY <1>1, <1>2, PTL DEF Spec

(* Local data and the network are out of reach of unreviewed calls.        *)
THEOREM UnseenIsHarmless == Spec => []UnseenCallsAreHarmless
<1>1. CallOK => UnseenCallsAreHarmless
  BY AllowedIsHarmless DEF CallOK, UnseenCallsAreHarmless
<1> QED BY <1>1, CallStaysACall, PTL

(* Neither engine's refusal is softened by the other one or by the risk.   *)
THEOREM DenialStands == Spec => []DenialIsFinal
<1>1. DenialIsFinal
  BY DEF DenialIsFinal, Gate, Combine
<1> QED BY <1>1, PTL


-------------------------------------------------------------------------------
(* The pass over the active policies.                                      *)

(* A set of numbers that is not empty has a least one.                     *)
LEMMA LeastNatural ==
  ASSUME NEW T, T \subseteq Nat, T # {}
  PROVE  \E x \in T : \A y \in T : x <= y
<1> DEFINE R == {ss \in Nat \X Nat : ss[1] < ss[2]}
<1>1. IsWellFoundedOn(R, Nat)
  BY NatLessThanWellFounded DEF OpToRel
<1>2. \E x \in T : \A y \in T : <<y, x>> \notin R
  <2> HIDE DEF R
  <2> QED BY <1>1, WFMin
<1>3. \A x, y \in Nat : <<y, x>> \notin R => x <= y
  OBVIOUS
<1> QED BY <1>2, <1>3

(* What is so of none, and of one more than a number it is so of, is so of *)
(* every number.                                                           *)
LEMMA Counting ==
  ASSUME NEW N \in Nat, NEW T, 0 \in T, \A n \in 0 .. N - 1 : n \in T => n + 1 \in T
  PROVE  0 .. N \subseteq T
<1> DEFINE Rest == (0 .. N) \ T
<1>1. SUFFICES ASSUME Rest # {} PROVE FALSE
  OBVIOUS
<1>2. PICK n \in Rest : \A m \in Rest : n <= m
  <2>1. Rest \subseteq Nat
    OBVIOUS
  <2> HIDE DEF Rest
  <2> QED BY <1>1, <2>1, LeastNatural
<1>3. n # 0 /\ n \in 1 .. N
  BY <1>2
<1>4. n - 1 \in T
  BY <1>2, <1>3
<1>5. n - 1 \in 0 .. N - 1 /\ (n - 1) + 1 = n
  BY <1>3
<1> QED BY <1>2, <1>4, <1>5

(* evaluate_policies over the first n policies: f is the decision after     *)
(* the policies at each set of places, the last place last.                *)
Passes(f, n, policies, c) ==
  f = [s \in SUBSET (1 .. n) |->
         IF s = {} THEN "Allowed"
         ELSE Escalate(f[s \ {Max(s)}], PolicyAsks(policies[Max(s)], c))]

(* The fold by which evaluate_policies is defined is such a function.      *)
LEMMA FoldUnfolds ==
  ASSUME NEW policies \in Seq(BuiltinPolicies), NEW c
  PROVE  EvaluatePolicies(policies, c)
           = (CHOOSE f : Passes(f, Len(policies), policies, c))[1 .. Len(policies)]
<1>1. DOMAIN policies = 1 .. Len(policies)
  OBVIOUS
<1>2. EvaluatePolicies(policies, c)
        = (CHOOSE f : f = [s \in SUBSET (DOMAIN policies) |->
             IF s = {} THEN "Allowed"
             ELSE Escalate(f[s \ {Max(s)}], PolicyAsks(policies[Max(s)], c))])[DOMAIN policies]
  BY DEF EvaluatePolicies, FoldLeft, MapThenFoldSet
<1> QED BY <1>1, <1>2 DEF Passes

(* The highest of some places.                                             *)
LEMMA LastPlace ==
  ASSUME NEW n \in Nat, NEW s \in SUBSET (1 .. n), n \in s
  PROVE  Max(s) = n
<1>1. \A x \in s : (\A y \in s : x >= y) <=> x = n
  OBVIOUS
<1> QED BY <1>1 DEF Max

(* There is one for every number of policies, place after place.           *)
LEMMA FoldExists ==
  ASSUME NEW N \in Nat, NEW policies, NEW c
  PROVE  \E f : Passes(f, N, policies, c)
<1> DEFINE T == {n \in Nat : \E f : Passes(f, n, policies, c)}
<1>1. 0 \in T
  <2> DEFINE f == [s \in SUBSET (1 .. 0) |-> "Allowed"]
  <2>1. 1 .. 0 = {}
    OBVIOUS
  <2>2. Passes(f, 0, policies, c)
    BY <2>1 DEF Passes
  <2> QED BY <2>2
<1>2. ASSUME NEW n \in 0 .. N - 1, n \in T PROVE n + 1 \in T
  <2>1. PICK g : Passes(g, n, policies, c)
    BY <1>2
  <2> DEFINE next(s) == Escalate(g[s \ {n + 1}], PolicyAsks(policies[n + 1], c))
             f == [s \in SUBSET (1 .. n + 1) |-> IF n + 1 \in s THEN next(s) ELSE g[s]]
             step(h, s) == IF s = {} THEN "Allowed"
                           ELSE Escalate(h[s \ {Max(s)}], PolicyAsks(policies[Max(s)], c))
  <2>2. ASSUME NEW s \in SUBSET (1 .. n + 1) PROVE f[s] = step(f, s)
    <3>1. CASE n + 1 \in s
      <4>1. Max(s) = n + 1
        BY <3>1, LastPlace
      <4>2. s \ {n + 1} \in SUBSET (1 .. n + 1) /\ n + 1 \notin s \ {n + 1} /\ s # {}
        BY <3>1
      <4>3. f[s \ {n + 1}] = g[s \ {n + 1}]
        BY <4>2
      <4>4. f[s] = next(s)
        BY <3>1
      <4> HIDE DEF f
      <4> QED BY <4>1, <4>2, <4>3, <4>4
    <3>2. CASE n + 1 \notin s
      <4>0. \A i \in 1 .. n + 1 : i # n + 1 => i \in 1 .. n
        OBVIOUS
      <4>1. s \in SUBSET (1 .. n) /\ s \ {Max(s)} \in SUBSET (1 .. n + 1) /\ n + 1 \notin s \ {Max(s)}
        BY <3>2, <4>0, Zenon
      <4>2. g[s] = step(g, s)
        BY <2>1, <4>1 DEF Passes
      <4>3. f[s] = g[s] /\ f[s \ {Max(s)}] = g[s \ {Max(s)}]
        BY <3>2, <4>1
      <4> HIDE DEF f
      <4> QED BY <4>2, <4>3
    <3> QED BY <3>1, <3>2
  <2>3. f = [s \in SUBSET (1 .. n + 1) |-> f[s]]
    OBVIOUS
  <2> HIDE DEF f
  <2>4. f = [s \in SUBSET (1 .. n + 1) |-> step(f, s)]
    BY <2>2, <2>3
  <2>5. Passes(f, n + 1, policies, c)
    BY <2>4 DEF Passes
  <2> QED BY <2>5
<1> HIDE DEF T
<1>3. N \in T
  BY <1>1, <1>2, Counting
<1> QED BY <1>3 DEF T

(* The decision after the first k policies, for each k.                    *)
LEMMA PassByPass ==
  ASSUME NEW n \in Nat, NEW policies, NEW c, NEW f, Passes(f, n, policies, c)
  PROVE  /\ f[1 .. 0] = "Allowed"
         /\ \A k \in 1 .. n : f[1 .. k] = Escalate(f[1 .. k - 1], PolicyAsks(policies[k], c))
<1>1. f[1 .. 0] = "Allowed"
  <2>1. 1 .. 0 = {} /\ {} \in SUBSET (1 .. n)
    OBVIOUS
  <2> QED BY <2>1 DEF Passes
<1>2. ASSUME NEW k \in 1 .. n
      PROVE  f[1 .. k] = Escalate(f[1 .. k - 1], PolicyAsks(policies[k], c))
  <2>1. Max(1 .. k) = k
    BY LastPlace
  <2>2. (1 .. k) \ {k} = 1 .. k - 1 /\ 1 .. k # {} /\ 1 .. k \in SUBSET (1 .. n)
    OBVIOUS
  <2> QED BY <2>1, <2>2 DEF Passes
<1> QED BY <1>1, <1>2

(* f holds the decision after each number of policies.                     *)
StepByStep(f, policies, c) ==
  /\ f[1 .. 0] = "Allowed"
  /\ \A k \in 1 .. Len(policies) :
       f[1 .. k] = Escalate(f[1 .. k - 1], PolicyAsks(policies[k], c))

(* evaluate_policies is one pass over the policies in their order.         *)
LEMMA OnePass ==
  ASSUME NEW policies \in Seq(BuiltinPolicies), NEW c
  PROVE  \E f : /\ StepByStep(f, policies, c)
                /\ EvaluatePolicies(policies, c) = f[1 .. Len(policies)]
<1>1. Len(policies) \in Nat
  OBVIOUS
<1>2. \E f : Passes(f, Len(policies), policies, c)
  BY <1>1, FoldExists, Zenon
<1>3. PICK f : /\ Passes(f, Len(policies), policies, c)
               /\ EvaluatePolicies(policies, c) = f[1 .. Len(policies)]
  BY <1>2, FoldUnfolds, Zenon
<1>4. StepByStep(f, policies, c)
  BY <1>1, <1>3, PassByPass DEF StepByStep
<1> QED BY <1>3, <1>4

(* Where no policy is active, the policies allow.                          *)
LEMMA NoPolicyAllows ==
  ASSUME NEW c
  PROVE  EvaluatePolicies(<<>>, c) = "Allowed"
<1>1. <<>> \in Seq(BuiltinPolicies) /\ Len(<<>>) = 0
  OBVIOUS
<1> QED BY <1>1, OnePass, Zenon DEF StepByStep

(* One more policy escalates what the ones before it came to: the two      *)
(* passes agree step by step up to the last.                               *)
LEMMA OneMorePolicy ==
  ASSUME NEW policies \in Seq(BuiltinPolicies), NEW policy \in BuiltinPolicies, NEW c
  PROVE  EvaluatePolicies(Append(policies, policy), c)
           = Escalate(EvaluatePolicies(policies, c), PolicyAsks(policy, c))
<1>1. PICK n \in Nat : n = Len(policies)
  OBVIOUS
<1>2. PICK more : more \in Seq(BuiltinPolicies) /\ more = Append(policies, policy)
  <2>1. Append(policies, policy) \in Seq(BuiltinPolicies)
    OBVIOUS
  <2> QED BY <2>1, Zenon
<1>3. /\ Len(more) = n + 1 /\ more[n + 1] = policy
      /\ \A k \in 1 .. n : more[k] = policies[k]
  BY <1>1, <1>2
<1>4. PICK f : /\ StepByStep(f, policies, c)
               /\ EvaluatePolicies(policies, c) = f[1 .. n]
  BY <1>1, OnePass
<1>5. PICK h : /\ StepByStep(h, more, c)
               /\ EvaluatePolicies(more, c) = h[1 .. n + 1]
  BY <1>2, <1>3, OnePass, Zenon
<1> DEFINE T == {k \in 0 .. n : f[1 .. k] = h[1 .. k]}
<1>6. 0 \in T
  BY <1>4, <1>5 DEF StepByStep
<1>7. ASSUME NEW k \in 0 .. n - 1, k \in T PROVE k + 1 \in T
  <2>1. k + 1 \in 1 .. n /\ k + 1 \in 1 .. n + 1 /\ (k + 1) - 1 = k /\ k + 1 \in 0 .. n
    OBVIOUS
  <2>2. f[1 .. k + 1] = Escalate(f[1 .. k], PolicyAsks(policies[k + 1], c))
    BY <1>1, <1>4, <2>1 DEF StepByStep
  <2>3. h[1 .. k + 1] = Escalate(h[1 .. k], PolicyAsks(policies[k + 1], c))
    BY <1>3, <1>5, <2>1 DEF StepByStep
  <2> QED BY <1>7, <2>1, <2>2, <2>3
<1> HIDE DEF T
<1>8. n \in T
  <2>1. 0 .. n \subseteq T
    BY <1>6, <1>7, Counting, Zenon
  <2> QED BY <2>1
<1>9. f[1 .. n] = h[1 .. n]
  BY <1>8 DEF T
<1>10. h[1 .. n + 1] = Escalate(h[1 .. n], PolicyAsks(policy, c))
  <2>1. n + 1 \in 1 .. n + 1 /\ (n + 1) - 1 = n
    OBVIOUS
  <2> QED BY <1>3, <1>5, <2>1 DEF StepByStep
<1> QED BY <1>2, <1>4, <1>5, <1>9, <1>10

-------------------------------------------------------------------------------
(* The strictest policy.                                                   *)

(* The inductive invariant: activating one policy after another keeps the  *)
(* decision the strictest.                                                 *)
DecisionOK ==
  /\ active \in Seq(BuiltinPolicies) /\ call \in Calls
  /\ StrictestPolicyWins

(* What a policy asks, and what several come to, is a decision.            *)
LEMMA PolicyDecides ==
  \A policy, c : PolicyAsks(policy, c) \in Decisions
  BY DEF PolicyAsks, Decisions

(* One more policy is asked, and its answer counts if it is the strictest. *)
LEMMA ActivateKeepsDecision ==
  ASSUME DecisionOK, Activate
  PROVE  DecisionOK'
<1> DEFINE Asked(ps, c) == {PolicyAsks(ps[i], c) : i \in DOMAIN ps} \cup {"Allowed"}
           d == EvaluatePolicies(active, call)
<1>1. PICK policy \in BuiltinPolicies : active' = Append(active, policy)
  BY CandidatesAssumption DEF Activate
<1> DEFINE e == PolicyAsks(policy, call)
<1>2. call' = call /\ call \in Calls /\ active \in Seq(BuiltinPolicies)
  BY DEF Activate, DecisionOK
<1>3. EvaluatePolicies(active', call') = Escalate(d, e)
  BY <1>1, <1>2, OneMorePolicy
<1>4. Asked(active', call') = Asked(active, call) \cup {e}
  <2>1. /\ DOMAIN active' = DOMAIN active \cup {Len(active) + 1}
        /\ active'[Len(active) + 1] = policy
        /\ \A i \in DOMAIN active : active'[i] = active[i]
    BY <1>1, <1>2
  <2> QED BY <1>2, <2>1
<1>5. Asked(active, call) \subseteq Decisions /\ e \in Decisions
  BY PolicyDecides DEF Decisions
<1>6. d \in Asked(active, call) /\ \A a \in Asked(active, call) : Severity[a] <= Severity[d]
  BY DEF DecisionOK, StrictestPolicyWins
<1>7. /\ Escalate(d, e) \in Asked(active, call) \cup {e}
      /\ \A a \in Asked(active, call) \cup {e} : Severity[a] <= Severity[Escalate(d, e)]
  <2> HIDE DEF Asked, d, e
  <2> QED BY <1>5, <1>6 DEF Escalate, Severity, Decisions
<1>8. active' \in Seq(BuiltinPolicies) /\ call' \in Calls
  BY <1>1, <1>2
<1>9. StrictestPolicyWins'
  <2> HIDE DEF e
  <2>1. /\ EvaluatePolicies(active', call') \in Asked(active', call')
        /\ \A a \in Asked(active', call') :
             Severity[a] <= Severity[EvaluatePolicies(active', call')]
    BY <1>3, <1>4, <1>7
  <2> QED BY <2>1 DEF StrictestPolicyWins
<1> QED BY <1>8, <1>9 DEF DecisionOK

(* DecisionOK holds of every list that can be built.                       *)
LEMMA DecisionInvariance == Spec => []DecisionOK
<1>1. Init => DecisionOK
  BY NoPolicyAllows DEF Init, DecisionOK, StrictestPolicyWins, Severity
<1>2. DecisionOK /\ [Next]_<<active, call>> => DecisionOK'
  <2> SUFFICES ASSUME DecisionOK, [Next]_<<active, call>> PROVE DecisionOK'
    OBVIOUS
  <2>1. CASE Activate
    BY <2>1, ActivateKeepsDecision
  <2>2. CASE UNCHANGED <<active, call>>
    BY <2>2 DEF DecisionOK, StrictestPolicyWins
  <2> QED BY <2>1, <2>2 DEF Next
<1> QED BY <1>1, <1>2, PTL DEF Spec

(* The policies come to the strictest thing any of them asks, in whatever  *)
(* order they were activated (evaluate_policies).                          *)
THEOREM StrictestWins == Spec => []StrictestPolicyWins
<1>1. DecisionOK => StrictestPolicyWins
  BY DEF DecisionOK
<1> QED BY <1>1, DecisionInvariance, PTL

(* A stricter verdict of the policies never relaxes that of the gate.      *)
LEMMA StricterPoliciesStricterGate ==
  ASSUME NEW d \in Decisions, NEW e \in Decisions, NEW p \in Decisions, NEW risk \in Risks
  PROVE  Severity[Combine(Escalate(d, e), p, risk)] >= Severity[Combine(d, p, risk)]
  BY DEF Combine, Escalate, Severity, Decisions

(* Activating a policy never relaxes the gate (combine_gate_decision).     *)
THEOREM OnlyTightens == Spec => PoliciesOnlyTighten
<1> DEFINE Tightens == Severity[Gate(active', call')] >= Severity[Gate(active, call)]
<1>1. ASSUME DecisionOK, [Next]_<<active, call>> PROVE [Tightens]_<<active, call>>
  <2>1. CASE Activate
    <3>1. PICK policy \in BuiltinPolicies : active' = Append(active, policy)
      BY <2>1, CandidatesAssumption DEF Activate
    <3>2. call' = call /\ call \in Calls /\ active \in Seq(BuiltinPolicies)
      BY <1>1, <2>1 DEF Activate, DecisionOK
    <3> DEFINE d == EvaluatePolicies(active, call)
               e == PolicyAsks(policy, call)
               p == CheckPermission(call)
               risk == EffectiveRisk(call)
    <3>3. EvaluatePolicies(active', call') = Escalate(d, e)
      BY <3>1, <3>2, OneMorePolicy
    <3>4. d \in Decisions
      <4>1. \A i \in DOMAIN active : PolicyAsks(active[i], call) \in Decisions
        BY PolicyDecides
      <4>2. "Allowed" \in Decisions
        BY DEF Decisions
      <4> QED BY <1>1, <4>1, <4>2 DEF DecisionOK, StrictestPolicyWins
    <3>5. e \in Decisions /\ p \in Decisions
      BY PolicyDecides DEF CheckPermission, Decisions
    <3>6. risk \in Risks
      BY <3>2, EffectiveRiskIsHighest, RisksAreRisks
    <3>7. Gate(active, call) = Combine(d, p, risk) /\ Gate(active', call') = Combine(Escalate(d, e), p, risk)
      BY <3>2, <3>3 DEF Gate
    <3> HIDE DEF d, e, p, risk
    <3> QED BY <3>4, <3>5, <3>6, <3>7, StricterPoliciesStricterGate
  <2>2. CASE UNCHANGED <<active, call>>
    BY <2>2
  <2> QED BY <1>1, <2>1, <2>2 DEF Next
<1> QED BY <1>1, DecisionInvariance, PTL DEF PoliciesOnlyTighten, Spec
===============================================================================
