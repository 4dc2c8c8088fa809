-------------------------- MODULE Planner_refinement --------------------------
(***************************************************************************)
(* What a step of the Planner can do to its plans, and from it the action  *)
(* properties of Planner and the proof that Planner implements             *)
(* ReviewContract.                                                         *)
(***************************************************************************)
EXTENDS Planner_proofs

USE DEF Plans, NoPlan, Work

Becomes(p, s) == status' = [status EXCEPT ![p] = s]

Consents(p) ==
  /\ asked' = asked \cup {p}
  /\ UNCHANGED <<seq, status, paused, ran>>

Discards ==
  /\ paused' = {} /\ status' = AllCancelled
  /\ UNCHANGED <<seq, ran, asked>>

Creates(p) ==
  /\ p = seq + 1 /\ seq' = p
  /\ \/ Pause(p)
     \/ (Becomes(p, "Approved") \/ Becomes(p, "Cancelled")) /\ paused' = paused
  /\ UNCHANGED <<ran, asked>>

Takes(p) ==
  /\ p \in paused /\ paused' = paused \ {p}
  /\ \/ Becomes(p, "AwaitingReview") \/ Becomes(p, "Cancelled")
     \/ Becomes(p, "Approved") /\ p \in asked
  /\ UNCHANGED <<seq, ran, asked>>

Starts(p) ==
  /\ status[p] = "Approved" /\ Becomes(p, "Executing")
  /\ UNCHANGED <<seq, paused, ran, asked>>

Calls(p) ==
  /\ status[p] = "Executing"
  /\ Becomes(p, "Executing") \/ Becomes(p, "Completed") \/ Becomes(p, "Failed")
  /\ ran' = [ran EXCEPT ![p] = @ + 1]
  /\ UNCHANGED <<seq, paused, asked>>

(* Everything a step can do to the plans.                                  *)
Effect ==
  \/ UNCHANGED <<seq, status, paused, ran, asked>>
  \/ \E p \in 1 .. seq : Consents(p)
  \/ Discards
  \/ \E p \in Plans : Creates(p) \/ Takes(p) \/ Starts(p) \/ Calls(p)

LEMMA StepEffect == Inv /\ [Next]_vars => Effect
<1> SUFFICES ASSUME Inv, [Next]_vars PROVE Effect
  OBVIOUS
<1>1. ASSUME NEW t \in Threads, Transition(t) \/ Handle(t) \/ ResolveUnknown(t)
      PROVE  Effect
  BY <1>1 DEF Transition, Handle, EnterPreparing, GiveUp, Answer, FallBackToHandle,
              Reason, StreamMoves, StreamEnds, ResolveUnknown, Effect, Discards,
              planVars, reviewVars
<1>2. ASSUME NEW t \in Threads, Call(t)
      PROVE  Effect
  <2>1. CASE Acknowledge(t) \/ \E phase \in HostPhases : HostMove(t, phase)
    BY <2>1 DEF Acknowledge, HostMove, Effect, planVars, reviewVars
  <2>2. CASE \E api \in Apis : BeginRequest(t, api)
    BY <2>2 DEF BeginRequest, Effect, Discards, planVars
  <2>3. ASSUME NEW p \in Plans, NEW decision \in {"approve", "cancel", "modify"},
               Submit(t, p, decision)
        PROVE  Effect
    <3>1. p \in 1 .. seq
      BY <2>3 DEF Submit, Inv, TypeOK
    <3> QED BY <2>3, <3>1 DEF Submit, Effect, Consents, planVars
  <2> QED BY <1>2, <2>1, <2>2, <2>3 DEF Call
<1>3. ASSUME NEW t \in Threads, Propose(t)
      PROVE  Effect
  <2>1. ASSUME NEW p \in Plans, NEW a \in Actions,
               ProposeDenied(t, p, a) \/ ProposeGated(t, p, a) \/ ProposeAllowed(t, p, a)
        PROVE  Creates(p)
    BY <2>1 DEF ProposeDenied, ProposeGated, ProposeAllowed, Create, Creates, Becomes
  <2>2. ASSUME NEW p \in Plans, NEW b \in Batches,
               ProposeGeneration(t, p, b) \/ ProposeGenerationDenied(t, p, b)
        PROVE  Creates(p)
    BY <2>2 DEF ProposeGeneration, ProposeGenerationDenied, Create, Creates, Becomes
  <2> QED BY <1>3, <2>1, <2>2 DEF Propose, Effect
<1>4. ASSUME NEW t \in Threads, NEW p \in Plans, NEW work \in Work, NEW shown \in Work,
             Revise(t, p, work, shown) \/ ReviseDenied(t, p, work, shown)
      PROVE  Effect
  BY <1>4 DEF Revise, PauseRevision, ReviseDenied, Create, Effect, Creates, Becomes
<1>5. ASSUME NEW t \in Threads,
             ResolveTimedOut(t) \/ Resume(t) \/ Cancel(t) \/ Withdraw(t)
      PROVE  Effect
  <2>1. /\ cur[t] \in paused /\ cur[t] \in Plans /\ pc[t] = "deciding"
        /\ paused' = paused \ {cur[t]}
    BY <1>5 DEF ResolveTimedOut, Resume, Cancel, Withdraw, Take, At, Inv, TypeOK
  <2>2. /\ status[cur[t]] = "AwaitingReview" /\ status \in [Plans -> Statuses]
        /\ task[t] = "approve" => cur[t] \in asked
    BY <2>1 DEF Inv, TypeOK, AllPlansInv, PlanInv, AllThreadsInv, ThreadInv
  <2>3. UNCHANGED <<seq, ran, asked>>
    BY <1>5 DEF ResolveTimedOut, Resume, Cancel, Withdraw, planVars
  <2>4. \/ Becomes(cur[t], "AwaitingReview") \/ Becomes(cur[t], "Cancelled")
        \/ Becomes(cur[t], "Approved") /\ task[t] = "approve"
    BY <1>5, <2>2 DEF ResolveTimedOut, Resume, Cancel, Withdraw, Becomes
  <2> QED BY <2>1, <2>2, <2>3, <2>4 DEF Effect, Takes
<1>6. ASSUME NEW t \in Threads, Execute(t)
      PROVE  Effect
  <2>1. CASE StartExecuting(t)
    <3>1. cur[t] \in Plans
      BY <2>1 DEF StartExecuting, At, Inv, AllThreadsInv, ThreadInv, Working
    <3> QED BY <2>1, <3>1
            DEF StartExecuting, Effect, Starts, Becomes, planVars, reviewVars
  <2>2. CASE CallSucceeds(t) \/ LastCallSucceeds(t) \/ ResumeSucceeds(t) \/ CallFails(t)
    <3>1. /\ cur[t] \in Plans /\ status[cur[t]] = "Executing"
          /\ status \in [Plans -> Statuses]
      BY <2>2 DEF CallSucceeds, LastCallSucceeds, ResumeSucceeds, CallFails, CallTool,
                  At, Inv, TypeOK, AllThreadsInv, ThreadInv, Working
    <3>2. \/ Becomes(cur[t], "Executing") \/ Becomes(cur[t], "Completed")
          \/ Becomes(cur[t], "Failed")
      BY <2>2, <3>1 DEF CallSucceeds, LastCallSucceeds, ResumeSucceeds, CallFails,
                        Becomes
    <3>3. /\ ran' = [ran EXCEPT ![cur[t]] = @ + 1]
          /\ UNCHANGED <<seq, paused, asked>>
      BY <2>2 DEF CallSucceeds, LastCallSucceeds, ResumeSucceeds, CallFails, CallTool,
                  planVars
    <3> QED BY <3>1, <3>2, <3>3 DEF Effect, Calls
  <2> QED BY <1>6, <2>1, <2>2 DEF Execute
<1>7. ASSUME NEW p \in Plans, Lapse(p)
      PROVE  Effect
  BY <1>7 DEF Lapse, Effect, planVars
<1>8. CASE UNCHANGED vars
  BY <1>8 DEF vars, Effect
<1> QED BY <1>1, <1>2, <1>3, <1>4, <1>5, <1>6, <1>7, <1>8
        DEF Next, Inside, Resolve
------------------------------------------------------------------------------
(* What a step leaves alone.                                               *)

(* A plan that is completed, cancelled or failed stays so.                 *)
THEOREM FinalIsFinal == Spec => FinalStatusStays
<1>1. Inv /\ [Next]_vars => \A p \in Plans : status[p] \in Final => status'[p] = status[p]
  <2> SUFFICES ASSUME Inv, Effect, NEW p \in Plans, status[p] \in Final
               PROVE  status'[p] = status[p]
    BY StepEffect
  <2>1. /\ status \in [Plans -> Statuses] /\ PlanInv(p)
        /\ status[p] # "Draft" /\ status[p] # "AwaitingReview"
        /\ status[p] # "Approved" /\ status[p] # "Executing"
    BY DEF Inv, TypeOK, AllPlansInv, Final
  <2>2. p \notin paused /\ ~(p > seq)
    BY <2>1 DEF PlanInv
  <2>3. CASE Discards
    BY <2>2, <2>3 DEF Discards, AllCancelled
  <2>4. ASSUME NEW q \in Plans, Creates(q) PROVE status'[p] = status[p]
    <3>1. q # p
      BY <2>2, <2>4 DEF Creates, Inv, TypeOK
    <3> QED BY <2>1, <2>2, <2>4, <3>1 DEF Creates, Pause, AllCancelled, Becomes
  <2>5. ASSUME NEW q \in Plans, Takes(q) \/ Starts(q) \/ Calls(q)
        PROVE  status'[p] = status[p]
    BY <2>1, <2>2, <2>5 DEF Takes, Starts, Calls, Becomes
  <2> QED BY <2>3, <2>4, <2>5 DEF Effect, Consents
<1> QED BY <1>1, Invariance, PTL DEF Spec, FinalStatusStays

(* A plan that left the paused store never comes back to it.               *)
THEOREM PausedOnce == Spec => NeverPausedAgain
<1>1. Inv /\ [Next]_vars => \A p \in Plans : p \in paused' \ paused => p > seq
  <2> SUFFICES ASSUME Inv, Effect, NEW p \in Plans, p \in paused' \ paused
               PROVE  p > seq
    BY StepEffect
  <2>1. ASSUME NEW q \in Plans, Creates(q) PROVE p > seq
    BY <2>1 DEF Creates, Pause, Inv, TypeOK
  <2> QED BY <2>1 DEF Effect, Consents, Discards, Takes, Starts, Calls
<1> QED BY <1>1, Invariance, PTL DEF Spec, NeverPausedAgain
------------------------------------------------------------------------------
(* Planner implements ReviewContract.                                      *)

(* The stage of a plan, case by case, in a state that satisfies Inv.       *)
LEMMA StageCases ==
  ASSUME Inv, NEW p \in Plans
  PROVE  /\ p > seq <=> Stage(p) = "unborn"
         /\ p \in paused <=> Stage(p) = "waiting"
         /\ status[p] = "Approved" <=> Stage(p) = "cleared"
         /\ status[p] = "Executing" <=> Stage(p) = "running"
         /\ status[p] \in {"Completed", "Failed"} <=> Stage(p) = "done"
  BY DEF Inv, TypeOK, AllPlansInv, PlanInv, Stage

LEMMA ContractInits == Init => Contract!ContractInit
<1> SUFFICES ASSUME Init PROVE Contract!ContractInit
  OBVIOUS
<1>1. \A p \in Plans : Stage(p) = "unborn"
  BY DEF Init, Stage
<1> QED BY <1>1 DEF Init, Contract!ContractInit

(* A step that moves one plan from a stage to another and leaves the       *)
(* stages of the others alone is a Step of the contract.                   *)
LEMMA StageStep ==
  ASSUME NEW p \in Plans, NEW to, Stage(p)' = to,
         \A q \in Plans : q # p => Stage(q)' = Stage(q)
  PROVE  Contract!Step(p, Stage(p), to)
  BY DEF Contract!Step

LEMMA CreatesImplements ==
  ASSUME Inv, Inv', NEW p \in Plans, Creates(p)
  PROVE  Contract!Clear(p) \/ Contract!Refuse(p) \/ Contract!Ask(p)
<1>1. /\ p = seq + 1 /\ seq' = p /\ seq \in Nat /\ Stage(p) = "unborn"
      /\ asked' = asked /\ ran' = ran /\ p \notin paused
      /\ paused \subseteq Plans /\ status \in [Plans -> Statuses]
  BY StageCases DEF Creates, Inv, TypeOK, Stage, AllPlansInv, PlanInv
<1>2. CASE Pause(p)
  <2>1. Stage(p)' = "waiting"
    BY <1>1, <1>2 DEF Pause, Stage
  <2>2. ASSUME NEW q \in Plans, q # p
        PROVE  Stage(q)' = IF Stage(q) = "waiting" THEN "closed" ELSE Stage(q)
    <3>1. q > seq <=> q > seq'
      BY <1>1, <2>2
    <3>2. q \notin paused' /\ status'[q] = IF q \in paused THEN "Cancelled" ELSE status[q]
      BY <1>1, <1>2, <2>2 DEF Pause, AllCancelled
    <3>3. q \in paused => ~(q > seq)
      BY DEF Inv, AllPlansInv, PlanInv
    <3>4. q \in paused <=> Stage(q) = "waiting"
      BY StageCases
    <3> QED BY <3>1, <3>2, <3>3, <3>4 DEF Stage
  <2> QED BY <1>1, <2>1, <2>2 DEF Contract!Ask, Contract!AllClosed
<1>3. CASE (Becomes(p, "Approved") \/ Becomes(p, "Cancelled")) /\ paused' = paused
  <2>1. Stage(p)' \in {"cleared", "closed"}
    <3>1. status'[p] \in {"Approved", "Cancelled"}
      BY <1>1, <1>3 DEF Becomes
    <3>2. p \notin paused'
      BY <1>1, <1>3
    <3>3. ~(p > seq')
      BY <1>1
    <3> QED BY <3>1, <3>2, <3>3 DEF Stage
  <2>2. ASSUME NEW q \in Plans, q # p PROVE Stage(q)' = Stage(q)
    <3>1. status'[q] = status[q] /\ paused' = paused
      BY <1>1, <1>3, <2>2 DEF Becomes
    <3>2. q > seq <=> q > seq'
      BY <1>1, <2>2
    <3> QED BY <3>1, <3>2 DEF Stage
  <2> QED BY <1>1, <2>1, <2>2, StageStep DEF Contract!Clear, Contract!Refuse
<1> QED BY <1>2, <1>3 DEF Creates

LEMMA TakesImplements ==
  ASSUME Inv, Inv', NEW p \in Plans, Takes(p)
  PROVE  Contract!Close(p) \/ Contract!Accept(p)
<1>1. /\ Stage(p) = "waiting" /\ p \in paused /\ ~(p > seq)
      /\ paused' = paused \ {p} /\ seq' = seq /\ ran' = ran /\ asked' = asked
      /\ status \in [Plans -> Statuses]
  BY StageCases DEF Takes, Inv, TypeOK, AllPlansInv, PlanInv
<1>2. \A q \in Plans : q # p => Stage(q)' = Stage(q)
  BY <1>1 DEF Takes, Becomes, Stage
<1>3. CASE Becomes(p, "AwaitingReview") \/ Becomes(p, "Cancelled")
  <2>1. Stage(p)' = "closed"
    BY <1>1, <1>3 DEF Becomes, Stage
  <2> QED BY <1>1, <1>2, <2>1, StageStep DEF Contract!Close
<1>4. CASE Becomes(p, "Approved") /\ p \in asked
  <2>1. Stage(p)' = "cleared"
    BY <1>1, <1>4 DEF Becomes, Stage
  <2> QED BY <1>1, <1>2, <1>4, <2>1, StageStep DEF Contract!Accept
<1> QED BY <1>3, <1>4 DEF Takes

LEMMA RunImplements ==
  ASSUME Inv, Inv', NEW p \in Plans, Starts(p) \/ Calls(p)
  PROVE  Contract!Start(p) \/ Contract!Work(p)
<1>1. /\ p \notin paused /\ ~(p > seq) /\ status \in [Plans -> Statuses]
      /\ seq' = seq /\ paused' = paused /\ asked' = asked
  BY DEF Starts, Calls, Inv, TypeOK, AllPlansInv, PlanInv
<1>2. \A q \in Plans : q # p => Stage(q)' = Stage(q)
  BY <1>1 DEF Starts, Calls, Becomes, Stage
<1>3. CASE Starts(p)
  <2>1. Stage(p) = "cleared" /\ Stage(p)' = "running"
    BY <1>1, <1>3 DEF Starts, Becomes, Stage
  <2> QED BY <1>1, <1>2, <1>3, <2>1, StageStep DEF Starts, Contract!Start
<1>4. CASE Calls(p)
  <2>1. Stage(p) = "running" /\ Stage(p)' \in {"running", "done"}
    BY <1>1, <1>4 DEF Calls, Becomes, Stage
  <2> QED BY <1>1, <1>2, <1>4, <2>1, StageStep DEF Calls, Contract!Work
<1> QED BY <1>3, <1>4

(* Every step of the Planner is a step of the contract, or changes nothing *)
(* the contract speaks of.                                                 *)
LEMMA StepImplements ==
  Inv /\ Inv' /\ [Next]_vars => [Contract!ContractNext]_(Contract!contractVars)
<1> SUFFICES ASSUME Inv, Inv', Effect
             PROVE  [Contract!ContractNext]_(Contract!contractVars)
  BY StepEffect
<1>1. CASE UNCHANGED <<seq, status, paused, ran, asked>>
  <2>1. \A p \in Plans : Stage(p)' = Stage(p)
    BY <1>1 DEF Stage
  <2> QED BY <1>1, <2>1 DEF Contract!contractVars
<1>2. CASE \E p \in 1 .. seq : Consents(p)
  <2>1. PICK p \in 1 .. seq : Consents(p)
    BY <1>2
  <2>2. p \in Plans /\ ~(p > seq) /\ \A q \in Plans : Stage(q)' = Stage(q)
    BY <2>1, MaxPlansAssumption DEF Consents, Stage, Inv, TypeOK
  <2>3. Stage(p) # "unborn"
    BY <2>2, StageCases
  <2>4. Contract!Consent(p)
    BY <2>1, <2>2, <2>3 DEF Consents, Contract!Consent
  <2> QED BY <2>2, <2>4 DEF Contract!ContractNext
<1>3. CASE Discards
  <2>1. ASSUME NEW q \in Plans
        PROVE  Stage(q)' = IF Stage(q) = "waiting" THEN "closed" ELSE Stage(q)
    <3>1. q \in paused <=> Stage(q) = "waiting"
      BY StageCases
    <3>2. q \in paused => ~(q > seq)
      BY DEF Inv, AllPlansInv, PlanInv
    <3> QED BY <1>3, <3>1, <3>2 DEF Discards, AllCancelled, Stage
  <2>2. Contract!CloseAll
    BY <1>3, <2>1 DEF Discards, Contract!CloseAll, Contract!AllClosed
  <2> QED BY <2>2 DEF Contract!ContractNext
<1>4. CASE \E p \in Plans : Creates(p) \/ Takes(p) \/ Starts(p) \/ Calls(p)
  BY <1>4, CreatesImplements, TakesImplements, RunImplements DEF Contract!ContractNext
<1> QED BY <1>1, <1>2, <1>3, <1>4 DEF Effect

(* The Planner keeps the contract: one waiting proposal at a time, no way  *)
(* back into waiting, and tools are called only for work that was cleared  *)
(* by the gate or by the user.                                             *)
THEOREM Implementation == Spec => ImplementsContract
  BY ContractInits, StepImplements, Invariance, PTL
     DEF Spec, ImplementsContract, Contract!ContractSpec
===============================================================================
