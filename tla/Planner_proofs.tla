---------------------------- MODULE Planner_proofs ----------------------------
(***************************************************************************)
(* Proofs about Planner, for any number of threads, plans and kinds of     *)
(* work, and for any gate.  The inductive invariant Inv says, of every     *)
(* plan, what its status implies, and of every thread, what it knows about *)
(* the plan it has in hand.                                                *)
(***************************************************************************)
EXTENDS Planner, TLAPS

Started == {"Approved", "Executing", "Completed", "Failed"}

Working == {"approved", "running", "revising"}

PlanInv(p) ==
  /\ p > seq => status[p] = "Draft" /\ p \notin paused \cup due \cup asked
  /\ p \in paused => status[p] = "AwaitingReview" /\ plan[p].gated
  /\ status[p] \notin Started \ {"Approved"} => ran[p] = 0
  /\ ran[p] <= Size[plan[p].batch]
  /\ p \in due => status[p] \in {"AwaitingReview", "Cancelled"}
  /\ plan[p].gated /\ status[p] \in Started => p \in asked
  /\ plan[p].parent # NoPlan => status[plan[p].parent] = "Cancelled"

ThreadInv(t) ==
  /\ pc[t] = "deciding" => /\ cur[t] \in 1 .. seq
                           /\ task[t] \in {"approve", "cancel", "modify"}
                           /\ task[t] = "approve" => cur[t] \in asked
  /\ pc[t] \in Working => cur[t] \in Plans
  /\ pc[t] = "approved" => status[cur[t]] = "Approved"
  /\ pc[t] = "running" => /\ status[cur[t]] = "Executing"
                          /\ ran[cur[t]] = step[t]
                          /\ step[t] < Size[plan[cur[t]].batch]
  /\ pc[t] = "revising" => status[cur[t]] = "Cancelled" /\ plan[cur[t]].gated

RecordInv(r) ==
  IF r.result = "completed"
    THEN status[r.plan] = "Completed" /\ ran[r.plan] = Size[plan[r.plan].batch]
    ELSE /\ r.plan <= seq /\ r.plan \notin paused
         /\ status[r.plan] \in {"Cancelled", "AwaitingReview"}

AllPlansInv == \A p \in Plans : PlanInv(p)
OnePaused == \A p, q \in paused : p = q
AllThreadsInv == \A t \in Threads : ThreadInv(t)
SoleOwner == \A t, u \in Threads :
               pc[t] \in Working /\ pc[u] \in Working /\ cur[t] = cur[u] => t = u
AllRecordsInv == \A r \in approvals : RecordInv(r)

Inv == /\ TypeOK
       /\ AllPlansInv
       /\ OnePaused
       /\ AllThreadsInv
       /\ SoleOwner
       /\ AllRecordsInv

USE DEF Plans, NoPlan, Work
------------------------------------------------------------------------------
(* A conversation is always in one of the phases.                          *)
LEMMA MovedIsPhase ==
  ASSUME NEW from \in Phases, NEW to \in Phases
  PROVE  Moved(from, to) \in Phases
  BY DEF Moved

(* The lists of phases a call sets one after the other.                    *)
LEMMA PhaseLists ==
  /\ <<>> \in Seq(Phases)
  /\ \A a \in Phases : <<a>> \in Seq(Phases)
  /\ \A a, b \in Phases : <<a, b>> \in Seq(Phases)
  OBVIOUS

(* A piece of work makes at least one tool call.                           *)
LEMMA SizeIsPositive == \A w \in Work : Size[w] \in Nat /\ Size[w] > 0
  BY WorkAssumption

(* A plan made for a request is well formed.                               *)
LEMMA RootIsContent ==
  ASSUME NEW w \in Work, NEW gated \in BOOLEAN
  PROVE  Root(w, gated) \in Content
  BY DEF Root, Content

(* A revision of a plan is well formed.                                    *)
LEMMA RevisionIsContent ==
  ASSUME NEW parent \in Plans, NEW work \in Work, NEW shown \in Work,
         plan \in [Plans -> Content]
  PROVE  Revision(parent, work, shown) \in Content
  BY DEF Revision, Content

(* A thread that enters a state of control with a list of phases to set    *)
(* leaves the thread variables typed.                                      *)
LEMMA EnterTyped ==
  ASSUME TypeOK, NEW t \in Threads, NEW l \in PCs, NEW k \in Tasks,
         NEW p \in Plans \cup {NoPlan}, NEW moves \in Seq(Phases),
         Enter(t, l, k, p, moves)
  PROVE  /\ pc' \in [Threads -> PCs]
         /\ task' \in [Threads -> Tasks]
         /\ cur' \in [Threads -> Plans \cup {NoPlan}]
         /\ todo' \in [Threads -> Seq(Phases)]
         /\ step' \in [Threads -> Nat]
  BY DEF TypeOK, Enter

(* The initial states satisfy the invariant.                               *)
LEMMA InitInv == Init => Inv
<1> SUFFICES ASSUME Init PROVE Inv
  OBVIOUS
<1>1. TypeOK
  <2>1. plan \in [Plans -> Content]
    <3>1. (CHOOSE a \in Actions : TRUE) \in Work
      BY WorkAssumption
    <3> QED BY <3>1, RootIsContent DEF Init
  <2>2. todo \in [Threads -> Seq(Phases)]
    BY DEF Init
  <2>3. /\ pc \in [Threads -> PCs] /\ task \in [Threads -> Tasks]
        /\ cur \in [Threads -> Plans \cup {NoPlan}] /\ step \in [Threads -> Nat]
    BY DEF Init, PCs, Tasks
  <2>4. /\ conv \in Phases /\ seq \in 0 .. MaxPlans
        /\ status \in [Plans -> Statuses] /\ history \in [Plans -> Statuses]
        /\ ran \in [Plans -> Nat]
    BY MaxPlansAssumption DEF Init, Phases, Statuses
  <2>5. paused \subseteq Plans /\ due \subseteq Plans /\ asked \subseteq Plans
        /\ approvals \subseteq Records
    BY DEF Init
  <2> QED BY <2>1, <2>2, <2>3, <2>4, <2>5 DEF TypeOK
<1>2. AllPlansInv
  <2>1. \A p \in Plans : plan[p].batch \in Work /\ plan[p].parent = NoPlan
                          /\ plan[p].gated = FALSE
    BY WorkAssumption DEF Init, Root
  <2>2. \A p \in Plans : ran[p] = 0
    BY DEF Init
  <2>4. \A p \in Plans : 0 <= Size[plan[p].batch]
    BY <2>1, SizeIsPositive
  <2>3. \A p \in Plans : p \notin paused \cup due \cup asked /\ status[p] = "Draft"
    BY DEF Init
  <2> QED BY <2>1, <2>2, <2>3, <2>4 DEF AllPlansInv, PlanInv, Started
<1>3. OnePaused /\ AllThreadsInv /\ SoleOwner /\ AllRecordsInv
  BY DEF OnePaused, AllThreadsInv, ThreadInv, SoleOwner, AllRecordsInv, Init,
         Working
<1> QED BY <1>1, <1>2, <1>3 DEF Inv
------------------------------------------------------------------------------
(* Setting the phase touches no plan.                                      *)
LEMMA TransitionInv == ASSUME Inv, NEW t \in Threads, Transition(t) PROVE Inv'
<1>1. TypeOK'
  <2>1. Head(todo[t]) \in Phases /\ Tail(todo[t]) \in Seq(Phases)
    BY DEF Inv, TypeOK, Transition
  <2> QED BY <2>1, MovedIsPhase DEF Inv, TypeOK, Transition, Move, planVars, reviewVars
<1>2. AllPlansInv' /\ OnePaused' /\ AllThreadsInv' /\ SoleOwner' /\ AllRecordsInv'
  BY DEF Inv, AllPlansInv, OnePaused, AllThreadsInv, SoleOwner, AllRecordsInv,
         PlanInv, ThreadInv, RecordInv, Transition, planVars, reviewVars
<1> QED BY <1>1, <1>2 DEF Inv

(* A step that leaves every plan alone, after which the thread has none in *)
(* hand that it could run.                                                 *)
LEMMA QuietStep ==
  ASSUME Inv, NEW t \in Threads, conv' \in Phases,
         UNCHANGED <<planVars, status, reviewVars, ran>>,
         NEW l \in {"idle", "entered", "assembling", "streaming"}, NEW k \in Tasks,
         NEW p \in Plans \cup {NoPlan}, NEW moves \in Seq(Phases),
         Enter(t, l, k, p, moves)
  PROVE  Inv'
<1>1. TypeOK'
  <2>1. TypeOK /\ l \in PCs
    BY DEF Inv, PCs
  <2>2. /\ pc' \in [Threads -> PCs] /\ task' \in [Threads -> Tasks]
        /\ cur' \in [Threads -> Plans \cup {NoPlan}]
        /\ todo' \in [Threads -> Seq(Phases)] /\ step' \in [Threads -> Nat]
    BY <2>1, EnterTyped
  <2> QED BY <2>1, <2>2 DEF TypeOK, planVars, reviewVars
<1>2. AllPlansInv' /\ OnePaused' /\ AllRecordsInv'
  BY DEF Inv, AllPlansInv, OnePaused, AllRecordsInv, PlanInv, RecordInv,
         planVars, reviewVars
<1>3. AllThreadsInv' /\ SoleOwner'
  BY DEF Inv, TypeOK, AllThreadsInv, SoleOwner, ThreadInv, Working, Enter,
         planVars, reviewVars
<1> QED BY <1>1, <1>2, <1>3 DEF Inv

(* The steps of a request before it becomes a plan.                        *)
LEMMA QuietSteps ==
  ASSUME Inv, NEW t \in Threads,
         \/ EnterPreparing(t) \/ Acknowledge(t) \/ GiveUp(t)
         \/ \E phase \in HostPhases : HostMove(t, phase)
         \/ \E phase \in {"Completed", "Failed"} : Answer(t, phase)
         \/ Reason(t)
         \/ \E phase \in {"Reasoning", "Streaming"} : StreamMoves(t, phase)
         \/ \E phase \in Terminal : StreamEnds(t, phase)
         \/ ResolveUnknown(t)
  PROVE  Inv'
<1>0. /\ conv \in Phases /\ task[t] \in Tasks
      /\ cur[t] \in Plans \cup {NoPlan} /\ NoPlan \in Plans \cup {NoPlan}
      /\ "none" \in Tasks /\ "idle" \in {"idle", "entered", "assembling", "streaming"}
  BY DEF Inv, TypeOK, Tasks
<1>1. CASE EnterPreparing(t)
  <2> DEFINE moves == IF conv \in {"Idle"} \cup Terminal
                        THEN <<"PreparingContext">> ELSE <<>>
  <2>1. moves \in Seq(Phases)
    BY PhaseLists DEF Phases, Busy
  <2>2. /\ Enter(t, "assembling", task[t], cur[t], moves)
        /\ UNCHANGED <<conv, planVars, status, reviewVars, ran>>
    BY <1>1 DEF EnterPreparing, Goto
  <2> HIDE DEF moves
  <2> QED BY <1>0, <2>1, <2>2, QuietStep
<1>2. CASE Acknowledge(t)
  <2> DEFINE moves == IF conv \in {"Idle"} \cup Terminal
                        THEN <<"PreparingContext", "Reasoning">>
                      ELSE IF conv = "PreparingContext" THEN <<"Reasoning">>
                      ELSE <<>>
  <2>1. moves \in Seq(Phases)
    BY PhaseLists DEF Phases, Busy
  <2>2. /\ Enter(t, "idle", "none", NoPlan, moves)
        /\ UNCHANGED <<conv, planVars, status, reviewVars, ran>>
    BY <1>2 DEF Acknowledge, Return
  <2> HIDE DEF moves
  <2> QED BY <1>0, <2>1, <2>2, QuietStep
<1>3. CASE GiveUp(t) \/ ResolveUnknown(t)
  BY <1>0, <1>3, PhaseLists, QuietStep DEF GiveUp, ResolveUnknown, Return
<1>4. CASE \/ \E phase \in HostPhases : HostMove(t, phase)
           \/ \E phase \in {"Reasoning", "Streaming"} : StreamMoves(t, phase)
  <2>1. conv' \in Phases
    BY <1>0, <1>4, MovedIsPhase, CallsAssumption
       DEF HostMove, StreamMoves, StreamPhases, Move, Phases, Busy, Terminal
  <2>2. UNCHANGED <<planVars, status, reviewVars, ran, threadVars>>
    BY <1>4 DEF HostMove, StreamMoves
  <2>3. TypeOK'
    BY <2>1, <2>2 DEF Inv, TypeOK, planVars, reviewVars, threadVars
  <2> QED
    BY <2>2, <2>3
    DEF Inv, AllPlansInv, OnePaused, AllThreadsInv, SoleOwner, AllRecordsInv,
        PlanInv, ThreadInv, RecordInv, planVars, reviewVars, threadVars
<1>5. CASE \E phase \in {"Completed", "Failed"} : Answer(t, phase)
  <2>1. conv' \in Phases
    BY <1>0, <1>5, MovedIsPhase DEF Answer, Move, Phases, Terminal
  <2> QED BY <1>0, <1>5, <2>1, PhaseLists, QuietStep DEF Answer, Return
<1>6. CASE Reason(t)
  <2>1. conv' \in Phases
    BY <1>0, <1>6, MovedIsPhase DEF Reason, Move, Phases, Busy
  <2> QED BY <1>0, <1>6, <2>1, PhaseLists, QuietStep DEF Reason, Return, Goto
<1>7. CASE \E phase \in Terminal : StreamEnds(t, phase)
  <2> PICK phase \in Terminal : StreamEnds(t, phase)
    BY <1>7
  <2>1. phase \in Phases /\ conv' \in Phases
    BY <1>0, MovedIsPhase DEF StreamEnds, Move, Phases
  <2> QED BY <1>0, <2>1, PhaseLists, QuietStep DEF StreamEnds, Return
<1> QED BY <1>1, <1>2, <1>3, <1>4, <1>5, <1>6, <1>7
------------------------------------------------------------------------------
(* A new request cancels whatever is paused.                               *)
LEMMA RequestSteps ==
  ASSUME Inv, NEW t \in Threads,
         (\E api \in Apis : BeginRequest(t, api)) \/ FallBackToHandle(t)
  PROVE  Inv'
<1>1. PICK api \in AllApis : Enter(t, "entered", api, NoPlan, <<>>)
  BY CallsAssumption DEF BeginRequest, FallBackToHandle, AllApis
<1>2. /\ paused' = {} /\ status' = AllCancelled
      /\ UNCHANGED <<conv, planVars, due, history, approvals, ran, asked>>
  BY DEF BeginRequest, FallBackToHandle
<1>3. /\ status \in [Plans -> Statuses]
      /\ status' \in [Plans -> Statuses]
      /\ \A p \in Plans : status'[p] = IF p \in paused THEN "Cancelled" ELSE status[p]
  BY <1>2 DEF Inv, TypeOK, AllCancelled, Statuses
<1>4. TypeOK'
  <2>1. TypeOK /\ api \in Tasks /\ "entered" \in PCs
    BY DEF Inv, Tasks, PCs
  <2>2. /\ pc' \in [Threads -> PCs] /\ task' \in [Threads -> Tasks]
        /\ cur' \in [Threads -> Plans \cup {NoPlan}]
        /\ todo' \in [Threads -> Seq(Phases)] /\ step' \in [Threads -> Nat]
    BY <1>1, <2>1, PhaseLists, EnterTyped
  <2> QED BY <1>2, <1>3, <2>1, <2>2 DEF TypeOK, planVars
<1>5. AllPlansInv'
  <2> SUFFICES ASSUME NEW p \in Plans PROVE PlanInv(p)'
    BY DEF AllPlansInv
  <2>1. plan[p].parent # NoPlan => plan[p].parent \in Plans
    BY DEF Inv, TypeOK, Content
  <2> QED BY <1>2, <1>3, <2>1 DEF Inv, AllPlansInv, PlanInv, Started, planVars
<1>6. OnePaused'
  BY <1>2 DEF OnePaused
<1>7. AllThreadsInv' /\ SoleOwner'
  BY <1>1, <1>2, <1>3
  DEF Inv, TypeOK, AllPlansInv, PlanInv, AllThreadsInv, ThreadInv, SoleOwner,
      Working, Enter, planVars
<1>8. AllRecordsInv'
  <2> SUFFICES ASSUME NEW r \in approvals PROVE RecordInv(r)'
    BY <1>2 DEF AllRecordsInv
  <2>1. r.plan \in Plans
    BY DEF Inv, TypeOK, Records
  <2> QED BY <1>2, <1>3, <2>1
          DEF Inv, AllRecordsInv, RecordInv, AllPlansInv, PlanInv, planVars
<1> QED BY <1>4, <1>5, <1>6, <1>7, <1>8 DEF Inv

(* A review that runs out of time marks a plan that is paused.             *)
LEMMA LapseInv == ASSUME Inv, NEW p \in Plans, Lapse(p) PROVE Inv'
<1>1. TypeOK'
  BY DEF Inv, TypeOK, Lapse, planVars, threadVars
<1>2. AllPlansInv'
  BY DEF Inv, AllPlansInv, PlanInv, Lapse, planVars
<1> QED
  BY <1>1, <1>2
  DEF Inv, OnePaused, AllThreadsInv, ThreadInv, SoleOwner, AllRecordsInv,
      RecordInv, Lapse, planVars, threadVars
------------------------------------------------------------------------------
(* A plan is created and gets its first lasting status; the thread that    *)
(* created it either lets go of it or, when it is approved, holds it.      *)
LEMMA CreateStep ==
  ASSUME Inv, NEW t \in Threads, NEW p \in Plans, NEW c \in Content,
         NEW recorded \in Statuses, Create(p, c, recorded),
         c.parent # NoPlan => status[c.parent] = "Cancelled",
         NEW s \in {"AwaitingReview", "Approved", "Cancelled"},
         \/ s = "AwaitingReview" /\ c.gated /\ Pause(p)
         \/ /\ s \in {"Approved", "Cancelled"}
            /\ s = "Approved" => ~c.gated
            /\ status' = [status EXCEPT ![p] = s] /\ paused' = paused,
         NEW l \in {"idle", "approved"}, l = "approved" <=> s = "Approved",
         NEW k \in Tasks, NEW moves \in Seq(Phases),
         Enter(t, l, k, IF l = "idle" THEN NoPlan ELSE p, moves),
         conv' \in Phases, UNCHANGED <<due, ran, asked>>,
         \/ approvals' = approvals
         \/ \E q \in 1 .. seq, result \in {"none", "cancelled"} :
              /\ status[q] = "Cancelled"
              /\ approvals' = approvals \cup
                   {[plan |-> q, decision |-> "modify", result |-> result]}
  PROVE  Inv'
<1>1. /\ p = seq + 1 /\ seq' = p /\ seq \in Nat
      /\ plan' = [plan EXCEPT ![p] = c] /\ history' = [history EXCEPT ![p] = recorded]
  BY DEF Create, Inv, TypeOK
<1>2. /\ status' \in [Plans -> Statuses]
      /\ paused' = (IF s = "AwaitingReview" THEN {p} ELSE paused)
      /\ \A q \in Plans :
           status'[q] = IF q = p THEN s
                        ELSE IF s = "AwaitingReview" /\ q \in paused THEN "Cancelled"
                        ELSE status[q]
  BY DEF Inv, TypeOK, Pause, AllCancelled, Statuses
<1>3. /\ p \notin paused /\ p \notin due /\ p \notin asked /\ status[p] = "Draft"
      /\ ran[p] = 0
  BY <1>1 DEF Inv, AllPlansInv, PlanInv, Started
<1>4. TypeOK'
  <2>1. TypeOK /\ l \in PCs /\ (IF l = "idle" THEN NoPlan ELSE p) \in Plans \cup {NoPlan}
    BY DEF Inv, PCs
  <2>2. /\ pc' \in [Threads -> PCs] /\ task' \in [Threads -> Tasks]
        /\ cur' \in [Threads -> Plans \cup {NoPlan}]
        /\ todo' \in [Threads -> Seq(Phases)] /\ step' \in [Threads -> Nat]
    BY <2>1, EnterTyped
  <2>3. approvals' \subseteq Records
    <3>1. approvals \subseteq Records /\ \A q \in 1 .. seq : q \in Plans
      BY MaxPlansAssumption DEF Inv, TypeOK
    <3> QED BY <3>1 DEF Records
  <2> QED BY <1>1, <1>2, <2>1, <2>2, <2>3 DEF TypeOK
<1>5. AllPlansInv'
  <2> SUFFICES ASSUME NEW q \in Plans PROVE PlanInv(q)'
    BY DEF AllPlansInv
  <2>1. /\ plan'[q] = IF q = p THEN c ELSE plan[q]
        /\ plan[q].parent # NoPlan => plan[q].parent \in Plans
        /\ c.parent # NoPlan => c.parent \in Plans
    BY <1>1 DEF Inv, TypeOK, Content
  <2>2. PlanInv(q)
    BY DEF Inv, AllPlansInv
  <2>3. CASE q = p
    <3>1. c.batch \in Work /\ 0 <= Size[c.batch]
      BY SizeIsPositive DEF Content
    <3> QED BY <1>1, <1>2, <1>3, <2>1, <2>3, <3>1 DEF PlanInv, Started
  <2>4. CASE q # p
    BY <1>1, <1>2, <1>3, <2>1, <2>2, <2>4 DEF PlanInv, Started, Inv, AllPlansInv
  <2> QED BY <2>3, <2>4
<1>6. OnePaused'
  BY <1>2 DEF Inv, OnePaused
<1>7. AllThreadsInv'
  <2> SUFFICES ASSUME NEW u \in Threads PROVE ThreadInv(u)'
    BY DEF AllThreadsInv
  <2>1. CASE u = t
    BY <1>2, <2>1 DEF Inv, TypeOK, Enter, ThreadInv, Working
  <2>2. CASE u # t
    <3>1. /\ pc'[u] = pc[u] /\ cur'[u] = cur[u] /\ task'[u] = task[u]
          /\ step'[u] = step[u] /\ ThreadInv(u)
      BY <2>2 DEF Inv, TypeOK, AllThreadsInv, Enter
    <3>2. \A q \in Plans : q # p => plan'[q] = plan[q]
      BY <1>1 DEF Inv, TypeOK
    <3> QED BY <1>1, <1>2, <1>3, <3>1, <3>2
            DEF Inv, TypeOK, ThreadInv, Working, AllPlansInv, PlanInv
  <2> QED BY <2>1, <2>2
<1>8. SoleOwner'
  <2>1. \A u \in Threads : pc[u] \in Working => cur[u] # p
    BY <1>3 DEF Inv, AllThreadsInv, ThreadInv, Working
  <2> QED BY <2>1 DEF Inv, TypeOK, SoleOwner, Enter, Working
<1>9. AllRecordsInv'
  <2> SUFFICES ASSUME NEW r \in approvals' PROVE RecordInv(r)'
    BY DEF AllRecordsInv
  <2>1. CASE r \in approvals
    <3>1. r.plan \in Plans /\ RecordInv(r)
      BY <2>1 DEF Inv, TypeOK, Records, AllRecordsInv
    <3>2. r.plan # p
      BY <1>1, <1>3, <3>1 DEF RecordInv
    <3>3. plan'[r.plan] = plan[r.plan]
      BY <1>1, <3>1, <3>2 DEF Inv, TypeOK
    <3> QED BY <1>1, <1>2, <3>1, <3>2, <3>3 DEF RecordInv, Inv, AllPlansInv, PlanInv
  <2>2. CASE r \notin approvals
    <3>1. PICK q \in 1 .. seq : /\ status[q] = "Cancelled" /\ r.plan = q
                                /\ r.result # "completed"
      BY <2>2
    <3>2. q \in Plans /\ q # p
      BY <1>1, <3>1, MaxPlansAssumption DEF Inv, TypeOK
    <3>3. q \notin paused
      BY <3>1, <3>2 DEF Inv, AllPlansInv, PlanInv
    <3> QED BY <1>1, <1>2, <3>1, <3>2, <3>3 DEF RecordInv
  <2> QED BY <2>1, <2>2
<1> QED BY <1>4, <1>5, <1>6, <1>7, <1>8, <1>9 DEF Inv

(* A request becomes a plan: run at once, paused or denied.                *)
LEMMA ProposeSteps ==
  ASSUME Inv, NEW t \in Threads, Propose(t)
  PROVE  Inv'
<1>1. PICK p \in Plans :
        \/ \E a \in Actions :
             ProposeDenied(t, p, a) \/ ProposeGated(t, p, a) \/ ProposeAllowed(t, p, a)
        \/ \E b \in Batches :
             ProposeGeneration(t, p, b) \/ ProposeGenerationDenied(t, p, b)
  BY DEF Propose
<1>2. /\ task[t] \in Tasks /\ "none" \in Tasks /\ conv \in Phases
      /\ {"Ready", "AwaitingReview", "Cancelled"} \subseteq Statuses
      /\ {"Cancelled", "WaitingForReview"} \subseteq Phases
  BY DEF Inv, TypeOK, Tasks, Statuses, Phases, Terminal, Busy
<1>3. \A w \in Work, gated \in BOOLEAN :
        Root(w, gated) \in Content /\ Root(w, gated).gated = gated
                                   /\ Root(w, gated).parent = NoPlan
  BY RootIsContent DEF Root
<1>4. CASE \E a \in Actions : ProposeDenied(t, p, a)
  <2> PICK a \in Actions : ProposeDenied(t, p, a)
    BY <1>4
  <2>1. /\ Create(p, Root(a, FALSE), "Ready")
        /\ status' = [status EXCEPT ![p] = "Cancelled"]
        /\ Enter(t, "idle", "none", NoPlan, <<>>)
        /\ UNCHANGED <<paused, due, approvals, ran, asked>>
    BY DEF ProposeDenied, Return
  <2>2. conv' \in Phases
    BY <1>2, MovedIsPhase DEF ProposeDenied, Move
  <2> QED BY <1>2, <1>3, <2>1, <2>2, PhaseLists, CreateStep
<1>5. CASE \E a \in Actions : ProposeGated(t, p, a)
  <2> PICK a \in Actions : ProposeGated(t, p, a)
    BY <1>5
  <2>1. /\ Create(p, Root(a, TRUE), "Ready") /\ Pause(p)
        /\ Enter(t, "idle", "none", NoPlan, <<"WaitingForReview">>)
        /\ UNCHANGED <<conv, due, approvals, ran, asked>>
    BY DEF ProposeGated, Return
  <2> QED BY <1>2, <1>3, <2>1, PhaseLists, CreateStep
<1>6. CASE \E a \in Actions : ProposeAllowed(t, p, a)
  <2> PICK a \in Actions : ProposeAllowed(t, p, a)
    BY <1>6
  <2>1. /\ Create(p, Root(a, FALSE), "Ready")
        /\ status' = [status EXCEPT ![p] = "Approved"]
        /\ Enter(t, "approved", task[t], p, <<>>)
        /\ UNCHANGED <<conv, paused, due, approvals, ran, asked>>
    BY DEF ProposeAllowed
  <2> QED BY <1>2, <1>3, <2>1, PhaseLists, CreateStep
<1>7. CASE \E b \in Batches : ProposeGeneration(t, p, b)
  <2> PICK b \in Batches : ProposeGeneration(t, p, b)
    BY <1>7
  <2>1. /\ Create(p, Root(b, TRUE), "AwaitingReview") /\ Pause(p)
        /\ Enter(t, "idle", "none", NoPlan, <<"WaitingForReview">>)
        /\ UNCHANGED <<conv, due, approvals, ran, asked>>
    BY DEF ProposeGeneration, Return
  <2> QED BY <1>2, <1>3, <2>1, PhaseLists, CreateStep
<1>8. CASE \E b \in Batches : ProposeGenerationDenied(t, p, b)
  <2> PICK b \in Batches : ProposeGenerationDenied(t, p, b)
    BY <1>8
  <2>1. /\ Create(p, Root(b, FALSE), "Cancelled")
        /\ status' = [status EXCEPT ![p] = "Cancelled"]
        /\ Enter(t, "idle", "none", NoPlan, <<>>)
        /\ UNCHANGED <<paused, due, approvals, ran, asked>>
    BY DEF ProposeGenerationDenied, Return
  <2>2. conv' \in Phases
    BY <1>2, MovedIsPhase DEF ProposeGenerationDenied, Move
  <2> QED BY <1>2, <1>3, <2>1, <2>2, PhaseLists, CreateStep
<1> QED BY <1>1, <1>4, <1>5, <1>6, <1>7, <1>8

(* A modification makes a new plan of a withdrawn one.                     *)
LEMMA ReviseSteps ==
  ASSUME Inv, NEW t \in Threads, NEW p \in Plans, NEW work \in Work, NEW shown \in Work,
         Revise(t, p, work, shown) \/ ReviseDenied(t, p, work, shown)
  PROVE  Inv'
<1>1. /\ cur[t] \in Plans /\ status[cur[t]] = "Cancelled" /\ cur[t] \in 1 .. seq
      /\ plan[cur[t]].gated
  <2>1. pc[t] = "revising" /\ ThreadInv(t)
    BY DEF Revise, ReviseDenied, At, Inv, AllThreadsInv
  <2>2. /\ cur[t] \in Plans /\ status[cur[t]] = "Cancelled" /\ plan[cur[t]].gated
    BY <2>1 DEF ThreadInv, Working
  <2>3. ~(cur[t] > seq)
    BY <2>2 DEF Inv, AllPlansInv, PlanInv
  <2> QED BY <2>2, <2>3 DEF Inv, TypeOK
<1> DEFINE child == Revision(cur[t], work, shown)
<1>2. /\ child \in Content
      /\ child.parent = cur[t] /\ child.gated
  BY <1>1, RevisionIsContent DEF Inv, TypeOK, Revision, Content
<1>3. /\ "none" \in Tasks /\ conv \in Phases
      /\ {"AwaitingReview", "Cancelled"} \subseteq Statuses
      /\ {"Cancelled", "WaitingForReview"} \subseteq Phases
  BY DEF Inv, TypeOK, Tasks, Statuses, Phases, Terminal, Busy
<1>4. CASE Revise(t, p, work, shown)
  <2>1. /\ Create(p, child, "AwaitingReview") /\ Pause(p)
        /\ approvals' = approvals \cup
             {[plan |-> cur[t], decision |-> "modify", result |-> "none"]}
        /\ Enter(t, "idle", "none", NoPlan, <<"WaitingForReview">>)
        /\ UNCHANGED <<conv, due, ran, asked>>
    BY <1>4 DEF Revise, PauseRevision, Return
  <2> QED BY <1>1, <1>2, <1>3, <2>1, PhaseLists, CreateStep
<1>5. CASE ReviseDenied(t, p, work, shown)
  <2>1. /\ Create(p, child, "Cancelled")
        /\ status' = [status EXCEPT ![p] = "Cancelled"]
        /\ approvals' = approvals \cup
             {[plan |-> cur[t], decision |-> "modify", result |-> "cancelled"]}
        /\ Enter(t, "idle", "none", NoPlan, <<>>)
        /\ UNCHANGED <<paused, due, ran, asked>>
    BY <1>5 DEF ReviseDenied, Return
  <2>2. conv' \in Phases
    BY <1>3, <1>5, MovedIsPhase DEF ReviseDenied, Move
  <2> QED BY <1>1, <1>2, <1>3, <2>1, <2>2, PhaseLists, CreateStep
<1> QED BY <1>4, <1>5
------------------------------------------------------------------------------
(* A gesture takes the paused plan out of the store.                       *)
LEMMA TakeStep ==
  ASSUME Inv, NEW t \in Threads, Take(t),
         NEW s \in {"AwaitingReview", "Approved", "Cancelled"},
         status' = [status EXCEPT ![cur[t]] = s],
         s = "Approved" => cur[t] \notin due /\ task[t] = "approve",
         NEW l \in {"idle", "approved", "revising"},
         l = "approved" <=> s = "Approved", l = "revising" => s = "Cancelled",
         NEW k \in Tasks, NEW moves \in Seq(Phases),
         Enter(t, l, k, IF l = "idle" THEN NoPlan ELSE cur[t], moves),
         history' \in [Plans -> Statuses],
         \/ approvals' = approvals
         \/ /\ s # "Approved"
            /\ approvals' = approvals \cup
                 {[plan |-> cur[t], decision |-> task[t], result |-> "cancelled"]},
         UNCHANGED <<conv, planVars, due, ran, asked>>
  PROVE  Inv'
<1> DEFINE p == cur[t]
<1>1. /\ p \in 1 .. seq /\ p \in paused /\ paused' = paused \ {p}
      /\ task[t] \in {"approve", "cancel", "modify"}
      /\ task[t] = "approve" => p \in asked
  BY DEF Take, At, Inv, AllThreadsInv, ThreadInv
<1>2. /\ p \in Plans /\ status[p] = "AwaitingReview" /\ plan[p].gated /\ ran[p] = 0
  BY <1>1 DEF Inv, TypeOK, AllPlansInv, PlanInv, Started
<1>3. /\ status' \in [Plans -> Statuses]
      /\ \A q \in Plans : status'[q] = IF q = p THEN s ELSE status[q]
  BY <1>2 DEF Inv, TypeOK, Statuses
<1>4. /\ conv' = conv /\ seq' = seq /\ plan' = plan /\ due' = due /\ ran' = ran
      /\ asked' = asked
  BY DEF planVars
<1> HIDE DEF p
<1>5. /\ Enter(t, l, k, IF l = "idle" THEN NoPlan ELSE p, moves)
      /\ \/ approvals' = approvals
         \/ /\ s # "Approved"
            /\ approvals' = approvals \cup
                 {[plan |-> p, decision |-> task[t], result |-> "cancelled"]}
      /\ s = "Approved" => p \notin due /\ p \in asked
  BY <1>1 DEF p
<1>6. TypeOK'
  <2>1. TypeOK /\ l \in PCs /\ (IF l = "idle" THEN NoPlan ELSE p) \in Plans \cup {NoPlan}
    BY <1>2 DEF Inv, PCs
  <2>2. /\ pc' \in [Threads -> PCs] /\ task' \in [Threads -> Tasks]
        /\ cur' \in [Threads -> Plans \cup {NoPlan}]
        /\ todo' \in [Threads -> Seq(Phases)] /\ step' \in [Threads -> Nat]
    BY <1>5, <2>1, EnterTyped
  <2>3. approvals' \subseteq Records
    BY <1>1, <1>2, <1>5 DEF Inv, TypeOK, Records
  <2> QED BY <1>1, <1>3, <1>4, <2>1, <2>2, <2>3 DEF TypeOK
<1>7. AllPlansInv'
  <2> SUFFICES ASSUME NEW q \in Plans PROVE PlanInv(q)'
    BY DEF AllPlansInv
  <2>1. PlanInv(q) /\ (plan[q].parent # NoPlan => plan[q].parent \in Plans)
    BY DEF Inv, TypeOK, AllPlansInv, Content
  <2>2. CASE q = p
    BY <1>1, <1>2, <1>3, <1>4, <1>5, <2>1, <2>2 DEF PlanInv, Started
  <2>3. CASE q # p
    BY <1>1, <1>2, <1>3, <1>4, <2>1, <2>3 DEF PlanInv, Started
  <2> QED BY <2>2, <2>3
<1>8. OnePaused'
  BY <1>1 DEF Inv, OnePaused
<1>9. AllThreadsInv' /\ SoleOwner'
  <2>1. \A u \in Threads : pc[u] \in Working => cur[u] # p
    BY <1>2 DEF Inv, AllThreadsInv, ThreadInv, Working
  <2>2. AllThreadsInv'
    <3> SUFFICES ASSUME NEW u \in Threads PROVE ThreadInv(u)'
      BY DEF AllThreadsInv
    <3>1. CASE u = t
      BY <1>2, <1>3, <1>4, <1>5, <3>1 DEF Inv, TypeOK, Enter, ThreadInv, Working
    <3>2. CASE u # t
      <4>1. /\ pc'[u] = pc[u] /\ cur'[u] = cur[u] /\ task'[u] = task[u]
            /\ step'[u] = step[u] /\ ThreadInv(u)
        BY <1>5, <3>2 DEF Inv, TypeOK, AllThreadsInv, Enter
      <4> QED BY <1>3, <1>4, <2>1, <4>1 DEF ThreadInv, Working
    <3> QED BY <3>1, <3>2
  <2>3. SoleOwner'
    BY <1>5, <2>1 DEF Inv, TypeOK, SoleOwner, Enter, Working
  <2> QED BY <2>2, <2>3
<1>10. AllRecordsInv'
  <2> SUFFICES ASSUME NEW r \in approvals' PROVE RecordInv(r)'
    BY DEF AllRecordsInv
  <2>1. CASE r \in approvals
    <3>1. r.plan \in Plans /\ RecordInv(r)
      BY <2>1 DEF Inv, TypeOK, Records, AllRecordsInv
    <3>2. r.plan # p
      BY <1>1, <1>2, <3>1 DEF RecordInv
    <3> QED BY <1>1, <1>3, <1>4, <3>1, <3>2 DEF RecordInv
  <2>2. CASE r \notin approvals
    <3>1. r.plan = p /\ r.result # "completed" /\ s # "Approved"
      BY <1>5, <2>2
    <3>2. p <= seq
      BY <1>1
    <3> QED BY <1>1, <1>2, <1>3, <1>4, <3>1, <3>2 DEF RecordInv
  <2> QED BY <2>1, <2>2
<1> QED BY <1>6, <1>7, <1>8, <1>9, <1>10 DEF Inv

(* Who takes a plan out of the store is its only holder.                   *)
LEMMA TakeSteps ==
  ASSUME Inv, NEW t \in Threads,
         ResolveTimedOut(t) \/ Resume(t) \/ Cancel(t) \/ Withdraw(t)
  PROVE  Inv'
<1>1. /\ task[t] \in Tasks /\ "none" \in Tasks /\ "Cancelled" \in Phases
      /\ "Cancelled" \in Statuses /\ history \in [Plans -> Statuses]
  BY DEF Inv, TypeOK, Tasks, Phases, Terminal, Statuses
<1>2. CASE ResolveTimedOut(t)
  <2>1. status[cur[t]] = "AwaitingReview" /\ status \in [Plans -> Statuses]
    BY <1>2 DEF ResolveTimedOut, Take, Inv, TypeOK, AllPlansInv, PlanInv
  <2>2. status' = [status EXCEPT ![cur[t]] = "AwaitingReview"] /\ history' = history
    BY <1>2, <2>1 DEF ResolveTimedOut
  <2>3. /\ Take(t) /\ Enter(t, "idle", "none", NoPlan, <<"Cancelled">>)
        /\ approvals' = approvals \cup
             {[plan |-> cur[t], decision |-> task[t], result |-> "cancelled"]}
        /\ UNCHANGED <<conv, planVars, due, ran, asked>>
    BY <1>2 DEF ResolveTimedOut, Return
  <2> QED BY <1>1, <2>2, <2>3, PhaseLists, TakeStep
<1>3. CASE Resume(t)
  <2>1. /\ Take(t) /\ cur[t] \notin due /\ task[t] = "approve"
        /\ status' = [status EXCEPT ![cur[t]] = "Approved"]
        /\ Enter(t, "approved", task[t], cur[t], <<>>)
        /\ UNCHANGED <<conv, planVars, due, history, approvals, ran, asked>>
    BY <1>3 DEF Resume, Goto
  <2> QED BY <1>1, <2>1, PhaseLists, TakeStep
<1>4. CASE Cancel(t)
  <2>1. /\ Take(t) /\ task[t] = "cancel" /\ history' = history
        /\ status' = [status EXCEPT ![cur[t]] = "Cancelled"]
        /\ Enter(t, "idle", "none", NoPlan, <<"Cancelled">>)
        /\ approvals' = approvals \cup
             {[plan |-> cur[t], decision |-> task[t], result |-> "cancelled"]}
        /\ UNCHANGED <<conv, planVars, due, ran, asked>>
    BY <1>4 DEF Cancel, Return
  <2> QED BY <1>1, <2>1, PhaseLists, TakeStep
<1>5. CASE Withdraw(t)
  <2>1. /\ Take(t)
        /\ status' = [status EXCEPT ![cur[t]] = "Cancelled"]
        /\ Enter(t, "revising", task[t], cur[t], <<>>)
        /\ UNCHANGED <<conv, planVars, due, approvals, ran, asked>>
    BY <1>5 DEF Withdraw, Goto
  <2>2. history' \in [Plans -> Statuses]
    BY <1>1, <1>5 DEF Withdraw
  <2> QED BY <1>1, <2>1, <2>2, PhaseLists, TakeStep
<1> QED BY <1>2, <1>3, <1>4, <1>5
------------------------------------------------------------------------------
(* A gesture names a plan that had a Review Card.                          *)
LEMMA SubmitInv ==
  ASSUME Inv, NEW t \in Threads, NEW p \in Plans,
         NEW decision \in {"approve", "cancel", "modify"}, Submit(t, p, decision)
  PROVE  Inv'
<1> DEFINE moves == IF decision = "approve" /\ conv \in {"Idle", "Completed"}
                      THEN <<"PreparingContext", "WaitingForReview">> ELSE <<>>
<1>1. /\ Enter(t, "deciding", decision, p, moves) /\ p <= seq
      /\ asked' = (IF decision = "approve" THEN asked \cup {p} ELSE asked)
      /\ UNCHANGED <<planVars, status, paused, due, history, approvals, ran>>
  BY DEF Submit
<1>2. conv' \in Phases
  BY MovedIsPhase DEF Submit, Move, Inv, TypeOK, Phases, Busy
<1>3. moves \in Seq(Phases)
  BY PhaseLists DEF Phases, Busy
<1> HIDE DEF moves
<1>4. TypeOK'
  <2>1. TypeOK /\ "deciding" \in PCs /\ decision \in Tasks
    BY DEF Inv, PCs, Tasks
  <2>2. /\ pc' \in [Threads -> PCs] /\ task' \in [Threads -> Tasks]
        /\ cur' \in [Threads -> Plans \cup {NoPlan}]
        /\ todo' \in [Threads -> Seq(Phases)] /\ step' \in [Threads -> Nat]
    BY <1>1, <1>3, <2>1, EnterTyped
  <2> QED BY <1>1, <1>2, <2>1, <2>2 DEF TypeOK, planVars
<1>5. AllPlansInv'
  BY <1>1 DEF Inv, TypeOK, AllPlansInv, PlanInv, planVars
<1>6. AllThreadsInv' /\ SoleOwner'
  BY <1>1 DEF Inv, TypeOK, AllThreadsInv, ThreadInv, SoleOwner, Working, Enter,
              planVars
<1>7. OnePaused' /\ AllRecordsInv'
  BY <1>1 DEF Inv, OnePaused, AllRecordsInv, RecordInv, planVars
<1> QED BY <1>4, <1>5, <1>6, <1>7 DEF Inv

(* A plan that starts to run was approved, and made no call yet.           *)
LEMMA StartExecutingInv ==
  ASSUME Inv, NEW t \in Threads, StartExecuting(t)
  PROVE  Inv'
<1> DEFINE p == cur[t]
<1>1. /\ pc[t] = "approved" /\ p \in Plans /\ status[p] = "Approved"
      /\ p \notin paused /\ ran[p] = 0 /\ Enter(t, "running", task[t], p, <<>>)
      /\ UNCHANGED <<planVars, reviewVars, ran>>
  BY DEF StartExecuting, At, Goto, Inv, AllThreadsInv, ThreadInv, Working,
         AllPlansInv, PlanInv, Started
<1>2. /\ status' \in [Plans -> Statuses]
      /\ \A q \in Plans : status'[q] = IF q = p THEN "Executing" ELSE status[q]
  BY <1>1 DEF StartExecuting, Inv, TypeOK, Statuses
<1>3. \A u \in Threads : u # t /\ pc[u] \in Working => cur[u] # p
  BY <1>1 DEF Inv, SoleOwner, Working
<1> HIDE DEF p
<1>4. TypeOK'
  <2>1. TypeOK /\ "running" \in PCs /\ task[t] \in Tasks /\ p \in Plans \cup {NoPlan}
    BY <1>1 DEF Inv, TypeOK, PCs
  <2>2. /\ pc' \in [Threads -> PCs] /\ task' \in [Threads -> Tasks]
        /\ cur' \in [Threads -> Plans \cup {NoPlan}]
        /\ todo' \in [Threads -> Seq(Phases)] /\ step' \in [Threads -> Nat]
    BY <1>1, <2>1, PhaseLists, EnterTyped
  <2>3. conv' \in Phases
    BY MovedIsPhase DEF StartExecuting, Move, Inv, TypeOK, Phases, Busy
  <2> QED BY <1>1, <1>2, <2>1, <2>2, <2>3 DEF TypeOK, planVars, reviewVars
<1>5. AllPlansInv'
  <2> SUFFICES ASSUME NEW q \in Plans PROVE PlanInv(q)'
    BY DEF AllPlansInv
  <2>1. PlanInv(q) /\ (plan[q].parent # NoPlan => plan[q].parent \in Plans)
    BY DEF Inv, TypeOK, AllPlansInv, Content
  <2> QED BY <1>1, <1>2, <2>1 DEF PlanInv, Started, planVars, reviewVars
<1>6. AllThreadsInv'
  <2> SUFFICES ASSUME NEW u \in Threads PROVE ThreadInv(u)'
    BY DEF AllThreadsInv
  <2>1. CASE u = t
    <3>1. plan[p].batch \in Work /\ 0 < Size[plan[p].batch]
      BY <1>1, SizeIsPositive DEF Inv, TypeOK, Content
    <3> QED BY <1>1, <1>2, <2>1, <3>1
            DEF Inv, TypeOK, Enter, ThreadInv, Working, planVars
  <2>2. CASE u # t
    <3>1. /\ pc'[u] = pc[u] /\ cur'[u] = cur[u] /\ task'[u] = task[u]
          /\ step'[u] = step[u] /\ ThreadInv(u)
      BY <1>1, <2>2 DEF Inv, TypeOK, AllThreadsInv, Enter
    <3> QED BY <1>1, <1>2, <1>3, <2>2, <3>1
            DEF ThreadInv, Working, planVars, reviewVars
  <2> QED BY <2>1, <2>2
<1>7. SoleOwner'
  BY <1>1, <1>3 DEF Inv, TypeOK, SoleOwner, Enter, Working
<1>8. OnePaused'
  BY <1>1 DEF Inv, OnePaused, reviewVars
<1>9. AllRecordsInv'
  <2> SUFFICES ASSUME NEW r \in approvals PROVE RecordInv(r)'
    BY <1>1 DEF AllRecordsInv, reviewVars
  <2>1. r.plan \in Plans /\ RecordInv(r)
    BY DEF Inv, TypeOK, Records, AllRecordsInv
  <2> QED BY <1>1, <1>2, <2>1 DEF RecordInv, planVars, reviewVars
<1> QED BY <1>4, <1>5, <1>6, <1>7, <1>8, <1>9 DEF Inv

(* A tool call that does not end the plan.                                 *)
LEMMA CallSucceedsInv ==
  ASSUME Inv, NEW t \in Threads, CallSucceeds(t)
  PROVE  Inv'
<1> DEFINE p == cur[t]
<1>1. /\ pc[t] = "running" /\ p \in Plans /\ status[p] = "Executing"
      /\ ran[p] = step[t] /\ step[t] < Size[plan[p].batch]
      /\ step[t] \in Nat /\ Size[plan[p].batch] \in Nat
      /\ step[t] + 1 # Size[plan[p].batch]
  <2>1. ThreadInv(t) /\ pc[t] = "running" /\ ~IsLastCall(t)
    BY DEF Inv, AllThreadsInv, CallSucceeds, CallTool, At
  <2>2. p \in Plans /\ plan[p].batch \in Work
    BY <2>1 DEF Inv, TypeOK, ThreadInv, Working, Content
  <2> QED BY <2>1, <2>2, SizeIsPositive DEF ThreadInv, IsLastCall, Inv, TypeOK
<1>2. /\ ran' \in [Plans -> Nat] /\ ran'[p] = step[t] + 1
      /\ \A q \in Plans : q # p => ran'[q] = ran[q]
      /\ step' \in [Threads -> Nat] /\ step'[t] = step[t] + 1
      /\ \A u \in Threads : u # t => step'[u] = step[u]
  BY <1>1 DEF CallSucceeds, CallTool, Inv, TypeOK
<1>3. /\ UNCHANGED <<conv, planVars, status, reviewVars, pc, task, cur, todo>>
  BY DEF CallSucceeds, CallTool, reviewVars
<1>4. \A u \in Threads : u # t /\ pc[u] \in Working => cur[u] # p
  BY <1>1 DEF Inv, SoleOwner, Working
<1> HIDE DEF p
<1>5. TypeOK'
  BY <1>2, <1>3 DEF Inv, TypeOK, planVars, reviewVars
<1>6. AllPlansInv'
  <2> SUFFICES ASSUME NEW q \in Plans PROVE PlanInv(q)'
    BY DEF AllPlansInv
  <2>1. PlanInv(q)
    BY DEF Inv, AllPlansInv
  <2> QED BY <1>1, <1>2, <1>3, <2>1 DEF PlanInv, Started, planVars, reviewVars
<1>7. AllThreadsInv'
  <2> SUFFICES ASSUME NEW u \in Threads PROVE ThreadInv(u)'
    BY DEF AllThreadsInv
  <2>1. ThreadInv(u)
    BY DEF Inv, AllThreadsInv
  <2>2. CASE u = t
    BY <1>1, <1>2, <1>3, <2>1, <2>2 DEF ThreadInv, Working, planVars, reviewVars, p
  <2>3. CASE u # t
    BY <1>1, <1>2, <1>3, <1>4, <2>1, <2>3 DEF ThreadInv, Working, planVars, reviewVars
  <2> QED BY <2>2, <2>3
<1>8. OnePaused' /\ SoleOwner'
  BY <1>3 DEF Inv, OnePaused, SoleOwner, reviewVars
<1>9. AllRecordsInv'
  <2> SUFFICES ASSUME NEW r \in approvals PROVE RecordInv(r)'
    BY <1>3 DEF AllRecordsInv, reviewVars
  <2>1. r.plan \in Plans /\ RecordInv(r)
    BY DEF Inv, TypeOK, Records, AllRecordsInv
  <2> QED BY <1>1, <1>2, <1>3, <2>1 DEF RecordInv, planVars, reviewVars
<1> QED BY <1>5, <1>6, <1>7, <1>8, <1>9 DEF Inv

(* A tool call that ends the plan, in success or in failure.               *)
LEMMA EndStep ==
  ASSUME Inv, NEW t \in Threads, CallTool(t),
         NEW s \in {"Completed", "Failed"}, s = "Completed" => IsLastCall(t),
         status' = [status EXCEPT ![cur[t]] = s],
         conv' \in Phases,
         Enter(t, "idle", "none", NoPlan, <<>>),
         \/ approvals' = approvals
         \/ /\ s = "Completed"
            /\ approvals' = approvals \cup
                 {[plan |-> cur[t], decision |-> "approve", result |-> "completed"]}
  PROVE  Inv'
<1> DEFINE p == cur[t]
<1>1. /\ pc[t] = "running" /\ p \in Plans /\ status[p] = "Executing"
      /\ ran[p] = step[t] /\ step[t] < Size[plan[p].batch]
      /\ step[t] \in Nat /\ Size[plan[p].batch] \in Nat
      /\ s = "Completed" => step[t] + 1 = Size[plan[p].batch]
  <2>1. ThreadInv(t) /\ pc[t] = "running"
    BY DEF Inv, AllThreadsInv, CallTool, At
  <2>2. p \in Plans /\ plan[p].batch \in Work
    BY <2>1 DEF Inv, TypeOK, ThreadInv, Working, Content
  <2> QED BY <2>1, <2>2, SizeIsPositive DEF ThreadInv, IsLastCall, Inv, TypeOK
<1>2. /\ ran' \in [Plans -> Nat] /\ ran'[p] = step[t] + 1
      /\ \A q \in Plans : q # p => ran'[q] = ran[q]
      /\ UNCHANGED <<planVars, history, paused, due, asked>>
  BY <1>1 DEF CallTool, Inv, TypeOK
<1>3. /\ status' \in [Plans -> Statuses]
      /\ \A q \in Plans : status'[q] = IF q = p THEN s ELSE status[q]
  BY <1>1 DEF Inv, TypeOK, Statuses
<1>4. \A u \in Threads : u # t /\ pc[u] \in Working => cur[u] # p
  BY <1>1 DEF Inv, SoleOwner, Working
<1>5. \/ approvals' = approvals
      \/ /\ s = "Completed"
         /\ approvals' = approvals \cup
              {[plan |-> p, decision |-> "approve", result |-> "completed"]}
  OBVIOUS
<1> HIDE DEF p
<1>6. TypeOK'
  <2>1. /\ TypeOK /\ "idle" \in PCs /\ "none" \in Tasks
        /\ NoPlan \in Plans \cup {NoPlan}
    BY DEF Inv, PCs, Tasks
  <2>2. /\ pc' \in [Threads -> PCs] /\ task' \in [Threads -> Tasks]
        /\ cur' \in [Threads -> Plans \cup {NoPlan}]
        /\ todo' \in [Threads -> Seq(Phases)] /\ step' \in [Threads -> Nat]
    BY <2>1, PhaseLists, EnterTyped
  <2>3. approvals' \subseteq Records
    BY <1>1, <1>5 DEF Inv, TypeOK, Records
  <2> QED BY <1>2, <1>3, <2>1, <2>2, <2>3 DEF TypeOK, planVars
<1>7. AllPlansInv'
  <2> SUFFICES ASSUME NEW q \in Plans PROVE PlanInv(q)'
    BY DEF AllPlansInv
  <2>1. PlanInv(q) /\ (plan[q].parent # NoPlan => plan[q].parent \in Plans)
    BY DEF Inv, TypeOK, AllPlansInv, Content
  <2> QED BY <1>1, <1>2, <1>3, <2>1 DEF PlanInv, Started, planVars
<1>8. AllThreadsInv' /\ SoleOwner'
  <2>1. AllThreadsInv'
    <3> SUFFICES ASSUME NEW u \in Threads PROVE ThreadInv(u)'
      BY DEF AllThreadsInv
    <3>1. CASE u = t
      BY <3>1 DEF Inv, TypeOK, Enter, ThreadInv, Working
    <3>2. CASE u # t
      <4>1. /\ pc'[u] = pc[u] /\ cur'[u] = cur[u] /\ task'[u] = task[u]
            /\ step'[u] = step[u] /\ ThreadInv(u)
        BY <3>2 DEF Inv, TypeOK, AllThreadsInv, Enter
      <4> QED BY <1>2, <1>3, <1>4, <3>2, <4>1 DEF ThreadInv, Working, planVars
    <3> QED BY <3>1, <3>2
  <2>2. SoleOwner'
    BY DEF Inv, TypeOK, SoleOwner, Enter, Working
  <2> QED BY <2>1, <2>2
<1>9. OnePaused'
  BY <1>2 DEF Inv, OnePaused
<1>10. AllRecordsInv'
  <2> SUFFICES ASSUME NEW r \in approvals' PROVE RecordInv(r)'
    BY DEF AllRecordsInv
  <2>1. CASE r \in approvals
    <3>1. r.plan \in Plans /\ RecordInv(r)
      BY <2>1 DEF Inv, TypeOK, Records, AllRecordsInv
    <3>2. r.plan # p
      BY <1>1, <3>1 DEF RecordInv
    <3> QED BY <1>2, <1>3, <3>1, <3>2 DEF RecordInv, planVars
  <2>2. CASE r \notin approvals
    <3>1. r.plan = p /\ r.result = "completed" /\ s = "Completed"
      BY <1>5, <2>2
    <3> QED BY <1>1, <1>2, <1>3, <3>1 DEF RecordInv, planVars
  <2> QED BY <2>1, <2>2
<1> QED BY <1>6, <1>7, <1>8, <1>9, <1>10 DEF Inv

(* A call of a plan that runs, in the middle or the last one.              *)
LEMMA ExecuteSteps ==
  ASSUME Inv, NEW t \in Threads, Execute(t)
  PROVE  Inv'
<1>1. conv \in Phases /\ {"Completed", "Failed"} \subseteq Phases
  BY DEF Inv, TypeOK, Phases, Terminal
<1>2. CASE StartExecuting(t) \/ CallSucceeds(t)
  BY <1>2, StartExecutingInv, CallSucceedsInv
<1>3. CASE LastCallSucceeds(t)
  <2>1. conv' \in Phases
    BY <1>1, <1>3, MovedIsPhase DEF LastCallSucceeds, Move
  <2> QED BY <1>3, <2>1, EndStep DEF LastCallSucceeds, Return
<1>4. CASE ResumeSucceeds(t)
  <2>1. conv' \in Phases
    BY <1>1, <1>4, MovedIsPhase DEF ResumeSucceeds, Move
  <2> QED BY <1>4, <2>1, EndStep DEF ResumeSucceeds, Return
<1>5. CASE CallFails(t)
  <2>1. conv' \in Phases
    BY <1>1, <1>5, MovedIsPhase DEF CallFails, Move
  <2> QED BY <1>5, <2>1, EndStep DEF CallFails, Return
<1> QED BY <1>2, <1>3, <1>4, <1>5 DEF Execute
------------------------------------------------------------------------------
(* Every step keeps the invariant.                                         *)
LEMMA NextInv == Inv /\ [Next]_vars => Inv'
<1> SUFFICES ASSUME Inv, [Next]_vars PROVE Inv'
  OBVIOUS
<1>1. ASSUME NEW t \in Threads, Inside(t) PROVE Inv'
  BY <1>1, TransitionInv, QuietSteps, RequestSteps, ProposeSteps, ExecuteSteps,
     TakeSteps, ReviseSteps DEF Inside, Handle, Resolve
<1>2. ASSUME NEW t \in Threads, Call(t) PROVE Inv'
  BY <1>2, QuietSteps, RequestSteps, SubmitInv DEF Call
<1>3. ASSUME NEW p \in Plans, Lapse(p) PROVE Inv'
  BY <1>3, LapseInv
<1>4. CASE UNCHANGED vars
  <2>1. TypeOK'
    BY <1>4 DEF vars, Inv, TypeOK
  <2>2. AllPlansInv' /\ OnePaused' /\ AllRecordsInv'
    BY <1>4 DEF vars, Inv, AllPlansInv, PlanInv, OnePaused, AllRecordsInv, RecordInv
  <2>3. AllThreadsInv' /\ SoleOwner'
    BY <1>4 DEF vars, Inv, AllThreadsInv, ThreadInv, SoleOwner
  <2> QED BY <2>1, <2>2, <2>3 DEF Inv
<1> QED BY <1>1, <1>2, <1>3, <1>4 DEF Next

(* The inductive invariant holds in every reachable state.                 *)
THEOREM Invariance == Spec => []Inv
  BY InitInv, NextInv, PTL DEF Spec

(* Every variable keeps its type: every record, phase, list of pending     *)
(* transitions and plan in hand is one the code's types admit.             *)
THEOREM TypeCorrect == Spec => []TypeOK
<1>1. Inv => TypeOK
  BY DEF Inv
<1> QED BY <1>1, Invariance, PTL

(* No tool is reached for a plan that needs review unless the user pressed *)
(* Approve on that plan: Review Before Action.                             *)
THEOREM ReviewedBeforeAction == Spec => []ReviewBeforeAction
<1>1. Inv => ReviewBeforeAction
  <2> SUFFICES ASSUME Inv, NEW p \in Plans, plan[p].gated, ran[p] > 0
               PROVE  p \in asked
    BY DEF ReviewBeforeAction
  <2>1. PlanInv(p)
    BY DEF Inv, AllPlansInv
  <2> QED BY <2>1 DEF PlanInv, Started
<1> QED BY <1>1, Invariance, PTL

(* No plan makes more tool calls than its work has, however often and by   *)
(* however many threads it is approved.                                    *)
THEOREM RunsAtMostOnce == Spec => []NoCallTwice
<1>1. Inv => NoCallTwice
  BY DEF Inv, AllPlansInv, PlanInv, NoCallTwice
<1> QED BY <1>1, Invariance, PTL

(* A cancelled, superseded, denied or timed out plan never runs.           *)
THEOREM RejectedIsInert == Spec => []RejectedNeverRuns
<1>1. Inv => RejectedNeverRuns
  <2> SUFFICES ASSUME Inv, NEW p \in Plans, status[p] = "Cancelled" \/ p \in due
               PROVE  ran[p] = 0
    BY DEF RejectedNeverRuns
  <2>1. PlanInv(p)
    BY DEF Inv, AllPlansInv
  <2> QED BY <2>1 DEF PlanInv, Started
<1> QED BY <1>1, Invariance, PTL

(* A plan that was modified never runs, only its revision can.             *)
THEOREM ModifiedIsInert == Spec => []ModifiedParentNeverRuns
<1>1. Inv => ModifiedParentNeverRuns
  <2> SUFFICES ASSUME Inv, NEW p \in Plans, plan[p].parent # NoPlan
               PROVE  ran[plan[p].parent] = 0
    BY DEF ModifiedParentNeverRuns
  <2>1. plan[p].parent \in Plans
    BY DEF Inv, TypeOK, Content
  <2>2. PlanInv(p) /\ PlanInv(plan[p].parent)
    BY <2>1 DEF Inv, AllPlansInv
  <2> QED BY <2>2 DEF PlanInv, Started
<1> QED BY <1>1, Invariance, PTL

(* A plan is either in the store or in the hands of one thread.            *)
THEOREM HeldOnce == Spec => []OneHolder
<1>1. Inv => OneHolder
  <2> SUFFICES ASSUME Inv PROVE OneHolder
    OBVIOUS
  <2>1. \A p \in paused : status[p] = "AwaitingReview" /\ plan[p].gated
    BY DEF Inv, TypeOK, AllPlansInv, PlanInv
  <2>2. \A p \in paused : Owners(p) = {}
    BY <2>1 DEF Inv, AllThreadsInv, ThreadInv, Owners
  <2>3. \A p \in Plans : \A t, u \in Owners(p) : t = u
    BY DEF Inv, SoleOwner, Owners, Working
  <2> QED BY <2>1, <2>2, <2>3 DEF OneHolder, Inv, OnePaused
<1> QED BY <1>1, Invariance, PTL

(* What Approval History says happened to a plan did happen.               *)
THEOREM RecordsAreTrue == Spec => []ApprovalsAreTrue
<1>1. Inv => ApprovalsAreTrue
  <2> SUFFICES ASSUME Inv, NEW r \in approvals
               PROVE  IF r.result = "completed"
                        THEN /\ status[r.plan] = "Completed"
                             /\ ran[r.plan] = Size[plan[r.plan].batch]
                        ELSE ran[r.plan] = 0
    BY DEF ApprovalsAreTrue
  <2>1. RecordInv(r) /\ r.plan \in Plans
    BY DEF Inv, AllRecordsInv, TypeOK, Records
  <2>2. PlanInv(r.plan)
    BY <2>1 DEF Inv, AllPlansInv
  <2> QED BY <2>1, <2>2 DEF RecordInv, PlanInv, Started
<1> QED BY <1>1, Invariance, PTL

-----------------------------------------------------------------------------
(* What the gate decided of the work that runs.                            *)

Gated(d) == d.gated \/ Verdict[d.batch] = "Allowed"

(* The gate lets the work of a plan be shown or run.                       *)
Passed(p) == Verdict[plan[p].batch] # "Denied" /\ Gated(plan[p])

(* A plan that is not cancelled passed the gate, and so did one that is    *)
(* withdrawn to be revised.                                                *)
GateInv ==
  /\ \A p \in Plans : status[p] \notin {"Draft", "Cancelled"} => Passed(p)
  /\ \A t \in Threads : pc[t] = "revising" => Passed(cur[t])

(* A new plan that passes the gate or is cancelled, with the others as     *)
(* they were or cancelled, keeps the invariant.                            *)
LEMMA CreatePasses ==
  ASSUME Inv, GateInv, NEW p \in Plans, NEW d \in Content,
         plan' = [plan EXCEPT ![p] = d], p = seq + 1,
         status' \in [Plans -> Statuses],
         \A q \in Plans : q # p => status'[q] \in {status[q], "Cancelled"},
         status'[p] = "Cancelled" \/ (Verdict[d.batch] # "Denied" /\ Gated(d)),
         \A t \in Threads : pc'[t] = "revising" => pc[t] = "revising" /\ cur'[t] = cur[t]
  PROVE  GateInv'
<1>1. plan'[p] = d /\ \A q \in Plans : q # p => plan'[q] = plan[q]
  BY DEF Inv, TypeOK
<1>2. ASSUME NEW q \in Plans, status'[q] \notin {"Draft", "Cancelled"}
      PROVE  Passed(q)'
  <2>1. CASE q = p
    BY <1>1, <1>2, <2>1 DEF Passed
  <2>2. CASE q # p
    BY <1>1, <1>2, <2>2 DEF Passed, GateInv
  <2> QED BY <2>1, <2>2
<1>3. ASSUME NEW t \in Threads, pc'[t] = "revising"
      PROVE  Passed(cur[t])'
  <2>1. pc[t] = "revising" /\ Passed(cur[t])
    BY <1>3 DEF GateInv
  <2>2. cur[t] \in Plans /\ status[cur[t]] = "Cancelled"
    BY <2>1 DEF Inv, AllThreadsInv, ThreadInv, Working
  <2>3. status[p] = "Draft"
    BY DEF Inv, TypeOK, AllPlansInv, PlanInv
  <2>4. cur'[t] = cur[t] /\ cur[t] # p
    BY <1>3, <2>2, <2>3
  <2>5. plan'[cur'[t]] = plan[cur[t]]
    BY <1>1, <2>2, <2>4
  <2> QED BY <2>1, <2>5 DEF Passed, Gated
<1> QED BY <1>2, <1>3 DEF GateInv

(* A step that creates no plan, gives none a status it must have passed    *)
(* for, and withdraws none that had not passed.                            *)
LEMMA OthersPass ==
  ASSUME Inv, GateInv, UNCHANGED plan,
         \A p \in Plans : status'[p] \notin {"Draft", "Cancelled"} =>
                            status[p] \notin {"Draft", "Cancelled"},
         \A t \in Threads : pc'[t] = "revising" =>
           /\ cur'[t] = cur[t]
           /\ pc[t] = "revising" \/ (status[cur[t]] = "AwaitingReview" /\ cur[t] \in Plans)
  PROVE  GateInv'
  BY DEF GateInv, Passed

(* What happens to the statuses when a plan is paused or cancelled.        *)
LEMMA NewStatuses ==
  ASSUME Inv, NEW p \in Plans, NEW s \in Statuses,
         (Pause(p) /\ s = "AwaitingReview") \/ status' = [status EXCEPT ![p] = s]
  PROVE  /\ status' \in [Plans -> Statuses] /\ status'[p] = s
         /\ \A q \in Plans : q # p => status'[q] \in {status[q], "Cancelled"}
  BY DEF Inv, TypeOK, Pause, AllCancelled, Statuses

(* Proposing work: denied work becomes a cancelled plan, and only work     *)
(* that the gate allows a plan nobody reviews.                             *)
LEMMA ProposePasses ==
  ASSUME Inv, GateInv, NEW t \in Threads, Propose(t)
  PROVE  GateInv'
<1>1. ASSUME NEW p \in Plans, NEW w \in Work, NEW gated \in BOOLEAN, NEW s \in Statuses,
             p = seq + 1, plan' = [plan EXCEPT ![p] = Root(w, gated)],
             (Pause(p) /\ s = "AwaitingReview") \/ status' = [status EXCEPT ![p] = s],
             s = "Cancelled" \/ (Verdict[w] # "Denied" /\ (gated \/ Verdict[w] = "Allowed")),
             NEW l \in {"idle", "approved"}, pc' = [pc EXCEPT ![t] = l],
             \A u \in Threads : u # t => cur'[u] = cur[u]
      PROVE  GateInv'
  <2>1. Root(w, gated) \in Content /\ Root(w, gated).batch = w /\ Root(w, gated).gated = gated
    BY RootIsContent DEF Root
  <2>2. /\ status' \in [Plans -> Statuses] /\ status'[p] = s
        /\ \A q \in Plans : q # p => status'[q] \in {status[q], "Cancelled"}
    BY <1>1, NewStatuses
  <2>3. \A u \in Threads : pc'[u] = "revising" => pc[u] = "revising" /\ cur'[u] = cur[u]
    BY <1>1 DEF Inv, TypeOK
  <2>4. status'[p] = "Cancelled" \/ (Verdict[Root(w, gated).batch] # "Denied" /\ Gated(Root(w, gated)))
    BY <1>1, <2>1, <2>2 DEF Gated
  <2> QED BY <1>1, <2>1, <2>2, <2>3, <2>4, CreatePasses
<1>2. ASSUME NEW l \in PCs, NEW k, NEW c, NEW moves, Enter(t, l, k, c, moves)
      PROVE  /\ pc' = [pc EXCEPT ![t] = l]
             /\ \A u \in Threads : u # t => cur'[u] = cur[u]
  BY <1>2 DEF Enter, Inv, TypeOK
<1>3. {"Cancelled", "AwaitingReview", "Approved"} \subseteq Statuses /\ {"idle", "approved"} \subseteq PCs
  BY DEF Statuses, PCs
<1>4. ASSUME NEW p \in Plans, NEW a \in Actions, ProposeDenied(t, p, a)
      PROVE  GateInv'
  <2>1. a \in Work /\ p = seq + 1 /\ plan' = [plan EXCEPT ![p] = Root(a, FALSE)]
        /\ status' = [status EXCEPT ![p] = "Cancelled"]
        /\ Enter(t, "idle", "none", NoPlan, <<>>)
    BY <1>4 DEF ProposeDenied, Create, Return, Work
  <2> QED BY <1>1, <1>2, <1>3, <2>1
<1>5. ASSUME NEW p \in Plans, NEW a \in Actions, ProposeGated(t, p, a)
      PROVE  GateInv'
  <2>1. a \in Work /\ p = seq + 1 /\ plan' = [plan EXCEPT ![p] = Root(a, TRUE)]
        /\ Pause(p) /\ Verdict[a] # "Denied"
        /\ Enter(t, "idle", "none", NoPlan, <<"WaitingForReview">>)
    BY <1>5 DEF ProposeGated, Create, Return, Work
  <2> QED BY <1>1, <1>2, <1>3, <2>1
<1>6. ASSUME NEW p \in Plans, NEW a \in Actions, ProposeAllowed(t, p, a)
      PROVE  GateInv'
  <2>1. a \in Work /\ p = seq + 1 /\ plan' = [plan EXCEPT ![p] = Root(a, FALSE)]
        /\ status' = [status EXCEPT ![p] = "Approved"] /\ Verdict[a] = "Allowed"
        /\ Enter(t, "approved", task[t], p, <<>>)
    BY <1>6 DEF ProposeAllowed, Create, Work
  <2> QED BY <1>1, <1>2, <1>3, <2>1
<1>7. ASSUME NEW p \in Plans, NEW b \in Batches, ProposeGeneration(t, p, b)
      PROVE  GateInv'
  <2>1. b \in Work /\ p = seq + 1 /\ plan' = [plan EXCEPT ![p] = Root(b, TRUE)]
        /\ Pause(p) /\ Verdict[b] # "Denied"
        /\ Enter(t, "idle", "none", NoPlan, <<"WaitingForReview">>)
    BY <1>7 DEF ProposeGeneration, Create, Return, Work
  <2> QED BY <1>1, <1>2, <1>3, <2>1
<1>8. ASSUME NEW p \in Plans, NEW b \in Batches, ProposeGenerationDenied(t, p, b)
      PROVE  GateInv'
  <2>1. b \in Work /\ p = seq + 1 /\ plan' = [plan EXCEPT ![p] = Root(b, FALSE)]
        /\ status' = [status EXCEPT ![p] = "Cancelled"]
        /\ Enter(t, "idle", "none", NoPlan, <<>>)
    BY <1>8 DEF ProposeGenerationDenied, Create, Return, Work
  <2> QED BY <1>1, <1>2, <1>3, <2>1
<1> QED BY <1>4, <1>5, <1>6, <1>7, <1>8 DEF Propose

(* A revision: what will run is the revised tool input, which the gate     *)
(* sees, or the parent's batch, which had passed.                          *)
LEMMA RevisePasses ==
  ASSUME Inv, GateInv, NEW t \in Threads, NEW p \in Plans, NEW work \in Work, NEW shown \in Work,
         Revise(t, p, work, shown) \/ ReviseDenied(t, p, work, shown)
  PROVE  GateInv'
<1> DEFINE child == Revision(cur[t], work, shown)
<1>1. cur[t] \in Plans /\ plan[cur[t]].gated /\ Passed(cur[t]) /\ plan[cur[t]] \in Content
  <2>1. pc[t] = "revising"
    BY DEF Revise, ReviseDenied, At
  <2> QED BY <2>1 DEF GateInv, Inv, TypeOK, AllThreadsInv, ThreadInv, Working
<1>2. child \in Content
  BY <1>1, RevisionIsContent DEF Inv, TypeOK
<1>3. child.gated /\ child.batch \in {work, plan[cur[t]].batch}
  BY <1>1 DEF Revision, Content
<1> HIDE DEF child
<1>4. p = seq + 1 /\ plan' = [plan EXCEPT ![p] = child]
  BY DEF Revise, PauseRevision, ReviseDenied, Create, child
<1>5. \A u \in Threads : pc'[u] = "revising" => pc[u] = "revising" /\ cur'[u] = cur[u]
  BY DEF Revise, PauseRevision, ReviseDenied, Return, Enter, Inv, TypeOK
<1>6. CASE Revise(t, p, work, shown)
  <2>1. Pause(p) /\ Verdict[work] # "Denied"
    BY <1>6 DEF Revise, PauseRevision
  <2>2. Verdict[child.batch] # "Denied" /\ Gated(child)
    BY <1>1, <1>3, <2>1 DEF Passed, Gated
  <2>3. /\ status' \in [Plans -> Statuses]
        /\ \A q \in Plans : q # p => status'[q] \in {status[q], "Cancelled"}
    BY <2>1, NewStatuses DEF Statuses
  <2> QED BY <1>2, <1>4, <1>5, <2>2, <2>3, CreatePasses
<1>7. CASE ReviseDenied(t, p, work, shown)
  <2>1. /\ status' \in [Plans -> Statuses] /\ status'[p] = "Cancelled"
        /\ \A q \in Plans : q # p => status'[q] \in {status[q], "Cancelled"}
    BY <1>7, NewStatuses DEF ReviseDenied, Statuses
  <2> QED BY <1>2, <1>4, <1>5, <2>1, CreatePasses
<1> QED BY <1>6, <1>7

(* Every step keeps to the gate.                                           *)
LEMMA GateStep ==
  ASSUME Inv, GateInv, [Next]_vars
  PROVE  GateInv'
<1>1. ASSUME NEW t \in Threads, Propose(t)
      PROVE  GateInv'
  BY <1>1, ProposePasses
<1>2. ASSUME NEW t \in Threads, NEW p \in Plans, NEW work \in Work, NEW shown \in Work,
             Revise(t, p, work, shown) \/ ReviseDenied(t, p, work, shown)
      PROVE  GateInv'
  BY <1>2, RevisePasses
<1>3. ASSUME NEW t \in Threads, NEW l \in PCs \ {"revising"}, NEW k, NEW c, NEW moves,
             Enter(t, l, k, c, moves), UNCHANGED plan,
             \A p \in Plans : status'[p] \notin {"Draft", "Cancelled"} =>
                                status[p] \notin {"Draft", "Cancelled"}
      PROVE  GateInv'
  <2>1. \A u \in Threads : pc'[u] = "revising" => pc[u] = "revising" /\ cur'[u] = cur[u]
    BY <1>3 DEF Enter, Inv, TypeOK
  <2>2. \A u \in Threads : pc'[u] = "revising" =>
           /\ cur'[u] = cur[u]
           /\ pc[u] = "revising" \/ (status[cur[u]] = "AwaitingReview" /\ cur[u] \in Plans)
    BY <2>1
  <2>3. UNCHANGED plan
    BY <1>3
  <2> QED BY <1>3, <2>2, <2>3, OthersPass
<1>4. ASSUME NEW t \in Threads, UNCHANGED <<plan, status, pc, cur>>
      PROVE  GateInv'
  BY <1>4 DEF GateInv, Passed
<1>5. {"idle", "entered", "assembling", "streaming", "approved", "running", "deciding"}
         \subseteq PCs \ {"revising"}
  BY DEF PCs
<1>6. ASSUME NEW t \in Threads, Transition(t)
      PROVE  GateInv'
  BY <1>4, <1>6 DEF Transition, planVars
<1>7. ASSUME NEW t \in Threads, Handle(t)
      PROVE  GateInv'
  <2>1. ASSUME FallBackToHandle(t)
        PROVE  GateInv'
    <3>1. \A p \in Plans : status'[p] \in {status[p], "Cancelled"}
      BY <2>1 DEF FallBackToHandle, AllCancelled
    <3> QED BY <1>3, <1>5, <2>1, <3>1 DEF FallBackToHandle, planVars
  <2>2. ASSUME EnterPreparing(t) \/ GiveUp(t) \/ Reason(t)
               \/ \E phase \in {"Completed", "Failed"} : Answer(t, phase)
        PROVE  GateInv'
    <3>1. UNCHANGED <<plan, status>>
      BY <2>2 DEF EnterPreparing, GiveUp, Reason, Answer, planVars
    <3>2. \E l \in PCs \ {"revising"} : \E k, c, moves : Enter(t, l, k, c, moves)
      BY <1>5, <2>2 DEF EnterPreparing, GiveUp, Reason, Answer, Goto, Return
    <3> QED BY <1>3, <3>1, <3>2
  <2>3. ASSUME NEW phase \in {"Reasoning", "Streaming"}, StreamMoves(t, phase)
        PROVE  GateInv'
    BY <1>4, <2>3 DEF StreamMoves, planVars, threadVars
  <2>4. ASSUME NEW phase \in Terminal, StreamEnds(t, phase)
        PROVE  GateInv'
    BY <1>3, <1>5, <2>4 DEF StreamEnds, Return, planVars
  <2> QED BY <1>7, <2>1, <2>2, <2>3, <2>4 DEF Handle
<1>8. ASSUME NEW t \in Threads, Execute(t)
      PROVE  GateInv'
  <2>1. CASE CallSucceeds(t)
    BY <1>4, <2>1 DEF CallSucceeds, CallTool, planVars
  <2>2. CASE StartExecuting(t) \/ LastCallSucceeds(t) \/ ResumeSucceeds(t) \/ CallFails(t)
    <3>1. UNCHANGED plan
      BY <2>2 DEF StartExecuting, LastCallSucceeds, ResumeSucceeds, CallFails, CallTool, planVars
    <3>2. \E l \in PCs \ {"revising"} : \E k, c, moves : Enter(t, l, k, c, moves)
      BY <1>5, <2>2 DEF StartExecuting, LastCallSucceeds, ResumeSucceeds, CallFails, Goto, Return
    <3>3. pc[t] \in {"approved", "running"} /\ \E s \in Statuses : status' = [status EXCEPT ![cur[t]] = s]
      BY <2>2 DEF StartExecuting, LastCallSucceeds, ResumeSucceeds, CallFails, CallTool, At, Statuses
    <3>4. cur[t] \in Plans /\ status[cur[t]] \notin {"Draft", "Cancelled"}
      BY <3>3 DEF Inv, AllThreadsInv, ThreadInv, Working
    <3>5. \A p \in Plans : status'[p] \notin {"Draft", "Cancelled"} =>
                                status[p] \notin {"Draft", "Cancelled"}
      BY <3>3, <3>4 DEF Inv, TypeOK
    <3> QED BY <1>3, <3>1, <3>2, <3>5
  <2> QED BY <1>8, <2>1, <2>2 DEF Execute
<1>9. ASSUME NEW t \in Threads, Withdraw(t)
      PROVE  GateInv'
  <2>1. /\ UNCHANGED plan /\ cur[t] \in paused /\ cur[t] \in Plans
        /\ status' = [status EXCEPT ![cur[t]] = "Cancelled"]
        /\ Enter(t, "revising", task[t], cur[t], <<>>)
    BY <1>9 DEF Withdraw, Take, Goto, planVars, Inv, TypeOK
  <2>2. status[cur[t]] = "AwaitingReview"
    BY <2>1 DEF Inv, AllPlansInv, PlanInv
  <2>3. \A u \in Threads : pc'[u] = "revising" =>
           /\ cur'[u] = cur[u]
           /\ pc[u] = "revising" \/ (status[cur[u]] = "AwaitingReview" /\ cur[u] \in Plans)
    <3>1. /\ pc' = [pc EXCEPT ![t] = "revising"] /\ pc \in [Threads -> PCs]
          /\ cur' = [cur EXCEPT ![t] = cur[t]] /\ cur \in [Threads -> Plans \cup {NoPlan}]
      BY <2>1 DEF Enter, Inv, TypeOK
    <3>2. \A u \in Threads : cur'[u] = cur[u] /\ (u # t => pc'[u] = pc[u])
      BY <3>1
    <3> QED BY <2>1, <2>2, <3>2
  <2>4. \A p \in Plans : status'[p] \notin {"Draft", "Cancelled"} =>
                              status[p] \notin {"Draft", "Cancelled"}
    BY <2>1 DEF Inv, TypeOK
  <2> QED BY <2>1, <2>2, <2>3, <2>4, OthersPass
<1>10. ASSUME NEW t \in Threads,
              ResolveUnknown(t) \/ ResolveTimedOut(t) \/ Resume(t) \/ Cancel(t)
       PROVE  GateInv'
  <2>1. UNCHANGED plan
    BY <1>10 DEF ResolveUnknown, ResolveTimedOut, Resume, Cancel, planVars
  <2>2. \E l \in PCs \ {"revising"} : \E k, c, moves : Enter(t, l, k, c, moves)
    BY <1>5, <1>10 DEF ResolveUnknown, ResolveTimedOut, Resume, Cancel, Goto, Return
  <2>3. CASE UNCHANGED status
    BY <1>3, <2>1, <2>2, <2>3
  <2>4. CASE Resume(t) \/ Cancel(t)
    <3>1. /\ cur[t] \in paused /\ cur[t] \in Plans
          /\ \E s \in Statuses : status' = [status EXCEPT ![cur[t]] = s]
      BY <2>4 DEF Resume, Cancel, Take, Statuses, Inv, TypeOK
    <3>2. status[cur[t]] = "AwaitingReview"
      BY <3>1 DEF Inv, AllPlansInv, PlanInv
    <3>3. \A p \in Plans : status'[p] \notin {"Draft", "Cancelled"} =>
                                status[p] \notin {"Draft", "Cancelled"}
      BY <3>1, <3>2 DEF Inv, TypeOK
    <3> QED BY <1>3, <2>1, <2>2, <3>3
  <2> QED BY <1>10, <2>3, <2>4 DEF ResolveUnknown, ResolveTimedOut
<1>11. ASSUME NEW t \in Threads, Resolve(t)
       PROVE  GateInv'
  BY <1>2, <1>9, <1>10, <1>11 DEF Resolve
<1>12. ASSUME NEW t \in Threads, Call(t)
       PROVE  GateInv'
  <2>1. ASSUME NEW api \in Apis, BeginRequest(t, api)
        PROVE  GateInv'
    <3>1. \A p \in Plans : status'[p] \in {status[p], "Cancelled"}
      BY <2>1 DEF BeginRequest, AllCancelled
    <3> QED BY <1>3, <1>5, <2>1, <3>1 DEF BeginRequest, planVars
  <2>2. ASSUME NEW phase \in HostPhases, HostMove(t, phase)
        PROVE  GateInv'
    BY <1>4, <2>2 DEF HostMove, planVars, threadVars
  <2>3. CASE Acknowledge(t)
    <3>1. UNCHANGED <<plan, status>> /\ \E moves : Enter(t, "idle", "none", NoPlan, moves)
      BY <2>3 DEF Acknowledge, Return, planVars
    <3> QED BY <1>3, <1>5, <3>1
  <2>4. ASSUME NEW p \in Plans, NEW decision \in {"approve", "cancel", "modify"},
               Submit(t, p, decision)
        PROVE  GateInv'
    <3>1. UNCHANGED <<plan, status>> /\ \E moves : Enter(t, "deciding", decision, p, moves)
      BY <2>4 DEF Submit, planVars
    <3> QED BY <1>3, <1>5, <3>1
  <2> QED BY <1>12, <2>1, <2>2, <2>3, <2>4 DEF Call
<1>13. ASSUME (\E p \in Plans : Lapse(p)) \/ UNCHANGED vars
       PROVE  GateInv'
  BY <1>13 DEF Lapse, GateInv, Passed, planVars, threadVars, vars
<1> QED BY <1>1, <1>6, <1>7, <1>8, <1>11, <1>12, <1>13 DEF Next, Inside

(* Nothing the gate denies reaches a tool, and what it wants reviewed only *)
(* after Approve, also after any number of revisions                       *)
(* (prepare_execution, revise_paused_plan, apply_modification_note).       *)
THEOREM GateObeyed == Spec => []GateIsObeyed
<1>1. Init => GateInv
  BY DEF Init, GateInv
<1>2. Inv /\ GateInv /\ [Next]_vars => GateInv'
  BY GateStep
<1>3. Inv /\ GateInv => GateIsObeyed
  <2> SUFFICES ASSUME Inv, GateInv, NEW p \in Plans, ran[p] > 0
               PROVE  /\ Verdict[plan[p].batch] # "Denied"
                      /\ Verdict[plan[p].batch] = "RequiresApproval" => p \in asked
    BY DEF GateIsObeyed
  <2>1. PlanInv(p)
    BY DEF Inv, AllPlansInv
  <2>2. status[p] \notin {"Draft", "Cancelled"} /\ (plan[p].gated => p \in asked)
    BY <2>1 DEF PlanInv, Started
  <2> QED BY <2>2 DEF GateInv, Passed, Gated
<1> QED BY <1>1, <1>2, <1>3, Invariance, PTL DEF Spec

=============================================================================
