------------------------------- MODULE Planner -------------------------------
(***************************************************************************)
(* The Planner of crates/jaymi-planner as its callers share it: requests   *)
(* become execution plans, a gated plan is paused for review, and          *)
(* resolve_review resumes, cancels or revises the paused plan.             *)
(*                                                                         *)
(* The Planner is one object behind an Arc.  The UI thread and the         *)
(* generation start workers call it concurrently and every piece of state  *)
(* has a mutex of its own.  Threads meet in two of them, the phase and the *)
(* paused store: one action below is one critical section on one of the    *)
(* two, with the work around it that no other thread can see (a plan that  *)
(* was taken or just created is the caller's own copy, and the two         *)
(* histories are only appended to).  A call is                             *)
(*   pc[t]    where the thread is inside the call ("idle": in none),       *)
(*   task[t]  the entry point it is in,                                    *)
(*   cur[t]   the plan it has in hand,                                     *)
(*   todo[t]  the transition_conversation calls it makes next, in order,   *)
(*   step[t]  how many calls of its plan it has made.                      *)
(***************************************************************************)
EXTENDS Naturals, Sequences, FiniteSets, ConversationState

CONSTANTS
  Threads,    \* the threads that call the Planner
  Actions,    \* single tool calls a plan can carry
  Batches,    \* code generation batches a plan can carry
  Size,       \* how many tool calls a piece of work makes
  Verdict,    \* combine_gate_decision for it (module ActionGate); policies,
              \* permissions and risks are fixed after boot
  MaxPlans,   \* bound: execution plans created in one behaviour
  Apis,       \* bound: the entry points for requests that are called
  HostPhases  \* bound: the phases the host moves the conversation to

Work == Actions \cup Batches

ASSUME WorkAssumption ==
  /\ Actions # {}
  /\ Actions \cap Batches = {}
  /\ Size \in [Work -> Nat \ {0}]
  /\ \A a \in Actions : Size[a] = 1
  /\ Verdict \in [Work -> {"Allowed", "RequiresApproval", "Denied"}]

ASSUME MaxPlansAssumption == MaxPlans \in Nat

\* The phases mirror_stream_lifecycle, complete_conversation_stream,
\* resume_reasoning_after_retry and the host itself move to.
StreamPhases == {"Reasoning", "Streaming"} \cup Terminal

AllApis == {"handle", "observer", "stream"}

ASSUME CallsAssumption == Apis \subseteq AllApis /\ HostPhases \subseteq StreamPhases

Plans == 1 .. MaxPlans
NoPlan == 0

VARIABLES
  conv,       \* conversation_state: the user-visible phase
  seq,        \* PLAN_SEQ: plans 1..seq have been created
  plan,       \* the immutable content of each plan
  status,     \* ExecutionStatus of the owned copy of each plan
  paused,     \* PausedPlanStore.entries, keyed by plan id
  due,        \* plans whose review TTL ran out while they were paused
  history,    \* plan_history: the status recorded for each plan
  approvals,  \* approval_history: the recorded review decisions
  ran,        \* tool calls handed to the orchestrator for each plan
  asked,      \* plans the user pressed Approve on (history variable)
  pc, task, cur, todo, step

planVars   == <<seq, plan>>
reviewVars == <<paused, due, history, approvals, asked>>
threadVars == <<pc, task, cur, todo, step>>
vars == <<conv, seq, plan, status, paused, due, history, approvals, ran,
          asked, pc, task, cur, todo, step>>

Statuses == {"Draft", "Ready", "AwaitingReview", "Approved", "Executing",
             "Completed", "Cancelled", "Failed"}
Final == {"Completed", "Cancelled", "Failed"}

(* gated: review_requirement is Required.  generation: generation_calls is *)
(* not empty.  batch: the calls that run on approval.  card: the work the  *)
(* Review Card shows, its text included.                                   *)
Content == [gated: BOOLEAN, generation: BOOLEAN, batch: Work, card: Work,
            parent: Plans \cup {NoPlan}]

Root(w, gated) == [gated |-> gated, generation |-> w \in Batches,
                   batch |-> w, card |-> w, parent |-> NoPlan]

Records == [plan: Plans, decision: {"approve", "cancel", "modify"},
            result: {"completed", "cancelled", "none"}]

PCs == {"idle", "entered", "assembling", "streaming", "approved", "running",
        "deciding", "revising"}
Tasks == {"none"} \cup AllApis \cup {"approve", "cancel", "modify"}

Init ==
  /\ conv = "Idle"
  /\ seq = 0
  /\ plan = [p \in Plans |-> Root(CHOOSE a \in Actions : TRUE, FALSE)]
  /\ status = [p \in Plans |-> "Draft"]
  /\ paused = {}
  /\ due = {}
  /\ history = [p \in Plans |-> "Draft"]
  /\ approvals = {}
  /\ ran = [p \in Plans |-> 0]
  /\ asked = {}
  /\ pc = [t \in Threads |-> "idle"]
  /\ task = [t \in Threads |-> "none"]
  /\ cur = [t \in Threads |-> NoPlan]
  /\ todo = [t \in Threads |-> <<>>]
  /\ step = [t \in Threads |-> 0]
------------------------------------------------------------------------------
(* Control of a thread.                                                    *)

At(t, l) == pc[t] = l /\ todo[t] = <<>>

Free(t) == At(t, "idle")

Enter(t, l, k, p, moves) ==
  /\ pc' = [pc EXCEPT ![t] = l]
  /\ task' = [task EXCEPT ![t] = k]
  /\ cur' = [cur EXCEPT ![t] = p]
  /\ todo' = [todo EXCEPT ![t] = moves]
  /\ step' = [step EXCEPT ![t] = 0]

Goto(t, l, moves) == Enter(t, l, task[t], cur[t], moves)

Return(t, moves) == Enter(t, "idle", "none", NoPlan, moves)

(* One transition_conversation call: lock, check, assign.                  *)
Move(phase) == conv' = Moved(conv, phase)

(* A transition that follows another critical section of the same call.    *)
Transition(t) ==
  /\ todo[t] # <<>>
  /\ Move(Head(todo[t]))
  /\ todo' = [todo EXCEPT ![t] = Tail(@)]
  /\ UNCHANGED <<planVars, status, reviewVars, ran, pc, task, cur, step>>
------------------------------------------------------------------------------
(* The paused store.                                                       *)

(* Seeded fault: plans that are not paused are cancelled as well.          *)
EveryoneCancelled ==
  [p \in Plans |-> IF p <= seq THEN "Cancelled" ELSE status[p]]

(* PausedPlanStore::invalidate_all, its entries then cancelled.            *)
AllCancelled ==
  [p \in Plans |-> IF p \in paused THEN "Cancelled" ELSE status[p]]

(* Seeded fault: an earlier pause survives a new one.                      *)
PauseKeepsOthers(p) ==
  /\ paused' = paused \cup {p}
  /\ status' = [status EXCEPT ![p] = "AwaitingReview"]

(* Planner::pause_execution, under one lock: every earlier pause is        *)
(* cancelled and p, AwaitingReview, becomes the only entry.  The expiry    *)
(* inside PausedPlanStore::pause finds an empty store.                     *)
Pause(p) ==
  /\ paused' = {p}
  /\ status' = [AllCancelled EXCEPT ![p] = "AwaitingReview"]

(* The review TTL of a paused plan runs out.                               *)
Lapse(p) ==
  /\ p \in paused \ due
  /\ due' = due \cup {p}
  /\ UNCHANGED <<conv, planVars, status, paused, history, approvals, ran,
                 asked, threadVars>>

(* Bound: there is a plan id left for every revision under way and for one *)
(* more plan.                                                              *)
Room == seq + Cardinality({t \in Threads : task[t] = "modify"}) < MaxPlans

(* ExecutionPlan::create followed by mark_ready and record_plan_history.   *)
Create(p, content, recorded) ==
  /\ p = seq + 1
  /\ p \in Plans
  /\ seq' = p
  /\ plan' = [plan EXCEPT ![p] = content]
  /\ history' = [history EXCEPT ![p] = recorded]
------------------------------------------------------------------------------
(* New requests.                                                           *)

(* handle, handle_conversational_with_observer and                         *)
(* start_conversation_stream all begin with invalidate_paused: a new       *)
(* request never leaves an old plan resumable.                             *)
BeginRequest(t, api) ==
  /\ Free(t)
  /\ paused' = {}
  /\ status' = AllCancelled
  /\ Enter(t, "entered", api, NoPlan, <<>>)
  /\ UNCHANGED <<conv, planVars, due, history, approvals, ran, asked>>

(* enter_or_continue_preparing_context.                                    *)
EnterPreparing(t) ==
  /\ At(t, "entered")
  /\ Goto(t, "assembling", IF conv \in {"Idle"} \cup Terminal
                             THEN <<"PreparingContext">> ELSE <<>>)
  /\ UNCHANGED <<conv, planVars, status, reviewVars, ran>>

(* acknowledge_conversational_send: the UI thread shows Thinking at once.  *)
Acknowledge(t) ==
  /\ Free(t)
  /\ Return(t, IF conv \in {"Idle"} \cup Terminal
                 THEN <<"PreparingContext", "Reasoning">>
               ELSE IF conv = "PreparingContext" THEN <<"Reasoning">>
               ELSE <<>>)
  /\ UNCHANGED <<conv, planVars, status, reviewVars, ran>>

(* The phase follows a stream, or the host moves it.                       *)
HostMove(t, phase) ==
  /\ Free(t)
  /\ Move(phase)
  /\ UNCHANGED <<planVars, status, reviewVars, ran, threadVars>>

(* The request goes no further.  Context assembly, a session intent or the *)
(* prompt failed with `?`, or the stream entry point does not serve the    *)
(* request: the phase stays.                                               *)
GiveUp(t) ==
  /\ At(t, "assembling")
  /\ Return(t, <<>>)
  /\ UNCHANGED <<conv, planVars, status, reviewVars, ran>>

(* A session intent, a capability plan or a deterministic reply            *)
(* (Completed); a capability that is not executable or a tool route that   *)
(* fails before there is a plan (Failed, only in handle).                  *)
Answer(t, phase) ==
  /\ At(t, "assembling")
  /\ \/ phase = "Completed" /\ task[t] \in {"handle", "observer"}
     \/ phase = "Failed" /\ task[t] = "handle"
  /\ Move(phase)
  /\ Return(t, <<>>)
  /\ UNCHANGED <<planVars, status, reviewVars, ran>>

(* A tool-backed request that arrived on the observer path starts over in  *)
(* handle.                                                                 *)
FallBackToHandle(t) ==
  /\ At(t, "assembling") /\ task[t] = "observer"
  /\ paused' = {}
  /\ status' = AllCancelled
  /\ Enter(t, "entered", "handle", NoPlan, <<>>)
  /\ UNCHANGED <<conv, planVars, due, history, approvals, ran, asked>>

(* The request goes to the Reasoning Engine.  start_conversation_stream    *)
(* returns the stream to its caller; the other two consume it here.        *)
Reason(t) ==
  /\ At(t, "assembling")
  /\ Move("Reasoning")
  /\ \/ task[t] = "stream" /\ Return(t, <<>>)
     \/ task[t] # "stream" /\ Goto(t, "streaming", <<>>)
  /\ UNCHANGED <<planVars, status, reviewVars, ran>>

(* A lifecycle event of the stream being consumed is mirrored.             *)
StreamMoves(t, phase) ==
  /\ At(t, "streaming")
  /\ Move(phase)
  /\ UNCHANGED <<planVars, status, reviewVars, ran, threadVars>>

(* The stream ends: the terminal lifecycle event is mirrored and the       *)
(* terminal phase is set once more from the response.  A stream that fails *)
(* to start or to deliver sets Failed once.                                *)
StreamEnds(t, phase) ==
  /\ At(t, "streaming")
  /\ Move(phase)
  /\ \/ Return(t, <<phase>>)
     \/ phase = "Failed" /\ Return(t, <<>>)
  /\ UNCHANGED <<planVars, status, reviewVars, ran>>
------------------------------------------------------------------------------
(* prepare_execution of a tool-backed request, inside handle.              *)

(* Denied by Action Policy or Permission: the plan is cancelled before     *)
(* anything runs; its history row keeps the status it was recorded with.   *)
ProposeDenied(t, p, a) ==
  /\ At(t, "assembling") /\ task[t] = "handle"
  /\ Verdict[a] = "Denied"
  /\ Create(p, Root(a, FALSE), "Ready")
  /\ status' = [status EXCEPT ![p] = "Cancelled"]
  /\ Move("Cancelled")
  /\ Return(t, <<>>)
  /\ UNCHANGED <<paused, due, approvals, ran, asked>>

(* RequiresApproval: the plan is paused and a Review Card is returned.     *)
ProposeGated(t, p, a) ==
  /\ At(t, "assembling") /\ task[t] = "handle"
  /\ Verdict[a] = "RequiresApproval"
  /\ Create(p, Root(a, TRUE), "Ready")
  /\ Pause(p)
  /\ Return(t, <<"WaitingForReview">>)
  /\ UNCHANGED <<conv, due, approvals, ran, asked>>

(* Allowed: approved on the spot, then executed by the same call.          *)
ProposeAllowed(t, p, a) ==
  /\ At(t, "assembling") /\ task[t] = "handle"
  /\ Verdict[a] = "Allowed"
  /\ Create(p, Root(a, FALSE), "Ready")
  /\ status' = [status EXCEPT ![p] = "Approved"]
  /\ Enter(t, "approved", task[t], p, <<>>)
  /\ UNCHANGED <<conv, paused, due, approvals, ran, asked>>

(* begin_code_generation: a batch that is not denied needs review, also    *)
(* when the gate alone would allow it.                                     *)
ProposeGeneration(t, p, b) ==
  /\ At(t, "assembling") /\ task[t] \in {"handle", "observer"}
  /\ Verdict[b] # "Denied"
  /\ Create(p, Root(b, TRUE), "AwaitingReview")
  /\ Pause(p)
  /\ Return(t, <<"WaitingForReview">>)
  /\ UNCHANGED <<conv, due, approvals, ran, asked>>

(* A denied batch is cancelled, and the conversation is moved to           *)
(* WaitingForReview all the same.                                          *)
ProposeGenerationDenied(t, p, b) ==
  /\ At(t, "assembling") /\ task[t] \in {"handle", "observer"}
  /\ Verdict[b] = "Denied"
  /\ Create(p, Root(b, FALSE), "Cancelled")
  /\ status' = [status EXCEPT ![p] = "Cancelled"]
  /\ Move("WaitingForReview")
  /\ Return(t, <<>>)
  /\ UNCHANGED <<paused, due, approvals, ran, asked>>
------------------------------------------------------------------------------
(* execute_approved_plan and execute_approved_generation.                  *)

(* Seeded fault: execution waits for the phase to say so.                  *)
StartInReview(t) ==
  /\ At(t, "approved")
  /\ status[cur[t]] = "Approved" /\ conv = "WaitingForReview"
  /\ status' = [status EXCEPT ![cur[t]] = "Executing"]
  /\ Move("Executing")
  /\ Goto(t, "running", <<>>)
  /\ UNCHANGED <<planVars, reviewVars, ran>>

StartExecuting(t) ==
  /\ At(t, "approved")
  /\ status[cur[t]] = "Approved"
  /\ status' = [status EXCEPT ![cur[t]] = "Executing"]
  /\ Move("Executing")
  /\ Goto(t, "running", <<>>)
  /\ UNCHANGED <<planVars, reviewVars, ran>>

(* One tool call reaches the orchestrator.                                 *)
CallTool(t) ==
  /\ At(t, "running")
  /\ ran' = [ran EXCEPT ![cur[t]] = @ + 1]
  /\ UNCHANGED <<planVars, history, paused, due, asked>>

(* Seeded fault: off by one.                                               *)
IsPastLastCall(t) == step[t] = Size[plan[cur[t]].batch]

IsLastCall(t) == step[t] + 1 = Size[plan[cur[t]].batch]

(* A call succeeds and the batch has more of them.                         *)
CallSucceeds(t) ==
  /\ CallTool(t)
  /\ ~IsLastCall(t)
  /\ step' = [step EXCEPT ![t] = @ + 1]
  /\ UNCHANGED <<conv, status, approvals, pc, task, cur, todo>>

(* The last call of a fresh plan succeeds; the route may still fail to map *)
(* its output (Failed).                                                    *)
LastCallSucceeds(t) ==
  /\ CallTool(t)
  /\ IsLastCall(t) /\ task[t] # "approve"
  /\ status' = [status EXCEPT ![cur[t]] = "Completed"]
  /\ Move("Completed") \/ Move("Failed")
  /\ Return(t, <<>>)
  /\ UNCHANGED approvals

(* The last call of a resumed plan succeeds:                               *)
(* record_approval_from_resolve, then the phase.                           *)
ResumeSucceeds(t) ==
  /\ CallTool(t)
  /\ IsLastCall(t) /\ task[t] = "approve"
  /\ status' = [status EXCEPT ![cur[t]] = "Completed"]
  /\ approvals' = approvals \cup
       {[plan |-> cur[t], decision |-> "approve", result |-> "completed"]}
  /\ Move("Completed")
  /\ Return(t, <<>>)

(* Seeded fault: the approval is recorded before ensure_success.           *)
CallFailsRecorded(t) ==
  /\ CallTool(t)
  /\ status' = [status EXCEPT ![cur[t]] = "Failed"]
  /\ approvals' = approvals \cup
       {[plan |-> cur[t], decision |-> "approve", result |-> "completed"]}
  /\ Move("Failed")
  /\ Return(t, <<>>)

(* A call reports failure or returns Err: the rest of the batch is not     *)
(* run.  handle moves to Failed; resolve_review leaves through `?`, with   *)
(* no approval recorded and no transition.                                 *)
CallFails(t) ==
  /\ CallTool(t)
  /\ status' = [status EXCEPT ![cur[t]] = "Failed"]
  /\ IF task[t] = "approve" THEN UNCHANGED conv ELSE Move("Failed")
  /\ Return(t, <<>>)
  /\ UNCHANGED approvals
------------------------------------------------------------------------------
(* resolve_review.                                                         *)

(* The user acts on the Review Card of p: any plan that ever had one, the  *)
(* card may be stale and the gesture may be a repetition.                  *)
Submit(t, p, decision) ==
  /\ Free(t)
  /\ p <= seq /\ plan[p].gated
  /\ decision = "modify" => Room
  /\ asked' = IF decision = "approve" THEN asked \cup {p} ELSE asked
  /\ IF decision = "modify" THEN Move("WaitingForReview") ELSE UNCHANGED conv
  /\ Enter(t, "deciding", decision, p,
           IF decision = "approve" /\ conv \in {"Idle", "Completed"}
             THEN <<"PreparingContext", "WaitingForReview">> ELSE <<>>)
  /\ UNCHANGED <<planVars, status, paused, due, history, approvals, ran>>

(* Seeded fault: a gesture on a plan whose entry timed out is not answered.*)
UnknownWhenFinal(t) ==
  /\ At(t, "deciding") /\ cur[t] \notin paused
  /\ status[cur[t]] \in Final
  /\ Return(t, <<>>)
  /\ UNCHANGED <<conv, planVars, status, reviewVars, ran>>

(* take_for_resume / take_for_invalidate find no entry: duplicate, stale   *)
(* or superseded.  The call returns Err.                                   *)
ResolveUnknown(t) ==
  /\ At(t, "deciding") /\ cur[t] \notin paused
  /\ Return(t, <<>>)
  /\ UNCHANGED <<conv, planVars, status, reviewVars, ran>>

(* Seeded fault: the entry is looked up and left in the store.             *)
Peek(t) == At(t, "deciding") /\ cur[t] \in paused /\ UNCHANGED paused

(* The take removes the entry of the plan in hand.                         *)
Take(t) ==
  /\ At(t, "deciding") /\ cur[t] \in paused
  /\ paused' = paused \ {cur[t]}

(* Seeded fault: the record no longer knows its plan.                      *)
TimedOutUnnamed(t) ==
  /\ Take(t) /\ cur[t] \in due
  /\ approvals' = approvals \cup
       {[plan |-> NoPlan, decision |-> task[t], result |-> "cancelled"]}
  /\ Return(t, <<"Cancelled">>)
  /\ UNCHANGED <<conv, planVars, status, due, history, ran, asked>>

(* TTL elapsed: the entry is dropped, timeout_response answers.            *)
ResolveTimedOut(t) ==
  /\ Take(t) /\ cur[t] \in due
  /\ approvals' = approvals \cup
       {[plan |-> cur[t], decision |-> task[t], result |-> "cancelled"]}
  /\ Return(t, <<"Cancelled">>)
  /\ UNCHANGED <<conv, planVars, status, due, history, ran, asked>>

(* Seeded faults: the TTL is not checked; any decision resumes the plan.   *)
ResumeLate(t) ==
  /\ Take(t)
  /\ task[t] = "approve"
  /\ status' = [status EXCEPT ![cur[t]] = "Approved"]
  /\ Goto(t, "approved", <<>>)
  /\ UNCHANGED <<conv, planVars, due, history, approvals, ran, asked>>

ResumeAnyway(t) ==
  /\ Take(t) /\ cur[t] \notin due
  /\ status' = [status EXCEPT ![cur[t]] = "Approved"]
  /\ Goto(t, "approved", <<>>)
  /\ UNCHANGED <<conv, planVars, due, history, approvals, ran, asked>>

(* resume_paused.                                                          *)
Resume(t) ==
  /\ Take(t) /\ cur[t] \notin due
  /\ task[t] = "approve"
  /\ status[cur[t]] = "AwaitingReview"
  /\ status' = [status EXCEPT ![cur[t]] = "Approved"]
  /\ Goto(t, "approved", <<>>)
  /\ UNCHANGED <<conv, planVars, due, history, approvals, ran, asked>>

(* invalidate_paused_plan.                                                 *)
Cancel(t) ==
  /\ Take(t) /\ cur[t] \notin due
  /\ task[t] = "cancel"
  /\ status' = [status EXCEPT ![cur[t]] = "Cancelled"]
  /\ approvals' = approvals \cup
       {[plan |-> cur[t], decision |-> "cancel", result |-> "cancelled"]}
  /\ Return(t, <<"Cancelled">>)
  /\ UNCHANGED <<conv, planVars, due, history, ran, asked>>

(* revise_paused_plan, first half: the parent leaves the store for good.   *)
(* The error returns before the second half need an unregistered tool or a *)
(* poisoned lock; a blank note is a revision that changes nothing.         *)
Withdraw(t) ==
  /\ Take(t) /\ cur[t] \notin due
  /\ task[t] = "modify"
  /\ status' = [status EXCEPT ![cur[t]] = "Cancelled"]
  /\ history' = [history EXCEPT ![cur[t]] = "Cancelled"]
  /\ Goto(t, "revising", <<>>)
  /\ UNCHANGED <<conv, planVars, due, approvals, ran, asked>>

(* What a modification note makes of the tool input and of the card:       *)
(* apply_modification_note.  Neither follows from the other.  A rename,    *)
(* another path or "only temporary files" rewrites the two together; of    *)
(* any other note, and of a blank one, only the text is put on the card,   *)
(* and the tool input stays; "skip README" of a single file empties the    *)
(* tool input, and the card falls back to what the parent's showed.  The   *)
(* revised tool is never one the gate allows unseen.                       *)
CanBecome(parent, work, shown) ==
  /\ \/ work = shown /\ work \in Actions
     \/ work = plan[parent].batch /\ shown \in Actions \cup {plan[parent].card}
     \/ work \in Actions /\ shown = plan[parent].card
  /\ work \in Actions => Verdict[work] # "Allowed"

(* The revision of parent: the revised tool input is kept, but             *)
(* generation_calls are copied from the parent and are what runs.          *)
Revision(parent, work, shown) ==
  [plan[parent] EXCEPT !.parent = parent, !.card = shown,
                       !.batch = IF plan[parent].generation THEN @ ELSE work]

(* The child is paused and a new Review Card is returned.                  *)
PauseRevision(t, p, work, shown) ==
  /\ Create(p, Revision(cur[t], work, shown), "AwaitingReview")
  /\ Pause(p)
  /\ approvals' = approvals \cup
       {[plan |-> cur[t], decision |-> "modify", result |-> "none"]}
  /\ Return(t, <<"WaitingForReview">>)
  /\ UNCHANGED <<conv, due, ran, asked>>

(* Seeded fault: the parent's decision is reused for another tool, too.    *)
ReviseUnchecked(t, p, work, shown) ==
  /\ At(t, "revising")
  /\ CanBecome(cur[t], work, shown) /\ Verdict[plan[cur[t]].batch] # "Denied"
  /\ PauseRevision(t, p, work, shown)

(* Second half: the gate sees the revised tool.  For the parent's tool its *)
(* decision is reused, and is the same: the policies look at the tool, and *)
(* what a note can make of its input needs the same permission.            *)
Revise(t, p, work, shown) ==
  /\ At(t, "revising")
  /\ CanBecome(cur[t], work, shown) /\ Verdict[work] # "Denied"
  /\ PauseRevision(t, p, work, shown)

(* The gate of the revised tool says Denied: the child is cancelled.       *)
ReviseDenied(t, p, work, shown) ==
  /\ At(t, "revising")
  /\ CanBecome(cur[t], work, shown) /\ Verdict[work] = "Denied"
  /\ Create(p, Revision(cur[t], work, shown), "Cancelled")
  /\ status' = [status EXCEPT ![p] = "Cancelled"]
  /\ approvals' = approvals \cup
       {[plan |-> cur[t], decision |-> "modify", result |-> "cancelled"]}
  /\ Move("Cancelled")
  /\ Return(t, <<>>)
  /\ UNCHANGED <<paused, due, ran, asked>>
------------------------------------------------------------------------------
(* What a thread does inside a call, and the calls it may make.            *)

Handle(t) ==
  \/ EnterPreparing(t)
  \/ GiveUp(t)
  \/ \E phase \in {"Completed", "Failed"} : Answer(t, phase)
  \/ FallBackToHandle(t)
  \/ Reason(t)
  \/ \E phase \in {"Reasoning", "Streaming"} : StreamMoves(t, phase)
  \/ \E phase \in Terminal : StreamEnds(t, phase)

Propose(t) ==
  Room /\ \E p \in Plans :
    \/ \E a \in Actions :
         ProposeDenied(t, p, a) \/ ProposeGated(t, p, a) \/ ProposeAllowed(t, p, a)
    \/ \E b \in Batches :
         ProposeGeneration(t, p, b) \/ ProposeGenerationDenied(t, p, b)

Execute(t) ==
  \/ StartExecuting(t)
  \/ CallSucceeds(t) \/ LastCallSucceeds(t) \/ ResumeSucceeds(t) \/ CallFails(t)

Resolve(t) ==
  \/ ResolveUnknown(t) \/ ResolveTimedOut(t)
  \/ Resume(t) \/ Cancel(t) \/ Withdraw(t)
  \/ \E p \in Plans, work, shown \in Work :
       Revise(t, p, work, shown) \/ ReviseDenied(t, p, work, shown)

Inside(t) == Transition(t) \/ Handle(t) \/ Propose(t) \/ Execute(t) \/ Resolve(t)

Call(t) ==
  \/ \E api \in Apis : BeginRequest(t, api)
  \/ Acknowledge(t)
  \/ \E phase \in HostPhases : HostMove(t, phase)
  \/ \E p \in Plans, decision \in {"approve", "cancel", "modify"} :
       Submit(t, p, decision)

Next == (\E t \in Threads : Inside(t) \/ Call(t)) \/ (\E p \in Plans : Lapse(p))

Spec == Init /\ [][Next]_vars

(* A thread that resolves a review or runs a plan goes on: the tools       *)
(* return and every lock is released before the next one is taken.         *)
(* Nothing is assumed of the user, of new requests or of streams.          *)
Fairness == \A t \in Threads :
              WF_vars(Transition(t)) /\ WF_vars(Execute(t) \/ Resolve(t))

FairSpec == Spec /\ Fairness
------------------------------------------------------------------------------
(* Properties.                                                             *)

(* The types of the Planner's fields and of what each thread knows.        *)
TypeOK ==
  /\ conv \in Phases
  /\ seq \in 0 .. MaxPlans
  /\ plan \in [Plans -> Content]
  /\ status \in [Plans -> Statuses]
  /\ paused \subseteq Plans
  /\ due \subseteq Plans
  /\ history \in [Plans -> Statuses]
  /\ approvals \subseteq Records
  /\ ran \in [Plans -> Nat]
  /\ asked \subseteq Plans
  /\ pc \in [Threads -> PCs]
  /\ task \in [Threads -> Tasks]
  /\ cur \in [Threads -> Plans \cup {NoPlan}]
  /\ todo \in [Threads -> Seq(Phases)]
  /\ step \in [Threads -> Nat]

(* Review Before Action: whatever was requested, revised, superseded or    *)
(* raced, a plan that needs review reaches a tool only after the user      *)
(* pressed Approve on that very plan.                                      *)
ReviewBeforeAction == \A p \in Plans : plan[p].gated /\ ran[p] > 0 => p \in asked

(* One approval runs the work at most once, however many threads repeat    *)
(* the gesture.                                                            *)
NoCallTwice == \A p \in Plans : ran[p] <= Size[plan[p].batch]

(* A plan that was cancelled, superseded by a new request or a new pause,  *)
(* denied, or left to time out has not run and never will.                 *)
RejectedNeverRuns ==
  \A p \in Plans : status[p] = "Cancelled" \/ p \in due => ran[p] = 0

(* Once a plan has a revision, only the revision can still run.            *)
ModifiedParentNeverRuns ==
  \A p \in Plans : plan[p].parent # NoPlan => ran[plan[p].parent] = 0

(* The gate is obeyed also after any number of revisions, whatever the     *)
(* notes made of the work: nothing that the policies or the permissions    *)
(* deny reaches a tool, and what needs an approval only after Approve.     *)
GateIsObeyed ==
  \A p \in Plans : ran[p] > 0 =>
    /\ Verdict[plan[p].batch] # "Denied"
    /\ Verdict[plan[p].batch] = "RequiresApproval" => p \in asked

(* The threads that took p out of the store, or created it, to run or to   *)
(* revise it.                                                              *)
Owners(p) ==
  {t \in Threads : cur[t] = p /\ pc[t] \in {"approved", "running", "revising"}}

(* A plan is in one pair of hands: at most one plan is paused; a paused    *)
(* plan still awaits its review and no thread is working on it; and no two *)
(* threads work on one plan.                                               *)
OneHolder ==
  /\ \A p, q \in paused : p = q
  /\ \A p \in paused : status[p] = "AwaitingReview" /\ plan[p].gated /\ Owners(p) = {}
  /\ \A p \in Plans : \A t, u \in Owners(p) : t = u

(* Approval History never lies: a recorded completion ran every call of    *)
(* the plan; a recorded cancellation or modification ran none.             *)
ApprovalsAreTrue ==
  \A r \in approvals :
    IF r.result = "completed"
      THEN status[r.plan] = "Completed" /\ ran[r.plan] = Size[plan[r.plan].batch]
      ELSE ran[r.plan] = 0

(* The lifecycle of a plan ends: a final status is never left.             *)
FinalStatusStays ==
  [][\A p \in Plans : status[p] \in Final => status'[p] = status[p]]_vars

(* A plan that left the paused store, for whatever reason, is never        *)
(* resumable again: only a plan created by the step is added to it.        *)
NeverPausedAgain == [][\A p \in Plans : p \in paused' \ paused => p > seq]_vars

(* An approved plan is executed to an end, and no other call can take it   *)
(* away from the thread that runs it.                                      *)
ApprovedPlansFinish ==
  \A p \in Plans : status[p] = "Approved" ~> status[p] \in {"Completed", "Failed"}

(* How far a plan has come, as ReviewContract sees it.                     *)
Stage(p) ==
  IF p > seq THEN "unborn"
  ELSE IF p \in paused THEN "waiting"
  ELSE CASE status[p] = "Approved" -> "cleared"
         [] status[p] = "Executing" -> "running"
         [] status[p] \in {"Completed", "Failed"} -> "done"
         [] OTHER -> "closed"

Contract == INSTANCE ReviewContract WITH
  stage <- [p \in Plans |-> Stage(p)], consent <- asked, calls <- ran

(* The Planner implements ReviewContract: what its threads do to the paused *)
(* store, to the plans they hold and to the tools are steps of the contract *)
(* or none.                                                                 *)
ImplementsContract == Contract!ContractSpec

(* Every gesture on a Review Card, however stale, comes back to its caller *)
(* whatever the other threads do to the plan meanwhile.                    *)
GesturesReturn == \A t \in Threads : pc[t] = "deciding" ~> pc[t] = "idle"
------------------------------------------------------------------------------
(* What the documentation says, where the code disagrees.                  *)

(* docs/planner.md: the approved plan is the one the Review Card shows.    *)
ApprovedWorkIsShownWork ==
  \A p \in Plans : ran[p] > 0 => plan[p].batch = plan[p].card
==============================================================================
