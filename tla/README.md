# Jaymi in TLA+

Jaymi is a local-first desktop assistant: Rust, an egui front end, SQLite, a
local model behind Ollama. This directory holds TLA+ models of its core, the TLC
configurations that check them on small instances, and proofs that TLAPS checks
for every value of the constants.

- [The system](#the-system): its parts, their state, how they interact, what is hard
- [The modules](#the-modules): which module models what, and how
- [The runs](#the-runs): what TLC checks, the bounds, the fairness
- [The proofs](#the-proofs): what is proved, from what, and how
- [Where code and documentation disagree](#where-code-and-documentation-disagree)
- [What is not modelled](#what-is-not-modelled)
- [The plan](#the-plan)

To check it: `tlc -workers 2 -config MCPlanner.cfg MCPlanner`, and likewise for
the other configurations; `tlapm Planner_proofs.tla`, and likewise for the other
modules named `_proofs` and for `Planner_refinement`. `PROJECT.json` lists the runs, the
line range behind every definition, the hazards and which property watches over
each, the theorems, and a seeded fault for every property: a plausible bug in a
modelled definition that makes TLC report that property. The faults are the
definitions commented "Seeded fault"; no specification uses them.

## The system

The user types a request or presses a button; the `Application`
(`apps/jaymi/src/boot.rs`) hands it to the one `Planner` (`crates/jaymi-planner`).
The Planner decides what the request is, asks the Action Policies and the
Permission Engine whether the tool it would use may run, and either answers,
streams a reply from the Reasoning Engine, runs a tool, or pauses an Execution
Plan and shows a Review Card. Gestures on the card come back through
`Planner::resolve_review`.

There is no async runtime. Concurrency comes from `std::thread` and `Mutex`: the
UI thread; one *start worker* per conversational request, which calls the same
Planner object; one *reader thread* per provider stream; background workers for
context snapshots, embeddings and file watching; and the readers of language
servers and terminals. Most mutexes protect one field each, so what has to be got
right is what happens *between* two critical sections of one call.

### Components

| Component | State it keeps | Operations | Hard part | What makes it correct |
|---|---|---|---|---|
| Conversation phase machine (`conversation_state.rs`, `Planner::transition_conversation`) | one user-visible phase behind a mutex | move, if the move is legal; otherwise log and drop | many callers, none of which learns that its move was dropped | a phase means what its documentation says: Executing is executing, WaitingForReview has something to review |
| Planner: requests, plans, review (`lib.rs`, `paused_execution.rs`, `execution_plan.rs`, `approval_history.rs`, `plan_revision.rs`) | the paused store, plan history, approval history, model and report memos | `handle`, the observer and stream entry points, `begin_code_generation`, `resolve_review` | concurrent callers; Modify in two critical sections; TTL; supersession; batches that fail half way | nothing runs unreviewed, twice, or after it was turned down; what the gate denies never runs; the history is true |
| Planner decisions (`decision.rs`, `routes.rs`, `dispatch.rs`, `complexity.rs`, `environmental.rs`) | none | intent, capability, route from the request text | wording | each intent has one route |
| Planner coding reports (`coding_*.rs`, `code_generation.rs`, `review_card.rs`) | none | text from data | | |
| Action gate (`jaymi-policies`, `jaymi-permissions`, `jaymi-tools/src/metadata.rs`) | active policies, fixed after boot | evaluate policies, check permission, effective risk, combine | three opinions that must not soften each other | a call let through unseen is harmless; the strictest opinion wins |
| Application: generation slot and transcript (`boot.rs`, `experience.rs`, `conversation_ux.rs`) | slot None/Starting/Active, transcript turns, active conversation | begin, pump, cancel, retry, regenerate, switch conversation | a cancelled start worker goes on; `turn_index` across switches; retry of an older turn | one reply at a time, in its own turn, with its own words; every start and every reply ends |
| Reasoning engine and conversation stream (`jaymi-reasoning`) | per reply: lifecycle, accumulated text, inbox, deadline, token | start, `try_pump`, `cancel`, `retry` | reader thread against stop, retry and deadline; events held back behind others | the turn shows what one attempt said, once, in order; every attempt ends |
| Ollama provider (`jaymi-reasoning-ollama`) | a response reader per stream | `next_chunk`, `cancel` | blocking reads; a cancel that sets a shared token | a cancelled stream produces nothing more |
| Context maintenance (`context_maintenance.rs`, `boot.rs`) | completed snapshots, in-flight marks, coalesced requests, a channel of results | schedule, publish, drain, pump, prepare | one short lock after another: a copy of the coding state that another thread overtakes, a publication over a job at work, requests that only leave a flag | no request is dropped; a snapshot moves back only where a copy or a job is overtaken |
| Context engine and caches (`jaymi-context`, `session_cache.rs`) | cached session inputs, budgets | assemble, invalidate | a cached input that is stale when used | the bundle is within budget and current |
| Memory engine (`jaymi-memory-engine`) | memories, conversations, the active one | record, promote, summarise, switch | promotion while a conversation is switched | a turn is recorded once, in its conversation |
| Project engine and session (`jaymi-project-engine`, `boot.rs`) | recent projects, active project, its session | open, continue, close | three owners of "the active project" | they agree |
| Search and embedding queue (`jaymi-search`) | FTS index, embeddings, a pending queue | enqueue, drain, query | a file re-indexed while its embedding is computed | an embedding belongs to the current text |
| Discovery and watcher (`jaymi-discovery`) | file table, debounced events | scan, watch, apply | events during a scan; a delete and re-create in one window | the table converges to the disk |
| Tool orchestrator and tools (`jaymi-tools`) | registry | execute | failure half way | a tool runs only when the Planner says so |
| Providers: LSP, terminal, git, files (`jaymi-providers`) | child processes, pending requests, output buffers | request/response, start/stop | a process that dies with requests pending | every request is answered or fails |
| Capability engine and editor state (`jaymi-capability-engine`) | panes, tabs, one buffer per file, dirty marks; explorer, terminals, git, problems | open, split, move, type, save, close | panes, focus and buffers put in step one after the other; edits lost on the way | no unsaved edit goes unless the user closes it; a clean tab is what the disk held |
| Monaco bridge (`monaco_host.rs`, `sync_monaco`, `index.html`) | the document last pushed, the page's text, two queues | push a document, report a change | both sides change a file before they hear of each other | a key reaches the file it was typed in; view and buffer agree at rest |
| Vendored Monaco (`assets/monaco/vs`) | third-party | | | |
| Coding workspace (`coding_workspace.rs`) | file tree, previews | create, rename, delete through the Planner | stale tree after an approved change | |
| Database (`jaymi-database`) | SQLite behind one mutex | migrations, queries | a crash between two migrations | the schema version is true |
| Understanding, parsers, knowledge | a parse per file | parse, index | | |
| Commands, configuration, logging | registries, files | | | |
| User interface (`ui/`) | widget state | render, dispatch | | calls only what is enabled |

### What is hard to test here

`PROJECT.json` lists each hazard with its line. The families:

- **Two threads in the Planner.** A card is approved twice; a new request
  supersedes the paused plan between the display of the card and the gesture on
  it, or between the two halves of Modify.
- **Time.** The review TTL runs out under the user's finger; a deadline passes
  while a chunk is being read; a stop meets a reply that just ended.
- **Retries.** A retry reuses the request of the attempt it replaces, with
  its cancellation token and its accumulated text.
- **Half-done work.** A batch fails at its second call; an early return skips the
  record and the phase change that would have followed.
- **Composition of opinions.** Policies, permission and risk are each simple; what
  their combination lets through is not.
- **Liveness across locks.** A stop needs a lock that a reader holds across a
  blocking read.
- **Indices that outlive what they point into.** The slot keeps the index of its
  reply's turn while turns are removed, cards are answered and conversations change.
- **Results that come late.** A start worker that was given up; a background job over
  whose mark a newer snapshot was published; a message of the editor page about a tab
  that has been left.
- **Two processes and one text.** The page and the host each hold a copy, and neither
  waits for the other.

## The modules

| Module | Models | Uses |
|---|---|---|
| `ConversationState` | `conversation_state.rs`: phases, legal moves, what `transition_conversation` does with an illegal one | |
| `Planner` | the Planner as its callers share it | `ConversationState`, `ReviewContract` (as a refinement) |
| `ReviewContract` | abstract: what Review Before Action promises | |
| `ActionGate` | `evaluate_policies`, `PermissionEngine::check`, `ToolRisk`, `combine_gate_decision` | |
| `ReasoningStream` | `ConversationStream` over `StreamingResponse` over a provider stream, and the host's turn | |
| `Generation` | the generation slot, the start workers and the transcript | |
| `ContextMaintenance` | background snapshots: marks, jobs, publications, pumps | `SnapshotCell` (as a refinement) |
| `SnapshotCell` | abstract: what the refresh promises of one snapshot | |
| `OpenEditors` | panes, tabs and buffers of the Coding workspace, and the disk | |
| `MonacoHost` | the web view over the focused pane, and the two queues | `OpenEditors` |
| `MCPlanner` | Planner with work whose verdicts `ActionGate` computes | `Planner`, `ActionGate` |
| `MCActionGate` | lists of policies built one activation at a time, against every kind of call | `ActionGate` |
| `MCGeneration`, `MCContextMaintenance`, `MCOpenEditors`, `MCMonacoHost` | values and symmetry of the instances | |
| `Planner_proofs`, `Planner_refinement`, `ActionGate_proofs`, `Generation_proofs`, `ReasoningStream_proofs`, `ContextMaintenance_proofs` | theorems | the module they are named for |
| `OpenEditors_proofs`, `MonacoHost_proofs` | theorems; the second rests on the first | `OpenEditors`, `MonacoHost` |

### Planner

The Planner is one object behind an `Arc`; the UI thread and the start workers
call it concurrently. Threads meet in two mutexes that matter, the phase and the
paused store. **One action is one critical section on one of the two**, with the
work around it that no other thread can see. A plan that was taken from the
store or has just been created is the caller's own copy. The two histories are
only appended to.

| Variable | Code |
|---|---|
| `conv` | `Planner.conversation_state` |
| `seq`, `plan` | the plan id counter; the immutable content of each `ExecutionPlan` / `PausedExecution` (is it gated, is it a code generation batch, what runs, what the card shows, whose revision it is) |
| `status` | `ExecutionPlan.status` of the owned copy |
| `paused`, `due` | `PausedPlanStore.entries`; which of them have outlived the TTL |
| `history`, `approvals` | `plan_history`, `approval_history` |
| `ran` | tool calls handed to `ToolOrchestrator::execute` for each plan |
| `asked` | plans Approve was pressed on (history variable) |
| `pc`, `task`, `cur`, `todo`, `step` | where each thread is: the point in the call, its entry point, the plan in hand, the phase moves still to make, the calls made |

`BeginRequest` is the common prologue of the three entry points
(`invalidate_paused`). `EnterPreparing` follows, then one of `GiveUp`, `Answer`,
`FallBackToHandle`, `Reason` or a proposal. `ProposeDenied`, `ProposeGated` and
`ProposeAllowed` are the three arms of `prepare_execution`; `ProposeGeneration`
and `ProposeGenerationDenied` those of `begin_code_generation`. `StartExecuting`,
`CallSucceeds`, `LastCallSucceeds`, `ResumeSucceeds` and `CallFails` are
`execute_approved_plan`, `execute_approved_generation` and what their callers do
with the result. `Submit` is the entry of `resolve_review`. After it, `ResolveUnknown`,
`ResolveTimedOut`, `Resume`, `Cancel` and `Withdraw` are what the take finds, and
`Revise` and `ReviseDenied` the second half of Modify. `Acknowledge`, `HostMove`,
`StreamMoves` and `StreamEnds` are the phase mirrors. A `transition_conversation`
that follows another critical section of the same call is in `todo` and happens in
an action of its own, so other threads may move the phase in between.

Which route a request takes and which tool it needs is nondeterministic. So is what a
note makes of the work and of its card, within `CanBecome`: a rename, another path or
"only temporary files" rewrites both alike; of any other note only the text is put on the
card, and the tool input stays as it is (`plan_revision.rs:200-204`); "skip README" of a
single file empties the tool input while the card falls back to the parent's resources (94-96
with 331-333). `CanBecome` does not track which tool a note starts from, and so allows more
than the code: a note can make a tool call of another kind only into a rename.

`AllApis` are the entry points and `StreamPhases` the phases a stream moves the
conversation to; `Apis` and `HostPhases` are those an instance uses. Work is a model value with a number of calls (`Size`) and
a verdict (`Verdict`). In `MCPlanner` the verdict is `ActionGate!Gate` of a concrete
call, so that the two models cannot disagree about what is gated.

Readings of the code the model rests on: policies and permissions do not change
after boot; `apply_modification_note` of a blank note records a change, so the
"modify requires a note" return cannot be reached and a blank note yields a
revision of the same work; the parent's decisions, which are reused when the tool stays the
same, are those the gate would come to again; with the registered tools a revised tool always
requires review, so the "review not required" requirement of a revision does not
occur; the error returns between the two halves of Modify need an unregistered
tool or a poisoned lock.

### ReviewContract

What `docs/planner.md` promises under *Review Before Action*, without threads,
phases, histories or tools: a plan is `unborn`, `waiting`, `cleared`, `running`,
`done` or `closed`; work is cleared by the gate or by consent; at most one
proposal waits; one that stopped waiting never waits again; calls are made only
for running work. `Planner` maps its store, statuses, Approve gestures and
tool calls onto `stage`, `consent` and `calls` (`Contract` in `Planner`).

### ActionGate

The verdict on a call as a pure function: `PolicyAsks` is one iteration of
`evaluate_policies`, `EvaluatePolicies` its fold, `CheckPermission` the permission
rules, `EffectiveRisk` the escalation of a tool's declared risk by the details of
the invocation (delete mode, git command, rewrite through the language server),
`Combine` and `Gate` the Planner's combination. A call is a record of what the
three parts look at and nothing else.

### ReasoningStream

One reply. The host (one thread, the UI's pump) calls `try_pump`, `cancel` and
`retry` and shows the events in a turn of the transcript. Each attempt has a reader
thread that takes the provider's lock, reads a chunk while it holds the lock, and
sends it to the inbox. The provider answers a read with any chunk, the end, or an
error; it reports "cancelled" only after a cancel.

| Variable | Code |
|---|---|
| `token`, `late` | `request.cancellation`, shared by all attempts; the deadline of the open attempt has passed |
| `attempt`, `life`, `shown`, `text`, `finished`, `pending`, `fallback` | the fields of `ConversationStream` (`shown` is `last_emitted_lifecycle`, `pending` the chunk held back behind its lifecycle event) |
| `open`, `inner`, `inbox` | which attempt's `StreamingResponse` is in `self.inner`, its own lifecycle, text and flag, its channel |
| `reader` | where each reader thread is; `"none"`: it could not be spawned |
| `call` | the host's call that waits for the provider's lock, or `"ready"` |
| `turn`, `answer` | the assistant turn as `experience.rs` keeps it; how the last retry was answered |
| `sent`, `kept` | history: what the provider said in each attempt; what the turn showed when a retry that keeps it began |

`Pump*` and `Poll*` are the arms of `ConversationStream::try_pump` and of
`StreamingResponse::try_next_chunk` below it, in the order the code tries them.
`Reader*` and `Read*` are the loop of `spawn_forwarding`. `Cancel`, `PollLate`
and `RetryActive` set the flags and then wait for the provider's lock in
`CancelProvider`, `Expire` and `RetryDrained`; a cancel or a poll of the UI thread
really does block there, and the model lets the reader go on reading meanwhile.
`Attempt*` are the outcomes of `begin_attempt`: it opens a stream, answers from
`complete` because the provider cannot stream, is refused, or fails inside
`complete`. The last of these leaves through `?`: the stream is then unfinished and
at Thinking, over the previous attempt's response handle, and the next pump may
show a finished turn as Thinking again. The model keeps this and `EventsInOrder` states the exception.

Tokens are numbered per attempt, so losing, repeating, reordering or mixing them
is visible. Consecutive thoughts in the inbox collapse into one, which leaves the
number of thoughts unbounded.

### Generation

How one request after another gets its reply into the transcript. The window's
calls run to their end one after another; a worker per request (`run_generation_start`)
runs beside them and hands its outcome to the slot, if the slot still waits for it.

| Variable | Code |
|---|---|
| `turns` | `ExperienceSession.conversation`: role, lifecycle, which request a turn is for (`gen`), whose words it holds (`by`, history), whose Review Card (`card`) |
| `slot`, `inbox`, `stream`, `stopped` | `active_generation`: `GenerationSlot` with its `turn_index`; the channel of `Starting`; the `ConversationStream` of `Active` and its token |
| `worker`, `gaveUp` | where each start worker is; the `cancelled` flag it was given |
| `plans` | requests whose plan the Planner keeps paused |
| `awaiting` | `awaiting_reply` of the window, which locks the composer |
| `sent`, `moved`, `switches` | requests sent; the transcript was replaced under a full slot (history); conversations opened |

`Send`, `Regenerate`, `Review`, `Switch`, `Stop*` and `Retry*` are what the window
offers, under the conditions under which `ui/mod.rs` and `turn_actions` offer it.
`Worker*` are the steps between which the worker looks at its flag: it prepares the
session, assembles (which cancels paused plans), opens the stream, or falls back to
finishing the request itself and from then on does not look any more. `Pump*` are the
arms of `pump_generation`. The stream is what `ReasoningStream` shows it to be: tokens,
then one end; `"dead"` is the stream that `RetryDrained` and `AttemptRefused` leave there,
finished and without a terminal event.

### ContextMaintenance and SnapshotCell

A request is told about the workspace from snapshots that background jobs took
earlier. There is a mark per kind of job, a channel for the results, and for four
kinds a flag that says "asked for while in flight". The abstraction is that a snapshot
is the *version* of its source, so that "older" has a meaning.

The window pumps on every frame and prepares requests; the start worker of a reply does
both beside it, and the code takes one short lock after another. So **a call is a list of
steps, one for each lock**, and a thread takes the first step of its list while other
threads take theirs.

| Variable | Code |
|---|---|
| `live` | the versions of the sources: coding state, repository, project, terminals, ... |
| `open` | is the Coding workspace open |
| `inflight`, `coalesced` | `inflight`; the four `*_coalesced` flags with `pending_reschedule` |
| `jobs`, `completed` | running job threads; `completed_rx` |
| `hand` | the result a drain has received and not stored yet (a drain holds the receiver's lock) |
| `store`, `updates` | `CompletedMaintenanceSnapshots`; `ui_rx` |
| `todo` | per thread, what is left of the call it is in |
| `copies`, `clone` | per thread, the `MaintenanceJobRequest` inputs it copied; the coding state `prepare_context_session` copied |
| `cut`, `overtaken`, `asked`, `closedAt` | history: marks cleared over a job at work; kinds of which an older copy was used after a newer one; the version at the latest request; at the last close |
| `prepared` | bounds the requests a thread prepares of its own accord |

`Edit`, `TerminalActs`, `OpenProject`, `RefreshPanel`, `GitMutated`, `Expand`, `Close`, `WindowPumps`
and `Prepares` begin a call. `PumpCall`, `PrepareCall`, `OpenCall`, `Ask`, `AskCoding` and `Clear` are
the lists. A request is two steps: `Copy` is `maintenance_job_request`, which copies the
source under its lock, and `Start` is `schedule` under the lock of the marks. A drain is
`TakeResult` (receive, clear the mark), `StoreResult` (store, tell the window), and `Drained`. A
publication is `Unmark`, then `PutClone` or `PutNothing`. `TakeUpdates`, `ApplyUpdates` and
`LookAtFlag` are the rest of the pump, in the order of its `||`; `CloneCoding` and `ReadStore` the
rest of a preparation.

What is coarser or wider than the code. The results a pump takes for the window are applied
together. A flag and its entry in `pending_reschedule` are one. A request copies only what its own kind's job is
given, and `Glances`, the look at the store in the middle of copying, may or may not
happen. The order in which results of different kinds arrive is left open. `Prepares` stands for
whatever makes a thread prepare a request.

Two history variables say what the code does not exclude. `cut` has the kinds whose mark a
publication cleared over a job. `overtaken` has those of which a thread used a copy, to start a job
or to publish, after a newer one had been used: no lock is held from the copy to its use. All
properties but `OneJobPerMark` (which excepts only `cut`) speak of the other kinds.

`SnapshotCell` says what one kind promises: its snapshot only moves on, to nothing that
was not asked for, and catches up with every request, until it is disturbed in one of these
ways. `EditorIsACell` maps the editor kind onto it, liveness included. The editor is
the interesting one: the pump looks at its flag last, behind a `||`.

### OpenEditors

The editors of the Coding workspace, driven by the shell's events one at a time.

| Variable | Code |
|---|---|
| `panes`, `focused`, `buffers` | `OpenEditors.panes` (tabs, active path), `focused_pane`, `buffers` (content, dirty) |
| `disk` | the files of the project |
| `edits` | the number of edits made: a text is the set of the edits it holds |

`Removed` and `Settled` are `close_pane` and the common end of `close_path_in_pane` and
`move_tab`; `Sanitized` is `sanitize`. Which pane takes the focus of a closed one depends
on the split tree and is left open. `SaveActive` is one step because the window's thread
waits for the approved write. `ToolWrites` is a tool of some plan; open buffers are not told.
Preview tabs are left out: no event of the shell opens one (`docs/experience.md:40`
describes them).

### MonacoHost

The focused pane is covered by a web view, a process of its own with one text
model for all tabs. The module extends `OpenEditors` with

| Variable | Code |
|---|---|
| `stage`, `last` | is there a `MonacoHost`, and is it `ready`; `last_pushed` |
| `page` | `currentPath` and the model's text in `index.html` |
| `toHost`, `toPage` | messages posted by the page and not yet polled; scripts the page has not run yet |
| `typed`, `landed`, `crossed` | history: where each edit was typed, unless its message came after the last tab of its file was closed; which reached a buffer; page and host changed a file, neither having seen the other's change |

`Type` posts the whole text of the model. `ReceiveChange` is `poll` with
`note_external_edit` and the `EditContent` event, `SyncDocument` the end of `sync_monaco`,
`RunScript` is `__jaymiSetDocument`. `TabsChanged`, `TabsClosed`, `TextsChanged`, `Saved`
and `WorkspaceReopened` are the actions of `OpenEditors` under the view. Files that
appear, vanish or change on disk behind the editor, and renames and deletions in the Explorer,
are left to the run of `OpenEditors`: under the view there are none.

## The runs

| Run | Configuration | What it shows |
|---|---|---|
| `planner` | `MCPlanner.cfg` | Two threads in the Planner, two plans: `ReviewBeforeAction` (a gated plan runs only after Approve was pressed on that very plan), `NoCallTwice` (one approval runs the work at most once), `RejectedNeverRuns` (cancelled, superseded, denied, timed out: never run), `OneHolder` (a plan is in the store or in one thread's hands, and at most one is in the store), `ApprovalsAreTrue` (what the approval history says happened did), `ImplementsContract` (every step is a step of `ReviewContract` or none). |
| `planner_live` | `MCPlannerLive.cfg` | Two threads race for a plan and for the one that revises or supersedes it, under PrivacyMaximum, where the gate also denies what a note made of the work: `GateIsObeyed` (what the gate denies never runs, and what it wants approved only after Approve, whatever the notes made of the work), `FinalStatusStays`, and under fairness `ApprovedPlansFinish` and `GesturesReturn`, with every gesture: both halves of Modify, its refusal included, fire here. |
| `gate` | `MCActionGate.cfg` | Every kind of call under every list of at most two of three policies: `UnseenCallsAreHarmless`, `StrictestPolicyWins` (the order of activation does not matter), `PoliciesOnlyTighten`. |
| `stream` | `MCReasoningStream.cfg` | One reply over two attempts: `ReplyIsOneAttempt`, `TranscriptFollows` (turn and stream agree up to the token held back), `CompletedIsWhole`, `EventsInOrder` (lifecycle before token, terminal event last), `StopIsObeyed`, and under fairness `EveryAttemptEnds` and `CallsReturn`. |
| `generation` | `MCGeneration.cfg` | Three requests, sent, regenerated, stopped and retried, with a conversation opened in between: `ReplyHasItsTurn` (the slot's index is that of its own turn), `SpinnerHasOwner` (a turn that spins is the one the slot writes, and somebody is left to write it; a stream that a retry killed counts, and does not end its turn), `RepliesAreOwn` (one reply for a request, in its own words), `StrayWorkersWereTold`, `PausedPlanIsShown`, `FinishedTurnsStay`, and under fairness `StartsEnd` and `RepliesEnd`. |
| `maintenance` | `MCContextMaintenance.cfg` | Workspace and editor snapshots, with the window and a reply's thread interleaving at every lock: `RequestsAreServed` (no request is dropped), `SnapshotsMoveOn` (nothing but a publication over a job or a late use of an old copy moves a snapshot back), and under fairness `EditorIsACell`, the refinement of `SnapshotCell`. |
| `maintenance_window` | `MCContextMaintenanceWindow.cfg` | The window alone, with git, and with the repository, terminals and project changing too, so that every call fires: `OneJobPerMark` (a mark stands for exactly one job). |
| `editors` | `MCOpenEditors.cfg` | `TabsAreWhole` (focus, active paths, tabs and buffers fit together), `CleanIsFromDisk` (no edit hides behind a clean tab), `UnsavedIsKept` (unsaved edits go only where the user closes them). |
| `monaco` | `MCMonacoHost.cfg` | `TypedWhereShown` (what is typed in one file shows up in no other), `TypingArrives` (no key is lost on its way), `ViewAgreesUnlessCrossed` (at rest the page shows the buffer), `UnsavedSurvivesTheView` (a whole-text message takes no unsaved edit with it, unless page and host had crossed). |
| `planner_batch`, `generation_composer`, `maintenance_close` | `MCPlannerBatch.cfg`, `MCGenerationComposer.cfg`, `MCContextMaintenanceClose.cfg` | Expected violations: see [below](#where-code-and-documentation-disagree). |

### Bounds

| Bound | Value | Why it is enough |
|---|---|---|
| `Threads` | 2 (symmetric in `planner`) | Threads meet in critical sections of one plan or of the whole store; two are enough for every pair of gestures, requests and executions to race. The theorems are for any set of threads. |
| `MaxPlans` | 2 | A plan and the one that supersedes or revises it. `Room` reserves an id for each revision under way, so the bound never cuts a call short. That a revision of a revision behaves as the first is for the theorems, which are for any number of plans. |
| `Apis`, `HostPhases` | all in `planner`; `handle` and one phase in `planner_live` | Phases do not gate what the live properties are about; every entry point and phase is in the larger run. |
| `Size` | 1, batches 2 | A batch that fails at its second call has run its first. |
| `Actions`, `Batches` | one the gate allows, one it reviews, one it denies; a local and a remote batch | The verdict is all the Planner looks at. |
| `MaxActive` | 2 | The policies combine by a fold of a commutative, associative maximum. |
| `MaxAttempts` | 2 | A retry looks at what the attempt before it left, no further back; refusals and retries of retries behave as the first. |
| `MaxTokens` | 2 per attempt | One token behind a lifecycle event and one that is not. |
| `MaxGenerations` | 3 (2 in `generation_composer`) | A reply, the one that replaces it, and a worker given up behind both. |
| `MaxSwitches`, `Stored` | 1; a few short transcripts | One replacement under a full slot makes the index stale; shorter, equal and longer transcripts, ending with either role. |
| `MaxTurns` | 4 | Bounds only how often a plan is modified, each time adding two turns. |
| `CodingChanges` | 2 | A change that a request observes, and one that comes while its job runs or while another thread holds an older copy. |
| `Changing` | none in `maintenance`; repository, terminals and project, once each, in `maintenance_window` | What opening, closing, git commands and terminals change besides; a call that changes what an instance leaves unchanged does not happen in it. |
| `Requests` | 1 in `maintenance`, 0 in the runs of the window alone | One preparation of the worker meets every call of the window at every step of both. The proofs are for any number, and for any set of threads. |
| `Files`, `PaneIds` | 2 files (symmetric); 3 panes in `editors`, 2 in `monaco` | Two files: a tab that is left and one that takes its place. Three panes: the focus of a closed pane has a choice. |
| `MaxEdits` | 2 | One edit saved or sent and one behind it. |
| `MaxQueue` | 2 per direction | A message and one behind it; the crossing needs one in each direction. |

Deadlock is checked in the Planner runs (some thread can always make a request), in
`maintenance` and `maintenance_window` (the window always pumps), `editors` and `monaco`. It is
off for `gate` (the list stops growing), for `stream` (a finished stream that
may not be retried any more stops; that nothing stops earlier is `EveryAttemptEnds`)
and for `generation` (once every request was sent and answered nothing is left to do;
that nothing stops earlier is `StartsEnd` and `RepliesEnd`).

### Fairness

- *Planner*: weak fairness of `Transition(t)` and of `Execute(t) \/ Resolve(t)` for
  each thread: inside `resolve_review` and inside an execution the code runs to the
  end, provided tools return and locks are released. Nothing is assumed of the
  user, of new requests, or of streams.
- *ReasoningStream*: `WF(Reads(a))`: a read of the provider returns, because the
  HTTP transport has a timeout of its own (120 s by default); `WF(DeadlinePasses)`:
  time passes; `SF(Pump)`: the UI pumps once per frame (`pump_active_generation`)
  whatever else the user makes the host call, and a call that waits disables it
  meanwhile; `SF(Waits)`: the reader releases and retakes the mutex for every
  chunk, so a waiting thread finds it free again and again but not continuously.
  That it gets it eventually is a property of the operating system's mutex, which
  Rust's `Mutex` does not promise to be fair; strong fairness says that it does not
  lose every time. Nothing is assumed of the user.
- *Generation*: weak fairness of `Installs` and of `PumpEnds` (the window pumps on every
  frame while the slot is full, and what `ReasoningStream` proves by model checking, that a
  reply ends, is taken over) and of each worker's steps: its calls return. Nothing
  is assumed of the user.
- *ContextMaintenance*: weak fairness of `WindowPumps` (the window asks for the next frame
  itself: the status dot of `nav_rail.rs:288` blinks, and `sync_monaco` calls `request_repaint`,
  `ui/mod.rs:2977`), of `GoesOn(t)` (a thread inside a call goes on with it: its locks are held for
  moments, none across I/O) and of `JobReports(k)` (git, the disk and the language server answer).
  Nobody has to prepare a request.
- *OpenEditors*, *MonacoHost*: none; their properties are safety properties.

## The proofs

TLAPS proves every safety property of the passing runs: all their invariants and action
properties, the refinement of `ReviewContract`, and the safety half of that of
`SnapshotCell`. It proves them for every value of the constants: any set of threads,
any work with verdicts and sizes as `WorkAssumption` says, any number of plans, requests,
attempts, tokens, jobs, files, panes, edits and messages on their way.

| Theorem | Says |
|---|---|
| `Invariance` | `Spec => []Inv`, the inductive invariant |
| `TypeCorrect` | `[]TypeOK` |
| `ReviewedBeforeAction`, `RunsAtMostOnce`, `RejectedIsInert`, `ModifiedIsInert`, `HeldOnce`, `RecordsAreTrue` | the safety invariants of the run `planner`, and `ModifiedParentNeverRuns`: once a plan has a revision it never runs itself |
| `GateObeyed` | `GateIsObeyed`: what the policies or the permissions deny reaches no tool, and what needs an approval only after Approve, after any number of revisions and whatever the notes made of the work |
| `FinalIsFinal`, `PausedOnce` | the two action properties of the Planner, `FinalStatusStays` and `NeverPausedAgain` |
| `Implementation` | `Spec => Contract!ContractSpec`: the Planner implements the review contract |
| `UnseenIsHarmless`, `DenialStands`, `StrictestWins`, `OnlyTightens` | the gate, for lists of policies of any length: `UnseenCallsAreHarmless`, `DenialIsFinal` (a refusal is never softened into a review), `StrictestPolicyWins`, `PoliciesOnlyTighten` |
| `OneAttemptSpeaks`, `TurnShowsTheReply`, `CompletedRepliesAreWhole`, `LifecycleThenToken`, `NothingAfterStop` | the safety properties of the run `stream`: `ReplyIsOneAttempt`, `TranscriptFollows`, `CompletedIsWhole`, `EventsInOrder`, `StopIsObeyed` |
| `RepliesHaveTheirTurn`, `SpinnersHaveOwners`, `RepliesAreOwned`, `StraysWereTold`, `PausedPlansAreShown`, `FinishedStays` | those of the run `generation`: `ReplyHasItsTurn`, `SpinnerHasOwner`, `RepliesAreOwn`, `StrayWorkersWereTold`, `PausedPlanIsShown`, `FinishedTurnsStay` |
| `OneJobAtATime`, `RequestsAreNotLost`, `SnapshotsOnlyMoveOn` | `OneJobPerMark`, `RequestsAreServed`, `SnapshotsMoveOn`, with their exceptions `cut` and `overtaken`, for threads that interleave at every lock |
| `EditorMovesOn` | `Spec => Editor!Moves`: the editor's snapshot implements `SnapshotCell` without its fairness |
| `TabsStayWhole`, `CleanStaysFromDisk`, `UnsavedStays` | the three properties of the run `editors`: `TabsAreWhole`, `CleanIsFromDisk`, `UnsavedIsKept` (`Invariance` of `OpenEditors_proofs` is `EditorsSpec => []Inv`; it does not say that a pane has one tab for a file, which a rename over a deleted file breaks, nor that every tab has a buffer) |
| `HostInvariance`, `TypedStaysPut` | `Spec => []HostInv`, and from it `TypedWhereShown`: what is typed in one file never shows up in another |
| `ViewInvariance`, `NoKeyIsLost`, `RestingViewAgrees`, `UnsavedIsKeptByTheView` | the other properties of the run `monaco`: `TypingArrives`, `ViewAgreesUnlessCrossed`, `UnsavedSurvivesTheView`; all three except states after page and host crossed, where the code does lose keys and edits |

`ReasoningStream_proofs`, `Generation_proofs` and `ContextMaintenance_proofs` each have an
`Invariance` of their own, the inductive invariant of their module.
`ModifiedParentNeverRuns`, `NeverPausedAgain` and `DenialIsFinal` are checked by their proofs
alone: they hold for all constants, so no run repeats them.

Assumptions: `WorkAssumption` (single calls and batches are disjoint, sizes are
positive, a single call has size 1, verdicts are verdicts) and `MaxPlansAssumption` for the
Planner; `CandidatesAssumption` (what can be activated is a built-in policy) for the last two
about the gate, the first two assume nothing; `BoundsAssumption` of `ReasoningStream` and
`GenerationAssumption` (bounds are numbers, stored transcripts are transcripts);
`KindsAssumption` (the coding kinds are among those watched), `BoundsAssumption` (numbers, and the
window is a thread) and `NobodyAssumption` of `ContextMaintenance`; `FilesAssumption`, `PanesAssumption`, `EditsAssumption` and
`QueueAssumption` for the editors. Each is an ASSUME that TLC evaluates on the run of its module.

**The Planner.** None of the safety invariants is inductive: that a
timed-out plan has not run, for example, depends on who may still take it. `Inv` is

- `TypeOK`;
- `AllPlansInv`: per plan, what its status says of `ran`, `asked`, `due`, the store
  and its parent (a plan not yet created is a draft that nothing has touched; a
  paused one awaits review and has made no call; one that is Approved or further
  was asked for if it is gated; a due one has made no call; a parent is cancelled);
- `OnePaused`: the store has at most one entry;
- `AllThreadsInv`: per thread, what its position says of the plan in hand (approved:
  status Approved, no call made; running: status Executing, and exactly `step`
  calls made, fewer than the work has; revising: the parent is cancelled);
- `SoleOwner`: no two threads have the same plan in hand to run or revise, which is
  what the atomic take gives;
- `AllRecordsInv`: every record is true of its plan.

`Planner_proofs` shows that each action preserves it. Actions that disturb the same
parts share a lemma: `QuietStep` (nothing but the phase and the thread's position
changes), `CreateStep` (a plan is created, refused, cleared or paused), `TakeStep`
(a plan leaves the store), `EndStep` (the last or a failing call), and lemmas for
`Lapse`, `Submit`, `StartExecuting`, `CallSucceeds` and a new request. `NextInv`
puts them together; the properties follow from `Inv` by a step each. `GateIsObeyed` is not
among its parts: it follows from `Inv` and `GateInv`, which says that every plan that is neither a
draft nor cancelled has passed the gate (its work is not denied, and is gated if it needs an approval),
and so has a plan that is cancelled because it is being revised. `GateInv` needs `Inv` to know
that the plan in a thread's hands is nobody else's.

**The gate.** `evaluate_policies` is a fold, and a fold over a list is a recursive function
on the sets of its places. `FoldExists` builds that function for any number of places and
`OnePass` reads the decisions after each policy off it, so that `OneMorePolicy` can say what
one more policy does to any list. From there on nothing is recursive: lists are built by
`Activate`, and `DecisionOK` is an ordinary inductive invariant.

**The review contract.** `StepEffect` in `Planner_refinement` reduces the Planner's
actions to seven effects on `seq`, `status`, `paused`, `ran` and `asked` (Consents,
Discards, Creates, Takes, Starts, Calls, or none). `FinalIsFinal`, `PausedOnce` and
the refinement need only the effects. `StageStep` says how the stage of every plan
follows from them, and one lemma per contract action concludes.

**The editors.** `Inv` of `OpenEditors_proofs` is nearly `TabsAreWhole`, stated of
any panes and buffers so that one lemma per helper of the code says what it keeps:
`PanesAreWhole` and `BuffersAreShown` of what opening, closing, moving and pruning
return, and `SettledKeepsShown` of the pruning that ends every change of tabs (a buffer
stays exactly if some pane still shows it). A tab is closed at its first
place in the pane, which exists by well-foundedness (`LeastNatural`). The two action
properties go through the actions that touch a buffer, each from `Inv`: what a step
leaves in a buffer is marked dirty, or is what the disk holds, or was a buffer before
(`BuffersAreExplained`); and a dirty buffer keeps its edits unless what shows it is closed.

**The page.** `TypedWhereShown` speaks of buffers only, and is not inductive: a text on
its way may become a buffer. `HostInv` says of every place a text can be in (the page, both
queues, the buffers, the disk) that its edits were made, and none of them in
another file (`Own`), and that edits yet to be made have no file. A message keeps the
path it was posted with, so `ReceiveChangeStep` needs nothing of the tabs: it is this
independence of the focus that makes the property hold.

`TypingArrives` and `ViewAgreesUnlessCrossed` relate the whole order of the queues to the
buffers, and are proved from `ViewInv`. It has `StageInv` (the page posts only once it is
ready, and says so first) and `Agreement`: unless page and host have crossed, either
nothing is on its way to the host, and the host's `last_pushed` is what the page will show when it
has run its scripts; or no script is on its way, and every message on its way is about the
page's file, keeps the unsaved edits of its buffer, and holds what the message before it
holds, and the last one is the page's text. What the host does next with any of them is then right,
and the last one leaves the buffer equal to the page. `UnsavedSurvivesTheView` follows from
the same facts and from `DirtySurvives` of `OpenEditors_proofs`, which speaks of the
editor's own operations.

**The stream.** The text of a reply exists four times: as the provider sent it, in the reader's
inbox, as the open attempt accumulated it, and in the turn. Tokens carry the number
of their attempt and their place, so `TextInv` and `SentInv` are statements about single tokens, and
`Queue` says of the inbox that it counts on from where the attempt stands to where the
provider stands. It says so with a function of places that a step extends or shifts; nothing
is summed over the inbox, and no step needs induction. `OpenInv` says what an attempt at its end
is (whole, unless it was cancelled), `PendingInv` that a chunk held back is the next event,
`FallbackInv` and `CallInv` what a completed fallback and a poll at the deadline
rely on, `TurnInv` what the turn shows. The two action properties need a lemma per action on
the turn. `LifecycleThenToken` excepts a retry that was refused, as `EventsInOrder` does.

**The generation slot.** The slot keeps an index into a transcript that other calls append to,
shorten and replace. `TranscriptInv` says what stands there: if the transcript is the one the turn
was begun in, the turn at the index is this request's, blank while it starts, and nothing behind it
has a lifecycle; if it was replaced, it has no turn of this run at all,
so that no word of this reply can be taken for another's. A spinning turn is the slot's in both cases. `AtWork`, which
`SpinnerHasOwner` needs besides, says who works for a full slot, and that no turn spins over an end
that was announced. With `WorkersInv` and `SlotInv` (the slot is about the latest request; what is in its channel are
its worker's last words; other workers that go on were told) this is inductive.

**Context maintenance.** `KindInv` says four things of one kind: its mark stands for one job or
its result (`Counted`); no copy that a thread holds is newer than the latest request, nor is what
jobs, channel and store made of copies (`Bounded`); what is stored is oldest, what a drain has in
hand comes next, what jobs and channel hold is newest (`InOrder`); and the latest request is
answered, or something on its way answers it (`Answered`: a flag, a call that has still to copy, a
copy, a job, a result). `InOrder` and `Answered` except the kinds in `cut` and `overtaken`, `Counted` those in
`cut`, and `Answered` the project, of which closing publishes the snapshot of nothing
(`IsEmptied`). A step of a call is about one kind, and the others do not notice it
(`Unnoticed`), so every action is proved for the kind it is about. Nothing is assumed of what happens
between a copy and its use: a `Start` or a `Put` with a copy older than what is stored, in hand or at work
puts the kind into `overtaken` itself.

**Only model-checked.** Liveness under fairness is out of the prover's reach:
`ApprovedPlansFinish`, `GesturesReturn`, `EveryAttemptEnds`, `CallsReturn`, `StartsEnd`,
`RepliesEnd`, and of `EditorIsACell` the half that says that the snapshot catches up
(`SnapshotCell!CatchesUp`). Every other property of the passing runs is proved.

## Where code and documentation disagree

Each of these is a run whose one property states what the documentation says, and
which TLC violates with a behaviour of the code.

- **`planner_batch`**: Modify on a code generation batch rewrites the plan and the
  card, but the child keeps the parent's `generation_calls`, and Approve runs those
  (`lib.rs`, the `generation_calls: entry.generation_calls.clone()` of
  `revise_paused_plan`; `paused_execution.rs:45`, `docs/planner.md:497`).
  Nothing better is claimed of single tool calls, for which the same formula fails with `Batches = {}`:
  a note that no rule knows is put on the card and leaves the tool input as it was
  (`plan_revision.rs:200-204`), and "skip README" empties the input while the card keeps
  its resources. What holds of both is `GateIsObeyed`: whatever a note made of the work, what
  runs was judged by the gate.
- **`generation_composer`**: Stop while a reply is starting empties the slot, and the
  window, which returns early on an empty slot (`ui/mod.rs:3304`), never reaches the arm that
  resets `awaiting_reply`: the composer takes no prompt until some turn is retried or
  regenerated. `tests/conversation_ux.rs:141` calls cancel "always safe".
- **`maintenance_close`**: closing the workspace publishes empty snapshots "so
  conversation does not keep a stale snapshot" (`boot.rs:3687`), and a job that was at work then
  stores its older snapshot over them, for as long as the workspace stays closed.

The models show more of these, which have no run. Each can be reproduced by stating the
formula as an invariant, or as a property, of the module named.

- `ReasoningStream`, `answer # "cancelled"`: `ConversationStream::retry` reuses the request
  with its cancellation token, so after a stop, a timeout, or of a running stream the new
  attempt is refused as cancelled (`conversation_stream.rs:233`: "Retry / reconnect
  after failure or cancel"). In `Generation` the consequence is the stream `"dead"`: a Retry
  while a reply streams leaves the slot full, and Stop does not empty it, which is
  why `RepliesEnd` excepts it.
- `ReasoningStream`, `answer = "started" => IsPrefix(kept, text)`: a retry that keeps the partial
  text loses it to the new attempt's (`conversation_stream.rs:235`).
- `ReasoningStream`, `call = "expire" => reader[open] # "reading"`: the poll at the deadline waits
  for a lock that is held across a blocking read (`engine.rs:760`: "never waits on provider I/O").
- `Planner`, `\A p \in asked : ran[p] > 0 /\ Owners(p) = {} => \E r \in approvals : r.plan = p`: a tool
  of an approved plan fails, `resume_paused` leaves through `?`, and no approval is
  recorded (`docs/planner.md:343`: every Approve is recorded). What is recorded is
  true: `ApprovalsAreTrue` holds.
- `Planner`, `(\A t \in Threads : Free(t)) => conv # "Executing"`: the same early return skips the
  phase change, and the conversation shows Executing with nothing running
  (`conversation_state.rs:37`).
- `ContextMaintenance`, `<>[](\A k \in CodingKinds : jobs[k] = <<>>)` under `FairSpec`: the pump takes the
  workspace's flag and leaves the editor's, schedules both kinds, and the one still in flight
  sets its flag again; the refreshes of the coding state may go on for ever although nothing
  changes (`boot.rs:768`; `docs/context-maintenance.md:108`: further schedules are run
  "after completion").
- `ContextMaintenance`, `RequestsAreServed` and `SnapshotsMoveOn` with `k \notin cut` for `Undisturbed(k)`,
  on the instance of the run `maintenance`: a thread copies the coding state, is overtaken by a
  request of the window whose job ends, and then starts a job from its older copy, which
  replaces the newer snapshot with no mark or flag left to mend it (`boot.rs:786-789`, `845-886`, `621-650`;
  `context_maintenance.rs:195`: "Inputs captured on the main thread before spawning a background job").
  With the window alone (`Requests = 0`) both hold.
- `MonacoHost`, `ViewIsBuffer`: a key typed in the page crosses a document the host pushed (after a
  Replace All, a change of editor options, or a tab left and entered again). The page runs
  the script and loses the key, then the host receives the message, takes it for the
  buffer, and notes it as what it last pushed (`note_external_edit`): page and buffer differ and
  nothing pushes again (`monaco_host.rs:4`: "Rust CodingState remains the source of truth",
  "Monaco is a view"). `crossed` in the properties is exactly this case.
- `OpenEditors`, `\A p \in Live : IsInjective(panes[p].tabs)`: split, delete a file whose tab is only in
  the pane without the focus (`delete_coding_path` closes the focused pane's tab), rename another
  open file to its name: `remap_path` overwrites the buffer that was left, unsaved edits
  with it, and one pane has two tabs of one path. `UnsavedIsKept` excepts renames.

Read off the code beside the models: the comment in `sync_monaco` that every message
"originates from that pane" does not hold for messages on their way at a change of
tab; what the page calls Save names a path that the host ignores; positions are reported by timers
that read the path when they fire; a dirty tab is closed without a question; tools that write an
open file do not refresh its buffer.

## What is not modelled

- Within the modelled components: what a decision, an intent, a route or a modified
  tool input is computed from; contents of cards, previews, summaries and reports;
  `set_pause_ttl`; model preference; poisoned locks (a panic while a mutex is
  held); `ReasoningEngine::complete` with its timeout worker, provider selection
  and health; prompt building; metrics; HTTP and JSON.
- In `Generation`: timelines and thinking notes, persistence of turns, commands that are
  answered without a generation; the conversation phase (`Planner` has it).
- In `ContextMaintenance`: what a snapshot holds and how it is merged into a session,
  spawn failures, `close_project` (it asks for the coding kinds and publishes the
  empty project and runtime, steps that `Edit` and `Close` make too).
- In `OpenEditors` and `MonacoHost`: preview tabs, the split tree's shape and sizes, cursors,
  selections, scrolling, folds, renames and deletions in the Explorer while the view is shown, recent lists, language server requests and markers, theme and
  options, bounds and keyboard focus of the view, the search panel.
- The vendored Monaco editor (`assets/monaco/vs`, minified JavaScript): third-party code,
  taken as a text model that reports each change with its whole text.
- What the tools do to the disk: a tool call succeeds or fails (`OpenEditors` has the writes).
- Components without state or concurrency of their own: planner decisions, coding
  reports, parsers, knowledge, commands, configuration, logging, rendering.
- Components that are planned: next section.

## The plan

In order of importance. Each module is written with its properties, then checked,
then proved about where that is within reach. What the runs check of the modules there
are is proved, except for liveness.

1. **`Generation` composed with `Planner`**, for the phase properties
   that need the hosts: a paused plan shows as WaitingForReview, and WaitingForReview
   has a paused plan.
2. **Cursors and scrolling** in `MonacoHost`, with the timers of the page; the language
   server session (versions, pairing of requests, the 8 s timeout).
3. **The embedding queue, the watcher, the active project, promotion of memories,
   migrations**, as far as each has behaviour worth a run.

Abstract specification worth stating next: the reply log of a conversation, for
`Generation` over `ReasoningStream`.
