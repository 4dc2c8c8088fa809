------------------------------ MODULE Generation ------------------------------
(***************************************************************************)
(* The generation slot of the application (apps/jaymi/src/boot.rs): how one *)
(* request after another gets its reply into the transcript.                *)
(*                                                                         *)
(* Two kinds of threads.  The user interface sends, pumps once per frame,   *)
(* stops, retries, regenerates, answers Review Cards and opens other        *)
(* conversations; its calls run to their end one after another.  A worker   *)
(* per request prepares it, opens the reply's stream or, when there is none *)
(* to open, finishes the request itself (tools, a plan paused for review),  *)
(* and sends the outcome to the slot, if the slot still waits for it.       *)
(*                                                                         *)
(* The reply's stream is here what ReasoningStream shows it to be: tokens,  *)
(* then one terminal event.  The conversation phase is written by these     *)
(* handlers and read by none; Planner has it.                               *)
(***************************************************************************)
EXTENDS Naturals, Sequences, FiniteSets, SequencesExt

CONSTANTS
  MaxGenerations,  \* bound: requests sent
  MaxSwitches,     \* bound: conversations opened
  MaxTurns,        \* bound: a plan is modified only in a transcript this short
  Stored           \* the transcripts the store may answer, as roles

ASSUME GenerationAssumption ==
  /\ MaxGenerations \in Nat \ {0} /\ MaxSwitches \in Nat /\ MaxTurns \in Nat
  /\ Stored \subseteq Seq({"user", "assistant"})

Generations == 1 .. MaxGenerations
Nobody == 0   \* who wrote and asked what no generation did

VARIABLES
  turns,     \* the transcript of the experience session
  sent,      \* requests sent
  slot,      \* active_generation: [at, gen, turn]
  inbox,     \* the channel of the start in the slot
  stream,    \* the stream in the slot
  stopped,   \* its cancellation token
  worker,    \* where the worker of each request is
  gaveUp,    \* the cancel flag each worker was given
  plans,     \* the requests whose plan is paused for review
  awaiting,  \* the window waits for a reply (awaiting_reply)
  moved,     \* history: the transcript was replaced while the slot was full
  switches   \* conversations opened

slotVars == <<slot, inbox, stream, stopped>>
vars == <<turns, sent, slot, inbox, stream, stopped, worker, gaveUp, plans,
          awaiting, moved, switches>>

Spinning == {"Thinking", "Streaming"}
Ends == {"Completed", "Cancelled", "Failed"}

(* gen: the request a turn belongs to; by: whose words it holds, nobody's   *)
(* when it is blank; card: the request whose plan its Review Card shows.    *)
Turns == [role : {"user", "assistant"}, gen : 0 .. MaxGenerations,
          life : Spinning \cup Ends \cup {"none"},
          by : SUBSET (0 .. MaxGenerations), card : 0 .. MaxGenerations]

Turn(role, g) ==
  [role |-> role, gen |-> g, life |-> "none", by |-> {g}, card |-> Nobody]

Empty == [at |-> "empty", gen |-> Nobody, turn |-> 0]
Full == slot.at # "empty"
g0 == slot.gen

(* An outcome: the stream is open, the start failed, or the worker has the  *)
(* response (what it says, or nothing, or the card of the plan it paused).  *)
Outcomes == [gen : Generations, kind : {"ready", "failed", "said", "silent", "paused"}]

Running == {"begun", "preparing", "opening", "falling"}

(* Types; and what a worker tells is there only while its start is awaited. *)
TypeOK ==
  /\ turns \in Seq(Turns)
  /\ sent \in 0 .. MaxGenerations
  /\ slot \in [at : {"empty", "starting", "active"}, gen : 0 .. MaxGenerations, turn : Nat]
  /\ inbox \in Seq(Outcomes) /\ Len(inbox) <= 1
  /\ inbox # <<>> => slot.at = "starting"
  /\ stream \in {"none", "thinking", "streaming", "Completed", "Failed", "dead"}
  /\ stopped \in BOOLEAN /\ awaiting \in BOOLEAN /\ moved \in BOOLEAN
  /\ worker \in [Generations -> Running \cup {"none", "done"}]
  /\ gaveUp \in [Generations -> BOOLEAN]
  /\ plans \subseteq Generations
  /\ switches \in 0 .. MaxSwitches

-----------------------------------------------------------------------------
(* ExperienceSession.  An index that is out of range changes nothing: the   *)
(* error is dropped by every caller.                                        *)

Update(i, t) == IF i \in DOMAIN turns THEN [turns EXCEPT ![i] = t] ELSE turns

Finalized(i, g, l) == Update(i, [turns[i] EXCEPT !.by = {g}, !.life = l])

WithToken(i, g) ==
  IF i \in DOMAIN turns /\ turns[i].role = "assistant"
    THEN Update(i, [turns[i] EXCEPT !.by = @ \cup {g},
                      !.life = IF @ = "Completed" THEN @ ELSE "Streaming"])
    ELSE turns

WithLife(i, l) == Update(i, [turns[i] EXCEPT !.life = l])

Reset(i) ==
  IF i \in DOMAIN turns /\ turns[i].role = "assistant"
    THEN Update(i, [turns[i] EXCEPT !.by = {}, !.life = "Thinking"])
    ELSE turns

(* The transcript ts without its last turn of a role.                       *)
WithoutLast(ts, role) ==
  LET i == SelectLastInSeq(ts, LAMBDA t : t.role = role)
  IN  IF i = 0 THEN ts ELSE RemoveAt(ts, i)

-----------------------------------------------------------------------------
(* begin_user_request, on a transcript: the user's turn, the turn of the    *)
(* reply, the slot, the worker.                                             *)
Begin(ts) ==
  /\ sent < MaxGenerations
  /\ sent' = sent + 1
  /\ turns' = ts \o <<Turn("user", sent'),
                      [Turn("assistant", sent') EXCEPT !.life = "Thinking", !.by = {}]>>
  /\ slot' = [at |-> "starting", gen |-> sent', turn |-> Len(turns')]
  /\ inbox' = <<>> /\ stream' = "none" /\ stopped' = FALSE
  /\ worker' = [worker EXCEPT ![sent'] = "begun"]
  /\ awaiting' = TRUE
  /\ moved' = FALSE
  /\ UNCHANGED <<gaveUp, plans, switches>>

(* send_prompt, and a quick action of the coding workspace                  *)
Send ==
  /\ ~awaiting /\ ~Full
  /\ Begin(turns)

(* What Regenerate and Retry are offered on (turn_actions).                 *)
Offered(ends) ==
  \E i \in DOMAIN turns : turns[i].role = "assistant" /\ turns[i].life \in ends

(* regenerate_response: the last reply goes, and the last request is sent   *)
(* again.                                                                   *)
Regenerate ==
  /\ Offered(Ends \cup {"none"})
  /\ ~Full
  /\ \E i \in DOMAIN turns : turns[i].role = "user"
  /\ Begin(WithoutLast(WithoutLast(turns, "assistant"), "user"))

(* ... is refused while a reply is under way, or with nothing to send.      *)
RegenerateRefused ==
  /\ Offered(Ends \cup {"none"})
  /\ Full \/ \A i \in DOMAIN turns : turns[i].role # "user"
  /\ awaiting' = FALSE
  /\ UNCHANGED <<turns, sent, slotVars, worker, gaveUp, plans, moved, switches>>

(* switch_to_conversation: whatever the slot does, the transcript is now    *)
(* the stored one.                                                          *)
Switch ==
  /\ switches < MaxSwitches
  /\ switches' = switches + 1
  /\ \E roles \in Stored :
       turns' = [i \in DOMAIN roles |-> Turn(roles[i], Nobody)]
  /\ moved' = Full
  /\ UNCHANGED <<sent, slotVars, worker, gaveUp, plans, awaiting>>

(* Seeded fault: a card that was answered leaves the transcript.            *)
ReviewTakesCard ==
  \E i \in DOMAIN turns :
    /\ turns[i].card # Nobody
    /\ turns' = RemoveAt(turns, i)
    /\ plans' = plans \ {turns[i].card}
    /\ UNCHANGED <<sent, slotVars, worker, gaveUp, awaiting, moved, switches>>

(* submit_review of a card: the gesture is appended as a turn of the user,  *)
(* and the answer, if there is one, as a turn of the assistant.  A modified *)
(* plan has a new card; an approved one that fails has no answer, nor has   *)
(* one that is no longer paused.                                            *)
Review ==
  \E i \in DOMAIN turns :
    LET g == turns[i].card
        shown == Append([turns EXCEPT ![i].card = Nobody], Turn("user", Nobody))
        Answered(card) == Append(shown, [Turn("assistant", Nobody) EXCEPT !.card = card])
    IN  /\ g # Nobody
        /\ \/ /\ turns' = shown
              /\ plans' = plans \ {g}
           \/ /\ g \in plans
              /\ turns' = Answered(Nobody)
              /\ plans' = plans \ {g}
           \/ /\ g \in plans /\ Len(turns) < MaxTurns
              /\ turns' = Answered(g)
              /\ UNCHANGED plans
        /\ UNCHANGED <<sent, slotVars, worker, gaveUp, awaiting, moved, switches>>

-----------------------------------------------------------------------------
(* The worker (run_generation_start).                                       *)

(* Seeded fault: one channel for all workers.                               *)
TellSlot(g, kind) == inbox' = <<[gen |-> g, kind |-> kind]>>

(* The channel of a start that left the slot is gone.                       *)
Tell(g, kind) ==
  inbox' = IF slot.at = "starting" /\ g0 = g THEN <<[gen |-> g, kind |-> kind]>> ELSE inbox

WorkerUnchanged == UNCHANGED <<turns, sent, slot, stream, stopped, gaveUp,
                               awaiting, moved, switches>>

(* The flag is looked at before the host is prepared, before the stream is  *)
(* opened, and after it was opened or could not be.                         *)
WorkerStops(g) ==
  /\ worker[g] \in {"begun", "preparing", "opening"} /\ gaveUp[g]
  /\ worker' = [worker EXCEPT ![g] = "done"]
  /\ UNCHANGED <<inbox, plans>>
  /\ WorkerUnchanged

WorkerPrepares(g) ==
  /\ worker[g] = "begun" /\ ~gaveUp[g]
  /\ worker' = [worker EXCEPT ![g] = "preparing"]
  /\ UNCHANGED <<inbox, plans>>
  /\ WorkerUnchanged

(* begin_conversational_assemble cancels the plans that are paused.         *)
WorkerOpens(g) ==
  /\ worker[g] = "preparing" /\ ~gaveUp[g]
  /\ worker' = [worker EXCEPT ![g] = "opening"]
  /\ plans' = {}
  /\ UNCHANGED inbox
  /\ WorkerUnchanged

WorkerIsReady(g) ==
  /\ worker[g] = "opening" /\ ~gaveUp[g]
  /\ worker' = [worker EXCEPT ![g] = "done"]
  /\ Tell(g, "ready")
  /\ UNCHANGED plans
  /\ WorkerUnchanged

(* No stream to open: soft_or_tool_generation_fallback, which assembles      *)
(* again and from here on does not look at the flag.                        *)
WorkerFallsBack(g) ==
  /\ worker[g] = "opening" /\ ~gaveUp[g]
  /\ worker' = [worker EXCEPT ![g] = "falling"]
  /\ plans' = {}
  /\ UNCHANGED inbox
  /\ WorkerUnchanged

WorkerAnswers(g) ==
  /\ worker[g] = "falling"
  /\ worker' = [worker EXCEPT ![g] = "done"]
  /\ \/ /\ Tell(g, "said") \/ Tell(g, "silent")
        /\ UNCHANGED plans
     \/ /\ Tell(g, "paused")
        /\ plans' = plans \cup {g}
  /\ WorkerUnchanged

(* Seeded fault: a worker that fails tells nobody.                          *)
WorkerDies(g) ==
  /\ worker[g] \in Running
  /\ worker' = [worker EXCEPT ![g] = "done"]
  /\ UNCHANGED <<inbox, plans>>
  /\ WorkerUnchanged

(* The preparation or the fallback fails, or the thread panics: a channel   *)
(* that was hung up is treated as a failure.                                *)
WorkerFails(g) ==
  /\ worker[g] \in Running
  /\ worker' = [worker EXCEPT ![g] = "done"]
  /\ Tell(g, "failed")
  /\ UNCHANGED plans
  /\ WorkerUnchanged

-----------------------------------------------------------------------------
(* pump_generation, as the window calls it (pump_active_generation): not at *)
(* all while the slot is empty.                                             *)

PumpUnchanged == UNCHANGED <<sent, worker, gaveUp, plans, moved, switches>>

SlotCleared ==
  /\ slot' = Empty
  /\ inbox' = <<>> /\ stream' = "none" /\ stopped' = FALSE
  /\ awaiting' = FALSE

(* Nothing has come.                                                        *)
PumpNothing ==
  /\ Full
  /\ awaiting' = TRUE
  /\ UNCHANGED <<turns, slotVars>>
  /\ PumpUnchanged

Arrived(kind) == slot.at = "starting" /\ inbox # <<>> /\ Head(inbox).kind = kind

PumpReady ==
  /\ Arrived("ready")
  /\ slot' = [slot EXCEPT !.at = "active"]
  /\ inbox' = <<>> /\ stream' = "thinking" /\ awaiting' = TRUE
  /\ UNCHANGED <<turns, stopped>>
  /\ PumpUnchanged

(* install_failed_generation *)
PumpFailed ==
  /\ Arrived("failed")
  /\ turns' = Finalized(slot.turn, g0, "Failed")
  /\ SlotCleared
  /\ PumpUnchanged

IsPlaceholder(i) ==
  i \in DOMAIN turns /\ turns[i].role = "assistant" /\ turns[i].by = {}

Response == [Turn("assistant", g0) EXCEPT !.by = {Head(inbox).gen}]

(* The turn of a response keeps the lifecycle of the reply the worker made. *)
Responses == {[Response EXCEPT !.life = l] : l \in Ends \cup {"none"}}

(* Seeded fault: the response of a paused plan is shown without its card.   *)
InstallWithoutCard ==
  LET ts == IF IsPlaceholder(slot.turn) THEN RemoveAt(turns, slot.turn) ELSE turns IN
    /\ \/ Arrived("said")   /\ \E t \in Responses : turns' = Append(ts, t)
       \/ Arrived("silent") /\ turns' = ts
       \/ Arrived("paused") /\ turns' = Append(ts, Response)
    /\ SlotCleared
    /\ PumpUnchanged

(* install_completed_generation: the response takes the place of the blank  *)
(* turn, at the end of the transcript; one that says nothing takes none.    *)
PumpCompleted ==
  LET ts == IF IsPlaceholder(slot.turn) THEN RemoveAt(turns, slot.turn) ELSE turns IN
    /\ \/ Arrived("said")   /\ \E t \in Responses : turns' = Append(ts, t)
       \/ Arrived("silent") /\ turns' = ts
       \/ Arrived("paused") /\ turns' = Append(ts, [Response EXCEPT !.card = g0])
    /\ SlotCleared
    /\ PumpUnchanged

(* Events of the open stream.                                               *)
PumpTokens ==
  /\ slot.at = "active" /\ stream \in {"thinking", "streaming"} /\ ~stopped
  /\ turns' = WithToken(slot.turn, g0)
  /\ stream' = "streaming" /\ awaiting' = TRUE
  /\ UNCHANGED <<slot, inbox, stopped>>
  /\ PumpUnchanged

(* A pump takes 24 events: the lifecycle that announces the end may be the  *)
(* last of one, and the end itself the first of the next.                   *)
Announced == stream \in {"Completed", "Failed"}

PumpAnnouncesEnd ==
  /\ slot.at = "active" /\ stream \in {"thinking", "streaming"} /\ ~stopped
  /\ stream' \in {"Completed", "Failed"}
  /\ turns' = WithLife(slot.turn, stream')
  /\ awaiting' = TRUE
  /\ UNCHANGED <<slot, inbox, stopped>>
  /\ PumpUnchanged

EndsAs ==
  IF Announced THEN {stream}
  ELSE IF stopped THEN {"Cancelled"} ELSE {"Completed", "Failed"}

(* Seeded fault: the slot is left full after the terminal event.            *)
PumpEndsOnly ==
  /\ slot.at = "active" /\ stream \notin {"none", "dead"}
  /\ \E l \in EndsAs : turns' = Finalized(slot.turn, g0, l)
  /\ awaiting' = FALSE
  /\ UNCHANGED slotVars
  /\ PumpUnchanged

(* The terminal event.  A stop ends the reply as cancelled, unless its end  *)
(* was announced before.                                                    *)
PumpEnds ==
  /\ slot.at = "active" /\ stream \notin {"none", "dead"}
  /\ \E l \in EndsAs : turns' = Finalized(slot.turn, g0, l)
  /\ SlotCleared
  /\ PumpUnchanged

-----------------------------------------------------------------------------
(* cancel_generation: Esc and the Stop button.                              *)

UserUnchanged == UNCHANGED <<sent, worker, plans, moved, switches>>

(* Seeded fault: the worker is not told.                                    *)
StopStartQuietly ==
  /\ slot.at = "starting"
  /\ slot' = Empty /\ inbox' = <<>>
  /\ turns' = Finalized(slot.turn, g0, "Cancelled")
  /\ UNCHANGED <<gaveUp, stream, stopped, awaiting>>
  /\ UserUnchanged

(* Seeded fault: the turn is left as it is.                                 *)
StopStartForgets ==
  /\ slot.at = "starting"
  /\ slot' = Empty /\ inbox' = <<>>
  /\ gaveUp' = [gaveUp EXCEPT ![g0] = TRUE]
  /\ UNCHANGED <<turns, stream, stopped, awaiting>>
  /\ UserUnchanged

StopStart ==
  /\ slot.at = "starting"
  /\ slot' = Empty /\ inbox' = <<>>
  /\ gaveUp' = [gaveUp EXCEPT ![g0] = TRUE]
  /\ turns' = Finalized(slot.turn, g0, "Cancelled")
  /\ UNCHANGED <<stream, stopped, awaiting>>
  /\ UserUnchanged

StopReply ==
  /\ slot.at = "active"
  /\ stopped' = TRUE
  /\ UNCHANGED <<turns, slot, inbox, stream, gaveUp, awaiting>>
  /\ UserUnchanged

(* retry_generation, on any turn that was cancelled or failed: it retries   *)
(* the stream in the slot, whichever turn that one writes.                  *)

RetryUnchanged == UNCHANGED <<sent, slot, inbox, stopped, worker, gaveUp, plans,
                              moved, switches>>

(* A running stream is cancelled by its own retry (ReasoningStream,         *)
(* RetryDrained), one that has ended is refused when it was stopped, or by  *)
(* the provider: nothing more will come of it.                              *)
RetryKillsReply ==
  /\ slot.at = "active" /\ Offered({"Cancelled", "Failed"})
  /\ stream' = "dead"
  /\ awaiting' = FALSE
  /\ UNCHANGED turns
  /\ RetryUnchanged

(* Seeded fault: the turn the user chose is reset, not the stream's.        *)
RetryResetsChosen ==
  /\ slot.at = "active" /\ Offered({"Cancelled", "Failed"})
  /\ Announced /\ ~stopped
  /\ stream' = "thinking"
  /\ \E i \in DOMAIN turns : /\ turns[i].life \in {"Cancelled", "Failed"}
                             /\ turns' = Reset(i)
  /\ awaiting' = TRUE
  /\ RetryUnchanged

(* A stream whose end was announced starts again, if the provider likes,    *)
(* or ends with an error the next poll reports.                             *)
RetryRestarts ==
  /\ slot.at = "active" /\ Offered({"Cancelled", "Failed"})
  /\ Announced /\ ~stopped
  /\ stream' = "thinking"
  /\ \/ turns' = Reset(slot.turn) /\ awaiting' = TRUE
     \/ UNCHANGED turns /\ awaiting' = FALSE
  /\ RetryUnchanged

(* With an empty slot Retry is Regenerate.                                  *)
RetryRefused ==
  /\ slot.at = "starting" /\ Offered({"Cancelled", "Failed"})
  /\ awaiting' = FALSE
  /\ UNCHANGED <<turns, stream>>
  /\ RetryUnchanged

-----------------------------------------------------------------------------
Init ==
  /\ turns = <<>> /\ sent = 0
  /\ slot = Empty /\ inbox = <<>> /\ stream = "none" /\ stopped = FALSE
  /\ worker = [g \in Generations |-> "none"]
  /\ gaveUp = [g \in Generations |-> FALSE]
  /\ plans = {}
  /\ awaiting = FALSE /\ moved = FALSE /\ switches = 0

User == \/ Send \/ Regenerate \/ RegenerateRefused \/ Switch \/ Review
        \/ StopStart \/ StopReply
        \/ RetryKillsReply \/ RetryRestarts \/ RetryRefused

Installs == PumpReady \/ PumpFailed \/ PumpCompleted

Pump == PumpNothing \/ Installs \/ PumpTokens \/ PumpAnnouncesEnd \/ PumpEnds

Works(g) == \/ WorkerStops(g) \/ WorkerPrepares(g) \/ WorkerOpens(g)
            \/ WorkerIsReady(g) \/ WorkerFallsBack(g) \/ WorkerAnswers(g)
            \/ WorkerFails(g)

Next == User \/ Pump \/ \E g \in Generations : Works(g)

Spec == Init /\ [][Next]_vars

(* The window pumps every frame; a worker's calls return; a reply's attempt *)
(* ends, as ReasoningStream shows.  The user need not do anything.          *)
FairSpec ==
  /\ Spec
  /\ WF_vars(Installs)
  /\ WF_vars(PumpEnds)
  /\ \A g \in Generations : WF_vars(Works(g))

-----------------------------------------------------------------------------
(* What the properties are about.                                           *)

(* The index the slot keeps is that of the turn begun for its request, as   *)
(* long as the transcript is the one the turn was begun in: replies, Review *)
(* answers, regenerations and workers given up do not displace it.          *)
ReplyHasItsTurn ==
  /\ TypeOK
  /\ Full /\ ~moved =>
       /\ slot.turn \in DOMAIN turns
       /\ turns[slot.turn].role = "assistant" /\ turns[slot.turn].gen = g0
       /\ slot.at = "starting" => IsPlaceholder(slot.turn)

(* A turn that is Thinking or Streaming is the one the slot writes, and      *)
(* somebody is left to write it, whatever was stopped, failed or opened      *)
(* meanwhile: the worker, untold, or what it told; or the stream.  The       *)
(* stream a retry killed counts, and never ends its turn (RetryKillsReply).  *)
SpinnerHasOwner ==
  \A i \in DOMAIN turns : turns[i].life \in Spinning =>
    /\ slot.turn = i
    /\ \/ /\ slot.at = "starting"
          /\ inbox # <<>> \/ (worker[g0] \in Running /\ ~gaveUp[g0])
       \/ slot.at = "active" /\ stream \in {"thinking", "streaming", "dead"}

(* A request gets one reply, not a placeholder and a response, and the      *)
(* reply holds the words of its own request, whichever worker or stream     *)
(* finishes first.                                                          *)
RepliesAreOwn ==
  \A i \in DOMAIN turns : turns[i].gen # Nobody =>
    /\ turns[i].by \subseteq {turns[i].gen}
    /\ \A j \in DOMAIN turns :
         turns[j].gen = turns[i].gen /\ turns[j].role = turns[i].role => j = i

(* A worker that works on, although the slot no longer waits for it, was    *)
(* told to stop.                                                            *)
StrayWorkersWereTold ==
  \A g \in Generations :
    worker[g] \in Running /\ ~(slot.at = "starting" /\ g0 = g) => gaveUp[g]

(* The plan the last request paused has its Review Card in the transcript,  *)
(* or on its way there.  It has none when that request was stopped while it *)
(* started, nor in a conversation opened since.                             *)
PausedPlanIsShown ==
  switches = 0 =>
    \A g \in plans : g = sent /\ ~gaveUp[g] =>
      \/ \E i \in DOMAIN turns : turns[i].card = g
      \/ Arrived("paused")

(* What a reply said in the end stays as it is while other replies come,    *)
(* stop and fail.                                                           *)
FinishedTurnsStay ==
  [][sent' = sent /\ switches' = switches /\ ~(Full /\ moved) =>
       \A i \in DOMAIN turns :
         turns[i].life \in Ends /\ ~(Full /\ slot.turn = i)
           => i \in DOMAIN turns' /\ turns'[i] = [turns[i] EXCEPT !.card = turns'[i].card]]_vars

(* Every start comes to something: the slot does not wait for a worker that *)
(* failed or was given up.                                                  *)
StartsEnd == slot.at = "starting" ~> slot.at # "starting"

(* Every reply ends and leaves the slot free, unless a retry came while it  *)
(* was being written: then the slot stays full, and Stop does not empty it. *)
RepliesEnd == slot.at = "active" ~> ~Full \/ stream = "dead"

(* The composer takes a prompt again once nothing is being generated.       *)
ComposerIsFree == awaiting => Full

==============================================================================
