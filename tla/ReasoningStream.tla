--------------------------- MODULE ReasoningStream ---------------------------
(***************************************************************************)
(* One conversational reply as it streams: ConversationStream over          *)
(* StreamingResponse of crates/jaymi-reasoning, over a provider stream that *)
(* behaves as crates/jaymi-reasoning-ollama's does.                         *)
(*                                                                         *)
(* Three parties meet here.                                                *)
(*   The host, one thread: it pumps (try_pump), stops (cancel) and retries  *)
(*   the reply, and shows its events in a turn of the transcript.  call     *)
(*   says whether it is inside a call that waits for the provider's lock.   *)
(*   One reader thread per attempt: it takes the lock, reads one chunk      *)
(*   while it holds the lock, and sends it to the inbox.                    *)
(*   The provider, which answers a read with any chunk, its end, an error.  *)
(* An action of the host is one call, up to the point where it waits.       *)
(***************************************************************************)
EXTENDS Naturals, Sequences, SequencesExt

CONSTANTS
  MaxAttempts,  \* bound: attempts made for one request
  MaxTokens     \* bound: tokens a provider produces in one attempt

ASSUME BoundsAssumption == MaxAttempts \in Nat \ {0} /\ MaxTokens \in Nat

Attempts == 1 .. MaxAttempts
None == 0

VARIABLES
  token,     \* request.cancellation, shared by every attempt and provider
  late,      \* the deadline of the open attempt has passed
  (* ConversationStream *)
  attempt,   \* attempts made
  life,      \* lifecycle
  shown,     \* last_emitted_lifecycle
  text,      \* accumulated
  finished,
  pending,   \* the chunk held back behind its lifecycle event (0 or 1)
  fallback,  \* complete_fallback holds a response, whose content is text
  (* StreamingResponse *)
  open,      \* the attempt self.inner belongs to, or None
  inner,     \* its own lifecycle, text and finished
  inbox,     \* what its reader has sent
  reader,    \* where the reader of each attempt is
  (* the host *)
  call,      \* the call that waits for the provider's lock, or "ready"
  turn,      \* the assistant turn of the transcript
  answer,    \* how the last retry was answered
  (* history *)
  sent,      \* the tokens the provider produced in each attempt
  kept       \* what the turn showed when a retry that keeps it began

streamVars == <<attempt, life, shown, text, finished, pending, fallback>>
hostVars   == <<call, turn, answer, kept>>
vars == <<token, late, attempt, life, shown, text, finished, pending, fallback,
          open, inner, inbox, reader, call, turn, answer, sent, kept>>

Lifecycles == {"Idle", "Thinking", "Streaming", "Cancelled", "Completed", "Failed"}
Active == {"Thinking", "Streaming"}

(* The lifecycle a terminal chunk ends in.  The reader's messages are the   *)
(* chunks, Ended (the provider returned no chunk) and Error.  This provider *)
(* answers a cancel with a chunk, never with the error Cancelled.           *)
EndOf == [completed |-> "Completed", cancelled |-> "Cancelled", failed |-> "Failed"]
Terminal == DOMAIN EndOf
Messages == [kind : Terminal \cup {"thought", "token", "ended", "error"},
             text : Seq(Attempts \X (1 .. MaxTokens))]

Message(kind) == [kind |-> kind, text |-> <<>>]
Fresh == [life |-> "Thinking", text |-> <<>>, finished |-> FALSE]

Texts == UNION {[1 .. n -> Attempts \X (1 .. MaxTokens)] : n \in 0 .. MaxTokens}

(* Types.  What a turn shows may join the texts of two attempts.            *)
TypeOK ==
  /\ token \in BOOLEAN /\ late \in BOOLEAN
  /\ attempt \in Attempts /\ open \in Attempts \cup {None}
  /\ life \in Lifecycles /\ shown \in Lifecycles
  /\ text \in Texts
  /\ finished \in BOOLEAN /\ fallback \in BOOLEAN
  /\ pending \in Seq(Messages) /\ Len(pending) <= 1
  /\ inner \in [life : Lifecycles, text : Texts, finished : BOOLEAN]
  /\ inbox \in Seq(Messages)
  /\ reader \in [Attempts -> {"none", "looping", "reading", "closing", "gone"}]
  /\ call \in {"ready", "cancel", "expire", "retry", "retryKeeping"}
  /\ turn \in [text : Seq(Attempts \X (1 .. MaxTokens)), life : Lifecycles, over : BOOLEAN]
  /\ answer \in {"none", "started", "refused", "cancelled"}
  /\ sent \in [Attempts -> Texts]
  /\ kept \in Seq(Attempts \X (1 .. MaxTokens))

-----------------------------------------------------------------------------
(* The reader of an attempt (the thread of spawn_forwarding).  The provider *)
(* stream is in its slot until the reader is gone; an attempt whose thread  *)
(* could not be spawned keeps it for ever.  The reader holds the lock while *)
(* it reads and nowhere else that another party could notice.               *)

(* Seeded fault: the reader keeps the guard from one read to the next.      *)
HeldAcrossReads(a) == reader[a] \notin {"looping", "reading"}

LockFree(a) == reader[a] # "reading"
InSlot(a) == reader[a] # "gone"

(* The sender is dropped when the reader ends or was never spawned.         *)
Disconnected == reader[open] \in {"none", "gone"}

(* Thoughts carry nothing the model keeps: two in a row are as good as one. *)
Send(a, m) ==
  inbox' = IF open # a \/ (inbox # <<>> /\ m.kind = "thought" /\ Last(inbox) = m)
             THEN inbox ELSE Append(inbox, m)

ReaderCancels(a) ==
  /\ reader[a] = "looping" /\ token
  /\ Send(a, Message("cancelled"))
  /\ reader' = [reader EXCEPT ![a] = "gone"]
  /\ UNCHANGED <<token, late, streamVars, open, inner, hostVars, sent>>

ReaderReads(a) ==
  /\ reader[a] = "looping" /\ ~token
  /\ reader' = [reader EXCEPT ![a] = "reading"]
  /\ UNCHANGED <<token, late, streamVars, open, inner, inbox, hostVars, sent>>

(* next_chunk returns a chunk that goes on.  A receiver that was dropped    *)
(* ends the reader.                                                         *)
ReadContinues(a) ==
  /\ reader[a] = "reading"
  /\ \/ /\ Len(sent[a]) < MaxTokens
        /\ LET t == <<a, Len(sent[a]) + 1>> IN
             /\ Send(a, [kind |-> "token", text |-> <<t>>])
             /\ sent' = [sent EXCEPT ![a] = Append(@, t)]
     \/ /\ Send(a, Message("thought"))
        /\ UNCHANGED sent
  /\ reader' = [reader EXCEPT ![a] = IF open = a THEN "looping" ELSE "gone"]
  /\ UNCHANGED <<token, late, streamVars, open, inner, hostVars>>

(* next_chunk returns a terminal chunk, nothing or an error: the reader has *)
(* still to empty the slot.  A provider reports a cancel it was asked for.  *)
ReadEnds(a) ==
  /\ reader[a] = "reading"
  /\ \E kind \in {"completed", "failed", "ended", "error"}
                   \cup (IF token THEN {"cancelled"} ELSE {}) :
       Send(a, Message(kind))
  /\ reader' = [reader EXCEPT ![a] = "closing"]
  /\ UNCHANGED <<token, late, streamVars, open, inner, hostVars, sent>>

ReaderCloses(a) ==
  /\ reader[a] = "closing"
  /\ reader' = [reader EXCEPT ![a] = "gone"]
  /\ UNCHANGED <<token, late, streamVars, open, inner, inbox, hostVars, sent>>

DeadlinePasses ==
  /\ open # None /\ ~late
  /\ late' = TRUE
  /\ UNCHANGED <<token, streamVars, open, inner, inbox, reader, hostVars, sent>>

-----------------------------------------------------------------------------
(* The events of try_pump, as apply_stream_event writes them into the turn. *)

ShowLife(l) == turn' = [turn EXCEPT !.life = l]
ShowEnd(reply, l) == turn' = [text |-> reply, life |-> l, over |-> TRUE]

(* self.inner is dropped, and the inbox with it.                            *)
DropInner == open' = None /\ inbox' = <<>>

(* event_from_chunk on a chunk that leaves self.inner with the text reply   *)
(* and the inbox q.                                                         *)
Forward(c, reply, q) ==
  /\ text' = reply
  /\ \/ /\ c.kind \in Terminal
        /\ finished' = TRUE
        /\ DropInner
        /\ ShowEnd(reply, EndOf[c.kind])
     \/ /\ c.kind = "token"
        /\ turn' = [turn EXCEPT !.text = @ \o c.text,
                                !.life = IF @ = "Completed" THEN @ ELSE "Streaming"]
        /\ inbox' = q
        /\ UNCHANGED <<finished, open>>
     \/ /\ c.kind = "thought"
        /\ inbox' = q
        /\ UNCHANGED <<finished, open, turn>>

(* Seeded fault: the chunk is forwarded and the new lifecycle left to the   *)
(* next poll.                                                               *)
ReceiveTokenFirst(c, n, q) ==
  /\ inner' = n
  /\ life' = n.life
  /\ Forward(c, n.text, q)
  /\ UNCHANGED <<pending, shown>>

(* Seeded fault: a chunk that changes the lifecycle is not held back.       *)
ReceiveLosesFirst(c, n, q) ==
  /\ inner' = n
  /\ life' = n.life
  /\ \/ /\ n.life # shown
        /\ shown' = n.life
        /\ ShowLife(n.life)
        /\ text' = n.text
        /\ inbox' = q
        /\ UNCHANGED <<finished, open, pending>>
     \/ /\ n.life = shown
        /\ Forward(c, n.text, q)
        /\ UNCHANGED <<pending, shown>>

(* try_next_chunk answered Ready(c) and left self.inner as n, its inbox q.  *)
(* A changed lifecycle goes first and the chunk's own event waits.          *)
Receive(c, n, q) ==
  /\ inner' = n
  /\ life' = n.life
  /\ \/ /\ n.life # shown
        /\ pending' = <<c>>
        /\ shown' = n.life
        /\ ShowLife(n.life)
        /\ text' = n.text
        /\ inbox' = q
        /\ UNCHANGED <<finished, open>>
     \/ /\ n.life = shown
        /\ Forward(c, n.text, q)
        /\ UNCHANGED <<pending, shown>>

(* The attempt ends with no chunk to show: an error, or nothing is left.    *)
EndAttempt(l) ==
  /\ life' = l
  /\ text' = inner.text
  /\ finished' = TRUE
  /\ DropInner
  /\ ShowEnd(inner.text, l)
  /\ UNCHANGED <<shown, pending, inner>>

-----------------------------------------------------------------------------
(* try_pump, in the order of its tests.  A poll that answers Idle because   *)
(* the stream is over, or Pending because the inbox is empty, changes       *)
(* nothing.                                                                 *)

CanPump == call = "ready" /\ ~(finished /\ pending = <<>> /\ ~fallback)

PumpFallback ==
  /\ CanPump /\ fallback
  /\ fallback' = FALSE
  /\ finished' = TRUE
  /\ life' = "Completed"
  /\ ShowEnd(text, "Completed")
  /\ UNCHANGED <<token, late, attempt, shown, text, pending, open, inner, inbox,
                 reader, call, answer, sent, kept>>

PumpLifecycle ==
  /\ CanPump /\ ~fallback /\ life # shown
  /\ shown' = life
  /\ ShowLife(life)
  /\ UNCHANGED <<token, late, attempt, life, text, finished, pending, fallback,
                 open, inner, inbox, reader, call, answer, sent, kept>>

PumpPending ==
  /\ CanPump /\ ~fallback /\ life = shown /\ pending # <<>>
  /\ Forward(Head(pending), text, inbox)
  /\ pending' = <<>>
  /\ UNCHANGED <<token, late, attempt, life, shown, fallback, inner, reader,
                 call, answer, sent, kept>>

PumpNothing ==
  /\ CanPump /\ ~fallback /\ life = shown /\ pending = <<>> /\ open = None
  /\ finished' = TRUE
  /\ UNCHANGED <<token, late, attempt, life, shown, text, pending, fallback,
                 open, inner, inbox, reader, hostVars, sent>>

CanPoll ==
  CanPump /\ ~fallback /\ life = shown /\ pending = <<>> /\ open # None

PollUnchanged == UNCHANGED <<token, late, attempt, fallback, reader, call,
                             answer, sent, kept>>

(* emit_cancelled *)
Stopped == [inner EXCEPT !.life = "Cancelled", !.finished = TRUE]

PollCancelled ==
  /\ CanPoll /\ ~inner.finished /\ token
  /\ Receive(Message("cancelled"), Stopped, inbox)
  /\ PollUnchanged

(* The deadline: the host waits for the lock, to cancel the provider.       *)
PollLate ==
  /\ CanPoll /\ ~inner.finished /\ ~token /\ late
  /\ call' = "expire"
  /\ UNCHANGED <<token, late, streamVars, open, inner, inbox, reader, turn,
                 answer, sent, kept>>

(* Seeded fault: the token is not looked at before the inbox.               *)
ReceivesAlthoughStopped == CanPoll /\ ~inner.finished /\ ~late

CanReceive == CanPoll /\ ~inner.finished /\ ~token /\ ~late

(* observe_chunk *)
Observed(c) ==
  [life |-> CASE c.kind = "token"      -> "Streaming"
              [] c.kind \in Terminal   -> EndOf[c.kind]
              [] OTHER                 -> inner.life,
   text |-> inner.text \o c.text,
   finished |-> c.kind \in Terminal]

(* Seeded fault: the newest chunk first.                                    *)
PollNewestChunk ==
  /\ CanReceive /\ inbox # <<>>
  /\ Last(inbox).kind \in Terminal \cup {"thought", "token"}
  /\ Receive(Last(inbox), Observed(Last(inbox)), Front(inbox))
  /\ PollUnchanged

PollChunk ==
  /\ CanReceive /\ inbox # <<>>
  /\ Head(inbox).kind \in Terminal \cup {"thought", "token"}
  /\ Receive(Head(inbox), Observed(Head(inbox)), Tail(inbox))
  /\ PollUnchanged

(* A provider that ends without a terminal chunk completes what it said.    *)
PollEnded ==
  /\ CanReceive /\ inbox # <<>> /\ Head(inbox).kind = "ended"
  /\ \/ /\ inner.text # <<>>
        /\ Receive(Message("completed"), Observed(Message("completed")), Tail(inbox))
     \/ /\ inner.text = <<>>
        /\ EndAttempt("Completed")
  /\ PollUnchanged

PollError ==
  /\ CanReceive /\ inbox # <<>> /\ Head(inbox).kind = "error"
  /\ EndAttempt("Failed")
  /\ PollUnchanged

(* Seeded fault: a reader that is gone is noticed before what it left.      *)
DisconnectedFirst ==
  /\ CanReceive /\ Disconnected
  /\ EndAttempt("Completed")
  /\ PollUnchanged

PollDisconnected ==
  /\ CanReceive /\ inbox = <<>> /\ Disconnected
  /\ EndAttempt("Completed")
  /\ PollUnchanged

(* A retry that failed may have left self.inner behind, already finished.   *)
PollClosed ==
  /\ CanPoll /\ inner.finished
  /\ EndAttempt("Completed")
  /\ PollUnchanged

-----------------------------------------------------------------------------
(* Calls that take the provider's lock (request_provider_cancel).  A        *)
(* provider that is cancelled cancels the token it was given.               *)

ProviderCancelled == token' = (token \/ InSlot(open))

(* Seeded fault: the deadline cancels the provider and waits for its answer. *)
ExpireAsks ==
  /\ call = "expire" /\ LockFree(open)
  /\ ProviderCancelled
  /\ call' = "ready"
  /\ UNCHANGED <<late, streamVars, open, inner, inbox, reader, turn, answer,
                 sent, kept>>

Expire ==
  /\ call = "expire" /\ LockFree(open)
  /\ ProviderCancelled
  /\ EndAttempt("Failed")
  /\ call' = "ready"
  /\ UNCHANGED <<late, attempt, fallback, reader, answer, sent, kept>>

(* cancel_with_reason *)
Cancel ==
  /\ call = "ready" /\ ~turn.over
  /\ token' = TRUE
  /\ IF open # None THEN call' = "cancel" /\ UNCHANGED life
                    ELSE life' = "Cancelled" /\ UNCHANGED call
  /\ UNCHANGED <<late, attempt, shown, text, finished, pending, fallback, open,
                 inner, inbox, reader, turn, answer, sent, kept>>

CancelProvider ==
  /\ call = "cancel" /\ LockFree(open)
  /\ ProviderCancelled
  /\ call' = "ready"
  /\ UNCHANGED <<late, streamVars, open, inner, inbox, reader, turn, answer,
                 sent, kept>>

-----------------------------------------------------------------------------
(* begin_attempt.  base is the accumulated text it starts with.             *)

Keeps(keep) == IF keep THEN text ELSE <<>>

(* The retry succeeded: retry_generation resets the turn, or keeps it.      *)
Restarted(keep) ==
  /\ turn' = [text |-> IF keep THEN turn.text ELSE <<>>, life |-> "Thinking",
              over |-> FALSE]
  /\ kept' = IF keep THEN turn.text ELSE <<>>
  /\ answer' = "started"

(* stream_with_retry opened a stream; its thread may fail to spawn.         *)
AttemptOpens(keep) ==
  /\ ~token
  /\ life' = "Thinking" /\ finished' = FALSE /\ fallback' = FALSE
  /\ text' = Keeps(keep)
  /\ open' = attempt' /\ inner' = Fresh /\ inbox' = <<>> /\ late' = FALSE
  /\ \E pc \in {"looping", "none"} : reader' = [reader EXCEPT ![attempt'] = pc]
  /\ Restarted(keep)
  /\ UNCHANGED <<token, sent>>

(* The provider cannot stream: complete answers the whole reply at once.    *)
AttemptCompletes(keep) ==
  /\ ~token /\ MaxTokens > 0
  /\ life' = "Completed" /\ finished' = FALSE /\ fallback' = TRUE
  /\ text' = << <<attempt', 1>> >>
  /\ sent' = [sent EXCEPT ![attempt'] = text']
  /\ DropInner
  /\ Restarted(keep)
  /\ UNCHANGED <<token, late, inner, reader>>

(* Any error: a cancelled token, a provider that refuses to stream ...      *)
AttemptRefused(keep) ==
  /\ life' = "Failed" /\ finished' = TRUE /\ fallback' = FALSE
  /\ text' = Keeps(keep)
  /\ answer' = IF token THEN "cancelled" ELSE "refused"
  /\ UNCHANGED <<token, late, open, inner, inbox, reader, turn, sent, kept>>

(* ... and one that cannot stream and whose complete fails; when it timed   *)
(* out, the token is cancelled.                                             *)
AttemptIncomplete(keep) ==
  /\ ~token
  /\ token' \in BOOLEAN
  /\ life' = "Thinking" /\ finished' = FALSE /\ fallback' = FALSE
  /\ text' = Keeps(keep)
  /\ answer' = "refused"
  /\ UNCHANGED <<late, open, inner, inbox, reader, turn, sent, kept>>

NewAttempt ==
  /\ attempt < MaxAttempts
  /\ attempt' = attempt + 1
  /\ shown' = "Idle"
  /\ pending' = <<>>

(* retry of a stream that is not active *)
Retry ==
  /\ call = "ready" /\ life \notin Active
  /\ NewAttempt
  /\ \E keep \in BOOLEAN :
       \/ AttemptOpens(keep)
       \/ AttemptCompletes(keep)
       \/ AttemptRefused(keep)
       \/ AttemptIncomplete(keep)
  /\ UNCHANGED call

(* retry of an active stream cancels it first ...                           *)
RetryActive ==
  /\ call = "ready" /\ life \in Active /\ attempt < MaxAttempts
  /\ token' = TRUE
  /\ \E keep \in BOOLEAN : call' = IF keep THEN "retryKeeping" ELSE "retry"
  /\ UNCHANGED <<late, streamVars, open, inner, inbox, reader, turn, answer,
                 sent, kept>>

(* ... with the provider's lock when there is one, and drains it: with the  *)
(* token set the drain ends in emit_cancelled, whatever the inbox holds,    *)
(* and no event of it is shown.  The new attempt has the same token.        *)
RetryDrained ==
  /\ call \in {"retry", "retryKeeping"}
  /\ open # None => LockFree(open)
  /\ NewAttempt
  /\ life' = "Failed" /\ finished' = TRUE /\ fallback' = FALSE
  /\ text' = CASE call = "retry" -> <<>>
              [] open # None      -> inner.text
              [] OTHER            -> text
  /\ DropInner
  /\ answer' = "cancelled"
  /\ call' = "ready"
  /\ UNCHANGED <<token, late, inner, reader, turn, sent, kept>>

-----------------------------------------------------------------------------
(* ConversationStream::start that succeeded, on a turn just begun           *)
(* (begin_streaming_assistant).  start that fails leaves no stream.         *)
Init ==
  /\ token = FALSE /\ late = FALSE
  /\ attempt = 1
  /\ shown = "Idle" /\ pending = <<>>
  /\ finished = FALSE
  /\ inner = Fresh /\ inbox = <<>>
  /\ call = "ready" /\ answer = "none" /\ kept = <<>>
  /\ turn = [text |-> <<>>, life |-> "Thinking", over |-> FALSE]
  /\ \/ /\ life = "Thinking" /\ fallback = FALSE /\ text = <<>>
        /\ open = 1
        /\ \E pc \in {"looping", "none"} :
             reader = [a \in Attempts |-> IF a = 1 THEN pc ELSE "none"]
        /\ sent = [a \in Attempts |-> <<>>]
     \/ /\ MaxTokens > 0
        /\ life = "Completed" /\ fallback = TRUE
        /\ text = << <<1, 1>> >>
        /\ open = None
        /\ reader = [a \in Attempts |-> "none"]
        /\ sent = [a \in Attempts |-> IF a = 1 THEN << <<1, 1>> >> ELSE <<>>]

Pump == \/ PumpFallback \/ PumpLifecycle \/ PumpPending \/ PumpNothing
        \/ PollCancelled \/ PollLate \/ PollChunk \/ PollEnded
        \/ PollError \/ PollDisconnected \/ PollClosed

Reads(a) == \/ ReaderCancels(a) \/ ReaderReads(a) \/ ReadContinues(a)
            \/ ReadEnds(a) \/ ReaderCloses(a)

Waits == Expire \/ CancelProvider \/ RetryDrained

Next == \/ Pump \/ Waits
        \/ Cancel \/ Retry \/ RetryActive
        \/ DeadlinePasses
        \/ \E a \in Attempts : Reads(a)

Spec == Init /\ [][Next]_vars

(* The host pumps every frame, whatever else the user makes it call; a read *)
(* returns within the transport's own timeout; time passes; the mutex does  *)
(* not starve a waiting thread for ever.  Nothing is assumed of the user.   *)
FairSpec ==
  /\ Spec
  /\ SF_vars(Pump)
  /\ WF_vars(DeadlinePasses)
  /\ SF_vars(Waits)
  /\ \A a \in Attempts : WF_vars(Reads(a))

-----------------------------------------------------------------------------
(* What the properties are about.                                           *)

(* The token a lifecycle event holds back is received but not shown.        *)
HeldBack == IF pending # <<>> THEN Head(pending).text ELSE <<>>

(* The accumulated text is what one attempt's provider said, from its first *)
(* token on: nothing lost, repeated, reordered or taken from an attempt     *)
(* before, whichever of the reader, a retry and a deadline came first.      *)
ReplyIsOneAttempt ==
  /\ TypeOK
  /\ \E a \in Attempts : IsPrefix(text, sent[a])

(* While an attempt streams, the turn shows every token received, once: the *)
(* text the host appends event by event and the text the stream accumulates *)
(* agree up to the token held back.                                         *)
TranscriptFollows ==
  open # None /\ ~finished /\ ~inner.finished
    => turn.text \o HeldBack = kept \o inner.text

(* A reply shown as completed is all that some attempt's provider said.     *)
CompletedIsWhole ==
  turn.over /\ turn.life = "Completed" => \E a \in Attempts : turn.text = sent[a]

(* Lifecycle before Token, and the terminal event last: no token enters a   *)
(* turn that is still Thinking, and an ended turn stays until a retry.  A   *)
(* retry that was refused is left out: AttemptIncomplete leaves the stream  *)
(* unfinished, and the next poll shows a finished turn as Thinking.         *)
EventsInOrder ==
  [][/\ Len(turn'.text) > Len(turn.text) /\ ~turn'.over => turn.life = "Streaming"
     /\ turn.over /\ answer # "refused" =>
          turn' = turn \/ (answer' = "started" /\ attempt' > attempt)]_vars

(* Once Stop was pressed no token is shown but the one held back: chunks    *)
(* that are in the inbox, and those a read still returns, are dropped.      *)
StopIsObeyed ==
  [][token /\ pending = <<>> /\ open # None /\ ~turn.over
       => turn'.text \in {turn.text, inner.text}]_vars

(* Every attempt ends, although the provider may think for ever, die, or    *)
(* be waited for: by a terminal chunk, a stop or the deadline.              *)
EveryAttemptEnds == ~finished ~> finished

(* A Stop, a retry and a poll at the deadline come back to the host.        *)
CallsReturn == call # "ready" ~> call = "ready"
==============================================================================
