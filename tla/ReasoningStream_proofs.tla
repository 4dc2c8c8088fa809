------------------------ MODULE ReasoningStream_proofs ------------------------
(***************************************************************************)
(* Proofs about ReasoningStream, for any number of attempts and any length *)
(* of a reply.                                                             *)
(*                                                                         *)
(* The text of a reply exists four times: as the provider said it, in the  *)
(* reader's inbox, as the open attempt accumulated it, and in the turn.    *)
(* The invariant ties them together by the numbers of the tokens: the      *)
(* inbox counts on from where the attempt stands, and where it ends the    *)
(* provider is.  Nothing is summed over the inbox, so no step of the proof *)
(* needs induction: every chunk carries its own number.                    *)
(***************************************************************************)
EXTENDS ReasoningStream, SequenceTheorems, TLAPS

-----------------------------------------------------------------------------
(* The invariant.                                                          *)

(* ts holds the first tokens of the attempt a, in their order.             *)
Numbered(ts, a) == \A i \in DOMAIN ts : ts[i] = <<a, i>>

Says(ts, a) == Numbered(ts, a) /\ Len(ts) <= Len(sent[a])

(* The provider of a says nothing any more.                                *)
Silent(a) == reader[a] \in {"none", "closing", "gone"}

SentInv ==
  \A a \in Attempts : /\ Numbered(sent[a], a)
                      /\ a > attempt => reader[a] = "none" /\ sent[a] = <<>>

TextInv == \E a \in Attempts : Says(text, a)

(* The messages q of the attempt a carry on from its nth token to its mth; *)
(* f[j] is the number of the last token before the jth message.            *)
Counts(f, q, n, m, a) ==
  /\ f[1] = n /\ f[Len(q) + 1] = m
  /\ \A j \in 1 .. Len(q) :
       /\ f[j + 1] = IF q[j].kind = "token" THEN f[j] + 1 ELSE f[j]
       /\ q[j].text = IF q[j].kind = "token" THEN << <<a, f[j] + 1>> >> ELSE <<>>

Queue(q, n, m, a) == \E f \in [1 .. Len(q) + 1 -> 0 .. m] : Counts(f, q, n, m, a)

(* A message that ends an attempt is the last, and its reader at r is done. *)
LastWords(q, r) ==
  \A j \in 1 .. Len(q) : q[j].kind \notin {"thought", "token"} =>
    j = Len(q) /\ r \in {"closing", "gone"}

Whole == inner.text = sent[open] /\ Silent(open)

(* The attempt in self.inner.                                              *)
OpenInv ==
  open # None =>
    /\ open <= attempt
    /\ Says(inner.text, open)
    /\ ~inner.finished =>
         /\ ~finished /\ ~turn.over /\ inner.life \in Active /\ life = inner.life
         /\ Queue(inbox, Len(inner.text), Len(sent[open]), open)
         /\ LastWords(inbox, reader[open])
    /\ inner.finished =>
         \/ Whole
         \/ inner.life = "Cancelled" /\ token /\ (finished \/ pending # <<>>)

(* A chunk held back belongs to the attempt in self.inner, and its event   *)
(* is the next one.                                                        *)
PendingInv ==
  pending # <<>> =>
    /\ open # None /\ ~finished /\ ~fallback
    /\ text = inner.text /\ shown = life /\ life = inner.life
    /\ Head(pending).kind \in Terminal \cup {"thought", "token"}
    /\ IF Head(pending).kind = "token" THEN life = "Streaming" ELSE Head(pending).text = <<>>
    /\ IF Head(pending).kind \in Terminal
         THEN inner.finished /\ inner.life = EndOf[Head(pending).kind]
         ELSE ~inner.finished

FallbackInv ==
  fallback => /\ open = None /\ pending = <<>> /\ ~finished /\ life \notin Active
              /\ text = sent[attempt] /\ reader[attempt] = "none"

CallInv ==
  call = "expire" => /\ ~finished /\ ~fallback /\ pending = <<>>
                     /\ open # None /\ ~inner.finished

(* The turn of the transcript.                                             *)
TurnInv ==
  /\ ~finished /\ shown # "Idle" => turn.life = shown
  /\ life = "Completed" => finished \/ fallback \/ shown = life
  /\ turn.over /\ answer # "refused" => finished /\ pending = <<>> /\ ~fallback
  /\ turn.over /\ turn.life = "Completed" =>
       \E a \in Attempts : a <= attempt /\ turn.text = sent[a] /\ Silent(a)

Inv ==
  /\ TypeOK /\ SentInv /\ TextInv /\ OpenInv /\ PendingInv /\ FallbackInv
  /\ CallInv /\ TurnInv /\ TranscriptFollows
-----------------------------------------------------------------------------
(* Texts and queues.                                                       *)

Tokens == Attempts \X (1 .. MaxTokens)

(* Texts are the short sequences of tokens.                                *)
LEMMA TextsAreShort ==
  \A ts : ts \in Texts <=> ts \in Seq(Tokens) /\ Len(ts) <= MaxTokens
<1> USE BoundsAssumption
<1>1. ASSUME NEW ts \in Texts PROVE ts \in Seq(Tokens) /\ Len(ts) <= MaxTokens
  <2>1. PICK n \in 0..MaxTokens : ts \in [1..n -> Tokens]
    BY DEF Texts, Tokens
  <2>2. ts \in Seq(Tokens) /\ Len(ts) = n
    BY <2>1
  <2> QED BY <2>2
<1>2. ASSUME NEW ts \in Seq(Tokens), Len(ts) <= MaxTokens PROVE ts \in Texts
  <2>1. Len(ts) \in 0..MaxTokens /\ ts \in [1..Len(ts) -> Tokens]
    BY <1>2
  <2> QED BY <2>1 DEF Texts, Tokens
<1> QED BY <1>1, <1>2

(* Tokens of one attempt that are as many are the same.                    *)
LEMMA NumberedSame ==
  ASSUME NEW ts \in Seq(Tokens), NEW us \in Seq(Tokens), NEW a,
         Numbered(ts, a), Numbered(us, a), Len(ts) = Len(us)
  PROVE  ts = us
BY DEF Numbered

(* The next token of an attempt is its last.                               *)
LEMMA NumberedMore ==
  ASSUME NEW ts \in Seq(Tokens), NEW a \in Attempts, Numbered(ts, a), Len(ts) < MaxTokens
  PROVE  /\ Append(ts, <<a, Len(ts) + 1>>) = ts \o << <<a, Len(ts) + 1>> >>
         /\ ts \o << <<a, Len(ts) + 1>> >> \in Seq(Tokens)
         /\ Len(ts \o << <<a, Len(ts) + 1>> >>) = Len(ts) + 1
         /\ Numbered(ts \o << <<a, Len(ts) + 1>> >>, a)
<1> DEFINE t == <<a, Len(ts) + 1>>
<1>1. t \in Tokens
  BY BoundsAssumption DEF Tokens
<1>2. Append(ts, t) = ts \o <<t>>
  BY <1>1
<1> HIDE DEF t
<1>3. /\ Append(ts, t) \in Seq(Tokens) /\ Len(Append(ts, t)) = Len(ts) + 1 /\ Len(ts) \in Nat
      /\ DOMAIN ts = 1..Len(ts) /\ DOMAIN Append(ts, t) = 1..(Len(ts) + 1)
      /\ \A i \in 1..Len(ts) : Append(ts, t)[i] = ts[i]
      /\ Append(ts, t)[Len(ts) + 1] = t
  BY <1>1
<1>4. \A i \in 1..(Len(ts) + 1) : i \in 1..Len(ts) \/ i = Len(ts) + 1
  BY <1>3
<1>5. Numbered(Append(ts, t), a)
  BY <1>3, <1>4 DEF Numbered, t
<1> QED BY <1>2, <1>3, <1>5 DEF t

(* What is received of a queue is a token that is due, or has no text.     *)
LEMMA QueueHead ==
  ASSUME NEW q \in Seq(Messages), q # <<>>, NEW n \in Nat, NEW m \in Nat, NEW a, Queue(q, n, m, a)
  PROVE  IF Head(q).kind = "token"
           THEN Head(q).text = << <<a, n + 1>> >> /\ n + 1 <= m /\ Queue(Tail(q), n + 1, m, a)
           ELSE Head(q).text = <<>> /\ Queue(Tail(q), n, m, a)
<1>1. PICK f \in [1 .. Len(q) + 1 -> 0 .. m] : Counts(f, q, n, m, a)
  BY DEF Queue
<1>2. /\ Len(q) \in Nat /\ 1 \in 1..Len(q) /\ Head(q) = q[1] /\ 1 + 1 = 2
      /\ Tail(q) \in Seq(Messages) /\ Len(Tail(q)) = Len(q) - 1
      /\ \A j \in 1..(Len(q) - 1) : Tail(q)[j] = q[j + 1]
  OBVIOUS
<1> DEFINE g == [j \in 1..Len(q) |-> f[j + 1]]
           k == IF Head(q).kind = "token" THEN n + 1 ELSE n
<1>3. f[1 + 1] = k /\ k \in 0..m
      /\ Head(q).text = IF Head(q).kind = "token" THEN << <<a, n + 1>> >> ELSE <<>>
  BY <1>1, <1>2 DEF Counts
<1>4. g \in [1..Len(q) -> 0..m]
  BY <1>1, <1>2
<1>5. Counts(g, Tail(q), k, m, a)
  <2>1. g[1] = k
    BY <1>2, <1>3
  <2>2. g[Len(Tail(q)) + 1] = m
    BY <1>1, <1>2 DEF Counts
  <2>3. ASSUME NEW j \in 1..Len(Tail(q))
        PROVE  /\ g[j + 1] = IF Tail(q)[j].kind = "token" THEN g[j] + 1 ELSE g[j]
               /\ Tail(q)[j].text = IF Tail(q)[j].kind = "token" THEN << <<a, g[j] + 1>> >> ELSE <<>>
    <3>1. /\ j \in 1..(Len(q) - 1) /\ j \in 1..Len(q) /\ j + 1 \in 1..Len(q)
          /\ Tail(q)[j] = q[j + 1]
      BY <1>2
    <3>2. g[j] = f[j + 1] /\ g[j + 1] = f[(j + 1) + 1]
      BY <3>1
    <3> HIDE DEF g
    <3> QED BY <1>1, <3>1, <3>2 DEF Counts
  <2> QED BY <2>1, <2>2, <2>3 DEF Counts
<1> HIDE DEF g
<1>6. Queue(Tail(q), k, m, a)
  <2>1. Len(Tail(q)) + 1 = Len(q)
    BY <1>2
  <2> QED BY <1>4, <1>5, <2>1 DEF Queue
<1> QED BY <1>3, <1>6

(* An empty queue has nothing to add.                                      *)
LEMMA QueueEmpty ==
  ASSUME NEW n \in Nat, NEW m \in Nat, NEW a
  PROVE  Queue(<<>>, n, m, a) <=> n = m
<1>1. ASSUME Queue(<<>>, n, m, a) PROVE n = m
  <2>1. PICK f \in [1 .. 0 + 1 -> 0 .. m] : Counts(f, <<>>, n, m, a)
    BY <1>1 DEF Queue
  <2> QED BY <2>1 DEF Counts
<1>2. ASSUME n = m PROVE Queue(<<>>, n, m, a)
  <2> DEFINE f == [j \in 1 .. 0 + 1 |-> m]
  <2>1. f \in [1 .. Len(<<>>) + 1 -> 0 .. m] /\ Counts(f, <<>>, n, m, a)
    BY <1>2 DEF Counts
  <2> QED BY <2>1 DEF Queue
<1> QED BY <1>1, <1>2

(* A reader that sends a token, or what has no text, keeps the count.      *)
LEMMA QueueMore ==
  ASSUME NEW q \in Seq(Messages), NEW n \in Nat, NEW m \in Nat, NEW a, Queue(q, n, m, a),
         NEW c \in Messages,
         c.text = IF c.kind = "token" THEN << <<a, m + 1>> >> ELSE <<>>
  PROVE  Queue(Append(q, c), n, IF c.kind = "token" THEN m + 1 ELSE m, a)
<1>1. PICK f \in [1 .. Len(q) + 1 -> 0 .. m] : Counts(f, q, n, m, a)
  BY DEF Queue
<1> DEFINE k == IF c.kind = "token" THEN m + 1 ELSE m
           g == [j \in 1 .. Len(q) + 2 |-> IF j <= Len(q) + 1 THEN f[j] ELSE k]
           r == Append(q, c)
<1>2. /\ Len(q) \in Nat /\ r \in Seq(Messages) /\ Len(r) = Len(q) + 1 /\ Len(r) + 1 = Len(q) + 2
      /\ \A j \in 1..Len(q) : r[j] = q[j]
      /\ r[Len(q) + 1] = c
  OBVIOUS
<1>3. k \in Nat /\ m <= k
  OBVIOUS
<1>4. g \in [1 .. Len(q) + 2 -> 0 .. k]
  BY <1>1, <1>2, <1>3
<1>5. /\ \A j \in 1 .. Len(q) + 1 : g[j] = f[j]
      /\ g[Len(q) + 2] = k
  BY <1>2
<1> HIDE DEF g, r
<1>6. Counts(g, r, n, k, a)
  <2>1. g[1] = n /\ g[Len(r) + 1] = k
    BY <1>1, <1>2, <1>5 DEF Counts
  <2>2. ASSUME NEW j \in 1..Len(r)
        PROVE  /\ g[j + 1] = IF r[j].kind = "token" THEN g[j] + 1 ELSE g[j]
               /\ r[j].text = IF r[j].kind = "token" THEN << <<a, g[j] + 1>> >> ELSE <<>>
    <3>1. CASE j \in 1..Len(q)
      <4>1. j \in 1..(Len(q) + 1) /\ j + 1 \in 1..(Len(q) + 1)
        BY <1>2, <3>1
      <4> QED BY <1>1, <1>2, <1>5, <3>1, <4>1 DEF Counts
    <3>2. CASE j = Len(q) + 1
      <4>1. j + 1 = Len(q) + 2 /\ g[j] = m
        BY <1>1, <1>2, <1>5, <3>2 DEF Counts
      <4> QED BY <1>2, <1>5, <3>2, <4>1
    <3> QED BY <1>2, <3>1, <3>2
  <2> QED BY <2>1, <2>2 DEF Counts
<1>7. Queue(r, n, k, a)
  BY <1>2, <1>4, <1>6 DEF Queue
<1> QED BY <1>7 DEF r

(* The accumulated texts, and what an attempt has said, are sequences of   *)
(* tokens.                                                                 *)
LEMMA TextsAreTokens ==
  ASSUME TypeOK
  PROVE  /\ text \in Seq(Tokens) /\ inner.text \in Seq(Tokens)
         /\ \A a \in Attempts : /\ sent[a] \in Seq(Tokens) /\ sent[a] \in Texts
                                /\ Len(sent[a]) \in Nat /\ Len(sent[a]) <= MaxTokens
         /\ Len(text) \in Nat /\ Len(inner.text) \in Nat
         /\ turn.text \in Seq(Tokens) /\ kept \in Seq(Tokens)
<1>1. text \in Texts /\ inner.text \in Texts /\ \A a \in Attempts : sent[a] \in Texts
  BY DEF TypeOK
<1>2. turn.text \in Seq(Tokens) /\ kept \in Seq(Tokens)
  BY DEF TypeOK, Tokens
<1>3. \A ts \in Seq(Tokens) : Len(ts) \in Nat
  OBVIOUS
<1> QED BY <1>1, <1>2, <1>3, TextsAreShort

-----------------------------------------------------------------------------
(* The steps of a reader.                                                  *)

(* What a reader does to the state the invariant reads: it says the next   *)
(* token, or something without text; what is not a thought comes last.     *)
LEMMA ReadEffect ==
  ASSUME TypeOK, NEW a \in Attempts, Reads(a)
  PROVE  /\ UNCHANGED <<token, late, streamVars, open, inner, hostVars>>
         /\ reader[a] \in {"looping", "reading", "closing"}
         /\ \E r \in {"looping", "reading", "closing", "gone"} :
              /\ reader' = [reader EXCEPT ![a] = r]
              /\ \/ inbox' = inbox /\ sent' = sent /\ (reader[a] = "closing" => r = "gone")
                 \/ \E m \in Messages :
                      /\ reader[a] # "closing"
                      /\ Send(a, m) /\ sent' = sent /\ m.text = <<>> /\ m.kind # "token"
                      /\ m.kind # "thought" => r \in {"closing", "gone"}
                 \/ LET t == <<a, Len(sent[a]) + 1>> IN
                      /\ reader[a] # "closing"
                      /\ Len(sent[a]) < MaxTokens
                      /\ Send(a, [kind |-> "token", text |-> <<t>>])
                      /\ sent' = [sent EXCEPT ![a] = Append(@, t)]
<1>1. \A kind \in Terminal \cup {"thought", "ended", "error"} :
        /\ Message(kind) \in Messages /\ Message(kind).text = <<>>
        /\ Message(kind).kind = kind /\ kind # "token"
  <2>1. <<>> \in Seq(Attempts \X (1 .. MaxTokens)) /\ "token" \notin Terminal
    BY DEF Terminal, EndOf
  <2> QED BY <2>1 DEF Message, Messages
<1>2. Terminal = {"completed", "cancelled", "failed"}
  BY DEF Terminal, EndOf
<1>3. CASE ReaderCancels(a)
  BY <1>1, <1>2, <1>3 DEF ReaderCancels
<1>4. CASE ReaderReads(a)
  BY <1>4 DEF ReaderReads
<1>5. CASE ReadContinues(a)
  <2>1. CASE Send(a, Message("thought")) /\ UNCHANGED sent
    BY <1>1, <1>5, <2>1 DEF ReadContinues
  <2>2. CASE /\ Len(sent[a]) < MaxTokens
             /\ LET t == <<a, Len(sent[a]) + 1>> IN
                  /\ Send(a, [kind |-> "token", text |-> <<t>>])
                  /\ sent' = [sent EXCEPT ![a] = Append(@, t)]
    BY <1>5, <2>2 DEF ReadContinues
  <2> QED BY <1>5, <2>1, <2>2 DEF ReadContinues
<1>6. CASE ReadEnds(a)
  <2>1. PICK kind \in {"completed", "failed", "ended", "error", "cancelled"} : Send(a, Message(kind))
    BY <1>6 DEF ReadEnds
  <2>2. /\ reader[a] = "reading" /\ reader' = [reader EXCEPT ![a] = "closing"]
        /\ UNCHANGED <<token, late, streamVars, open, inner, hostVars, sent>>
    BY <1>6 DEF ReadEnds
  <2>3. Message(kind) \in Messages /\ Message(kind).text = <<>> /\ Message(kind).kind # "token"
    BY <1>1, <1>2
  <2> QED BY <2>1, <2>2, <2>3
<1>7. CASE ReaderCloses(a)
  BY <1>7 DEF ReaderCloses
<1> QED BY <1>3, <1>4, <1>5, <1>6, <1>7 DEF Reads

(* What was said stays said, and who is silent stays so.                   *)
LEMMA ReadsAdd ==
  ASSUME TypeOK, SentInv, NEW a \in Attempts, Reads(a)
  PROVE  /\ sent' \in [Attempts -> Texts] /\ SentInv'
         /\ \A b \in Attempts : Len(sent[b]) <= Len(sent'[b])
         /\ \A b \in Attempts : Silent(b) => Silent(b)' /\ sent'[b] = sent[b]
<1>1. PICK r \in {"looping", "reading", "closing", "gone"} :
        /\ reader' = [reader EXCEPT ![a] = r]
        /\ \/ sent' = sent
           \/ /\ Len(sent[a]) < MaxTokens
              /\ sent' = [sent EXCEPT ![a] = Append(@, <<a, Len(sent[a]) + 1>>)]
        /\ reader[a] = "closing" => r = "gone" /\ sent' = sent
  BY ReadEffect
<1>2. reader[a] \in {"looping", "reading", "closing"} /\ attempt' = attempt
  BY ReadEffect DEF streamVars
<1>3. \A b \in Attempts : b # a => sent'[b] = sent[b] /\ reader'[b] = reader[b]
  BY <1>1 DEF TypeOK
<1>4. reader'[a] = r
  BY <1>1 DEF TypeOK
<1>5. /\ sent'[a] \in Texts /\ Numbered(sent'[a], a) /\ Len(sent[a]) <= Len(sent'[a])
      /\ sent' \in [Attempts -> Texts]
  <2>1. sent[a] \in Seq(Tokens) /\ sent[a] \in Texts /\ Len(sent[a]) \in Nat
    BY TextsAreTokens
  <2>2. CASE sent' = sent
    BY <2>1, <2>2 DEF SentInv, TypeOK
  <2>3. CASE /\ Len(sent[a]) < MaxTokens
             /\ sent' = [sent EXCEPT ![a] = Append(@, <<a, Len(sent[a]) + 1>>)]
    <3>1. sent'[a] = Append(sent[a], <<a, Len(sent[a]) + 1>>)
      BY <2>3 DEF TypeOK
    <3>2. /\ sent'[a] \in Seq(Tokens) /\ Len(sent'[a]) = Len(sent[a]) + 1 /\ Numbered(sent'[a], a)
      <4>1. Numbered(sent[a], a)
        BY DEF SentInv
      <4> HIDE DEF Tokens, Numbered
      <4>2. /\ Append(sent[a], <<a, Len(sent[a]) + 1>>) = sent[a] \o << <<a, Len(sent[a]) + 1>> >>
            /\ sent[a] \o << <<a, Len(sent[a]) + 1>> >> \in Seq(Tokens)
            /\ Len(sent[a] \o << <<a, Len(sent[a]) + 1>> >>) = Len(sent[a]) + 1
            /\ Numbered(sent[a] \o << <<a, Len(sent[a]) + 1>> >>, a)
        BY <2>1, <2>3, <4>1, NumberedMore
      <4> QED BY <3>1, <4>2
    <3>3. Len(sent'[a]) <= MaxTokens
      BY <2>1, <2>3, <3>2, BoundsAssumption
    <3>4. sent'[a] \in Texts
      BY <3>2, <3>3, TextsAreShort
    <3> QED BY <2>1, <2>3, <3>1, <3>2, <3>4 DEF TypeOK
  <2> QED BY <1>1, <2>2, <2>3
<1>6. \A b \in Attempts : Len(sent[b]) <= Len(sent'[b])
  <2>1. \A b \in Attempts : Len(sent[b]) \in Nat
    BY TextsAreTokens
  <2>2. \A b \in Attempts : b # a => Len(sent[b]) <= Len(sent'[b])
    BY <1>3, <2>1
  <2> QED BY <1>5, <2>2
<1>7. SentInv'
  BY <1>2, <1>3, <1>5 DEF SentInv
<1>8. \A b \in Attempts : Silent(b) => Silent(b)' /\ sent'[b] = sent[b]
  BY <1>1, <1>2, <1>3, <1>4 DEF Silent
<1> QED BY <1>5, <1>6, <1>7, <1>8

(* The reader of the open attempt keeps its inbox in order.                *)
LEMMA ReadQueue ==
  ASSUME Inv, NEW a \in Attempts, Reads(a)
  PROVE  /\ inbox' \in Seq(Messages)
         /\ open # None /\ ~inner.finished =>
              /\ Queue(inbox', Len(inner.text), Len(sent'[open]), open)
              /\ LastWords(inbox', reader'[open])
<1> USE DEF Inv
<1>1. /\ inbox \in Seq(Messages) /\ Len(inbox) \in Nat /\ Len(inner.text) \in Nat
      /\ Len(sent[a]) \in Nat /\ sent[a] \in Seq(Tokens)
  BY TextsAreTokens DEF TypeOK
<1>2. PICK r \in {"looping", "reading", "closing", "gone"} :
        /\ reader' = [reader EXCEPT ![a] = r]
        /\ \/ inbox' = inbox /\ sent' = sent /\ (reader[a] = "closing" => r = "gone")
           \/ \E m \in Messages :
                /\ reader[a] # "closing"
                /\ Send(a, m) /\ sent' = sent /\ m.text = <<>> /\ m.kind # "token"
                /\ m.kind # "thought" => r \in {"closing", "gone"}
           \/ LET t == <<a, Len(sent[a]) + 1>> IN
                /\ reader[a] # "closing"
                /\ Len(sent[a]) < MaxTokens
                /\ Send(a, [kind |-> "token", text |-> <<t>>])
                /\ sent' = [sent EXCEPT ![a] = Append(@, t)]
  BY ReadEffect
<1>3. open' = open /\ inner' = inner /\ reader'[a] = r /\ reader[a] \in {"looping", "reading", "closing"}
      /\ \A b \in Attempts : b # a => reader'[b] = reader[b] /\ sent'[b] = sent[b]
  BY <1>2, ReadEffect DEF TypeOK
<1> DEFINE Goal == open # None /\ ~inner.finished =>
                     /\ Queue(inbox', Len(inner.text), Len(sent'[open]), open)
                     /\ LastWords(inbox', reader'[open])
<1>4. open # None /\ ~inner.finished =>
        Queue(inbox, Len(inner.text), Len(sent[open]), open) /\ LastWords(inbox, reader[open])
  BY DEF OpenInv
<1>5. /\ open # None => open \in Attempts
      /\ open = a => open # None
  BY BoundsAssumption DEF TypeOK, Attempts, None
<1>6. ASSUME inbox' = inbox, sent' = sent, reader[a] = "closing" => r = "gone"
      PROVE  inbox' \in Seq(Messages) /\ Goal
  BY <1>1, <1>3, <1>4, <1>5, <1>6 DEF LastWords
<1>7. ASSUME NEW c \in Messages, Send(a, c), reader[a] # "closing",
             c.kind \notin {"thought", "token"} => r \in {"closing", "gone"},
             c.text = IF c.kind = "token" THEN << <<a, Len(sent[a]) + 1>> >> ELSE <<>>,
             Len(sent'[a]) = IF c.kind = "token" THEN Len(sent[a]) + 1 ELSE Len(sent[a])
      PROVE  inbox' \in Seq(Messages) /\ Goal
  <2>1. CASE open # a
    BY <1>1, <1>3, <1>4, <1>5, <1>7, <2>1 DEF Send, LastWords
  <2>2. CASE open = a /\ ~(inbox # <<>> /\ c.kind = "thought" /\ Last(inbox) = c)
    <3>1. inbox' = Append(inbox, c)
      BY <1>7, <2>2 DEF Send
    <3>2. ~inner.finished => Queue(inbox', Len(inner.text), Len(sent'[open]), open)
      BY <1>1, <1>4, <1>5, <1>7, <2>2, <3>1, QueueMore
    <3>3. ~inner.finished => LastWords(inbox', reader'[open])
      <4> SUFFICES ASSUME ~inner.finished, NEW j \in 1..Len(inbox'),
                          inbox'[j].kind \notin {"thought", "token"}
                   PROVE  j = Len(inbox') /\ reader'[open] \in {"closing", "gone"}
        BY <1>3 DEF LastWords
      <4>1. /\ j \in 1..Len(inbox) \/ j = Len(inbox) + 1
            /\ Len(inbox') = Len(inbox) + 1 /\ inbox'[Len(inbox) + 1] = c
            /\ \A i \in 1..Len(inbox) : inbox'[i] = inbox[i]
        BY <1>1, <1>7, <3>1
      <4>2. CASE j \in 1..Len(inbox)
        <5>1. inbox[j].kind \notin {"thought", "token"}
          BY <4>1, <4>2
        <5>2. reader[a] \in {"closing", "gone"}
          BY <1>4, <1>5, <2>2, <4>2, <5>1 DEF LastWords
        <5> QED BY <1>3, <1>7, <5>2
      <4>3. CASE j = Len(inbox) + 1
        BY <1>3, <1>7, <2>2, <4>1, <4>3
      <4> QED BY <4>1, <4>2, <4>3
    <3>4. inbox' \in Seq(Messages)
      BY <1>1, <1>7, <3>1
    <3> QED BY <3>2, <3>3, <3>4
  <2>3. CASE open = a /\ (inbox # <<>> /\ c.kind = "thought" /\ Last(inbox) = c)
    <3>1. inbox' = inbox /\ Len(sent'[a]) = Len(sent[a])
      BY <1>7, <2>3 DEF Send
    <3>2. ~inner.finished => \A j \in 1..Len(inbox) : inbox[j].kind \in {"thought", "token"}
      BY <1>3, <1>4, <1>5, <1>7, <2>3 DEF LastWords
    <3> QED BY <1>1, <1>3, <1>4, <1>5, <2>3, <3>1, <3>2 DEF LastWords
  <2> QED BY <2>1, <2>2, <2>3
<1>8. ASSUME NEW m \in Messages, reader[a] # "closing", Send(a, m), sent' = sent, m.text = <<>>,
             m.kind # "token", m.kind # "thought" => r \in {"closing", "gone"}
      PROVE  inbox' \in Seq(Messages) /\ Goal
  BY <1>7, <1>8
<1>9. ASSUME reader[a] # "closing", Len(sent[a]) < MaxTokens,
             Send(a, [kind |-> "token", text |-> << <<a, Len(sent[a]) + 1>> >>]),
             sent' = [sent EXCEPT ![a] = Append(@, <<a, Len(sent[a]) + 1>>)]
      PROVE  inbox' \in Seq(Messages) /\ Goal
  <2> DEFINE c == [kind |-> "token", text |-> << <<a, Len(sent[a]) + 1>> >>]
  <2>1. <<a, Len(sent[a]) + 1>> \in Attempts \X (1 .. MaxTokens)
    BY <1>1, <1>9, BoundsAssumption
  <2>2. c \in Messages /\ c.kind = "token" /\ c.text = << <<a, Len(sent[a]) + 1>> >>
    BY <2>1 DEF Messages
  <2>3. Len(sent'[a]) = Len(sent[a]) + 1
    <3>1. sent'[a] = Append(sent[a], <<a, Len(sent[a]) + 1>>)
      BY <1>9 DEF TypeOK
    <3>2. <<a, Len(sent[a]) + 1>> \in Tokens
      BY <2>1 DEF Tokens
    <3> HIDE DEF Tokens
    <3> QED BY <1>1, <3>1, <3>2
  <2> HIDE DEF c, Goal
  <2> QED BY <1>7, <1>9, <2>2, <2>3 DEF c
<1>10. inbox' \in Seq(Messages) /\ Goal
  BY <1>2, <1>6, <1>8, <1>9
<1> QED BY <1>3, <1>10 DEF LastWords

(* A step of a reader keeps the invariant.                                 *)
LEMMA ReadInv ==
  ASSUME Inv, NEW a \in Attempts, Reads(a)
  PROVE  Inv'
<1> USE DEF Inv
<1>1. UNCHANGED <<token, late, streamVars, open, inner, hostVars>>
  BY ReadEffect
<1>2. /\ sent' \in [Attempts -> Texts] /\ SentInv'
      /\ \A b \in Attempts : Len(sent[b]) <= Len(sent'[b])
      /\ \A b \in Attempts : Silent(b) => Silent(b)' /\ sent'[b] = sent[b]
  BY ReadsAdd
<1>3. /\ inbox' \in Seq(Messages)
      /\ open # None /\ ~inner.finished =>
           /\ Queue(inbox', Len(inner.text), Len(sent'[open]), open)
           /\ LastWords(inbox', reader'[open])
  BY ReadQueue
<1>4. \A b \in Attempts : Len(sent[b]) \in Nat /\ Len(sent'[b]) \in Nat
  <2>1. \A ts \in Texts : Len(ts) \in Nat
    BY TextsAreShort
  <2> QED BY <1>2, <2>1 DEF TypeOK
<1>5. \A b \in Attempts : Says(text, b) => Says(text, b)'
  BY <1>1, <1>2, <1>4, TextsAreTokens DEF Says, Numbered, streamVars
<1>6. \A b \in Attempts : Says(inner.text, b) => Says(inner.text, b)'
  BY <1>1, <1>2, <1>4, TextsAreTokens DEF Says, Numbered
<1>7. open \in Attempts \cup {None} /\ attempt \in Attempts
  BY DEF TypeOK
<1>8. TypeOK'
  <2>1. reader' \in [Attempts -> {"none", "looping", "reading", "closing", "gone"}]
    BY ReadEffect DEF TypeOK
  <2> QED BY <1>1, <1>2, <1>3, <2>1 DEF TypeOK, streamVars, hostVars
<1>9. TextInv'
  BY <1>5 DEF TextInv
<1>10. OpenInv'
  <2> SUFFICES ASSUME open # None PROVE OpenInv'
    BY <1>1 DEF OpenInv
  <2>1. Says(inner.text, open)'
    BY <1>1, <1>6, <1>7 DEF OpenInv, Says
  <2>2. Whole => Whole'
    BY <1>1, <1>2, <1>7 DEF Whole, Silent
  <2> QED BY <1>1, <1>3, <2>1, <2>2 DEF OpenInv, streamVars, hostVars
<1>11. PendingInv' /\ CallInv'
  BY <1>1 DEF PendingInv, CallInv, streamVars, hostVars
<1>12. FallbackInv'
  <2>1. reader[attempt] = "none" => reader'[attempt] = "none" /\ sent'[attempt] = sent[attempt]
    <3>1. reader[a] # "none" /\ \E r : reader' = [reader EXCEPT ![a] = r]
      BY ReadEffect
    <3> QED BY <1>2, <1>7, <3>1 DEF Silent, TypeOK
  <2> QED BY <1>1, <2>1 DEF FallbackInv, streamVars
<1>13. TurnInv'
  <2>1. \A b \in Attempts : turn.text = sent[b] /\ Silent(b) => turn.text = sent'[b] /\ Silent(b)'
    BY <1>2
  <2> QED BY <1>1, <2>1 DEF TurnInv, streamVars, hostVars
<1>14. TranscriptFollows'
  BY <1>1 DEF TranscriptFollows, HeldBack, streamVars, hostVars
<1> QED BY <1>2, <1>8, <1>9, <1>10, <1>11, <1>12, <1>13, <1>14

-----------------------------------------------------------------------------
(* The host receives what the open attempt has for it.                     *)

(* The kinds of chunks and the lifecycles they end in.                     *)
LEMMA Kinds ==
  /\ Terminal = {"completed", "cancelled", "failed"}
  /\ EndOf["completed"] = "Completed" /\ EndOf["cancelled"] = "Cancelled"
  /\ EndOf["failed"] = "Failed"
  /\ \A k \in Terminal : EndOf[k] \in Lifecycles /\ EndOf[k] \notin Active /\ EndOf[k] # "Idle"
BY DEF Terminal, EndOf, Lifecycles, Active

(* What a poll of self.inner finds.                                        *)
LEMMA PollKnows ==
  ASSUME Inv, CanPoll
  PROVE  /\ open \in Attempts /\ open # None /\ open <= attempt /\ attempt \in Attempts
         /\ call = "ready" /\ ~fallback /\ ~finished /\ pending = <<>> /\ life = shown
         /\ Says(inner.text, open)
         /\ ~inner.finished =>
              /\ life = inner.life /\ inner.life \in Active /\ shown # "Idle"
              /\ ~turn.over /\ turn.life = shown
              /\ turn.text = kept \o inner.text
              /\ Queue(inbox, Len(inner.text), Len(sent[open]), open)
              /\ LastWords(inbox, reader[open])
<1>1. /\ open # None /\ call = "ready" /\ ~fallback /\ ~finished /\ pending = <<>> /\ life = shown
  BY DEF CanPoll, CanPump
<1>2. open \in Attempts /\ attempt \in Attempts /\ turn.text \in Seq(Tokens) /\ kept \in Seq(Tokens)
  BY <1>1, TextsAreTokens DEF Inv, TypeOK
<1>3. ~inner.finished => /\ life = inner.life /\ inner.life \in Active /\ ~turn.over
                         /\ Queue(inbox, Len(inner.text), Len(sent[open]), open)
                         /\ LastWords(inbox, reader[open])
  BY <1>1 DEF Inv, OpenInv
<1>4. ~inner.finished => shown # "Idle" /\ turn.life = shown
  BY <1>1, <1>3 DEF Inv, TurnInv, Active
<1>5. ~inner.finished => turn.text = kept \o inner.text
  BY <1>1, <1>2 DEF Inv, TranscriptFollows, HeldBack
<1> QED BY <1>1, <1>2, <1>3, <1>4, <1>5 DEF Inv, OpenInv

(* Texts are joined from the left or from the right.                       *)
LEMMA TokensConcat ==
  \A s, t, u \in Seq(Tokens) : (s \o t) \o u = s \o (t \o u)
BY ConcatAssociative

(* A turn that shows what was received shows it with the next chunk, too.  *)
LEMMA ShownWithNext ==
  ASSUME TypeOK, NEW c \in Messages, turn.text = kept \o inner.text
  PROVE  turn.text \o c.text = kept \o (inner.text \o c.text)
<1>1. kept \in Seq(Tokens) /\ inner.text \in Seq(Tokens)
  BY TextsAreTokens
<1>2. c.text \in Seq(Tokens)
  BY DEF Messages, Tokens
<1> HIDE DEF Tokens
<1>3. (kept \o inner.text) \o c.text = kept \o (inner.text \o c.text)
  BY <1>1, <1>2, TokensConcat, Zenon
<1> QED BY <1>3

(* A chunk is received: its lifecycle is shown and it is held back, or it  *)
(* goes on as the one before and is shown at once.                         *)
LEMMA ReceiveInv ==
  ASSUME Inv, CanPoll, ~inner.finished, PollUnchanged,
         NEW c \in Messages, c.kind \in Terminal \cup {"thought", "token"},
         c.kind # "token" => c.text = <<>>,
         NEW n \in [life : Lifecycles, text : Texts, finished : BOOLEAN],
         n.text = inner.text \o c.text, Says(n.text, open),
         n.life = IF c.kind = "token" THEN "Streaming"
                  ELSE IF c.kind \in Terminal THEN EndOf[c.kind] ELSE inner.life,
         n.finished <=> c.kind \in Terminal,
         NEW q \in Seq(Messages), Receive(c, n, q),
         ~n.finished => /\ Queue(q, Len(n.text), Len(sent[open]), open)
                        /\ LastWords(q, reader[open]),
         n.finished => \/ n.text = sent[open] /\ Silent(open)
                       \/ n.life = "Cancelled" /\ token
  PROVE  Inv'
<1> USE DEF Inv
<1>1. /\ open \in Attempts /\ open # None /\ open <= attempt /\ attempt \in Attempts
      /\ call = "ready" /\ ~fallback /\ ~finished /\ pending = <<>> /\ life = shown
      /\ life = inner.life /\ inner.life \in Active /\ shown # "Idle"
      /\ ~turn.over /\ turn.life = shown
      /\ turn.text = kept \o inner.text
  BY PollKnows
<1>2. /\ UNCHANGED <<token, late, attempt, fallback, reader, call, answer, sent, kept>>
      /\ inner' = n /\ life' = n.life
  BY DEF PollUnchanged, Receive
<1>3. /\ Active = {"Thinking", "Streaming"} /\ n.life \in Lifecycles
      /\ "token" \notin Terminal /\ "thought" \notin Terminal
      /\ n.finished => n.life \notin Active /\ n.life # "Idle"
      /\ ~n.finished => n.life \in Active
  BY <1>1, Kinds DEF Active
<1>4. /\ text' = n.text /\ inbox' = q /\ UNCHANGED <<finished, open>>
      /\ \/ /\ pending' = <<c>> /\ shown' = n.life /\ turn' = [turn EXCEPT !.life = n.life]
         \/ /\ UNCHANGED <<pending, shown>> /\ n.life = shown /\ ~n.finished
            /\ c.kind = "token" \/ (c.kind = "thought" /\ turn' = turn)
            /\ c.kind = "token" => turn' = [turn EXCEPT !.text = @ \o c.text,
                                              !.life = IF @ = "Completed" THEN @ ELSE "Streaming"]
  <2>1. CASE n.life # shown
    BY <2>1 DEF Receive, ShowLife
  <2>2. CASE n.life = shown
    <3>1. ~n.finished /\ c.kind \notin Terminal
      BY <1>1, <1>3, <2>2
    <3> QED BY <1>3, <2>2, <3>1 DEF Receive, Forward
  <2> QED BY <2>1, <2>2
<1> DEFINE held == <<c>>
<1>4a. held # <<>> /\ Head(held) = c /\ held \in Seq(Messages) /\ Len(held) <= 1
  OBVIOUS
<1> HIDE DEF held
<1>4b. pending' = held \/ pending' = <<>>
  BY <1>1, <1>4 DEF held
<1>5. SentInv'
  BY <1>2 DEF SentInv
<1>6. TextInv'
  BY <1>1, <1>2, <1>4 DEF TextInv, Says
<1>7. OpenInv'
  <2>1. turn'.over = turn.over
    BY <1>4 DEF TypeOK
  <2>2. n.finished => Whole' \/ (n.life = "Cancelled" /\ token /\ pending' # <<>>)
    <3>1. n.finished => pending' = held
      BY <1>4 DEF held
    <3>2. n.text = sent[open] /\ Silent(open) => Whole'
      BY <1>2, <1>4 DEF Whole, Silent
    <3> QED BY <1>4a, <3>1, <3>2
  <2>3. Says(inner.text, open)'
    BY <1>2, <1>4 DEF Says
  <2> QED BY <1>1, <1>2, <1>3, <1>4, <2>1, <2>2, <2>3 DEF OpenInv
<1>8. PendingInv'
  <2>1. CASE pending' = held
    <3>1. Head(pending') = c /\ shown' = n.life
      BY <1>1, <1>4, <1>4a, <2>1
    <3> QED BY <1>1, <1>2, <1>3, <1>4, <2>1, <3>1 DEF PendingInv
  <2>2. CASE pending' = <<>>
    BY <2>2 DEF PendingInv
  <2> QED BY <1>4b, <2>1, <2>2
<1>9. FallbackInv' /\ CallInv'
  BY <1>1, <1>2 DEF FallbackInv, CallInv
<1>10. turn' \in [text : Seq(Tokens), life : Lifecycles, over : BOOLEAN]
  <2>1. turn \in [text : Seq(Tokens), life : Lifecycles, over : BOOLEAN] /\ c.text \in Seq(Tokens)
    BY DEF TypeOK, Messages, Tokens
  <2>2. turn.text \o c.text \in Seq(Tokens)
    BY <2>1
  <2>3. "Streaming" \in Lifecycles
    BY DEF Lifecycles
  <2> QED BY <1>3, <1>4, <2>1, <2>2, <2>3
<1>11. TypeOK'
  <2>1. pending' \in Seq(Messages) /\ Len(pending') <= 1
    <3>1. <<>> \in Seq(Messages) /\ Len(<<>>) <= 1
      OBVIOUS
    <3>2. CASE pending' = held
      BY <1>4a, <3>2, Zenon
    <3>3. CASE pending' = <<>>
      BY <3>1, <3>3
    <3> QED BY <1>4b, <3>2, <3>3
  <2>2. shown' \in Lifecycles
    BY <1>3, <1>4 DEF TypeOK
  <2>3. turn' \in [text : Seq(Attempts \X (1 .. MaxTokens)), life : Lifecycles, over : BOOLEAN]
    BY <1>10 DEF Tokens
  <2> QED BY <1>2, <1>3, <1>4, <2>1, <2>2, <2>3 DEF TypeOK
<1>12. TurnInv'
  <2>1. ~turn'.over
    BY <1>1, <1>4 DEF TypeOK
  <2>2. turn'.life = shown'
    <3>1. CASE turn' = [turn EXCEPT !.life = n.life] /\ shown' = n.life
      BY <3>1 DEF TypeOK
    <3>2. CASE c.kind = "token" /\ shown' = shown /\ n.life = shown
               /\ turn' = [turn EXCEPT !.text = @ \o c.text,
                                       !.life = IF @ = "Completed" THEN @ ELSE "Streaming"]
      BY <1>1, <3>2 DEF TypeOK
    <3> QED BY <1>1, <1>4, <3>1, <3>2
  <2>3. shown' = n.life
    BY <1>4
  <2> QED BY <1>2, <1>4, <2>1, <2>2, <2>3 DEF TurnInv
<1>13. TranscriptFollows'
  <2>1. /\ turn.text \in Seq(Tokens) /\ kept \in Seq(Tokens) /\ inner.text \in Seq(Tokens)
        /\ c.text \in Seq(Tokens)
    BY TextsAreTokens DEF Messages, Tokens
  <2>2. turn.text \o c.text = kept \o (inner.text \o c.text)
    BY <1>1, ShownWithNext
  <2>3. turn.text \o c.text = kept \o n.text
    BY <2>2
  <2>4. CASE pending' = held
    <3>1. turn'.text = turn.text
      <4>1. turn' = [turn EXCEPT !.life = n.life]
        BY <1>1, <1>4, <1>4a, <2>4
      <4> QED BY <4>1 DEF TypeOK
    <3> QED BY <1>2, <1>4a, <2>3, <2>4, <3>1 DEF TranscriptFollows, HeldBack
  <2>5. CASE pending' = <<>> /\ c.kind = "token"
    <3>1. turn'.text = turn.text \o c.text
      BY <1>4, <2>5 DEF TypeOK
    <3>2. turn'.text \o <<>> = turn'.text
      BY <2>1, <3>1
    <3> QED BY <1>2, <2>3, <2>5, <3>1, <3>2 DEF TranscriptFollows, HeldBack
  <2>6. CASE pending' = <<>> /\ c.kind # "token"
    <3>1. turn' = turn /\ c.text = <<>>
      BY <1>4, <2>6
    <3> QED BY <1>2, <2>3, <2>6, <3>1 DEF TranscriptFollows, HeldBack
  <2> QED BY <1>4b, <2>4, <2>5, <2>6
<1> QED BY <1>5, <1>6, <1>7, <1>8, <1>9, <1>11, <1>12, <1>13

(* Once the last message is there, or the reader is gone and left nothing, *)
(* all that the provider said was received.                                *)
LEMMA LastIsWhole ==
  ASSUME Inv, CanPoll, ~inner.finished,
         \/ inbox = <<>> /\ Disconnected
         \/ inbox # <<>> /\ Head(inbox).kind \notin {"thought", "token"}
  PROVE  Whole
<1>1. /\ open \in Attempts /\ Says(inner.text, open)
      /\ Queue(inbox, Len(inner.text), Len(sent[open]), open)
      /\ LastWords(inbox, reader[open])
  BY PollKnows
<1>2. /\ inbox \in Seq(Messages) /\ inner.text \in Seq(Tokens) /\ sent[open] \in Seq(Tokens)
      /\ Len(inner.text) \in Nat /\ Len(sent[open]) \in Nat /\ Numbered(sent[open], open)
  BY <1>1, TextsAreTokens DEF Inv, TypeOK, SentInv
<1>3. Len(inner.text) = Len(sent[open]) /\ Silent(open)
  <2>1. CASE inbox = <<>> /\ Disconnected
    <3>1. Silent(open)
      BY <2>1 DEF Disconnected, Silent
    <3> QED BY <1>1, <1>2, <2>1, <3>1, QueueEmpty
  <2>2. CASE inbox # <<>> /\ Head(inbox).kind \notin {"thought", "token"}
    <3>1. 1 \in 1..Len(inbox) /\ Head(inbox) = inbox[1]
      BY <1>2, <2>2
    <3>2. 1 = Len(inbox) /\ reader[open] \in {"closing", "gone"}
      BY <1>1, <2>2, <3>1 DEF LastWords
    <3>3. Tail(inbox) = <<>>
      <4>1. Tail(inbox) \in Seq(Messages) /\ Len(Tail(inbox)) = 0
        BY <1>2, <2>2, <3>2
      <4> QED BY <4>1, EmptySeq
    <3>4. Queue(<<>>, Len(inner.text), Len(sent[open]), open)
      BY <1>1, <1>2, <2>2, <3>3, QueueHead
    <3> QED BY <1>1, <1>2, <3>2, <3>4, QueueEmpty DEF Silent
  <2> QED BY <2>1, <2>2
<1>4. inner.text = sent[open]
  BY <1>1, <1>2, <1>3, NumberedSame DEF Says
<1> QED BY <1>3, <1>4 DEF Whole

(* The messages the model makes up.                                        *)
LEMMA MessageIsMessage ==
  \A kind \in Terminal \cup {"thought"} :
    /\ Message(kind) \in Messages /\ Message(kind).kind = kind /\ Message(kind).text = <<>>
    /\ kind # "token"
<1>1. <<>> \in Seq(Attempts \X (1 .. MaxTokens)) /\ "token" \notin Terminal
  BY DEF Terminal, EndOf
<1> QED BY <1>1 DEF Message, Messages

(* What observe_chunk makes of self.inner.                                 *)
LEMMA ObservedIs ==
  ASSUME Inv, NEW c \in Messages, c.kind \in Terminal \cup {"thought", "token"},
         inner.text \o c.text \in Texts
  PROVE  /\ Observed(c) \in [life : Lifecycles, text : Texts, finished : BOOLEAN]
         /\ Observed(c).text = inner.text \o c.text
         /\ Observed(c).finished <=> c.kind \in Terminal
         /\ Observed(c).life = IF c.kind = "token" THEN "Streaming"
                               ELSE IF c.kind \in Terminal THEN EndOf[c.kind] ELSE inner.life
<1> DEFINE l == CASE c.kind = "token"      -> "Streaming"
                  [] c.kind \in Terminal   -> EndOf[c.kind]
                  [] OTHER                 -> inner.life
<1>1. inner.life \in Lifecycles /\ "Streaming" \in Lifecycles
      /\ "token" \notin Terminal /\ "thought" \notin Terminal
  BY Kinds DEF Inv, TypeOK, Lifecycles
<1>2. l = IF c.kind = "token" THEN "Streaming"
          ELSE IF c.kind \in Terminal THEN EndOf[c.kind] ELSE inner.life
  BY <1>1
<1> DEFINE s == inner.text \o c.text
           b == c.kind \in Terminal
<1>3. Observed(c) = [life |-> l, text |-> s, finished |-> b] /\ b \in BOOLEAN /\ s \in Texts
  BY DEF Observed
<1> HIDE DEF l, s, b
<1>4. l \in Lifecycles
  BY <1>1, <1>2, Kinds
<1>5. /\ Observed(c).life = l /\ Observed(c).text = s /\ Observed(c).finished = b
      /\ Observed(c) \in [life : Lifecycles, text : Texts, finished : BOOLEAN]
  BY <1>3, <1>4
<1> QED BY <1>2, <1>5 DEF s, b

(* A provider that ends without saying so, and a stop: the text stays.     *)
LEMMA TextStays ==
  ASSUME Inv
  PROVE  inner.text \o <<>> = inner.text /\ inner.text \in Texts
<1>1. inner.text \in Seq(Tokens) /\ inner.text \in Texts
  BY TextsAreTokens DEF Inv, TypeOK
<1> QED BY <1>1

(* The next chunk of the inbox is received, in its order.                  *)
LEMMA PollChunkInv ==
  ASSUME Inv, PollChunk
  PROVE  Inv'
<1> DEFINE c == Head(inbox)
           n == Observed(c)
           q == Tail(inbox)
<1>1. /\ CanPoll /\ ~inner.finished /\ inbox # <<>> /\ Receive(c, n, q) /\ PollUnchanged
      /\ c.kind \in Terminal \cup {"thought", "token"}
  BY DEF PollChunk, CanReceive
<1>2. /\ open \in Attempts /\ Says(inner.text, open)
      /\ Queue(inbox, Len(inner.text), Len(sent[open]), open)
      /\ LastWords(inbox, reader[open])
  BY <1>1, PollKnows
<1>3. /\ inbox \in Seq(Messages) /\ inner.text \in Seq(Tokens) /\ inner.text \in Texts
      /\ Len(inner.text) \in Nat /\ Len(sent[open]) \in Nat /\ Len(sent[open]) <= MaxTokens
  BY <1>2, TextsAreTokens DEF Inv, TypeOK
<1>4. /\ c \in Messages /\ q \in Seq(Messages) /\ Len(q) = Len(inbox) - 1 /\ Len(inbox) \in Nat
      /\ \A j \in 1..Len(q) : q[j] = inbox[j + 1]
  BY <1>1, <1>3
<1>5. IF c.kind = "token"
        THEN /\ c.text = << <<open, Len(inner.text) + 1>> >> /\ Len(inner.text) + 1 <= Len(sent[open])
             /\ Queue(q, Len(inner.text) + 1, Len(sent[open]), open)
        ELSE c.text = <<>> /\ Queue(q, Len(inner.text), Len(sent[open]), open)
  BY <1>1, <1>2, <1>3, QueueHead
<1>6. LastWords(q, reader[open])
  <2> SUFFICES ASSUME NEW j \in 1..Len(q), q[j].kind \notin {"thought", "token"}
               PROVE  j = Len(q) /\ reader[open] \in {"closing", "gone"}
    BY DEF LastWords
  <2> HIDE DEF q
  <2>1. j + 1 \in 1..Len(inbox) /\ q[j] = inbox[j + 1]
    BY <1>4
  <2>2. j + 1 = Len(inbox) /\ reader[open] \in {"closing", "gone"}
    BY <1>2, <2>1 DEF LastWords
  <2> QED BY <1>4, <2>2
<1>7. "token" \notin Terminal /\ "thought" \notin Terminal
  BY Kinds
<1>8. c.kind \in Terminal => Whole
  BY <1>1, <1>7, LastIsWhole
<1> HIDE DEF c, n, q
<1> DEFINE s == inner.text \o c.text
<1>9. /\ s \in Texts /\ Says(s, open) /\ Queue(q, Len(s), Len(sent[open]), open)
      /\ c.kind # "token" => s = inner.text
  <2>1. CASE c.kind = "token"
    <3>1. Len(inner.text) < MaxTokens
      BY <1>3, <1>5, <2>1, BoundsAssumption
    <3>2. s \in Seq(Tokens) /\ Len(s) = Len(inner.text) + 1 /\ Numbered(s, open)
      <4>1. s = inner.text \o << <<open, Len(inner.text) + 1>> >>
        BY <1>5, <2>1
      <4>2. Numbered(inner.text, open)
        BY <1>2 DEF Says
      <4> HIDE DEF s
      <4> QED BY <1>2, <1>3, <3>1, <4>1, <4>2, NumberedMore
    <3>3. Len(s) <= MaxTokens
      BY <1>3, <1>5, <2>1, <3>2, BoundsAssumption
    <3> HIDE DEF s
    <3>4. s \in Texts
      BY <3>2, <3>3, TextsAreShort
    <3> QED BY <1>5, <2>1, <3>2, <3>4 DEF Says
  <2>2. CASE c.kind # "token"
    <3>1. s = inner.text
      BY <1>5, <2>2, TextStays
    <3> QED BY <1>2, <1>3, <1>5, <2>2, <3>1
  <2> QED BY <2>1, <2>2
<1>10. /\ n \in [life : Lifecycles, text : Texts, finished : BOOLEAN]
       /\ n.text = s
       /\ n.finished <=> c.kind \in Terminal
       /\ n.life = IF c.kind = "token" THEN "Streaming"
                   ELSE IF c.kind \in Terminal THEN EndOf[c.kind] ELSE inner.life
  BY <1>1, <1>4, <1>9, ObservedIs DEF n
<1>11. n.finished => n.text = sent[open] /\ Silent(open)
  <2>1. n.finished => c.kind # "token"
    BY <1>7, <1>10
  <2> QED BY <1>8, <1>9, <1>10, <2>1 DEF Whole
<1>12. /\ n.text = inner.text \o c.text /\ Says(n.text, open)
       /\ Queue(q, Len(n.text), Len(sent[open]), open)
       /\ c.kind # "token" => c.text = <<>>
  BY <1>5, <1>9, <1>10
<1> HIDE DEF s
<1> QED BY <1>1, <1>4, <1>6, <1>10, <1>11, <1>12, ReceiveInv

(* A stop is received as a chunk without text.                             *)
LEMMA PollCancelledInv ==
  ASSUME Inv, PollCancelled
  PROVE  Inv'
<1> DEFINE c == Message("cancelled")
           n == Stopped
<1>1. CanPoll /\ ~inner.finished /\ token /\ Receive(c, n, inbox) /\ PollUnchanged
  BY DEF PollCancelled
<1>2. /\ c \in Messages /\ c.kind = "cancelled" /\ c.text = <<>>
      /\ c.kind \in Terminal /\ EndOf[c.kind] = "Cancelled" /\ c.kind # "token"
  BY MessageIsMessage, Kinds
<1>3. /\ n \in [life : Lifecycles, text : Texts, finished : BOOLEAN]
      /\ n.text = inner.text /\ n.life = "Cancelled" /\ n.finished = TRUE
  BY DEF Inv, TypeOK, Stopped, Lifecycles
<1>4. n.text = inner.text \o c.text /\ Says(n.text, open) /\ inbox \in Seq(Messages)
  BY <1>1, <1>2, <1>3, PollKnows, TextStays DEF Inv, TypeOK
<1> HIDE DEF c, n
<1> QED BY <1>1, <1>2, <1>3, <1>4, ReceiveInv

(* The attempt ends and leaves its text; as completed only when it is      *)
(* whole.                                                                  *)
LEMMA EndAttemptInv ==
  ASSUME Inv, open # None, ~fallback, pending = <<>>,
         NEW l \in {"Completed", "Failed"}, l = "Completed" => Whole,
         EndAttempt(l), token' \in BOOLEAN, call' = "ready",
         UNCHANGED <<late, attempt, fallback, reader, answer, sent, kept>>
  PROVE  Inv'
<1> USE DEF Inv
<1>1. /\ life' = l /\ text' = inner.text /\ finished' = TRUE /\ open' = None /\ inbox' = <<>>
      /\ turn' = [text |-> inner.text, life |-> l, over |-> TRUE]
      /\ UNCHANGED <<shown, pending, inner>>
  BY DEF EndAttempt, DropInner, ShowEnd
<1>2. open \in Attempts /\ open <= attempt /\ Says(inner.text, open)
      /\ inner.text \in Texts /\ inner.text \in Seq(Tokens)
  BY TextsAreTokens DEF OpenInv, TypeOK
<1>3. TypeOK'
  <2>1. turn' \in [text : Seq(Attempts \X (1 .. MaxTokens)), life : Lifecycles, over : BOOLEAN]
    BY <1>1, <1>2 DEF Lifecycles, Tokens
  <2>2. inbox' \in Seq(Messages) /\ life' \in Lifecycles
    BY <1>1 DEF Lifecycles
  <2> QED BY <1>1, <1>2, <2>1, <2>2 DEF TypeOK
<1>4. SentInv'
  BY DEF SentInv
<1>5. TextInv'
  BY <1>1, <1>2 DEF TextInv, Says
<1>6. OpenInv' /\ PendingInv' /\ FallbackInv' /\ CallInv' /\ TranscriptFollows'
  BY <1>1 DEF OpenInv, PendingInv, FallbackInv, CallInv, TranscriptFollows
<1>7. TurnInv'
  <2>1. PICK a \in Attempts : a = open
    BY <1>2
  <2>2. l = "Completed" => a <= attempt /\ turn'.text = sent'[a] /\ Silent(a)'
    BY <1>1, <1>2, <2>1 DEF Whole, Silent
  <2> QED BY <1>1, <2>2 DEF TurnInv
<1> QED BY <1>3, <1>4, <1>5, <1>6, <1>7

(* A provider that ends without saying so completes what it said, a reader *)
(* that is gone or an attempt that was finished before as well.            *)
LEMMA PollEndsInv ==
  ASSUME Inv, PollEnded \/ PollError \/ PollDisconnected \/ PollClosed
  PROVE  Inv'
<1>1. CanPoll /\ PollUnchanged
  BY DEF PollEnded, PollError, PollDisconnected, PollClosed, CanReceive
<1>2. /\ open # None /\ call = "ready" /\ ~fallback /\ ~finished /\ pending = <<>> /\ token \in BOOLEAN
  BY <1>1, PollKnows DEF Inv, TypeOK
<1>3. ASSUME NEW l \in {"Completed", "Failed"}, EndAttempt(l), l = "Completed" => Whole PROVE Inv'
  BY <1>1, <1>2, <1>3, EndAttemptInv DEF PollUnchanged
<1>4. CASE PollEnded
  <2>1. /\ ~inner.finished /\ inbox # <<>> /\ Head(inbox).kind = "ended"
    BY <1>4 DEF PollEnded, CanReceive
  <2>2. Whole
    <3>1. Head(inbox).kind \notin {"thought", "token"}
      BY <2>1
    <3> QED BY <1>1, <2>1, <3>1, LastIsWhole
  <2>3. CASE EndAttempt("Completed")
    BY <1>3, <2>2, <2>3
  <2>4. CASE Receive(Message("completed"), Observed(Message("completed")), Tail(inbox))
    <3> DEFINE c == Message("completed")
               n == Observed(c)
    <3>1. /\ c \in Messages /\ c.kind = "completed" /\ c.text = <<>>
          /\ c.kind \in Terminal /\ c.kind # "token"
      BY MessageIsMessage, Kinds
    <3>2. inner.text \o c.text = inner.text /\ inner.text \in Texts
      BY <3>1, TextStays
    <3> HIDE DEF c, n
    <3>3. /\ n \in [life : Lifecycles, text : Texts, finished : BOOLEAN]
          /\ n.text = inner.text \o c.text
          /\ n.finished <=> c.kind \in Terminal
          /\ n.life = IF c.kind = "token" THEN "Streaming"
                      ELSE IF c.kind \in Terminal THEN EndOf[c.kind] ELSE inner.life
      BY <3>1, <3>2, ObservedIs DEF n
    <3>4. n.text = sent[open] /\ Silent(open) /\ Says(n.text, open)
      BY <1>1, <2>2, <3>2, <3>3, PollKnows DEF Whole
    <3>5. Tail(inbox) \in Seq(Messages) /\ Receive(c, n, Tail(inbox))
      BY <2>1, <2>4 DEF Inv, TypeOK, c, n
    <3> QED BY <1>1, <2>1, <3>1, <3>3, <3>4, <3>5, ReceiveInv
  <2> QED BY <1>4, <2>3, <2>4 DEF PollEnded
<1>5. CASE PollError
  BY <1>3, <1>5 DEF PollError
<1>6. CASE PollDisconnected
  <2>1. Whole
    BY <1>1, <1>6, LastIsWhole DEF PollDisconnected, CanReceive
  <2> QED BY <1>3, <1>6, <2>1 DEF PollDisconnected
<1>7. CASE PollClosed
  <2>1. Whole
    BY <1>2, <1>7 DEF PollClosed, Inv, OpenInv
  <2> QED BY <1>3, <1>7, <2>1 DEF PollClosed
<1> QED BY <1>4, <1>5, <1>6, <1>7

(* The chunk held back is shown.                                           *)
LEMMA PumpPendingInv ==
  ASSUME Inv, PumpPending
  PROVE  Inv'
<1> USE DEF Inv
<1> DEFINE c == Head(pending)
<1>1. /\ Forward(c, text, inbox) /\ pending' = <<>> /\ pending # <<>> /\ call = "ready" /\ life = shown
      /\ UNCHANGED <<token, late, attempt, life, shown, fallback, inner, reader,
                     call, answer, sent, kept>>
  BY DEF PumpPending, CanPump
<1>2. /\ open # None /\ ~finished /\ ~fallback /\ text = inner.text /\ life = inner.life
      /\ c.kind \in Terminal \cup {"thought", "token"}
      /\ c.kind = "token" => life = "Streaming"
      /\ c.kind # "token" => c.text = <<>>
      /\ c.kind \in Terminal => inner.finished /\ inner.life = EndOf[c.kind]
      /\ c.kind \notin Terminal => ~inner.finished
  BY <1>1 DEF PendingInv
<1>3. c \in Messages /\ open \in Attempts /\ text \in Texts /\ inner.text \in Seq(Tokens)
      /\ open <= attempt /\ Says(inner.text, open) /\ turn.text \in Seq(Tokens) /\ turn.life \in Lifecycles
      /\ turn \in [text : Seq(Tokens), life : Lifecycles, over : BOOLEAN]
  BY <1>1, <1>2, TextsAreTokens DEF TypeOK, OpenInv, Tokens
<1>4. "token" \notin Terminal /\ "thought" \notin Terminal
  BY Kinds
<1>5. CASE c.kind \in Terminal
  <2>1. /\ text' = text /\ finished' = TRUE /\ open' = None /\ inbox' = <<>>
        /\ turn' = [text |-> text, life |-> EndOf[c.kind], over |-> TRUE]
    BY <1>1, <1>4, <1>5 DEF Forward, DropInner, ShowEnd
  <2>2. TypeOK'
    <3>1. turn' \in [text : Seq(Attempts \X (1 .. MaxTokens)), life : Lifecycles, over : BOOLEAN]
      BY <1>2, <1>3, <1>5, <2>1, Kinds DEF Tokens
    <3> QED BY <1>1, <1>3, <2>1, <3>1 DEF TypeOK
  <2>3. SentInv' /\ TextInv'
    BY <1>1, <2>1 DEF SentInv, TextInv, Says
  <2>4. OpenInv' /\ PendingInv' /\ FallbackInv' /\ CallInv' /\ TranscriptFollows'
    BY <1>1, <1>2, <2>1 DEF OpenInv, PendingInv, FallbackInv, CallInv, TranscriptFollows
  <2>5. TurnInv'
    <3>1. turn'.life = "Completed" => Whole
      BY <1>2, <1>5, <2>1 DEF OpenInv
    <3>2. PICK a \in Attempts : a = open
      BY <1>3
    <3>3. Whole => a <= attempt /\ turn'.text = sent'[a] /\ Silent(a)'
      BY <1>1, <1>2, <1>3, <2>1, <3>2 DEF Whole, Silent
    <3> QED BY <1>1, <1>2, <2>1, <3>1, <3>3 DEF TurnInv
  <2> QED BY <2>2, <2>3, <2>4, <2>5
<1>6. CASE c.kind \notin Terminal
  <2>1. /\ text' = text /\ inbox' = inbox /\ UNCHANGED <<finished, open>>
        /\ \/ /\ c.kind = "token"
              /\ turn' = [turn EXCEPT !.text = @ \o c.text,
                                      !.life = IF @ = "Completed" THEN @ ELSE "Streaming"]
           \/ c.kind = "thought" /\ turn' = turn
    BY <1>1, <1>2, <1>6 DEF Forward
  <2>2. ~inner.finished /\ ~turn.over /\ shown # "Idle" /\ turn.life = shown
    BY <1>1, <1>2, <1>6 DEF OpenInv, TurnInv, Active
  <2>3. /\ turn' \in [text : Seq(Tokens), life : Lifecycles, over : BOOLEAN]
        /\ turn'.over = turn.over
        /\ turn'.text = IF c.kind = "token" THEN turn.text \o c.text ELSE turn.text
        /\ turn'.life = turn.life
    <3>1. CASE c.kind = "token"
      <4>1. c.text \in Seq(Tokens)
        BY <1>3 DEF Messages, Tokens
      <4>2. turn.text \o c.text \in Seq(Tokens)
        BY <1>3, <4>1
      <4>3. turn.life = "Streaming" /\ turn' = [turn EXCEPT !.text = turn.text \o c.text, !.life = "Streaming"]
        BY <1>1, <1>2, <2>1, <2>2, <3>1
      <4> QED BY <1>3, <3>1, <4>2, <4>3
    <3>2. CASE c.kind # "token"
      BY <1>3, <2>1, <3>2
    <3> QED BY <3>1, <3>2
  <2>4. TypeOK'
    <3>1. turn' \in [text : Seq(Attempts \X (1 .. MaxTokens)), life : Lifecycles, over : BOOLEAN]
      BY <2>3 DEF Tokens
    <3> QED BY <1>1, <2>1, <3>1 DEF TypeOK
  <2>5. SentInv' /\ TextInv'
    BY <1>1, <2>1 DEF SentInv, TextInv, Says
  <2>6. OpenInv'
    BY <1>1, <1>2, <2>1, <2>2, <2>3 DEF OpenInv, Says
  <2>7. PendingInv' /\ FallbackInv' /\ CallInv'
    BY <1>1, <1>2, <2>1 DEF PendingInv, FallbackInv, CallInv
  <2>8. TurnInv'
    BY <1>1, <2>1, <2>2, <2>3 DEF TurnInv
  <2>9. TranscriptFollows'
    <3>1. turn.text \o c.text = kept \o inner.text
      BY <1>1, <1>2, <2>2 DEF TranscriptFollows, HeldBack
    <3>2. turn'.text = kept \o inner.text
      <4>1. CASE c.kind = "token"
        BY <2>3, <3>1, <4>1
      <4>2. CASE c.kind = "thought"
        <5>1. c.text = <<>>
          BY <1>2, <4>2
        <5> QED BY <1>3, <2>3, <3>1, <4>2, <5>1
      <4> QED BY <1>2, <1>6, <4>1, <4>2
    <3>3. turn'.text \o <<>> = turn'.text
      BY <2>3
    <3> QED BY <1>1, <3>2, <3>3 DEF TranscriptFollows, HeldBack
  <2> QED BY <2>4, <2>5, <2>6, <2>7, <2>8, <2>9
<1> QED BY <1>5, <1>6

(* Steps that leave the texts alone: a call to the provider, the time, an  *)
(* event without text, and what says that the stream is over.              *)
LEMMA QuietInv ==
  ASSUME Inv,
         \/ PollLate \/ PumpLifecycle \/ PumpNothing \/ Cancel \/ CancelProvider
         \/ RetryActive \/ DeadlinePasses \/ UNCHANGED vars
  PROVE  Inv'
<1> USE DEF Inv
<1>1. UNCHANGED <<attempt, text, pending, fallback, open, inner, inbox, reader, answer, sent, kept>>
  BY DEF PollLate, PumpLifecycle, PumpNothing, Cancel, CancelProvider, RetryActive,
         DeadlinePasses, vars, streamVars, hostVars
<1>2. SentInv' /\ TextInv'
  BY <1>1 DEF SentInv, TextInv, Says
<1>3. token \in BOOLEAN /\ life \in Lifecycles
  BY DEF TypeOK
<1> DEFINE Calls == {"ready", "cancel", "expire", "retry", "retryKeeping"}
<1>4. ASSUME UNCHANGED <<life, shown, finished, turn>>, token' \in BOOLEAN, token => token',
             late' \in BOOLEAN, call' \in Calls,
             call' = "expire" => \/ call = "expire"
                                 \/ CanPoll /\ ~inner.finished
      PROVE  Inv'
  <2>1. TypeOK'
    BY <1>1, <1>4 DEF TypeOK
  <2>2. OpenInv'
    BY <1>1, <1>4 DEF OpenInv, Says, Whole, Silent
  <2>3. PendingInv' /\ FallbackInv' /\ TurnInv' /\ TranscriptFollows'
    BY <1>1, <1>4 DEF PendingInv, FallbackInv, TurnInv, TranscriptFollows, HeldBack, Silent
  <2>4. CallInv'
    BY <1>1, <1>4, PollKnows DEF CallInv
  <2> QED BY <1>2, <2>1, <2>2, <2>3, <2>4
<1>5. CASE PollLate \/ CancelProvider \/ RetryActive \/ DeadlinePasses \/ UNCHANGED vars
  <2>1. UNCHANGED <<life, shown, finished, turn>>
    BY <1>5 DEF PollLate, CancelProvider, RetryActive, DeadlinePasses, vars, streamVars, hostVars
  <2>2. token' \in BOOLEAN /\ (token => token') /\ late' \in BOOLEAN
    BY <1>5 DEF TypeOK, PollLate, CancelProvider, ProviderCancelled, InSlot, RetryActive,
                DeadlinePasses, vars
  <2>3. call' \in Calls /\ (call' = "expire" => call = "expire" \/ (CanPoll /\ ~inner.finished))
    BY <1>5 DEF TypeOK, PollLate, CancelProvider, RetryActive, DeadlinePasses, vars, hostVars
  <2> QED BY <1>4, <2>1, <2>2, <2>3
<1>6. CASE PumpLifecycle
  <2>1. /\ CanPump /\ ~fallback /\ life # shown /\ call = "ready"
        /\ shown' = life /\ turn' = [turn EXCEPT !.life = life]
        /\ UNCHANGED <<token, late, life, finished, call>>
    BY <1>6 DEF PumpLifecycle, CanPump, ShowLife
  <2>2. pending = <<>> /\ ~finished /\ life # "Completed"
    BY <2>1 DEF CanPump, PendingInv, TurnInv
  <2>3. turn' \in [text : Seq(Attempts \X (1 .. MaxTokens)), life : Lifecycles, over : BOOLEAN]
        /\ turn'.over = turn.over /\ turn'.text = turn.text /\ turn'.life = life
    BY <1>3, <2>1 DEF TypeOK
  <2>4. TypeOK'
    BY <1>1, <2>1, <2>3 DEF TypeOK
  <2>5. OpenInv'
    BY <1>1, <2>1, <2>3 DEF OpenInv, Says, Whole, Silent
  <2>6. PendingInv' /\ FallbackInv' /\ CallInv' /\ TranscriptFollows'
    BY <1>1, <2>1, <2>2, <2>3 DEF PendingInv, FallbackInv, CallInv, TranscriptFollows, HeldBack
  <2>7. TurnInv'
    BY <1>1, <2>1, <2>2, <2>3 DEF TurnInv
  <2> QED BY <1>2, <2>4, <2>5, <2>6, <2>7
<1>7. CASE PumpNothing
  <2>1. /\ call = "ready" /\ ~fallback /\ pending = <<>> /\ open = None /\ finished' = TRUE
        /\ UNCHANGED <<token, late, life, shown, call, turn>>
    BY <1>7 DEF PumpNothing, CanPump, hostVars
  <2>2. TypeOK'
    BY <1>1, <2>1 DEF TypeOK, hostVars
  <2>3. OpenInv' /\ PendingInv' /\ FallbackInv' /\ CallInv' /\ TranscriptFollows'
    BY <1>1, <2>1 DEF OpenInv, PendingInv, FallbackInv, CallInv, TranscriptFollows
  <2>4. TurnInv'
    BY <1>1, <2>1 DEF TurnInv, Silent
  <2> QED BY <1>2, <2>2, <2>3, <2>4
<1>8. CASE Cancel
  <2>1. /\ call = "ready" /\ ~turn.over /\ token' = TRUE
        /\ UNCHANGED <<late, shown, finished, turn>>
    BY <1>8 DEF Cancel
  <2>2. CASE open # None /\ call' = "cancel" /\ UNCHANGED life
    <3>1. token' \in BOOLEAN /\ late' \in BOOLEAN /\ call' \in Calls /\ call' # "expire" /\ life' = life
      BY <2>1, <2>2 DEF TypeOK
    <3> HIDE DEF Calls, Inv
    <3> QED BY <1>4, <2>1, <3>1
  <2>3. CASE open = None /\ life' = "Cancelled" /\ UNCHANGED call
    <3>1. TypeOK'
      BY <1>1, <2>1, <2>3 DEF TypeOK, Lifecycles
    <3>2. OpenInv' /\ PendingInv' /\ FallbackInv' /\ CallInv' /\ TranscriptFollows'
      BY <1>1, <2>1, <2>3 DEF OpenInv, PendingInv, FallbackInv, CallInv, TranscriptFollows, Active
    <3>3. TurnInv'
      BY <1>1, <2>1, <2>3 DEF TurnInv
    <3> QED BY <1>2, <3>1, <3>2, <3>3
  <2> QED BY <1>8, <2>2, <2>3 DEF Cancel
<1> QED BY <1>5, <1>6, <1>7, <1>8

(* A reply that came whole is shown as one event.                          *)
LEMMA PumpFallbackInv ==
  ASSUME Inv, PumpFallback
  PROVE  Inv'
<1> USE DEF Inv
<1>1. /\ fallback /\ fallback' = FALSE /\ finished' = TRUE /\ life' = "Completed" /\ call = "ready"
      /\ turn' = [text |-> text, life |-> "Completed", over |-> TRUE]
      /\ UNCHANGED <<token, late, attempt, shown, text, pending, open, inner, inbox,
                     reader, call, answer, sent, kept>>
  BY DEF PumpFallback, CanPump, ShowEnd
<1>2. open = None /\ pending = <<>> /\ text = sent[attempt] /\ Silent(attempt)
  BY <1>1 DEF FallbackInv, Silent
<1>3. TypeOK'
  <2>1. turn' \in [text : Seq(Attempts \X (1 .. MaxTokens)), life : Lifecycles, over : BOOLEAN]
    BY <1>1, TextsAreTokens DEF Lifecycles, Tokens
  <2>2. /\ fallback' \in BOOLEAN /\ finished' \in BOOLEAN /\ life' \in Lifecycles
        /\ UNCHANGED <<token, late, attempt, shown, text, pending, open, inner, inbox,
                       reader, call, answer, sent, kept>>
    BY <1>1 DEF Lifecycles
  <2> QED BY <2>1, <2>2 DEF TypeOK
<1>4. SentInv' /\ TextInv'
  BY <1>1 DEF SentInv, TextInv, Says
<1>5. OpenInv' /\ PendingInv' /\ FallbackInv' /\ CallInv' /\ TranscriptFollows'
  BY <1>1, <1>2 DEF OpenInv, PendingInv, FallbackInv, CallInv, TranscriptFollows
<1>6. TurnInv'
  <2>1. PICK a \in Attempts : a = attempt
    BY DEF TypeOK
  <2>2. a <= attempt' /\ turn'.text = sent'[a] /\ Silent(a)'
    BY <1>1, <1>2, <2>1 DEF Silent, TypeOK, Attempts
  <2> QED BY <1>1, <1>2, <2>2 DEF TurnInv
<1> QED BY <1>3, <1>4, <1>5, <1>6

(* The deadline has the provider cancelled, and ends the attempt.          *)
LEMMA ExpireInv ==
  ASSUME Inv, Expire
  PROVE  Inv'
<1>1. /\ call = "expire" /\ EndAttempt("Failed") /\ call' = "ready" /\ token' \in BOOLEAN
      /\ UNCHANGED <<late, attempt, fallback, reader, answer, sent, kept>>
  BY DEF Expire, ProviderCancelled, InSlot, Inv, TypeOK
<1>2. open # None /\ ~fallback /\ pending = <<>>
  BY <1>1 DEF Inv, CallInv
<1> QED BY <1>1, <1>2, EndAttemptInv

(* No text is the start of what any attempt said.                          *)
LEMMA NothingSaid ==
  ASSUME TypeOK, NEW a \in Attempts
  PROVE  /\ <<>> \in Texts /\ <<>> \in Seq(Tokens)
         /\ Says(<<>>, a)
         /\ Says(<<>>, a)' <=> Len(sent'[a]) >= 0
<1>1. <<>> \in Seq(Tokens) /\ Len(<<>>) = 0 /\ DOMAIN <<>> = {}
  OBVIOUS
<1>2. <<>> \in Texts
  <2> HIDE DEF Tokens
  <2>1. Len(<<>>) <= MaxTokens
    BY <1>1, BoundsAssumption
  <2> QED BY <1>1, <2>1, TextsAreShort, Zenon
<1>3. Len(sent[a]) \in Nat
  BY TextsAreTokens
<1> QED BY <1>1, <1>2, <1>3 DEF Says, Numbered

(* What a retry finds: a stream that is not active has no attempt open, or *)
(* one that is over.                                                       *)
LEMMA RetryFinds ==
  ASSUME Inv, life \notin Active
  PROVE  open = None \/ inner.finished
BY DEF Inv, OpenInv

(* An attempt that does not start leaves what was shown.                   *)
LEMMA AttemptFailsInv ==
  ASSUME Inv, NewAttempt, UNCHANGED <<late, inner, reader, turn, sent, kept>>,
         token' \in BOOLEAN, token => token', call' = "ready", fallback' = FALSE,
         life' \in {"Failed", "Thinking"}, finished' \in BOOLEAN,
         answer' \in {"cancelled", "refused"},
         \/ open' = None /\ inbox' \in Seq(Messages)
         \/ open' = open /\ inbox' = inbox /\ inner.finished,
         answer' = "refused" \/ finished',
         finished' \/ ~token,
         text' = <<>> \/ text' = text \/ (open # None /\ text' = inner.text)
  PROVE  Inv'
<1> USE DEF Inv
<1>1. /\ attempt < MaxAttempts /\ attempt' = attempt + 1 /\ shown' = "Idle" /\ pending' = <<>>
      /\ attempt \in Nat /\ attempt' \in Attempts
  BY BoundsAssumption DEF NewAttempt, TypeOK, Attempts
<1>2. open # None => open \in Attempts /\ open <= attempt /\ Says(inner.text, open)
  BY DEF OpenInv, TypeOK
<1>3. TypeOK'
  <2>1. text' \in Texts
    BY NothingSaid, <1>1 DEF TypeOK
  <2>2. pending' \in Seq(Messages) /\ Len(pending') <= 1
    BY <1>1
  <2>3. open' \in Attempts \cup {None} /\ inbox' \in Seq(Messages)
    BY DEF TypeOK
  <2>4. /\ life' \in Lifecycles /\ shown' \in Lifecycles /\ fallback' \in BOOLEAN
        /\ answer' \in {"none", "started", "refused", "cancelled"}
        /\ call' \in {"ready", "cancel", "expire", "retry", "retryKeeping"}
    BY <1>1 DEF Lifecycles
  <2> QED BY <1>1, <2>1, <2>2, <2>3, <2>4 DEF TypeOK
<1>4. SentInv'
  BY <1>1 DEF SentInv, Attempts
<1>5. TextInv'
  <2>1. PICK a \in Attempts : Says(text', a)
    BY <1>2, NothingSaid, BoundsAssumption DEF TextInv, Attempts
  <2> QED BY <2>1 DEF TextInv, Says
<1>6. OpenInv'
  <2>1. open' # None => /\ open' = open /\ inbox' = inbox /\ inner.finished
                        /\ open \in Attempts /\ open <= attempt /\ Says(inner.text, open)
    BY <1>2
  <2>2. open' # None => Whole' \/ (inner.life = "Cancelled" /\ token' /\ finished')
    BY <2>1 DEF OpenInv, Whole, Silent
  <2>3. open' # None => Says(inner.text, open)' /\ open' <= attempt'
    BY <1>1, <2>1 DEF Says, Attempts
  <2> QED BY <2>1, <2>2, <2>3 DEF OpenInv
<1>7. PendingInv' /\ FallbackInv' /\ CallInv' /\ TranscriptFollows'
  BY <1>1 DEF PendingInv, FallbackInv, CallInv, TranscriptFollows
<1>8. TurnInv'
  <2>1. ASSUME turn.over, turn.life = "Completed"
        PROVE  \E a \in Attempts : a <= attempt' /\ turn.text = sent[a] /\ Silent(a)
    <3>1. PICK a \in Attempts : a <= attempt /\ turn.text = sent[a] /\ Silent(a)
      BY <2>1 DEF TurnInv
    <3> QED BY <1>1, <3>1 DEF Attempts
  <2>2. turn' = turn /\ sent' = sent /\ \A a \in Attempts : Silent(a) <=> Silent(a)'
    BY DEF Silent
  <2>3. turn'.over /\ turn'.life = "Completed" =>
          \E a \in Attempts : a <= attempt' /\ turn'.text = sent'[a] /\ Silent(a)'
    BY <2>1, <2>2
  <2> QED BY <1>1, <2>3 DEF TurnInv
<1> QED BY <1>3, <1>4, <1>5, <1>6, <1>7, <1>8

(* A new attempt starts with nothing said, and shows what the turn keeps.  *)
LEMMA AttemptOpensInv ==
  ASSUME Inv, NewAttempt, NEW keep \in BOOLEAN, AttemptOpens(keep), call = "ready", call' = "ready"
  PROVE  Inv'
<1> USE DEF Inv
<1>1. /\ attempt < MaxAttempts /\ attempt' = attempt + 1 /\ shown' = "Idle" /\ pending' = <<>>
      /\ attempt \in Nat /\ attempt' \in Attempts /\ attempt' # None
  BY BoundsAssumption DEF NewAttempt, TypeOK, Attempts, None
<1> DEFINE base == IF keep THEN turn.text ELSE <<>>
<1>2. /\ ~token /\ life' = "Thinking" /\ finished' = FALSE /\ fallback' = FALSE
      /\ text' = IF keep THEN text ELSE <<>>
      /\ open' = attempt' /\ inner' = Fresh /\ inbox' = <<>> /\ late' = FALSE
      /\ turn' = [text |-> base, life |-> "Thinking", over |-> FALSE]
      /\ kept' = base /\ answer' = "started"
      /\ UNCHANGED <<token, sent>>
  BY DEF AttemptOpens, Restarted, Keeps
<1>3. PICK pc \in {"looping", "none"} : reader' = [reader EXCEPT ![attempt'] = pc]
  BY DEF AttemptOpens
<1>4. base \in Seq(Tokens) /\ text' \in Texts
  BY <1>1, <1>2, TextsAreTokens, NothingSaid DEF TypeOK
<1> HIDE DEF base
<1>5. Fresh \in [life : Lifecycles, text : Texts, finished : BOOLEAN]
      /\ Fresh.text = <<>> /\ Fresh.life = "Thinking" /\ Fresh.finished = FALSE
  BY <1>1, NothingSaid DEF Fresh, Lifecycles
<1>6. TypeOK'
  <2>1. turn' \in [text : Seq(Attempts \X (1 .. MaxTokens)), life : Lifecycles, over : BOOLEAN]
    BY <1>2, <1>4 DEF Lifecycles, Tokens
  <2>2. kept' \in Seq(Attempts \X (1 .. MaxTokens))
    BY <1>2, <1>4 DEF Tokens
  <2>3. reader' \in [Attempts -> {"none", "looping", "reading", "closing", "gone"}]
    BY <1>3 DEF TypeOK
  <2>4. pending' \in Seq(Messages) /\ Len(pending') <= 1 /\ inbox' \in Seq(Messages)
    BY <1>1, <1>2
  <2>5. /\ life' \in Lifecycles /\ shown' \in Lifecycles /\ answer' \in {"none", "started", "refused", "cancelled"}
        /\ finished' \in BOOLEAN /\ fallback' \in BOOLEAN /\ late' \in BOOLEAN
        /\ open' \in Attempts \cup {None}
    BY <1>1, <1>2 DEF Lifecycles
  <2>6. token' \in BOOLEAN /\ sent' \in [Attempts -> Texts]
    BY <1>2 DEF TypeOK
  <2> QED BY <1>1, <1>2, <1>4, <1>5, <2>1, <2>2, <2>3, <2>4, <2>5, <2>6 DEF TypeOK
<1>7. SentInv'
  <2>1. \A a \in Attempts : a > attempt' => a > attempt /\ reader'[a] = reader[a]
    BY <1>1, <1>3 DEF TypeOK, Attempts
  <2> QED BY <1>2, <2>1 DEF SentInv
<1>8. TextInv'
  <2>1. PICK a \in Attempts : Says(text', a)
    BY <1>1, <1>2, NothingSaid DEF TextInv
  <2> QED BY <1>2, <2>1 DEF TextInv, Says
<1>9. OpenInv'
  <2>1. sent[attempt'] = <<>> /\ Says(<<>>, attempt')
    BY <1>1, NothingSaid DEF SentInv
  <2>2. Queue(<<>>, 0, 0, attempt')
    BY QueueEmpty
  <2>3. LastWords(<<>>, reader'[attempt'])
    BY DEF LastWords
  <2>4. Says(inner.text, open)'
    BY <1>2, <1>5, <2>1 DEF Says
  <2>5. Len(inner'.text) = 0 /\ Len(sent'[open']) = 0
    BY <1>2, <1>5, <2>1
  <2>6. turn'.over = FALSE /\ inner'.life \in Active /\ life' = inner'.life
    BY <1>2, <1>5 DEF Active
  <2>7. Queue(inbox', Len(inner'.text), Len(sent'[open']), open')
    BY <1>2, <2>2, <2>5
  <2> QED BY <1>1, <1>2, <1>5, <2>3, <2>4, <2>6, <2>7 DEF OpenInv
<1>10. PendingInv' /\ FallbackInv' /\ CallInv'
  BY <1>1, <1>2 DEF PendingInv, FallbackInv, CallInv
<1>11. TurnInv'
  BY <1>1, <1>2 DEF TurnInv
<1>12. TranscriptFollows'
  BY <1>1, <1>2, <1>5 DEF TranscriptFollows, HeldBack
<1> QED BY <1>6, <1>7, <1>8, <1>9, <1>10, <1>11, <1>12

(* An attempt that is answered whole waits to be shown as one event.       *)
LEMMA AttemptCompletesInv ==
  ASSUME Inv, NewAttempt, NEW keep \in BOOLEAN, AttemptCompletes(keep), call = "ready", call' = "ready"
  PROVE  Inv'
<1> USE DEF Inv
<1>1. /\ attempt < MaxAttempts /\ attempt' = attempt + 1 /\ shown' = "Idle" /\ pending' = <<>>
      /\ attempt \in Nat /\ attempt' \in Attempts
  BY BoundsAssumption DEF NewAttempt, TypeOK, Attempts
<1> DEFINE base == IF keep THEN turn.text ELSE <<>>
           reply == << <<attempt', 1>> >>
<1>2. /\ life' = "Completed" /\ finished' = FALSE /\ fallback' = TRUE
      /\ text' = reply /\ sent' = [sent EXCEPT ![attempt'] = reply]
      /\ open' = None /\ inbox' = <<>>
      /\ turn' = [text |-> base, life |-> "Thinking", over |-> FALSE]
      /\ kept' = base /\ answer' = "started"
      /\ UNCHANGED <<token, late, inner, reader>>
  BY DEF AttemptCompletes, Restarted, DropInner
<1>3. reply \in Texts /\ Numbered(reply, attempt') /\ Len(reply) = 1
  <2>1. MaxTokens > 0
    BY DEF AttemptCompletes
  <2>2. <<attempt', 1>> \in Tokens
    BY <1>1, <2>1, BoundsAssumption DEF Tokens
  <2>3. Len(reply) = 1 /\ reply \in Seq(Tokens)
    BY <2>2
  <2>4. Numbered(reply, attempt')
    BY DEF Numbered
  <2>5. Len(reply) <= MaxTokens
    BY <2>1, <2>3, BoundsAssumption
  <2> HIDE DEF reply
  <2> QED BY <2>3, <2>4, <2>5, TextsAreShort
<1> HIDE DEF reply
<1>4. base \in Seq(Tokens)
  BY <1>1, TextsAreTokens, NothingSaid
<1> HIDE DEF base
<1>5. TypeOK'
  <2>1. turn' \in [text : Seq(Attempts \X (1 .. MaxTokens)), life : Lifecycles, over : BOOLEAN]
        /\ kept' \in Seq(Attempts \X (1 .. MaxTokens))
    BY <1>2, <1>4 DEF Lifecycles, Tokens
  <2>2. sent' \in [Attempts -> Texts]
    BY <1>2, <1>3 DEF TypeOK
  <2>3. pending' \in Seq(Messages) /\ Len(pending') <= 1 /\ inbox' \in Seq(Messages)
    BY <1>1, <1>2
  <2>4. /\ life' \in Lifecycles /\ shown' \in Lifecycles /\ finished' \in BOOLEAN
        /\ fallback' \in BOOLEAN /\ open' \in Attempts \cup {None}
    BY <1>1, <1>2 DEF Lifecycles
  <2> QED BY <1>1, <1>2, <1>3, <2>1, <2>2, <2>3, <2>4 DEF TypeOK
<1>6. /\ sent'[attempt'] = reply
      /\ \A a \in Attempts : a # attempt' => sent'[a] = sent[a]
  BY <1>1, <1>2 DEF TypeOK
<1>7. SentInv'
  <2>1. \A a \in Attempts : Numbered(sent'[a], a)
    BY <1>3, <1>6 DEF SentInv
  <2>2. \A a \in Attempts : a > attempt' => a > attempt /\ a # attempt'
    BY <1>1 DEF Attempts
  <2> QED BY <1>2, <1>6, <2>1, <2>2 DEF SentInv
<1>8. TextInv'
  <2>1. Numbered(text', attempt') /\ Len(text') <= Len(sent'[attempt'])
    BY <1>2, <1>3, <1>6
  <2>2. PICK a \in Attempts : a = attempt'
    BY <1>1
  <2>3. Says(text, a)'
    BY <2>1, <2>2 DEF Says, Numbered
  <2> QED BY <2>3 DEF TextInv
<1>9. FallbackInv'
  <2>1. reader[attempt'] = "none"
    BY <1>1 DEF SentInv
  <2> QED BY <1>1, <1>2, <1>6, <2>1 DEF FallbackInv, Active
<1>10. OpenInv' /\ PendingInv' /\ CallInv' /\ TranscriptFollows'
  BY <1>1, <1>2 DEF OpenInv, PendingInv, CallInv, TranscriptFollows
<1>11. TurnInv'
  BY <1>1, <1>2 DEF TurnInv
<1> QED BY <1>5, <1>7, <1>8, <1>9, <1>10, <1>11

(* A retry, of a stream that is not active or of one it stopped first.     *)
LEMMA RetryInv ==
  ASSUME Inv, Retry \/ RetryDrained
  PROVE  Inv'
<1>1. CASE Retry
  <2>1. call = "ready" /\ call' = "ready" /\ life \notin Active /\ NewAttempt
    BY <1>1 DEF Retry
  <2>2. PICK keep \in BOOLEAN : \/ AttemptOpens(keep) \/ AttemptCompletes(keep)
                                \/ AttemptRefused(keep) \/ AttemptIncomplete(keep)
    BY <1>1 DEF Retry
  <2>3. open = None \/ inner.finished
    BY <2>1, RetryFinds
  <2>4. token \in BOOLEAN /\ inbox \in Seq(Messages)
    BY DEF Inv, TypeOK
  <2>5. CASE AttemptRefused(keep)
    <3>1. /\ UNCHANGED <<token, late, open, inner, inbox, reader, turn, sent, kept>>
          /\ life' = "Failed" /\ finished' = TRUE /\ fallback' = FALSE
          /\ answer' \in {"cancelled", "refused"}
          /\ text' = <<>> \/ text' = text
      BY <2>5 DEF AttemptRefused, Keeps
    <3> QED BY <2>1, <2>3, <2>4, <3>1, AttemptFailsInv
  <2>6. CASE AttemptIncomplete(keep)
    <3>1. /\ UNCHANGED <<late, open, inner, inbox, reader, turn, sent, kept>>
          /\ ~token /\ token' \in BOOLEAN
          /\ life' = "Thinking" /\ finished' = FALSE /\ fallback' = FALSE
          /\ answer' = "refused"
          /\ text' = <<>> \/ text' = text
      BY <2>6 DEF AttemptIncomplete, Keeps
    <3> QED BY <2>1, <2>3, <2>4, <3>1, AttemptFailsInv
  <2> QED BY <2>1, <2>2, <2>5, <2>6, AttemptOpensInv, AttemptCompletesInv
<1>2. CASE RetryDrained
  <2>1. /\ NewAttempt /\ life' = "Failed" /\ finished' = TRUE /\ fallback' = FALSE
        /\ open' = None /\ inbox' = <<>> /\ answer' = "cancelled" /\ call' = "ready"
        /\ UNCHANGED <<token, late, inner, reader, turn, sent, kept>>
    BY <1>2 DEF RetryDrained, DropInner
  <2>2. text' = <<>> \/ text' = text \/ (open # None /\ text' = inner.text)
    BY <1>2 DEF RetryDrained
  <2>3. token' \in BOOLEAN /\ inbox' \in Seq(Messages)
    BY <2>1 DEF Inv, TypeOK
  <2> QED BY <2>1, <2>2, <2>3, AttemptFailsInv
<1> QED BY <1>1, <1>2

-----------------------------------------------------------------------------
(* The invariant holds.                                                    *)

(* A reply that just started.                                              *)
LEMMA InitInv ==
  ASSUME Init
  PROVE  Inv
<1>1. /\ token = FALSE /\ late = FALSE /\ attempt = 1 /\ shown = "Idle" /\ pending = <<>>
      /\ finished = FALSE /\ inner = Fresh /\ inbox = <<>>
      /\ call = "ready" /\ answer = "none" /\ kept = <<>>
      /\ turn = [text |-> <<>>, life |-> "Thinking", over |-> FALSE]
  BY DEF Init
<1>2. /\ 1 \in Attempts /\ 1 # None /\ Active = {"Thinking", "Streaming"}
  BY BoundsAssumption DEF Attempts, None, Active
<1>3. /\ <<>> \in Seq(Tokens) /\ <<>> \in Texts /\ <<>> \in Seq(Messages) /\ Len(<<>>) = 0
      /\ \A a : Numbered(<<>>, a)
  <2>1. <<>> \in Seq(Tokens) /\ <<>> \in Seq(Messages) /\ Len(<<>>) = 0 /\ DOMAIN <<>> = {}
    OBVIOUS
  <2>2. Len(<<>>) <= MaxTokens
    BY <2>1, BoundsAssumption
  <2>3. <<>> \in Texts
    BY <2>1, <2>2, TextsAreShort, Zenon
  <2> QED BY <2>1, <2>3 DEF Numbered
<1>4. Fresh \in [life : Lifecycles, text : Texts, finished : BOOLEAN]
      /\ Fresh.text = <<>> /\ Fresh.life = "Thinking" /\ Fresh.finished = FALSE
  BY <1>3 DEF Fresh, Lifecycles
<1> DEFINE reply == << <<1, 1>> >>
<1>5. MaxTokens > 0 => reply \in Texts /\ Numbered(reply, 1) /\ Len(reply) = 1
  <2>1. MaxTokens > 0 => <<1, 1>> \in Tokens
    BY <1>2, BoundsAssumption DEF Tokens
  <2>2. MaxTokens > 0 => Len(reply) = 1 /\ reply \in Seq(Tokens)
    BY <2>1
  <2>3. Numbered(reply, 1)
    BY DEF Numbered
  <2>4. MaxTokens > 0 => Len(reply) <= MaxTokens
    BY <2>2, BoundsAssumption
  <2> HIDE DEF reply
  <2> QED BY <2>2, <2>3, <2>4, TextsAreShort
<1>6. \/ /\ life = "Thinking" /\ fallback = FALSE /\ text = <<>> /\ open = 1
         /\ \E pc \in {"looping", "none"} :
              reader = [a \in Attempts |-> IF a = 1 THEN pc ELSE "none"]
         /\ sent = [a \in Attempts |-> <<>>]
      \/ /\ MaxTokens > 0
         /\ life = "Completed" /\ fallback = TRUE /\ text = reply
         /\ open = None
         /\ reader = [a \in Attempts |-> "none"]
         /\ sent = [a \in Attempts |-> IF a = 1 THEN reply ELSE <<>>]
  BY DEF Init
<1> HIDE DEF reply
<1>7. /\ life \in Lifecycles /\ shown \in Lifecycles /\ text \in Texts
      /\ sent \in [Attempts -> Texts] /\ fallback \in BOOLEAN /\ open \in Attempts \cup {None}
      /\ reader \in [Attempts -> {"none", "looping", "reading", "closing", "gone"}]
  BY <1>1, <1>2, <1>3, <1>5, <1>6 DEF Lifecycles
<1>8. turn \in [text : Seq(Attempts \X (1 .. MaxTokens)), life : Lifecycles, over : BOOLEAN]
      /\ kept \in Seq(Attempts \X (1 .. MaxTokens))
  BY <1>1, <1>3 DEF Lifecycles, Tokens
<1>9. TypeOK
  <2>1. pending \in Seq(Messages) /\ Len(pending) <= 1 /\ inbox \in Seq(Messages)
    BY <1>1, <1>3
  <2>2. inner \in [life : Lifecycles, text : Texts, finished : BOOLEAN]
    BY <1>1, <1>4
  <2>3. /\ token \in BOOLEAN /\ late \in BOOLEAN /\ attempt \in Attempts /\ finished \in BOOLEAN
        /\ call \in {"ready", "cancel", "expire", "retry", "retryKeeping"}
        /\ answer \in {"none", "started", "refused", "cancelled"}
    BY <1>1, <1>2
  <2> QED BY <1>7, <1>8, <2>1, <2>2, <2>3 DEF TypeOK
<1>10. SentInv
  <2> SUFFICES ASSUME NEW a \in Attempts
               PROVE  Numbered(sent[a], a) /\ (a > 1 => reader[a] = "none" /\ sent[a] = <<>>)
    BY <1>1 DEF SentInv
  <2>1. a # 1 => reader[a] = "none" /\ sent[a] = <<>>
    BY <1>6
  <2>2. a = 1 => sent[a] = <<>> \/ (MaxTokens > 0 /\ sent[a] = reply)
    BY <1>6
  <2>3. Numbered(sent[a], a)
    BY <1>3, <1>5, <2>1, <2>2
  <2>4. a > 1 => a # 1
    OBVIOUS
  <2> QED BY <2>1, <2>3, <2>4
<1>11. Says(text, 1)
  BY <1>2, <1>3, <1>5, <1>6 DEF Says
<1>12. OpenInv
  <2> SUFFICES ASSUME open # None PROVE OpenInv
    BY DEF OpenInv
  <2>1. open = 1 /\ life = "Thinking" /\ sent[1] = <<>>
    BY <1>2, <1>6
  <2>2. Queue(<<>>, 0, 0, 1) /\ LastWords(<<>>, reader[1])
    BY QueueEmpty DEF LastWords
  <2>3. Says(<<>>, 1)
    BY <1>3, <2>1 DEF Says
  <2>4. turn.over = FALSE
    BY <1>1
  <2> QED BY <1>1, <1>2, <1>3, <1>4, <2>1, <2>2, <2>3, <2>4 DEF OpenInv
<1>13. PendingInv /\ CallInv /\ TurnInv
  BY <1>1, <1>6 DEF PendingInv, CallInv, TurnInv
<1>14. FallbackInv
  BY <1>1, <1>2, <1>6 DEF FallbackInv
<1>15. TranscriptFollows
  BY <1>1, <1>4 DEF TranscriptFollows, HeldBack
<1> QED BY <1>2, <1>9, <1>10, <1>11, <1>12, <1>13, <1>14, <1>15 DEF Inv, TextInv

(* Every step keeps the invariant.                                         *)
LEMMA NextInv ==
  ASSUME Inv, [Next]_vars
  PROVE  Inv'
<1>1. CASE UNCHANGED vars
  BY <1>1, QuietInv
<1>2. CASE Pump
  BY <1>2, PumpFallbackInv, QuietInv, PumpPendingInv, PollCancelledInv, PollChunkInv, PollEndsInv
  DEF Pump
<1>3. CASE Waits
  BY <1>3, ExpireInv, QuietInv, RetryInv DEF Waits
<1>4. CASE \E a \in Attempts : Reads(a)
  BY <1>4, ReadInv
<1>5. CASE Cancel \/ Retry \/ RetryActive \/ DeadlinePasses
  BY <1>5, QuietInv, RetryInv
<1> QED BY <1>1, <1>2, <1>3, <1>4, <1>5 DEF Next

(* In every reachable state the invariant holds.                           *)
THEOREM Invariance == Spec => []Inv
<1>1. Init => Inv
  BY InitInv
<1>2. Inv /\ [Next]_vars => Inv'
  BY NextInv
<1> QED BY <1>1, <1>2, PTL DEF Spec

-----------------------------------------------------------------------------
(* What the invariant says of a reply.                                     *)

(* The reply is the start of what one attempt's provider said: a token is  *)
(* never lost, repeated, reordered or taken over from an attempt before,   *)
(* whatever the reader, a stop, a retry and the deadline do to each other. *)
THEOREM OneAttemptSpeaks == Spec => []ReplyIsOneAttempt
<1>1. Inv => ReplyIsOneAttempt
  <2> SUFFICES ASSUME Inv PROVE \E a \in Attempts : IsPrefix(text, sent[a])
    BY DEF Inv, ReplyIsOneAttempt
  <2>1. PICK a \in Attempts : Says(text, a)
    BY DEF Inv, TextInv
  <2>2. /\ text \in Seq(Tokens) /\ sent[a] \in Seq(Tokens) /\ Len(text) \in Nat
        /\ Len(sent[a]) \in Nat /\ Numbered(text, a) /\ Numbered(sent[a], a)
        /\ Len(text) <= Len(sent[a])
    BY <2>1, TextsAreTokens DEF Inv, SentInv, Says
  <2> DEFINE start == SubSeq(sent[a], 1, Len(text))
  <2>3. /\ start \in Seq(Tokens) /\ Len(start) = Len(text)
        /\ \A i \in 1..Len(text) : start[i] = sent[a][i]
    BY <2>2
  <2>4. SubSeq(text, 1, Len(text)) = text
    BY <2>2
  <2>5. Numbered(start, a)
    <3> HIDE DEF start
    <3>1. DOMAIN start = 1..Len(text) /\ DOMAIN sent[a] = 1..Len(sent[a])
      BY <2>2, <2>3
    <3> QED BY <2>2, <2>3, <3>1 DEF Numbered
  <2> HIDE DEF start
  <2>6. start = text
    BY <2>2, <2>3, <2>5, NumberedSame
  <2> QED BY <2>2, <2>4, <2>6 DEF IsPrefix, start
<1> QED BY <1>1, Invariance, PTL

(* What the host appends to the turn, event by event, is what the attempt  *)
(* accumulates, up to the token a lifecycle event holds back.              *)
THEOREM TurnShowsTheReply == Spec => []TranscriptFollows
<1>1. Inv => TranscriptFollows
  BY DEF Inv
<1> QED BY <1>1, Invariance, PTL

(* A turn shown as completed holds the whole of what an attempt said.      *)
THEOREM CompletedRepliesAreWhole == Spec => []CompletedIsWhole
<1>1. Inv => CompletedIsWhole
  BY DEF Inv, TurnInv, CompletedIsWhole
<1> QED BY <1>1, Invariance, PTL

-----------------------------------------------------------------------------
(* What a step does to the turn.                                           *)

(* Only an event, the deadline and a retry write the turn.                 *)
LEMMA TurnWriters ==
  ASSUME [Next]_vars, turn' # turn
  PROVE  \/ PumpFallback \/ PumpLifecycle \/ PumpPending
         \/ PollCancelled \/ PollChunk \/ PollEnded \/ PollError \/ PollDisconnected \/ PollClosed
         \/ Expire \/ Retry
<1>1. ~ UNCHANGED vars
  BY DEF vars
<1>2. ~ \E a \in Attempts : Reads(a)
  BY DEF Reads, ReaderCancels, ReaderReads, ReadContinues, ReadEnds, ReaderCloses, hostVars
<1>3. ~ (PumpNothing \/ PollLate \/ CancelProvider \/ RetryDrained \/ Cancel \/ RetryActive
         \/ DeadlinePasses)
  BY DEF PumpNothing, PollLate, CancelProvider, RetryDrained, Cancel, RetryActive,
         DeadlinePasses, hostVars
<1> QED BY <1>1, <1>2, <1>3 DEF Next, Pump, Waits

(* An event that does not end the turn adds text to it only as the next    *)
(* token of a reply that is shown as streaming.                            *)
LEMMA ReceiveShows ==
  ASSUME TypeOK, NEW c, NEW n, NEW q, Receive(c, n, q)
  PROVE  \/ turn'.text = turn.text
         \/ turn'.over /\ c.kind \in Terminal /\ turn'.text = n.text
         \/ c.kind = "token" /\ n.life = shown
<1>1. turn.text = [turn EXCEPT !.life = n.life].text
  BY DEF TypeOK
<1>2. CASE n.life # shown
  BY <1>1, <1>2 DEF Receive, ShowLife
<1>3. CASE n.life = shown
  BY <1>3 DEF Receive, Forward, ShowEnd
<1> QED BY <1>2, <1>3

(* The attempt ends the turn with what it accumulated.                     *)
LEMMA EndsShow ==
  ASSUME [Next]_vars,
         PollError \/ PollDisconnected \/ PollClosed \/ Expire
  PROVE  turn'.over /\ turn'.text = inner.text
BY DEF PollError, PollDisconnected, PollClosed, Expire, EndAttempt, ShowEnd

(* A retry keeps the text of the turn or empties it.                       *)
LEMMA RetryShows ==
  ASSUME TypeOK, Retry
  PROVE  \/ turn' = turn
         \/ /\ turn'.text = turn.text \/ turn'.text = <<>>
            /\ answer' = "started" /\ attempt' > attempt /\ ~token
<1>1. attempt' = attempt + 1 /\ attempt \in Nat
  BY DEF Retry, NewAttempt, TypeOK, Attempts
<1>2. PICK keep \in BOOLEAN : \/ AttemptOpens(keep) \/ AttemptCompletes(keep)
                              \/ AttemptRefused(keep) \/ AttemptIncomplete(keep)
  BY DEF Retry
<1>3. CASE AttemptOpens(keep) \/ AttemptCompletes(keep)
  <2>1. Restarted(keep) /\ ~token
    BY <1>3 DEF AttemptOpens, AttemptCompletes
  <2> QED BY <1>1, <2>1 DEF Restarted
<1>4. CASE AttemptRefused(keep) \/ AttemptIncomplete(keep)
  BY <1>4 DEF AttemptRefused, AttemptIncomplete
<1> QED BY <1>2, <1>3, <1>4

(* Lifecycle before token, and the end last: a turn that goes on gets text *)
(* only when it is shown as streaming, and one that ended stays as it is   *)
(* until an attempt starts over, unless a retry was refused.               *)
THEOREM LifecycleThenToken == Spec => EventsInOrder
<1>1. Inv /\ [Next]_vars =>
        (/\ Len(turn'.text) > Len(turn.text) /\ ~turn'.over => turn.life = "Streaming"
         /\ turn.over /\ answer # "refused" =>
              turn' = turn \/ (answer' = "started" /\ attempt' > attempt))
  <2> SUFFICES ASSUME Inv, [Next]_vars, turn' # turn
               PROVE  /\ Len(turn'.text) > Len(turn.text) /\ ~turn'.over => turn.life = "Streaming"
                      /\ turn.over /\ answer # "refused" =>
                           answer' = "started" /\ attempt' > attempt
    <3>1. TypeOK => ~(Len(turn.text) > Len(turn.text))
      <4>1. TypeOK => Len(turn.text) \in Nat
        BY DEF TypeOK
      <4> QED BY <4>1
    <3> QED BY <3>1 DEF Inv
  <2> USE DEF Inv
  <2>0. Len(turn.text) \in Nat /\ ~(0 > Len(turn.text)) /\ Len(<<>>) = 0
    BY DEF TypeOK
  <2>1. CASE PumpFallback \/ PumpLifecycle
    <3>1. turn'.over \/ turn'.text = turn.text
      BY <2>1 DEF PumpFallback, PumpLifecycle, ShowEnd, ShowLife, TypeOK
    <3>2. ~(turn.over /\ answer # "refused")
      BY <2>1 DEF PumpFallback, PumpLifecycle, CanPump, TurnInv
    <3> QED BY <2>0, <3>1, <3>2
  <2>2. CASE PumpPending
    <3>1. Forward(Head(pending), text, inbox) /\ pending # <<>> /\ life = shown
      BY <2>2 DEF PumpPending
    <3>2. Head(pending).kind = "token" => turn.life = "Streaming"
      BY <3>1 DEF PendingInv, TurnInv
    <3>3. Head(pending).kind \in Terminal => turn'.over
      BY <3>1, Kinds DEF Forward, ShowEnd
    <3>4. ~(turn.over /\ answer # "refused")
      BY <3>1 DEF TurnInv
    <3> QED BY <3>1, <3>2, <3>3, <3>4 DEF Forward
  <2>3. CASE PollCancelled \/ PollChunk \/ PollEnded \/ PollError \/ PollDisconnected \/ PollClosed
    <3>1. CanPoll
      BY <2>3 DEF PollCancelled, PollChunk, PollEnded, PollError, PollDisconnected, PollClosed, CanReceive
    <3>2. ~finished
      BY <3>1, PollKnows
    <3>3. ~(turn.over /\ answer # "refused")
      BY <3>2 DEF TurnInv
    <3>4. ASSUME ~inner.finished, NEW c, NEW q, c.kind = "token" \/ c.kind \in Terminal \/ c.kind = "thought",
                 NEW n, n.life = Observed(c).life \/ c.kind # "token", Receive(c, n, q)
          PROVE  turn'.text = turn.text \/ turn'.over \/ turn.life = "Streaming"
      <4>1. c.kind = "token" => Observed(c).life = "Streaming"
        BY Kinds DEF Observed
      <4>2. turn.life = shown
        BY <3>1, <3>4, PollKnows
      <4> QED BY <3>4, <4>1, <4>2, ReceiveShows
    <3>5. turn'.text = turn.text \/ turn'.over \/ turn.life = "Streaming"
      <4>1. CASE PollCancelled
        <5>1. /\ ~inner.finished /\ Message("cancelled").kind = "cancelled"
              /\ Receive(Message("cancelled"), Stopped, inbox)
          BY <4>1 DEF PollCancelled, Message
        <5> QED BY <3>4, <5>1, Kinds
      <4>2. CASE PollChunk
        <5>1. /\ ~inner.finished /\ Receive(Head(inbox), Observed(Head(inbox)), Tail(inbox))
              /\ Head(inbox).kind \in Terminal \cup {"thought", "token"}
          BY <4>2 DEF PollChunk, CanReceive
        <5> QED BY <3>4, <5>1
      <4>3. CASE PollEnded
        <5>1. CASE EndAttempt("Completed")
          BY <5>1 DEF EndAttempt, ShowEnd
        <5>2. CASE Receive(Message("completed"), Observed(Message("completed")), Tail(inbox))
          <6>1. ~inner.finished /\ Message("completed").kind = "completed"
            BY <4>3 DEF PollEnded, CanReceive, Message
          <6> QED BY <3>4, <5>2, <6>1, Kinds
        <5> QED BY <4>3, <5>1, <5>2 DEF PollEnded
      <4>4. CASE PollError \/ PollDisconnected \/ PollClosed
        BY <4>4, EndsShow
      <4> QED BY <2>3, <4>1, <4>2, <4>3, <4>4
    <3> QED BY <2>0, <3>3, <3>5
  <2>4. CASE Expire
    <3>1. ~finished
      BY <2>4 DEF Expire, CallInv
    <3>2. turn'.over
      BY <2>4, EndsShow
    <3> QED BY <3>1, <3>2 DEF TurnInv
  <2>5. CASE Retry
    BY <2>0, <2>5, RetryShows
  <2> QED BY <2>1, <2>2, <2>3, <2>4, <2>5, TurnWriters
<1> QED BY <1>1, Invariance, PTL DEF Spec, EventsInOrder

(* After a stop the turn keeps its text, or ends with what was received    *)
(* before it: no chunk of the inbox and none still read is shown.          *)
THEOREM NothingAfterStop == Spec => StopIsObeyed
<1>1. Inv /\ [Next]_vars =>
        (token /\ pending = <<>> /\ open # None /\ ~turn.over
           => turn'.text \in {turn.text, inner.text})
  <2> SUFFICES ASSUME Inv, [Next]_vars, turn' # turn, token, pending = <<>>, open # None
               PROVE  turn'.text \in {turn.text, inner.text}
    OBVIOUS
  <2> USE DEF Inv
  <2>1. CASE PumpLifecycle
    BY <2>1 DEF PumpLifecycle, ShowLife, TypeOK
  <2>2. CASE PollCancelled
    <3>1. Receive(Message("cancelled"), Stopped, inbox) /\ Message("cancelled").kind = "cancelled"
          /\ Stopped.text = inner.text
      BY <2>2 DEF PollCancelled, Message, Stopped, TypeOK
    <3> QED BY <3>1, ReceiveShows
  <2>3. CASE PollClosed \/ Expire
    BY <2>3, EndsShow
  <2>4. CASE Retry
    BY <2>4, RetryShows
  <2>5. ~PumpFallback /\ ~PumpPending
    BY DEF PumpFallback, PumpPending, FallbackInv
  <2>6. ~PollChunk /\ ~PollEnded /\ ~PollError /\ ~PollDisconnected
    BY DEF PollChunk, PollEnded, PollError, PollDisconnected, CanReceive
  <2> QED BY <2>1, <2>2, <2>3, <2>4, <2>5, <2>6, TurnWriters
<1> QED BY <1>1, Invariance, PTL DEF Spec, StopIsObeyed

=============================================================================
