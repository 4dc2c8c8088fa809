--------------------------- MODULE Generation_proofs ---------------------------
(***************************************************************************)
(* Proofs about Generation, for any number of requests, any stored         *)
(* transcripts and any bound on conversations opened.                      *)
(*                                                                         *)
(* The slot keeps an index into a transcript that other calls append to,   *)
(* shorten and replace.  The invariant says what stands at that index, and *)
(* what cannot stand after it, as long as the transcript is the one the    *)
(* turn was begun in; and that none of the slot's words can be confused    *)
(* with another request's when it is not.                                  *)
(***************************************************************************)
EXTENDS Generation, SequenceTheorems, WellFoundedInduction, TLAPS

-----------------------------------------------------------------------------
(* The invariant.                                                          *)

(* Workers: those to come have done nothing, and those that work on        *)
(* although the slot does not wait for them were told.                     *)
WorkersInv ==
  /\ \A g \in Generations : g > sent => worker[g] = "none" /\ g \notin plans
  /\ StrayWorkersWereTold

(* The slot is about the latest request, and what is in its channel was    *)
(* said by that request's worker with its last words.                      *)
SlotInv ==
  /\ Full => g0 = sent /\ sent > 0
  /\ inbox # <<>> => Head(inbox).gen = g0 /\ worker[g0] = "done"
  /\ moved => switches > 0

Blank(t) == t.role = "assistant" /\ t.by = {}

(* The transcript ts while n requests were sent, the slot is sl and mv says *)
(* whether the transcript was replaced under it.                           *)
TurnsOwn(ts, n) ==
  /\ \A i \in DOMAIN ts :
       /\ ts[i].gen <= n
       /\ ts[i].gen # Nobody => ts[i].by \subseteq {ts[i].gen}
  /\ \A i, j \in DOMAIN ts :
       ts[i].gen # Nobody /\ ts[j].gen = ts[i].gen /\ ts[j].role = ts[i].role => j = i

SlotsTurn(ts, sl) ==
  /\ sl.turn \in DOMAIN ts
  /\ ts[sl.turn].role = "assistant" /\ ts[sl.turn].gen = sl.gen
  /\ ts[sl.turn].card = Nobody
  /\ sl.at = "starting" => Blank(ts[sl.turn])
  /\ \A i \in DOMAIN ts : i > sl.turn => ts[i].life = "none"

Spinners(ts, sl) ==
  \A i \in DOMAIN ts : ts[i].life \in Spinning =>
    /\ sl.at # "empty" /\ sl.turn = i
    /\ sl.at = "starting" => Blank(ts[i])

TranscriptInv(ts, n, sl, mv) ==
  /\ TurnsOwn(ts, n)
  /\ Spinners(ts, sl)
  /\ sl.at # "empty" /\ ~mv => SlotsTurn(ts, sl)
  /\ sl.at # "empty" /\ mv => \A i \in DOMAIN ts : ts[i].gen = Nobody

Inv ==
  /\ TypeOK /\ WorkersInv /\ SlotInv
  /\ TranscriptInv(turns, sent, slot, moved)
  /\ PausedPlanIsShown

-----------------------------------------------------------------------------
(* The operators on transcripts.                                           *)

(* RemoveAt takes one element out; those behind it move up.                *)
LEMMA RemovedTurn ==
  ASSUME NEW ts \in Seq(Turns), NEW k \in DOMAIN ts
  PROVE  /\ RemoveAt(ts, k) \in Seq(Turns)
         /\ DOMAIN RemoveAt(ts, k) = 1..(Len(ts) - 1)
         /\ \A i \in 1..(Len(ts) - 1) :
              RemoveAt(ts, k)[i] = ts[IF i < k THEN i ELSE i + 1]
<1> DEFINE a == SubSeq(ts, 1, k - 1)
           b == SubSeq(ts, k + 1, Len(ts))
<1>1. k \in 1..Len(ts) /\ Len(ts) \in Nat
  OBVIOUS
<1>2. a \in Seq(Turns) /\ Len(a) = k - 1 /\ \A i \in 1..(k - 1) : a[i] = ts[i]
  BY <1>1
<1>3. b \in Seq(Turns) /\ Len(b) = Len(ts) - k /\ \A i \in 1..(Len(ts) - k) : b[i] = ts[k + i]
  BY <1>1
<1> HIDE DEF a, b
<1>4. /\ a \o b \in Seq(Turns) /\ Len(a \o b) = Len(ts) - 1
      /\ \A i \in 1..(Len(ts) - 1) : (a \o b)[i] = IF i < k THEN a[i] ELSE b[i - (k - 1)]
  <2>1. /\ a \o b \in Seq(Turns) /\ Len(a \o b) = Len(a) + Len(b)
        /\ \A i \in 1..(Len(a) + Len(b)) :
             (a \o b)[i] = IF i <= Len(a) THEN a[i] ELSE b[i - Len(a)]
    BY <1>2, <1>3, ConcatProperties
  <2>2. Len(a) + Len(b) = Len(ts) - 1
    BY <1>1, <1>2, <1>3
  <2>3. \A i \in 1..(Len(ts) - 1) : i <= k - 1 <=> i < k
    BY <1>1
  <2> QED BY <1>2, <2>1, <2>2, <2>3
<1>5. \A i \in 1..(Len(ts) - 1) : (a \o b)[i] = ts[IF i < k THEN i ELSE i + 1]
  <2> SUFFICES ASSUME NEW i \in 1..(Len(ts) - 1)
               PROVE  (a \o b)[i] = ts[IF i < k THEN i ELSE i + 1]
    OBVIOUS
  <2>1. CASE i < k
    BY <1>1, <1>2, <1>4, <2>1
  <2>2. CASE ~(i < k)
    <3>1. i - (k - 1) \in 1..(Len(ts) - k) /\ k + (i - (k - 1)) = i + 1
      BY <1>1, <2>2
    <3> QED BY <1>3, <1>4, <2>2, <3>1
  <2> QED BY <2>1, <2>2
<1>6. RemoveAt(ts, k) = a \o b
  BY DEF RemoveAt, a, b
<1> QED BY <1>4, <1>5, <1>6

(* A set of numbers up to n that has a member has a greatest one.          *)
LEMMA GreatestNatural ==
  ASSUME NEW n \in Nat, NEW T, T \subseteq 1..n, T # {}
  PROVE  \E x \in T : \A y \in T : x >= y
<1> DEFINE R == {ss \in Nat \X Nat : ss[1] < ss[2]}
           U == {n - x : x \in T}
<1>1. IsWellFoundedOn(R, Nat)
  BY NatLessThanWellFounded DEF OpToRel
<1>2. U \subseteq Nat /\ U # {}
  <2>1. \A x \in T : n - x \in Nat
    OBVIOUS
  <2>2. PICK x \in T : TRUE
    OBVIOUS
  <2>3. n - x \in U
    OBVIOUS
  <2> QED BY <2>1, <2>3
<1>3. PICK u \in U : \A v \in U : <<v, u>> \notin R
  <2> HIDE DEF R, U
  <2> QED BY <1>1, <1>2, WFMin
<1>4. \A x, y \in Nat : <<y, x>> \notin R => x <= y
  OBVIOUS
<1>5. PICK x \in T : u = n - x
  OBVIOUS
<1>6. \A y \in T : n - y \in U
  OBVIOUS
<1>7. \A y \in T : n - x <= n - y
  <2> HIDE DEF R, U
  <2> QED BY <1>2, <1>3, <1>4, <1>5, <1>6
<1> QED BY <1>5, <1>7

(* WithoutLast leaves the transcript or takes one turn out of it.          *)
LEMMA WithoutLastTakesOne ==
  ASSUME NEW ts \in Seq(Turns), NEW role
  PROVE  \/ WithoutLast(ts, role) = ts
         \/ \E k \in DOMAIN ts : WithoutLast(ts, role) = RemoveAt(ts, k)
<1> DEFINE I == {i \in 1..Len(ts) : ts[i].role = role}
           last == SelectLastInSeq(ts, LAMBDA t : t.role = role)
<1>1. last = IF I # {} THEN CHOOSE x \in I : \A y \in I : x >= y ELSE 0
  BY DEF SelectLastInSeq, Max
<1>2. I # {} => last \in I
  <2>1. I \subseteq 1..Len(ts) /\ Len(ts) \in Nat
    OBVIOUS
  <2> HIDE DEF I, last
  <2>2. I # {} => \E x \in I : \A y \in I : x >= y
    BY <2>1, GreatestNatural
  <2> QED BY <1>1, <2>2
<1>3. WithoutLast(ts, role) = IF last = 0 THEN ts ELSE RemoveAt(ts, last)
  BY DEF WithoutLast
<1> HIDE DEF last
<1>4. CASE I = {}
  BY <1>1, <1>3, <1>4
<1>5. CASE I # {}
  <2>1. last \in DOMAIN ts /\ last # 0
    BY <1>2, <1>5
  <2> QED BY <1>3, <2>1
<1> QED BY <1>4, <1>5

(* Who wrote what stays settled when a turn is taken out,                  *)
LEMMA TurnsOwnRemoved ==
  ASSUME NEW ts \in Seq(Turns), NEW n, TurnsOwn(ts, n), NEW k \in DOMAIN ts
  PROVE  TurnsOwn(RemoveAt(ts, k), n)
<1> DEFINE s == RemoveAt(ts, k)
           f(i) == IF i < k THEN i ELSE i + 1
<1>1. DOMAIN s = 1..(Len(ts) - 1) /\ \A i \in 1..(Len(ts) - 1) : s[i] = ts[f(i)]
  BY RemovedTurn
<1>2. /\ \A i \in 1..(Len(ts) - 1) : f(i) \in DOMAIN ts
      /\ \A i, j \in 1..(Len(ts) - 1) : f(i) = f(j) => i = j
  OBVIOUS
<1> HIDE DEF s, f
<1>3. \A i \in DOMAIN s : /\ s[i].gen <= n
                          /\ s[i].gen # Nobody => s[i].by \subseteq {s[i].gen}
  BY <1>1, <1>2 DEF TurnsOwn
<1>4. ASSUME NEW i \in DOMAIN s, NEW j \in DOMAIN s,
             s[i].gen # Nobody, s[j].gen = s[i].gen, s[j].role = s[i].role
      PROVE  j = i
  <2>1. s[i] = ts[f(i)] /\ s[j] = ts[f(j)] /\ f(i) \in DOMAIN ts /\ f(j) \in DOMAIN ts
    BY <1>1, <1>2
  <2>2. f(j) = f(i)
    BY <1>4, <2>1 DEF TurnsOwn
  <2> QED BY <1>1, <1>2, <2>2
<1>5. TurnsOwn(s, n)
  BY <1>3, <1>4 DEF TurnsOwn
<1> QED BY <1>5 DEF s

(* ... and when one is added that repeats no turn of a request.            *)
LEMMA TurnsOwnAppended ==
  ASSUME NEW ts \in Seq(Turns), NEW n, TurnsOwn(ts, n), NEW t \in Turns, t.gen <= n,
         t.gen # Nobody => /\ t.by \subseteq {t.gen}
                           /\ \A i \in DOMAIN ts : ts[i].gen = t.gen => ts[i].role # t.role
  PROVE  TurnsOwn(Append(ts, t), n)
<1>1. DOMAIN Append(ts, t) = 1..(Len(ts) + 1) /\ DOMAIN ts = 1..Len(ts) /\ Len(ts) \in Nat
  OBVIOUS
<1>2. /\ \A i \in 1..Len(ts) : Append(ts, t)[i] = ts[i]
      /\ Append(ts, t)[Len(ts) + 1] = t
  OBVIOUS
<1>3. \A i \in 1..(Len(ts) + 1) : i \in 1..Len(ts) \/ i = Len(ts) + 1
  BY <1>1
<1> QED BY <1>1, <1>2, <1>3 DEF TurnsOwn

(* A transcript no reply is written in.                                    *)
Still(ts) == \A i \in DOMAIN ts : ts[i].life \notin Spinning

(* Regenerate sends again from such a transcript without its last turns.   *)
LEMMA StillWithoutLast ==
  ASSUME NEW ts \in Seq(Turns), NEW n, TurnsOwn(ts, n), Still(ts), NEW role
  PROVE  /\ WithoutLast(ts, role) \in Seq(Turns)
         /\ TurnsOwn(WithoutLast(ts, role), n) /\ Still(WithoutLast(ts, role))
<1>1. CASE WithoutLast(ts, role) = ts
  BY <1>1
<1>2. ASSUME NEW k \in DOMAIN ts, WithoutLast(ts, role) = RemoveAt(ts, k)
      PROVE  /\ WithoutLast(ts, role) \in Seq(Turns)
             /\ TurnsOwn(WithoutLast(ts, role), n) /\ Still(WithoutLast(ts, role))
  <2> DEFINE s == RemoveAt(ts, k)
  <2>1. /\ s \in Seq(Turns) /\ DOMAIN s = 1..(Len(ts) - 1)
        /\ \A i \in 1..(Len(ts) - 1) : s[i] = ts[IF i < k THEN i ELSE i + 1]
    BY RemovedTurn
  <2>2. \A i \in 1..(Len(ts) - 1) : (IF i < k THEN i ELSE i + 1) \in DOMAIN ts
    OBVIOUS
  <2>3. TurnsOwn(s, n)
    BY TurnsOwnRemoved
  <2> HIDE DEF s
  <2>4. Still(s)
    BY <2>1, <2>2 DEF Still
  <2> QED BY <1>2, <2>1, <2>3, <2>4 DEF s
<1> QED BY <1>1, <1>2, WithoutLastTakesOne

(* The transcript ts is this one with the turn at k rewritten by g.        *)
Rewrites(ts, k, g) ==
  /\ ts \in Seq(Turns) /\ DOMAIN ts = DOMAIN turns
  /\ \A i \in DOMAIN turns :
       /\ ts[i].role = turns[i].role /\ ts[i].gen = turns[i].gen
       /\ ts[i].card = turns[i].card
       /\ ts[i].by \subseteq turns[i].by \cup {g}
       /\ i # k => ts[i] = turns[i]

(* Update and what is written with it rewrite one turn.                    *)
LEMMA UpdateRewrites ==
  ASSUME TypeOK, NEW k, NEW g, NEW t,
         k \in DOMAIN turns =>
           /\ t \in Turns
           /\ t.role = turns[k].role /\ t.gen = turns[k].gen /\ t.card = turns[k].card
           /\ t.by \subseteq turns[k].by \cup {g}
  PROVE  Rewrites(Update(k, t), k, g) /\ (k \in DOMAIN turns => Update(k, t)[k] = t)
BY DEF TypeOK, Update, Rewrites

(* What ends a turn rewrites it, at that end.                              *)
LEMMA FinalizedRewrites ==
  ASSUME TypeOK, NEW k, NEW g \in 0..MaxGenerations, NEW l \in Ends
  PROVE  /\ Rewrites(Finalized(k, g, l), k, g)
         /\ k \in DOMAIN turns => Finalized(k, g, l)[k].life = l
<1> DEFINE t == [turns[k] EXCEPT !.by = {g}, !.life = l]
<1>1. k \in DOMAIN turns =>
        /\ t \in Turns /\ t.life = l
        /\ t.role = turns[k].role /\ t.gen = turns[k].gen /\ t.card = turns[k].card
        /\ t.by \subseteq turns[k].by \cup {g}
  <2> SUFFICES ASSUME k \in DOMAIN turns PROVE
        /\ t \in Turns /\ t.life = l
        /\ t.role = turns[k].role /\ t.gen = turns[k].gen /\ t.card = turns[k].card
        /\ t.by \subseteq turns[k].by \cup {g}
    OBVIOUS
  <2>1. turns[k] \in Turns
    BY DEF TypeOK
  <2> QED BY <2>1 DEF Turns
<1>2. Finalized(k, g, l) = Update(k, t)
  BY DEF Finalized
<1> HIDE DEF t
<1> QED BY <1>1, <1>2, UpdateRewrites

(* A token of the stream rewrites the turn of a reply, if it is one.       *)
LEMMA WithTokenRewrites ==
  ASSUME TypeOK, NEW k, NEW g \in 0..MaxGenerations
  PROVE  Rewrites(WithToken(k, g), k, g)
<1> DEFINE t == [turns[k] EXCEPT !.by = @ \cup {g},
                    !.life = IF @ = "Completed" THEN @ ELSE "Streaming"]
<1>1. CASE k \in DOMAIN turns /\ turns[k].role = "assistant"
  <2>1. turns[k] \in Turns
    BY <1>1 DEF TypeOK
  <2>2. /\ t \in Turns
        /\ t.role = turns[k].role /\ t.gen = turns[k].gen /\ t.card = turns[k].card
        /\ t.by \subseteq turns[k].by \cup {g}
    BY <2>1 DEF Turns, Spinning, Ends
  <2>3. WithToken(k, g) = Update(k, t)
    BY <1>1 DEF WithToken
  <2> HIDE DEF t
  <2> QED BY <2>2, <2>3, UpdateRewrites
<1>2. CASE ~(k \in DOMAIN turns /\ turns[k].role = "assistant")
  BY <1>2 DEF WithToken, Rewrites, TypeOK
<1> QED BY <1>1, <1>2

(* A retry empties the turn of a reply, if it is one.                      *)
LEMMA ResetRewrites ==
  ASSUME TypeOK, NEW k, NEW g
  PROVE  Rewrites(Reset(k), k, g)
<1> DEFINE t == [turns[k] EXCEPT !.by = {}, !.life = "Thinking"]
<1>1. CASE k \in DOMAIN turns /\ turns[k].role = "assistant"
  <2>1. turns[k] \in Turns
    BY <1>1 DEF TypeOK
  <2>2. /\ t \in Turns
        /\ t.role = turns[k].role /\ t.gen = turns[k].gen /\ t.card = turns[k].card
        /\ t.by \subseteq turns[k].by \cup {g}
    BY <2>1 DEF Turns, Spinning
  <2>3. Reset(k) = Update(k, t)
    BY <1>1 DEF Reset
  <2> HIDE DEF t
  <2> QED BY <2>2, <2>3, UpdateRewrites
<1>2. CASE ~(k \in DOMAIN turns /\ turns[k].role = "assistant")
  BY <1>2 DEF Reset, Rewrites, TypeOK
<1> QED BY <1>1, <1>2

(* What announces the end of a turn leaves its words.                      *)
LEMMA WithLifeRewrites ==
  ASSUME TypeOK, NEW k, NEW g, NEW l \in Ends
  PROVE  Rewrites(WithLife(k, l), k, g)
<1> DEFINE t == [turns[k] EXCEPT !.life = l]
<1>1. k \in DOMAIN turns =>
        /\ t \in Turns
        /\ t.role = turns[k].role /\ t.gen = turns[k].gen /\ t.card = turns[k].card
        /\ t.by \subseteq turns[k].by \cup {g}
  <2> SUFFICES ASSUME k \in DOMAIN turns PROVE
        /\ t \in Turns
        /\ t.role = turns[k].role /\ t.gen = turns[k].gen /\ t.card = turns[k].card
        /\ t.by \subseteq turns[k].by \cup {g}
    OBVIOUS
  <2>1. turns[k] \in Turns
    BY DEF TypeOK
  <2> QED BY <2>1 DEF Turns
<1>2. WithLife(k, l) = Update(k, t)
  BY DEF WithLife
<1> HIDE DEF t
<1> QED BY <1>1, <1>2, UpdateRewrites

(* A turn of the slot's request that is rewritten by it keeps the          *)
(* transcript in order, for the slot goes on about the same turn or is      *)
(* emptied with that turn at an end.                                       *)
LEMMA RewrittenInv ==
  ASSUME Inv, Full, NEW ts, Rewrites(ts, slot.turn, g0),
         NEW sl, \/ sl.at = "active" /\ sl.gen = g0 /\ sl.turn = slot.turn
                 \/ /\ sl = Empty
                    /\ slot.turn \in DOMAIN turns => ts[slot.turn].life \in Ends
  PROVE  TranscriptInv(ts, sent, sl, moved)
<1> USE DEF Inv, Full, TranscriptInv, g0
<1>1. DOMAIN ts = DOMAIN turns
  BY DEF Rewrites
<1>2. ASSUME NEW i \in DOMAIN turns, ts[i].gen # Nobody
      PROVE  ts[i].by \subseteq {ts[i].gen}
  <2>1. ts[i].gen = turns[i].gen /\ ts[i].by \subseteq turns[i].by \cup {g0}
    BY DEF Rewrites
  <2>2. turns[i].by \subseteq {turns[i].gen}
    BY <1>2, <2>1 DEF TurnsOwn
  <2>3. CASE i # slot.turn
    BY <2>2, <2>3 DEF Rewrites
  <2>4. CASE i = slot.turn
    <3>1. ~moved
      BY <1>2, <2>1
    <3>2. turns[i].gen = g0
      BY <2>4, <3>1 DEF SlotsTurn
    <3> QED BY <2>1, <2>2, <3>2
  <2> QED BY <2>3, <2>4
<1>3. TurnsOwn(ts, sent)
  BY <1>1, <1>2 DEF TurnsOwn, Rewrites
<1>4. \A i \in DOMAIN turns : i # slot.turn => ts[i].life \notin Spinning
  BY DEF Rewrites, Spinners
<1>5. Spinners(ts, sl)
  <2>1. Ends \cap Spinning = {}
    BY DEF Ends, Spinning
  <2> QED BY <1>1, <1>4, <2>1 DEF Spinners, Empty
<1>6. ASSUME sl.at # "empty", ~moved PROVE SlotsTurn(ts, sl)
  <2>1. SlotsTurn(turns, slot) /\ sl.at = "active" /\ sl.gen = g0 /\ sl.turn = slot.turn
    BY <1>6 DEF Empty
  <2> QED BY <1>1, <2>1 DEF SlotsTurn, Rewrites
<1>7. ASSUME sl.at # "empty", moved PROVE \A i \in DOMAIN ts : ts[i].gen = Nobody
  BY <1>1, <1>7 DEF Rewrites
<1> QED BY <1>3, <1>5, <1>6, <1>7

-----------------------------------------------------------------------------
(* The steps of a worker.                                                  *)

Awaited(g) == slot.at = "starting" /\ g0 = g

Kinds == {"ready", "failed", "said", "silent", "paused"}

(* What a worker does to the state the invariant reads: it tells the slot  *)
(* only what ends it, and a plan it pauses it tells the slot that waits.   *)
LEMMA WorkEffect ==
  ASSUME TypeOK, NEW g \in Generations, Works(g)
  PROVE  /\ WorkerUnchanged
         /\ worker[g] \in Running
         /\ \E w \in Running \cup {"done"} :
              /\ worker' = [worker EXCEPT ![g] = w]
              /\ \/ inbox' = inbox
                 \/ /\ Awaited(g) /\ w = "done"
                    /\ \E kind \in Kinds : inbox' = <<[gen |-> g, kind |-> kind]>>
         /\ \/ plans' \in {plans, {}}
            \/ /\ plans' = plans \cup {g}
               /\ Awaited(g) => inbox' = <<[gen |-> g, kind |-> "paused"]>>
<1> USE DEF Running, Awaited, Kinds
<1>1. CASE WorkerStops(g)
  BY <1>1 DEF WorkerStops
<1>2. CASE WorkerPrepares(g)
  BY <1>2 DEF WorkerPrepares
<1>3. CASE WorkerOpens(g)
  BY <1>3 DEF WorkerOpens
<1>4. CASE WorkerIsReady(g)
  BY <1>4 DEF WorkerIsReady, Tell
<1>5. CASE WorkerFallsBack(g)
  BY <1>5 DEF WorkerFallsBack
<1>6. CASE WorkerAnswers(g)
  <2>1. CASE Tell(g, "said") /\ UNCHANGED plans
    BY <1>6, <2>1 DEF WorkerAnswers, Tell
  <2>2. CASE Tell(g, "silent") /\ UNCHANGED plans
    BY <1>6, <2>2 DEF WorkerAnswers, Tell
  <2>3. CASE Tell(g, "paused") /\ plans' = plans \cup {g}
    BY <1>6, <2>3 DEF WorkerAnswers, Tell
  <2> QED BY <1>6, <2>1, <2>2, <2>3 DEF WorkerAnswers
<1>7. CASE WorkerFails(g)
  BY <1>7 DEF WorkerFails, Tell
<1> QED BY <1>1, <1>2, <1>3, <1>4, <1>5, <1>6, <1>7 DEF Works

(* Whatever a worker does, whoever the slot waits for.                     *)
LEMMA WorkInv ==
  ASSUME Inv, NEW g \in Generations, Works(g)
  PROVE  Inv'
<1> USE DEF Inv
<1>1. WorkerUnchanged /\ worker[g] \in Running
  BY WorkEffect
<1>2. PICK w \in Running \cup {"done"} :
        /\ worker' = [worker EXCEPT ![g] = w]
        /\ \/ inbox' = inbox
           \/ /\ Awaited(g) /\ w = "done"
              /\ \E kind \in Kinds : inbox' = <<[gen |-> g, kind |-> kind]>>
  BY WorkEffect
<1>3. \/ plans' \in {plans, {}}
      \/ /\ plans' = plans \cup {g}
         /\ Awaited(g) => inbox' = <<[gen |-> g, kind |-> "paused"]>>
  BY WorkEffect
<1>4. g <= sent
  <2>1. g \in Nat /\ sent \in Nat
    BY GenerationAssumption DEF Generations, TypeOK
  <2>2. worker[g] # "none"
    BY <1>1 DEF Running
  <2> QED BY <2>1, <2>2 DEF WorkersInv
<1>5. TypeOK'
  <2>1. \A kind \in Kinds : [gen |-> g, kind |-> kind] \in Outcomes
    BY DEF Kinds, Outcomes
  <2>2. /\ inbox' \in Seq(Outcomes) /\ Len(inbox') <= 1
        /\ inbox' # <<>> => slot.at = "starting"
    <3>1. CASE inbox' = inbox
      BY <3>1 DEF TypeOK
    <3>2. ASSUME Awaited(g), NEW kind \in Kinds, inbox' = <<[gen |-> g, kind |-> kind]>>
          PROVE  /\ inbox' \in Seq(Outcomes) /\ Len(inbox') <= 1
                 /\ inbox' # <<>> => slot.at = "starting"
      BY <2>1, <3>2 DEF Awaited
    <3> QED BY <1>2, <3>1, <3>2
  <2>3. plans' \subseteq Generations
    BY <1>3 DEF TypeOK
  <2>4. worker' \in [Generations -> Running \cup {"none", "done"}]
    BY <1>2 DEF TypeOK
  <2> QED BY <1>1, <2>2, <2>3, <2>4 DEF TypeOK, WorkerUnchanged
<1>6. WorkersInv'
  <2>1. \A h \in Generations : h > sent => h # g
    BY <1>4, GenerationAssumption DEF TypeOK, Generations
  <2>2. \A h \in Generations : h # g => worker'[h] = worker[h]
    BY <1>2 DEF TypeOK
  <2>3. \A h \in Generations : worker'[h] \in Running => worker[h] \in Running
    BY <1>1, <2>2
  <2>4. \A h \in Generations : h # g /\ h \notin plans => h \notin plans'
    BY <1>3
  <2>5. StrayWorkersWereTold'
    BY <1>1, <2>3 DEF WorkersInv, StrayWorkersWereTold, WorkerUnchanged, g0
  <2> QED BY <1>1, <2>1, <2>2, <2>4, <2>5 DEF WorkersInv, WorkerUnchanged
<1>7. SlotInv'
  <2>1. worker'[g] = w
    BY <1>2 DEF TypeOK
  <2>2. inbox' # <<>> => Head(inbox').gen = g0 /\ worker'[g0] = "done"
    <3>1. CASE inbox' = inbox
      <4>1. inbox # <<>> => g0 # g
        BY <1>1 DEF SlotInv, Running
      <4>2. inbox # <<>> => g0 \in Generations
        <5>1. inbox # <<>> => Head(inbox) \in Outcomes
          BY DEF TypeOK
        <5> QED BY <5>1 DEF SlotInv, Outcomes
      <4>3. inbox # <<>> => worker'[g0] = worker[g0]
        BY <1>2, <4>1, <4>2 DEF TypeOK
      <4> QED BY <3>1, <4>3 DEF SlotInv
    <3>2. ASSUME Awaited(g), w = "done", NEW kind \in Kinds,
                 inbox' = <<[gen |-> g, kind |-> kind]>>
          PROVE  Head(inbox').gen = g0 /\ worker'[g0] = "done"
      BY <2>1, <3>2 DEF Awaited
    <3> QED BY <1>2, <3>1, <3>2
  <2> QED BY <1>1, <2>2 DEF SlotInv, WorkerUnchanged, Full, g0
<1>8. TranscriptInv(turns, sent, slot, moved)'
  BY <1>1 DEF WorkerUnchanged, TranscriptInv, TurnsOwn, Spinners, SlotsTurn, Blank
<1>9. PausedPlanIsShown'
  <2> SUFFICES ASSUME switches = 0, NEW h \in plans', h = sent, ~gaveUp[h]
               PROVE  (\E i \in DOMAIN turns : turns[i].card = h) \/ Arrived("paused")'
    BY <1>1 DEF PausedPlanIsShown, WorkerUnchanged
  <2>1. CASE h \in plans
    <3>1. CASE \E i \in DOMAIN turns : turns[i].card = h
      BY <3>1
    <3>2. CASE Arrived("paused")
      <4>1. slot.at = "starting" /\ inbox # <<>> /\ g0 # g
        BY <1>1, <3>2 DEF Arrived, SlotInv, Running
      <4> QED BY <1>1, <1>2, <3>2, <4>1 DEF Arrived, Awaited, WorkerUnchanged
    <3>3. (\E i \in DOMAIN turns : turns[i].card = h) \/ Arrived("paused")
      BY <2>1 DEF PausedPlanIsShown
    <3> QED BY <3>1, <3>2, <3>3
  <2>2. CASE h \notin plans
    <3>1. h = g /\ (Awaited(g) => inbox' = <<[gen |-> g, kind |-> "paused"]>>)
      BY <1>3, <2>2
    <3>2. Awaited(g)
      BY <1>1, <3>1 DEF WorkersInv, StrayWorkersWereTold, Awaited
    <3>3. inbox' = <<[gen |-> g, kind |-> "paused"]>>
      BY <3>1, <3>2
    <3>4. inbox' # <<>> /\ Head(inbox').kind = "paused"
      BY <3>3
    <3> QED BY <1>1, <3>2, <3>4 DEF Arrived, Awaited, WorkerUnchanged
  <2> QED BY <2>1, <2>2
<1> QED BY <1>5, <1>6, <1>7, <1>8, <1>9

-----------------------------------------------------------------------------
(* The steps that leave the transcript's turns in their places.            *)

(* What the invariant reads of the stream, its token and the composer.     *)
FlagsOK ==
  /\ stream \in {"none", "thinking", "streaming", "Completed", "Failed", "dead"}
  /\ stopped \in BOOLEAN /\ awaiting \in BOOLEAN

(* A step that changes these only.                                         *)
LEMMA QuietInv ==
  ASSUME Inv, FlagsOK',
         UNCHANGED <<turns, sent, slot, inbox, worker, gaveUp, plans, moved, switches>>
  PROVE  Inv'
<1>1. TypeOK'
  BY DEF Inv, TypeOK, FlagsOK
<1>2. WorkersInv' /\ SlotInv'
  BY DEF Inv, WorkersInv, StrayWorkersWereTold, SlotInv, Full, g0
<1>3. TranscriptInv(turns, sent, slot, moved)'
  BY DEF Inv, TranscriptInv, TurnsOwn, Spinners, SlotsTurn, Blank
<1>4. PausedPlanIsShown'
  BY DEF Inv, PausedPlanIsShown, Arrived
<1> QED BY <1>1, <1>2, <1>3, <1>4 DEF Inv

(* The cards stay where they are, and so do the words of the others.       *)
LEMMA RewrittenCards ==
  ASSUME NEW k, NEW g, Rewrites(turns', k, g),
         NEW h, \E i \in DOMAIN turns : turns[i].card = h
  PROVE  \E i \in DOMAIN turns' : turns'[i].card = h
BY DEF Rewrites

(* The open reply writes its turn.                                         *)
LEMMA ReplyInv ==
  ASSUME Inv, slot.at = "active", Rewrites(turns', slot.turn, g0), FlagsOK',
         UNCHANGED <<sent, slot, inbox, worker, gaveUp, plans, moved, switches>>
  PROVE  Inv'
<1>1. TypeOK'
  BY DEF Inv, TypeOK, FlagsOK, Rewrites
<1>2. WorkersInv' /\ SlotInv'
  BY DEF Inv, WorkersInv, StrayWorkersWereTold, SlotInv, Full, g0
<1>3. TranscriptInv(turns', sent, slot, moved)
  BY RewrittenInv DEF Full, g0
<1>4. TranscriptInv(turns, sent, slot, moved)'
  BY <1>3 DEF TranscriptInv, TurnsOwn, Spinners, SlotsTurn, Blank
<1>5. PausedPlanIsShown'
  <2>1. ~Arrived("paused")
    BY DEF Arrived
  <2> QED BY <2>1, RewrittenCards DEF Inv, PausedPlanIsShown
<1> QED BY <1>1, <1>2, <1>4, <1>5 DEF Inv

(* The slot's turn comes to an end and the slot is emptied: its worker is  *)
(* done or is told, and the card that was on its way is not missed.        *)
LEMMA EndedInv ==
  ASSUME Inv, Full, NEW l \in Ends, turns' = Finalized(slot.turn, g0, l),
         slot' = Empty, inbox' = <<>>, FlagsOK',
         gaveUp' \in [Generations -> BOOLEAN], \A g \in Generations : gaveUp[g] => gaveUp'[g],
         slot.at = "starting" => gaveUp'[g0] \/ (inbox # <<>> /\ ~Arrived("paused")),
         UNCHANGED <<sent, worker, plans, moved, switches>>
  PROVE  Inv'
<1> USE DEF Inv
<1>1. g0 \in 0..MaxGenerations
  BY DEF TypeOK, g0
<1>2. /\ Rewrites(turns', slot.turn, g0)
      /\ slot.turn \in DOMAIN turns => turns'[slot.turn].life = l
  BY <1>1, FinalizedRewrites
<1>3. TypeOK'
  BY <1>2, GenerationAssumption DEF TypeOK, FlagsOK, Rewrites, Empty, Nobody
<1>4. WorkersInv'
  <2>1. ASSUME NEW g \in Generations, worker[g] \in Running PROVE gaveUp'[g]
    <3>1. CASE slot.at = "starting" /\ g0 = g
      BY <2>1, <3>1 DEF SlotInv, Running
    <3>2. CASE ~(slot.at = "starting" /\ g0 = g)
      BY <2>1, <3>2 DEF WorkersInv, StrayWorkersWereTold
    <3> QED BY <3>1, <3>2
  <2> QED BY <2>1 DEF WorkersInv, StrayWorkersWereTold
<1>5. SlotInv'
  BY DEF SlotInv, Full, Empty
<1>6. TranscriptInv(turns', sent, slot', moved)
  BY <1>2, RewrittenInv DEF Full, g0
<1>7. TranscriptInv(turns, sent, slot, moved)'
  BY <1>6 DEF TranscriptInv, TurnsOwn, Spinners, SlotsTurn, Blank
<1>8. PausedPlanIsShown'
  <2> SUFFICES ASSUME switches = 0, NEW h \in plans, h = sent, ~gaveUp'[h]
               PROVE  \E i \in DOMAIN turns' : turns'[i].card = h
    BY DEF PausedPlanIsShown
  <2>1. ~gaveUp[h]
    BY DEF TypeOK
  <2>2. ~Arrived("paused")
    BY DEF SlotInv, Arrived, Full
  <2>3. \E i \in DOMAIN turns : turns[i].card = h
    BY <2>1, <2>2 DEF PausedPlanIsShown
  <2> QED BY <1>2, <2>3, RewrittenCards
<1> QED BY <1>3, <1>4, <1>5, <1>7, <1>8

-----------------------------------------------------------------------------
(* The steps that append to the transcript, shorten it or replace it.      *)

(* A turn as it is made, whatever is then said of its life.                *)
LEMMA TurnIsTurn ==
  ASSUME NEW role \in {"user", "assistant"}, NEW g \in 0..MaxGenerations
  PROVE  /\ Turn(role, g) \in Turns
         /\ Turn(role, g).role = role /\ Turn(role, g).gen = g
         /\ Turn(role, g).life = "none" /\ Turn(role, g).card = Nobody
         /\ Turn(role, g).by = {g}
BY GenerationAssumption DEF Turn, Turns, Nobody

(* begin_user_request on a transcript no reply is written in.              *)
LEMMA BeginInv ==
  ASSUME Inv, ~Full, NEW ts \in Seq(Turns), TurnsOwn(ts, sent), Still(ts), Begin(ts)
  PROVE  Inv'
<1> USE DEF Inv
<1> DEFINE n == sent + 1
           u == Turn("user", n)
           a == [Turn("assistant", n) EXCEPT !.life = "Thinking", !.by = {}]
<1>1. /\ n \in Generations /\ n \in 0..MaxGenerations /\ sent \in Nat /\ n # Nobody
      /\ sent' = n /\ slot' = [at |-> "starting", gen |-> n, turn |-> Len(turns')]
      /\ inbox' = <<>> /\ stream' = "none" /\ stopped' = FALSE
      /\ worker' = [worker EXCEPT ![n] = "begun"]
      /\ awaiting' = TRUE /\ moved' = FALSE
      /\ UNCHANGED <<gaveUp, plans, switches>>
      /\ turns' = ts \o <<u, a>>
  BY GenerationAssumption DEF Begin, TypeOK, Generations, Nobody
<1>2. /\ u \in Turns /\ u.role = "user" /\ u.gen = n /\ u.by = {n} /\ u.life = "none"
      /\ Turn("assistant", n) \in Turns /\ Turn("assistant", n).role = "assistant"
      /\ Turn("assistant", n).gen = n /\ Turn("assistant", n).card = Nobody
  BY <1>1, TurnIsTurn
<1>3. /\ a \in Turns /\ a.role = "assistant" /\ a.gen = n /\ a.by = {}
      /\ a.life = "Thinking" /\ a.card = Nobody
  BY <1>2 DEF Turns, Spinning
<1> HIDE DEF u, a, n
<1>4. turns' = Append(Append(ts, u), a)
  BY <1>1, <1>2, <1>3
<1>5. /\ Append(ts, u) \in Seq(Turns)
      /\ DOMAIN ts = 1..Len(ts) /\ DOMAIN Append(ts, u) = 1..(Len(ts) + 1)
      /\ \A i \in 1..Len(ts) : Append(ts, u)[i] = ts[i]
      /\ Append(ts, u)[Len(ts) + 1] = u
      /\ turns' \in Seq(Turns) /\ Len(turns') = Len(ts) + 2 /\ Len(ts) \in Nat
      /\ \A i \in 1..Len(ts) : turns'[i] = ts[i]
      /\ turns'[Len(ts) + 1] = u /\ turns'[Len(ts) + 2] = a
  BY <1>2, <1>3, <1>4
<1>6. TurnsOwn(ts, n) /\ \A i \in DOMAIN ts : ts[i].gen # n
  <2>1. \A i \in DOMAIN ts : ts[i].gen \in Nat /\ ts[i].gen <= sent
    <3>1. \A i \in DOMAIN ts : ts[i] \in Turns
      OBVIOUS
    <3> QED BY <3>1 DEF TurnsOwn, Turns
  <2>2. \A m \in Nat : m <= sent => m <= n /\ m # n
    BY <1>1 DEF n
  <2> QED BY <2>1, <2>2 DEF TurnsOwn
<1>7. n <= n
  BY <1>1
<1>8. TurnsOwn(Append(ts, u), n)
  <2>1. u.by \subseteq {u.gen} /\ u.gen <= n
    BY <1>2, <1>7
  <2> QED BY <1>2, <1>6, <2>1, TurnsOwnAppended
<1>9. TurnsOwn(turns', n)
  <2>1. \A i \in DOMAIN Append(ts, u) : Append(ts, u)[i].gen = a.gen => Append(ts, u)[i].role # a.role
    <3>1. \A i \in 1..(Len(ts) + 1) : i \in 1..Len(ts) \/ i = Len(ts) + 1
      BY <1>5
    <3> QED BY <1>2, <1>3, <1>5, <1>6, <3>1
  <2>2. a.by \subseteq {a.gen} /\ a.gen <= n
    BY <1>3, <1>7
  <2> QED BY <1>3, <1>4, <1>5, <1>8, <2>1, <2>2, TurnsOwnAppended
<1>10. TypeOK'
  <2>1. slot' \in [at : {"empty", "starting", "active"}, gen : 0 .. MaxGenerations, turn : Nat]
    BY <1>1, <1>5
  <2>2. inbox' \in Seq(Outcomes) /\ Len(inbox') <= 1
    BY <1>1
  <2> QED BY <1>1, <1>5, <2>1, <2>2 DEF TypeOK, Running
<1>11. WorkersInv'
  <2>1. \A h \in Generations : h # n => worker'[h] = worker[h]
    BY <1>1 DEF TypeOK
  <2>2. \A h \in Generations : h > n => h > sent /\ h # n
    BY <1>1, GenerationAssumption DEF n, Generations
  <2>3. ASSUME NEW h \in Generations, h # n, worker[h] \in Running PROVE gaveUp[h]
    BY <2>3 DEF WorkersInv, StrayWorkersWereTold, Full
  <2>4. StrayWorkersWereTold'
    BY <1>1, <2>1, <2>3 DEF StrayWorkersWereTold, g0
  <2> QED BY <1>1, <2>1, <2>2, <2>4 DEF WorkersInv
<1>12. SlotInv'
  BY <1>1 DEF SlotInv, Full, g0, n
<1>13. Spinners(turns', slot')
  <2>1. ASSUME NEW i \in DOMAIN turns', turns'[i].life \in Spinning
        PROVE  i = Len(ts) + 2
    <3>1. i \in 1..Len(ts) \/ i = Len(ts) + 1 \/ i = Len(ts) + 2
      BY <1>5
    <3> QED BY <1>2, <1>5, <2>1, <3>1 DEF Still, Spinning
  <2> QED BY <1>1, <1>3, <1>5, <2>1 DEF Spinners, Blank
<1>14. SlotsTurn(turns', slot')
  <2>1. \A i \in DOMAIN turns' : ~(i > Len(turns'))
    BY <1>5
  <2>2. Len(turns') \in DOMAIN turns'
    BY <1>5
  <2> QED BY <1>1, <1>3, <1>5, <2>1, <2>2 DEF SlotsTurn, Blank
<1>15. TranscriptInv(turns', sent', slot', moved')
  BY <1>1, <1>9, <1>13, <1>14 DEF TranscriptInv
<1>16. TranscriptInv(turns, sent, slot, moved)'
  BY <1>15 DEF TranscriptInv, TurnsOwn, Spinners, SlotsTurn, Blank
<1>17. PausedPlanIsShown'
  <2>1. n > sent
    BY <1>1 DEF n
  <2>2. n \notin plans
    BY <1>1, <2>1 DEF WorkersInv
  <2> QED BY <1>1, <2>2 DEF PausedPlanIsShown
<1> QED BY <1>10, <1>11, <1>12, <1>16, <1>17

(* send_prompt and regenerate_response begin while the slot is empty, and  *)
(* then no reply is being written.                                         *)
LEMMA SendInv ==
  ASSUME Inv, Send
  PROVE  Inv'
<1>1. ~Full /\ Begin(turns)
  BY DEF Send
<1>2. turns \in Seq(Turns) /\ TurnsOwn(turns, sent) /\ Still(turns)
  BY <1>1 DEF Inv, TypeOK, TranscriptInv, Spinners, Still, Full
<1> QED BY <1>1, <1>2, BeginInv

(* The last reply and the last request are taken out before.               *)
LEMMA RegenerateInv ==
  ASSUME Inv, Regenerate
  PROVE  Inv'
<1> DEFINE ts == WithoutLast(turns, "assistant")
           us == WithoutLast(ts, "user")
<1>1. ~Full /\ Begin(us)
  BY DEF Regenerate
<1>2. turns \in Seq(Turns) /\ TurnsOwn(turns, sent) /\ Still(turns)
  BY <1>1 DEF Inv, TypeOK, TranscriptInv, Spinners, Still, Full
<1>3. ts \in Seq(Turns) /\ TurnsOwn(ts, sent) /\ Still(ts)
  BY <1>2, StillWithoutLast
<1> HIDE DEF ts
<1>4. us \in Seq(Turns) /\ TurnsOwn(us, sent) /\ Still(us)
  BY <1>3, StillWithoutLast
<1> HIDE DEF us
<1> QED BY <1>1, <1>4, BeginInv

(* switch_to_conversation: no turn of the stored transcript is a request's *)
(* of this run.                                                            *)
LEMMA SwitchInv ==
  ASSUME Inv, Switch
  PROVE  Inv'
<1> USE DEF Inv
<1>1. PICK roles \in Stored : turns' = [i \in DOMAIN roles |-> Turn(roles[i], Nobody)]
  BY DEF Switch
<1>2. /\ switches < MaxSwitches /\ switches' = switches + 1 /\ moved' = Full
      /\ UNCHANGED <<sent, slotVars, worker, gaveUp, plans, awaiting>>
  BY DEF Switch
<1>3. turns' \in Seq(Turns)
  <2>1. roles \in Seq({"user", "assistant"})
    BY GenerationAssumption
  <2>2. \A i \in DOMAIN roles : Turn(roles[i], Nobody) \in Turns
    BY <2>1, TurnIsTurn, GenerationAssumption DEF Nobody
  <2>3. DOMAIN roles = 1..Len(roles) /\ Len(roles) \in Nat
    BY <2>1
  <2> QED BY <1>1, <2>2, <2>3
<1>4. \A i \in DOMAIN turns' : turns'[i].gen = Nobody /\ turns'[i].life = "none"
  BY <1>1 DEF Turn
<1>5. TypeOK'
  <2>1. switches' \in 0..MaxSwitches
    BY <1>2, GenerationAssumption DEF TypeOK
  <2>2. moved' \in BOOLEAN
    BY <1>2 DEF Full
  <2> QED BY <1>2, <1>3, <2>1, <2>2 DEF TypeOK, slotVars
<1>6. WorkersInv' /\ SlotInv'
  BY <1>2 DEF slotVars, WorkersInv, StrayWorkersWereTold, SlotInv, Full, g0, TypeOK
<1>7. TurnsOwn(turns', sent)
  BY <1>4, GenerationAssumption DEF TurnsOwn, TypeOK, Nobody
<1>8. TranscriptInv(turns', sent, slot, moved')
  BY <1>2, <1>4, <1>7 DEF TranscriptInv, Spinners, Spinning, Full
<1>9. TranscriptInv(turns, sent, slot, moved)'
  BY <1>2, <1>8 DEF slotVars, TranscriptInv, TurnsOwn, Spinners, SlotsTurn, Blank
<1>10. PausedPlanIsShown'
  BY <1>2 DEF PausedPlanIsShown, TypeOK
<1> QED BY <1>5, <1>6, <1>9, <1>10

(* What an answered card does to the transcript: its turn loses the card,  *)
(* and turns of no request follow.                                         *)
Answers(i) ==
  /\ turns' \in Seq(Turns)
  /\ \A j \in DOMAIN turns :
       /\ j \in DOMAIN turns'
       /\ turns'[j] = IF j = i THEN [turns[j] EXCEPT !.card = Nobody] ELSE turns[j]
  /\ \A j \in DOMAIN turns' :
       j \notin DOMAIN turns => turns'[j].gen = Nobody /\ turns'[j].life = "none" /\ j > Len(turns)

(* submit_review, whatever became of the plan.                             *)
LEMMA ReviewEffect ==
  ASSUME TypeOK, Review
  PROVE  /\ UNCHANGED <<sent, slotVars, worker, gaveUp, awaiting, moved, switches>>
         /\ \E i \in DOMAIN turns :
              /\ turns[i].card # Nobody
              /\ Answers(i)
              /\ \/ plans' = plans \ {turns[i].card}
                 \/ /\ plans' = plans
                    /\ \E j \in DOMAIN turns' : turns'[j].card = turns[i].card
<1>1. UNCHANGED <<sent, slotVars, worker, gaveUp, awaiting, moved, switches>>
  BY DEF Review
<1> DEFINE bare(i) == [turns EXCEPT ![i].card = Nobody]
           u == Turn("user", Nobody)
           a(card) == [Turn("assistant", Nobody) EXCEPT !.card = card]
           shown(i) == Append(bare(i), u)
<1>2. PICK i \in DOMAIN turns :
        /\ turns[i].card # Nobody
        /\ \/ /\ turns' = shown(i)
              /\ plans' = plans \ {turns[i].card}
           \/ /\ turns' = Append(shown(i), a(Nobody))
              /\ plans' = plans \ {turns[i].card}
           \/ /\ turns' = Append(shown(i), a(turns[i].card))
              /\ UNCHANGED plans
  BY DEF Review
<1>3. turns \in Seq(Turns) /\ turns[i] \in Turns /\ DOMAIN turns = 1..Len(turns)
      /\ Len(turns) \in Nat /\ i \in 1..Len(turns)
  BY <1>2 DEF TypeOK
<1>4. Nobody \in 0..MaxGenerations
  BY GenerationAssumption DEF Nobody
<1>5. /\ bare(i) \in Seq(Turns) /\ Len(bare(i)) = Len(turns)
      /\ \A j \in 1..Len(turns) :
           bare(i)[j] = IF j = i THEN [turns[j] EXCEPT !.card = Nobody] ELSE turns[j]
  <2>1. [turns[i] EXCEPT !.card = Nobody] \in Turns
    BY <1>3, <1>4 DEF Turns
  <2> QED BY <1>3, <2>1
<1>6. u \in Turns /\ u.gen = Nobody /\ u.life = "none"
  BY <1>4, TurnIsTurn
<1>7. \A card \in 0..MaxGenerations :
        /\ a(card) \in Turns /\ a(card).gen = Nobody /\ a(card).life = "none"
        /\ a(card).card = card
  <2>1. Turn("assistant", Nobody) \in Turns /\ Turn("assistant", Nobody).gen = Nobody
        /\ Turn("assistant", Nobody).life = "none"
    BY <1>4, TurnIsTurn
  <2> QED BY <2>1 DEF Turns
<1>8. turns[i].card \in 0..MaxGenerations
  BY <1>3 DEF Turns
<1> HIDE DEF bare, u, a
<1>9. /\ shown(i) \in Seq(Turns) /\ Len(shown(i)) = Len(turns) + 1
      /\ \A j \in 1..Len(turns) : shown(i)[j] = bare(i)[j]
      /\ shown(i)[Len(turns) + 1] = u
  BY <1>3, <1>5, <1>6
<1> HIDE DEF shown
<1>10. \A j : /\ j \in 1..(Len(turns) + 1) => j \in 1..Len(turns) \/ j = Len(turns) + 1
              /\ j \in 1..(Len(turns) + 2) => j \in 1..(Len(turns) + 1) \/ j = Len(turns) + 2
  BY <1>3
<1>11. Len(turns) + 1 > Len(turns) /\ Len(turns) + 2 > Len(turns)
  BY <1>3
<1>12. ASSUME turns' = shown(i) PROVE Answers(i)
  <2>1. DOMAIN turns' = 1..(Len(turns) + 1) /\ 1..Len(turns) \subseteq 1..(Len(turns) + 1)
    BY <1>3, <1>9, <1>12
  <2> QED BY <1>3, <1>5, <1>6, <1>9, <1>10, <1>11, <1>12, <2>1 DEF Answers
<1>13. ASSUME NEW card \in 0..MaxGenerations, turns' = Append(shown(i), a(card))
       PROVE  Answers(i) /\ \E j \in DOMAIN turns' : turns'[j].card = card
  <2>1. /\ turns' \in Seq(Turns) /\ Len(turns') = Len(turns) + 2
        /\ \A j \in 1..(Len(turns) + 1) : turns'[j] = shown(i)[j]
        /\ turns'[Len(turns) + 2] = a(card)
    BY <1>3, <1>7, <1>9, <1>13
  <2>2. DOMAIN turns' = 1..(Len(turns) + 2)
    BY <2>1
  <2>3. \A j \in 1..Len(turns) : j \in 1..(Len(turns) + 1) /\ j \in 1..(Len(turns) + 2)
    BY <1>3
  <2>4. Len(turns) + 2 \in DOMAIN turns' /\ Len(turns) + 1 \in 1..(Len(turns) + 1)
    BY <1>3, <2>2
  <2>5. Answers(i)
    <3>1. \A j \in DOMAIN turns :
            /\ j \in DOMAIN turns'
            /\ turns'[j] = IF j = i THEN [turns[j] EXCEPT !.card = Nobody] ELSE turns[j]
      BY <1>3, <1>5, <1>9, <2>1, <2>2, <2>3
    <3>2. ASSUME NEW j \in DOMAIN turns', j \notin DOMAIN turns
          PROVE  turns'[j].gen = Nobody /\ turns'[j].life = "none" /\ j > Len(turns)
      <4>1. j = Len(turns) + 1 \/ j = Len(turns) + 2
        BY <1>3, <1>10, <2>2, <3>2
      <4> QED BY <1>6, <1>7, <1>9, <1>11, <2>1, <2>4, <4>1
    <3> QED BY <2>1, <3>1, <3>2 DEF Answers
  <2> QED BY <1>7, <2>1, <2>4, <2>5
<1>14. \/ /\ Answers(i) /\ plans' = plans \ {turns[i].card}
       \/ /\ Answers(i) /\ plans' = plans
          /\ \E j \in DOMAIN turns' : turns'[j].card = turns[i].card
  <2>1. ASSUME turns' = Append(shown(i), a(Nobody)) PROVE Answers(i)
    BY <1>4, <1>13, <2>1
  <2>2. ASSUME turns' = Append(shown(i), a(turns[i].card))
        PROVE  Answers(i) /\ \E j \in DOMAIN turns' : turns'[j].card = turns[i].card
    BY <1>8, <1>13, <2>2
  <2> QED BY <1>2, <1>12, <2>1, <2>2
<1> QED BY <1>1, <1>2, <1>14

(* An answered card displaces no turn, and no other card.                  *)
LEMMA ReviewInv ==
  ASSUME Inv, Review
  PROVE  Inv'
<1> USE DEF Inv
<1>1. UNCHANGED <<sent, slotVars, worker, gaveUp, awaiting, moved, switches>>
  BY ReviewEffect
<1>2. PICK i \in DOMAIN turns :
        /\ turns[i].card # Nobody
        /\ Answers(i)
        /\ \/ plans' = plans \ {turns[i].card}
           \/ /\ plans' = plans
              /\ \E j \in DOMAIN turns' : turns'[j].card = turns[i].card
  BY ReviewEffect
<1>3. \A j \in DOMAIN turns :
        /\ j \in DOMAIN turns'
        /\ turns'[j].role = turns[j].role /\ turns'[j].gen = turns[j].gen
        /\ turns'[j].by = turns[j].by /\ turns'[j].life = turns[j].life
        /\ j # i => turns'[j] = turns[j]
        /\ turns[j].card = Nobody => turns'[j].card = Nobody
  <2>1. \A j \in DOMAIN turns : turns[j] \in Turns
    BY DEF TypeOK
  <2> QED BY <1>2, <2>1 DEF Answers, Turns
<1>4. \A j \in DOMAIN turns' : j \notin DOMAIN turns =>
        turns'[j].gen = Nobody /\ turns'[j].life = "none" /\ j > Len(turns)
  BY <1>2 DEF Answers
<1>5. TypeOK'
  BY <1>1, <1>2 DEF TypeOK, Answers, slotVars
<1>6. WorkersInv' /\ SlotInv'
  BY <1>1, <1>2 DEF slotVars, WorkersInv, StrayWorkersWereTold, SlotInv, Full, g0
<1>7. TurnsOwn(turns', sent)
  <2>1. Nobody <= sent
    BY DEF TypeOK, Nobody
  <2> QED BY <1>3, <1>4, <2>1 DEF TranscriptInv, TurnsOwn
<1>8. Spinners(turns', slot)
  BY <1>3, <1>4 DEF TranscriptInv, Spinners, Spinning, Blank
<1>9. SlotsTurn(turns, slot) => SlotsTurn(turns', slot)
  BY <1>3, <1>4 DEF SlotsTurn, Blank
<1>10. TranscriptInv(turns', sent, slot, moved)
  <2>1. (\A j \in DOMAIN turns : turns[j].gen = Nobody) => \A j \in DOMAIN turns' : turns'[j].gen = Nobody
    BY <1>3, <1>4
  <2> QED BY <1>7, <1>8, <1>9, <2>1 DEF TranscriptInv
<1>11. TranscriptInv(turns, sent, slot, moved)'
  BY <1>1, <1>10 DEF slotVars, TranscriptInv, TurnsOwn, Spinners, SlotsTurn, Blank
<1>12. PausedPlanIsShown'
  <2> SUFFICES ASSUME switches = 0, NEW h \in plans', h = sent, ~gaveUp[h]
               PROVE  (\E j \in DOMAIN turns' : turns'[j].card = h) \/ Arrived("paused")
    BY <1>1 DEF PausedPlanIsShown, slotVars, Arrived
  <2>1. h \in plans
    BY <1>2
  <2>2. (\E j \in DOMAIN turns : turns[j].card = h) \/ Arrived("paused")
    BY <2>1 DEF PausedPlanIsShown
  <2>3. CASE h # turns[i].card
    BY <1>3, <2>2, <2>3
  <2>4. CASE h = turns[i].card
    BY <1>2, <2>4
  <2> QED BY <2>3, <2>4
<1> QED BY <1>5, <1>6, <1>11, <1>12

(* The worker's stream takes the place of the worker.                      *)
LEMMA PumpReadyInv ==
  ASSUME Inv, PumpReady
  PROVE  Inv'
<1> USE DEF Inv
<1>1. /\ slot.at = "starting" /\ inbox # <<>> /\ ~Arrived("paused")
      /\ slot' = [slot EXCEPT !.at = "active"]
      /\ inbox' = <<>> /\ stream' = "thinking" /\ awaiting' = TRUE
      /\ UNCHANGED <<turns, stopped, sent, worker, gaveUp, plans, moved, switches>>
  BY DEF PumpReady, PumpUnchanged, Arrived
<1>2. slot'.at = "active" /\ slot'.gen = slot.gen /\ slot'.turn = slot.turn
  BY <1>1 DEF TypeOK
<1>3. TypeOK'
  BY <1>1 DEF TypeOK
<1>4. WorkersInv'
  <2>1. worker[g0] \notin Running
    BY <1>1 DEF SlotInv, Running
  <2> QED BY <1>1, <1>2, <2>1 DEF WorkersInv, StrayWorkersWereTold
<1>5. SlotInv'
  BY <1>1, <1>2 DEF SlotInv, Full, g0
<1>6. TranscriptInv(turns, sent, slot', moved)
  BY <1>1, <1>2 DEF TranscriptInv, Spinners, SlotsTurn
<1>7. TranscriptInv(turns, sent, slot, moved)'
  BY <1>1, <1>6 DEF TranscriptInv, TurnsOwn, Spinners, SlotsTurn, Blank
<1>8. PausedPlanIsShown'
  BY <1>1 DEF PausedPlanIsShown
<1> QED BY <1>3, <1>4, <1>5, <1>7, <1>8

(* install_completed_generation.  The blank turn it takes out is the one   *)
(* turn of the reply, so the response repeats none; and it has no card.    *)
LEMMA PumpCompletedInv ==
  ASSUME Inv, PumpCompleted
  PROVE  Inv'
<1> USE DEF Inv
<1> DEFINE ts == IF IsPlaceholder(slot.turn) THEN RemoveAt(turns, slot.turn) ELSE turns
<1>1. /\ slot.at = "starting" /\ inbox # <<>>
      /\ \/ \E t \in Responses : turns' = Append(ts, t)
         \/ turns' = ts
         \/ turns' = Append(ts, [Response EXCEPT !.card = g0])
      /\ Arrived("paused") => turns' = Append(ts, [Response EXCEPT !.card = g0])
      /\ SlotCleared
      /\ PumpUnchanged
  BY DEF PumpCompleted, Arrived
<1>2. /\ g0 = sent /\ Head(inbox).gen = g0 /\ g0 \in 0..MaxGenerations /\ g0 # Nobody
      /\ worker[g0] \notin Running /\ Full /\ slot' = Empty /\ inbox' = <<>>
      /\ UNCHANGED <<sent, worker, gaveUp, plans, moved, switches>>
  BY <1>1 DEF SlotInv, TypeOK, Full, g0, Running, Nobody, SlotCleared, PumpUnchanged
<1>3. /\ Response \in Turns /\ Response.role = "assistant" /\ Response.gen = g0
      /\ Response.by = {g0} /\ Response.life = "none"
  <2>1. /\ Turn("assistant", g0) \in Turns /\ Turn("assistant", g0).role = "assistant"
        /\ Turn("assistant", g0).gen = g0 /\ Turn("assistant", g0).life = "none"
    BY <1>2, TurnIsTurn
  <2> QED BY <1>2, <2>1 DEF Response, Turns
<1> DEFINE OK(t) == /\ t \in Turns /\ t.role = "assistant" /\ t.gen = g0 /\ t.by = {g0}
                    /\ t.life \notin Spinning
<1>4. /\ \A t \in Responses : OK(t)
      /\ OK([Response EXCEPT !.card = g0]) /\ [Response EXCEPT !.card = g0].card = g0
  BY <1>2, <1>3 DEF Responses, Turns, Spinning, Ends
<1> HIDE DEF OK
<1>5. turns \in Seq(Turns) /\ TurnsOwn(turns, sent) /\ sent \in Nat
  BY DEF TypeOK, TranscriptInv
<1>6. ~moved => /\ IsPlaceholder(slot.turn)
                /\ turns[slot.turn].role = "assistant" /\ turns[slot.turn].gen = g0
                /\ turns[slot.turn].card = Nobody
  BY <1>1 DEF TranscriptInv, SlotsTurn, Blank, IsPlaceholder, g0
<1>7. /\ ts \in Seq(Turns) /\ TurnsOwn(ts, sent)
      /\ \A j \in DOMAIN ts : \E i \in DOMAIN turns :
           ts[j] = turns[i] /\ (IsPlaceholder(slot.turn) => i # slot.turn)
      /\ \A i \in DOMAIN turns : (IsPlaceholder(slot.turn) => i # slot.turn) =>
           \E j \in DOMAIN ts : ts[j] = turns[i]
  <2>1. CASE ~IsPlaceholder(slot.turn)
    BY <1>5, <2>1
  <2>2. CASE IsPlaceholder(slot.turn)
    <3> DEFINE k == slot.turn
    <3>1. k \in DOMAIN turns /\ ts = RemoveAt(turns, k)
      BY <2>2 DEF IsPlaceholder
    <3>2. /\ ts \in Seq(Turns) /\ DOMAIN ts = 1..(Len(turns) - 1)
          /\ \A i \in 1..(Len(turns) - 1) : ts[i] = turns[IF i < k THEN i ELSE i + 1]
      BY <1>5, <3>1, RemovedTurn
    <3>3. TurnsOwn(ts, sent)
      BY <1>5, <3>1, TurnsOwnRemoved
    <3>4. k \in 1..Len(turns) /\ Len(turns) \in Nat /\ DOMAIN turns = 1..Len(turns)
      BY <1>5, <3>1
    <3> HIDE DEF ts, k
    <3>5. ASSUME NEW j \in DOMAIN ts PROVE \E i \in DOMAIN turns : ts[j] = turns[i] /\ i # k
      <4>1. /\ (IF j < k THEN j ELSE j + 1) \in DOMAIN turns
            /\ (IF j < k THEN j ELSE j + 1) # k
        BY <3>2, <3>4
      <4> QED BY <3>2, <4>1
    <3>6. ASSUME NEW i \in DOMAIN turns, i # k PROVE \E j \in DOMAIN ts : ts[j] = turns[i]
      <4>1. CASE i < k
        <5>1. i \in 1..(Len(turns) - 1)
          BY <3>4, <4>1
        <5> QED BY <3>2, <4>1, <5>1
      <4>2. CASE ~(i < k)
        <5>1. i - 1 \in 1..(Len(turns) - 1) /\ ~(i - 1 < k) /\ (i - 1) + 1 = i
          BY <3>4, <3>6, <4>2
        <5> QED BY <3>2, <5>1
      <4> QED BY <4>1, <4>2
    <3> QED BY <2>2, <3>2, <3>3, <3>5, <3>6 DEF k
  <2> QED BY <2>1, <2>2
<1>8. Still(ts)
  <2>1. \A i \in DOMAIN turns : turns[i].life \in Spinning => i = slot.turn /\ IsPlaceholder(slot.turn)
    BY <1>1 DEF TranscriptInv, Spinners, Blank, IsPlaceholder
  <2> HIDE DEF ts
  <2> QED BY <1>7, <2>1 DEF Still
<1>9. \A j \in DOMAIN ts : ts[j].gen = g0 => ts[j].role # "assistant"
  <2>1. CASE moved
    <3>1. \A i \in DOMAIN turns : turns[i].gen # g0
      BY <1>2, <2>1 DEF TranscriptInv, Full
    <3> HIDE DEF ts
    <3> QED BY <1>7, <3>1
  <2>2. CASE ~moved
    <3>1. \A i \in DOMAIN turns : turns[i].gen = g0 /\ turns[i].role = "assistant" => i = slot.turn
      BY <1>2, <1>5, <1>6, <2>2 DEF TurnsOwn, IsPlaceholder
    <3> HIDE DEF ts
    <3> QED BY <1>6, <1>7, <2>2, <3>1
  <2> QED BY <2>1, <2>2
<1>10. PausedPlanIsShown => \A h \in plans : switches = 0 /\ h = sent /\ ~gaveUp[h] /\ ~Arrived("paused") =>
         \E j \in DOMAIN ts : ts[j].card = h
  <2> SUFFICES ASSUME PausedPlanIsShown, NEW h \in plans, switches = 0, h = sent, ~gaveUp[h],
                      ~Arrived("paused")
               PROVE  \E j \in DOMAIN ts : ts[j].card = h
    OBVIOUS
  <2>1. PICK i \in DOMAIN turns : turns[i].card = h
    BY DEF PausedPlanIsShown
  <2>2. ~moved
    BY DEF SlotInv, TypeOK
  <2>3. i # slot.turn
    BY <1>2, <1>6, <2>1, <2>2
  <2> HIDE DEF ts
  <2> QED BY <1>7, <2>1, <2>3
<1> HIDE DEF ts
<1>11. /\ turns' \in Seq(Turns) /\ TurnsOwn(turns', sent) /\ Still(turns')
       /\ \A j \in DOMAIN ts : j \in DOMAIN turns' /\ turns'[j] = ts[j]
       /\ Arrived("paused") => \E j \in DOMAIN turns' : turns'[j].card = g0
  <2>1. ASSUME NEW t, OK(t), turns' = Append(ts, t)
        PROVE  /\ turns' \in Seq(Turns) /\ TurnsOwn(turns', sent) /\ Still(turns')
               /\ \A j \in DOMAIN ts : j \in DOMAIN turns' /\ turns'[j] = ts[j]
               /\ \E j \in DOMAIN turns' : turns'[j] = t
    <3>1. t \in Turns /\ t.role = "assistant" /\ t.gen = g0 /\ t.by = {g0} /\ t.life \notin Spinning
      BY <2>1 DEF OK
    <3>2. TurnsOwn(turns', sent)
      <4>1. t.gen <= sent /\ t.by \subseteq {t.gen}
        BY <1>2, <1>5, <3>1
      <4> QED BY <1>7, <1>9, <2>1, <3>1, <4>1, TurnsOwnAppended
    <3>3. /\ turns' \in Seq(Turns) /\ DOMAIN turns' = 1..(Len(ts) + 1) /\ DOMAIN ts = 1..Len(ts)
          /\ Len(ts) \in Nat
          /\ \A j \in 1..Len(ts) : turns'[j] = ts[j]
          /\ turns'[Len(ts) + 1] = t
      BY <1>7, <2>1, <3>1
    <3>4. \A j \in 1..(Len(ts) + 1) : j \in 1..Len(ts) \/ j = Len(ts) + 1
      BY <3>3
    <3>5. 1..Len(ts) \subseteq 1..(Len(ts) + 1) /\ Len(ts) + 1 \in 1..(Len(ts) + 1)
      BY <3>3
    <3> QED BY <1>8, <3>1, <3>2, <3>3, <3>4, <3>5 DEF Still
  <2>2. CASE turns' = ts /\ ~Arrived("paused")
    BY <1>7, <1>8, <2>2
  <2>3. CASE \E t \in Responses : turns' = Append(ts, t) /\ ~Arrived("paused")
    BY <1>4, <2>1, <2>3
  <2>4. CASE turns' = Append(ts, [Response EXCEPT !.card = g0])
    BY <1>4, <2>1, <2>4
  <2> QED BY <1>1, <2>2, <2>3, <2>4
<1>12. TypeOK'
  <2>1. slot' \in [at : {"empty", "starting", "active"}, gen : 0 .. MaxGenerations, turn : Nat]
    BY <1>2, GenerationAssumption DEF Empty, Nobody
  <2>2. stream' = "none" /\ stopped' = FALSE /\ awaiting' = FALSE
    BY <1>1 DEF SlotCleared
  <2>3. turns' \in Seq(Turns)
    BY <1>11
  <2>4. inbox' \in Seq(Outcomes) /\ Len(inbox') <= 1
    BY <1>2
  <2> QED BY <1>2, <2>1, <2>2, <2>3, <2>4 DEF TypeOK
<1>13. WorkersInv' /\ SlotInv'
  BY <1>1, <1>2 DEF WorkersInv, StrayWorkersWereTold, SlotInv, Full, Empty
<1>14. TranscriptInv(turns', sent, slot', moved)
  BY <1>2, <1>11 DEF TranscriptInv, Spinners, Still, Empty
<1>15. TranscriptInv(turns, sent, slot, moved)'
  BY <1>2, <1>14 DEF TranscriptInv, TurnsOwn, Spinners, SlotsTurn, Blank
<1>16. PausedPlanIsShown'
  BY <1>2, <1>10, <1>11 DEF PausedPlanIsShown
<1> QED BY <1>12, <1>13, <1>15, <1>16

-----------------------------------------------------------------------------
(* Every step keeps the invariant.                                         *)

(* The application starts with an empty slot and an empty transcript.      *)
LEMMA InitInv ==
  Init => Inv
<1> SUFFICES ASSUME Init PROVE Inv
  OBVIOUS
<1> USE DEF Init
<1>1. TypeOK
  <2>1. Empty \in [at : {"empty", "starting", "active"}, gen : 0 .. MaxGenerations, turn : Nat]
    BY GenerationAssumption DEF Empty, Nobody
  <2>2. turns \in Seq(Turns) /\ inbox \in Seq(Outcomes) /\ Len(inbox) <= 1
    OBVIOUS
  <2>3. sent \in 0..MaxGenerations /\ switches \in 0..MaxSwitches
    BY GenerationAssumption
  <2> QED BY <2>1, <2>2, <2>3 DEF TypeOK, Running
<1>2. WorkersInv
  BY DEF WorkersInv, StrayWorkersWereTold, Running
<1>3. SlotInv
  BY DEF SlotInv, Full, Empty
<1>4. TranscriptInv(turns, sent, slot, moved)
  <2>1. DOMAIN turns = {}
    OBVIOUS
  <2> QED BY <2>1 DEF TranscriptInv, TurnsOwn, Spinners, Empty
<1>5. PausedPlanIsShown
  BY DEF PausedPlanIsShown
<1> QED BY <1>1, <1>2, <1>3, <1>4, <1>5 DEF Inv

(* What the user does, one call after another.                             *)
LEMMA UserInv ==
  ASSUME Inv, User
  PROVE  Inv'
<1> USE DEF UserUnchanged, RetryUnchanged, slotVars, FlagsOK
<1>1. TypeOK
  BY DEF Inv
<1>2. CASE Send
  BY <1>2, SendInv
<1>3. CASE Regenerate
  BY <1>3, RegenerateInv
<1>4. CASE RegenerateRefused
  <2>1. FlagsOK'
    BY <1>1, <1>4 DEF RegenerateRefused, TypeOK
  <2> QED BY <1>4, <2>1, QuietInv DEF RegenerateRefused
<1>5. CASE Switch
  BY <1>5, SwitchInv
<1>6. CASE Review
  BY <1>6, ReviewInv
<1>7. CASE StopStart
  <2>1. /\ Full /\ slot' = Empty /\ inbox' = <<>> /\ "Cancelled" \in Ends
        /\ turns' = Finalized(slot.turn, g0, "Cancelled")
        /\ UNCHANGED <<sent, worker, plans, moved, switches>>
    BY <1>7 DEF StopStart, Full, Ends
  <2>2. FlagsOK'
    BY <1>1, <1>7 DEF StopStart, TypeOK
  <2>3. g0 \in Generations
    BY <1>1, <2>1, GenerationAssumption DEF Inv, SlotInv, TypeOK, Generations
  <2>4. /\ gaveUp' \in [Generations -> BOOLEAN] /\ gaveUp'[g0]
        /\ \A g \in Generations : gaveUp[g] => gaveUp'[g]
    BY <1>1, <1>7, <2>3 DEF StopStart, TypeOK
  <2>5. slot.at = "starting" => gaveUp'[g0] \/ (inbox # <<>> /\ ~Arrived("paused"))
    BY <2>4
  <2> HIDE DEF FlagsOK
  <2> QED BY <2>1, <2>2, <2>4, <2>5, EndedInv
<1>8. CASE StopReply
  <2>1. FlagsOK'
    BY <1>1, <1>8 DEF StopReply, TypeOK
  <2> QED BY <1>8, <2>1, QuietInv DEF StopReply
<1>9. CASE RetryKillsReply
  <2>1. FlagsOK'
    BY <1>1, <1>9 DEF RetryKillsReply, TypeOK
  <2> QED BY <1>9, <2>1, QuietInv DEF RetryKillsReply
<1>10. CASE RetryRestarts
  <2>1. FlagsOK' /\ slot.at = "active"
    BY <1>1, <1>10 DEF RetryRestarts, TypeOK
  <2>2. CASE turns' = Reset(slot.turn)
    <3>1. Rewrites(turns', slot.turn, g0)
      BY <1>1, <2>2, ResetRewrites
    <3> QED BY <1>10, <2>1, <3>1, ReplyInv DEF RetryRestarts
  <2>3. CASE UNCHANGED turns
    BY <1>10, <2>1, <2>3, QuietInv DEF RetryRestarts
  <2> QED BY <1>10, <2>2, <2>3 DEF RetryRestarts
<1>11. CASE RetryRefused
  <2>1. FlagsOK'
    BY <1>1, <1>11 DEF RetryRefused, TypeOK
  <2> QED BY <1>11, <2>1, QuietInv DEF RetryRefused
<1> QED BY <1>2, <1>3, <1>4, <1>5, <1>6, <1>7, <1>8, <1>9, <1>10, <1>11 DEF User

(* What the window pumps, frame by frame.                                  *)
LEMMA PumpInv ==
  ASSUME Inv, Pump
  PROVE  Inv'
<1> USE DEF PumpUnchanged, slotVars, FlagsOK
<1>1. TypeOK /\ g0 \in 0..MaxGenerations
  BY DEF Inv, TypeOK, g0
<1>2. CASE PumpNothing
  <2>1. FlagsOK'
    BY <1>1, <1>2 DEF PumpNothing, TypeOK
  <2> QED BY <1>2, <2>1, QuietInv DEF PumpNothing
<1>3. CASE PumpReady
  BY <1>3, PumpReadyInv
<1>4. CASE PumpFailed
  <2>1. /\ Full /\ slot' = Empty /\ inbox' = <<>> /\ "Failed" \in Ends
        /\ turns' = Finalized(slot.turn, g0, "Failed")
        /\ inbox # <<>> /\ ~Arrived("paused")
        /\ UNCHANGED <<sent, worker, gaveUp, plans, moved, switches>>
    BY <1>4 DEF PumpFailed, Arrived, SlotCleared, Full, Ends
  <2>2. FlagsOK'
    BY <1>4 DEF PumpFailed, SlotCleared
  <2>3. gaveUp' \in [Generations -> BOOLEAN] /\ \A g \in Generations : gaveUp[g] => gaveUp'[g]
    BY <1>1, <2>1 DEF TypeOK
  <2> QED BY <2>1, <2>2, <2>3, EndedInv
<1>5. CASE PumpCompleted
  BY <1>5, PumpCompletedInv
<1>6. CASE PumpTokens
  <2>1. FlagsOK'
    BY <1>1, <1>6 DEF PumpTokens, TypeOK
  <2>2. Rewrites(turns', slot.turn, g0)
    BY <1>1, <1>6, WithTokenRewrites DEF PumpTokens
  <2> QED BY <1>6, <2>1, <2>2, ReplyInv DEF PumpTokens
<1>7. CASE PumpAnnouncesEnd
  <2>1. FlagsOK' /\ stream' \in Ends
    BY <1>1, <1>7 DEF PumpAnnouncesEnd, TypeOK, Ends
  <2>2. Rewrites(turns', slot.turn, g0)
    BY <1>1, <1>7, <2>1, WithLifeRewrites DEF PumpAnnouncesEnd
  <2> QED BY <1>7, <2>1, <2>2, ReplyInv DEF PumpAnnouncesEnd
<1>8. CASE PumpEnds
  <2>1. PICK l \in EndsAs : turns' = Finalized(slot.turn, g0, l)
    BY <1>8 DEF PumpEnds
  <2>2. l \in Ends
    BY DEF EndsAs, Ends, Announced
  <2>3. /\ Full /\ slot' = Empty /\ inbox' = <<>> /\ slot.at # "starting"
        /\ UNCHANGED <<sent, worker, gaveUp, plans, moved, switches>>
    BY <1>8 DEF PumpEnds, SlotCleared, Full
  <2>4. FlagsOK'
    BY <1>8 DEF PumpEnds, SlotCleared
  <2>5. gaveUp' \in [Generations -> BOOLEAN] /\ \A g \in Generations : gaveUp[g] => gaveUp'[g]
    BY <1>1, <2>3 DEF TypeOK
  <2> QED BY <2>1, <2>2, <2>3, <2>4, <2>5, EndedInv
<1> QED BY <1>2, <1>3, <1>4, <1>5, <1>6, <1>7, <1>8 DEF Pump, Installs

(* Any step.                                                               *)
LEMMA NextInv ==
  ASSUME Inv, [Next]_vars
  PROVE  Inv'
<1>1. CASE User
  BY <1>1, UserInv
<1>2. CASE Pump
  BY <1>2, PumpInv
<1>3. ASSUME NEW g \in Generations, Works(g) PROVE Inv'
  BY <1>3, WorkInv
<1>4. CASE UNCHANGED vars
  <2>1. FlagsOK'
    BY <1>4 DEF Inv, TypeOK, FlagsOK, vars, slotVars
  <2> QED BY <1>4, <2>1, QuietInv DEF vars, slotVars
<1> QED BY <1>1, <1>2, <1>3, <1>4 DEF Next

-----------------------------------------------------------------------------
(* The theorems.                                                           *)

(* The invariant holds in every state: what the slot's index points at,    *)
(* whose words stand where, which workers were told, where a card is.      *)
THEOREM Invariance == Spec => []Inv
<1>1. Init => Inv
  BY InitInv
<1>2. Inv /\ [Next]_vars => Inv'
  BY NextInv
<1> QED BY <1>1, <1>2, PTL DEF Spec

(* The index the slot keeps is that of the turn begun for its request, as  *)
(* long as the transcript is the one the turn was begun in.                *)
THEOREM RepliesHaveTheirTurn == Spec => []ReplyHasItsTurn
<1>1. Inv => ReplyHasItsTurn
  BY DEF Inv, ReplyHasItsTurn, TranscriptInv, SlotsTurn, Blank, IsPlaceholder, Full, g0
<1> QED BY <1>1, Invariance, PTL

(* Somebody is at work for a full slot, requests to come were not told to  *)
(* stop, and no turn spins over an end that was announced.                 *)
AtWork ==
  /\ \A g \in Generations : g > sent => ~gaveUp[g]
  /\ slot.at = "starting" => inbox # <<>> \/ (worker[g0] \in Running /\ ~gaveUp[g0])
  /\ slot.at = "active" <=> stream # "none"
  /\ Announced => \A i \in DOMAIN turns : turns[i].life \notin Spinning

(* A worker that is done has told the slot, if the slot waited for it and  *)
(* it was not given up.                                                    *)
LEMMA WorkerTells ==
  ASSUME TypeOK, AtWork, NEW g \in Generations, NEW kind, Tell(g, kind),
         worker' = [worker EXCEPT ![g] = "done"], UNCHANGED <<turns, sent, slot, stream, gaveUp>>
  PROVE  AtWork'
<1>1. slot.at = "starting" => inbox' # <<>> \/ (worker'[g0] \in Running /\ ~gaveUp[g0])
  <2>1. CASE slot.at = "starting" /\ g0 = g
    <3>1. inbox' = <<[gen |-> g, kind |-> kind]>>
      BY <2>1 DEF Tell
    <3> QED BY <3>1
  <2>2. CASE slot.at = "starting" /\ g0 # g
    <3>1. inbox' = inbox
      BY <2>2 DEF Tell
    <3>2. worker'[g0] = worker[g0] \/ g0 \notin Generations
      BY <2>2 DEF TypeOK
    <3>3. worker[g0] \in Running => worker'[g0] \in Running \/ inbox # <<>>
      BY <3>2 DEF TypeOK
    <3> QED BY <2>2, <3>1, <3>2, <3>3 DEF AtWork, TypeOK
  <2> QED BY <2>1, <2>2
<1> QED BY <1>1 DEF AtWork, Announced, g0

(* Any step.                                                               *)
LEMMA AtWorkStep ==
  ASSUME Inv, Inv', AtWork, [Next]_vars
  PROVE  AtWork'
<1>1. /\ TypeOK /\ TypeOK' /\ (Full => g0 = sent /\ g0 \in Generations)
      /\ \A i \in DOMAIN turns' : turns'[i].life \in Spinning => slot'.turn = i
  <2>1. TypeOK /\ TypeOK' /\ (Full => g0 = sent /\ sent > 0)
    BY DEF Inv, SlotInv
  <2>2. sent > 0 => sent \in Generations
    BY <2>1 DEF TypeOK, Generations
  <2> QED BY <2>1, <2>2 DEF Inv, TranscriptInv, Spinners
<1> USE DEF slotVars, Full, g0
<1>2. CASE Send \/ Regenerate
  <2>1. PICK ts : Begin(ts)
    BY <1>2 DEF Send, Regenerate
  <2>2. sent' \in Generations /\ sent' > sent /\ worker'[sent'] = "begun"
    BY <1>1, <2>1 DEF Begin, TypeOK, Generations
  <2>3. \A g \in Generations : g > sent' => g > sent
    BY <1>1, <2>2 DEF TypeOK, Generations
  <2>4. gaveUp' = gaveUp /\ stream' = "none" /\ slot'.at = "starting" /\ slot'.gen = sent'
    BY <2>1 DEF Begin
  <2> QED BY <2>2, <2>3, <2>4 DEF Running, AtWork, Announced
<1>3. CASE RegenerateRefused \/ RetryRefused \/ StopReply \/ PumpNothing \/ UNCHANGED vars
  BY <1>3 DEF RegenerateRefused, RetryRefused, RetryUnchanged, StopReply, UserUnchanged,
              PumpNothing, PumpUnchanged, vars, AtWork, Announced
<1>4. CASE Switch
  <2>1. \A i \in DOMAIN turns' : turns'[i].life = "none"
    BY <1>4 DEF Switch, Turn
  <2> QED BY <1>4, <2>1 DEF Switch, AtWork, Announced, Spinning
<1>5. CASE Review
  <2>1. UNCHANGED <<sent, slotVars, worker, gaveUp>>
    BY <1>5 DEF Review
  <2>2. PICK i \in DOMAIN turns : Answers(i)
    BY <1>1, <1>5, ReviewEffect
  <2>3. \A j \in DOMAIN turns : turns[j] \in Turns
    BY <1>1 DEF TypeOK
  <2>4. \A j \in DOMAIN turns' :
          \/ j \in DOMAIN turns /\ turns'[j].life = turns[j].life
          \/ turns'[j].life = "none"
    BY <2>2, <2>3 DEF Answers, Turns
  <2> QED BY <2>1, <2>4 DEF AtWork, Announced, Spinning
<1>6. CASE StopStart
  <2>1. g0 = sent /\ gaveUp' = [gaveUp EXCEPT ![g0] = TRUE]
    BY <1>1, <1>6 DEF StopStart
  <2>2. sent \in Nat /\ \A g \in Generations : g > sent => g # sent
    BY <1>1 DEF TypeOK, Generations
  <2>3. \A g \in Generations : g > sent => gaveUp'[g] = gaveUp[g]
    BY <1>1, <2>1, <2>2 DEF TypeOK
  <2> QED BY <1>6, <2>3 DEF StopStart, UserUnchanged, Empty, AtWork, Announced
<1>7. CASE RetryKillsReply \/ RetryRestarts
  BY <1>7 DEF RetryKillsReply, RetryRestarts, RetryUnchanged, AtWork, Announced
<1>8. CASE PumpReady
  BY <1>8 DEF PumpReady, PumpUnchanged, TypeOK, AtWork, Announced
<1>9. CASE PumpFailed \/ PumpCompleted \/ PumpEnds
  BY <1>9 DEF PumpFailed, PumpCompleted, PumpEnds, SlotCleared, PumpUnchanged, Empty,
              AtWork, Announced
<1>10. CASE PumpTokens
  BY <1>10 DEF PumpTokens, PumpUnchanged, AtWork, Announced
<1>11. CASE PumpAnnouncesEnd
  <2>1. /\ slot' = slot /\ stream' \in {"Completed", "Failed"}
        /\ turns' = WithLife(slot.turn, stream')
    BY <1>11 DEF PumpAnnouncesEnd
  <2>2. ASSUME NEW i \in DOMAIN turns', turns'[i].life \in Spinning PROVE FALSE
    <3>1. slot.turn = i
      BY <1>1, <2>1, <2>2
    <3>2. slot.turn \in DOMAIN turns
      BY <2>1, <2>2, <3>1 DEF WithLife, Update
    <3>3. turns'[i].life = stream'
      BY <1>1, <2>1, <3>1, <3>2 DEF WithLife, Update, TypeOK, Turns
    <3> QED BY <2>1, <2>2, <3>3 DEF Spinning
  <2> QED BY <1>11, <2>2 DEF PumpAnnouncesEnd, PumpUnchanged, AtWork, Announced
<1>12. ASSUME NEW g \in Generations, Works(g) PROVE AtWork'
  <2>1. UNCHANGED <<turns, sent, slot, stream, gaveUp>>
    BY <1>12 DEF Works, WorkerStops, WorkerPrepares, WorkerOpens, WorkerIsReady,
                 WorkerFallsBack, WorkerAnswers, WorkerFails, WorkerUnchanged
  <2>2. CASE WorkerStops(g)
    <3>1. \A h \in Generations : ~gaveUp[h] => worker'[h] = worker[h]
      BY <1>1, <2>2 DEF WorkerStops, TypeOK
    <3> QED BY <1>1, <2>1, <2>2, <3>1 DEF WorkerStops, AtWork, Announced
  <2>3. CASE WorkerPrepares(g) \/ WorkerOpens(g) \/ WorkerFallsBack(g)
    <3>1. inbox' = inbox
          /\ \A h \in Generations : worker[h] \in Running => worker'[h] \in Running
      BY <1>1, <2>3 DEF WorkerPrepares, WorkerOpens, WorkerFallsBack, TypeOK, Running
    <3> QED BY <1>1, <2>1, <3>1 DEF AtWork, Announced
  <2>4. CASE WorkerIsReady(g) \/ WorkerAnswers(g) \/ WorkerFails(g)
    <3>1. PICK kind : Tell(g, kind)
      BY <2>4 DEF WorkerIsReady, WorkerAnswers, WorkerFails
    <3>2. worker' = [worker EXCEPT ![g] = "done"]
      BY <2>4 DEF WorkerIsReady, WorkerAnswers, WorkerFails
    <3> QED BY <1>1, <2>1, <3>1, <3>2, WorkerTells
  <2> QED BY <1>12, <2>2, <2>3, <2>4 DEF Works
<1> QED BY <1>2, <1>3, <1>4, <1>5, <1>6, <1>7, <1>8, <1>9, <1>10, <1>11, <1>12
        DEF Next, User, Pump, Installs

(* A turn that is Thinking or Streaming is the one the slot writes, and     *)
(* somebody is left to write it, if only the stream a retry killed.        *)
THEOREM SpinnersHaveOwners == Spec => []SpinnerHasOwner
<1>1. Init => AtWork
  BY DEF Init, AtWork, Announced, Empty
<1>2. Inv /\ Inv' /\ AtWork /\ [Next]_vars => AtWork'
  BY AtWorkStep
<1>3. Inv /\ AtWork => SpinnerHasOwner
  BY DEF Inv, TypeOK, AtWork, SpinnerHasOwner, TranscriptInv, Spinners, Announced
<1>4. Spec => []AtWork
  BY <1>1, <1>2, Invariance, PTL DEF Spec
<1> QED BY <1>3, <1>4, Invariance, PTL

(* A request has one reply, in the words of that request.                  *)
THEOREM RepliesAreOwned == Spec => []RepliesAreOwn
<1>1. Inv => RepliesAreOwn
  BY DEF Inv, RepliesAreOwn, TranscriptInv, TurnsOwn
<1> QED BY <1>1, Invariance, PTL

(* A worker that works on without a slot that waits for it was told.       *)
THEOREM StraysWereTold == Spec => []StrayWorkersWereTold
<1>1. Inv => StrayWorkersWereTold
  BY DEF Inv, WorkersInv
<1> QED BY <1>1, Invariance, PTL

(* The plan the last request paused has its Review Card, or has it coming. *)
THEOREM PausedPlansAreShown == Spec => []PausedPlanIsShown
<1>1. Inv => PausedPlanIsShown
  BY DEF Inv
<1> QED BY <1>1, Invariance, PTL

-----------------------------------------------------------------------------
(* Finished turns.                                                         *)

Stays(i) ==
  i \in DOMAIN turns' /\ turns'[i] = [turns[i] EXCEPT !.card = turns'[i].card]

(* A turn that is not touched, or is not the one that is rewritten, stays. *)
LEMMA SameStays ==
  ASSUME TypeOK, NEW i \in DOMAIN turns, i \in DOMAIN turns', turns'[i] = turns[i]
  PROVE  Stays(i)
<1>1. turns[i] \in Turns
  BY DEF TypeOK
<1>2. turns[i] = [turns[i] EXCEPT !.card = turns[i].card]
  BY <1>1 DEF Turns
<1> QED BY <1>2 DEF Stays

(* The slot writes its own turn only.                                      *)
LEMMA RewrittenStays ==
  ASSUME TypeOK, NEW i \in DOMAIN turns, NEW k, NEW g, Rewrites(turns', k, g), i # k
  PROVE  Stays(i)
BY SameStays DEF Rewrites

(* A response is appended, and the blank turn it takes out stands behind   *)
(* every turn that is finished.                                            *)
LEMMA PumpCompletedStays ==
  ASSUME Inv, PumpCompleted, ~moved, NEW i \in DOMAIN turns, turns[i].life \in Ends,
         slot.turn # i
  PROVE  Stays(i)
<1> DEFINE ts == RemoveAt(turns, slot.turn)
<1>1. slot.at = "starting" /\ IsPlaceholder(slot.turn) /\ SlotsTurn(turns, slot)
  BY DEF PumpCompleted, Arrived, Inv, TranscriptInv, SlotsTurn, Blank, IsPlaceholder
<1>2. \/ turns' = ts
      \/ \E t \in Responses : turns' = Append(ts, t)
      \/ turns' = Append(ts, [Response EXCEPT !.card = g0])
  BY <1>1 DEF PumpCompleted
<1>3. turns \in Seq(Turns) /\ slot.turn \in 1..Len(turns) /\ i \in 1..Len(turns) /\ Len(turns) \in Nat
  BY <1>1 DEF Inv, TypeOK, IsPlaceholder
<1>4. i < slot.turn
  <2>1. ~(i > slot.turn)
    BY <1>1 DEF SlotsTurn, Ends
  <2> QED BY <1>3, <2>1
<1>5. ts \in Seq(Turns) /\ i \in 1..Len(ts) /\ ts[i] = turns[i]
  <2>1. /\ ts \in Seq(Turns) /\ DOMAIN ts = 1..(Len(turns) - 1)
        /\ \A j \in 1..(Len(turns) - 1) : ts[j] = turns[IF j < slot.turn THEN j ELSE j + 1]
    BY <1>3, RemovedTurn
  <2>2. i \in 1..(Len(turns) - 1)
    BY <1>3, <1>4
  <2> HIDE DEF ts
  <2> QED BY <1>4, <2>1, <2>2
<1> HIDE DEF ts
<1>6. ASSUME NEW t, turns' = Append(ts, t) PROVE i \in DOMAIN turns' /\ turns'[i] = ts[i]
  BY <1>5, <1>6
<1>7. i \in DOMAIN turns' /\ turns'[i] = turns[i]
  BY <1>2, <1>5, <1>6
<1> QED BY <1>7, SameStays DEF Inv

(* Each step leaves a finished turn its place and its words.               *)
LEMMA FinishedStep ==
  ASSUME Inv, [Next]_vars, sent' = sent, switches' = switches, ~(Full /\ moved),
         NEW i \in DOMAIN turns, turns[i].life \in Ends, ~(Full /\ slot.turn = i)
  PROVE  Stays(i)
<1>1. TypeOK /\ sent \in Nat /\ switches \in Nat /\ g0 \in 0..MaxGenerations
  BY DEF Inv, TypeOK, g0
<1>2. CASE UNCHANGED turns
  BY <1>1, <1>2, SameStays
<1>3. ASSUME NEW k, NEW g, Rewrites(turns', k, g), k = slot.turn, Full PROVE Stays(i)
  BY <1>1, <1>3, RewrittenStays
<1>4. ASSUME Full, NEW l \in Ends, turns' = Finalized(slot.turn, g0, l) PROVE Stays(i)
  <2>1. Rewrites(turns', slot.turn, g0)
    BY <1>1, <1>4, FinalizedRewrites
  <2> QED BY <1>3, <1>4, <2>1
<1>5. CASE User
  <2>1. ~Send /\ ~Regenerate
    <3>1. ASSUME NEW ts, Begin(ts) PROVE FALSE
      BY <1>1, <3>1 DEF Begin
    <3> QED BY <3>1 DEF Send, Regenerate
  <2>2. ~Switch
    BY <1>1 DEF Switch
  <2>3. CASE Review
    <3>1. PICK j \in DOMAIN turns : Answers(j)
      BY <1>1, <2>3, ReviewEffect
    <3>2. i \in DOMAIN turns' /\ turns'[i] = IF i = j THEN [turns[i] EXCEPT !.card = Nobody] ELSE turns[i]
      BY <3>1 DEF Answers
    <3>3. CASE i = j
      <4>1. turns[i] \in Turns
        BY <1>1 DEF TypeOK
      <4> QED BY <3>2, <3>3, <4>1 DEF Stays, Turns
    <3>4. CASE i # j
      BY <1>1, <3>2, <3>4, SameStays
    <3> QED BY <3>3, <3>4
  <2>4. CASE StopStart
    BY <1>4, <2>4 DEF StopStart, Full, Ends
  <2>5. CASE RetryRestarts
    <3>1. CASE turns' = Reset(slot.turn)
      <4>1. Rewrites(turns', slot.turn, g0)
        BY <1>1, <3>1, ResetRewrites
      <4> QED BY <1>3, <2>5, <4>1 DEF RetryRestarts, Full
    <3> QED BY <1>2, <2>5, <3>1 DEF RetryRestarts
  <2>6. CASE RegenerateRefused \/ StopReply \/ RetryKillsReply \/ RetryRefused
    BY <1>2, <2>6 DEF RegenerateRefused, StopReply, RetryKillsReply, RetryRefused
  <2> QED BY <1>5, <2>1, <2>2, <2>3, <2>4, <2>5, <2>6 DEF User
<1>6. CASE Pump
  <2>1. CASE PumpNothing \/ PumpReady
    BY <1>2, <2>1 DEF PumpNothing, PumpReady
  <2>2. CASE PumpFailed
    BY <1>4, <2>2 DEF PumpFailed, Arrived, Full, Ends
  <2>3. CASE PumpCompleted
    <3>1. Full
      BY <2>3 DEF PumpCompleted, Arrived, Full
    <3> QED BY <2>3, <3>1, PumpCompletedStays
  <2>4. CASE PumpTokens
    <3>1. Rewrites(turns', slot.turn, g0)
      BY <1>1, <2>4, WithTokenRewrites DEF PumpTokens
    <3> QED BY <1>3, <2>4, <3>1 DEF PumpTokens, Full
  <2>5. CASE PumpAnnouncesEnd
    <3>1. stream' \in Ends
      BY <2>5 DEF PumpAnnouncesEnd, Ends
    <3>2. Rewrites(turns', slot.turn, g0)
      BY <1>1, <2>5, <3>1, WithLifeRewrites DEF PumpAnnouncesEnd
    <3> QED BY <1>3, <2>5, <3>2 DEF PumpAnnouncesEnd, Full
  <2>6. CASE PumpEnds
    <3>1. PICK l \in EndsAs : turns' = Finalized(slot.turn, g0, l)
      BY <2>6 DEF PumpEnds
    <3>2. l \in Ends
      BY DEF EndsAs, Ends, Announced
    <3> QED BY <1>4, <2>6, <3>1, <3>2 DEF PumpEnds, Full
  <2> QED BY <1>6, <2>1, <2>2, <2>3, <2>4, <2>5, <2>6 DEF Pump, Installs
<1>7. ASSUME NEW g \in Generations, Works(g) PROVE Stays(i)
  BY <1>1, <1>2, <1>7, WorkEffect DEF WorkerUnchanged
<1>8. CASE UNCHANGED vars
  BY <1>2, <1>8 DEF vars
<1> QED BY <1>5, <1>6, <1>7, <1>8 DEF Next

(* What a reply said in the end stays as it is, at its place, while other  *)
(* replies come, stop and fail.                                            *)
THEOREM FinishedStays == Spec => FinishedTurnsStay
<1>1. Inv /\ [Next]_vars =>
        (sent' = sent /\ switches' = switches /\ ~(Full /\ moved) =>
           \A i \in DOMAIN turns :
             turns[i].life \in Ends /\ ~(Full /\ slot.turn = i)
               => i \in DOMAIN turns' /\ turns'[i] = [turns[i] EXCEPT !.card = turns'[i].card])
  BY FinishedStep DEF Stays
<1> QED BY <1>1, Invariance, PTL DEF Spec, FinishedTurnsStay

=============================================================================
