----------------------- MODULE ContextMaintenance_proofs -----------------------
(***************************************************************************)
(* Proofs about ContextMaintenance, for any watched kinds, threads and     *)
(* bounds.  Marks, jobs and snapshots are related kind by kind: KindInv    *)
(* says of one kind what its mark stands for, in which order its versions  *)
(* are on their way and who still answers the latest request.  A step is   *)
(* about one kind, and the others do not notice it (Unnoticed).            *)
(***************************************************************************)
EXTENDS ContextMaintenance, SequenceTheorems, TLAPS

Seen(s) == {s[i] : i \in DOMAIN s}

(* The versions that jobs of kind k hold, or have sent.                    *)
Held(k) == Seen(jobs[k]) \cup Seen(completed[k])

(* A mark stands for one job or its result.                                *)
Counted(k) == k \notin cut => Outstanding(k) = IF k \in inflight THEN 1 ELSE 0

(* No copy is newer than the latest request, and what is made of copies is *)
(* not either.                                                             *)
Bounded(k) ==
  /\ \A t \in Threads : copies[t][k] <= asked[k]
  /\ k \notin Looking =>
       /\ \A v \in Held(k) : v <= asked[k]
       /\ InHand(k) => hand.seen <= asked[k]
       /\ store[k] <= asked[k]

(* What is stored is oldest, what was received next, what is held newest.  *)
InOrder(k) ==
  Undisturbed(k) =>
    /\ \A v \in Held(k) : store[k] <= v /\ (InHand(k) => hand.seen <= v)
    /\ InHand(k) => store[k] <= hand.seen

(* The latest request will be answered, or is.                             *)
Pending(k) ==
  \/ k \in coalesced
  \/ \E t \in Threads : Due(t, k)
  \/ \E t \in Threads : copies[t][k] >= asked[k]
  \/ \E v \in Held(k) : v >= asked[k]
  \/ InHand(k) /\ hand.seen >= asked[k]
  \/ store[k] >= asked[k]

(* Closing emptied the snapshot, and nothing of kind k is on its way.      *)
IsEmptied(k) ==
  /\ k = "project" /\ store[k] = Empty
  /\ Outstanding(k) = 0 /\ ~InHand(k)
  /\ \A t \in Threads : copies[t][k] = NoSnapshot

Answered(k) == Undisturbed(k) /\ k \in Coalescing => Pending(k) \/ IsEmptied(k)

KindInv(k) == Counted(k) /\ Bounded(k) /\ InOrder(k) /\ Answered(k)

KindsInv == \A k \in Watched : KindInv(k)

Inv == TypeOK /\ KindsInv

(* The parts of TypeOK.                                                    *)
LiveOK ==
  /\ live \in [Sources -> Nat]
  /\ \A s \in Sources : live[s] <= MaxVersion[s]

DeskOK ==
  /\ prepared \in [Threads -> Nat]
  /\ open \in BOOLEAN
  /\ updates \subseteq Watched \cap Shown
  /\ cut \subseteq Watched /\ overtaken \subseteq Watched
  /\ closedAt \in 0 .. live["coding"]

MarksOK == inflight \subseteq Watched /\ coalesced \subseteq Watched \cap Coalescing

HandOK ==
  /\ hand \in [by : Threads \cup {Nobody}, of : Watched, seen : Int]
  /\ hand.seen \in VersionsOf(hand.of)

TodoOK == todo \in [Threads -> Seq(Steps)]

CopiesOK ==
  /\ clone \in [Threads -> VersionsOf("editor")]
  /\ copies \in [Threads -> [Watched -> Int]]
  /\ \A k \in Watched, t \in Threads : copies[t][k] \in VersionsOf(k)

KindTypeOK(k) ==
  /\ jobs[k] \in Seq(VersionsOf(k)) /\ completed[k] \in Seq(VersionsOf(k))
  /\ store[k] \in VersionsOf(k) /\ asked[k] \in VersionsOf(k)

KindTypesOK ==
  /\ DOMAIN jobs = Watched /\ DOMAIN completed = Watched
  /\ DOMAIN store = Watched /\ DOMAIN asked = Watched
  /\ \A k \in Watched : KindTypeOK(k)

(* TypeOK is its parts.                                                    *)
LEMMA TypesApart ==
  TypeOK <=> LiveOK /\ DeskOK /\ MarksOK /\ HandOK /\ TodoOK /\ CopiesOK /\ KindTypesOK
  BY DEF TypeOK, LiveOK, DeskOK, MarksOK, HandOK, TodoOK, CopiesOK, KindTypesOK, KindTypeOK

(* What kinds observe.                                                     *)
LEMMA Observed ==
  /\ \A k \in Watched : Observes[k] \in Sources
  /\ "workspace" \in Watched /\ "editor" \in Watched /\ "coding" \in Sources
  /\ Observes["workspace"] = "coding" /\ Observes["editor"] = "coding"
<1>1. Observes["workspace"] = "coding" /\ Observes["editor"] = "coding"
  BY DEF Observes
<1>2. "workspace" \in Watched /\ "editor" \in Watched
  BY KindsAssumption DEF CodingKinds
<1>3. \A k \in Watched : Observes[k] \in Sources
  BY KindsAssumption DEF Sources
<1> QED BY <1>1, <1>2, <1>3

-----------------------------------------------------------------------------
(* Sequences of versions.                                                  *)

(* What is in an empty sequence, and in one of a single element.           *)
LEMMA SeenFew ==
  /\ Seen(<<>>) = {}
  /\ \A S : \A s \in Seq(S) : Len(s) = 0 => s = <<>>
  /\ \A v : Len(<<v>>) = 1 /\ Seen(<<v>>) = {v}
<1>1. Seen(<<>>) = {}
  BY DEF Seen
<1>2. \A S : \A s \in Seq(S) : Len(s) = 0 => s = <<>>
  OBVIOUS
<1>3. \A v : Len(<<v>>) = 1 /\ Seen(<<v>>) = {v}
  BY DEF Seen
<1> QED BY <1>1, <1>2, <1>3

(* An element more at the end.                                             *)
LEMMA SeenAppend ==
  ASSUME NEW S, NEW s \in Seq(S), NEW v \in S
  PROVE  /\ Append(s, v) \in Seq(S) /\ Len(Append(s, v)) = Len(s) + 1
         /\ Seen(Append(s, v)) = Seen(s) \cup {v}
<1>1. /\ Append(s, v) \in Seq(S) /\ Len(Append(s, v)) = Len(s) + 1
      /\ DOMAIN Append(s, v) = 1 .. (Len(s) + 1) /\ DOMAIN s = 1 .. Len(s) /\ Len(s) \in Nat
      /\ \A i \in 1 .. Len(s) : Append(s, v)[i] = s[i]
      /\ Append(s, v)[Len(s) + 1] = v
  OBVIOUS
<1> QED BY <1>1 DEF Seen

(* An element less at the front.                                           *)
LEMMA SeenTail ==
  ASSUME NEW S, NEW s \in Seq(S), s # <<>>
  PROVE  /\ Head(s) \in S /\ Head(s) \in Seen(s)
         /\ Tail(s) \in Seq(S) /\ Len(Tail(s)) = Len(s) - 1
         /\ Seen(Tail(s)) \subseteq Seen(s)
<1>1. /\ Head(s) = s[1] /\ Head(s) \in S /\ Tail(s) \in Seq(S) /\ Len(Tail(s)) = Len(s) - 1
      /\ Len(s) \in Nat /\ Len(s) > 0
      /\ \A i \in 1 .. Len(s) - 1 : Tail(s)[i] = s[i + 1]
      /\ DOMAIN s = 1 .. Len(s) /\ DOMAIN Tail(s) = 1 .. (Len(s) - 1)
  OBVIOUS
<1>2. Head(s) \in Seen(s)
  BY <1>1 DEF Seen
<1>3. ASSUME NEW v \in Seen(Tail(s)) PROVE v \in Seen(s)
  <2>1. PICK i \in 1 .. Len(s) - 1 : v = Tail(s)[i]
    BY <1>1 DEF Seen
  <2>2. i + 1 \in 1 .. Len(s) /\ v = s[i + 1]
    BY <1>1, <2>1
  <2> QED BY <1>1, <2>2 DEF Seen
<1> QED BY <1>1, <1>2, <1>3

(* An element less anywhere.                                               *)
LEMMA SeenRemoveAt ==
  ASSUME NEW S, NEW s \in Seq(S), NEW i \in DOMAIN s
  PROVE  /\ RemoveAt(s, i) \in Seq(S) /\ Len(RemoveAt(s, i)) = Len(s) - 1
         /\ s[i] \in S /\ s[i] \in Seen(s) /\ Seen(RemoveAt(s, i)) \subseteq Seen(s)
<1>1. i \in 1 .. Len(s) /\ Len(s) \in Nat
  OBVIOUS
<1> DEFINE a == SubSeq(s, 1, i - 1)
           b == SubSeq(s, i + 1, Len(s))
<1>2. /\ a \in Seq(S) /\ Len(a) = i - 1
      /\ \A j \in 1 .. (i - 1) : a[j] = s[j]
  BY <1>1
<1>3. /\ b \in Seq(S) /\ Len(b) = Len(s) - i
      /\ \A j \in 1 .. (Len(s) - i) : b[j] = s[i + j]
  BY <1>1
<1>4. RemoveAt(s, i) = a \o b
  BY DEF RemoveAt
<1>5. s[i] \in S /\ s[i] \in Seen(s)
  BY <1>1 DEF Seen
<1> HIDE DEF a, b
<1>6. RemoveAt(s, i) \in Seq(S) /\ Len(RemoveAt(s, i)) = Len(s) - 1
  BY <1>1, <1>2, <1>3, <1>4, ConcatProperties
<1>7. ASSUME NEW v \in Seen(RemoveAt(s, i)) PROVE v \in Seen(s)
  <2>1. PICK j \in 1 .. Len(s) - 1 : v = RemoveAt(s, i)[j]
    BY <1>1, <1>6 DEF Seen
  <2>2. v = IF j <= i - 1 THEN a[j] ELSE b[j - (i - 1)]
    BY <1>1, <1>2, <1>3, <1>4, <2>1, ConcatProperties
  <2>3. CASE j <= i - 1
    <3>1. j \in 1 .. (i - 1) /\ j \in 1 .. Len(s)
      BY <1>1, <2>1, <2>3
    <3>2. v = s[j]
      BY <1>2, <2>2, <2>3, <3>1
    <3> QED BY <3>1, <3>2 DEF Seen
  <2>4. CASE ~(j <= i - 1)
    <3>1. /\ j - (i - 1) \in 1 .. (Len(s) - i) /\ i + (j - (i - 1)) = j + 1
          /\ j + 1 \in 1 .. Len(s)
      BY <1>1, <2>1, <2>4
    <3>2. v = s[j + 1]
      BY <1>3, <2>2, <2>4, <3>1
    <3> QED BY <3>1, <3>2 DEF Seen
  <2> QED BY <2>3, <2>4
<1> QED BY <1>5, <1>6, <1>7

-----------------------------------------------------------------------------
(* Lists of steps.                                                         *)

CopyOf(k) == [do |-> "copy", of |-> k]
Has(s, x) == \E i \in DOMAIN s : s[i] = x

(* Lists one after the other.                                              *)
LEMMA Joined ==
  ASSUME NEW S, NEW s \in Seq(S), NEW u \in Seq(S)
  PROVE  /\ s \o u \in Seq(S)
         /\ \A x : Has(s, x) \/ Has(u, x) => Has(s \o u, x)
<1>1. /\ s \o u \in Seq(S) /\ Len(s \o u) = Len(s) + Len(u)
      /\ Len(s) \in Nat /\ Len(u) \in Nat
      /\ \A i \in 1 .. Len(s) + Len(u) : (s \o u)[i] = IF i <= Len(s) THEN s[i] ELSE u[i - Len(s)]
      /\ DOMAIN s = 1 .. Len(s) /\ DOMAIN u = 1 .. Len(u)
      /\ DOMAIN (s \o u) = 1 .. (Len(s) + Len(u))
  BY ConcatProperties
<1>2. ASSUME NEW x, Has(s, x) PROVE Has(s \o u, x)
  <2>1. PICK i \in 1 .. Len(s) : s[i] = x
    BY <1>1, <1>2 DEF Has
  <2>2. i \in 1 .. Len(s) + Len(u) /\ (s \o u)[i] = x
    BY <1>1, <2>1
  <2> QED BY <1>1, <2>2 DEF Has
<1>3. ASSUME NEW x, Has(u, x) PROVE Has(s \o u, x)
  <2>1. PICK i \in 1 .. Len(u) : u[i] = x
    BY <1>1, <1>3 DEF Has
  <2>2. Len(s) + i \in 1 .. Len(s) + Len(u) /\ ~(Len(s) + i <= Len(s)) /\ Len(s) + i - Len(s) = i
    BY <1>1, <2>1
  <2>3. (s \o u)[Len(s) + i] = x
    BY <1>1, <2>1, <2>2
  <2> QED BY <1>1, <2>2, <2>3 DEF Has
<1> QED BY <1>1, <1>2, <1>3

(* What is left of a list when its first step is done.                     *)
LEMMA LeftOver ==
  ASSUME NEW S, NEW s \in Seq(S), s # <<>>
  PROVE  /\ Tail(s) \in Seq(S) /\ Head(s) \in S
         /\ \A x : Has(s, x) /\ Head(s) # x => Has(Tail(s), x)
<1>1. /\ Head(s) = s[1] /\ Head(s) \in S /\ Tail(s) \in Seq(S)
      /\ Len(s) \in Nat /\ Len(s) > 0
      /\ \A i \in 1 .. Len(s) - 1 : Tail(s)[i] = s[i + 1]
      /\ DOMAIN s = 1 .. Len(s) /\ DOMAIN Tail(s) = 1 .. (Len(s) - 1)
  OBVIOUS
<1>2. ASSUME NEW x, Has(s, x), Head(s) # x PROVE Has(Tail(s), x)
  <2>1. PICK i \in 1 .. Len(s) : s[i] = x
    BY <1>1, <1>2 DEF Has
  <2>2. i # 1
    BY <1>1, <1>2, <2>1
  <2>3. i - 1 \in 1 .. Len(s) - 1 /\ (i - 1) + 1 = i
    BY <1>1, <2>1, <2>2
  <2>4. Tail(s)[i - 1] = x
    BY <1>1, <2>1, <2>3
  <2> QED BY <1>1, <2>3, <2>4 DEF Has
<1> QED BY <1>1, <1>2

(* The pieces of calls are lists of steps.                                 *)
LEMMA PiecesTyped ==
  /\ \A op \in {"drain", "updates", "apply", "clone", "read", "terminal", "restore"} :
       Do(op) \in Seq(Steps)
  /\ \A k : \A op \in {"look", "copy", "start", "unmark", "put", "clear"} :
       DoFor(op, k) \in Seq(Steps)
  /\ <<>> \in Seq(Steps)
<1>1. ASSUME NEW op \in {"drain", "updates", "apply", "clone", "read", "terminal", "restore"}
      PROVE  Do(op) \in Seq(Steps)
  <2>1. [do |-> op, of |-> "all"] \in Steps
    BY DEF Steps
  <2> QED BY <2>1 DEF Do
<1>2. ASSUME NEW op \in {"look", "copy", "start", "unmark", "put", "clear"}, NEW k
      PROVE  DoFor(op, k) \in Seq(Steps)
  <2>1. k \in Watched => [do |-> op, of |-> k] \in Steps
    BY DEF Steps
  <2> QED BY <2>1 DEF DoFor
<1>3. <<>> \in Seq(Steps)
  OBVIOUS
<1> QED BY <1>1, <1>2, <1>3

(* So are the requests; a request for a kind whose job is given a copy is  *)
(* due when it is made.                                                    *)
LEMMA AskTyped ==
  /\ \A k : Ask(k) \in Seq(Steps)
  /\ \A k : Clear(k) \in Seq(Steps)
  /\ AskCoding \in Seq(Steps)
  /\ \A k \in Watched \ Looking : Has(Ask(k), CopyOf(k))
  /\ \A k \in CodingKinds : Has(AskCoding, CopyOf(k))
<1>1. \A k : DoFor("copy", k) \in Seq(Steps) /\ DoFor("start", k) \in Seq(Steps)
             /\ DoFor("unmark", k) \in Seq(Steps) /\ DoFor("clear", k) \in Seq(Steps)
  BY PiecesTyped
<1>2. \A k : Ask(k) \in Seq(Steps) /\ Clear(k) \in Seq(Steps)
  BY <1>1, PiecesTyped, Joined DEF Ask, Clear
<1>3. ASSUME NEW k \in Watched \ Looking PROVE Has(Ask(k), CopyOf(k))
  <2>1. DoFor("copy", k) = <<CopyOf(k)>>
    BY DEF DoFor, CopyOf
  <2>2. Has(<<CopyOf(k)>>, CopyOf(k))
    BY DEF Has
  <2>3. Ask(k) = DoFor("copy", k) \o DoFor("start", k)
    BY DEF Ask
  <2>4. Has(DoFor("copy", k), CopyOf(k))
    BY <2>1, <2>2
  <2> HIDE DEF CopyOf
  <2> QED BY <1>1, <2>3, <2>4, Joined
<1>4. AskCoding \in Seq(Steps)
  BY <1>2, Joined DEF AskCoding
<1>5. ASSUME NEW k \in CodingKinds PROVE Has(AskCoding, CopyOf(k))
  <2>1. k \in Watched \ Looking /\ k \in {"workspace", "editor"}
    BY KindsAssumption DEF CodingKinds, Looking
  <2>2. Has(Ask(k), CopyOf(k))
    BY <1>3, <2>1
  <2> QED BY <1>2, <2>1, <2>2, Joined DEF AskCoding
<1> QED BY <1>2, <1>3, <1>4, <1>5

(* So are the calls.                                                       *)
LEMMA CallsTyped ==
  PumpCall \in Seq(Steps) /\ PrepareCall \in Seq(Steps) /\ OpenCall \in Seq(Steps)
<1>1. PumpCall \in Seq(Steps)
  BY PiecesTyped, Joined DEF PumpCall
<1>2. PrepareCall \in Seq(Steps)
  BY <1>1, PiecesTyped, Joined DEF PrepareCall
<1>3. OpenCall \in Seq(Steps)
  BY PiecesTyped, Joined DEF OpenCall
<1> QED BY <1>1, <1>2, <1>3

-----------------------------------------------------------------------------
(* What every step keeps.                                                  *)

LiveGrows ==
  /\ live' \in [Sources -> Nat]
  /\ \A s \in Sources : live[s] <= live'[s] /\ live'[s] <= MaxVersion[s]

(* Sources change within their bounds, or not at all.                      *)
LEMMA LiveChanges ==
  ASSUME TypeOK, (\E S : Changes(S)) \/ UNCHANGED live
  PROVE  LiveGrows /\ LiveOK'
<1>1. live \in [Sources -> Nat] /\ \A s \in Sources : live[s] <= MaxVersion[s]
  BY DEF TypeOK
<1>2. ASSUME NEW S, Changes(S) PROVE LiveGrows
  <2>1. live' = [s \in Sources |-> IF s \in S THEN live[s] + 1 ELSE live[s]]
    BY <1>2 DEF Changes, Changed
  <2>2. \A s \in Sources : s \in S => live[s] < MaxVersion[s]
    BY <1>2 DEF Changes
  <2>3. \A s \in Sources : MaxVersion[s] \in Nat
    BY BoundsAssumption
  <2> QED BY <1>1, <2>1, <2>2, <2>3 DEF LiveGrows
<1>3. UNCHANGED live => LiveGrows
  BY <1>1 DEF LiveGrows
<1>4. LiveGrows
  BY <1>2, <1>3
<1> QED BY <1>4 DEF LiveGrows, LiveOK

(* A version that there was there still was.                               *)
LEMMA VersionsGrow ==
  ASSUME TypeOK, LiveGrows, NEW k \in Watched
  PROVE  /\ VersionsOf(k) \subseteq VersionsOf(k)'
         /\ live[Observes[k]] \in Nat /\ live'[Observes[k]] \in Nat
         /\ live[Observes[k]] <= live'[Observes[k]]
<1>1. /\ live[Observes[k]] \in Nat /\ live'[Observes[k]] \in Nat
      /\ live[Observes[k]] <= live'[Observes[k]]
  BY Observed DEF TypeOK, LiveGrows
<1> QED BY <1>1 DEF VersionsOf, NoSnapshot

(* A step that is not about kind k: what was due of it still is.           *)
LEMMA Unnoticed ==
  ASSUME NEW k \in Watched, KindInv(k),
         jobs'[k] = jobs[k], completed'[k] = completed[k],
         store'[k] = store[k], asked'[k] = asked[k],
         k \in inflight' <=> k \in inflight,
         k \in coalesced => k \in coalesced' \/ \E t \in Threads : Due(t, k)',
         InHand(k)' <=> InHand(k), InHand(k) => hand'.seen = hand.seen,
         cut \subseteq cut', overtaken \subseteq overtaken',
         \A t \in Threads : copies'[t][k] = copies[t][k],
         k \notin Looking => \A t \in Threads : Due(t, k) => Due(t, k)'
  PROVE  KindInv(k)'
<1>1. Held(k)' = Held(k) /\ Outstanding(k)' = Outstanding(k)
  BY DEF Held, Outstanding
<1>2. Undisturbed(k)' => Undisturbed(k)
  BY DEF Undisturbed
<1>3. Counted(k)'
  BY <1>1 DEF Counted, KindInv
<1>4. Bounded(k)'
  BY <1>1 DEF Bounded, KindInv
<1>5. InOrder(k)'
  BY <1>1, <1>2 DEF InOrder, KindInv
<1>6. ASSUME Undisturbed(k)', k \in Coalescing PROVE Pending(k)' \/ IsEmptied(k)'
  <2>1. Pending(k) \/ IsEmptied(k)
    BY <1>2, <1>6 DEF Answered, KindInv
  <2>2. k \notin Looking
    BY <1>6 DEF Coalescing, Looking
  <2>3. CASE IsEmptied(k)
    BY <1>1, <2>3 DEF IsEmptied
  <2>4. CASE Pending(k)
    <3>1. CASE k \in coalesced
      BY <3>1 DEF Pending
    <3>2. CASE \E t \in Threads : Due(t, k)
      BY <2>2, <3>2 DEF Pending
    <3>3. CASE \E t \in Threads : copies[t][k] >= asked[k]
      BY <3>3 DEF Pending
    <3>4. CASE \E v \in Held(k) : v >= asked[k]
      BY <1>1, <3>4 DEF Pending
    <3>5. CASE InHand(k) /\ hand.seen >= asked[k]
      BY <3>5 DEF Pending
    <3>6. CASE store[k] >= asked[k]
      BY <3>6 DEF Pending
    <3> QED BY <2>4, <3>1, <3>2, <3>3, <3>4, <3>5, <3>6 DEF Pending
  <2> QED BY <2>1, <2>3, <2>4
<1>7. Answered(k)'
  BY <1>6 DEF Answered
<1> QED BY <1>3, <1>4, <1>5, <1>7 DEF KindInv

(* A thread that goes on with a call: its list is still one of steps, and  *)
(* what was due before and is not what it did is due after.                *)
LEMMA StillDue ==
  ASSUME TypeOK, NEW t \in Threads, todo[t] # <<>>, NEW more \in Seq(Steps), Goes(t, more)
  PROVE  /\ TodoOK'
         /\ \A k : Head(todo[t]) # CopyOf(k) => \A u \in Threads : Due(u, k) => Due(u, k)'
         /\ \A k : Has(more, CopyOf(k)) => Due(t, k)'
<1>1. todo \in [Threads -> Seq(Steps)] /\ todo[t] \in Seq(Steps)
  BY DEF TypeOK
<1>2. /\ Tail(todo[t]) \in Seq(Steps)
      /\ \A x : Has(todo[t], x) /\ Head(todo[t]) # x => Has(Tail(todo[t]), x)
  BY <1>1, LeftOver
<1>3. /\ more \o Tail(todo[t]) \in Seq(Steps)
      /\ \A x : Has(more, x) \/ Has(Tail(todo[t]), x) => Has(more \o Tail(todo[t]), x)
  BY <1>2, Joined
<1>4. /\ todo'[t] = more \o Tail(todo[t])
      /\ \A u \in Threads : u # t => todo'[u] = todo[u]
      /\ TodoOK'
  BY <1>1, <1>3 DEF Goes, TodoOK
<1>5. \A u, k : Due(u, k) <=> Has(todo[u], CopyOf(k))
  BY DEF Due, Has, CopyOf
<1>6. \A u, k : Due(u, k)' <=> Has(todo'[u], CopyOf(k))
  BY DEF Due, Has, CopyOf
<1> HIDE DEF CopyOf
<1>7. ASSUME NEW k, Head(todo[t]) # CopyOf(k), NEW u \in Threads, Due(u, k)
      PROVE  Due(u, k)'
  <2>1. CASE u = t
    BY <1>2, <1>3, <1>4, <1>5, <1>6, <1>7, <2>1
  <2>2. CASE u # t
    BY <1>4, <1>5, <1>6, <1>7, <2>2
  <2> QED BY <2>1, <2>2
<1>8. \A k : Has(more, CopyOf(k)) => Due(t, k)'
  BY <1>3, <1>4, <1>6
<1> QED BY <1>4, <1>7, <1>8

(* A thread that starts a call had nothing due.                            *)
LEMMA CallStarts ==
  ASSUME TypeOK, NEW t \in Threads, NEW steps \in Seq(Steps), Calls(t, steps)
  PROVE  TodoOK' /\ \A k : \A u \in Threads : Due(u, k) => Due(u, k)'
<1>1. /\ todo \in [Threads -> Seq(Steps)] /\ todo[t] = <<>>
      /\ todo' = [todo EXCEPT ![t] = steps]
  BY DEF TypeOK, Calls, Idle
<1>2. \A k : ~Due(t, k)
  BY <1>1 DEF Due
<1>3. ASSUME NEW k, NEW u \in Threads, Due(u, k) PROVE Due(u, k)'
  <2>1. u # t
    BY <1>2, <1>3
  <2>2. todo'[u] = todo[u]
    BY <1>1, <2>1
  <2> QED BY <1>3, <2>2 DEF Due
<1> QED BY <1>1, <1>3 DEF TodoOK

(* The types where only sources, lists and the desk move.                  *)
LEMMA TypesStay ==
  ASSUME TypeOK, LiveGrows,
         UNCHANGED <<marks, jobs, completed, hand, store, asked>>
  PROVE  MarksOK' /\ HandOK' /\ KindTypesOK'
<1>1. MarksOK /\ HandOK /\ KindTypesOK
  BY TypesApart
<1>2. UNCHANGED <<inflight, coalesced, jobs, completed, hand, store, asked>>
  BY DEF marks
<1>3. MarksOK'
  BY <1>1, <1>2 DEF MarksOK
<1>4. HandOK'
  <2>1. hand.of \in Watched
    BY <1>1 DEF HandOK
  <2>2. hand.seen \in VersionsOf(hand.of)'
    BY <1>1, <2>1, VersionsGrow DEF HandOK
  <2>3. VersionsOf(hand.of)' = NoSnapshot .. live'[Observes[hand'.of]]
    BY <1>2 DEF VersionsOf
  <2> QED BY <1>1, <1>2, <2>2 DEF HandOK, VersionsOf
<1>5. ASSUME NEW k \in Watched PROVE KindTypeOK(k)'
  <2>1. VersionsOf(k) \subseteq VersionsOf(k)'
    BY VersionsGrow
  <2>2. KindTypeOK(k)
    BY <1>1 DEF KindTypesOK
  <2> QED BY <1>2, <2>1, <2>2 DEF KindTypeOK
<1>6. KindTypesOK'
  BY <1>1, <1>2, <1>5 DEF KindTypesOK
<1> QED BY <1>3, <1>4, <1>6

(* Copies are still of versions there were.                                *)
LEMMA CopiesStay ==
  ASSUME TypeOK, LiveGrows, UNCHANGED <<copies, clone>>
  PROVE  CopiesOK'
<1>1. CopiesOK
  BY TypesApart
<1>2. \A k \in Watched : VersionsOf(k) \subseteq VersionsOf(k)'
  BY VersionsGrow
<1>3. \A k \in Watched, t \in Threads : copies'[t][k] \in VersionsOf(k)'
  BY <1>1, <1>2 DEF CopiesOK
<1>4. clone' \in [Threads -> VersionsOf("editor")']
  BY <1>1, <1>2, Observed DEF CopiesOK
<1> QED BY <1>1, <1>3, <1>4 DEF CopiesOK

(* The close was at a version there was.                                   *)
LEMMA DeskStays ==
  ASSUME TypeOK, LiveGrows, UNCHANGED <<closedAt, cut, overtaken>>,
         open' \in BOOLEAN, updates' \subseteq Watched \cap Shown,
         prepared' \in [Threads -> Nat]
  PROVE  DeskOK'
<1>1. DeskOK /\ live["coding"] \in Nat
  BY TypesApart, Observed DEF TypeOK
<1>2. live'["coding"] \in Nat /\ live["coding"] <= live'["coding"]
  BY Observed DEF LiveGrows
<1> QED BY <1>1, <1>2 DEF DeskOK

(* The next step of a call: what it is about, and what it was not for.     *)
LEMMA NextStep ==
  ASSUME TypeOK, NEW t \in Threads, NEW op, At(t, op)
  PROVE  /\ todo[t] # <<>>
         /\ op \in {"look", "copy", "start", "unmark", "put", "clear"} => KindAt(t) \in Watched
         /\ op # "copy" => \A k : Head(todo[t]) # CopyOf(k)
         /\ \A k : k # KindAt(t) => Head(todo[t]) # CopyOf(k)
<1>1. todo[t] \in Seq(Steps) /\ todo[t] # <<>> /\ Head(todo[t]).do = op
  BY DEF TypeOK, At
<1>2. Head(todo[t]) \in Steps
  BY <1>1
<1>3. op \in {"look", "copy", "start", "unmark", "put", "clear"} => KindAt(t) \in Watched
  BY <1>1, <1>2 DEF Steps, KindAt
<1>4. op # "copy" => \A k : Head(todo[t]) # CopyOf(k)
  BY <1>1 DEF CopyOf
<1>5. \A k : k # KindAt(t) => Head(todo[t]) # CopyOf(k)
  BY DEF CopyOf, KindAt
<1> QED BY <1>1, <1>3, <1>4, <1>5

(* Versions are numbers.                                                   *)
LEMMA Numbers ==
  ASSUME TypeOK, NEW k \in Watched
  PROVE  /\ live[Observes[k]] \in Nat
         /\ Held(k) \subseteq VersionsOf(k) /\ store[k] \in VersionsOf(k)
         /\ asked[k] \in VersionsOf(k)
         /\ \A t \in Threads : copies[t][k] \in VersionsOf(k)
         /\ \A v \in VersionsOf(k) : v \in Int /\ v >= NoSnapshot /\ v <= live[Observes[k]]
         /\ hand.seen \in Int
         /\ Len(jobs[k]) \in Nat /\ Len(completed[k]) \in Nat /\ Outstanding(k) \in Nat
<1>1. live[Observes[k]] \in Nat
  BY Observed DEF TypeOK
<1>2. /\ jobs[k] \in Seq(VersionsOf(k)) /\ completed[k] \in Seq(VersionsOf(k))
      /\ store[k] \in VersionsOf(k) /\ asked[k] \in VersionsOf(k)
      /\ \A t \in Threads : copies[t][k] \in VersionsOf(k)
      /\ hand.seen \in Int
  BY DEF TypeOK
<1>3. Seen(jobs[k]) \subseteq VersionsOf(k) /\ Seen(completed[k]) \subseteq VersionsOf(k)
  BY <1>2 DEF Seen
<1>4. \A v \in VersionsOf(k) : v \in Int /\ v >= NoSnapshot /\ v <= live[Observes[k]]
  BY <1>1 DEF VersionsOf, NoSnapshot
<1>5. Len(jobs[k]) \in Nat /\ Len(completed[k]) \in Nat /\ Outstanding(k) \in Nat
  <2>1. Len(jobs[k]) \in Nat /\ Len(completed[k]) \in Nat
    BY <1>2, LenProperties
  <2>2. \A a, b \in Nat : a + b \in Nat
    OBVIOUS
  <2> QED BY <2>1, <2>2, Zenon DEF Outstanding
<1> QED BY <1>1, <1>2, <1>3, <1>4, <1>5 DEF Held

(* Nothing outstanding is no job and no result.                            *)
LEMMA NothingHeld ==
  ASSUME TypeOK, NEW k \in Watched, Outstanding(k) = 0
  PROVE  jobs[k] = <<>> /\ completed[k] = <<>> /\ Held(k) = {}
<1>1. Len(jobs[k]) = 0 /\ Len(completed[k]) = 0
  <2>1. Len(jobs[k]) \in Nat /\ Len(completed[k]) \in Nat
    BY Numbers
  <2>2. Len(jobs[k]) + Len(completed[k]) = 0
    BY DEF Outstanding
  <2>3. \A a, b \in Nat : a + b = 0 => a = 0 /\ b = 0
    OBVIOUS
  <2> QED BY <2>1, <2>2, <2>3, Zenon
<1>2. jobs[k] = <<>> /\ completed[k] = <<>>
  BY <1>1, SeenFew DEF TypeOK
<1> QED BY <1>2, SeenFew DEF Held

(* The parts again, after a step.                                          *)
LEMMA Together ==
  ASSUME LiveOK', DeskOK', MarksOK', HandOK', TodoOK', CopiesOK', KindTypesOK'
  PROVE  TypeOK'
  BY TypesApart, PTL

(* A step of lists and sources alone keeps the invariant.                  *)
LEMMA Quiet ==
  ASSUME Inv, LiveGrows, LiveOK', DeskOK', TodoOK', CopiesOK',
         UNCHANGED <<marks, jobs, completed, hand, store, copies, cut, overtaken, asked>>,
         \A k : \A u \in Threads : Due(u, k) => Due(u, k)'
  PROVE  Inv'
<1>1. UNCHANGED <<inflight, coalesced, jobs, completed, hand, store, copies, cut, overtaken, asked>>
  BY DEF marks
<1>2. TypeOK'
  BY TypesStay, Together DEF Inv
<1>3. ASSUME NEW k \in Watched PROVE KindInv(k)'
  <2>1. KindInv(k) /\ (InHand(k)' <=> InHand(k))
    BY <1>1 DEF Inv, KindsInv, InHand
  <2> QED BY <1>1, <2>1, Unnoticed
<1> QED BY <1>2, <1>3 DEF Inv, KindsInv

-----------------------------------------------------------------------------
(* The steps.                                                              *)

(* The window's calls, and the preparations of others.                     *)
LEMMA CallsBegin ==
  ASSUME Inv, WindowActs \/ \E t \in Threads : Prepares(t)
  PROVE  Inv'
<1>1. TypeOK
  BY DEF Inv
<1>2. ASSUME NEW S, NEW steps \in Seq(Steps), WindowCalls(S, steps),
             closedAt' \in {closedAt, live'["coding"]}, open' \in BOOLEAN, prepared' = prepared
      PROVE  Inv'
  <2>1. /\ UNCHANGED <<marks, jobs, completed, hand, store, updates, copies, clone, cut, overtaken, asked>>
        /\ Changes(S) /\ Calls("ui", steps)
    BY <1>2 DEF WindowCalls, results
  <2>2. LiveGrows /\ LiveOK'
    BY <1>1, <2>1, LiveChanges
  <2>3. TodoOK' /\ \A k : \A u \in Threads : Due(u, k) => Due(u, k)'
    BY <1>1, <2>1, CallStarts, BoundsAssumption
  <2>4. DeskOK'
    <3>1. CASE closedAt' = closedAt
      BY <1>1, <1>2, <2>1, <2>2, <3>1, DeskStays DEF TypeOK
    <3>2. CASE closedAt' = live'["coding"]
      <4>1. closedAt' \in 0 .. live'["coding"]
        BY <2>2, <3>2, Observed DEF LiveGrows
      <4> QED BY <1>1, <1>2, <2>1, <4>1 DEF DeskOK, TypeOK
    <3> QED BY <1>2, <3>1, <3>2
  <2>5. CopiesOK'
    BY <1>1, <2>1, <2>2, CopiesStay
  <2> QED BY <2>1, <2>2, <2>3, <2>4, <2>5, Quiet
<1>3. AskCoding \in Seq(Steps) /\ (\A k : Ask(k) \in Seq(Steps) /\ Clear(k) \in Seq(Steps))
      /\ Do("terminal") \in Seq(Steps) /\ Do("restore") \in Seq(Steps)
      /\ DoFor("unmark", "git") \in Seq(Steps)
      /\ PumpCall \in Seq(Steps) /\ PrepareCall \in Seq(Steps) /\ OpenCall \in Seq(Steps)
      /\ open \in BOOLEAN
  BY <1>1, AskTyped, PiecesTyped, CallsTyped DEF TypeOK
<1>4. ASSUME Edit \/ TerminalActs \/ OpenProject \/ RefreshPanel \/ GitMutated PROVE Inv'
  <2>1. UNCHANGED place
    BY <1>4 DEF Edit, TerminalActs, OpenProject, RefreshPanel, GitMutated
  <2>2. closedAt' = closedAt /\ open' \in BOOLEAN /\ prepared' = prepared
    BY <1>3, <2>1 DEF place
  <2>3. \E S : \E steps \in Seq(Steps) : WindowCalls(S, steps)
    <3>1. AskCoding \o Ask("runtime") \in Seq(Steps)
      BY <1>3, Joined
    <3>2. AskCoding \o Ask("project") \o Ask("runtime") \in Seq(Steps)
      BY <1>3, Joined
    <3>3. DoFor("unmark", "git") \o Ask("git") \o AskCoding \in Seq(Steps)
      BY <1>3, Joined
    <3> QED BY <1>3, <1>4, <3>1, <3>2, <3>3
            DEF Edit, TerminalActs, OpenProject, RefreshPanel, GitMutated
  <2> QED BY <1>2, <2>2, <2>3
<1>5. ASSUME Expand PROVE Inv'
  <2>1. PrepareCall \o Do("terminal") \o OpenCall \o Do("restore") \in Seq(Steps)
    BY <1>3, Joined
  <2> QED BY <1>2, <1>5, <2>1 DEF Expand
<1>6. ASSUME Close PROVE Inv'
  <2>1. Clear("workspace") \o Clear("editor") \o Clear("project") \o Clear("git")
          \o Clear("runtime") \o PrepareCall \in Seq(Steps)
    BY <1>3, Joined
  <2> QED BY <1>2, <1>6, <2>1 DEF Close
<1>7. ASSUME WindowPumps PROVE Inv'
  BY <1>2, <1>3, <1>7 DEF WindowPumps, place
<1>8. ASSUME NEW t \in Threads, Prepares(t) PROVE Inv'
  <2>1. /\ UNCHANGED <<live, open, closedAt, marks, jobs, completed, hand, store, updates,
                       copies, clone, cut, overtaken, asked>>
        /\ Calls(t, PrepareCall)
    BY <1>8 DEF Prepares, results
  <2>2. prepared' \in [Threads -> Nat]
    BY <1>1, <1>8 DEF Prepares, TypeOK
  <2>3. LiveGrows /\ LiveOK'
    BY <1>1, <2>1, LiveChanges
  <2>4. TodoOK' /\ \A k : \A u \in Threads : Due(u, k) => Due(u, k)'
    BY <1>1, <1>3, <2>1, CallStarts
  <2>5. DeskOK' /\ CopiesOK'
    BY <1>1, <2>1, <2>2, <2>3, DeskStays, CopiesStay DEF TypeOK
  <2> QED BY <2>1, <2>3, <2>4, <2>5, Quiet
<1> QED BY <1>4, <1>5, <1>6, <1>7, <1>8 DEF WindowActs

(* The steps of a call that only move it on.                               *)
LEMMA CallsMoveOn ==
  ASSUME Inv, NEW t \in Threads,
         \/ EnsureTerminal(t) \/ Restore(t) \/ Drained(t) \/ TakeUpdates(t)
         \/ ApplyUpdates(t) \/ CloneCoding(t) \/ ReadStore(t)
  PROVE  Inv'
<1>1. TypeOK
  BY DEF Inv
<1>2. ASSUME NEW op, op # "copy", At(t, op), NEW more \in Seq(Steps), Goes(t, more),
             (\E S : Changes(S)) \/ UNCHANGED live,
             clone' \in [Threads -> VersionsOf("editor")],
             updates' \subseteq Watched \cap Shown,
             UNCHANGED <<place, marks, jobs, completed, hand, store, copies, cut, overtaken, asked>>
      PROVE  Inv'
  <2>1. LiveGrows /\ LiveOK'
    BY <1>1, <1>2, LiveChanges
  <2>2. todo[t] # <<>> /\ \A k : Head(todo[t]) # CopyOf(k)
    BY <1>1, <1>2, NextStep
  <2>3. TodoOK' /\ \A k : \A u \in Threads : Due(u, k) => Due(u, k)'
    BY <1>1, <1>2, <2>2, StillDue
  <2>4. DeskOK'
    BY <1>1, <1>2, <2>1, DeskStays DEF place, TypeOK
  <2>5. CopiesOK'
    <3>1. \A k \in Watched : VersionsOf(k) \subseteq VersionsOf(k)'
      BY <1>1, <2>1, VersionsGrow
    <3>2. CopiesOK
      BY <1>1, TypesApart
    <3>3. clone' \in [Threads -> VersionsOf("editor")']
      BY <1>2, <3>1, Observed
    <3>4. \A k \in Watched, u \in Threads : copies'[u][k] \in VersionsOf(k)'
      BY <1>2, <3>1, <3>2 DEF CopiesOK
    <3> QED BY <1>2, <3>2, <3>3, <3>4 DEF CopiesOK
  <2> QED BY <1>2, <2>1, <2>3, <2>4, <2>5, Quiet
<1>3. AskCoding \in Seq(Steps) /\ (\A k : Ask(k) \in Seq(Steps)) /\ <<>> \in Seq(Steps)
      /\ (\A k : DoFor("look", k) \in Seq(Steps) /\ DoFor("unmark", k) \in Seq(Steps)
                 /\ DoFor("put", k) \in Seq(Steps))
      /\ Do("apply") \in Seq(Steps)
  BY AskTyped, PiecesTyped
<1>4. /\ clone \in [Threads -> VersionsOf("editor")] /\ updates \subseteq Watched \cap Shown
      /\ NoSnapshot \in VersionsOf("editor") /\ live["coding"] \in VersionsOf("editor")
  <2>1. live["coding"] \in Nat
    BY <1>1, Observed DEF TypeOK
  <2>2. NoSnapshot \in VersionsOf("editor") /\ live["coding"] \in VersionsOf("editor")
    BY <2>1, Observed DEF VersionsOf, NoSnapshot
  <2>3. clone \in [Threads -> VersionsOf("editor")] /\ updates \subseteq Watched \cap Shown
    BY <1>1 DEF TypeOK
  <2> QED BY <2>2, <2>3
<1>5. CASE EnsureTerminal(t)
  <2>1. AskCoding \o Ask("runtime") \in Seq(Steps)
    BY <1>3, Joined
  <2>2. \E more \in Seq(Steps) : Goes(t, more)
    BY <1>3, <1>5, <2>1 DEF EnsureTerminal
  <2> QED BY <1>2, <1>4, <1>5, <2>2 DEF EnsureTerminal, results
<1>6. CASE Restore(t)
  <2>1. \A told \in {<<>>, Ask("diagnostics") \o AskCoding} : told \o Ask("summaries") \in Seq(Steps)
    BY <1>3, Joined
  <2>2. \E more \in Seq(Steps) : Goes(t, more)
    BY <1>3, <1>6, <2>1 DEF Restore
  <2> QED BY <1>2, <1>4, <1>6, <2>2 DEF Restore, results
<1>7. CASE Drained(t)
  BY <1>2, <1>3, <1>4, <1>7 DEF Drained, desk, results
<1>8. CASE TakeUpdates(t)
  <2>1. /\ (IF updates = {} THEN <<>> ELSE Do("apply")) \in Seq(Steps)
        /\ (IF updates \cap Refreshing # {} THEN AskCoding ELSE DoFor("look", "workspace")) \in Seq(Steps)
    BY <1>3
  <2>2. (IF updates = {} THEN <<>> ELSE Do("apply"))
          \o (IF updates \cap Refreshing # {} THEN AskCoding ELSE DoFor("look", "workspace")) \in Seq(Steps)
    BY <2>1, Joined
  <2>3. \E more \in Seq(Steps) : Goes(t, more)
    BY <1>8, <2>2 DEF TakeUpdates
  <2> QED BY <1>2, <1>4, <1>8, <2>3 DEF TakeUpdates, desk
<1>9. CASE ApplyUpdates(t)
  <2>1. (\E S : Changes(S)) \/ UNCHANGED live
    <3>1. CASE open /\ live["coding"] < MaxVersion["coding"]
      BY <1>9, <3>1 DEF ApplyUpdates, Changes
    <3>2. CASE ~(open /\ live["coding"] < MaxVersion["coding"])
      BY <1>9, <3>2 DEF ApplyUpdates
    <3> QED BY <3>1, <3>2
  <2> QED BY <1>2, <1>3, <1>4, <1>9, <2>1 DEF ApplyUpdates, results
<1>10. CASE CloneCoding(t)
  <2>1. clone' \in [Threads -> VersionsOf("editor")]
    BY <1>4, <1>10 DEF CloneCoding
  <2> QED BY <1>2, <1>3, <1>4, <1>10, <2>1 DEF CloneCoding, desk, results
<1>11. CASE ReadStore(t)
  <2> DEFINE first == clone[t] # NoSnapshot /\ store["editor"] = NoSnapshot
             a == IF first THEN DoFor("unmark", "editor") \o DoFor("put", "editor") ELSE <<>>
             b == IF store["workspace"] = NoSnapshot THEN Ask("workspace") ELSE <<>>
  <2>1. a \in Seq(Steps) /\ b \in Seq(Steps)
    BY <1>3, Joined
  <2>2. clone' = (IF first THEN clone ELSE [clone EXCEPT ![t] = NoSnapshot])
        /\ Goes(t, a \o b) /\ At(t, "read")
        /\ UNCHANGED <<desk, marks, jobs, results, copies, cut, overtaken, asked>>
    BY <1>11 DEF ReadStore
  <2> HIDE DEF first, a, b
  <2>3. a \o b \in Seq(Steps)
    BY <2>1, Joined
  <2>4. clone' \in [Threads -> VersionsOf("editor")]
    BY <1>4, <2>2
  <2> QED BY <1>2, <1>4, <2>2, <2>3, <2>4 DEF desk, results
<1> QED BY <1>5, <1>6, <1>7, <1>8, <1>9, <1>10, <1>11

(* A copy is of the present version, and answers the latest request.       *)
LEMMA CopyStep ==
  ASSUME Inv, NEW t \in Threads, Copy(t)
  PROVE  Inv'
<1>1. TypeOK /\ KindsInv /\ At(t, "copy")
  BY DEF Inv, Copy
<1>0. PICK k \in Watched : k = KindAt(t)
  BY <1>1, NextStep
<1> DEFINE v == live[Observes[k]]
<1>2. /\ copies' = [copies EXCEPT ![t][k] = v]
      /\ asked' = [asked EXCEPT ![k] = v]
      /\ Goes(t, <<>>)
      /\ UNCHANGED <<live, place, inflight, coalesced, jobs, completed, hand, store, updates,
                     clone, cut, overtaken>>
  BY <1>0 DEF Copy, desk, marks, results
<1>3. /\ todo[t] # <<>>
      /\ \A g : g # k => Head(todo[t]) # CopyOf(g)
  BY <1>0, <1>1, NextStep
<1>4. LiveGrows /\ LiveOK'
  BY <1>1, <1>2, LiveChanges
<1>5. TodoOK' /\ \A g : g # k => \A u \in Threads : Due(u, g) => Due(u, g)'
  BY <1>1, <1>2, <1>3, StillDue, PiecesTyped
<1>6. v \in Nat /\ v \in VersionsOf(k)
  BY <1>1, Numbers DEF VersionsOf, NoSnapshot
<1>7. \A g : VersionsOf(g)' = VersionsOf(g)
  BY <1>2 DEF VersionsOf
<1> HIDE DEF v
<1>8. /\ asked'[k] = v /\ copies'[t][k] = v
      /\ \A g \in Watched \ {k} : asked'[g] = asked[g]
      /\ \A g \in Watched \ {k}, u \in Threads : copies'[u][g] = copies[u][g]
      /\ \A u \in Threads \ {t} : copies'[u][k] = copies[u][k]
  BY <1>1, <1>2, <1>3 DEF TypeOK
<1>9. TypeOK'
  <2>1. DeskOK' /\ MarksOK' /\ HandOK'
    BY <1>1, <1>2, TypesApart DEF place, DeskOK, MarksOK, HandOK, VersionsOf
  <2>2. CopiesOK'
    <3>1. CopiesOK
      BY <1>1, TypesApart
    <3>2. copies' \in [Threads -> [Watched -> Int]]
      BY <1>2, <1>3, <1>6, <3>1 DEF CopiesOK
    <3>3. \A g \in Watched, u \in Threads : copies'[u][g] \in VersionsOf(g)
      BY <1>6, <1>8, <3>1 DEF CopiesOK
    <3> QED BY <1>2, <1>7, <3>1, <3>2, <3>3 DEF CopiesOK
  <2>3. KindTypesOK'
    <3>1. KindTypesOK
      BY <1>1, TypesApart
    <3>2. \A g \in Watched : asked'[g] \in VersionsOf(g)
      BY <1>6, <1>8, <3>1 DEF KindTypesOK, KindTypeOK
    <3>3. DOMAIN asked' = Watched
      BY <1>2, <3>1 DEF KindTypesOK
    <3> QED BY <1>2, <1>7, <3>1, <3>2, <3>3 DEF KindTypesOK, KindTypeOK
  <2> QED BY <1>4, <1>5, <2>1, <2>2, <2>3, Together
<1>10. KindInv(k)'
  <2>1. KindInv(k)
    BY <1>1 DEF KindsInv
  <2>2. asked[k] <= v /\ asked[k] \in Int /\ v \in Int /\ v <= v
    BY <1>1, <1>6, Numbers DEF v
  <2>3. Held(k)' = Held(k) /\ Outstanding(k)' = Outstanding(k) /\ (InHand(k)' <=> InHand(k))
        /\ (Undisturbed(k)' <=> Undisturbed(k))
    BY <1>2 DEF Held, Outstanding, InHand, Undisturbed
  <2>4. /\ \A x \in Held(k) : x \in Int
        /\ store[k] \in Int /\ hand.seen \in Int
        /\ \A u \in Threads : copies[u][k] \in Int
    BY <1>1, Numbers
  <2>5. Bounded(k)'
    <3>1. \A u \in Threads : copies'[u][k] <= v
      <4>1. \A u \in Threads : copies[u][k] <= asked[k]
        BY <2>1 DEF KindInv, Bounded
      <4>2. \A u \in Threads : copies[u][k] <= v
        BY <2>2, <2>4, <4>1
      <4> QED BY <1>8, <2>2, <4>2
    <3>2. k \notin Looking => /\ \A x \in Held(k) : x <= v
                              /\ InHand(k) => hand.seen <= v
                              /\ store[k] <= v
      BY <2>1, <2>2, <2>4 DEF KindInv, Bounded
    <3> QED BY <1>2, <1>8, <2>3, <3>1, <3>2 DEF Bounded
  <2>6. Counted(k)' /\ InOrder(k)'
    BY <1>2, <2>1, <2>3 DEF KindInv, Counted, InOrder
  <2>7. Answered(k)'
    BY <1>8, <2>2 DEF Answered, Pending
  <2> QED BY <2>5, <2>6, <2>7 DEF KindInv
<1>11. ASSUME NEW g \in Watched, g # k PROVE KindInv(g)'
  <2>1. KindInv(g) /\ (InHand(g)' <=> InHand(g))
    BY <1>1, <1>2 DEF KindsInv, InHand
  <2>2. \A u \in Threads : copies'[u][g] = copies[u][g]
    BY <1>8, <1>11
  <2> QED BY <1>2, <1>5, <1>8, <1>11, <2>1, <2>2, Unnoticed
<1> QED BY <1>9, <1>10, <1>11 DEF Inv, KindsInv

(* schedule: the copy is used, for a job or in vain when one is in flight. *)
LEMMA StartStep ==
  ASSUME Inv, NEW t \in Threads, Start(t)
  PROVE  Inv'
<1>1. TypeOK /\ KindsInv /\ At(t, "start")
  BY DEF Inv, Start
<1>0. PICK k \in Watched : k = KindAt(t)
  BY <1>1, NextStep
<1> DEFINE v == IF k \in Looking THEN live[Observes[k]] ELSE copies[t][k]
<1>2. /\ Begins(k, v)
      /\ copies' = [copies EXCEPT ![t][k] = NoSnapshot]
      /\ Goes(t, <<>>)
      /\ UNCHANGED <<live, place, completed, hand, store, updates, clone, cut, asked>>
  BY <1>0 DEF Start, desk, results
<1>3. TodoOK' /\ \A g : \A u \in Threads : Due(u, g) => Due(u, g)'
  <2>1. todo[t] # <<>> /\ \A g : Head(todo[t]) # CopyOf(g)
    BY <1>1, NextStep
  <2> QED BY <1>1, <1>2, <2>1, StillDue, PiecesTyped
<1>4. LiveGrows /\ LiveOK'
  BY <1>1, <1>2, LiveChanges
<1>5. v \in VersionsOf(k) /\ NoSnapshot \in VersionsOf(k) /\ v \in Int
  <2>1. live[Observes[k]] \in VersionsOf(k) /\ NoSnapshot \in VersionsOf(k)
    BY <1>1, Numbers DEF VersionsOf, NoSnapshot
  <2> QED BY <1>1, <2>1, Numbers
<1>6. k \notin Looking => v = copies[t][k]
  OBVIOUS
<1> HIDE DEF v
<1>7. /\ copies'[t][k] = NoSnapshot
      /\ \A g \in Watched \ {k}, u \in Threads : copies'[u][g] = copies[u][g]
      /\ \A u \in Threads \ {t} : copies'[u][k] = copies[u][k]
  BY <1>1, <1>2 DEF TypeOK
<1>8. /\ cut' = cut /\ overtaken' \in {overtaken, overtaken \cup {k}}
      /\ inflight' = inflight \cup {k}
      /\ coalesced' = IF k \in inflight THEN coalesced \cup ({k} \cap Coalescing) ELSE coalesced
      /\ jobs' = IF k \in inflight THEN jobs ELSE [jobs EXCEPT ![k] = Append(@, v)]
      /\ k \notin inflight /\ k \notin overtaken' => ~Older(k, v)
      /\ overtaken \subseteq overtaken'
  BY <1>2 DEF Begins
<1>9. /\ k \in inflight => jobs'[k] = jobs[k]
      /\ k \notin inflight => jobs'[k] = Append(jobs[k], v)
      /\ \A g \in Watched \ {k} : jobs'[g] = jobs[g]
      /\ DOMAIN jobs' = Watched
  BY <1>1, <1>8 DEF TypeOK
<1>10. /\ k \in inflight => Held(k)' = Held(k) /\ Outstanding(k)' = Outstanding(k)
       /\ k \notin inflight => Held(k)' = Held(k) \cup {v} /\ Outstanding(k)' = Outstanding(k) + 1
       /\ jobs'[k] \in Seq(VersionsOf(k))
  <2>1. jobs[k] \in Seq(VersionsOf(k))
    BY <1>1 DEF TypeOK
  <2>2. CASE k \in inflight
    BY <1>2, <1>9, <2>1, <2>2 DEF Held, Outstanding
  <2>3. CASE k \notin inflight
    <3>1. /\ Len(jobs'[k]) = Len(jobs[k]) + 1 /\ Seen(jobs'[k]) = Seen(jobs[k]) \cup {v}
          /\ jobs'[k] \in Seq(VersionsOf(k))
      <4>1. /\ Append(jobs[k], v) \in Seq(VersionsOf(k))
            /\ Len(Append(jobs[k], v)) = Len(jobs[k]) + 1
            /\ Seen(Append(jobs[k], v)) = Seen(jobs[k]) \cup {v}
        BY <1>5, <2>1, SeenAppend
      <4> QED BY <1>9, <2>3, <4>1, Zenon
    <3>2. Len(jobs[k]) \in Nat /\ Len(completed[k]) \in Nat /\ completed'[k] = completed[k]
      BY <1>1, <1>2, Numbers
    <3>3. \A a, b \in Nat : (a + 1) + b = (a + b) + 1
      OBVIOUS
    <3>4. (Len(jobs[k]) + 1) + Len(completed[k]) = (Len(jobs[k]) + Len(completed[k])) + 1
      BY <3>2, <3>3, Zenon
    <3>5. Outstanding(k)' = Outstanding(k) + 1
      BY <3>1, <3>2, <3>4, Zenon DEF Outstanding
    <3> QED BY <2>3, <3>1, <3>2, <3>5 DEF Held
  <2> QED BY <2>2, <2>3
<1>11. TypeOK'
  <2>1. MarksOK' /\ DeskOK' /\ HandOK'
    <3>1. MarksOK'
      BY <1>1, <1>8 DEF MarksOK, TypeOK
    <3>2. DeskOK'
      BY <1>1, <1>2, <1>8 DEF place, DeskOK, TypeOK
    <3>3. HandOK'
      BY <1>1, <1>2 DEF HandOK, TypeOK, VersionsOf
    <3> QED BY <3>1, <3>2, <3>3
  <2>2. CopiesOK'
    <3>1. CopiesOK
      BY <1>1, TypesApart
    <3>2. copies' \in [Threads -> [Watched -> Int]]
      BY <1>2, <3>1 DEF CopiesOK, NoSnapshot
    <3>3. \A g \in Watched, u \in Threads : copies'[u][g] \in VersionsOf(g)
      BY <1>5, <1>7, <3>1 DEF CopiesOK
    <3> QED BY <1>2, <3>1, <3>2, <3>3 DEF CopiesOK, VersionsOf
  <2>3. KindTypesOK'
    <3>1. KindTypesOK
      BY <1>1, TypesApart
    <3>2. \A g \in Watched : jobs'[g] \in Seq(VersionsOf(g))
      BY <1>9, <1>10, <3>1 DEF KindTypesOK, KindTypeOK
    <3> QED BY <1>2, <1>9, <3>1, <3>2 DEF KindTypesOK, KindTypeOK, VersionsOf
  <2> QED BY <1>3, <1>4, <2>1, <2>2, <2>3, Together
<1>12. KindInv(k)'
  <2>1. KindInv(k) /\ (InHand(k)' <=> InHand(k)) /\ hand' = hand
        /\ store'[k] = store[k] /\ asked'[k] = asked[k]
    BY <1>1, <1>2 DEF KindsInv, InHand
  <2>2. /\ \A x \in Held(k) : x \in Int
        /\ store[k] \in Int /\ hand.seen \in Int /\ asked[k] \in Int /\ asked[k] >= NoSnapshot
        /\ \A u \in Threads : copies[u][k] \in Int
    BY <1>1, Numbers
  <2>3. Undisturbed(k)' => Undisturbed(k)
    BY <1>8 DEF Undisturbed
  <2>4. Counted(k)'
    BY <1>8, <1>10, <2>1 DEF KindInv, Counted
  <2>5. Bounded(k)'
    <3>1. \A u \in Threads : copies'[u][k] <= asked[k]
      BY <1>7, <2>1, <2>2 DEF KindInv, Bounded, NoSnapshot
    <3>2. k \notin Looking => v <= asked[k]
      BY <1>6, <2>1 DEF KindInv, Bounded
    <3> QED BY <1>10, <2>1, <3>1, <3>2 DEF KindInv, Bounded
  <2>6. ASSUME Undisturbed(k)', k \notin inflight
        PROVE  /\ Held(k)' = {v}
               /\ store[k] <= v
               /\ InHand(k) => hand.seen <= v
               /\ Held(k) = {}
    <3>1. Held(k) = {}
      <4>1. Outstanding(k) = 0
        BY <2>1, <2>3, <2>6 DEF KindInv, Counted, Undisturbed
      <4> QED BY <1>1, <4>1, NothingHeld
    <3>2. ~Older(k, v)
      BY <1>8, <2>6 DEF Undisturbed
    <3> QED BY <1>5, <1>10, <2>2, <2>6, <3>1, <3>2 DEF Older
  <2>7. InOrder(k)'
    <3>1. CASE k \in inflight
      BY <1>10, <2>1, <2>3, <3>1 DEF KindInv, InOrder
    <3>2. CASE k \notin inflight
      BY <2>1, <2>3, <2>6, <3>2 DEF KindInv, InOrder
    <3> QED BY <3>1, <3>2
  <2>8. ASSUME Undisturbed(k)', k \in Coalescing PROVE Pending(k)'
    <3>1. CASE k \in inflight
      BY <1>8, <2>8, <3>1 DEF Pending
    <3>2. CASE k \notin inflight
      <4>1. Pending(k) \/ IsEmptied(k)
        BY <2>1, <2>3, <2>8 DEF KindInv, Answered
      <4>2. v = copies[t][k]
        BY <1>6, <2>8 DEF Coalescing, Looking
      <4>3. ASSUME v >= asked[k] PROVE Pending(k)'
        BY <2>1, <2>6, <2>8, <3>2, <4>3 DEF Pending
      <4>4. CASE IsEmptied(k)
        <5>1. v = NoSnapshot /\ store[k] = Empty /\ store[k] <= v
          BY <2>6, <2>8, <3>2, <4>2, <4>4 DEF IsEmptied
        <5> QED BY <5>1 DEF NoSnapshot, Empty
      <4>5. CASE k \in coalesced
        BY <1>8, <4>5 DEF Pending
      <4>6. CASE \E u \in Threads : Due(u, k)
        BY <1>3, <4>6 DEF Pending
      <4>7. CASE \E u \in Threads : copies[u][k] >= asked[k]
        <5>1. PICK u \in Threads : copies[u][k] >= asked[k]
          BY <4>7
        <5>2. CASE u = t
          BY <4>2, <4>3, <5>1, <5>2
        <5>3. CASE u # t
          BY <1>7, <2>1, <5>1, <5>3 DEF Pending
        <5> QED BY <5>2, <5>3
      <4>8. CASE \E x \in Held(k) : x >= asked[k]
        BY <2>6, <2>8, <3>2, <4>8
      <4>9. CASE InHand(k) /\ hand.seen >= asked[k]
        BY <1>5, <2>2, <2>6, <2>8, <3>2, <4>3, <4>9
      <4>10. CASE store[k] >= asked[k]
        BY <1>5, <2>2, <2>6, <2>8, <3>2, <4>3, <4>10
      <4> QED BY <4>1, <4>4, <4>5, <4>6, <4>7, <4>8, <4>9, <4>10 DEF Pending
    <3> QED BY <3>1, <3>2
  <2>9. Answered(k)'
    BY <2>8 DEF Answered
  <2> QED BY <2>4, <2>5, <2>7, <2>9 DEF KindInv
<1>13. ASSUME NEW g \in Watched, g # k PROVE KindInv(g)'
  <2>1. KindInv(g) /\ (InHand(g)' <=> InHand(g))
    BY <1>1, <1>2 DEF KindsInv, InHand
  <2>2. /\ \A u \in Threads : copies'[u][g] = copies[u][g]
        /\ jobs'[g] = jobs[g]
        /\ g \in inflight' <=> g \in inflight
        /\ g \in coalesced => g \in coalesced'
    BY <1>7, <1>8, <1>9, <1>13
  <2> QED BY <1>2, <1>3, <1>8, <2>1, <2>2, Unnoticed
<1> QED BY <1>11, <1>12, <1>13 DEF Inv, KindsInv

(* A job sends what it saw and is gone.                                    *)
LEMMA JobReportsStep ==
  ASSUME Inv, NEW k \in Watched, JobReports(k)
  PROVE  Inv'
<1>1. TypeOK /\ KindsInv
  BY DEF Inv
<1>2. PICK i \in DOMAIN jobs[k] :
        /\ \E seen \in jobs[k][i] .. (IF k \in Looking THEN live[Observes[k]] ELSE jobs[k][i]) :
             completed' = [completed EXCEPT ![k] = Append(@, seen)]
        /\ jobs' = [jobs EXCEPT ![k] = RemoveAt(@, i)]
  BY DEF JobReports
<1>3. PICK seen \in jobs[k][i] .. (IF k \in Looking THEN live[Observes[k]] ELSE jobs[k][i]) :
        completed' = [completed EXCEPT ![k] = Append(@, seen)]
  BY <1>2
<1>4. UNCHANGED <<live, place, inflight, coalesced, asked, hand, store, updates, todo, copies,
                  clone, cut, overtaken>>
  BY DEF JobReports, desk, marks
<1>5. jobs[k] \in Seq(VersionsOf(k)) /\ completed[k] \in Seq(VersionsOf(k))
  BY <1>1 DEF TypeOK
<1>6. /\ RemoveAt(jobs[k], i) \in Seq(VersionsOf(k))
      /\ Len(RemoveAt(jobs[k], i)) = Len(jobs[k]) - 1
      /\ jobs[k][i] \in VersionsOf(k) /\ jobs[k][i] \in Seen(jobs[k])
      /\ Seen(RemoveAt(jobs[k], i)) \subseteq Seen(jobs[k])
  BY <1>2, <1>5, SeenRemoveAt
<1>7. /\ seen \in VersionsOf(k) /\ seen \in Int /\ jobs[k][i] <= seen
      /\ k \notin Looking => seen = jobs[k][i]
  <2>1. jobs[k][i] \in Int /\ NoSnapshot <= jobs[k][i] /\ jobs[k][i] <= live[Observes[k]]
        /\ live[Observes[k]] \in Nat
    BY <1>1, <1>6, Numbers
  <2>2. seen \in Int /\ jobs[k][i] <= seen /\ seen <= live[Observes[k]]
        /\ (k \notin Looking => seen = jobs[k][i])
    BY <1>3, <2>1
  <2>3. seen \in VersionsOf(k)
    BY <2>1, <2>2 DEF VersionsOf, NoSnapshot
  <2> QED BY <2>2, <2>3
<1>8. /\ Append(completed[k], seen) \in Seq(VersionsOf(k))
      /\ Len(Append(completed[k], seen)) = Len(completed[k]) + 1
      /\ Seen(Append(completed[k], seen)) = Seen(completed[k]) \cup {seen}
  BY <1>5, <1>7, SeenAppend
<1>9. /\ jobs'[k] = RemoveAt(jobs[k], i) /\ completed'[k] = Append(completed[k], seen)
      /\ \A g \in Watched \ {k} : jobs'[g] = jobs[g] /\ completed'[g] = completed[g]
      /\ DOMAIN jobs' = Watched /\ DOMAIN completed' = Watched
  BY <1>1, <1>2, <1>3 DEF TypeOK
<1>10. /\ Held(k)' \subseteq Held(k) \cup {seen}
       /\ Outstanding(k)' = Outstanding(k)
       /\ jobs[k][i] \in Held(k) /\ seen \in Held(k)'
  <2>1. Len(jobs[k]) \in Nat /\ Len(completed[k]) \in Nat
    BY <1>1, Numbers
  <2>2. Len(jobs'[k]) = Len(jobs[k]) - 1 /\ Len(completed'[k]) = Len(completed[k]) + 1
    BY <1>6, <1>8, <1>9, Zenon
  <2>3. \A a, b \in Nat : (a - 1) + (b + 1) = a + b
    OBVIOUS
  <2>4. Outstanding(k)' = Outstanding(k)
    <3>1. (Len(jobs[k]) - 1) + (Len(completed[k]) + 1) = Len(jobs[k]) + Len(completed[k])
      BY <2>1, <2>3, Zenon
    <3> QED BY <2>2, <3>1, Zenon DEF Outstanding
  <2>5. Held(k)' = Seen(jobs'[k]) \cup Seen(completed'[k])
    BY DEF Held, Seen
  <2>6. Seen(jobs'[k]) \subseteq Seen(jobs[k]) /\ Seen(completed'[k]) = Seen(completed[k]) \cup {seen}
    BY <1>6, <1>8, <1>9, Zenon
  <2> QED BY <1>6, <2>4, <2>5, <2>6 DEF Held
<1>11. TypeOK'
  <2>1. LiveOK' /\ DeskOK' /\ MarksOK' /\ HandOK' /\ TodoOK' /\ CopiesOK'
    BY <1>1, <1>4, TypesApart
       DEF place, LiveOK, DeskOK, MarksOK, HandOK, TodoOK, CopiesOK, VersionsOf
  <2>2. \A g \in Watched : jobs'[g] \in Seq(VersionsOf(g)) /\ completed'[g] \in Seq(VersionsOf(g))
    <3>1. ASSUME NEW g \in Watched, g # k
          PROVE  jobs'[g] \in Seq(VersionsOf(g)) /\ completed'[g] \in Seq(VersionsOf(g))
      BY <1>1, <1>9, <3>1 DEF TypeOK
    <3>2. jobs'[k] \in Seq(VersionsOf(k)) /\ completed'[k] \in Seq(VersionsOf(k))
      BY <1>6, <1>8, <1>9, Zenon
    <3> QED BY <3>1, <3>2
  <2>3. KindTypesOK'
    BY <1>1, <1>4, <1>9, <2>2, TypesApart DEF KindTypesOK, KindTypeOK, VersionsOf
  <2> QED BY <2>1, <2>3, Together
<1>12. KindInv(k)'
  <2>1. KindInv(k) /\ (InHand(k)' <=> InHand(k)) /\ (Undisturbed(k)' <=> Undisturbed(k))
    BY <1>1, <1>4 DEF KindsInv, InHand, Undisturbed
  <2>2. /\ \A x \in Held(k) : x \in Int
        /\ store[k] \in Int /\ hand.seen \in Int /\ asked[k] \in Int
    BY <1>1, Numbers
  <2>3. Counted(k)'
    BY <1>4, <1>10, <2>1 DEF KindInv, Counted
  <2>4. Bounded(k)'
    BY <1>4, <1>7, <1>10, <2>1 DEF KindInv, Bounded
  <2>5. InOrder(k)'
    BY <1>4, <1>7, <1>10, <2>1, <2>2 DEF KindInv, InOrder
  <2>6. ASSUME Undisturbed(k), k \in Coalescing PROVE Held(k) = {seen}
    <3>1. seen = jobs[k][i]
      BY <1>7, <2>6 DEF Coalescing, Looking
    <3>2. Outstanding(k) <= 1
      BY <2>1, <2>6 DEF KindInv, Counted, Undisturbed
    <3>3. Len(jobs[k]) = 1 /\ Len(completed[k]) = 0 /\ i = 1
      <4>1. Len(jobs[k]) \in Nat /\ Len(completed[k]) \in Nat
        BY <1>1, Numbers
      <4>2. i \in 1 .. Len(jobs[k])
        BY <1>5
      <4>3. Len(jobs[k]) + Len(completed[k]) <= 1
        BY <3>2, Zenon DEF Outstanding
      <4>4. \A a, b \in Nat : a + b <= 1 /\ i \in 1 .. a => a = 1 /\ b = 0 /\ i = 1
        OBVIOUS
      <4> QED BY <4>1, <4>2, <4>3, <4>4, Zenon
    <3>4. DOMAIN jobs[k] = {1}
      BY <1>5, <3>3
    <3>5. Seen(jobs[k]) = {seen}
      BY <3>1, <3>3, <3>4 DEF Seen
    <3>6. Seen(completed[k]) = {}
      BY <1>5, <3>3, SeenFew
    <3> QED BY <3>5, <3>6 DEF Held
  <2>7. ASSUME Undisturbed(k), k \in Coalescing PROVE Pending(k)'
    <3>1. Pending(k) \/ IsEmptied(k)
      BY <2>1, <2>7 DEF KindInv, Answered
    <3>2. ~IsEmptied(k)
      BY <1>1, <1>10, NothingHeld DEF IsEmptied
    <3>3. CASE \E x \in Held(k) : x >= asked[k]
      BY <1>4, <1>10, <2>6, <2>7, <3>3 DEF Pending
    <3>4. CASE \E u \in Threads : Due(u, k)
      BY <1>4, <3>4 DEF Pending, Due
    <3> QED BY <1>4, <2>1, <3>1, <3>2, <3>3, <3>4 DEF Pending
  <2>8. Answered(k)'
    BY <2>1, <2>7 DEF Answered
  <2> QED BY <2>3, <2>4, <2>5, <2>8 DEF KindInv
<1>13. ASSUME NEW g \in Watched, g # k PROVE KindInv(g)'
  <2>1. KindInv(g) /\ (InHand(g)' <=> InHand(g)) /\ \A u \in Threads : Due(u, g) => Due(u, g)'
    BY <1>1, <1>4 DEF KindsInv, InHand, Due
  <2>2. jobs'[g] = jobs[g] /\ completed'[g] = completed[g]
    BY <1>9, <1>13
  <2> QED BY <1>4, <2>1, <2>2, Unnoticed
<1> QED BY <1>11, <1>12, <1>13 DEF Inv, KindsInv

(* drain_completed_into_store, first half: the mark goes with its result.  *)
LEMMA TakeStep ==
  ASSUME Inv, NEW t \in Threads, TakeResult(t)
  PROVE  Inv'
<1>1. TypeOK /\ KindsInv
  BY DEF Inv
<1>2. PICK k \in Watched :
        /\ completed[k] # <<>>
        /\ hand' = [by |-> t, of |-> k, seen |-> Head(completed[k])]
        /\ completed' = [completed EXCEPT ![k] = Tail(@)]
        /\ inflight' = inflight \ {k}
  BY DEF TakeResult, Unmarked
<1>3. /\ hand.by = Nobody /\ t # Nobody
      /\ UNCHANGED <<live, place, coalesced, jobs, asked, store, updates, todo, copies, clone,
                     cut, overtaken>>
  BY NobodyAssumption DEF TakeResult, desk
<1> DEFINE seen == Head(completed[k])
<1>4. completed[k] \in Seq(VersionsOf(k))
  BY <1>1 DEF TypeOK
<1>5. /\ seen \in VersionsOf(k) /\ seen \in Seen(completed[k])
      /\ Tail(completed[k]) \in Seq(VersionsOf(k))
      /\ Len(Tail(completed[k])) = Len(completed[k]) - 1
      /\ Seen(Tail(completed[k])) \subseteq Seen(completed[k])
  BY <1>2, <1>4, SeenTail
<1> HIDE DEF seen
<1>6. /\ completed'[k] = Tail(completed[k])
      /\ \A g \in Watched \ {k} : completed'[g] = completed[g]
      /\ DOMAIN completed' = Watched
      /\ hand'.by = t /\ hand'.of = k /\ hand'.seen = seen
  BY <1>1, <1>2 DEF TypeOK, seen
<1>7. Held(k)' \subseteq Held(k) /\ seen \in Held(k) /\ InHand(k)' /\ ~InHand(k)
  <2>1. Held(k)' = Seen(jobs[k]) \cup Seen(completed'[k])
    BY <1>3 DEF Held
  <2> QED BY <1>3, <1>5, <1>6, <2>1 DEF Held, InHand
<1>8. TypeOK'
  <2>1. LiveOK' /\ DeskOK' /\ MarksOK' /\ TodoOK' /\ CopiesOK'
    BY <1>1, <1>2, <1>3, TypesApart
       DEF place, LiveOK, DeskOK, MarksOK, TodoOK, CopiesOK, VersionsOf
  <2>2. HandOK'
    <3>1. seen \in Int /\ VersionsOf(k)' = VersionsOf(k)
      BY <1>1, <1>3, <1>5, Numbers DEF VersionsOf
    <3>2. hand'.seen \in VersionsOf(hand'.of)
      BY <1>5, <1>6
    <3>3. hand' \in [by : Threads \cup {Nobody}, of : Watched, seen : Int]
      BY <1>2, <3>1 DEF seen
    <3> QED BY <1>3, <3>2, <3>3 DEF HandOK, VersionsOf
  <2>3. \A g \in Watched : completed'[g] \in Seq(VersionsOf(g))
    <3>1. ASSUME NEW g \in Watched, g # k PROVE completed'[g] \in Seq(VersionsOf(g))
      BY <1>1, <1>6, <3>1 DEF TypeOK
    <3>2. completed'[k] \in Seq(VersionsOf(k))
      BY <1>5, <1>6, Zenon
    <3> QED BY <3>1, <3>2
  <2>4. KindTypesOK'
    BY <1>1, <1>3, <1>6, <2>3, TypesApart DEF KindTypesOK, KindTypeOK, VersionsOf
  <2> QED BY <2>1, <2>2, <2>4, Together
<1>9. KindInv(k)'
  <2>1. KindInv(k) /\ (Undisturbed(k)' <=> Undisturbed(k))
    BY <1>1, <1>3 DEF KindsInv, Undisturbed
  <2>2. ASSUME k \notin cut PROVE Outstanding(k)' = 0 /\ Held(k)' = {} /\ Held(k) = {seen}
    <3>1. Len(jobs[k]) \in Nat /\ Len(completed[k]) \in Nat
      BY <1>1, Numbers
    <3>2. Len(jobs[k]) + Len(completed[k]) \in {0, 1}
      BY <2>1, <2>2 DEF KindInv, Counted, Outstanding
    <3>3. Len(completed[k]) # 0
      BY <1>2, <1>4, SeenFew
    <3>4. \A a, b \in Nat : a + b \in {0, 1} /\ b # 0 => a = 0 /\ b = 1
      OBVIOUS
    <3>5. Len(jobs[k]) = 0 /\ Len(completed[k]) = 1
      BY <3>1, <3>2, <3>3, <3>4, Zenon
    <3>6. jobs[k] = <<>> /\ jobs[k] \in Seq(VersionsOf(k))
      BY <1>1, <3>5, SeenFew DEF TypeOK
    <3>7. Len(completed'[k]) = 0
      <4>1. Len(Tail(completed[k])) = 1 - 1 /\ 1 - 1 = 0
        BY <1>5, <3>5
      <4> QED BY <1>6, <4>1, Zenon
    <3>8. completed'[k] = <<>>
      BY <1>5, <1>6, <3>7, SeenFew, Zenon
    <3>9. Outstanding(k)' = 0 /\ Held(k)' = {}
      <4>1. Len(jobs'[k]) = 0 /\ 0 + 0 = 0
        BY <1>3, <3>5
      <4> QED BY <1>3, <3>6, <3>7, <3>8, <4>1, SeenFew, Zenon DEF Outstanding, Held
    <3>10. Seen(completed[k]) = {seen}
      <4>1. DOMAIN completed[k] = {1} /\ Head(completed[k]) = completed[k][1]
        BY <1>4, <3>5
      <4> QED BY <4>1 DEF Seen, seen
    <3>11. Held(k) = {seen}
      BY <3>6, <3>10, SeenFew DEF Held
    <3> QED BY <3>9, <3>11
  <2>3. Counted(k)'
    BY <1>2, <1>3, <2>2 DEF Counted
  <2>4. Bounded(k)'
    BY <1>3, <1>6, <1>7, <2>1 DEF KindInv, Bounded
  <2>5. InOrder(k)'
    BY <1>3, <1>6, <1>7, <2>1, <2>2 DEF KindInv, InOrder, Undisturbed
  <2>6. ASSUME Undisturbed(k), k \in Coalescing PROVE Pending(k)'
    <3>1. Pending(k) \/ IsEmptied(k)
      BY <2>1, <2>6 DEF KindInv, Answered
    <3>2. ~IsEmptied(k)
      BY <1>1, <1>7, NothingHeld DEF IsEmptied
    <3>3. CASE \E x \in Held(k) : x >= asked[k]
      BY <1>3, <1>6, <1>7, <2>2, <2>6, <3>3 DEF Pending, Undisturbed
    <3>4. CASE \E u \in Threads : Due(u, k)
      BY <1>3, <3>4 DEF Pending, Due
    <3> QED BY <1>3, <1>7, <3>1, <3>2, <3>3, <3>4 DEF Pending
  <2>7. Answered(k)'
    BY <2>1, <2>6 DEF Answered
  <2> QED BY <2>3, <2>4, <2>5, <2>7 DEF KindInv
<1>10. ASSUME NEW g \in Watched, g # k PROVE KindInv(g)'
  <2>1. /\ KindInv(g) /\ \A u \in Threads : Due(u, g) => Due(u, g)'
        /\ ~InHand(g) /\ ~InHand(g)'
    BY <1>1, <1>3, <1>6, <1>10 DEF KindsInv, InHand, Due
  <2>2. completed'[g] = completed[g] /\ (g \in inflight' <=> g \in inflight)
    BY <1>2, <1>6, <1>10
  <2> QED BY <1>3, <2>1, <2>2, Unnoticed
<1> QED BY <1>8, <1>9, <1>10 DEF Inv, KindsInv

(* The second half: the result is stored, and the window told.             *)
LEMMA StoreStep ==
  ASSUME Inv, NEW t \in Threads, StoreResult(t)
  PROVE  /\ Inv'
         /\ \A k \in Watched : Undisturbed(k) => store'[k] >= store[k]
<1>1. TypeOK /\ KindsInv
  BY DEF Inv
<1>2. PICK k \in Watched : k = hand.of
  BY <1>1 DEF TypeOK
<1> DEFINE seen == hand.seen
<1>3. /\ hand.by = t /\ t # Nobody /\ hand' = Nothing
      /\ store' = [store EXCEPT ![k] = seen]
      /\ updates' = updates \cup ({k} \cap Shown)
      /\ UNCHANGED <<live, place, inflight, coalesced, jobs, completed, asked, todo, copies, clone,
                     cut, overtaken>>
  BY <1>2, NobodyAssumption DEF StoreResult, desk, marks
<1>4. seen \in VersionsOf(k) /\ InHand(k)
  BY <1>1, <1>2, <1>3 DEF TypeOK, InHand
<1>5. \A g : ~InHand(g)'
  BY <1>3 DEF InHand, Nothing
<1> HIDE DEF seen
<1>6. /\ store'[k] = seen /\ DOMAIN store' = Watched
      /\ \A g \in Watched \ {k} : store'[g] = store[g]
  BY <1>1, <1>3 DEF TypeOK
<1>7. TypeOK'
  <2>1. LiveOK' /\ DeskOK' /\ MarksOK' /\ TodoOK' /\ CopiesOK'
    BY <1>1, <1>3, TypesApart
       DEF place, LiveOK, DeskOK, MarksOK, TodoOK, CopiesOK, VersionsOf
  <2>2. HandOK'
    <3>1. live["coding"] \in Nat
      BY <1>1, Observed DEF TypeOK
    <3>2. Nothing.of = "editor" /\ Nothing.seen = NoSnapshot /\ Nothing.by = Nobody
          /\ Nothing \in [by : Threads \cup {Nobody}, of : Watched, seen : Int]
      BY Observed DEF Nothing, NoSnapshot
    <3>3. NoSnapshot \in VersionsOf("editor")
      BY <3>1, Observed DEF VersionsOf, NoSnapshot
    <3> QED BY <1>3, <3>2, <3>3 DEF HandOK, VersionsOf
  <2>3. \A g \in Watched : store'[g] \in VersionsOf(g)
    BY <1>1, <1>4, <1>6 DEF TypeOK
  <2>4. KindTypesOK'
    BY <1>1, <1>3, <1>6, <2>3, TypesApart DEF KindTypesOK, KindTypeOK, VersionsOf
  <2> QED BY <2>1, <2>2, <2>4, Together
<1>8. /\ \A x \in Held(k) : x \in Int
      /\ store[k] \in Int /\ seen \in Int /\ asked[k] \in Int
  BY <1>1, <1>4, Numbers
<1>9. KindInv(k) /\ (Undisturbed(k)' <=> Undisturbed(k)) /\ Held(k)' = Held(k)
      /\ Outstanding(k)' = Outstanding(k)
  BY <1>1, <1>3 DEF KindsInv, Undisturbed, Held, Outstanding
<1>10. KindInv(k)'
  <2>1. Counted(k)' /\ Bounded(k)' /\ InOrder(k)'
    BY <1>3, <1>4, <1>5, <1>6, <1>9 DEF KindInv, Counted, Bounded, InOrder, seen
  <2>2. ASSUME Undisturbed(k), k \in Coalescing PROVE Pending(k)'
    <3>1. Pending(k) /\ store[k] <= seen
      BY <1>4, <1>9, <2>2 DEF KindInv, Answered, IsEmptied, InOrder, seen
    <3>2. ASSUME seen >= asked[k] PROVE Pending(k)'
      BY <1>3, <1>6, <3>2 DEF Pending
    <3>3. CASE store[k] >= asked[k]
      BY <1>8, <3>1, <3>2, <3>3
    <3>4. CASE InHand(k) /\ hand.seen >= asked[k]
      BY <3>2, <3>4 DEF seen
    <3>5. CASE \E u \in Threads : Due(u, k)
      BY <1>3, <3>5 DEF Pending, Due
    <3> QED BY <1>3, <1>9, <3>1, <3>3, <3>4, <3>5 DEF Pending
  <2>3. Answered(k)'
    BY <1>9, <2>2 DEF Answered
  <2> QED BY <2>1, <2>3 DEF KindInv
<1>11. ASSUME NEW g \in Watched, g # k PROVE KindInv(g)'
  <2>1. /\ KindInv(g) /\ \A u \in Threads : Due(u, g) => Due(u, g)'
        /\ ~InHand(g) /\ store'[g] = store[g]
    BY <1>1, <1>2, <1>3, <1>6, <1>11 DEF KindsInv, InHand, Due
  <2> QED BY <1>3, <1>5, <2>1, Unnoticed
<1>12. \A g \in Watched : Undisturbed(g) => store'[g] >= store[g]
  <2>1. Undisturbed(k) => store'[k] >= store[k]
    BY <1>4, <1>6, <1>8, <1>9 DEF KindInv, InOrder, seen
  <2>2. \A g \in Watched \ {k} : store'[g] = store[g] /\ store[g] \in Int
    BY <1>1, <1>6, Numbers
  <2> QED BY <2>1, <2>2
<1> QED BY <1>7, <1>10, <1>11, <1>12 DEF Inv, KindsInv

(* take_*_reschedule: what the flag stood for is due now.                  *)
LEMMA LookStep ==
  ASSUME Inv, NEW t \in Threads, LookAtFlag(t)
  PROVE  Inv'
<1>1. TypeOK /\ KindsInv /\ At(t, "look")
  BY DEF Inv, LookAtFlag
<1>2. PICK k \in Watched : k = KindAt(t)
  BY <1>1, NextStep
<1> DEFINE more == IF k \notin coalesced THEN LooksNext(k)
                   ELSE IF k \in CodingKinds THEN AskCoding ELSE Ask(k)
<1>3. /\ coalesced' = coalesced \ {k} /\ Goes(t, more)
      /\ UNCHANGED <<live, place, inflight, jobs, completed, hand, store, updates, copies, clone,
                     cut, overtaken, asked>>
  BY <1>2 DEF LookAtFlag, desk, results
<1>4. more \in Seq(Steps)
  BY AskTyped, PiecesTyped DEF LooksNext
<1>5. k \in coalesced => Has(more, CopyOf(k))
  <2>1. k \in coalesced => k \in Watched \ Looking
    BY <1>1 DEF TypeOK, Coalescing, Looking
  <2> QED BY <2>1, AskTyped
<1> HIDE DEF more
<1>6. /\ TodoOK'
      /\ \A g : \A u \in Threads : Due(u, g) => Due(u, g)'
      /\ k \in coalesced => Due(t, k)'
  <2>1. todo[t] # <<>> /\ \A g : Head(todo[t]) # CopyOf(g)
    BY <1>1, NextStep
  <2> QED BY <1>1, <1>3, <1>4, <1>5, <2>1, StillDue
<1>7. TypeOK'
  <2>1. LiveOK' /\ DeskOK' /\ MarksOK' /\ HandOK' /\ CopiesOK' /\ KindTypesOK'
    BY <1>1, <1>3, TypesApart
       DEF place, LiveOK, DeskOK, MarksOK, HandOK, CopiesOK, KindTypesOK, KindTypeOK, VersionsOf
  <2> QED BY <1>6, <2>1, Together
<1>8. ASSUME NEW g \in Watched PROVE KindInv(g)'
  <2>1. KindInv(g) /\ (InHand(g)' <=> InHand(g))
    BY <1>1, <1>3 DEF KindsInv, InHand
  <2>2. g \in coalesced => g \in coalesced' \/ \E u \in Threads : Due(u, g)'
    BY <1>3, <1>6
  <2> QED BY <1>3, <1>6, <2>1, <2>2, Unnoticed
<1> QED BY <1>7, <1>8 DEF Inv, KindsInv

(* publish_*, first half: the mark goes, and a job at work is cut off.     *)
LEMMA UnmarkStep ==
  ASSUME Inv, NEW t \in Threads, Unmark(t)
  PROVE  Inv'
<1>1. TypeOK /\ KindsInv /\ At(t, "unmark")
  BY DEF Inv, Unmark
<1>2. PICK k \in Watched : k = KindAt(t)
  BY <1>1, NextStep
<1>3. /\ inflight' = inflight \ {k}
      /\ cut' = IF Outstanding(k) > 0 THEN cut \cup {k} ELSE cut
      /\ Goes(t, <<>>)
      /\ UNCHANGED <<live, place, coalesced, jobs, completed, hand, store, updates, copies, clone,
                     overtaken, asked>>
  BY <1>2 DEF Unmark, desk, results
<1>4. TodoOK' /\ \A g : \A u \in Threads : Due(u, g) => Due(u, g)'
  <2>1. todo[t] # <<>> /\ \A g : Head(todo[t]) # CopyOf(g)
    BY <1>1, NextStep
  <2> QED BY <1>1, <1>3, <2>1, StillDue, PiecesTyped
<1>5. TypeOK'
  <2>1. LiveOK' /\ DeskOK' /\ MarksOK' /\ HandOK' /\ CopiesOK' /\ KindTypesOK'
    BY <1>1, <1>3, TypesApart
       DEF place, LiveOK, DeskOK, MarksOK, HandOK, CopiesOK, KindTypesOK, KindTypeOK, VersionsOf
  <2> QED BY <1>4, <2>1, Together
<1>6. ASSUME NEW g \in Watched PROVE KindInv(g)'
  <2>1. KindInv(g) /\ (InHand(g)' <=> InHand(g))
    BY <1>1, <1>3 DEF KindsInv, InHand
  <2>2. CASE g # k \/ Outstanding(k) = 0
    <3>1. CASE g \in inflight' <=> g \in inflight
      BY <1>3, <1>4, <2>1, <3>1, Unnoticed
    <3>2. CASE ~(g \in inflight' <=> g \in inflight)
      <4>1. g = k /\ g \in inflight /\ g \notin inflight' /\ Outstanding(g) = 0 /\ g \in cut
        BY <1>3, <2>1, <2>2, <3>2 DEF KindInv, Counted
      <4>2. g \in cut' /\ Bounded(g)'
        BY <1>3, <2>1, <4>1 DEF KindInv, Bounded, Held
      <4> QED BY <4>2 DEF KindInv, Counted, InOrder, Answered, Undisturbed
    <3> QED BY <3>1, <3>2
  <2>3. CASE g = k /\ Outstanding(k) # 0
    <3>1. Outstanding(k) \in Nat
      BY <1>1, Numbers
    <3>2. g \in cut'
      BY <1>3, <2>3, <3>1
    <3>3. Bounded(g)'
      BY <1>3, <2>1 DEF KindInv, Bounded, Held
    <3> QED BY <3>2, <3>3 DEF KindInv, Counted, InOrder, Answered, Undisturbed
  <2> QED BY <2>2, <2>3
<1> QED BY <1>5, <1>6 DEF Inv, KindsInv

(* Thread t publishes version v of kind k.                                 *)
PublishedAs(t, k, v) ==
  /\ Publishes(k, v)
  /\ k \in Emptied => v = Empty
  /\ todo[t] # <<>> /\ \A g : Head(todo[t]) # CopyOf(g)
  /\ clone' \in [Threads -> VersionsOf("editor")]
  /\ Goes(t, <<>>)
  /\ UNCHANGED <<live, place, inflight, coalesced, jobs, completed, hand, updates, copies, cut>>

(* The second half: the snapshot is stored.  Where the kind stays          *)
(* undisturbed it is not older, and nothing of it was on its way.          *)
LEMMA PublishStep ==
  ASSUME Inv, NEW t \in Threads, PutClone(t) \/ PutNothing(t)
  PROVE  /\ Inv'
         /\ \A k \in Watched \ Emptied : Undisturbed(k)' => store'[k] >= store[k]
         /\ \A k \in Watched : asked'[k] >= asked[k]
         /\ cut \subseteq cut' /\ overtaken \subseteq overtaken'
<1>1. TypeOK /\ KindsInv
  BY DEF Inv
<1>1a. \E k \in Watched : \E v \in VersionsOf(k) : PublishedAs(t, k, v)
  <2>1. CASE PutClone(t)
    <3>1. At(t, "put")
      BY <2>1 DEF PutClone
    <3>2. todo[t] # <<>> /\ \A g : Head(todo[t]) # CopyOf(g)
      BY <1>1, <3>1, NextStep
    <3>3. /\ clone[t] \in VersionsOf("editor") /\ "editor" \in Watched
          /\ clone' \in [Threads -> VersionsOf("editor")]
      <4>1. clone \in [Threads -> VersionsOf("editor")]
        BY <1>1 DEF TypeOK
      <4>2. NoSnapshot \in VersionsOf("editor")
        BY <1>1, Observed, Numbers DEF VersionsOf, NoSnapshot
      <4> QED BY <2>1, <4>1, <4>2, Observed DEF PutClone
    <3>4. "editor" \notin Emptied
      BY DEF Emptied
    <3> QED BY <2>1, <3>2, <3>3, <3>4 DEF PutClone, desk, marks, PublishedAs
  <2>2. CASE PutNothing(t)
    <3>1. At(t, "clear")
      BY <2>2 DEF PutNothing
    <3>2. todo[t] # <<>> /\ (\A g : Head(todo[t]) # CopyOf(g)) /\ KindAt(t) \in Watched
      BY <1>1, <3>1, NextStep
    <3> DEFINE v == IF KindAt(t) \in Emptied THEN Empty ELSE live[Observes[KindAt(t)]]
    <3>3. v \in VersionsOf(KindAt(t)) /\ (KindAt(t) \in Emptied => v = Empty)
      BY <1>1, <3>2, Numbers DEF VersionsOf, NoSnapshot, Empty
    <3>4. clone' \in [Threads -> VersionsOf("editor")]
      BY <1>1, <2>2 DEF TypeOK, PutNothing
    <3>5. Publishes(KindAt(t), v) /\ Goes(t, <<>>)
          /\ UNCHANGED <<live, place, inflight, coalesced, jobs, completed, hand, updates, copies, cut>>
      BY <2>2 DEF PutNothing, desk, marks
    <3> HIDE DEF v
    <3> QED BY <3>2, <3>3, <3>4, <3>5 DEF PublishedAs
  <2> QED BY <2>1, <2>2
<1>1b. PICK k \in Watched : \E v \in VersionsOf(k) : PublishedAs(t, k, v)
  BY <1>1a
<1>1c. PICK v \in VersionsOf(k) : PublishedAs(t, k, v)
  BY <1>1b
<1>2. /\ Publishes(k, v)
      /\ k \in Emptied => v = Empty
      /\ todo[t] # <<>> /\ \A g : Head(todo[t]) # CopyOf(g)
      /\ clone' \in [Threads -> VersionsOf("editor")]
      /\ Goes(t, <<>>)
      /\ UNCHANGED <<live, place, inflight, coalesced, jobs, completed, hand, updates, copies, cut>>
  BY <1>1c DEF PublishedAs
<1>3. /\ store' = [store EXCEPT ![k] = v]
      /\ asked' = [asked EXCEPT ![k] = Larger(@, v)]
      /\ overtaken' \in {overtaken, overtaken \cup {k}}
      /\ k \notin overtaken' =>
           /\ ~(Outstanding(k) > 0) /\ ~InHand(k)
           /\ IF k \in Emptied THEN \A u \in Threads : copies[u][k] = NoSnapshot ELSE ~Older(k, v)
  BY <1>2 DEF Publishes
<1>4. /\ store'[k] = v /\ asked'[k] = Larger(asked[k], v)
      /\ \A g \in Watched \ {k} : store'[g] = store[g] /\ asked'[g] = asked[g]
      /\ DOMAIN store' = Watched /\ DOMAIN asked' = Watched
      /\ overtaken \subseteq overtaken' /\ cut \subseteq cut'
  BY <1>1, <1>2, <1>3 DEF TypeOK
<1>5. /\ \A x \in Held(k) : x \in Int
      /\ store[k] \in Int /\ v \in Int /\ asked[k] \in Int /\ hand.seen \in Int
      /\ \A u \in Threads : copies[u][k] \in Int
      /\ asked[k] \in VersionsOf(k) /\ Outstanding(k) \in Nat
  BY <1>1, <1>2, Numbers
<1>6. /\ asked'[k] \in {asked[k], v} /\ asked'[k] \in Int
      /\ asked[k] <= asked'[k] /\ v <= asked'[k]
      /\ asked'[k] > v => asked'[k] = asked[k]
  BY <1>4, <1>5 DEF Larger
<1>7. TodoOK' /\ \A g : \A u \in Threads : Due(u, g) => Due(u, g)'
  BY <1>1, <1>2, StillDue, PiecesTyped
<1>8. TypeOK'
  <2>1. LiveOK' /\ MarksOK' /\ HandOK'
    BY <1>1, <1>2, TypesApart DEF LiveOK, MarksOK, HandOK, VersionsOf
  <2>2. DeskOK'
    BY <1>1, <1>2, <1>3, TypesApart DEF DeskOK, place
  <2>3. CopiesOK'
    BY <1>1, <1>2, TypesApart DEF CopiesOK, VersionsOf
  <2>4. \A g \in Watched : store'[g] \in VersionsOf(g) /\ asked'[g] \in VersionsOf(g)
    BY <1>1, <1>2, <1>4, <1>5, <1>6 DEF TypeOK
  <2>5. KindTypesOK'
    BY <1>1, <1>2, <1>4, <2>4, TypesApart DEF KindTypesOK, KindTypeOK, VersionsOf
  <2> QED BY <1>7, <2>1, <2>2, <2>3, <2>5, Together
<1>9. ASSUME Undisturbed(k)'
      PROVE  /\ Undisturbed(k) /\ Outstanding(k) = 0 /\ Held(k) = {} /\ ~InHand(k)
             /\ k \notin Emptied => store[k] <= v
             /\ k \in Emptied => \A u \in Threads : copies[u][k] = NoSnapshot
  <2>1. k \notin overtaken' /\ Undisturbed(k)
    BY <1>4, <1>9 DEF Undisturbed
  <2>2. Outstanding(k) = 0
    BY <1>3, <1>5, <2>1
  <2>3. k \notin Emptied => store[k] <= v
    BY <1>3, <1>5, <2>1 DEF Older
  <2> QED BY <1>1, <1>3, <2>1, <2>2, <2>3, NothingHeld
<1>10. Held(k)' = Held(k) /\ Outstanding(k)' = Outstanding(k) /\ (InHand(k)' <=> InHand(k))
       /\ KindInv(k)
  BY <1>1, <1>2 DEF Held, Outstanding, InHand, KindsInv
<1>11. KindInv(k)'
  <2>1. Counted(k)'
    BY <1>2, <1>10 DEF KindInv, Counted
  <2>2. Bounded(k)'
    <3>1. \A u \in Threads : copies'[u][k] <= asked'[k]
      <4>1. \A u \in Threads : copies[u][k] <= asked[k]
        BY <1>10 DEF KindInv, Bounded
      <4> QED BY <1>2, <1>5, <1>6, <4>1
    <3>2. ASSUME k \notin Looking
          PROVE  /\ \A x \in Held(k) : x <= asked'[k]
                 /\ InHand(k) => hand.seen <= asked'[k]
      <4>1. (\A x \in Held(k) : x <= asked[k]) /\ (InHand(k) => hand.seen <= asked[k])
        BY <1>10, <3>2 DEF KindInv, Bounded
      <4> QED BY <1>5, <1>6, <4>1
    <3> QED BY <1>2, <1>4, <1>6, <1>10, <3>1, <3>2 DEF Bounded
  <2>3. InOrder(k)'
    BY <1>9, <1>10 DEF InOrder
  <2>4. ASSUME Undisturbed(k)', k \in Coalescing PROVE Pending(k)' \/ IsEmptied(k)'
    <3>1. CASE k \in Emptied
      <4>1. k = "project" /\ v = Empty
        BY <1>2, <2>4, <3>1 DEF Emptied, Coalescing
      <4> QED BY <1>2, <1>4, <1>9, <1>10, <2>4, <3>1, <4>1 DEF IsEmptied
    <3>2. CASE k \notin Emptied
      <4>1. CASE v >= asked'[k]
        BY <1>4, <4>1 DEF Pending
      <4>2. CASE ~(v >= asked'[k])
        <5>1. asked'[k] = asked[k] /\ asked[k] > v /\ ~(store[k] >= asked[k])
          BY <1>5, <1>6, <1>9, <2>4, <3>2, <4>2
        <5>2. Pending(k)
          BY <1>9, <1>10, <2>4, <3>2 DEF KindInv, Answered, IsEmptied, Emptied
        <5>3. CASE \E u \in Threads : Due(u, k)
          BY <1>7, <5>3 DEF Pending
        <5> QED BY <1>2, <1>9, <2>4, <5>1, <5>2, <5>3 DEF Pending
      <4> QED BY <4>1, <4>2
    <3> QED BY <3>1, <3>2
  <2>5. Answered(k)'
    BY <2>4 DEF Answered
  <2> QED BY <2>1, <2>2, <2>3, <2>5 DEF KindInv
<1>12. ASSUME NEW g \in Watched, g # k PROVE KindInv(g)'
  <2>1. KindInv(g) /\ (InHand(g)' <=> InHand(g)) /\ store'[g] = store[g] /\ asked'[g] = asked[g]
    BY <1>1, <1>2, <1>4, <1>12 DEF KindsInv, InHand
  <2> QED BY <1>2, <1>4, <1>7, <2>1, Unnoticed
<1>13. \A g \in Watched \ Emptied : Undisturbed(g)' => store'[g] >= store[g]
  <2>1. k \notin Emptied /\ Undisturbed(k)' => store'[k] >= store[k]
    BY <1>4, <1>5, <1>9
  <2>2. \A g \in Watched \ {k} : store'[g] = store[g] /\ store[g] \in Int
    BY <1>1, <1>4, Numbers
  <2> QED BY <2>1, <2>2
<1>14. \A g \in Watched : asked'[g] >= asked[g]
  <2>1. \A g \in Watched \ {k} : asked'[g] = asked[g] /\ asked[g] \in Int
    BY <1>1, <1>4, Numbers
  <2> QED BY <1>5, <1>6, <2>1
<1> QED BY <1>4, <1>8, <1>11, <1>12, <1>13, <1>14 DEF Inv, KindsInv

-----------------------------------------------------------------------------
(* The invariant.                                                          *)

(* Nothing is marked, at work or stored.                                   *)
LEMMA InitInv == Init => Inv
<1> SUFFICES ASSUME Init PROVE Inv
  OBVIOUS
<1>1. /\ live = [s \in Sources |-> 0] /\ live["coding"] = 0
      /\ \A k \in Watched : VersionsOf(k) = NoSnapshot .. 0
      /\ VersionsOf("editor") = NoSnapshot .. 0
  BY Observed DEF Init, VersionsOf
<1>2. NoSnapshot \in NoSnapshot .. 0 /\ NoSnapshot \in Int
  BY DEF NoSnapshot
<1>3. LiveOK
  BY BoundsAssumption DEF Init, LiveOK
<1>4. DeskOK /\ MarksOK /\ TodoOK
  <2>1. closedAt \in 0 .. live["coding"]
    BY <1>1 DEF Init
  <2> QED BY <2>1, PiecesTyped DEF Init, DeskOK, MarksOK, TodoOK
<1>5. HandOK
  <2>1. Nothing \in [by : Threads \cup {Nobody}, of : Watched, seen : Int]
        /\ Nothing.of = "editor" /\ Nothing.seen = NoSnapshot
    BY <1>2, Observed DEF Nothing
  <2> QED BY <1>1, <1>2, <2>1 DEF Init, HandOK
<1>6. CopiesOK
  BY <1>1, <1>2 DEF Init, CopiesOK
<1>7. ASSUME NEW k \in Watched
      PROVE  /\ jobs[k] = <<>> /\ completed[k] = <<>>
             /\ store[k] = NoSnapshot /\ asked[k] = NoSnapshot
             /\ k \notin inflight /\ ~InHand(k)
             /\ \A t \in Threads : copies[t][k] = NoSnapshot
  BY DEF Init, InHand, Nothing
<1>8. KindTypesOK
  <2>1. \A S : <<>> \in Seq(S)
    OBVIOUS
  <2> QED BY <1>1, <1>2, <1>7, <2>1 DEF KindTypesOK, KindTypeOK, Init
<1>9. TypeOK
  BY <1>3, <1>4, <1>5, <1>6, <1>8, TypesApart
<1>10. ASSUME NEW k \in Watched PROVE KindInv(k)
  <2>1. Outstanding(k) = 0 /\ Held(k) = {}
    <3>1. Len(<<>>) = 0 /\ 0 + 0 = 0
      OBVIOUS
    <3> QED BY <1>7, <3>1, SeenFew, Zenon DEF Outstanding, Held
  <2>2. NoSnapshot <= NoSnapshot /\ NoSnapshot >= NoSnapshot
    BY DEF NoSnapshot
  <2> QED BY <1>7, <2>1, <2>2
          DEF KindInv, Counted, Bounded, InOrder, Answered, Pending
<1> QED BY <1>9, <1>10 DEF Inv, KindsInv

(* Nothing happens.                                                        *)
LEMMA NothingHappens == ASSUME Inv, UNCHANGED vars PROVE Inv'
<1>1. TypeOK'
  BY DEF Inv, TypeOK, VersionsOf, vars, marks, results, place, desk
<1>2. ASSUME NEW k \in Watched PROVE KindInv(k)'
  <2>1. UNCHANGED <<jobs, completed, store, asked, inflight, coalesced, hand, cut, overtaken, copies, todo>>
    BY DEF vars, marks, results, place, desk
  <2>2. KindInv(k) /\ (InHand(k)' <=> InHand(k)) /\ \A t \in Threads : Due(t, k) => Due(t, k)'
    BY <2>1 DEF Inv, KindsInv, InHand, Due
  <2> QED BY <2>1, <2>2, Unnoticed
<1> QED BY <1>1, <1>2 DEF Inv, KindsInv

(* Every step keeps the invariant.                                         *)
LEMMA StepInv == Inv /\ [Next]_vars => Inv'
<1> SUFFICES ASSUME Inv, [Next]_vars PROVE Inv'
  OBVIOUS
<1>1. CASE UNCHANGED vars
  BY <1>1, NothingHappens
<1>2. CASE WindowActs
  BY <1>2, CallsBegin
<1>3. CASE JobActs
  BY <1>3, JobReportsStep DEF JobActs
<1>4. ASSUME NEW t \in Threads, Prepares(t) PROVE Inv'
  BY <1>4, CallsBegin
<1>5. ASSUME NEW t \in Threads, GoesOn(t) PROVE Inv'
  BY <1>5, CallsMoveOn, CopyStep, StartStep, TakeStep, StoreStep, LookStep, UnmarkStep,
     PublishStep DEF GoesOn
<1> QED BY <1>1, <1>2, <1>3, <1>4, <1>5 DEF Next, ThreadActs

(* The invariant contains the properties it is for.                        *)
LEMMA InvImplies == Inv => OneJobPerMark /\ RequestsAreServed
<1> SUFFICES ASSUME Inv PROVE OneJobPerMark /\ RequestsAreServed
  OBVIOUS
<1>1. OneJobPerMark
  BY DEF Inv, KindsInv, KindInv, Counted, OneJobPerMark
<1>2. ASSUME NEW k \in Watched \cap Coalescing, Undisturbed(k), ~OnItsWay(k)
      PROVE  store[k] >= asked[k] \/ (k = "project" /\ store[k] = Empty)
  <2>1. KindInv(k) /\ TypeOK
    BY DEF Inv, KindsInv
  <2>2. k \notin inflight /\ k \notin coalesced /\ ~InHand(k)
        /\ \A t \in Threads : copies[t][k] = NoSnapshot /\ ~Due(t, k)
    BY <1>2 DEF OnItsWay
  <2>3. Outstanding(k) = 0
    BY <1>2, <2>1, <2>2 DEF KindInv, Counted, Undisturbed
  <2>4. Held(k) = {}
    BY <2>1, <2>3, NothingHeld
  <2>5. CASE \E t \in Threads : copies[t][k] >= asked[k]
    <3>1. NoSnapshot >= asked[k]
      BY <2>2, <2>5
    <3>2. store[k] >= asked[k]
      <4>1. /\ store[k] \in Int /\ store[k] >= NoSnapshot
            /\ asked[k] \in Int
        BY <2>1, Numbers
      <4> QED BY <3>1, <4>1 DEF NoSnapshot
    <3> QED BY <3>2
  <2>6. Pending(k) \/ IsEmptied(k)
    BY <1>2, <2>1 DEF KindInv, Answered
  <2> QED BY <2>2, <2>4, <2>5, <2>6 DEF Pending, IsEmptied
<1>3. RequestsAreServed
  BY <1>2 DEF RequestsAreServed
<1> QED BY <1>1, <1>3

(* In every reachable state marks, jobs, copies and snapshots fit, kind by *)
(* kind, whatever lock is taken next and by whom (schedule, publish_*,     *)
(* drain_completed_into_store, pump_context_maintenance).                  *)
THEOREM Invariance == Spec => []Inv
<1> QED BY InitInv, StepInv, PTL DEF Spec

(* Two jobs of a kind never race, unless a publication took the mark of a  *)
(* job at work (schedule, publish_*, apply_completed).                     *)
THEOREM OneJobAtATime == Spec => []OneJobPerMark
<1> QED BY Invariance, InvImplies, PTL

(* A request that found its kind in flight is not lost, nor one whose copy *)
(* another thread's request came before; unless an older copy was used     *)
(* after a newer one, or a job was published over (schedule,               *)
(* take_coalesced_reschedule, pump_context_maintenance).                   *)
THEOREM RequestsAreNotLost == Spec => []RequestsAreServed
<1> QED BY Invariance, InvImplies, PTL

-----------------------------------------------------------------------------
(* What a step may do.                                                     *)

(* What was disturbed stays so, requests are of ever newer versions, and a *)
(* kind that stays undisturbed keeps its snapshot or takes a newer one.    *)
LEMMA StepMovesOn ==
  ASSUME Inv, [Next]_vars
  PROVE  /\ cut \subseteq cut' /\ overtaken \subseteq overtaken'
         /\ \A k \in Watched : asked'[k] >= asked[k]
         /\ \A k \in Watched \ Emptied : Undisturbed(k)' => store'[k] >= store[k]
<1>1. TypeOK
  BY DEF Inv
<1>2. \A k \in Watched : asked[k] \in Int /\ store[k] \in Int
  BY <1>1, Numbers
<1>3. CASE UNCHANGED <<cut, overtaken, asked, store>>
  BY <1>2, <1>3
<1>4. ASSUME NEW t \in Threads, StoreResult(t)
      PROVE  UNCHANGED <<cut, overtaken, asked>>
             /\ \A k \in Watched : Undisturbed(k)' => store'[k] >= store[k]
  <2>1. UNCHANGED <<cut, overtaken, asked>>
    BY <1>4 DEF StoreResult
  <2> QED BY <1>4, <2>1, StoreStep DEF Undisturbed
<1>5. ASSUME NEW t \in Threads, Copy(t)
      PROVE  UNCHANGED <<cut, overtaken, store>> /\ \A k \in Watched : asked'[k] >= asked[k]
  <2>1. PICK g \in Watched : g = KindAt(t)
    BY <1>1, <1>5, NextStep DEF Copy
  <2>2. asked' = [asked EXCEPT ![g] = live[Observes[g]]] /\ UNCHANGED <<cut, overtaken, store>>
    BY <1>5, <2>1 DEF Copy, results
  <2>3. live[Observes[g]] >= asked[g] /\ DOMAIN asked = Watched
    BY <1>1, Numbers DEF TypeOK
  <2> QED BY <1>2, <2>2, <2>3
<1>6. ASSUME NEW t \in Threads, Start(t) \/ Unmark(t)
      PROVE  UNCHANGED <<asked, store>> /\ cut \subseteq cut' /\ overtaken \subseteq overtaken'
  BY <1>6 DEF Start, Begins, Unmark, results
<1>7. ASSUME NEW t \in Threads, GoesOn(t)
      PROVE  \/ UNCHANGED <<cut, overtaken, asked, store>>
             \/ StoreResult(t) \/ Copy(t) \/ Start(t) \/ Unmark(t) \/ PutClone(t) \/ PutNothing(t)
  BY <1>7 DEF GoesOn, EnsureTerminal, Restore, TakeResult, Drained, TakeUpdates, ApplyUpdates,
              LookAtFlag, CloneCoding, ReadStore, results
<1>8. ASSUME WindowActs \/ JobActs \/ \E t \in Threads : Prepares(t)
      PROVE  UNCHANGED <<cut, overtaken, asked, store>>
  BY <1>8 DEF WindowActs, Edit, TerminalActs, OpenProject, RefreshPanel, GitMutated, Expand, Close,
              WindowPumps, WindowCalls, JobActs, JobReports, Prepares, results
<1>9. CASE UNCHANGED vars
  BY <1>3, <1>9 DEF vars, results
<1>10. CASE WindowActs \/ JobActs \/ \E t \in Threads : Prepares(t)
  BY <1>3, <1>8, <1>10
<1>11. CASE \E t \in Threads : GoesOn(t)
  BY <1>2, <1>3, <1>4, <1>5, <1>6, <1>7, <1>11, PublishStep
<1> QED BY <1>9, <1>10, <1>11 DEF Next, ThreadActs

(* A snapshot is replaced by an older one only where its kind is disturbed *)
(* (drain_completed_into_store, publish_*, apply_completed).               *)
THEOREM SnapshotsOnlyMoveOn == Spec => SnapshotsMoveOn
<1>1. Inv /\ [Next]_vars =>
        \A k \in Watched \ Emptied : Undisturbed(k)' => store'[k] >= store[k]
  BY StepMovesOn
<1> QED BY <1>1, Invariance, PTL DEF Spec, SnapshotsMoveOn

(* An editor snapshot is of a version that was asked for.                  *)
LEMMA EditorWasAsked ==
  Inv => store["editor"] \in Int /\ store["editor"] <= asked["editor"]
<1>1. Inv => store["editor"] \in Int
  BY Observed, Numbers DEF Inv
<1>2. Inv => store["editor"] <= asked["editor"]
  BY Observed DEF Inv, KindsInv, KindInv, Bounded, Looking
<1> QED BY <1>1, <1>2

(* A step moves the cell on, or disturbs it.                               *)
LEMMA StepIsCells == Inv /\ Inv' /\ [Next]_vars => [Editor!Next]_(Editor!cell)
<1> SUFFICES ASSUME Inv, Inv', [Next]_vars, Undisturbed("editor")'
             PROVE  Editor!MovesOn
  BY DEF Editor!Next, Editor!Disturbs, Undisturbed
<1>1. "editor" \in Watched \ Emptied
  BY Observed DEF Emptied
<1>2. /\ store'["editor"] >= store["editor"] /\ Undisturbed("editor")
      /\ asked'["editor"] >= asked["editor"]
  BY <1>1, StepMovesOn DEF Undisturbed
<1>3. /\ store["editor"] \in Int /\ store'["editor"] \in Int
      /\ store'["editor"] <= asked'["editor"]
  <2>1. (Inv => store["editor"] \in Int /\ store["editor"] <= asked["editor"])'
    BY EditorWasAsked, PTL
  <2> QED BY <2>1, EditorWasAsked
<1> QED BY <1>2, <1>3 DEF Editor!MovesOn, Undisturbed

(* While nobody disturbs it the editor's snapshot only moves on, to what   *)
(* was asked for: the safety half of EditorIsACell (schedule,              *)
(* take_editor_snapshot_reschedule, pump_context_maintenance).             *)
THEOREM EditorMovesOn == Spec => Editor!Moves
<1>1. Init => Editor!Init
  BY Observed DEF Init, Editor!Init, NoSnapshot
<1> QED BY <1>1, StepIsCells, Invariance, PTL DEF Spec, Editor!Moves

=============================================================================
