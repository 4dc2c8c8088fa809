--------------------------- MODULE MonacoHost_proofs ---------------------------
(***************************************************************************)
(* Proofs about MonacoHost, for any number of files, panes, edits and      *)
(* messages on their way: what is typed in one file shows up in no other.  *)
(* The invariant says the same of every place a text can be in: the page,  *)
(* the two queues, the buffers and the disk.                               *)
(***************************************************************************)
EXTENDS MonacoHost, OpenEditors_proofs

Docs == [file : Files \cup {None}, text : Texts]
Messages == [kind : {"change", "ready"}, file : Files \cup {None}, text : Texts]

(* With t for typed and n for edits: the text holds edits that were made,  *)
(* and none that was typed in another file.                                *)
Own(file, text, t, n) == \A e \in text : e <= n /\ t[e] \in {None, file}

TextsOwn(bs, d, t, n) ==
  /\ \A f \in DOMAIN bs : Own(f, bs[f].text, t, n)
  /\ \A f \in DOMAIN d : d[f] # Absent => Own(f, d[f], t, n)

DocsOwn(docs, t, n) == \A m \in docs : Own(m.file, m.text, t, n)

WiresTypeOK ==
  /\ stage \in {"none", "loading", "loaded", "ready"}
  /\ last \in Docs /\ page \in Docs
  /\ toPage \in Seq(Docs) /\ Len(toPage) <= MaxQueue
  /\ toHost \in Seq(Messages) /\ Len(toHost) <= MaxQueue
  /\ typed \in [1..MaxEdits -> Files \cup {None}]
  /\ landed \subseteq 1..MaxEdits
  /\ crossed \in BOOLEAN

HostInv ==
  /\ Inv /\ WiresTypeOK
  /\ TextsOwn(buffers, disk, typed, edits)
  /\ DocsOwn({page} \cup ToSet(toPage) \cup ToSet(toHost), typed, edits)
  /\ \A e \in 1..MaxEdits : e > edits => typed[e] = None

(* The invariant contains the theorem it is for.                           *)
LEMMA HostInvImplies == HostInv => TypedWhereShown
<1> SUFFICES ASSUME HostInv PROVE TypedWhereShown
  OBVIOUS
<1>1. EditorsTypeOK
  BY InvIsWhole DEF HostInv, TabsAreWhole
<1>2. ToSet(toPage) \subseteq Docs /\ ToSet(toHost) \subseteq Messages
  BY DEF HostInv, WiresTypeOK, ToSet
<1>3. TypeOK
  BY <1>1, <1>2 DEF TypeOK, HostInv, WiresTypeOK, Docs, Messages
<1> QED BY <1>3 DEF TypedWhereShown, HostInv, TextsOwn, Own, Open

(* No text is anywhere but on disk, where nothing was typed.               *)
LEMMA HostInit == Init => HostInv
<1> SUFFICES ASSUME Init PROVE HostInv
  OBVIOUS
<1>1. Inv
  BY InitIsWhole DEF Init
<1>2. NoDoc \in Docs /\ page = NoDoc /\ last = NoDoc /\ toPage = <<>> /\ toHost = <<>>
  BY DEF Init, NoDoc, Docs, Texts
<1>3. WiresTypeOK
  <2>1. <<>> \in Seq(Docs) /\ <<>> \in Seq(Messages) /\ Len(<<>>) <= MaxQueue
    BY QueueAssumption
  <2>2. typed \in [1..MaxEdits -> Files \cup {None}] /\ landed \subseteq 1..MaxEdits
    BY DEF Init
  <2> QED BY <1>2, <2>1, <2>2 DEF Init, WiresTypeOK
<1>4. DocsOwn({page} \cup ToSet(toPage) \cup ToSet(toHost), typed, edits)
  BY <1>2 DEF DocsOwn, Own, NoDoc, ToSet
<1>5. TextsOwn(buffers, disk, typed, edits)
  BY DEF Init, EditorsInit, TextsOwn, Own
<1> QED BY <1>1, <1>3, <1>4, <1>5 DEF HostInv, Init

-----------------------------------------------------------------------------
(* Sequences.                                                              *)

(* The first message of a queue, and what is left once it is taken.        *)
LEMMA HeadAndTail ==
  ASSUME NEW S, NEW s \in Seq(S), s # <<>>
  PROVE  /\ Head(s) \in S /\ Head(s) \in ToSet(s)
         /\ Tail(s) \in Seq(S) /\ Len(Tail(s)) <= Len(s)
         /\ ToSet(Tail(s)) \subseteq ToSet(s)
<1>1. Len(s) \in Nat \ {0} /\ Head(s) = s[1] /\ Tail(s) \in Seq(S) /\ Len(Tail(s)) = Len(s) - 1
  OBVIOUS
<1>2. \A i \in 1..Len(Tail(s)) : Tail(s)[i] = s[i + 1]
  OBVIOUS
<1>3. ToSet(Tail(s)) \subseteq ToSet(s)
  BY <1>1, <1>2 DEF ToSet
<1> QED BY <1>1, <1>3 DEF ToSet

(* What is own stays own while typed forgets and edits are counted on.     *)
LEMMA StaysOwn ==
  ASSUME NEW file, NEW text \in Texts, NEW t, NEW n \in 0..MaxEdits,
         NEW u, NEW m \in 0..MaxEdits, n <= m,
         \A e \in 1..MaxEdits : e <= n => u[e] \in {None, t[e]},
         Own(file, text, t, n)
  PROVE  Own(file, text, u, m)
  BY EditsAssumption DEF Own, Texts

(* No text that is anywhere changes hands when typed forgets an edit.      *)
LEMMA WiresStayOwn ==
  ASSUME HostInv, edits' \in 0..MaxEdits, edits <= edits',
         \A e \in 1..MaxEdits : e <= edits => typed'[e] \in {None, typed[e]}
  PROVE  /\ TextsOwn(buffers, disk, typed', edits')
         /\ DocsOwn({page} \cup ToSet(toPage) \cup ToSet(toHost), typed', edits')
<1>1. edits \in 0..MaxEdits
  BY DEF HostInv, Inv
<1>2. \A f \in DOMAIN buffers : buffers[f].text \in Texts
  BY DEF HostInv, Inv, BuffersAreShown, Buffer
<1>3. \A f \in DOMAIN disk : disk[f] # Absent => disk[f] \in Texts
  BY DEF HostInv, Inv
<1>4. \A m \in {page} \cup ToSet(toPage) \cup ToSet(toHost) : m.text \in Texts
  <2>1. ToSet(toPage) \subseteq Docs /\ ToSet(toHost) \subseteq Messages /\ page \in Docs
    BY DEF HostInv, WiresTypeOK, ToSet
  <2> QED BY <2>1 DEF Docs, Messages
<1>5. TextsOwn(buffers, disk, typed', edits')
  BY <1>1, <1>2, <1>3, StaysOwn DEF HostInv, TextsOwn
<1>6. DocsOwn({page} \cup ToSet(toPage) \cup ToSet(toHost), typed', edits')
  BY <1>1, <1>4, StaysOwn DEF HostInv, DocsOwn
<1> QED BY <1>5, <1>6

-----------------------------------------------------------------------------
(* The steps of the page and of the queues.                                *)

(* Steps that leave the editors alone keep their half of the invariant.    *)
LEMMA EditorsApart ==
  ASSUME HostInv, UNCHANGED editorVars
  PROVE  Inv' /\ edits' \in 0..MaxEdits /\ edits' = edits
  BY StepIsWhole DEF HostInv, Inv, editorVars

(* ready carries no text.                                                  *)
LEMMA PageLoadsStep == HostInv /\ PageLoads => HostInv'
<1> SUFFICES ASSUME HostInv, PageLoads PROVE HostInv'
  OBVIOUS
<1>1. Inv' /\ UNCHANGED <<buffers, disk, edits, typed, page, toPage>>
  BY EditorsApart DEF PageLoads, editorVars, history
<1>2. Ready \in Messages
  BY DEF Ready, Messages, Texts
<1>3. /\ toHost' \in Seq(Messages) /\ Len(toHost') <= MaxQueue
      /\ \A m \in ToSet(toHost') : m = Ready
  BY <1>2, QueueAssumption DEF PageLoads, ToSet
<1>4. WiresTypeOK'
  BY <1>3 DEF HostInv, WiresTypeOK, PageLoads, history
<1>5. DocsOwn({page} \cup ToSet(toPage) \cup ToSet(toHost), typed, edits)'
  BY <1>1, <1>3 DEF HostInv, DocsOwn, Own, Ready
<1> QED BY <1>1, <1>4, <1>5 DEF HostInv

(* A key adds the new edit to the page's text and to the message about
   its file, and the page's text was that file's own.                      *)
LEMMA TypeStep == HostInv /\ Type => HostInv'
<1> SUFFICES ASSUME HostInv, Type PROVE HostInv'
  OBVIOUS
<1> DEFINE e == edits + 1
           text == page.text \cup {e}
           message == Change(page.file, text)
<1>1. /\ edits \in 0..MaxEdits /\ e \in 1..MaxEdits /\ edits' = e /\ e \in 0..MaxEdits
      /\ \A old \in Texts : old \cup {e} \in Texts
  BY NextEdit DEF HostInv, Inv, Type
<1>2. page \in Docs /\ page.file \in Files /\ page.text \in Texts
  BY DEF HostInv, WiresTypeOK, Docs, Type
<1>3. text \in Texts
  BY <1>1, <1>2
<1>4. page' = [page EXCEPT !.text = text] /\ toHost' = Append(toHost, message)
  <2>1. page' = [page EXCEPT !.text = text]
    BY DEF Type
  <2>2. page'.text = text
    BY <1>2, <2>1 DEF Docs
  <2> QED BY <2>1, <2>2 DEF Type
<1>5. typed' = [typed EXCEPT ![e] = page.file]
  BY DEF Type
<1>6. UNCHANGED <<panes, focused, buffers, disk, stage, last, toPage, landed>>
  BY DEF Type, hostVars
<1>7. crossed' \in BOOLEAN
  BY DEF Type
<1> HIDE DEF e
<1>8. page' \in Docs /\ page'.file = page.file /\ page'.text = text
  BY <1>2, <1>3, <1>4 DEF Docs
<1>9. message \in Messages /\ message.file = page.file /\ message.text = text
  BY <1>2, <1>3 DEF Change, Messages
<1> HIDE DEF text, message
<1>10. toHost' \in Seq(Messages) /\ Len(toHost') <= MaxQueue
       /\ ToSet(toHost') = ToSet(toHost) \cup {message}
  <2>1. toHost \in Seq(Messages) /\ Len(toHost) < MaxQueue
    BY DEF HostInv, WiresTypeOK, Type
  <2> QED BY <1>4, <1>9, <2>1, AppendedTab, QueueAssumption
<1>11. typed' \in [1..MaxEdits -> Files \cup {None}]
  BY <1>1, <1>2, <1>5 DEF HostInv, WiresTypeOK
<1>12. /\ edits <= e
       /\ \A x \in 1..MaxEdits : x <= edits => typed'[x] \in {None, typed[x]}
  <2>1. \A x \in 1..MaxEdits : x <= edits => x # e
    BY <1>1 DEF e
  <2> QED BY <1>1, <1>5, <2>1 DEF HostInv, WiresTypeOK, e
<1>13. /\ TextsOwn(buffers, disk, typed', e)
       /\ DocsOwn({page} \cup ToSet(toPage) \cup ToSet(toHost), typed', e)
  BY <1>1, <1>12, WiresStayOwn
<1>14. Own(page.file, text, typed', e)
  <2>1. Own(page.file, page.text, typed', e)
    BY <1>13 DEF DocsOwn
  <2>2. typed'[e] = page.file /\ e <= e
    BY <1>1, <1>5 DEF HostInv, WiresTypeOK
  <2> QED BY <2>1, <2>2 DEF Own, text
<1>15. DocsOwn({page} \cup ToSet(toPage) \cup ToSet(toHost), typed, edits)'
  BY <1>1, <1>6, <1>8, <1>9, <1>10, <1>13, <1>14 DEF DocsOwn
<1>16. TextsOwn(buffers, disk, typed, edits)'
  BY <1>1, <1>6, <1>13
<1>17. \A x \in 1..MaxEdits : x > edits' => typed'[x] = None
  <2>1. \A x \in 1..MaxEdits : x > e => x > edits /\ x # e
    BY <1>1 DEF e
  <2> QED BY <1>1, <1>5, <2>1 DEF HostInv, WiresTypeOK
<1>18. Inv'
  BY <1>1, <1>6, TextsChange DEF HostInv, Inv, BuffersAreShown, Open
<1>19. WiresTypeOK'
  BY <1>6, <1>7, <1>8, <1>10, <1>11 DEF HostInv, WiresTypeOK
<1> QED BY <1>15, <1>16, <1>17, <1>18, <1>19 DEF HostInv

(* The page takes a document with the file it is for.                      *)
LEMMA RunScriptStep == HostInv /\ RunScript => HostInv'
<1> SUFFICES ASSUME HostInv, RunScript PROVE HostInv'
  OBVIOUS
<1>1. Inv' /\ UNCHANGED <<buffers, disk, edits, typed, toHost>>
  BY EditorsApart DEF RunScript, editorVars, history
<1>2. /\ page' \in Docs /\ page' \in ToSet(toPage)
      /\ toPage' \in Seq(Docs) /\ Len(toPage') <= Len(toPage)
      /\ ToSet(toPage') \subseteq ToSet(toPage)
  <2>1. toPage \in Seq(Docs) /\ toPage # <<>>
    BY DEF HostInv, WiresTypeOK, RunScript
  <2> QED BY <2>1, HeadAndTail DEF RunScript
<1>3. Len(toPage') <= MaxQueue
  BY <1>2, QueueAssumption DEF HostInv, WiresTypeOK
<1>4. WiresTypeOK'
  BY <1>2, <1>3 DEF HostInv, WiresTypeOK, RunScript, hostVars, history
<1>5. DocsOwn({page} \cup ToSet(toPage) \cup ToSet(toHost), typed, edits)'
  BY <1>1, <1>2 DEF HostInv, DocsOwn
<1> QED BY <1>1, <1>4, <1>5 DEF HostInv

(* ready leaves every text where it is.                                    *)
LEMMA ReceiveReadyStep == HostInv /\ ReceiveReady => HostInv'
<1> SUFFICES ASSUME HostInv, ReceiveReady PROVE HostInv'
  OBVIOUS
<1>1. Inv' /\ UNCHANGED <<buffers, disk, edits, typed, page, toPage>>
  BY EditorsApart DEF ReceiveReady, editorVars, history
<1>2. /\ toHost' \in Seq(Messages) /\ Len(toHost') <= Len(toHost)
      /\ ToSet(toHost') \subseteq ToSet(toHost)
  <2>1. toHost \in Seq(Messages) /\ toHost # <<>>
    BY DEF HostInv, WiresTypeOK, ReceiveReady
  <2> QED BY <2>1, HeadAndTail DEF ReceiveReady
<1>3. NoDoc \in Docs /\ Len(toHost') <= MaxQueue
  BY <1>2, QueueAssumption DEF HostInv, WiresTypeOK, NoDoc, Docs, Texts
<1>4. WiresTypeOK'
  BY <1>2, <1>3 DEF HostInv, WiresTypeOK, ReceiveReady, history
<1>5. DocsOwn({page} \cup ToSet(toPage) \cup ToSet(toHost), typed, edits)'
  BY <1>1, <1>2 DEF HostInv, DocsOwn
<1> QED BY <1>1, <1>4, <1>5 DEF HostInv

(* A change goes to the buffer of the file it names (or, without one,
   nowhere), never to the active tab.                                      *)
LEMMA ReceiveChangeStep == HostInv /\ ReceiveChange => HostInv'
<1> SUFFICES ASSUME HostInv, ReceiveChange PROVE HostInv'
  OBVIOUS
<1> DEFINE m == Head(toHost)
           bs == WithContent(buffers, m.file, m.text)
<1>1. toHost # <<>> /\ toHost \in Seq(Messages)
  BY DEF HostInv, WiresTypeOK, ReceiveChange, Received
<1>2. /\ m \in Messages /\ m \in ToSet(toHost)
      /\ Tail(toHost) \in Seq(Messages) /\ Len(Tail(toHost)) <= Len(toHost)
      /\ ToSet(Tail(toHost)) \subseteq ToSet(toHost)
  BY <1>1, HeadAndTail
<1>3. /\ last' = IF last.file = m.file THEN [last EXCEPT !.text = m.text] ELSE last
      /\ buffers' = bs /\ toHost' = Tail(toHost)
      /\ UNCHANGED <<panes, focused, disk, edits, stage, page, toPage, crossed>>
  BY DEF ReceiveChange, Received
<1>4. IF m.file \in Open
      THEN landed' = landed \cup UNION {bs[f].text : f \in Open} /\ UNCHANGED typed
      ELSE /\ typed' = [e \in 1..MaxEdits |-> IF e \in m.text THEN None ELSE typed[e]]
           /\ UNCHANGED landed
  BY DEF ReceiveChange, Received
<1> HIDE DEF m
<1>5. m.text \in Texts /\ m.file \in Files \cup {None}
  BY <1>2 DEF Messages
<1>6. DOMAIN bs = Open /\ \A f \in Open : bs[f] \in Buffer
  BY <1>5, ContentIsBuffer DEF HostInv, Inv, BuffersAreShown, Open
<1>7. \A f \in Open : bs[f] = buffers[f] \/ (f = m.file /\ bs[f].text = m.text)
  BY DEF WithContent, Open
<1> HIDE DEF bs
<1>8. Inv'
  BY <1>3, <1>6, TextsChange DEF HostInv, Inv, Open
<1>9. /\ typed' \in [1..MaxEdits -> Files \cup {None}]
      /\ \A e \in 1..MaxEdits : typed'[e] \in {None, typed[e]}
  BY <1>4 DEF HostInv, WiresTypeOK
<1>10. landed' \subseteq 1..MaxEdits
  <2>1. \A f \in Open : bs[f].text \subseteq 1..MaxEdits
    BY <1>6 DEF Buffer, Texts
  <2>2. UNION {bs[f].text : f \in Open} \subseteq 1..MaxEdits
    BY <2>1
  <2> HIDE DEF Open
  <2> QED BY <1>4, <2>2 DEF HostInv, WiresTypeOK
<1>11. last' \in Docs
  BY <1>3, <1>5 DEF HostInv, WiresTypeOK, Docs
<1>12. Len(toHost') <= MaxQueue
  BY <1>1, <1>2, <1>3, QueueAssumption DEF HostInv, WiresTypeOK
<1>13. WiresTypeOK'
  BY <1>2, <1>3, <1>9, <1>10, <1>11, <1>12 DEF HostInv, WiresTypeOK
<1>14. /\ TextsOwn(buffers, disk, typed', edits)
       /\ DocsOwn({page} \cup ToSet(toPage) \cup ToSet(toHost), typed', edits)
  <2>1. edits' = edits /\ edits \in 0..MaxEdits
    BY <1>3 DEF HostInv, Inv
  <2> QED BY <1>9, <2>1, WiresStayOwn
<1>15. TextsOwn(buffers, disk, typed, edits)'
  <2>1. Own(m.file, m.text, typed', edits)
    BY <1>2, <1>14 DEF DocsOwn
  <2>2. ASSUME NEW f \in Open PROVE Own(f, bs[f].text, typed', edits)
    BY <1>7, <1>14, <2>1 DEF TextsOwn, Open
  <2> QED BY <1>3, <1>6, <1>14, <2>2 DEF TextsOwn
<1>16. DocsOwn({page} \cup ToSet(toPage) \cup ToSet(toHost), typed, edits)'
  BY <1>2, <1>3, <1>14 DEF DocsOwn
<1>17. \A e \in 1..MaxEdits : e > edits' => typed'[e] = None
  BY <1>3, <1>9 DEF HostInv
<1> QED BY <1>8, <1>13, <1>15, <1>16, <1>17 DEF HostInv

(* The document of the active tab is one of the texts the host has.        *)
LEMMA DocIsOwn ==
  ASSUME HostInv, ActiveFile # None
  PROVE  Doc \in Docs /\ Own(Doc.file, Doc.text, typed, edits)
<1>1. ActiveFile \in Open
  BY DEF ActiveFile, Session
<1>2. ActiveFile \in Files /\ buffers[ActiveFile].text \in Texts
  BY <1>1 DEF HostInv, Inv, BuffersAreShown, Open, Buffer
<1>3. Own(ActiveFile, buffers[ActiveFile].text, typed, edits)
  BY <1>1 DEF HostInv, TextsOwn, Open
<1>4. /\ Doc.file = ActiveFile /\ Doc.text = buffers[ActiveFile].text
      /\ Doc = [file |-> ActiveFile, text |-> buffers[ActiveFile].text]
  BY DEF Doc
<1> QED BY <1>2, <1>3, <1>4 DEF Docs

(* Mounting changes no text.                                               *)
LEMMA MountStep == HostInv /\ Mount => HostInv'
<1> SUFFICES ASSUME HostInv, Mount PROVE HostInv'
  OBVIOUS
<1>1. Inv' /\ UNCHANGED <<buffers, disk, edits, typed, page, toPage, toHost>>
  BY EditorsApart DEF Mount, editorVars, wires, history
<1>2. WiresTypeOK'
  BY <1>1 DEF HostInv, WiresTypeOK, Mount, history
<1> QED BY <1>1, <1>2 DEF HostInv

(* What is pushed is the active buffer with its own path.                  *)
LEMMA SyncStep == HostInv /\ SyncDocument => HostInv'
<1> SUFFICES ASSUME HostInv, SyncDocument PROVE HostInv'
  OBVIOUS
<1>1. Inv' /\ UNCHANGED <<buffers, disk, edits, typed, page, toHost>>
  BY EditorsApart DEF SyncDocument, editorVars
<1> DEFINE d == Doc
<1>2. d \in Docs /\ Own(d.file, d.text, typed, edits)
  BY DocIsOwn DEF SyncDocument
<1>3. toPage' = Append(toPage, d) /\ last' = d
  BY DEF SyncDocument
<1> HIDE DEF d
<1>4. /\ toPage' \in Seq(Docs) /\ Len(toPage') <= MaxQueue
      /\ ToSet(toPage') = ToSet(toPage) \cup {d}
  <2>1. toPage \in Seq(Docs) /\ Len(toPage) < MaxQueue
    BY DEF HostInv, WiresTypeOK, SyncDocument
  <2> QED BY <1>2, <1>3, <2>1, AppendedTab, QueueAssumption
<1>5. WiresTypeOK'
  BY <1>2, <1>3, <1>4 DEF HostInv, WiresTypeOK, SyncDocument
<1>6. DocsOwn({page} \cup ToSet(toPage) \cup ToSet(toHost), typed, edits)'
  BY <1>1, <1>2, <1>4 DEF HostInv, DocsOwn
<1> QED BY <1>1, <1>5, <1>6 DEF HostInv

-----------------------------------------------------------------------------
(* The steps of the editors, while the queues wait.                        *)

(* A new edit made outside of the page was typed in no file.               *)
LEMMA FreshIsOwn ==
  ASSUME HostInv, edits < MaxEdits, NEW file, NEW text \in Texts,
         Own(file, text, typed, edits)
  PROVE  Own(file, text \cup {edits + 1}, typed, edits + 1)
<1>1. /\ edits \in 0..MaxEdits /\ edits + 1 \in 0..MaxEdits /\ edits + 1 \in 1..MaxEdits
      /\ edits <= edits + 1 /\ edits + 1 > edits
  BY NextEdit DEF HostInv, Inv
<1>2. typed[edits + 1] = None
  BY <1>1 DEF HostInv
<1>3. Own(file, text, typed, edits + 1)
  BY <1>1, StaysOwn
<1> QED BY <1>1, <1>2, <1>3 DEF Own

(* A step of the editors that keeps buffers and disk own keeps it all.     *)
LEMMA NothingTyped ==
  ASSUME HostInv, UNCHANGED <<hostVars, wires, typed, landed>>, crossed' \in BOOLEAN,
         Inv', edits <= edits', TextsOwn(buffers, disk, typed, edits)'
  PROVE  HostInv'
<1>1. edits \in 0..MaxEdits /\ edits' \in 0..MaxEdits
  BY DEF HostInv, Inv
<1>2. DocsOwn({page} \cup ToSet(toPage) \cup ToSet(toHost), typed', edits')
  BY <1>1, WiresStayOwn
<1>3. DocsOwn({page} \cup ToSet(toPage) \cup ToSet(toHost), typed, edits)'
  BY <1>2 DEF wires
<1>4. WiresTypeOK'
  BY DEF HostInv, WiresTypeOK, hostVars, wires
<1>5. \A e \in 1..MaxEdits : e > edits' => typed'[e] = None
  BY <1>1 DEF HostInv
<1> QED BY <1>3, <1>4, <1>5 DEF HostInv

(* Buffers that stay or go as they are stay own.                           *)
LEMMA SameTexts ==
  ASSUME HostInv, UNCHANGED <<disk, edits, typed>>,
         \A f \in DOMAIN buffers' : f \in Open /\ buffers'[f] = buffers[f]
  PROVE  TextsOwn(buffers, disk, typed, edits)' /\ edits <= edits'
  BY DEF HostInv, Inv, TextsOwn, Open

(* Opening reads the file's own text; switching and moving read none.      *)
LEMMA TabsChangedStep == HostInv /\ TabsChanged => HostInv'
<1> SUFFICES ASSUME HostInv, TabsChanged PROVE HostInv'
  OBVIOUS
<1>1. UNCHANGED <<hostVars, wires, typed, landed>> /\ crossed' \in BOOLEAN
  BY DEF TabsChanged, HostStep, HostInv, WiresTypeOK
<1>2. Inv'
  BY StepIsWhole DEF TabsChanged, HostStep, EditorsNext, HostInv
<1>3. TextsOwn(buffers, disk, typed, edits)' /\ edits <= edits'
  <2>1. ASSUME NEW f \in Files, OpenFile(f)
        PROVE  TextsOwn(buffers, disk, typed, edits)' /\ edits <= edits'
    <3>1. /\ DOMAIN buffers' = Open \cup {f} /\ buffers'[f] = Clean(disk[f])
          /\ \A g \in Open : buffers'[g] = buffers[g]
          /\ disk[f] # Absent /\ UNCHANGED <<disk, edits>>
      BY <2>1 DEF OpenFile
    <3>2. buffers'[f].text = disk[f] /\ f \in DOMAIN disk /\ edits <= edits
      BY <3>1 DEF Clean, HostInv, Inv
    <3> QED BY <1>1, <3>1, <3>2 DEF HostInv, TextsOwn, Open
  <2>2. ASSUME NEW p \in Live, NEW q \in Live, NEW f \in Files, MoveTab(p, f, q)
        PROVE  TextsOwn(buffers, disk, typed, edits)' /\ edits <= edits'
    BY <1>1, <2>2, SettledAddsNothing, SameTexts DEF MoveTab
  <2>3. CASE UNCHANGED <<buffers, disk, edits>>
    BY <1>1, <2>3, SameTexts DEF Open
  <2> QED BY <2>1, <2>2, <2>3 DEF TabsChanged, HostStep, Refocus, FocusPane, Activate, Split
<1> QED BY <1>1, <1>2, <1>3, NothingTyped

(* Closing only drops buffers.                                             *)
LEMMA TabsClosedStep == HostInv /\ TabsClosed => HostInv'
<1> SUFFICES ASSUME HostInv, TabsClosed PROVE HostInv'
  OBVIOUS
<1>1. UNCHANGED <<hostVars, wires, typed, landed>> /\ crossed' \in BOOLEAN
  BY DEF TabsClosed, HostStep, HostInv, WiresTypeOK
<1>2. Inv'
  BY StepIsWhole DEF TabsClosed, HostStep, EditorsNext, HostInv
<1>3. TextsOwn(buffers, disk, typed, edits)' /\ edits <= edits'
  <2>1. /\ \A f \in DOMAIN buffers' : f \in Open /\ buffers'[f] = buffers[f]
        /\ UNCHANGED <<disk, edits>>
    BY SettledAddsNothing DEF TabsClosed, HostStep, ClosePane, CloseTab
  <2> QED BY <1>1, <2>1, SameTexts
<1> QED BY <1>1, <1>2, <1>3, NothingTyped

(* An edit made beside the page, or a replacement, is new: nobody typed
   it in another file.                                                     *)
LEMMA TextsChangedStep == HostInv /\ TextsChanged => HostInv'
<1> SUFFICES ASSUME HostInv, TextsChanged PROVE HostInv'
  OBVIOUS
<1>1. UNCHANGED <<hostVars, wires, typed, landed>> /\ crossed' \in BOOLEAN
  BY DEF TextsChanged, HostStep, HostInv, WiresTypeOK
<1>2. Inv'
  BY StepIsWhole DEF TextsChanged, HostStep, EditorsNext, HostInv
<1>3. edits < MaxEdits /\ edits' = edits + 1
  BY DEF TextsChanged, HostStep, TypeBeside, ReplaceInFiles
<1>4. edits <= edits' /\ edits \in 0..MaxEdits /\ edits' \in 0..MaxEdits
  BY <1>3, NextEdit DEF HostInv, Inv
<1>5. TextsOwn(buffers, disk, typed, edits')
  <2>1. TextsOwn(buffers, disk, typed', edits')
    BY <1>1, <1>4, WiresStayOwn
  <2> QED BY <1>1, <2>1
<1>6. /\ \A f \in Open : buffers[f].text \in Texts
      /\ \A f \in Files : disk[f] # Absent => disk[f] \in Texts
  BY DEF HostInv, Inv, BuffersAreShown, Open, Buffer
<1>7. /\ \A f \in Open : Own(f, buffers[f].text \cup {edits + 1}, typed, edits')
      /\ \A f \in Files : disk[f] # Absent => Own(f, disk[f] \cup {edits + 1}, typed, edits')
  BY <1>3, <1>6, FreshIsOwn DEF HostInv, TextsOwn, Inv, Open
<1>8. TextsOwn(buffers, disk, typed, edits)'
  <2>1. ASSUME NEW p \in Live, TypeBeside(p) PROVE TextsOwn(buffers, disk, typed, edits)'
    <3> DEFINE a == Session(p)
    <3>1. a \in Open
      BY <2>1 DEF TypeBeside, Session
    <3>2. buffers' = WithContent(buffers, a, buffers[a].text \cup {edits + 1}) /\ UNCHANGED disk
      BY <2>1 DEF TypeBeside
    <3> HIDE DEF a
    <3>3. /\ DOMAIN buffers' = Open
          /\ \A f \in Open : \/ buffers'[f] = buffers[f]
                             \/ buffers'[f].text = buffers[f].text \cup {edits + 1}
      BY <3>1, <3>2 DEF WithContent, Open
    <3>4. \A f \in Open : Own(f, buffers[f].text, typed, edits')
      BY <1>5 DEF TextsOwn, Open
    <3>5. \A f \in DOMAIN buffers' : Own(f, buffers'[f].text, typed, edits')
      BY <1>7, <3>3, <3>4
    <3> QED BY <1>1, <1>5, <3>2, <3>5 DEF TextsOwn
  <2>2. ASSUME NEW hits \in SUBSET Files \ {{}}, ReplaceInFiles(hits)
        PROVE  TextsOwn(buffers, disk, typed, edits)'
    <3>1. /\ DOMAIN buffers' = Open
          /\ \A f \in Open : \/ buffers'[f] = buffers[f]
                             \/ buffers'[f].text = buffers[f].text \cup {edits + 1}
      BY <2>2 DEF ReplaceInFiles
    <3>2. /\ DOMAIN disk' = Files /\ DOMAIN disk = Files
          /\ \A f \in Files : \/ disk'[f] = disk[f]
                              \/ disk[f] # Absent /\ disk'[f] = disk[f] \cup {edits + 1}
      BY <2>2 DEF ReplaceInFiles, HostInv, Inv
    <3> QED BY <1>1, <1>5, <1>7, <3>1, <3>2 DEF TextsOwn, Open
  <2> QED BY <2>1, <2>2 DEF TextsChanged, HostStep
<1> QED BY <1>1, <1>2, <1>4, <1>8, NothingTyped

(* A save writes a buffer to its own file.                                 *)
LEMMA SavedStep == HostInv /\ Saved => HostInv'
<1> SUFFICES ASSUME HostInv, Saved PROVE HostInv'
  OBVIOUS
<1>1. UNCHANGED <<hostVars, wires, typed, landed>> /\ crossed' \in BOOLEAN
  BY DEF Saved, HostStep, HostInv, WiresTypeOK
<1>2. Inv'
  BY StepIsWhole DEF Saved, HostStep, EditorsNext, HostInv
<1>3. TextsOwn(buffers, disk, typed, edits)' /\ edits <= edits'
  <2> DEFINE a == ActiveFile
  <2>1. a \in Open /\ buffers[a] \in Buffer
    BY DEF Saved, HostStep, SaveActive, ActiveFile, Session, HostInv, Inv, BuffersAreShown, Open
  <2>2. /\ disk' = [disk EXCEPT ![a] = buffers[a].text]
        /\ buffers' = [buffers EXCEPT ![a].dirty = FALSE] /\ edits' = edits
    BY DEF Saved, HostStep, SaveActive
  <2> HIDE DEF a
  <2>3. /\ DOMAIN buffers' = Open
        /\ \A f \in Open : buffers'[f].text = buffers[f].text
    BY <2>1, <2>2 DEF Open, Buffer
  <2>4. /\ DOMAIN disk' = DOMAIN disk
        /\ \A f \in DOMAIN disk : disk'[f] = disk[f] \/ (f = a /\ disk'[f] = buffers[a].text)
    BY <2>2
  <2>5. edits <= edits
    BY DEF HostInv, Inv
  <2> QED BY <1>1, <2>1, <2>2, <2>3, <2>4, <2>5 DEF HostInv, TextsOwn, Open
<1> QED BY <1>1, <1>2, <1>3, NothingTyped

(* The page and its messages are gone, and what is read is own.            *)
LEMMA ReopenedStep == HostInv /\ WorkspaceReopened => HostInv'
<1> SUFFICES ASSUME HostInv, WorkspaceReopened PROVE HostInv'
  OBVIOUS
<1>1. Inv'
  BY StepIsWhole DEF WorkspaceReopened, EditorsNext, HostInv
<1>2. /\ stage' = "none" /\ last' = NoDoc /\ page' = NoDoc /\ toHost' = <<>> /\ toPage' = <<>>
      /\ typed' = [e \in 1..MaxEdits |-> None] /\ landed' = {} /\ crossed' = FALSE
      /\ UNCHANGED <<disk, edits>>
      /\ DOMAIN buffers' = {g \in TabsOf(panes) : disk[g] # Absent}
      /\ \A f \in DOMAIN buffers' : buffers'[f] = Clean(disk[f])
  BY DEF WorkspaceReopened, Reopen
<1>3. WiresTypeOK'
  <2>1. <<>> \in Seq(Docs) /\ <<>> \in Seq(Messages) /\ Len(<<>>) <= MaxQueue
    BY QueueAssumption
  <2>2. NoDoc \in Docs
    BY DEF NoDoc, Docs, Texts
  <2>3. typed' \in [1..MaxEdits -> Files \cup {None}]
    BY <1>2
  <2> QED BY <1>2, <2>1, <2>2, <2>3 DEF WiresTypeOK
<1>4. DocsOwn({page} \cup ToSet(toPage) \cup ToSet(toHost), typed, edits)'
  BY <1>2 DEF DocsOwn, Own, NoDoc, ToSet
<1>5. TextsOwn(buffers, disk, typed', edits')
  <2>1. edits \in 0..MaxEdits /\ edits <= edits /\ edits' = edits
    BY <1>2 DEF HostInv, Inv
  <2>2. \A e \in 1..MaxEdits : e <= edits => typed'[e] \in {None, typed[e]}
    BY <1>2
  <2> QED BY <2>1, <2>2, WiresStayOwn
<1>6. TextsOwn(buffers, disk, typed, edits)'
  <2>1. TabsOf(panes) \subseteq Files /\ DOMAIN disk = Files
    BY TabsAreFiles DEF HostInv, Inv
  <2>2. \A f \in DOMAIN buffers' : buffers'[f].text = disk[f] /\ disk[f] # Absent /\ f \in DOMAIN disk
    <3>1. \A t : Clean(t).text = t
      BY DEF Clean
    <3>2. \A f \in DOMAIN buffers' : buffers'[f].text = disk[f]
      BY <1>2, <3>1
    <3>3. \A f \in DOMAIN buffers' : disk[f] # Absent /\ f \in DOMAIN disk
      BY <1>2, <2>1
    <3> QED BY <3>2, <3>3
  <2> QED BY <1>2, <1>5, <2>2 DEF TextsOwn
<1> QED BY <1>1, <1>2, <1>3, <1>4, <1>6 DEF HostInv

-----------------------------------------------------------------------------
(* Every step keeps the invariant.                                         *)
LEMMA HostStepIsOwn == HostInv /\ [Next]_vars => HostInv'
<1>1. HostInv /\ UNCHANGED vars => HostInv'
  <2> SUFFICES ASSUME HostInv, UNCHANGED vars PROVE HostInv'
    OBVIOUS
  <2>1. Inv'
    BY StepIsWhole DEF vars, HostInv
  <2> QED BY <2>1 DEF vars, editorVars, hostVars, wires, history, HostInv, WiresTypeOK,
                      TextsOwn, DocsOwn
<1> QED BY <1>1, PageLoadsStep, TypeStep, RunScriptStep, ReceiveReadyStep, ReceiveChangeStep,
           MountStep, SyncStep, TabsChangedStep, TabsClosedStep, TextsChangedStep, SavedStep,
           ReopenedStep DEF Next

(* Types, the structure of the editors, and the origin of every text.      *)
THEOREM HostInvariance == Spec => []HostInv
<1> QED BY HostInit, HostStepIsOwn, PTL DEF Spec

(* What is typed in one file never shows up in another, however many tabs  *)
(* were switched and messages were on their way (handle_coding_events).    *)
THEOREM TypedStaysPut == Spec => []TypedWhereShown
<1> QED BY HostInvImplies, HostInvariance, PTL

-----------------------------------------------------------------------------
(* The page and the buffers.  The invariant follows what the page will     *)
(* show once it has run its scripts, and what the messages on their way    *)
(* will make of the buffer they are for.                                   *)

(* The page posts only when it is ready, and says so first.                *)
StageInv ==
  /\ stage # "ready" => page = NoDoc /\ toPage = <<>>
  /\ stage \in {"none", "loading"} => toHost = <<>>
  /\ stage = "loaded" => toHost = <<Ready>>
  /\ stage = "ready" => \A i \in DOMAIN toHost : toHost[i].kind = "change"

(* What the page shows when it has run the scripts on their way.           *)
Showing == IF toPage = <<>> THEN page ELSE toPage[Len(toPage)]

(* Unless both sides changed a file at the same time, the host takes the   *)
(* page to show what it shows, or is about to hear it: every message is    *)
(* about the file of the page, adds to the one before, keeps the unsaved   *)
(* edits of the buffer, and the last one is the page's text.               *)
Agreement ==
  stage = "ready" /\ ~crossed =>
    IF toHost = <<>> THEN last = Showing
    ELSE /\ toPage = <<>> /\ last.file = page.file
         /\ toHost[Len(toHost)].text = page.text
         /\ \A i \in DOMAIN toHost :
              /\ toHost[i].file = page.file
              /\ page.file \in Open /\ buffers[page.file].dirty =>
                   buffers[page.file].text \subseteq toHost[i].text
         /\ \A i, j \in DOMAIN toHost : i < j => toHost[i].text \subseteq toHost[j].text

ViewInv == StageInv /\ Agreement /\ TypingArrives


(* A queue of changes only: none on their way means that it is empty.      *)
LEMMA ReadyChanges ==
  ASSUME HostInv, StageInv, stage = "ready"
  PROVE  Changes = {} <=> toHost = <<>>
<1>1. toHost \in Seq(Messages)
  BY DEF HostInv, WiresTypeOK
<1>2. toHost # <<>> => 1 \in DOMAIN toHost /\ toHost[1].kind = "change"
  BY <1>1 DEF StageInv
<1> QED BY <1>2 DEF Changes

(* Steps that leave the page and the queues alone.                         *)
LEMMA ViewKept ==
  ASSUME HostInv, ViewInv, UNCHANGED <<stage, last, wires, typed, landed>>,
         stage = "ready" /\ ~crossed' =>
           /\ ~crossed
           /\ \/ Changes = {}
              \/ \A f \in DOMAIN buffers' : buffers'[f].dirty =>
                   f \in Open /\ buffers[f].dirty /\ buffers'[f].text = buffers[f].text
  PROVE  ViewInv'
<1> USE DEF ViewInv
<1>1. StageInv' /\ TypingArrives'
  BY DEF StageInv, TypingArrives, Changes, wires
<1>2. Agreement'
  <2> SUFFICES ASSUME stage = "ready", ~crossed' PROVE Agreement'
    BY DEF Agreement
  <2>1. Changes = {} <=> toHost = <<>>
    BY ReadyChanges
  <2> QED BY <2>1 DEF Agreement, Showing, wires, Open
<1> QED BY <1>1, <1>2

(* The page posts the text it shows, which has what it showed before.      *)
LEMMA TypeKeepsView ==
  ASSUME HostInv, ViewInv, Type
  PROVE  ViewInv'
<1> USE DEF ViewInv
<1> DEFINE e == edits + 1
           text == page.text \cup {e}
           m == Change(page.file, text)
<1>1. page.file # None /\ page \in Docs /\ toHost \in Seq(Messages) /\ Len(toHost) \in Nat
  BY DEF Type, HostInv, WiresTypeOK
<1>2. stage = "ready"
  BY <1>1 DEF StageInv, NoDoc
<1>3. page' = [page EXCEPT !.text = text] /\ toHost' = Append(toHost, m)
  <2>1. page' = [page EXCEPT !.text = text]
    BY DEF Type
  <2>2. page'.text = text
    BY <1>1, <2>1 DEF Docs
  <2> QED BY <2>1, <2>2 DEF Type
<1>4. /\ UNCHANGED <<panes, focused, buffers, disk, stage, last, toPage, landed>>
      /\ typed' = [typed EXCEPT ![e] = page.file]
      /\ ~crossed' => /\ ~crossed /\ toPage = <<>>
                      /\ Changes = {} /\ page.file \in Open => buffers[page.file].text = page.text
  BY DEF Type, hostVars
<1>5. m.file = page.file /\ m.text = text /\ m.kind = "change"
  BY DEF Change
<1>6. page'.file = page.file /\ page'.text = text /\ e \in text
  BY <1>1, <1>3 DEF Docs
<1>6a. page.text \subseteq text
  OBVIOUS
<1> HIDE DEF m, text
<1>7. /\ Len(toHost') = Len(toHost) + 1 /\ DOMAIN toHost' = 1..(Len(toHost) + 1)
      /\ DOMAIN toHost = 1..Len(toHost)
      /\ \A i \in 1..Len(toHost) : toHost'[i] = toHost[i]
      /\ toHost'[Len(toHost) + 1] = m /\ toHost' # <<>>
      /\ \A i \in 1..(Len(toHost) + 1) : i \in 1..Len(toHost) \/ i = Len(toHost) + 1
  BY <1>1, <1>3
<1>8. StageInv'
  BY <1>2, <1>4, <1>5, <1>7 DEF StageInv
<1>9. Agreement'
  <2> SUFFICES ASSUME ~crossed' PROVE Agreement'
    BY DEF Agreement
  <2>1. ~crossed /\ toPage = <<>>
    BY <1>4
  <2>2. last.file = page.file
    BY <1>2, <2>1 DEF Agreement, Showing
  <2>3. \A i \in 1..Len(toHost) : /\ toHost[i].file = page.file
                                  /\ page.file \in Open /\ buffers[page.file].dirty =>
                                       buffers[page.file].text \subseteq toHost[i].text
                                  /\ toHost[i].text \subseteq page.text
    <3>1. CASE toHost = <<>>
      BY <1>7, <3>1
    <3>2. CASE toHost # <<>>
      <4>1. Len(toHost) \in 1..Len(toHost) /\ toHost[Len(toHost)].text = page.text
        BY <1>1, <1>2, <2>1, <3>2 DEF Agreement
      <4>2. \A i \in 1..Len(toHost) : i < Len(toHost) \/ i = Len(toHost)
        BY <1>1
      <4> QED BY <1>2, <1>7, <2>1, <3>2, <4>1, <4>2 DEF Agreement
    <3> QED BY <3>1, <3>2
  <2>4. page.file \in Open /\ buffers[page.file].dirty => buffers[page.file].text \subseteq page.text
    <3>1. CASE toHost = <<>>
      BY <1>2, <1>4, <3>1, ReadyChanges
    <3>2. CASE toHost # <<>>
      <4>1. Len(toHost) \in 1..Len(toHost)
        BY <1>1, <3>2
      <4> QED BY <2>3, <4>1
    <3> QED BY <3>1, <3>2
  <2>5. \A i \in DOMAIN toHost' :
          /\ toHost'[i].file = page.file
          /\ page.file \in Open /\ buffers[page.file].dirty =>
               buffers[page.file].text \subseteq toHost'[i].text
    BY <1>5, <1>6a, <1>7, <2>3, <2>4
  <2>6. \A i, j \in DOMAIN toHost' : i < j => toHost'[i].text \subseteq toHost'[j].text
    <3> SUFFICES ASSUME NEW i \in DOMAIN toHost', NEW j \in DOMAIN toHost', i < j
                 PROVE  toHost'[i].text \subseteq toHost'[j].text
      OBVIOUS
    <3>1. i \in 1..Len(toHost)
      BY <1>1, <1>7
    <3>2. CASE j = Len(toHost) + 1
      BY <1>5, <1>6a, <1>7, <2>3, <3>1, <3>2
    <3>3. CASE j \in 1..Len(toHost)
      <4>1. toHost # <<>>
        BY <1>1, <3>1
      <4> QED BY <1>2, <1>7, <2>1, <3>1, <3>3, <4>1 DEF Agreement
    <3> QED BY <1>7, <3>2, <3>3
  <2>7. toHost'[Len(toHost')].text = page'.text
    BY <1>5, <1>6, <1>7
  <2> QED BY <1>4, <1>6, <1>7, <2>1, <2>2, <2>5, <2>6, <2>7 DEF Agreement, Open
<1>10. TypingArrives'
  <2>1. m \in Changes' /\ e \in m.text
    BY <1>1, <1>5, <1>6, <1>7 DEF Changes
  <2>2. Changes \subseteq Changes'
    BY <1>7 DEF Changes
  <2>3. \A x \in 1..MaxEdits : x # e => typed'[x] = typed[x]
    BY <1>4 DEF HostInv, WiresTypeOK
  <2> HIDE DEF e
  <2> QED BY <1>4, <2>1, <2>2, <2>3 DEF TypingArrives
<1> QED BY <1>8, <1>9, <1>10

(* The page runs a script: what it will show in the end stays the same.    *)
LEMMA RunKeepsView ==
  ASSUME HostInv, ViewInv, RunScript
  PROVE  ViewInv'
<1> USE DEF ViewInv
<1>1. /\ toPage # <<>> /\ page' = Head(toPage) /\ toPage' = Tail(toPage) /\ toPage \in Seq(Docs)
      /\ UNCHANGED <<buffers, stage, last, toHost, typed, landed, crossed>>
  BY DEF RunScript, HostInv, WiresTypeOK, editorVars, hostVars, history
<1>2. StageInv' /\ TypingArrives'
  BY <1>1 DEF StageInv, TypingArrives, Changes
<1>3. Showing' = Showing
  <2>1. CASE Len(toPage) = 1
    BY <1>1, <2>1 DEF Showing
  <2>2. CASE Len(toPage) # 1
    <3> DEFINE n == Len(toPage)
    <3>1. n \in Nat /\ n > 1 /\ Len(Tail(toPage)) = n - 1
          /\ \A i \in 1..(n - 1) : Tail(toPage)[i] = toPage[i + 1]
      <4>1. n \in Nat /\ n # 0 /\ Len(Tail(toPage)) = n - 1
        BY <1>1
      <4>2. \A i \in 1..(n - 1) : Tail(toPage)[i] = toPage[i + 1]
        BY <1>1
      <4> HIDE DEF n
      <4>3. n > 1
        BY <2>2, <4>1 DEF n
      <4> QED BY <4>1, <4>2, <4>3
    <3>2. Tail(toPage) # <<>>
      BY <1>1, <3>1
    <3> HIDE DEF n
    <3>3. n - 1 \in 1..(n - 1) /\ (n - 1) + 1 = n
      BY <3>1
    <3>4. Tail(toPage)[Len(Tail(toPage))] = toPage[n]
      BY <3>1, <3>3
    <3> QED BY <1>1, <3>2, <3>4 DEF Showing, n
  <2> QED BY <2>1, <2>2
<1>4. Agreement'
  BY <1>1, <1>3 DEF Agreement, Showing
<1> QED BY <1>2, <1>3, <1>4

(* The page is loaded, says so, and has shown nothing yet.                 *)
LEMMA LoadKeepsView ==
  ASSUME HostInv, ViewInv, PageLoads \/ ReceiveReady \/ Mount
  PROVE  ViewInv'
<1> USE DEF ViewInv
<1>1. UNCHANGED <<typed, landed, page, toPage>>
  BY DEF PageLoads, ReceiveReady, Mount, wires, history
<1>2. CASE Mount
  <2>1. stage = "none" /\ stage' = "loading" /\ toHost' = toHost
    BY <1>2 DEF Mount, wires
  <2> QED BY <1>1, <2>1 DEF StageInv, Agreement, TypingArrives, Changes
<1>3. CASE PageLoads
  <2>1. stage = "loading" /\ stage' = "loaded" /\ toHost' = <<Ready>> /\ toHost = <<>>
    BY <1>3 DEF PageLoads, StageInv
  <2>2. TypingArrives'
    BY <1>1, <2>1 DEF TypingArrives, Changes
  <2> QED BY <1>1, <2>1, <2>2 DEF StageInv, Agreement
<1>4. CASE ReceiveReady
  <2>1. toHost # <<>> /\ Head(toHost).kind = "ready" /\ stage' = "ready" /\ last' = NoDoc
        /\ toHost' = Tail(toHost) /\ toHost \in Seq(Messages)
    BY <1>4 DEF ReceiveReady, HostInv, WiresTypeOK
  <2>2. stage = "loaded"
    BY <2>1 DEF StageInv, HostInv, WiresTypeOK
  <2>3. toHost = <<Ready>> /\ page = NoDoc /\ toPage = <<>>
    BY <2>2 DEF StageInv
  <2>4. toHost' = <<>> /\ Changes = {}
    BY <2>1, <2>3 DEF Changes, Ready
  <2>5. TypingArrives'
    BY <1>1, <2>4 DEF TypingArrives
  <2> QED BY <1>1, <2>1, <2>3, <2>4, <2>5 DEF StageInv, Agreement, Showing
<1> QED BY <1>2, <1>3, <1>4

(* What is pushed is what the page will show, and what the host takes it   *)
(* to show.                                                                *)
LEMMA SyncKeepsView ==
  ASSUME HostInv, ViewInv, SyncDocument
  PROVE  ViewInv'
<1> USE DEF ViewInv
<1> DEFINE d == Doc
<1>1. /\ stage = "ready" /\ toPage' = Append(toPage, d) /\ last' = d
      /\ crossed' = (crossed \/ Changes # {})
      /\ UNCHANGED <<buffers, stage, page, toHost, typed, landed>>
      /\ toPage \in Seq(Docs) /\ d \in Docs
  BY DocIsOwn DEF SyncDocument, HostInv, WiresTypeOK, editorVars
<1> HIDE DEF d
<1>2. StageInv' /\ TypingArrives'
  BY <1>1 DEF StageInv, TypingArrives, Changes
<1>3. Showing' = d
  BY <1>1 DEF Showing
<1>4. ~crossed' => toHost = <<>>
  BY <1>1, ReadyChanges
<1>5. Agreement'
  BY <1>1, <1>3, <1>4 DEF Agreement
<1> QED BY <1>2, <1>5

(* The first change becomes the content of its buffer and is noted; the    *)
(* changes after it have it in them.                                       *)
LEMMA ReceiveKeepsView ==
  ASSUME HostInv, ViewInv, ReceiveChange
  PROVE  ViewInv'
<1> USE DEF ViewInv
<1> DEFINE m == Head(toHost)
           q == Tail(toHost)
           bs == WithContent(buffers, m.file, m.text)
<1>1. /\ toHost # <<>> /\ m.kind = "change" /\ toHost \in Seq(Messages)
      /\ last' = IF last.file = m.file THEN [last EXCEPT !.text = m.text] ELSE last
      /\ buffers' = bs /\ toHost' = q
      /\ UNCHANGED <<stage, page, toPage, crossed>>
      /\ last \in Docs /\ page \in Docs
  BY DEF ReceiveChange, Received, HostInv, WiresTypeOK
<1>2. IF m.file \in Open
      THEN landed' = landed \cup UNION {bs[f].text : f \in Open} /\ UNCHANGED typed
      ELSE /\ typed' = [e \in 1..MaxEdits |-> IF e \in m.text THEN None ELSE typed[e]]
           /\ UNCHANGED landed
  BY DEF ReceiveChange, Received
<1>3. /\ m = toHost[1] /\ 1 \in DOMAIN toHost /\ q \in Seq(Messages) /\ m \in Messages
      /\ Len(toHost) \in Nat /\ DOMAIN toHost = 1..Len(toHost)
      /\ Len(q) = Len(toHost) - 1 /\ DOMAIN q = 1..Len(q)
      /\ \A i \in 1..Len(q) : q[i] = toHost[i + 1] /\ i + 1 \in 1..Len(toHost)
  BY <1>1
<1>4. stage = "ready"
  BY <1>1 DEF StageInv, HostInv, WiresTypeOK, Ready
<1>5. m.file \in Open => bs[m.file].text = m.text
  BY DEF WithContent, Open
<1>5a. \A f \in DOMAIN bs : f \in Open
  BY DEF WithContent, Open
<1> HIDE DEF m, q, bs
<1>6. StageInv'
  BY <1>1, <1>3, <1>4 DEF StageInv
<1>7. Agreement'
  <2> SUFFICES ASSUME ~crossed PROVE Agreement'
    BY <1>1 DEF Agreement
  <2>1. /\ toPage = <<>> /\ last.file = page.file /\ m.file = page.file
        /\ toHost[Len(toHost)].text = page.text
        /\ \A i \in DOMAIN toHost : toHost[i].file = page.file
        /\ \A i, j \in DOMAIN toHost : i < j => toHost[i].text \subseteq toHost[j].text
    BY <1>1, <1>3, <1>4 DEF Agreement
  <2>2. last' = [last EXCEPT !.text = m.text]
    BY <1>1, <2>1
  <2>3. CASE q = <<>>
    <3>1. Len(toHost) = 1 /\ m.text = page.text
      BY <1>3, <2>1, <2>3
    <3>2. last' = page
      BY <1>1, <2>1, <2>2, <3>1 DEF Docs
    <3> QED BY <1>1, <2>1, <2>3, <3>2 DEF Agreement, Showing
  <2>4. CASE q # <<>>
    <3>1. q[Len(q)].text = page.text
      BY <1>3, <2>1, <2>4
    <3>2. \A i \in DOMAIN q : q[i].file = page.file /\ m.text \subseteq q[i].text
      <4> SUFFICES ASSUME NEW i \in DOMAIN q
                   PROVE  q[i].file = page.file /\ m.text \subseteq q[i].text
        OBVIOUS
      <4>1. 1 < i + 1 /\ q[i] = toHost[i + 1] /\ i + 1 \in DOMAIN toHost
        BY <1>3
      <4> QED BY <1>3, <2>1, <4>1
    <3>3. \A i, j \in DOMAIN q : i < j => q[i].text \subseteq q[j].text
      <4> SUFFICES ASSUME NEW i \in DOMAIN q, NEW j \in DOMAIN q, i < j
                   PROVE  q[i].text \subseteq q[j].text
        OBVIOUS
      <4>1. i + 1 < j + 1 /\ q[i] = toHost[i + 1] /\ q[j] = toHost[j + 1]
            /\ i + 1 \in DOMAIN toHost /\ j + 1 \in DOMAIN toHost
        BY <1>3
      <4> QED BY <2>1, <4>1
    <3>4. last'.file = page.file
      BY <1>1, <2>1, <2>2 DEF Docs
    <3>5. page.file \in DOMAIN bs => bs[page.file].text = m.text
      BY <1>5, <1>5a, <2>1
    <3> QED BY <1>1, <2>1, <2>4, <3>1, <3>2, <3>3, <3>4, <3>5 DEF Agreement, Open
  <2> QED BY <2>3, <2>4
<1>8. TypingArrives'
  <2>1. \A c \in Changes : c = m \/ c \in Changes'
    <3> SUFFICES ASSUME NEW i \in DOMAIN toHost, toHost[i].kind = "change"
                 PROVE  toHost[i] = m \/ toHost[i] \in Changes'
      BY DEF Changes
    <3>1. CASE i = 1
      BY <1>3, <3>1
    <3>2. CASE i # 1
      <4>1. i - 1 \in DOMAIN q /\ q[i - 1] = toHost[i]
        BY <1>3, <3>2
      <4> QED BY <1>1, <4>1 DEF Changes
    <3> QED BY <3>1, <3>2
  <2>2. CASE m.file \in Open
    <3>1. m.text \subseteq landed' /\ landed \subseteq landed' /\ typed' = typed
      BY <1>2, <1>5, <2>2
    <3> QED BY <2>1, <3>1 DEF TypingArrives
  <2>3. CASE m.file \notin Open
    <3>1. \A e \in 1..MaxEdits : typed'[e] # None => e \notin m.text /\ typed[e] # None
      BY <1>2, <2>3
    <3> QED BY <1>2, <2>1, <2>3, <3>1 DEF TypingArrives
  <2> QED BY <2>2, <2>3
<1> QED BY <1>6, <1>7, <1>8

(* The events of the shell: while changes are on their way, none that      *)
(* keeps page and host from crossing touches a text.                       *)
LEMMA ShellKeepsView ==
  ASSUME HostInv, ViewInv, TabsChanged \/ TabsClosed \/ TextsChanged \/ Saved
  PROVE  ViewInv'
<1>1. UNCHANGED <<stage, last, wires, typed, landed>>
  BY DEF TabsChanged, TabsClosed, TextsChanged, Saved, HostStep, hostVars
<1>2. ~crossed' => ~crossed
  BY DEF TabsChanged, TabsClosed, TextsChanged, Saved, HostStep
<1> DEFINE Same == \A f \in DOMAIN buffers' : buffers'[f].dirty =>
                     f \in Open /\ buffers[f].dirty /\ buffers'[f].text = buffers[f].text
<1>3. CASE TabsClosed \/ TextsChanged
  <2>1. ~crossed' => Changes = {}
    BY <1>3 DEF TabsClosed, TextsChanged, HostStep
  <2> QED BY <1>1, <1>2, <2>1, ViewKept
<1>4. CASE TabsChanged
  <2>1. ASSUME NEW f \in Files, OpenFile(f) PROVE Same
    BY <2>1 DEF OpenFile, Clean
  <2>2. ASSUME NEW p \in Live, NEW q \in Live, NEW f \in Files, MoveTab(p, f, q) PROVE Same
    BY <2>2, SettledAddsNothing DEF MoveTab
  <2>3. ASSUME UNCHANGED buffers PROVE Same
    BY <2>3 DEF Open
  <2>4. Same
    BY <1>4, <2>1, <2>2, <2>3 DEF TabsChanged, HostStep, Refocus, FocusPane, Activate, Split
  <2> QED BY <1>1, <1>2, <2>4, ViewKept
<1>5. CASE Saved
  <2> DEFINE a == ActiveFile
  <2>1. a \in Open /\ buffers[a] \in Buffer /\ buffers' = [buffers EXCEPT ![a].dirty = FALSE]
    BY <1>5 DEF Saved, HostStep, SaveActive, ActiveFile, Session, HostInv, Inv, BuffersAreShown, Open
  <2> HIDE DEF a
  <2>2. Same
    BY <2>1 DEF Open, Buffer
  <2> QED BY <1>1, <1>2, <2>2, ViewKept
<1> QED BY <1>3, <1>4, <1>5

(* Every step keeps page and buffers together.                             *)
LEMMA StepKeepsView == HostInv /\ ViewInv /\ [Next]_vars => ViewInv'
<1> SUFFICES ASSUME HostInv, ViewInv, [Next]_vars PROVE ViewInv'
  OBVIOUS
<1>1. CASE UNCHANGED vars
  BY <1>1 DEF vars, editorVars, hostVars, wires, history, ViewInv, StageInv, Agreement, Showing,
              TypingArrives, Changes, Open
<1>2. CASE WorkspaceReopened
  <2>1. /\ stage' = "none" /\ page' = NoDoc /\ toHost' = <<>> /\ toPage' = <<>>
        /\ typed' = [e \in 1..MaxEdits |-> None]
    BY <1>2 DEF WorkspaceReopened
  <2> QED BY <2>1 DEF ViewInv, StageInv, Agreement, TypingArrives
<1> QED BY <1>1, <1>2, TypeKeepsView, RunKeepsView, LoadKeepsView, SyncKeepsView,
           ReceiveKeepsView, ShellKeepsView DEF Next

(* Stages, queues, page and buffers fit together.                          *)
THEOREM ViewInvariance == Spec => []ViewInv
<1>1. Init => ViewInv
  BY DEF Init, ViewInv, StageInv, Agreement, TypingArrives
<1> QED BY <1>1, StepKeepsView, HostInvariance, PTL DEF Spec

(* No key is lost: it is in a message or it reached the buffer of its file *)
(* (the page's onDidChangeModelContent, poll, set_content).                *)
THEOREM NoKeyIsLost == Spec => []TypingArrives
<1>1. ViewInv => TypingArrives
  BY DEF ViewInv
<1> QED BY <1>1, ViewInvariance, PTL

(* At rest the page shows the active tab, unless both sides changed a file *)
(* at the same time: nothing that was not pushed is taken for an echo.     *)
THEOREM RestingViewAgrees == Spec => []ViewAgreesUnlessCrossed
<1>1. ViewInv => ViewAgreesUnlessCrossed
  BY DEF ViewInv, ViewAgreesUnlessCrossed, ViewIsBuffer, AtRest, Agreement, Showing
<1> QED BY <1>1, ViewInvariance, PTL

(* The whole texts the page posts take no unsaved edit from a buffer.      *)
THEOREM UnsavedIsKeptByTheView == Spec => UnsavedSurvivesTheView
<1>1. HostInv /\ ViewInv /\ [Next]_vars =>
        \A f \in Open :
          buffers[f].dirty /\ ~crossed =>
            \/ f \in DOMAIN buffers' /\ buffers[f].text \subseteq buffers'[f].text
            \/ Discards(f)
  <2> SUFFICES ASSUME HostInv, ViewInv, [Next]_vars, NEW f \in Open, buffers[f].dirty, ~crossed
               PROVE  Survives(f) \/ Discards(f)
    BY DEF Survives
  <2>1. CASE ReceiveChange
    <3> DEFINE m == Head(toHost)
    <3>1. /\ toHost # <<>> /\ m.kind = "change" /\ toHost \in Seq(Messages)
          /\ buffers' = WithContent(buffers, m.file, m.text)
      BY <2>1 DEF ReceiveChange, Received, HostInv, WiresTypeOK
    <3>2. stage = "ready"
      BY <3>1 DEF ViewInv, StageInv, HostInv, WiresTypeOK, Ready
    <3>3. m = toHost[1] /\ 1 \in DOMAIN toHost
      BY <3>1
    <3> HIDE DEF m
    <3>4. m.file = f => buffers[f].text \subseteq m.text
      BY <3>1, <3>2, <3>3 DEF ViewInv, Agreement
    <3> QED BY <3>1, <3>4 DEF WithContent, Survives, Open
  <2>2. CASE UNCHANGED buffers
    BY <2>2 DEF Survives, Open
  <2>3. CASE TabsChanged \/ TabsClosed \/ TextsChanged \/ Saved \/ WorkspaceReopened
    <3>1. EditorsNext
      BY <2>3 DEF TabsChanged, TabsClosed, TextsChanged, Saved, HostStep, WorkspaceReopened, EditorsNext
    <3> QED BY <3>1, DirtySurvives DEF HostInv
  <2> QED BY <2>1, <2>2, <2>3 DEF Next, PageLoads, Type, RunScript, ReceiveReady, Mount, SyncDocument,
             editorVars, vars
<1> QED BY <1>1, HostInvariance, ViewInvariance, PTL DEF Spec, UnsavedSurvivesTheView

=============================================================================
