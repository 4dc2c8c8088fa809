-------------------------- MODULE OpenEditors_proofs --------------------------
(***************************************************************************)
(* Proofs about OpenEditors, for any number of files, panes and edits.     *)
(* TabsAreWhole is inductive once it is said of the panes and of the       *)
(* buffers that the helpers of the actions work on.                        *)
(***************************************************************************)
EXTENDS OpenEditors, SequenceTheorems, WellFoundedInduction, TLAPS

PaneIsWhole(pane) ==
  /\ pane \in Pane
  /\ IF pane.tabs = <<>> THEN pane.active = None ELSE pane.active \in ToSet(pane.tabs)

PanesAreWhole(ps) ==
  /\ DOMAIN ps \in SUBSET PaneIds
  /\ \A p \in DOMAIN ps : PaneIsWhole(ps[p])

BuffersAreShown(bs, ps) ==
  /\ DOMAIN bs \in SUBSET Files
  /\ \A f \in DOMAIN bs : bs[f] \in Buffer
  /\ DOMAIN bs \subseteq TabsOf(ps)

Inv ==
  /\ PanesAreWhole(panes) /\ focused \in Live
  /\ BuffersAreShown(buffers, panes)
  /\ disk \in [Files -> {Absent} \cup Texts]
  /\ edits \in 0..MaxEdits

(* Inv is TabsAreWhole, stated of panes and of buffers.                    *)
LEMMA InvIsWhole == Inv => TabsAreWhole
  BY DEF Inv, TabsAreWhole, EditorsTypeOK, PanesAreWhole, PaneIsWhole,
         BuffersAreShown, Live, Open, HasTab

-----------------------------------------------------------------------------
(* The helpers.                                                            *)

(* The tabs of panes are files of the project.                             *)
LEMMA TabsAreFiles ==
  ASSUME NEW ps, PanesAreWhole(ps)
  PROVE  TabsOf(ps) \subseteq Files
  BY DEF PanesAreWhole, PaneIsWhole, TabsOf, ToSet, Pane

(* A tab appended to a strip is one tab more.                              *)
LEMMA AppendedTab ==
  ASSUME NEW S, NEW s \in Seq(S), NEW f \in S
  PROVE  /\ Append(s, f) \in Seq(S) /\ Append(s, f) # <<>> /\ Len(Append(s, f)) = Len(s) + 1
         /\ ToSet(Append(s, f)) = ToSet(s) \cup {f}
<1> DEFINE t == Append(s, f)
<1>1. /\ t \in Seq(S) /\ t # <<>> /\ Len(t) = Len(s) + 1
      /\ \A i \in 1 .. Len(s) : t[i] = s[i]
      /\ t[Len(s) + 1] = f
  BY AppendProperties
<1> HIDE DEF t
<1>2. DOMAIN s = 1 .. Len(s) /\ DOMAIN t = 1 .. (Len(s) + 1)
  BY <1>1
<1>3. ToSet(t) \subseteq ToSet(s) \cup {f}
  BY <1>1, <1>2 DEF ToSet
<1>4. ToSet(s) \cup {f} \subseteq ToSet(t)
  BY <1>1, <1>2 DEF ToSet
<1> QED BY <1>1, <1>3, <1>4 DEF t

(* WithTab adds the tab, once, and makes it the active one.                *)
LEMMA WithTabIsWhole ==
  ASSUME NEW pane, pane \in Pane, NEW f \in Files
  PROVE  /\ PaneIsWhole(WithTab(pane, f))
         /\ ToSet(WithTab(pane, f).tabs) = ToSet(pane.tabs) \cup {f}
<1>1. CASE f \in ToSet(pane.tabs)
  <2>1. pane.tabs # <<>>
    BY <1>1 DEF ToSet
  <2>2. WithTab(pane, f) = [pane EXCEPT !.active = f]
    BY <1>1 DEF WithTab, Activated
  <2> QED BY <1>1, <2>1, <2>2 DEF PaneIsWhole, Pane
<1>2. CASE f \notin ToSet(pane.tabs)
  <2> DEFINE longer == Append(pane.tabs, f)
  <2>1. pane.tabs \in Seq(Files)
    BY DEF Pane
  <2>2. longer \in Seq(Files) /\ longer # <<>> /\ ToSet(longer) = ToSet(pane.tabs) \cup {f}
    BY <2>1, AppendedTab
  <2>3. WithTab(pane, f) = [[pane EXCEPT !.tabs = longer] EXCEPT !.active = f]
    BY <1>2 DEF WithTab, Activated
  <2> HIDE DEF longer
  <2> QED BY <2>2, <2>3 DEF PaneIsWhole, Pane
<1> QED BY <1>1, <1>2

(* RemoveAt takes one element out and leaves every other one.              *)
LEMMA RemovedElement ==
  ASSUME NEW s \in Seq(Files), NEW i \in 1..Len(s)
  PROVE  /\ RemoveAt(s, i) \in Seq(Files)
         /\ Len(RemoveAt(s, i)) = Len(s) - 1
         /\ ToSet(RemoveAt(s, i)) \subseteq ToSet(s)
         /\ ToSet(s) \ {s[i]} \subseteq ToSet(RemoveAt(s, i))
<1> DEFINE before == SubSeq(s, 1, i - 1)
           after == SubSeq(s, i + 1, Len(s))
<1>1. /\ before \in Seq(Files) /\ Len(before) = i - 1
      /\ \A k \in 1..(i - 1) : before[k] = s[k]
  OBVIOUS
<1>2. /\ after \in Seq(Files) /\ Len(after) = Len(s) - i
      /\ \A k \in 1..(Len(s) - i) : after[k] = s[i + k]
  OBVIOUS
<1>3. RemoveAt(s, i) = before \o after
  BY DEF RemoveAt
<1> HIDE DEF before, after
<1>4. /\ RemoveAt(s, i) \in Seq(Files) /\ Len(RemoveAt(s, i)) = Len(s) - 1
      /\ \A k \in 1..(Len(s) - 1) :
           RemoveAt(s, i)[k] = IF k < i THEN s[k] ELSE s[k + 1]
  <2>1. /\ before \o after \in Seq(Files)
        /\ Len(before \o after) = Len(before) + Len(after)
        /\ \A k \in 1..(Len(before) + Len(after)) :
             (before \o after)[k] = IF k <= Len(before) THEN before[k]
                                   ELSE after[k - Len(before)]
    BY <1>1, <1>2, ConcatProperties
  <2>2. ASSUME NEW k \in 1..(Len(s) - 1)
        PROVE  RemoveAt(s, i)[k] = IF k < i THEN s[k] ELSE s[k + 1]
    <3>1. CASE k < i
      BY <1>1, <1>2, <1>3, <2>1, <3>1
    <3>2. CASE ~(k < i)
      <4>1. k - (i - 1) \in 1..(Len(s) - i) /\ i + (k - (i - 1)) = k + 1
        BY <3>2
      <4>2. (before \o after)[k] = after[k - (i - 1)]
        BY <1>1, <1>2, <2>1, <3>2
      <4>3. after[k - (i - 1)] = s[i + (k - (i - 1))]
        BY <1>2, <4>1
      <4> QED BY <1>3, <3>2, <4>1, <4>2, <4>3
    <3> QED BY <3>1, <3>2
  <2> QED BY <1>1, <1>2, <1>3, <2>1, <2>2
<1>5. ToSet(RemoveAt(s, i)) \subseteq ToSet(s)
  BY <1>4 DEF ToSet
<1>6. ASSUME NEW k \in 1..Len(s), s[k] # s[i] PROVE s[k] \in ToSet(RemoveAt(s, i))
  <2>1. CASE k < i
    BY <1>4, <2>1 DEF ToSet
  <2>2. CASE k > i
    <3>1. k - 1 \in 1..(Len(s) - 1) /\ RemoveAt(s, i)[k - 1] = s[k]
      BY <1>4, <2>2
    <3> QED BY <1>4, <3>1 DEF ToSet
  <2> QED BY <1>6, <2>1, <2>2
<1>7. ToSet(s) \ {s[i]} \subseteq ToSet(RemoveAt(s, i))
  BY <1>6 DEF ToSet
<1> QED BY <1>4, <1>5, <1>7

(* A set of numbers has a least one: a tab has a first place.             *)
LEMMA LeastNatural ==
  ASSUME NEW T, T \subseteq Nat, T # {}
  PROVE  \E x \in T : \A y \in T : x <= y
<1> DEFINE R == {ss \in Nat \X Nat : ss[1] < ss[2]}
<1>1. IsWellFoundedOn(R, Nat)
  BY NatLessThanWellFounded DEF OpToRel
<1>2. \E x \in T : \A y \in T : <<y, x>> \notin R
  <2> HIDE DEF R
  <2> QED BY <1>1, WFMin
<1>3. \A x, y \in Nat : <<y, x>> \notin R => x <= y
  OBVIOUS
<1> QED BY <1>2, <1>3

(* WithoutTab leaves the other tabs, and an active one among them.         *)
LEMMA WithoutTabIsWhole ==
  ASSUME NEW pane, PaneIsWhole(pane), NEW f \in ToSet(pane.tabs)
  PROVE  /\ PaneIsWhole(WithoutTab(pane, f))
         /\ ToSet(pane.tabs) \ {f} \subseteq ToSet(WithoutTab(pane, f).tabs)
<1> DEFINE first(j) == pane.tabs[j] = f /\ \A k \in 1..(j - 1) : pane.tabs[k] # f
           i == CHOOSE j \in DOMAIN pane.tabs : first(j)
           left == RemoveAt(pane.tabs, i)
           next == IF i <= Len(left) THEN left[i]
                   ELSE IF left # <<>> THEN left[i - 1] ELSE None
<1>1. pane.tabs \in Seq(Files) /\ pane.active \in Files \cup {None}
  BY DEF PaneIsWhole, Pane
<1>2. \E j \in DOMAIN pane.tabs : first(j)
  <2> DEFINE places == {j \in Nat : j \in DOMAIN pane.tabs /\ pane.tabs[j] = f}
  <2>1. DOMAIN pane.tabs = 1..Len(pane.tabs)
    BY <1>1
  <2>2. places # {}
    BY <2>1 DEF ToSet
  <2>3. PICK j \in places : \A k \in places : j <= k
    BY <2>2, LeastNatural
  <2>4. ASSUME NEW k \in 1..(j - 1) PROVE pane.tabs[k] # f
    BY <2>1, <2>3, <2>4
  <2> QED BY <2>3, <2>4
<1>3. i \in 1..Len(pane.tabs) /\ pane.tabs[i] = f
  BY <1>1, <1>2
<1>4. WithoutTab(pane, f) = [tabs |-> left, active |-> IF pane.active = f THEN next ELSE pane.active]
  BY DEF WithoutTab
<1> HIDE DEF i
<1>5. /\ left \in Seq(Files) /\ Len(left) = Len(pane.tabs) - 1
      /\ ToSet(left) \subseteq ToSet(pane.tabs)
      /\ ToSet(pane.tabs) \ {f} \subseteq ToSet(left)
  BY <1>1, <1>3, RemovedElement
<1> HIDE DEF left
<1>6. CASE pane.active = f
  <2>1. IF left = <<>> THEN next = None ELSE next \in ToSet(left)
    BY <1>3, <1>5 DEF ToSet
  <2>2. next \in Files \cup {None}
    BY <1>5, <2>1 DEF ToSet
  <2> HIDE DEF next
  <2> QED BY <1>4, <1>5, <1>6, <2>1, <2>2 DEF PaneIsWhole, Pane
<1>7. CASE pane.active # f
  <2>1. pane.active \in ToSet(left)
    <3>1. pane.tabs # <<>>
      BY DEF ToSet
    <3> QED BY <1>5, <1>7, <3>1 DEF PaneIsWhole
  <2>2. left # <<>>
    BY <2>1 DEF ToSet
  <2> HIDE DEF next
  <2> QED BY <1>1, <1>4, <1>5, <1>7, <2>1, <2>2 DEF PaneIsWhole, Pane
<1> QED BY <1>6, <1>7

-----------------------------------------------------------------------------
(* What close_pane and sanitize leave behind.                              *)

(* close_pane: the panes that stay, one of them with the focus, and their  *)
(* buffers.                                                                *)
LEMMA RemovedIsWhole ==
  ASSUME NEW ps, PanesAreWhole(ps), NEW p \in DOMAIN ps, NEW focus \in DOMAIN ps,
         \A f \in Open : buffers[f] \in Buffer,
         Removed(ps, p, focus)
  PROVE  PanesAreWhole(panes') /\ focused' \in Live' /\ BuffersAreShown(buffers, panes)'
<1> DEFINE left == Restrict(ps, DOMAIN ps \ {p})
<1>1. /\ DOMAIN left = DOMAIN ps \ {p}
      /\ \A q \in DOMAIN left : left[q] = ps[q]
  BY DEF Restrict
<1>2. panes' = left /\ buffers' = Restrict(buffers, Open \cap TabsOf(left))
  BY DEF Removed, Sanitized
<1>3. focused' \in DOMAIN left
  BY <1>1 DEF Removed
<1> HIDE DEF left
<1>4. PanesAreWhole(left)
  BY <1>1 DEF PanesAreWhole
<1>5. BuffersAreShown(buffers, panes)'
  <2>1. DOMAIN buffers' = Open \cap TabsOf(left) /\ \A f \in DOMAIN buffers' : buffers'[f] = buffers[f]
    BY <1>2 DEF Restrict
  <2> QED BY <1>2, <1>4, <2>1, TabsAreFiles DEF BuffersAreShown
<1> QED BY <1>2, <1>3, <1>4, <1>5 DEF Live

(* The end of close_path_in_pane and of move_tab.                          *)
LEMMA SettledIsWhole ==
  ASSUME NEW ps, PanesAreWhole(ps), NEW p \in DOMAIN ps, NEW focus \in DOMAIN ps,
         \A f \in Open : buffers[f] \in Buffer,
         Settled(ps, p, focus)
  PROVE  PanesAreWhole(panes') /\ focused' \in Live' /\ BuffersAreShown(buffers, panes)'
<1>1. CASE Removed(ps, p, focus)
  BY <1>1, RemovedIsWhole
<1>2. CASE panes' = ps /\ focused' = focus /\ Sanitized(ps)
  <2>1. /\ DOMAIN buffers' = Open \cap TabsOf(ps)
        /\ \A f \in DOMAIN buffers' : buffers'[f] = buffers[f]
    BY <1>2 DEF Sanitized, Restrict
  <2> QED BY <1>2, <2>1, TabsAreFiles DEF BuffersAreShown, Live
<1> QED BY <1>1, <1>2 DEF Settled

(* No tab but those of the panes that were put in: a pane is only removed  *)
(* with its tabs gone.  So a buffer with a tab stays as it is.             *)
LEMMA SettledKeepsShown ==
  ASSUME NEW ps, NEW p \in DOMAIN ps, NEW focus,
         Settled(ps, p, focus), NEW f \in Open, f \in TabsOf(ps)
  PROVE  f \in DOMAIN buffers' /\ buffers'[f] = buffers[f]
<1>1. CASE Removed(ps, p, focus) /\ ps[p].tabs = <<>>
  <2> DEFINE left == Restrict(ps, DOMAIN ps \ {p})
  <2>1. /\ DOMAIN left = DOMAIN ps \ {p}
        /\ \A q \in DOMAIN left : left[q] = ps[q]
    BY DEF Restrict
  <2>2. PICK q \in DOMAIN ps : f \in ToSet(ps[q].tabs)
    BY DEF TabsOf
  <2>3. q # p
    BY <1>1, <2>2 DEF ToSet
  <2>4. f \in TabsOf(left)
    BY <2>1, <2>2, <2>3 DEF TabsOf
  <2>5. buffers' = Restrict(buffers, Open \cap TabsOf(left))
    BY <1>1 DEF Removed, Sanitized
  <2> QED BY <2>4, <2>5 DEF Restrict
<1>2. CASE Sanitized(ps)
  BY <1>2 DEF Sanitized, Restrict
<1> QED BY <1>1, <1>2 DEF Settled

-----------------------------------------------------------------------------
(* The steps.                                                              *)

(* One pane is put in the place of another: activate_path, a new tab.      *)
LEMMA ChangedPane ==
  ASSUME NEW ps, PanesAreWhole(ps), NEW p \in DOMAIN ps, NEW pane, PaneIsWhole(pane)
  PROVE  /\ DOMAIN [ps EXCEPT ![p] = pane] = DOMAIN ps
         /\ [ps EXCEPT ![p] = pane][p] = pane
         /\ \A q \in DOMAIN ps \ {p} : [ps EXCEPT ![p] = pane][q] = ps[q]
         /\ PanesAreWhole([ps EXCEPT ![p] = pane])
  BY DEF PanesAreWhole

(* EditorPane::activate_path on a tab of the pane.                         *)
LEMMA ActivatedIsWhole ==
  ASSUME NEW pane, PaneIsWhole(pane), NEW f \in ToSet(pane.tabs)
  PROVE  /\ PaneIsWhole(Activated(pane, f))
         /\ Activated(pane, f).tabs = pane.tabs
<1>1. pane.tabs # <<>> /\ f \in Files
  BY DEF PaneIsWhole, Pane, ToSet
<1> QED BY <1>1 DEF PaneIsWhole, Pane, Activated

(* OpenEditors::default is whole.                                          *)
LEMMA InitIsWhole == EditorsInit => Inv
<1> SUFFICES ASSUME EditorsInit PROVE Inv
  OBVIOUS
<1>1. PaneIsWhole(EmptyPane)
  BY DEF PaneIsWhole, Pane, EmptyPane
<1> QED BY <1>1, EditsAssumption
     DEF EditorsInit, Inv, PanesAreWhole, BuffersAreShown, Live, Texts

(* A tab is focused; the tabs of every pane stay.                          *)
LEMMA FocusedTab ==
  ASSUME Inv, NEW p \in Live, NEW f, HasTab(p, f),
         panes' = [panes EXCEPT ![p] = Activated(@, f)],
         focused' = p, UNCHANGED <<buffers, disk, edits>>
  PROVE  Inv'
<1>1. PaneIsWhole(panes[p]) /\ f \in ToSet(panes[p].tabs)
  BY DEF Inv, PanesAreWhole, HasTab, Live
<1>2. /\ DOMAIN panes' = Live /\ PanesAreWhole(panes')
      /\ \A q \in Live : panes'[q].tabs = panes[q].tabs
  <2> DEFINE pane == Activated(panes[p], f)
  <2>1. PaneIsWhole(pane) /\ pane.tabs = panes[p].tabs
    BY <1>1, ActivatedIsWhole
  <2>2. panes' = [panes EXCEPT ![p] = pane]
    OBVIOUS
  <2> HIDE DEF pane
  <2>3. PanesAreWhole(panes) /\ p \in DOMAIN panes
    BY DEF Inv, Live
  <2>4. /\ DOMAIN panes' = Live /\ panes'[p] = pane
        /\ \A q \in Live \ {p} : panes'[q] = panes[q]
    BY <2>2, <2>3 DEF Live
  <2>5. PanesAreWhole(panes')
    BY <2>1, <2>3, <2>4 DEF PanesAreWhole, Live
  <2> QED BY <2>1, <2>4, <2>5
<1>3. TabsOf(panes') = TabsOf(panes)
  BY <1>2 DEF TabsOf, Live
<1> QED BY <1>2, <1>3 DEF Inv, BuffersAreShown, Live

(* The opened file has a tab before it has a buffer to keep.               *)
LEMMA OpenFileStep ==
  ASSUME Inv, NEW f \in Files, OpenFile(f)
  PROVE  Inv'
<1>1. PaneIsWhole(panes[focused])
  BY DEF Inv, PanesAreWhole, Live
<1>2. /\ PaneIsWhole(WithTab(panes[focused], f))
      /\ ToSet(WithTab(panes[focused], f).tabs) = ToSet(panes[focused].tabs) \cup {f}
  BY <1>1, WithTabIsWhole DEF PaneIsWhole
<1>3. panes' = [panes EXCEPT ![focused] = WithTab(panes[focused], f)]
  BY DEF OpenFile
<1>4. /\ DOMAIN panes' = Live /\ PanesAreWhole(panes')
      /\ panes'[focused] = WithTab(panes[focused], f)
      /\ \A q \in Live \ {focused} : panes'[q] = panes[q]
  BY <1>2, <1>3, ChangedPane DEF Inv, Live
<1>5. TabsOf(panes) \cup {f} \subseteq TabsOf(panes')
  BY <1>2, <1>4 DEF TabsOf, Inv, Live
<1>6. Clean(disk[f]) \in Buffer
  BY DEF OpenFile, Inv, Clean, Buffer
<1>7. /\ DOMAIN buffers' = Open \cup {f}
      /\ buffers'[f] = Clean(disk[f])
      /\ \A g \in Open : buffers'[g] = buffers[g]
  BY DEF OpenFile
<1>8. BuffersAreShown(buffers', panes')
  BY <1>5, <1>6, <1>7 DEF Inv, BuffersAreShown, Open
<1> QED BY <1>4, <1>8 DEF Inv, OpenFile, Live

(* The new pane shows the active tab, or nothing.                          *)
LEMMA SplitStep ==
  ASSUME Inv, NEW new \in PaneIds, Split(new)
  PROVE  Inv'
<1> DEFINE shown == IF ActiveFile = None THEN EmptyPane ELSE WithTab(EmptyPane, ActiveFile)
<1>1. PaneIsWhole(shown)
  <2>1. PaneIsWhole(EmptyPane)
    BY DEF PaneIsWhole, Pane, EmptyPane
  <2>2. CASE ActiveFile # None
    <3>1. ActiveFile \in Files
      BY <2>2 DEF ActiveFile, Session, Inv, BuffersAreShown, Open
    <3> QED BY <2>1, <2>2, <3>1, WithTabIsWhole DEF PaneIsWhole
  <2> QED BY <2>1, <2>2
<1> HIDE DEF shown
<1>2. /\ DOMAIN panes' = Live \cup {new}
      /\ panes'[new] = shown
      /\ \A p \in Live : panes'[p] = panes[p]
  BY DEF Split, shown
<1>3. PanesAreWhole(panes')
  BY <1>1, <1>2 DEF Inv, PanesAreWhole, Live
<1>4. TabsOf(panes) \subseteq TabsOf(panes')
  BY <1>2 DEF TabsOf, Live
<1> QED BY <1>2, <1>3, <1>4 DEF Inv, Split, BuffersAreShown, Live

(* The tab leaves one pane and enters another, and then panes are settled. *)
LEMMA MoveTabStep ==
  ASSUME Inv, NEW p \in Live, NEW q \in Live, NEW f \in Files, MoveTab(p, f, q)
  PROVE  Inv'
<1> DEFINE shorter == WithoutTab(panes[p], f)
           longer == WithTab(panes[q], f)
           moved == [panes EXCEPT ![p] = shorter, ![q] = longer]
<1>1. PaneIsWhole(panes[p]) /\ PaneIsWhole(panes[q]) /\ f \in ToSet(panes[p].tabs)
  BY DEF Inv, PanesAreWhole, Live, MoveTab, HasTab
<1>2. PaneIsWhole(shorter) /\ PaneIsWhole(longer)
  BY <1>1, WithoutTabIsWhole, WithTabIsWhole DEF PaneIsWhole
<1>3. Settled(moved, p, q) /\ p # q /\ UNCHANGED <<disk, edits>>
  BY DEF MoveTab
<1> HIDE DEF shorter, longer
<1>4. DOMAIN moved = Live /\ PanesAreWhole(moved)
  BY <1>2 DEF Inv, PanesAreWhole, Live
<1> HIDE DEF moved
<1>5. PanesAreWhole(panes') /\ focused' \in Live' /\ BuffersAreShown(buffers, panes)'
  BY <1>3, <1>4, SettledIsWhole DEF Inv, BuffersAreShown, Open
<1> QED BY <1>3, <1>5 DEF Inv

(* A tab is closed: close_path_in_pane, also when its file is deleted.     *)
LEMMA ClosedTab ==
  ASSUME Inv, NEW p \in Live, NEW f, HasTab(p, f), NEW focus \in Live,
         Settled([panes EXCEPT ![p] = WithoutTab(@, f)], p, focus)
  PROVE  PanesAreWhole(panes') /\ focused' \in Live' /\ BuffersAreShown(buffers, panes)'
<1> DEFINE shorter == WithoutTab(panes[p], f)
           closed == [panes EXCEPT ![p] = shorter]
<1>1. PaneIsWhole(shorter)
  BY WithoutTabIsWhole DEF Inv, PanesAreWhole, Live, HasTab
<1>2. Settled(closed, p, focus)
  OBVIOUS
<1> HIDE DEF shorter
<1>3. DOMAIN closed = Live /\ PanesAreWhole(closed)
  BY <1>1, ChangedPane DEF Inv, Live
<1> HIDE DEF closed
<1> QED BY <1>2, <1>3, SettledIsWhole DEF Inv, BuffersAreShown, Open

(* What happens to the text of a buffer leaves panes and tabs alone.       *)
LEMMA TextsChange ==
  ASSUME Inv, UNCHANGED panes, focused' \in Live, DOMAIN buffers' = Open,
         \A f \in Open : buffers'[f] \in Buffer,
         disk' \in [Files -> {Absent} \cup Texts], edits' \in 0..MaxEdits
  PROVE  Inv'
  BY DEF Inv, BuffersAreShown, Live, Open

(* set_content makes buffers of buffers.                                   *)
LEMMA ContentIsBuffer ==
  ASSUME NEW bs, \A f \in DOMAIN bs : bs[f] \in Buffer, NEW f, NEW text \in Texts
  PROVE  /\ DOMAIN WithContent(bs, f, text) = DOMAIN bs
         /\ \A g \in DOMAIN bs : WithContent(bs, f, text)[g] \in Buffer
  BY DEF WithContent, Buffer

(* An edit has a number within the bound.                                  *)
LEMMA NextEdit ==
  ASSUME Inv, edits < MaxEdits
  PROVE  /\ edits + 1 \in 1..MaxEdits /\ edits + 1 \in 0..MaxEdits
         /\ \A text \in Texts : text \cup {edits + 1} \in Texts
  BY EditsAssumption DEF Inv, Texts

(* An edit in the text field of a pane without the focus.                  *)
LEMMA TypeBesideStep ==
  ASSUME Inv, NEW p \in Live, TypeBeside(p)
  PROVE  Inv'
<1>1. Session(p) \in Open /\ buffers[Session(p)].text \in Texts
  BY DEF TypeBeside, Session, Inv, BuffersAreShown, Open, Buffer
<1>2. buffers[Session(p)].text \cup {edits + 1} \in Texts /\ edits' \in 0..MaxEdits
  BY <1>1, NextEdit DEF TypeBeside
<1>3. DOMAIN buffers' = Open /\ \A f \in Open : buffers'[f] \in Buffer
  BY <1>2, ContentIsBuffer DEF TypeBeside, Inv, BuffersAreShown, Open
<1> QED BY <1>2, <1>3, TextsChange DEF TypeBeside, Inv

(* A change of Monaco's, kept by whichever pane has the focus.             *)
LEMMA TypeHereStep ==
  ASSUME Inv, NEW f \in Files, TypeHere(f)
  PROVE  Inv'
<1>1. buffers[f].text \in Texts
  BY DEF TypeHere, Inv, BuffersAreShown, Open, Buffer
<1>2. buffers[f].text \cup {edits + 1} \in Texts /\ edits' \in 0..MaxEdits
  BY <1>1, NextEdit DEF TypeHere
<1>3. DOMAIN buffers' = Open /\ \A g \in Open : buffers'[g] \in Buffer
  BY <1>2, ContentIsBuffer DEF TypeHere, Inv, BuffersAreShown, Open
<1> QED BY <1>2, <1>3, TextsChange DEF TypeHere, Inv

(* A replacement changes buffers, and files that have none.                *)
LEMMA ReplaceStep ==
  ASSUME Inv, NEW hits \in SUBSET Files, ReplaceInFiles(hits)
  PROVE  Inv'
<1>1. \A text \in Texts : text \cup {edits + 1} \in Texts
  BY NextEdit DEF ReplaceInFiles
<1>2. edits' \in 0..MaxEdits
  BY NextEdit DEF ReplaceInFiles
<1>3. DOMAIN buffers' = Open /\ \A f \in Open : buffers'[f] \in Buffer
  BY <1>1 DEF ReplaceInFiles, Inv, BuffersAreShown, Open, Buffer
<1>4. ASSUME NEW f \in hits \ Open PROVE disk[f] \cup {edits + 1} \in Texts
  BY <1>1, <1>4 DEF ReplaceInFiles, Inv
<1>5. disk' \in [Files -> {Absent} \cup Texts]
  BY <1>4 DEF ReplaceInFiles, Inv
<1> QED BY <1>2, <1>3, <1>5, TextsChange DEF ReplaceInFiles, Inv

(* The active tab is written and marked clean.                             *)
LEMMA SaveStep ==
  ASSUME Inv, SaveActive
  PROVE  Inv'
<1>1. ActiveFile \in Open /\ buffers[ActiveFile].text \in Texts
  BY DEF SaveActive, ActiveFile, Session, Inv, BuffersAreShown, Open, Buffer
<1> DEFINE a == ActiveFile
<1>2. /\ disk' = [disk EXCEPT ![a] = buffers[a].text]
      /\ buffers' = [buffers EXCEPT ![a].dirty = FALSE]
  BY DEF SaveActive
<1>3. a \in Open /\ a \in Files /\ buffers[a].text \in Texts
  BY <1>1 DEF Inv, BuffersAreShown, Open
<1> HIDE DEF a
<1>4. DOMAIN buffers' = Open /\ \A f \in Open : buffers'[f] \in Buffer
  BY <1>2, <1>3 DEF Inv, BuffersAreShown, Open, Buffer
<1>5. disk' \in [Files -> {Absent} \cup Texts]
  BY <1>2, <1>3 DEF Inv
<1> QED BY <1>4, <1>5, TextsChange DEF SaveActive, Inv

(* A tool writes a file, open or not.                                      *)
LEMMA ToolWritesStep ==
  ASSUME Inv, NEW f \in Files, ToolWrites(f)
  PROVE  Inv'
<1>1. (IF disk[f] = Absent THEN {} ELSE disk[f]) \in Texts
  BY DEF Inv, Texts
<1>2. (IF disk[f] = Absent THEN {} ELSE disk[f]) \cup {edits + 1} \in Texts /\ edits' \in 0..MaxEdits
  BY <1>1, NextEdit DEF ToolWrites
<1>3. disk' \in [Files -> {Absent} \cup Texts]
  BY <1>2 DEF ToolWrites, Inv
<1> QED BY <1>2, <1>3, TextsChange DEF ToolWrites, Inv, BuffersAreShown, Open

(* Renaming carries every tab over, so that the buffers keep theirs.       *)
LEMMA RenameStep ==
  ASSUME Inv, NEW f \in Files, NEW g \in Files, Rename(f, g)
  PROVE  Inv'
<1> DEFINE Moved(h) == IF h = f THEN g ELSE h
           tabs(p) == [i \in DOMAIN panes[p].tabs |-> Moved(panes[p].tabs[i])]
<1>1. /\ DOMAIN panes' = Live
      /\ \A p \in Live : panes'[p] = [tabs |-> tabs(p), active |-> Moved(panes[p].active)]
  BY DEF Rename
<1>2. ASSUME NEW p \in Live
      PROVE  /\ PaneIsWhole(panes'[p])
             /\ \A h \in ToSet(panes[p].tabs) : Moved(h) \in ToSet(panes'[p].tabs)
  <2>1. /\ panes[p].tabs \in Seq(Files) /\ panes[p].active \in Files \cup {None}
        /\ IF panes[p].tabs = <<>> THEN panes[p].active = None
                                   ELSE panes[p].active \in ToSet(panes[p].tabs)
    BY DEF Inv, PanesAreWhole, PaneIsWhole, Pane, Live
  <2>2. tabs(p) \in Seq(Files) /\ Len(tabs(p)) = Len(panes[p].tabs)
    BY <2>1
  <2>3. ASSUME NEW h \in ToSet(panes[p].tabs) PROVE Moved(h) \in ToSet(tabs(p))
    BY <2>1, <2>3 DEF ToSet
  <2>4. IF tabs(p) = <<>> THEN Moved(panes[p].active) = None
                          ELSE Moved(panes[p].active) \in ToSet(tabs(p))
    <3>1. panes[p].tabs = <<>> <=> tabs(p) = <<>>
      BY <2>1, <2>2
    <3>2. CASE panes[p].tabs = <<>>
      BY <2>1, <3>1, <3>2, FilesAssumption
    <3>3. CASE panes[p].tabs # <<>>
      BY <2>1, <2>3, <3>1, <3>3
    <3> QED BY <3>2, <3>3
  <2>5. Moved(panes[p].active) \in Files \cup {None}
    BY <2>1
  <2> HIDE DEF tabs, Moved
  <2> QED BY <1>1, <2>2, <2>3, <2>4, <2>5 DEF PaneIsWhole, Pane
<1>3. PanesAreWhole(panes')
  BY <1>1, <1>2 DEF PanesAreWhole, Inv, Live
<1>4. \A h \in TabsOf(panes) : Moved(h) \in TabsOf(panes')
  BY <1>1, <1>2 DEF TabsOf, Live
<1>5. BuffersAreShown(buffers', panes')
  <2>1. CASE f \in Open
    <3>1. /\ DOMAIN buffers' = (Open \ {f}) \cup {g}
          /\ buffers'[g] = buffers[f]
          /\ \A h \in DOMAIN buffers' \ {g} : buffers'[h] = buffers[h]
      BY <2>1 DEF Rename
    <3>2. \A h \in DOMAIN buffers' : h \in Files /\ buffers'[h] \in Buffer
      BY <2>1, <3>1 DEF Inv, BuffersAreShown, Open
    <3>3. \A h \in DOMAIN buffers' : h \in TabsOf(panes')
      BY <1>4, <2>1, <3>1 DEF Inv, BuffersAreShown, Open
    <3> QED BY <3>2, <3>3 DEF BuffersAreShown
  <2>2. CASE f \notin Open
    BY <1>4, <2>2 DEF Rename, Inv, BuffersAreShown, Open
  <2> QED BY <2>1, <2>2
<1>6. disk' \in [Files -> {Absent} \cup Texts]
  BY DEF Rename, Inv
<1> QED BY <1>1, <1>3, <1>5, <1>6 DEF Rename, Inv, Live

(* The Explorer's delete, with or without a tab in the focused pane.       *)
LEMMA DeleteStep ==
  ASSUME Inv, NEW f \in Files, Delete(f)
  PROVE  Inv'
<1>1. disk' \in [Files -> {Absent} \cup Texts] /\ UNCHANGED edits
  BY DEF Delete, Inv
<1>2. PanesAreWhole(panes') /\ focused' \in Live' /\ BuffersAreShown(buffers, panes)'
  <2>1. CASE HasTab(focused, f)
    BY <2>1, ClosedTab DEF Delete, Inv
  <2>2. CASE ~HasTab(focused, f)
    BY <2>2 DEF Delete, Inv, Live
  <2> QED BY <2>1, <2>2
<1> QED BY <1>1, <1>2 DEF Inv

(* What is read again has kept its tab.                                    *)
LEMMA ReopenStep ==
  ASSUME Inv, Reopen
  PROVE  Inv'
<1>1. /\ DOMAIN buffers' = {g \in TabsOf(panes) : disk[g] # Absent}
      /\ \A f \in DOMAIN buffers' : buffers'[f] = Clean(disk[f])
  BY DEF Reopen
<1>2. TabsOf(panes) \subseteq Files
  BY TabsAreFiles DEF Inv
<1>3. \A f \in DOMAIN buffers' : buffers'[f] \in Buffer
  <2> SUFFICES ASSUME NEW f \in DOMAIN buffers' PROVE Clean(disk[f]) \in Buffer
    BY <1>1
  <2>1. disk[f] \in Texts
    BY <1>1, <1>2 DEF Inv
  <2> QED BY <2>1 DEF Clean, Buffer
<1> QED BY <1>1, <1>2, <1>3 DEF Reopen, Inv, BuffersAreShown, Live

(* Every event of the shell preserves the invariant.                       *)
LEMMA StepIsWhole == Inv /\ [EditorsNext]_editorVars => Inv'
<1> SUFFICES ASSUME Inv, [EditorsNext]_editorVars PROVE Inv'
  OBVIOUS
<1>1. ASSUME NEW f \in Files, Refocus(f) PROVE Inv'
  <2>1. PICK p \in Live : /\ HasTab(p, f) /\ focused' = p
                         /\ panes' = [panes EXCEPT ![p] = Activated(@, f)]
    BY <1>1 DEF Refocus
  <2> QED BY <1>1, <2>1, FocusedTab DEF Refocus
<1>2. ASSUME NEW f \in Files, OpenFile(f) PROVE Inv'
  BY <1>2, OpenFileStep
<1>3. ASSUME NEW p \in Live, FocusPane(p) PROVE Inv'
  BY <1>3, TextsChange DEF FocusPane, Inv, BuffersAreShown, Open
<1>4. ASSUME NEW p \in Live, ClosePane(p) PROVE Inv'
  BY <1>4, RemovedIsWhole DEF ClosePane, Inv, BuffersAreShown, Open, Live
<1>5. ASSUME NEW p \in Live, TypeBeside(p) PROVE Inv'
  BY <1>5, TypeBesideStep
<1>6. ASSUME NEW p \in Live, NEW f \in Files, Activate(p, f) PROVE Inv'
  BY <1>6, FocusedTab DEF Activate
<1>7. ASSUME NEW p \in Live, NEW f \in Files, CloseTab(p, f) PROVE Inv'
  BY <1>7, ClosedTab DEF CloseTab, Inv
<1>8. ASSUME NEW new \in PaneIds, Split(new) PROVE Inv'
  BY <1>8, SplitStep
<1>9. ASSUME NEW p \in Live, NEW q \in Live, NEW f \in Files, MoveTab(p, f, q) PROVE Inv'
  BY <1>9, MoveTabStep
<1>10. ASSUME NEW hits \in SUBSET Files \ {{}}, ReplaceInFiles(hits) PROVE Inv'
  BY <1>10, ReplaceStep
<1>11. ASSUME NEW f \in Files, TypeHere(f) PROVE Inv'
  BY <1>11, TypeHereStep
<1>12. CASE SaveActive
  BY <1>12, SaveStep
<1>13. ASSUME NEW f \in Files, ToolWrites(f) PROVE Inv'
  BY <1>13, ToolWritesStep
<1>14. ASSUME NEW f \in Files, Delete(f) PROVE Inv'
  BY <1>14, DeleteStep
<1>15. ASSUME NEW f \in Files, NEW g \in Files, Rename(f, g) PROVE Inv'
  BY <1>15, RenameStep
<1>16. CASE Reopen
  BY <1>16, ReopenStep
<1>17. CASE UNCHANGED editorVars
  BY <1>17 DEF editorVars, Inv, Live, Open, BuffersAreShown
<1> QED BY <1>1, <1>2, <1>3, <1>4, <1>5, <1>6, <1>7, <1>8, <1>9, <1>10, <1>11, <1>12, <1>13,
           <1>14, <1>15, <1>16, <1>17 DEF EditorsNext

(* Whatever the shell does in whatever order, panes, focus, tabs and        *)
(* buffers fit together (editor.rs: close_pane, move_tab, sanitize).       *)
THEOREM Invariance == EditorsSpec => []Inv
<1> QED BY InitIsWhole, StepIsWhole, PTL DEF EditorsSpec

(* The invariant of the run editors, for any number of files and panes.    *)
THEOREM TabsStayWhole == EditorsSpec => []TabsAreWhole
<1> QED BY InvIsWhole, Invariance, PTL

-----------------------------------------------------------------------------
(* Where the text of a buffer comes from, and where it goes.               *)

Kept(f) == \E g \in Open : buffers[g] = buffers'[f]

Explained(f) == buffers'[f].dirty \/ buffers'[f].text = disk'[f] \/ Kept(f)

(* A buffer that was there explains itself.                                *)
LEMMA SameBuffers ==
  ASSUME \A f \in DOMAIN buffers' : f \in Open /\ buffers'[f] = buffers[f]
  PROVE  \A f \in DOMAIN buffers' : Explained(f)
  BY DEF Explained, Kept

(* sanitize only drops buffers.                                            *)
LEMMA SettledAddsNothing ==
  ASSUME NEW ps, NEW p, NEW focus, Settled(ps, p, focus) \/ Removed(ps, p, focus)
  PROVE  \A f \in DOMAIN buffers' : f \in Open /\ buffers'[f] = buffers[f]
  BY DEF Settled, Removed, Sanitized, Restrict

(* set_content marks what it changes.                                      *)
LEMMA ContentIsExplained ==
  ASSUME NEW f, NEW text, buffers' = WithContent(buffers, f, text)
  PROVE  \A g \in DOMAIN buffers' : Explained(g)
  BY DEF WithContent, Explained, Kept, Open

(* CleanIsFromDisk: every step that brings a clean buffer reads or writes  *)
(* its file, or carries a buffer over (open, save, rename, reopen).        *)
LEMMA BuffersAreExplained ==
  Inv /\ [EditorsNext]_editorVars => \A f \in DOMAIN buffers' : Explained(f)
<1> SUFFICES ASSUME Inv, [EditorsNext]_editorVars
             PROVE  \A f \in DOMAIN buffers' : Explained(f)
  OBVIOUS
<1>1. CASE UNCHANGED buffers
  BY <1>1, SameBuffers DEF Open
<1>2. ASSUME NEW f \in Files, OpenFile(f) PROVE \A g \in DOMAIN buffers' : Explained(g)
  <2>1. /\ DOMAIN buffers' = Open \cup {f} /\ buffers'[f] = Clean(disk[f]) /\ disk' = disk
        /\ \A g \in Open : buffers'[g] = buffers[g]
    BY <1>2 DEF OpenFile
  <2> QED BY <2>1 DEF Explained, Kept, Clean
<1>3. ASSUME NEW p \in Live, ClosePane(p) PROVE \A g \in DOMAIN buffers' : Explained(g)
  BY <1>3, SettledAddsNothing, SameBuffers DEF ClosePane
<1>4. ASSUME NEW p \in Live, NEW f \in Files, CloseTab(p, f)
      PROVE  \A g \in DOMAIN buffers' : Explained(g)
  BY <1>4, SettledAddsNothing, SameBuffers DEF CloseTab
<1>5. ASSUME NEW p \in Live, NEW q \in Live, NEW f \in Files, MoveTab(p, f, q)
      PROVE  \A g \in DOMAIN buffers' : Explained(g)
  BY <1>5, SettledAddsNothing, SameBuffers DEF MoveTab
<1>6. ASSUME NEW p \in Live, TypeBeside(p) PROVE \A g \in DOMAIN buffers' : Explained(g)
  BY <1>6, ContentIsExplained DEF TypeBeside
<1>7. ASSUME NEW f \in Files, TypeHere(f) PROVE \A g \in DOMAIN buffers' : Explained(g)
  BY <1>7, ContentIsExplained DEF TypeHere
<1>8. ASSUME NEW hits \in SUBSET Files \ {{}}, ReplaceInFiles(hits)
      PROVE  \A g \in DOMAIN buffers' : Explained(g)
  BY <1>8 DEF ReplaceInFiles, Explained, Kept
<1>9. CASE SaveActive
  <2> DEFINE a == ActiveFile
  <2>1. a \in Open /\ a \in Files /\ buffers[a] \in Buffer
    BY <1>9 DEF SaveActive, ActiveFile, Session, Inv, BuffersAreShown, Open
  <2>2. /\ disk' = [disk EXCEPT ![a] = buffers[a].text]
        /\ buffers' = [buffers EXCEPT ![a].dirty = FALSE]
    BY <1>9 DEF SaveActive
  <2> HIDE DEF a
  <2>3. disk'[a] = buffers[a].text /\ buffers'[a].text = buffers[a].text
    BY <2>1, <2>2 DEF Inv, Open, Buffer
  <2>4. \A g \in DOMAIN buffers' \ {a} : g \in Open /\ buffers'[g] = buffers[g]
    BY <2>2 DEF Open
  <2> QED BY <2>3, <2>4 DEF Explained, Kept
<1>10. ASSUME NEW f \in Files, Delete(f) PROVE \A g \in DOMAIN buffers' : Explained(g)
  BY <1>10, <1>1, SettledAddsNothing, SameBuffers DEF Delete
<1>11. ASSUME NEW f \in Files, NEW g \in Files, Rename(f, g)
       PROVE  \A h \in DOMAIN buffers' : Explained(h)
  <2>1. CASE f \in Open
    <3>1. /\ DOMAIN buffers' = (Open \ {f}) \cup {g} /\ buffers'[g] = buffers[f]
          /\ \A h \in DOMAIN buffers' \ {g} : h \in Open /\ buffers'[h] = buffers[h]
      BY <1>11, <2>1 DEF Rename
    <3> QED BY <2>1, <3>1 DEF Explained, Kept
  <2>2. CASE f \notin Open
    BY <1>1, <1>11, <2>2 DEF Rename
  <2> QED BY <2>1, <2>2
<1>12. CASE Reopen
  BY <1>12 DEF Reopen, Explained, Clean
<1>13. CASE UNCHANGED editorVars
  BY <1>1, <1>13 DEF editorVars
<1> QED BY <1>1, <1>2, <1>3, <1>4, <1>5, <1>6, <1>7, <1>8, <1>9, <1>10, <1>11, <1>12, <1>13
     DEF EditorsNext, Refocus, FocusPane, Activate, Split, ToolWrites

(* A clean tab holds what its file held when it was read or saved: opening, *)
(* save_active_coding_file, rename and reopening bring nothing else.       *)
THEOREM CleanStaysFromDisk == EditorsSpec => CleanIsFromDisk
<1>1. Inv /\ [EditorsNext]_editorVars =>
        [\A f \in DOMAIN buffers' :
           buffers'[f].dirty \/ buffers'[f].text = disk'[f]
                             \/ \E g \in Open : buffers[g] = buffers'[f]]_editorVars
  BY BuffersAreExplained DEF Explained, Kept
<1> QED BY <1>1, Invariance, PTL DEF EditorsSpec, CleanIsFromDisk

-----------------------------------------------------------------------------
(* UnsavedIsKept: what a step may take from a dirty buffer.                *)

Survives(f) == f \in DOMAIN buffers' /\ buffers[f].text \subseteq buffers'[f].text

(* A tab that is closed is the only one that loses its place.              *)
LEMMA OthersSurvive ==
  ASSUME Inv, NEW p \in Live, NEW f, HasTab(p, f), NEW focus \in Live,
         Settled([panes EXCEPT ![p] = WithoutTab(@, f)], p, focus),
         NEW g \in Open, g # f
  PROVE  Survives(g)
<1> DEFINE shorter == WithoutTab(panes[p], f)
           closed == [panes EXCEPT ![p] = shorter]
<1>1. ToSet(panes[p].tabs) \ {f} \subseteq ToSet(shorter.tabs)
  BY WithoutTabIsWhole DEF Inv, PanesAreWhole, Live, HasTab
<1>2. Settled(closed, p, focus)
  OBVIOUS
<1> HIDE DEF shorter
<1>3. /\ DOMAIN closed = Live /\ closed[p] = shorter
      /\ \A q \in Live \ {p} : closed[q] = panes[q]
  BY DEF Live
<1> HIDE DEF closed
<1>4. PICK q \in Live : g \in ToSet(panes[q].tabs)
  BY DEF Inv, BuffersAreShown, TabsOf, Open, Live
<1>5. g \in ToSet(closed[q].tabs)
  BY <1>1, <1>3, <1>4
<1>6. g \in TabsOf(closed)
  BY <1>3, <1>5 DEF TabsOf
<1> QED BY <1>2, <1>3, <1>6, SettledKeepsShown DEF Survives

(* move_tab drops no buffer, neither the tab's own nor another.            *)
LEMMA MovedSurvive ==
  ASSUME Inv, NEW p \in Live, NEW q \in Live, NEW f \in Files, MoveTab(p, f, q),
         NEW g \in Open
  PROVE  Survives(g)
<1> DEFINE shorter == WithoutTab(panes[p], f)
           longer == WithTab(panes[q], f)
           moved == [panes EXCEPT ![p] = shorter, ![q] = longer]
<1>1. PaneIsWhole(panes[p]) /\ PaneIsWhole(panes[q]) /\ f \in ToSet(panes[p].tabs)
  BY DEF Inv, PanesAreWhole, Live, MoveTab, HasTab
<1>2. /\ ToSet(panes[p].tabs) \ {f} \subseteq ToSet(shorter.tabs)
      /\ ToSet(longer.tabs) = ToSet(panes[q].tabs) \cup {f}
  BY <1>1, WithoutTabIsWhole, WithTabIsWhole DEF PaneIsWhole
<1>3. Settled(moved, p, q) /\ p # q
  BY DEF MoveTab
<1> HIDE DEF shorter, longer
<1>4. /\ DOMAIN moved = Live /\ moved[p] = shorter /\ moved[q] = longer
      /\ \A r \in Live \ {p, q} : moved[r] = panes[r]
  BY <1>3 DEF Live
<1> HIDE DEF moved
<1>5. PICK r \in Live : g \in ToSet(panes[r].tabs)
  BY DEF Inv, BuffersAreShown, TabsOf, Open, Live
<1>6. \E s \in Live : g \in ToSet(moved[s].tabs)
  <2>1. CASE g = f
    BY <1>2, <1>4, <2>1
  <2>2. CASE g # f
    BY <1>2, <1>4, <1>5, <2>2
  <2> QED BY <2>1, <2>2
<1>7. g \in TabsOf(moved)
  BY <1>4, <1>6 DEF TabsOf
<1> QED BY <1>3, <1>4, <1>7, SettledKeepsShown DEF Survives

(* An edit adds to a text.                                                 *)
LEMMA ContentGrows ==
  ASSUME Inv, NEW f \in Open, NEW e, buffers' = WithContent(buffers, f, buffers[f].text \cup {e}),
         NEW g \in Open
  PROVE  Survives(g)
  BY DEF WithContent, Survives, Open, Inv, BuffersAreShown, Buffer

(* One event of the shell: what was in a buffer stays, or the user closed, *)
(* deleted or renamed what shows it.                                       *)
LEMMA DirtySurvives ==
  ASSUME Inv, [EditorsNext]_editorVars, NEW f \in Open
  PROVE  Survives(f) \/ Discards(f)
<1>1. CASE UNCHANGED buffers
  BY <1>1 DEF Survives, Open
<1>2. ASSUME NEW g \in Files, OpenFile(g) PROVE Survives(f)
  BY <1>2 DEF OpenFile, Survives
<1>3. ASSUME NEW p \in Live, ClosePane(p) PROVE Discards(f)
  BY <1>3 DEF Discards
<1>4. ASSUME NEW p \in Live, NEW g \in Files, CloseTab(p, g) PROVE Survives(f) \/ Discards(f)
  <2>1. CASE g = f
    BY <1>4, <2>1 DEF Discards
  <2>2. CASE g # f
    BY <1>4, <2>2, OthersSurvive DEF CloseTab, Inv
  <2> QED BY <2>1, <2>2
<1>5. ASSUME NEW p \in Live, NEW q \in Live, NEW g \in Files, MoveTab(p, g, q) PROVE Survives(f)
  BY <1>5, MovedSurvive
<1>6. ASSUME NEW p \in Live, TypeBeside(p) PROVE Survives(f)
  <2>1. Session(p) \in Open
    BY <1>6 DEF TypeBeside, Session
  <2> QED BY <1>6, <2>1, ContentGrows DEF TypeBeside
<1>7. ASSUME NEW g \in Files, TypeHere(g) PROVE Survives(f)
  BY <1>7, ContentGrows DEF TypeHere
<1>8. ASSUME NEW hits \in SUBSET Files \ {{}}, ReplaceInFiles(hits) PROVE Survives(f)
  BY <1>8 DEF ReplaceInFiles, Survives
<1>9. CASE SaveActive
  BY <1>9 DEF SaveActive, Survives, Inv, BuffersAreShown, Open, Buffer
<1>10. ASSUME NEW g \in Files, Delete(g) PROVE Survives(f) \/ Discards(f)
  <2>1. CASE g = f
    BY <1>10, <2>1 DEF Discards
  <2>2. CASE g # f /\ HasTab(focused, g)
    BY <1>10, <2>2, OthersSurvive DEF Delete, Inv
  <2>3. CASE ~HasTab(focused, g)
    BY <1>1, <1>10, <2>3 DEF Delete
  <2> QED BY <2>1, <2>2, <2>3
<1>11. ASSUME NEW g \in Files, NEW h \in Files, Rename(g, h) PROVE Survives(f) \/ Discards(f)
  <2>1. CASE f \in {g, h}
    BY <1>11, <2>1 DEF Discards
  <2>2. CASE f \notin {g, h}
    BY <1>11, <2>2 DEF Rename, Survives, Open
  <2> QED BY <2>1, <2>2
<1>12. CASE Reopen
  BY <1>12 DEF Discards
<1>13. CASE UNCHANGED editorVars
  BY <1>1, <1>13 DEF editorVars
<1> QED BY <1>1, <1>2, <1>3, <1>4, <1>5, <1>6, <1>7, <1>8, <1>9, <1>10, <1>11, <1>12, <1>13
     DEF EditorsNext, Refocus, FocusPane, Activate, Split, ToolWrites

(* Unsaved edits only go where the user closes what shows them.            *)
THEOREM UnsavedStays == EditorsSpec => UnsavedIsKept
<1>1. Inv /\ [EditorsNext]_editorVars =>
        [\A f \in Open :
           buffers[f].dirty => \/ f \in DOMAIN buffers' /\ buffers[f].text \subseteq buffers'[f].text
                               \/ Discards(f)]_editorVars
  BY DirtySurvives DEF Survives
<1> QED BY <1>1, Invariance, PTL DEF EditorsSpec, UnsavedIsKept
===============================================================================
