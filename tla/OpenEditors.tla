---------------------------- MODULE OpenEditors ----------------------------
(***************************************************************************)
(* The editors of the Coding Workspace: the panes of the split view, the   *)
(* tabs of each pane, and one shared buffer per open file                   *)
(* (jaymi-capability-engine/src/editor.rs, called from boot.rs).  All of   *)
(* it runs on the window's thread, one event of the shell at a time.       *)
(*                                                                         *)
(* A text is the set of the edits it holds, each edit having a number of   *)
(* its own.  Left out: preview tabs (no event of the shell opens one), the *)
(* shape and the sizes of the split tree (which pane takes the focus of a  *)
(* closed one is left open), cursors, folds, the recently opened lists.    *)
(***************************************************************************)
EXTENDS Naturals, FiniteSets, Sequences, SequencesExt

CONSTANTS
  Files,      \* the paths of the project
  PaneIds,    \* the identities EditorPaneId::allocate hands out
  None,       \* no path
  Absent,     \* what the disk holds of a file that does not exist
  MaxEdits    \* bound: edits made in a behaviour

ASSUME FilesAssumption == None \notin Files /\ IsFiniteSet(Files)
ASSUME PanesAssumption == PaneIds # {} /\ IsFiniteSet(PaneIds)
ASSUME EditsAssumption == MaxEdits \in Nat /\ \A t \in SUBSET (1..MaxEdits) : t # Absent

VARIABLES
  panes,      \* OpenEditors::panes: the tabs and the active path of each pane
  focused,    \* OpenEditors::focused_pane
  buffers,    \* OpenEditors::buffers: the content and the dirty flag of each open file
  disk,       \* what each file holds on disk
  edits       \* the number of edits made so far

editorVars == <<panes, focused, buffers, disk, edits>>

Texts   == SUBSET (1..MaxEdits)
Pane    == [tabs : Seq(Files), active : Files \cup {None}]
Buffer  == [text : Texts, dirty : BOOLEAN]

EmptyPane == [tabs |-> <<>>, active |-> None]
Clean(text) == [text |-> text, dirty |-> FALSE]

(* OpenEditors::default: one empty pane. *)
EditorsInit ==
  \E p \in PaneIds :
    /\ panes = [q \in {p} |-> EmptyPane]
    /\ focused = p
    /\ buffers = [f \in {} |-> Clean({})]
    /\ disk = [f \in Files |-> {}]
    /\ edits = 0

Live       == DOMAIN panes
Open       == DOMAIN buffers
HasTab(p, f) == f \in ToSet(panes[p].tabs)
TabsOf(ps) == UNION {ToSet(ps[p].tabs) : p \in DOMAIN ps}

(* active_session: a tab whose buffer could not be read shows nothing. *)
Session(p)   == IF panes[p].active \in Open THEN panes[p].active ELSE None
ActiveFile   == Session(focused)

(* EditorPane::activate_path, and a tab appended at the end of the strip. *)
Activated(pane, f) == [pane EXCEPT !.active = f]
WithTab(pane, f) ==
  Activated(IF f \in ToSet(pane.tabs) THEN pane
            ELSE [pane EXCEPT !.tabs = Append(@, f)], f)

(* EditorPane::close_path: the active tab leaves its place to the tab that
   takes it, or to the one before. *)
WithoutTab(pane, f) ==
  LET i == CHOOSE j \in DOMAIN pane.tabs :
             pane.tabs[j] = f /\ \A k \in 1..(j - 1) : pane.tabs[k] # f
      left == RemoveAt(pane.tabs, i)
      next == IF i <= Len(left) THEN left[i] ELSE IF left # <<>> THEN left[i - 1] ELSE None
  IN  [tabs |-> left, active |-> IF pane.active = f THEN next ELSE pane.active]

(* sanitize: a buffer no pane refers to is dropped. *)
Sanitized(ps) == buffers' = Restrict(buffers, Open \cap TabsOf(ps))

(* close_pane: the pane goes; its focus passes to a pane that stays. *)
Removed(ps, p, focus) ==
  LET left == Restrict(ps, DOMAIN ps \ {p}) IN
  /\ panes' = left
  /\ \E q \in DOMAIN left : focused' = IF focus = p THEN q ELSE focus
  /\ Sanitized(left)

(* The end of close_path_in_pane and of move_tab: a pane left without tabs is
   closed unless it is the only one. *)
Settled(ps, p, focus) ==
  IF ps[p].tabs = <<>> /\ Cardinality(DOMAIN ps) > 1
  THEN Removed(ps, p, focus)
  ELSE panes' = ps /\ focused' = focus /\ Sanitized(ps)

---------------------------------------------------------------------------
(* Seeded fault: a file that is opened again is read again. *)
RefocusRereads(f) ==
  /\ f \in Open
  /\ disk[f] # Absent
  /\ \E p \in Live : HasTab(p, f) /\ panes' = [panes EXCEPT ![p] = Activated(@, f)] /\ focused' = p
  /\ buffers' = [buffers EXCEPT ![f] = Clean(disk[f])]
  /\ UNCHANGED <<disk, edits>>

(* open_coding_file of a path some pane shows: its tab is focused, in the
   focused pane if it is there. *)
Refocus(f) ==
  /\ f \in Open
  /\ \E p \in Live :
       /\ HasTab(p, f)
       /\ HasTab(focused, f) => p = focused
       /\ panes' = [panes EXCEPT ![p] = Activated(@, f)]
       /\ focused' = p
  /\ UNCHANGED <<buffers, disk, edits>>

(* open_coding_file of a path that is not open: the file is read and gets a
   buffer and a tab of the focused pane. *)
OpenFile(f) ==
  /\ f \notin Open
  /\ disk[f] # Absent
  /\ buffers' = [g \in Open \cup {f} |-> IF g = f THEN Clean(disk[f]) ELSE buffers[g]]
  /\ panes' = [panes EXCEPT ![focused] = WithTab(@, f)]
  /\ UNCHANGED <<focused, disk, edits>>

Activate(p, f) ==
  /\ HasTab(p, f) /\ f \in Open
  /\ panes' = [panes EXCEPT ![p] = Activated(@, f)]
  /\ focused' = p
  /\ UNCHANGED <<buffers, disk, edits>>

FocusPane(p) ==
  /\ p # focused
  /\ focused' = p
  /\ UNCHANGED <<panes, buffers, disk, edits>>

(* split: the new pane shows the active tab of the focused one. *)
Split(new) ==
  /\ new \notin Live
  /\ panes' = [p \in Live \cup {new} |->
                 IF p # new THEN panes[p]
                 ELSE IF ActiveFile = None THEN EmptyPane ELSE WithTab(EmptyPane, ActiveFile)]
  /\ focused' = new
  /\ UNCHANGED <<buffers, disk, edits>>

(* Seeded fault: the pane a tab is dragged from keeps it as its active path. *)
MoveTabOnly(p, f, q) ==
  /\ p # q
  /\ HasTab(p, f) /\ f \in Open
  /\ Settled([panes EXCEPT ![p].tabs = WithoutTab(panes[p], f).tabs, ![q] = WithTab(@, f)], p, q)
  /\ UNCHANGED <<disk, edits>>

MoveTab(p, f, q) ==
  /\ p # q
  /\ HasTab(p, f) /\ f \in Open
  /\ Settled([panes EXCEPT ![p] = WithoutTab(@, f), ![q] = WithTab(@, f)], p, q)
  /\ UNCHANGED <<disk, edits>>

(* close_path_in_pane; no event asks about unsaved edits first.  The strip
   shows no tab without a buffer; the command closes the active one. *)
CloseTab(p, f) ==
  /\ HasTab(p, f)
  /\ f \in Open \/ (p = focused /\ panes[p].active = f)
  /\ Settled([panes EXCEPT ![p] = WithoutTab(@, f)], p, focused)
  /\ UNCHANGED <<disk, edits>>

ClosePane(p) ==
  /\ Cardinality(Live) > 1
  /\ Removed(panes, p, focused)
  /\ UNCHANGED <<disk, edits>>

---------------------------------------------------------------------------
(* set_content: a buffer that changes is dirty; a path without a buffer is
   left alone. *)
WithContent(bs, f, text) ==
  IF f \in DOMAIN bs /\ bs[f].text # text
  THEN [bs EXCEPT ![f] = [text |-> text, dirty |-> TRUE]]
  ELSE bs

(* The text field that stands in for Monaco in a pane without the focus: the
   edit focuses the pane it comes from. *)
TypeBeside(p) ==
  /\ edits < MaxEdits
  /\ p # focused
  /\ Session(p) # None
  /\ buffers' = WithContent(buffers, Session(p), buffers[Session(p)].text \cup {edits + 1})
  /\ focused' = p
  /\ edits' = edits + 1
  /\ UNCHANGED <<panes, disk>>

(* A change that Monaco reports: it names its file, and whatever pane has the
   focus keeps it. *)
TypeHere(f) ==
  /\ edits < MaxEdits
  /\ f \in Open
  /\ buffers' = WithContent(buffers, f, buffers[f].text \cup {edits + 1})
  /\ edits' = edits + 1
  /\ UNCHANGED <<panes, focused, disk>>

(* replace_in_search_results: the open files among the hits are changed in
   their buffers, the others on disk.  Hits after a write that fails are
   left as they are, as if they had not been hits. *)
ReplaceInFiles(hits) ==
  /\ edits < MaxEdits
  /\ \A f \in hits : f \in Open \/ disk[f] # Absent
  /\ buffers' = [f \in Open |->
                   IF f \in hits THEN [text |-> buffers[f].text \cup {edits + 1}, dirty |-> TRUE]
                   ELSE buffers[f]]
  /\ disk' = [f \in Files |-> IF f \in hits \ Open THEN disk[f] \cup {edits + 1} ELSE disk[f]]
  /\ edits' = edits + 1
  /\ UNCHANGED <<panes, focused>>

(* Seeded fault: the tab is marked clean whether or not the write is done. *)
SaveMarksFirst ==
  /\ ActiveFile # None
  /\ disk' \in {disk, [disk EXCEPT ![ActiveFile] = buffers[ActiveFile].text]}
  /\ buffers' = [buffers EXCEPT ![ActiveFile].dirty = FALSE]
  /\ UNCHANGED <<panes, focused, edits>>

(* save_active_coding_file: the write is approved and done before the tab is
   marked clean, and the window's thread waits for it. *)
SaveActive ==
  /\ ActiveFile # None
  /\ disk' = [disk EXCEPT ![ActiveFile] = buffers[ActiveFile].text]
  /\ buffers' = [buffers EXCEPT ![ActiveFile].dirty = FALSE]
  /\ UNCHANGED <<panes, focused, edits>>

(* A tool of an approved plan writes a file; open buffers are not told. *)
ToolWrites(f) ==
  /\ edits < MaxEdits
  /\ disk' = [disk EXCEPT ![f] = (IF @ = Absent THEN {} ELSE @) \cup {edits + 1}]
  /\ edits' = edits + 1
  /\ UNCHANGED <<panes, focused, buffers>>

(* The Explorer's rename: refused where the target exists on disk; then
   remap_path carries buffer, tabs and active paths over. *)
Rename(f, g) ==
  LET Moved(h) == IF h = f THEN g ELSE h IN
  /\ disk[f] # Absent /\ disk[g] = Absent
  /\ disk' = [disk EXCEPT ![f] = Absent, ![g] = disk[f]]
  /\ buffers' = IF f \in Open
                THEN [h \in (Open \ {f}) \cup {g} |-> IF h = g THEN buffers[f] ELSE buffers[h]]
                ELSE buffers
  /\ panes' = [p \in Live |-> [tabs |-> [i \in DOMAIN panes[p].tabs |-> Moved(panes[p].tabs[i])],
                               active |-> Moved(panes[p].active)]]
  /\ UNCHANGED <<focused, edits>>

(* The Explorer's delete closes the tab of the focused pane only. *)
Delete(f) ==
  /\ disk[f] # Absent
  /\ disk' = [disk EXCEPT ![f] = Absent]
  /\ IF HasTab(focused, f)
     THEN Settled([panes EXCEPT ![focused] = WithoutTab(@, f)], focused, focused)
     ELSE UNCHANGED <<panes, focused, buffers>>
  /\ UNCHANGED edits

(* The workspace is closed and opened again: panes and tabs come back from
   the project's snapshot, the buffers are read from disk where the file is
   still there. *)
Reopen ==
  /\ buffers' = [f \in {g \in TabsOf(panes) : disk[g] # Absent} |-> Clean(disk[f])]
  /\ UNCHANGED <<panes, focused, disk, edits>>

EditorsNext ==
  \/ \E f \in Files : Refocus(f) \/ OpenFile(f)
  \/ \E p \in Live : FocusPane(p) \/ ClosePane(p) \/ TypeBeside(p)
  \/ \E p \in Live, f \in Files : Activate(p, f) \/ CloseTab(p, f)
  \/ \E new \in PaneIds : Split(new)
  \/ \E p, q \in Live, f \in Files : MoveTab(p, f, q)
  \/ \E hits \in SUBSET Files \ {{}} : ReplaceInFiles(hits)
  \/ \E f \in Files : TypeHere(f)
  \/ SaveActive
  \/ \E f \in Files : ToolWrites(f) \/ Delete(f)
  \/ \E f, g \in Files : Rename(f, g)
  \/ Reopen

EditorsSpec == EditorsInit /\ [][EditorsNext]_editorVars

---------------------------------------------------------------------------
(* The types of panes, buffers and files. *)
EditorsTypeOK ==
  /\ DOMAIN panes \in SUBSET PaneIds
  /\ \A p \in Live : panes[p] \in Pane
  /\ focused \in PaneIds
  /\ Open \in SUBSET Files
  /\ \A f \in Open : buffers[f] \in Buffer
  /\ disk \in [Files -> {Absent} \cup Texts]
  /\ edits \in 0..MaxEdits

(* The structure every event of the shell relies on: the focused pane
   exists, a pane's active path is one of its tabs and a pane with tabs has
   one, and a buffer is kept for no other reason than a tab.  It spans the
   panes, the focus and the buffers, which close_pane, move_tab and sanitize
   put in step one after the other. *)
TabsAreWhole ==
  /\ EditorsTypeOK
  /\ focused \in Live
  /\ \A p \in Live :
       IF panes[p].tabs = <<>> THEN panes[p].active = None ELSE HasTab(p, panes[p].active)
  /\ Open \subseteq TabsOf(panes)

(* A buffer shown without the unsaved mark holds what its file held when it
   was read or saved: whatever order of edits, saves, splits, renames and
   reopenings led there, no edit hides behind a clean tab. *)
CleanIsFromDisk ==
  [][\A f \in DOMAIN buffers' :
       buffers'[f].dirty \/ buffers'[f].text = disk'[f]
                         \/ \E g \in Open : buffers[g] = buffers'[f]]_editorVars

(* Edits that are not saved leave their buffer only when the user closes what
   shows them: by closing tab, pane or workspace, or by deleting or renaming
   the file.  No split, move, focus, opening, replacement or save loses any.
   A rename onto the path is excused as well: the tab of a deleted file may
   have stayed open in another pane, and remap_path overwrites its buffer. *)
Discards(f) ==
  \/ \E p \in Live : CloseTab(p, f) \/ ClosePane(p)
  \/ Delete(f) \/ Reopen
  \/ \E g \in Files : Rename(f, g) \/ Rename(g, f)

UnsavedIsKept ==
  [][\A f \in Open :
       buffers[f].dirty => \/ f \in DOMAIN buffers' /\ buffers[f].text \subseteq buffers'[f].text
                           \/ Discards(f)]_editorVars
=============================================================================
