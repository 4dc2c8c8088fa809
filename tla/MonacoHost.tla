----------------------------- MODULE MonacoHost -----------------------------
(***************************************************************************)
(* The Monaco editor over the focused pane (monaco_host.rs, sync_monaco in *)
(* ui/mod.rs, the page in assets/monaco/index.html).  The page is a view   *)
(* in another process with one text model of its own; the window's thread  *)
(* and the page talk through two queues: messages of the page, polled once *)
(* per frame, and scripts of the host, run by the page when it gets to     *)
(* them.  Neither waits for the other, so both may change the same file.   *)
(*                                                                         *)
(* Left out: cursors, selections, scrolling, folds, language server        *)
(* requests and markers, the theme, and the bounds of the view.            *)
(***************************************************************************)
EXTENDS OpenEditors

CONSTANT MaxQueue   \* bound: messages, or scripts, on their way

ASSUME QueueAssumption == MaxQueue \in Nat \ {0}

VARIABLES
  stage,      \* "none", "loading", "loaded" (ready is on its way), "ready"
  last,       \* MonacoHost::last_pushed
  page,       \* currentPath and the model's text
  toHost,     \* the messages of the page, in order
  toPage,     \* the scripts of the host, in order
  typed,      \* history: the file each edit was typed in, in the page, unless
              \* its message came after the file's last tab had been closed
  landed,     \* history: the edits typed in the page that reached a buffer
  crossed     \* history: page and host changed a file, neither having seen the other's change

hostVars == <<stage, last>>
wires    == <<page, toHost, toPage>>
history  == <<typed, landed, crossed>>
vars     == <<editorVars, hostVars, wires, history>>

NoDoc == [file |-> None, text |-> {}]
Doc   == [file |-> ActiveFile, text |-> buffers[ActiveFile].text]

Change(file, text) == [kind |-> "change", file |-> file, text |-> text]
Ready == [kind |-> "ready", file |-> None, text |-> {}]

Changes == {toHost[i] : i \in {j \in DOMAIN toHost : toHost[j].kind = "change"}}

Init ==
  /\ EditorsInit
  /\ stage = "none" /\ last = NoDoc
  /\ page = NoDoc /\ toHost = <<>> /\ toPage = <<>>
  /\ typed = [e \in 1..MaxEdits |-> None] /\ landed = {} /\ crossed = FALSE

---------------------------------------------------------------------------
(* The page runs its script and says ready. *)
PageLoads ==
  /\ stage = "loading"
  /\ stage' = "loaded"
  /\ toHost' = <<Ready>>
  /\ UNCHANGED <<editorVars, last, page, toPage, history>>

(* A key typed in the page changes its model, which posts the whole text. *)
Type ==
  /\ page.file # None
  /\ edits < MaxEdits
  /\ Len(toHost) < MaxQueue
  /\ page' = [page EXCEPT !.text = @ \cup {edits + 1}]
  /\ toHost' = Append(toHost, Change(page.file, page'.text))
  /\ edits' = edits + 1
  /\ typed' = [typed EXCEPT ![edits + 1] = page.file]
  /\ crossed' = (crossed \/ toPage # <<>>
                 \/ (/\ Changes = {}
                     /\ page.file \in Open
                     /\ buffers[page.file].text # page.text))
  /\ UNCHANGED <<panes, focused, buffers, disk, hostVars, toPage, landed>>

(* Seeded fault: a document for the file the page shows leaves its text. *)
RunScriptKeepsText ==
  /\ toPage # <<>>
  /\ page' = IF Head(toPage).file = page.file THEN page ELSE Head(toPage)
  /\ toPage' = Tail(toPage)
  /\ UNCHANGED <<editorVars, hostVars, toHost, history>>

(* __jaymiSetDocument: applyingExternal keeps setValue from posting a change. *)
RunScript ==
  /\ toPage # <<>>
  /\ page' = Head(toPage)
  /\ toPage' = Tail(toPage)
  /\ UNCHANGED <<editorVars, hostVars, toHost, history>>

---------------------------------------------------------------------------
(* poll and the events it makes. *)
ReceiveReady ==
  /\ toHost # <<>> /\ Head(toHost).kind = "ready"
  /\ stage' = "ready" /\ last' = NoDoc
  /\ toHost' = Tail(toHost)
  /\ UNCHANGED <<editorVars, page, toPage, history>>

(* A change is noted as the document last pushed, so that it is not pushed
   back, and becomes the content bs has for its file, if that has a buffer.
   Without one it is dropped, and its edits are no longer counted as typed. *)
Received(m, bs) ==
  /\ toHost # <<>> /\ m.kind = "change"
  /\ last' = IF last.file = m.file THEN [last EXCEPT !.text = m.text] ELSE last
  /\ buffers' = bs
  /\ IF m.file \in Open
     THEN landed' = landed \cup UNION {bs[f].text : f \in Open} /\ UNCHANGED typed
     ELSE /\ typed' = [e \in 1..MaxEdits |-> IF e \in m.text THEN None ELSE typed[e]]
          /\ UNCHANGED landed
  /\ toHost' = Tail(toHost)
  /\ UNCHANGED <<panes, focused, disk, edits, stage, page, toPage, crossed>>

(* Seeded fault: a change goes to the active tab. *)
ReceiveByFocus ==
  LET m == Head(toHost) IN Received(m, WithContent(buffers, ActiveFile, m.text))

(* Seeded fault: a change of a tab that is no longer active is ignored. *)
ReceiveIfActive ==
  LET m == Head(toHost) IN
  Received(m, IF m.file = ActiveFile THEN WithContent(buffers, m.file, m.text) ELSE buffers)

ReceiveChange ==
  LET m == Head(toHost) IN Received(m, WithContent(buffers, m.file, m.text))

(* The end of sync_monaco, in a frame whose keyboard no palette or terminal
   holds: the view is made if there is none, and the document of the active
   tab is pushed if it is not the one last pushed. *)
Mount ==
  /\ ActiveFile # None
  /\ stage = "none"
  /\ stage' = "loading"
  /\ UNCHANGED <<editorVars, last, wires, history>>

SyncDocument ==
  /\ ActiveFile # None
  /\ stage = "ready"
  /\ last # Doc
  /\ Len(toPage) < MaxQueue
  /\ toPage' = Append(toPage, Doc)
  /\ last' = Doc
  /\ crossed' = (crossed \/ Changes # {})
  /\ UNCHANGED <<editorVars, stage, page, toHost, typed, landed>>

---------------------------------------------------------------------------
(* The other events of the frame leave the page alone until the document is
   pushed. *)
HostStep(Step, changesTexts) ==
  /\ Step
  /\ crossed' = (crossed \/ (changesTexts /\ Changes # {}))
  /\ UNCHANGED <<hostVars, wires, typed, landed>>

TabsChanged ==
  HostStep(\/ \E f \in Files : Refocus(f) \/ OpenFile(f)
           \/ \E p \in Live : FocusPane(p)
           \/ \E p \in Live, f \in Files : Activate(p, f)
           \/ \E new \in PaneIds : Split(new)
           \/ \E p, q \in Live, f \in Files : MoveTab(p, f, q), FALSE)
TabsClosed ==
  HostStep(\E p \in Live : ClosePane(p) \/ \E f \in Files : CloseTab(p, f), TRUE)
TextsChanged ==
  HostStep(\/ \E p \in Live : TypeBeside(p)
           \/ \E hits \in SUBSET Files \ {{}} : ReplaceInFiles(hits), TRUE)
Saved == HostStep(SaveActive, FALSE)

(* While the workspace is closed there is no view: what the page had sent
   goes with it. *)
WorkspaceReopened ==
  /\ Reopen
  /\ stage' = "none" /\ last' = NoDoc
  /\ page' = NoDoc /\ toHost' = <<>> /\ toPage' = <<>>
  /\ typed' = [e \in 1..MaxEdits |-> None] /\ landed' = {} /\ crossed' = FALSE

Next ==
  \/ PageLoads \/ Type \/ RunScript
  \/ ReceiveReady \/ ReceiveChange \/ Mount \/ SyncDocument
  \/ TabsChanged \/ TabsClosed \/ TextsChanged \/ Saved \/ WorkspaceReopened

Spec == Init /\ [][Next]_vars

---------------------------------------------------------------------------
(* The types of the page and of the messages on their way. *)
TypeOK ==
  /\ EditorsTypeOK
  /\ stage \in {"none", "loading", "loaded", "ready"}
  /\ {last, page} \cup ToSet(toPage) \subseteq [file : Files \cup {None}, text : Texts]
  /\ Len(toPage) <= MaxQueue /\ Len(toHost) <= MaxQueue
  /\ \A m \in ToSet(toHost) :
       m \in [kind : {"change", "ready"}, file : Files \cup {None}, text : Texts]
  /\ typed \in [1..MaxEdits -> Files \cup {None}]
  /\ landed \subseteq 1..MaxEdits
  /\ crossed \in BOOLEAN

(* What is typed in one file never shows up in another: the page has one
   model for every tab, the host may have switched tabs twice since the key
   was pressed, and the message is applied by the path it carries. *)
TypedWhereShown ==
  /\ TypeOK
  /\ \A f \in Open : \A e \in buffers[f].text : typed[e] \in {None, f}

(* No key is lost on its way: it is in a message or has been in the buffer of
   its file, even if that file's tab or pane was left in the meantime.  What
   was typed goes with the last tab of its file, if the user closes that. *)
TypingArrives ==
  \A e \in 1..MaxEdits :
    typed[e] # None => e \in landed \/ \E m \in Changes : e \in m.text

(* The page and the host are at rest: nothing is on its way, and the host
   takes the page to show the active tab as it is. *)
AtRest ==
  /\ stage = "ready" /\ ActiveFile # None
  /\ toHost = <<>> /\ toPage = <<>>
  /\ last = Doc

ViewIsBuffer == AtRest => page = Doc

(* Whenever page and host are at rest and have not changed a file at the same
   time, the page shows the text of the active tab: echoes are suppressed, and
   what is not an echo is pushed. *)
ViewAgreesUnlessCrossed == ~crossed => ViewIsBuffer

(* The page posts whole texts, which replace whatever the buffer holds.  Edits
   made elsewhere, in another pane or by a replacement, survive that as well:
   unsaved edits only go where the user closes what shows them, unless page
   and host have changed a file at the same time. *)
UnsavedSurvivesTheView ==
  [][\A f \in Open :
       buffers[f].dirty /\ ~crossed =>
         \/ f \in DOMAIN buffers' /\ buffers[f].text \subseteq buffers'[f].text
         \/ Discards(f)]_vars
=============================================================================
