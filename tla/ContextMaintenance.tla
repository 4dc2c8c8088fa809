------------------------- MODULE ContextMaintenance -------------------------
(***************************************************************************)
(* The background refresh of what a request is told about the workspace:   *)
(* apps/jaymi/src/context_maintenance.rs and its callers in boot.rs.       *)
(*                                                                         *)
(* A request is assembled from snapshots that jobs took earlier.  There is *)
(* a kind of job for each snapshot and an in-flight mark for each kind; a  *)
(* job runs on a thread of its own, sends what it saw down one channel and *)
(* ends.  Whoever drains the channel clears the mark and stores the        *)
(* snapshot.  Four kinds remember that they were asked for while in flight *)
(* and are asked for again by a later pump.  Closing the workspace, a git  *)
(* command and the first preparation publish a snapshot without a job, and *)
(* clear the mark whoever holds it.                                        *)
(*                                                                         *)
(* The window pumps on every frame and prepares requests; so do the worker *)
(* threads of replies, at the same time.  The code takes one short lock    *)
(* after another: the coding state is copied under one, the mark is set    *)
(* under a second, a result is stored under a third.  So a call is here a  *)
(* list of steps, one for each lock, and a thread takes the first of its   *)
(* list while the others take theirs.                                      *)
(*                                                                         *)
(* What a snapshot says is abstracted to the version of what it is of.     *)
(***************************************************************************)
EXTENDS Integers, Sequences, SequencesExt, FiniteSets

CONSTANTS
  Watched,     \* the kinds an instance runs jobs of
  MaxVersion,  \* bound, per source: how often it changes
  MaxPrepared, \* bound, per thread: the requests it prepares of its own accord
  Threads      \* the threads that prepare requests: the window's and replies'

Kinds == {"git", "inventory", "diagnostics", "summaries",
          "workspace", "editor", "project", "runtime"}

\* The kinds that are asked for again when a request found them in flight.
Coalescing == {"workspace", "editor", "project", "runtime"}

\* What each kind is a snapshot of.
Observes == [git |-> "repository", inventory |-> "disk",
             diagnostics |-> "problems", summaries |-> "coding",
             workspace |-> "coding", editor |-> "coding",
             project |-> "project", runtime |-> "terminals"]
Sources == {Observes[k] : k \in Kinds}

\* The kinds whose job looks at its source itself; the others are given a copy.
Looking == {"git", "inventory"}

\* The kinds whose result the window is told of, and those of them after which
\* the coding state is observed again.
Shown == {"git", "inventory", "diagnostics"}
Refreshing == {"git", "diagnostics"}

\* The observation of the coding state: schedule_coding_observation_refresh.
CodingKinds == {"workspace", "editor"}

\* The kinds of which closing the workspace publishes the snapshot of nothing,
\* and those of them whose source is still there then.
Cleared == CodingKinds \cup {"project", "git", "runtime"}
Emptied == {"project", "git"}

ASSUME KindsAssumption == Watched \subseteq Kinds /\ CodingKinds \subseteq Watched
ASSUME BoundsAssumption ==
  /\ MaxVersion \in [Sources -> Nat] /\ "ui" \in Threads
  /\ MaxPrepared \in [Threads -> Nat]

NoSnapshot == -1   \* none has completed yet, or none is held
Empty == 0         \* the snapshot of nothing
Nobody == "nobody"
ASSUME NobodyAssumption == Nobody \notin Threads
Nothing == [by |-> Nobody, of |-> "editor", seen |-> NoSnapshot]

VARIABLES
  live,       \* the version of each source
  open,       \* is the Coding workspace open?
  inflight,   \* the marks
  coalesced,  \* asked for while in flight
  jobs,       \* per kind, the version its running jobs started at, oldest first
  completed,  \* the channel: per kind, what finished jobs saw
  hand,       \* the result a thread has received and not stored
  store,      \* the latest completed snapshot of each kind
  updates,    \* kinds of which the window has a result to apply
  todo,       \* per thread, the rest of the call it is in
  copies,     \* per thread, what it copied for the jobs it is about to ask for
  clone,      \* per thread, the coding state its preparation copied
  cut,        \* history: kinds whose mark was cleared over a job at work
  overtaken,  \* history: kinds of which an older copy was used after a newer one
  prepared,   \* how many requests a thread has prepared of its own accord
  asked,      \* history: the newest version a request for each kind was made at
  closedAt    \* history: the version of the coding state at the last close

vars == <<live, open, inflight, coalesced, jobs, completed, hand, store, updates,
          todo, copies, clone, cut, overtaken, prepared, asked, closedAt>>

marks == <<inflight, coalesced>>
results == <<completed, hand, store, updates>>
place == <<open, prepared, closedAt>>
desk == <<live, place>>

VersionsOf(k) == NoSnapshot .. live[Observes[k]]

\* The steps of calls: some are about all kinds, some about one.
Steps ==
  [do : {"drain", "updates", "apply", "clone", "read", "terminal", "restore"}, of : {"all"}]
    \cup [do : {"look", "copy", "start", "unmark", "put", "clear"}, of : Watched]

\* Type invariant: marks, jobs and snapshots are of kinds the instance watches,
\* and a snapshot is of a version its source has had.
TypeOK ==
  /\ live \in [Sources -> Nat]
  /\ \A s \in Sources : live[s] <= MaxVersion[s]
  /\ prepared \in [Threads -> Nat]
  /\ open \in BOOLEAN
  /\ inflight \subseteq Watched
  /\ coalesced \subseteq Watched \cap Coalescing
  /\ updates \subseteq Watched \cap Shown
  /\ hand \in [by : Threads \cup {Nobody}, of : Watched, seen : Int]
  /\ hand.seen \in VersionsOf(hand.of)
  /\ todo \in [Threads -> Seq(Steps)]
  /\ clone \in [Threads -> VersionsOf("editor")]
  /\ copies \in [Threads -> [Watched -> Int]]
  /\ cut \subseteq Watched /\ overtaken \subseteq Watched
  /\ closedAt \in 0 .. live["coding"]
  /\ DOMAIN jobs = Watched /\ DOMAIN completed = Watched
  /\ DOMAIN store = Watched /\ DOMAIN asked = Watched
  /\ \A k \in Watched :
       /\ jobs[k] \in Seq(VersionsOf(k)) /\ completed[k] \in Seq(VersionsOf(k))
       /\ store[k] \in VersionsOf(k) /\ asked[k] \in VersionsOf(k)
       /\ \A t \in Threads : copies[t][k] \in VersionsOf(k)

-----------------------------------------------------------------------------
\* Jobs of kind k that run or whose result is still in the channel.
Outstanding(k) == Len(jobs[k]) + Len(completed[k])

\* A thread has received a result of kind k and not stored it.
InHand(k) == hand.by # Nobody /\ hand.of = k

\* Version v of kind k is older than what is stored or on its way to be.
Older(k, v) ==
  \/ v < store[k]
  \/ \E i \in DOMAIN jobs[k] : v < jobs[k][i]
  \/ \E i \in DOMAIN completed[k] : v < completed[k][i]
  \/ InHand(k) /\ v < hand.seen

Larger(a, b) == IF a > b THEN a ELSE b
Changed(S) == [s \in Sources |-> IF s \in S THEN live[s] + 1 ELSE live[s]]

\* The sources S change, within the bound.
Changes(S) ==
  /\ \A s \in S : live[s] < MaxVersion[s]
  /\ live' = Changed(S)

\* The calls, as lists of steps.
Do(op) == <<[do |-> op, of |-> "all"]>>
DoFor(op, k) == IF k \in Watched THEN <<[do |-> op, of |-> k]>> ELSE <<>>

\* A request copies what the job is given, then has it started.
Ask(k) == (IF k \in Looking THEN <<>> ELSE DoFor("copy", k)) \o DoFor("start", k)
AskCoding == Ask("workspace") \o Ask("editor")
\* publish_*: the mark goes, whoever holds it, then the snapshot is stored.
Clear(k) == DoFor("unmark", k) \o DoFor("clear", k)

PumpCall == Do("drain") \o Do("updates") \o DoFor("look", "project") \o DoFor("look", "runtime")
PrepareCall == PumpCall \o Do("clone") \o Do("drain") \o Do("read")

\* schedule_coding_open: everything is copied, then each kind started.
OpenCall ==
  DoFor("copy", "workspace") \o DoFor("copy", "editor") \o DoFor("copy", "diagnostics")
    \o DoFor("copy", "summaries") \o DoFor("copy", "project") \o DoFor("copy", "runtime")
    \o DoFor("start", "inventory") \o DoFor("start", "git") \o DoFor("start", "diagnostics")
    \o DoFor("start", "summaries") \o DoFor("start", "workspace") \o DoFor("start", "editor")
    \o DoFor("start", "project") \o DoFor("start", "runtime")

\* Thread t is in no call; the next step of its call; the step is done and those
\* of more come first now.
Idle(t) == todo[t] = <<>>
At(t, op) == todo[t] # <<>> /\ Head(todo[t]).do = op /\ hand.by # t
KindAt(t) == Head(todo[t]).of
Goes(t, more) == todo' = [todo EXCEPT ![t] = more \o Tail(@)]
Calls(t, steps) == Idle(t) /\ todo' = [todo EXCEPT ![t] = steps]

-----------------------------------------------------------------------------
Init ==
  /\ live = [s \in Sources |-> 0]
  /\ open = FALSE /\ closedAt = 0
  /\ prepared = [t \in Threads |-> 0]
  /\ inflight = {} /\ coalesced = {}
  /\ jobs = [k \in Watched |-> <<>>]
  /\ completed = [k \in Watched |-> <<>>]
  /\ hand = Nothing
  /\ store = [k \in Watched |-> NoSnapshot]
  /\ updates = {}
  /\ todo = [t \in Threads |-> <<>>]
  /\ copies = [t \in Threads |-> [k \in Watched |-> NoSnapshot]]
  /\ clone = [t \in Threads |-> NoSnapshot]
  /\ cut = {} /\ overtaken = {}
  /\ asked = [k \in Watched |-> NoSnapshot]

\* What the window's calls begin with is a change of what is observed.
WindowCalls(S, steps) ==
  /\ Changes(S) /\ Calls("ui", steps)
  /\ UNCHANGED <<marks, jobs, results, copies, clone, cut, overtaken, asked>>

\* The user moves the cursor, edits, or opens, closes or saves a tab.
Edit == open /\ WindowCalls({"coding"}, AskCoding) /\ UNCHANGED place

\* A terminal reported: its session and the record of what was built changed.
TerminalActs ==
  /\ open /\ WindowCalls({"coding", "terminals"}, AskCoding \o Ask("runtime"))
  /\ UNCHANGED place

\* A project is opened: what the workspace snapshot says of it changes too.
OpenProject ==
  /\ WindowCalls({"coding", "project"}, AskCoding \o Ask("project") \o Ask("runtime"))
  /\ UNCHANGED place

\* Refresh in the Git panel, the Problems panel or the Explorer, after what the
\* panel shows changed by other means.
RefreshPanel ==
  /\ open /\ \E k \in Shown \cap Watched : WindowCalls({Observes[k]}, Ask(k))
  /\ UNCHANGED place

\* apply_git_response: a git command of the panel ran.  Its status is shown, the
\* git section is published (the snapshot kept here is not), and a refresh is
\* scheduled for the rest.
GitMutated ==
  /\ open
  /\ WindowCalls({"repository", "coding"}, DoFor("unmark", "git") \o Ask("git") \o AskCoding)
  /\ UNCHANGED place

\* start_coding_project: the workspace is expanded and a request prepared, a
\* terminal is ensured, every kind is scheduled and the tabs are restored.
Expand ==
  /\ ~open /\ open' = TRUE
  /\ WindowCalls({"coding"}, PrepareCall \o Do("terminal") \o OpenCall \o Do("restore"))
  /\ UNCHANGED <<prepared, closedAt>>

\* close_ui_workspace: the coding state and the terminals are gone, the snapshot
\* of nothing is published for five kinds, and a request is prepared.
Close ==
  /\ open /\ open' = FALSE
  /\ WindowCalls({"coding", "terminals"},
       Clear("workspace") \o Clear("editor") \o Clear("project") \o Clear("git")
         \o Clear("runtime") \o PrepareCall)
  /\ closedAt' = live'["coding"] /\ UNCHANGED prepared

\* pump_context_maintenance on a frame; prepare_context_session for a request.
WindowPumps == WindowCalls({}, PumpCall) /\ UNCHANGED place
Prepares(t) ==
  /\ Calls(t, PrepareCall)
  /\ prepared[t] < MaxPrepared[t] /\ prepared' = [prepared EXCEPT ![t] = @ + 1]
  /\ UNCHANGED <<live, open, closedAt, marks, jobs, results, copies, clone, cut, overtaken, asked>>

-----------------------------------------------------------------------------
\* ensure_default_terminal, which may fail softly.
EnsureTerminal(t) ==
  /\ At(t, "terminal")
  /\ \/ Changes({"coding", "terminals"}) /\ Goes(t, AskCoding \o Ask("runtime"))
     \/ UNCHANGED live /\ Goes(t, <<>>)
  /\ UNCHANGED <<place, marks, jobs, results, copies, clone, cut, overtaken, asked>>

\* The tabs of the last time are restored, when there are any.  Each is read, and
\* the language server is told, whose answer has the coding state observed again;
\* without one only the summaries are asked for.
Restore(t) ==
  /\ At(t, "restore")
  /\ \/ /\ Changes({"coding"})
        /\ \E told \in {<<>>, Ask("diagnostics") \o AskCoding} : Goes(t, told \o Ask("summaries"))
     \/ UNCHANGED live /\ Goes(t, Ask("summaries"))
  /\ UNCHANGED <<place, marks, jobs, results, copies, clone, cut, overtaken, asked>>

-----------------------------------------------------------------------------
\* maintenance_job_request: the source of the kind is copied under its lock, and
\* no lock is held after it.
Copy(t) ==
  LET k == KindAt(t) IN
  /\ At(t, "copy")
  /\ copies' = [copies EXCEPT ![t][k] = live[Observes[k]]]
  /\ asked' = [asked EXCEPT ![k] = live[Observes[k]]]
  /\ Goes(t, <<>>)
  /\ UNCHANGED <<desk, marks, jobs, results, clone, cut, overtaken>>

(* Seeded faults: every request starts a job; a request in flight is        *)
(* forgotten.                                                               *)
BeginsAnyway(k, v) ==
  /\ inflight' = inflight \cup {k} /\ jobs' = [jobs EXCEPT ![k] = Append(@, v)]
  /\ UNCHANGED <<coalesced, overtaken>>
BeginsOrForgets(k, v) ==
  IF k \in inflight THEN UNCHANGED <<inflight, jobs, coalesced, overtaken>>
  ELSE /\ inflight' = inflight \cup {k} /\ jobs' = [jobs EXCEPT ![k] = Append(@, v)]
       /\ overtaken' = IF Older(k, v) THEN overtaken \cup {k} ELSE overtaken
       /\ UNCHANGED coalesced

\* schedule, under the lock of the marks: a kind in flight is not started again,
\* and only some remember the request.
Begins(k, v) ==
  \/ /\ k \in inflight
     /\ coalesced' = coalesced \cup ({k} \cap Coalescing)
     /\ UNCHANGED <<inflight, jobs, overtaken>>
  \/ /\ k \notin inflight
     /\ inflight' = inflight \cup {k}
     /\ jobs' = [jobs EXCEPT ![k] = Append(@, v)]
     /\ overtaken' = IF Older(k, v) THEN overtaken \cup {k} ELSE overtaken
     /\ UNCHANGED coalesced

Start(t) ==
  LET k == KindAt(t) IN
  /\ At(t, "start")
  /\ Begins(k, IF k \in Looking THEN live[Observes[k]] ELSE copies[t][k])
  /\ copies' = [copies EXCEPT ![t][k] = NoSnapshot]
  /\ Goes(t, <<>>)
  /\ UNCHANGED <<desk, results, clone, cut, asked>>

\* Any running job of kind k sends what it saw, and ends.  A job of git or of
\* the inventory looked at its source at some moment since it was scheduled.
JobReports(k) ==
  /\ \E i \in DOMAIN jobs[k] :
       /\ \E seen \in jobs[k][i] .. (IF k \in Looking THEN live[Observes[k]] ELSE jobs[k][i]) :
            completed' = [completed EXCEPT ![k] = Append(@, seen)]
       /\ jobs' = [jobs EXCEPT ![k] = RemoveAt(@, i)]
  /\ UNCHANGED <<desk, marks, asked, hand, store, updates, todo, copies, clone, cut, overtaken>>

-----------------------------------------------------------------------------
\* The branch of the workspace snapshot is looked up in the store when the coding
\* state has none, and latest_completed drains the channel first.  So a request
\* may drain after the copy for the workspace and before the other copies, or,
\* when its job is given none, before it is started.
Glances(t) ==
  \/ At(t, "copy") /\ KindAt(t) # "workspace"
  \/ At(t, "start") /\ KindAt(t) \in Looking \cup {"workspace"}

(* Seeded fault: the mark goes with the result the window is told of.       *)
UnmarkedWhenShown(k) == inflight' = inflight \ ({k} \cap Shown)
Unmarked(k) == inflight' = inflight \ {k}

\* drain_completed_into_store: one drain at a time receives a result and clears
\* the mark of its kind ...
TakeResult(t) ==
  /\ At(t, "drain") \/ Glances(t)
  /\ hand.by = Nobody
  /\ \E k \in Watched :
       /\ completed[k] # <<>>
       /\ hand' = [by |-> t, of |-> k, seen |-> Head(completed[k])]
       /\ completed' = [completed EXCEPT ![k] = Tail(@)]
       /\ Unmarked(k)
  /\ UNCHANGED <<desk, coalesced, jobs, store, updates, todo, copies, clone, cut, overtaken, asked>>

\* ... then stores it and tells the window, and looks for another ...
StoreResult(t) ==
  /\ hand.by = t
  /\ store' = [store EXCEPT ![hand.of] = hand.seen]
  /\ updates' = updates \cup ({hand.of} \cap Shown)
  /\ hand' = Nothing
  /\ UNCHANGED <<desk, marks, jobs, completed, todo, copies, clone, cut, overtaken, asked>>

\* ... until the channel is empty.
Drained(t) ==
  /\ At(t, "drain") /\ hand.by = Nobody
  /\ \A k \in Watched : completed[k] = <<>>
  /\ Goes(t, <<>>)
  /\ UNCHANGED <<desk, marks, jobs, results, copies, clone, cut, overtaken, asked>>

\* pump_context_maintenance takes the results for the window.  When the coding
\* state is to be observed again on their account, its flags are not looked at.
TakeUpdates(t) ==
  /\ At(t, "updates")
  /\ updates' = {}
  /\ Goes(t, (IF updates = {} THEN <<>> ELSE Do("apply"))
               \o (IF updates \cap Refreshing # {} THEN AskCoding ELSE DoFor("look", "workspace")))
  /\ UNCHANGED <<desk, marks, jobs, completed, hand, store, copies, clone, cut, overtaken, asked>>

\* They change the coding state, when there is one.
ApplyUpdates(t) ==
  /\ At(t, "apply")
  /\ live' = IF open /\ live["coding"] < MaxVersion["coding"] THEN Changed({"coding"}) ELSE live
  /\ Goes(t, <<>>)
  /\ UNCHANGED <<place, marks, jobs, results, copies, clone, cut, overtaken, asked>>

(* Seeded fault: only the flag of the workspace is looked at.               *)
LooksNoFurther(k) == <<>>
\* The editor's flag is looked at only when the workspace's was not set.
LooksNext(k) == IF k = "workspace" THEN DoFor("look", "editor") ELSE <<>>

\* take_*_reschedule: a flag that was set is taken, and the kind asked for again.
LookAtFlag(t) ==
  LET k == KindAt(t) IN
  /\ At(t, "look")
  /\ coalesced' = coalesced \ {k}
  /\ Goes(t, IF k \notin coalesced THEN LooksNext(k)
             ELSE IF k \in CodingKinds THEN AskCoding ELSE Ask(k))
  /\ UNCHANGED <<desk, inflight, jobs, results, copies, clone, cut, overtaken, asked>>

-----------------------------------------------------------------------------
\* prepare_context_session copies the coding state ...
CloneCoding(t) ==
  /\ At(t, "clone")
  /\ clone' = [clone EXCEPT ![t] = IF open THEN live["coding"] ELSE NoSnapshot]
  /\ Goes(t, <<>>)
  /\ UNCHANGED <<desk, marks, jobs, results, copies, cut, overtaken, asked>>

\* ... and reads the store: a first editor snapshot is published from that copy,
\* and a first workspace snapshot asked for.
ReadStore(t) ==
  LET first == clone[t] # NoSnapshot /\ store["editor"] = NoSnapshot IN
  /\ At(t, "read")
  /\ Goes(t, (IF first THEN DoFor("unmark", "editor") \o DoFor("put", "editor") ELSE <<>>)
               \o (IF store["workspace"] = NoSnapshot THEN Ask("workspace") ELSE <<>>))
  /\ clone' = IF first THEN clone ELSE [clone EXCEPT ![t] = NoSnapshot]
  /\ UNCHANGED <<desk, marks, jobs, results, copies, cut, overtaken, asked>>

\* publish_*: the mark of the kind is cleared, over a job at work or not ...
Unmark(t) ==
  LET k == KindAt(t) IN
  /\ At(t, "unmark")
  /\ inflight' = inflight \ {k}
  /\ cut' = IF Outstanding(k) > 0 THEN cut \cup {k} ELSE cut
  /\ Goes(t, <<>>)
  /\ UNCHANGED <<desk, coalesced, jobs, results, copies, clone, overtaken, asked>>

\* ... and its snapshot is stored, of version v, whatever was stored since.  One
\* that empties is older than every version: it overtakes the copies still held.
Publishes(k, v) ==
  /\ store' = [store EXCEPT ![k] = v]
  /\ asked' = [asked EXCEPT ![k] = Larger(@, v)]
  /\ overtaken' = IF \/ Outstanding(k) > 0 \/ InHand(k)
                     \/ IF k \in Emptied THEN \E t \in Threads : copies[t][k] # NoSnapshot
                        ELSE Older(k, v)
                  THEN overtaken \cup {k} ELSE overtaken

\* The first editor snapshot is of the copy.
PutClone(t) ==
  /\ At(t, "put")
  /\ Publishes("editor", clone[t])
  /\ clone' = [clone EXCEPT ![t] = NoSnapshot]
  /\ Goes(t, <<>>)
  /\ UNCHANGED <<desk, marks, jobs, completed, hand, updates, copies, cut>>

\* The snapshot of nothing is the present one of a coding state or of terminals
\* that are gone; the project and the repository are still there.
PutNothing(t) ==
  LET k == KindAt(t) IN
  /\ At(t, "clear")
  /\ Publishes(k, IF k \in Emptied THEN Empty ELSE live[Observes[k]])
  /\ Goes(t, <<>>)
  /\ UNCHANGED <<desk, marks, jobs, completed, hand, updates, copies, clone, cut>>

-----------------------------------------------------------------------------
WindowActs ==
  \/ Edit \/ TerminalActs \/ OpenProject \/ RefreshPanel \/ GitMutated
  \/ Expand \/ Close \/ WindowPumps

JobActs == \E k \in Watched : JobReports(k)

\* A thread inside a call goes on with it.
GoesOn(t) ==
  \/ EnsureTerminal(t) \/ Restore(t) \/ Copy(t) \/ Start(t)
  \/ TakeResult(t) \/ StoreResult(t) \/ Drained(t)
  \/ TakeUpdates(t) \/ ApplyUpdates(t) \/ LookAtFlag(t)
  \/ CloneCoding(t) \/ ReadStore(t) \/ Unmark(t) \/ PutClone(t) \/ PutNothing(t)

ThreadActs == \E t \in Threads : Prepares(t) \/ GoesOn(t)

Next == WindowActs \/ JobActs \/ ThreadActs

Spec == Init /\ [][Next]_vars

\* Jobs report and end: git, the language server and the disk answer.  A thread
\* inside a call goes on, and the window pumps on frame after frame (it asks for
\* the next frame itself); nobody has to prepare a request.
Fairness ==
  /\ WF_vars(WindowPumps)
  /\ \A t \in Threads : WF_vars(GoesOn(t))
  /\ \A k \in Watched : WF_vars(JobReports(k))

FairSpec == Spec /\ Fairness

-----------------------------------------------------------------------------
\* Nobody published over a job of kind k at work, and no copy of it was used after
\* a newer one.
Undisturbed(k) == k \notin cut \cup overtaken

\* One job at a time: the mark of a kind stands for exactly one job that runs or
\* whose result is in the channel, so that two jobs of a kind never race, unless
\* a publication cleared the mark of a job at work (schedule, publish_*,
\* apply_completed).
OneJobPerMark ==
  /\ TypeOK
  /\ \A k \in Watched : k \notin cut => Outstanding(k) = IF k \in inflight THEN 1 ELSE 0

\* Some thread is on the way to have kind k started.
Due(t, k) == \E i \in DOMAIN todo[t] : todo[t][i] = [do |-> "copy", of |-> k]
OnItsWay(k) ==
  \/ k \in inflight \cup coalesced \/ InHand(k)
  \/ \E t \in Threads : copies[t][k] # NoSnapshot \/ Due(t, k)

\* No request for a coalescing kind is dropped: when the kind has no mark, no
\* coalesced request and no thread about to ask for it, the stored snapshot is as
\* new as the latest request, in whatever order threads copied, jobs ended and
\* flags were taken (schedule, take_coalesced_reschedule,
\* pump_context_maintenance); except where an older copy was used after a newer
\* one.  The project's may be the one of nothing that closing publishes.
RequestsAreServed ==
  \A k \in Watched \cap Coalescing :
    Undisturbed(k) /\ ~OnItsWay(k) =>
      store[k] >= asked[k] \/ (k = "project" /\ store[k] = Empty)

\* A snapshot is replaced by an older one only where a publication came over a job
\* at work, or where a thread used its copy after another had used a newer one:
\* the order of drains, jobs and flags does not matter, only that of copying
\* and using.  The project and the repository are left out: closing the
\* workspace empties their snapshots while they stay (apply_completed, publish_*).
SnapshotsMoveOn ==
  [][\A k \in Watched \ Emptied : Undisturbed(k)' => store'[k] >= store[k]]_vars

\* What the editor kind promises while nobody disturbs it: its snapshot moves on
\* only to what was asked for, and catches up with every request, although one in
\* flight starts no job and the pump looks at the editor's flag last (schedule,
\* take_editor_snapshot_reschedule, pump_context_maintenance).
Editor == INSTANCE SnapshotCell WITH
  asked <- asked["editor"], shown <- store["editor"],
  disturbed <- "editor" \in cut \cup overtaken, Versions <- 1 .. MaxVersion["coding"]

EditorIsACell == Editor!Spec

\* "Clear ambient Coding observation so conversation does not keep a stale
\* snapshot" (boot.rs, close_ui_workspace): once the workspace was closed the
\* stored snapshots are not older than the close.
ClosedStaysClear ==
  ~open /\ Idle("ui") => \A k \in CodingKinds : store[k] # NoSnapshot => store[k] >= closedAt
=============================================================================
