------------------------------ MODULE TaskViews ------------------------------
(***************************************************************************)
(* What the browser shows of the tasks (web/src/main.tsx): the dialogs of  *)
(* the app store and of the container page, which post one action or two   *)
(* in a row; TaskProgressModal, which asks for the newest tasks again one  *)
(* second after every answer; and the page of tasks, which asks for them   *)
(* on an interval, whatever became of the last question.                   *)
(* The tasks themselves have the statuses of TaskLedger, in the order of   *)
(* their creation.  A handler goes on when the dialog it belongs to is     *)
(* closed, and an answer comes when the modal that asked is closed.        *)
(***************************************************************************)
EXTENDS Naturals, Sequences, FiniteSets

CONSTANTS
    Flow,         \* handlers that post a dialog's actions
    MaxTasks,     \* bound: tasks
    MaxModals,    \* bound: runs of the effect of TaskProgressModal
    MaxLists,     \* bound: questions of the page of tasks under way
    Outcome,      \* bound: the final statuses that occur
    Window,       \* tasks in an answer
    MaxLosses,    \* bound: requests that fail
    MaxClicks     \* bound: what the administrator does but to open dialogs

ASSUME ProgressAssumption ==
    /\ MaxTasks \in Nat /\ MaxModals \in Nat /\ MaxLists \in Nat
    /\ Outcome \subseteq {"succeeded", "failed", "rolled_back"}
    /\ Window \in Nat \ {0} /\ MaxLosses \in Nat /\ MaxClicks \in Nat

VARIABLES
    status,      \* the status column, in the order of creation
    page,        \* the page that is mounted
    dialog,      \* the dialog open on it
    busy,        \* its state variable: the handler that disables its button
    flow,        \* the handlers
    modal,       \* the number of the poller of the open modal, or 0
    shown,       \* its state variable: a task and its status
    poller,      \* the runs of its effect, in their order; "hit": an answer came
                 \* through; "over": another modal was open when this one came
    lists,       \* answers to loadTasks under way
    tasks,       \* state variable of the page of tasks: those listed
    detail,      \* state variable: the task of TaskDetailModal
    losses, clicks

forms == <<dialog, busy, flow>>
progress == <<modal, shown, poller>>
taskPage == <<lists, tasks, detail>>
bounds == <<losses, clicks>>
vars == <<status, page, forms, progress, taskPage, bounds>>

Terminal == {"succeeded", "failed", "rolled_back"}
Status == {"queued", "running"} \cup Terminal
Page == {"services", "docker", "tasks"}
List == 1 .. MaxLists

(* What a dialog posts: an installation, one for the web after it, or only *)
(* the latter; doUpdate has no dialog.                                     *)
Dialog == {"install", "custom", "web"}
FlowKind == Dialog \cup {"update"}
HomeOf(kind) == IF kind = "custom" THEN "docker" ELSE "services"

NoFlow == [kind |-> "none", phase |-> "idle", binds |-> FALSE, task |-> 0, home |-> FALSE]
NewPoll(t) == [task |-> t, phase |-> "due", stop |-> FALSE, got |-> "none", hit |-> FALSE,
               over |-> modal # 0]
Nothing == [task |-> 0, status |-> "none"]
Unasked == [asked |-> FALSE, got |-> << >>]

Init ==
    /\ status = << >>
    /\ page = "services"
    /\ dialog = "none" /\ busy = {} /\ flow = [f \in Flow |-> NoFlow]
    /\ modal = 0 /\ shown = Nothing /\ poller = << >>
    /\ lists = [s \in List |-> Unasked] /\ tasks = << >> /\ detail = Nothing
    /\ losses = 0 /\ clicks = 0

-----------------------------------------------------------------------------
(* The ledger.                                                             *)

Create == Len(status) < MaxTasks /\ status' = Append(status, "queued")

Elsewhere == Create /\ UNCHANGED <<page, forms, progress, taskPage, bounds>>

Proceed(t) ==
    /\ \/ status[t] = "queued" /\ status' = [status EXCEPT ![t] = "running"]
       \/ /\ status[t] \in {"queued", "running"}
          /\ \E s \in Outcome : status' = [status EXCEPT ![t] = s]
    /\ UNCHANGED <<page, forms, progress, taskPage, bounds>>

(* Store.Tasks: the newest of them.                                        *)
Newest ==
    {t \in DOMAIN status : t + Window > Len(status)}

Lost == losses < MaxLosses /\ losses' = losses + 1 /\ UNCHANGED clicks

Click == clicks < MaxClicks /\ clicks' = clicks + 1 /\ UNCHANGED losses

-----------------------------------------------------------------------------
(* Pages.  The page left is unmounted: its handlers go on and answers come *)
(* to it without an effect.  A modal covers the menu.                      *)

Stopped == IF modal = 0 THEN poller ELSE [poller EXCEPT ![modal].stop = TRUE]

GoTo(to) ==
    /\ page # to /\ page' = to
    /\ dialog = "none" /\ modal = 0 /\ detail = Nothing
    /\ flow' = [f \in Flow |-> [flow[f] EXCEPT !.home = FALSE]]
    /\ lists' = [s \in List |-> Unasked] /\ tasks' = << >> /\ detail' = Nothing
    /\ UNCHANGED <<status, dialog, busy, progress>> /\ Click

-----------------------------------------------------------------------------
(* Dialogs.                                                                *)

Free(f) == flow[f] = NoFlow

OpenDialog(kind) ==
    /\ page = HomeOf(kind) /\ dialog = "none" /\ modal = 0
    /\ dialog' = kind
    /\ UNCHANGED <<status, page, busy, flow, progress, taskPage, bounds>>

CloseDialog ==
    /\ dialog # "none" /\ dialog' = "none" /\ busy' = {}
    /\ UNCHANGED <<status, page, flow, progress, taskPage>> /\ Click

(* The button is disabled while its own handler is at work; a dialog that  *)
(* is closed and opened again does not know of it.  Updates have no flag.  *)
Submit(f, kind, binds) ==
    /\ Free(f)
    /\ \/ dialog = kind /\ (kind = "web" => ~binds) /\ busy = {} /\ busy' = {f}
       \/ kind = "update" /\ ~binds /\ page = "services" /\ dialog = "none" /\ modal = 0
          /\ busy' = busy
    /\ flow' = [flow EXCEPT ![f] = [NoFlow EXCEPT !.kind = kind, !.phase = "posting",
                                                 !.binds = binds, !.home = TRUE]]
    /\ UNCHANGED <<status, page, dialog, progress, taskPage>> /\ Click

(* The panel creates the task; the answer is under way.                    *)
Posted(f) ==
    /\ flow[f].phase \in {"posting", "binding"}
    /\ Create
    /\ flow' = [flow EXCEPT ![f].phase = IF @ = "posting" THEN "posted" ELSE "bound",
                            ![f].task = IF flow[f].phase = "posting" THEN Len(status') ELSE @]
    /\ UNCHANGED <<page, dialog, busy, progress, taskPage, bounds>>

(* A second action follows when the first was queued.                      *)
Binds(f) ==
    /\ flow[f].phase = "posted" /\ flow[f].binds
    /\ flow' = [flow EXCEPT ![f].phase = "binding"]
    /\ UNCHANGED <<status, page, dialog, busy, progress, taskPage, bounds>>

(* An open modal keeps its state variable when its task changes.           *)
ShowProgress(t) ==
    /\ Len(poller) < MaxModals
    /\ poller' = Append(Stopped, NewPoll(t)) /\ modal' = Len(poller')
    /\ shown' = IF modal = 0 THEN Nothing ELSE shown

(* onQueued closes whatever dialog of the page is open by now.             *)
Queued(f) ==
    LET r == flow[f] IN
    /\ r.phase = "bound" \/ (r.phase = "posted" /\ ~r.binds)
    /\ flow' = [flow EXCEPT ![f] = NoFlow]
    /\ IF ~r.home THEN UNCHANGED <<dialog, busy, progress>>
       ELSE /\ IF r.kind = dialog THEN dialog' = "none" /\ busy' = {}
               ELSE UNCHANGED <<dialog, busy>>
            /\ IF r.kind \in {"install", "update"} THEN ShowProgress(r.task)
               ELSE UNCHANGED progress
    /\ UNCHANGED <<status, page, taskPage, bounds>>

(* A request or its answer is lost; the dialog, if still open, says so.    *)
PostFails(f) ==
    /\ flow[f].phase # "idle" /\ Lost
    /\ flow' = [flow EXCEPT ![f] = NoFlow] /\ busy' = busy \ {f}
    /\ UNCHANGED <<status, page, dialog, progress, taskPage>>

-----------------------------------------------------------------------------
(* TaskProgressModal.                                                      *)

(* Mutant: the effect is dropped with the modal still in the page.         *)
CloseProgressHalf ==
    /\ modal # 0 /\ poller' = << >> /\ shown' = Nothing
    /\ UNCHANGED <<status, page, forms, modal, taskPage>> /\ Click

CloseProgress ==
    /\ modal # 0 /\ modal' = 0
    /\ poller' = Stopped /\ shown' = Nothing
    /\ UNCHANGED <<status, page, forms, taskPage>> /\ Click

(* A question, with what the panel answers to it; when the answer arrives  *)
(* is open.                                                                *)
Poll(p) ==
    /\ poller[p].phase = "due"
    /\ LET t == poller[p].task
       IN poller' = [poller EXCEPT ![p].phase = "asked",
                                   ![p].got = IF t \in Newest THEN status[t] ELSE "none"]
    /\ UNCHANGED <<status, page, forms, modal, shown, taskPage, bounds>>

(* Where a poller goes after an answer.  A stopped one ends, but a timer   *)
(* that is already set asks once more.                                     *)
After(p, ended) ==
    IF ended \/ poller[p].stop THEN "over" ELSE "due"

(* Mutant: the answer is taken though the effect was cleaned up.           *)
PollArrivesAlways(p) ==
    /\ poller[p].phase = "asked"
    /\ LET got == poller[p].got
           hit == got # "none"
       IN /\ shown' = IF hit /\ modal # 0
                      THEN [task |-> poller[p].task, status |-> got] ELSE shown
          /\ poller' = [poller EXCEPT ![p].phase = After(p, got \in Terminal),
                                      ![p].hit = @ \/ hit]
    /\ UNCHANGED <<status, page, forms, modal, taskPage, bounds>>

PollArrives(p) ==
    /\ poller[p].phase = "asked"
    /\ LET got == poller[p].got
           hit == got # "none" /\ ~poller[p].stop
       IN /\ shown' = IF hit THEN [task |-> poller[p].task, status |-> got] ELSE shown
          /\ poller' = [poller EXCEPT ![p].phase = After(p, got \in Terminal),
                                      ![p].hit = @ \/ hit]
    /\ UNCHANGED <<status, page, forms, modal, taskPage, bounds>>

(* Mutant: an error ends the polling.                                      *)
PollGivesUp(p) ==
    /\ poller[p].phase = "asked" /\ Lost
    /\ poller' = [poller EXCEPT ![p].phase = "over"]
    /\ UNCHANGED <<status, page, forms, modal, shown, taskPage>>

PollFails(p) ==
    /\ poller[p].phase = "asked" /\ Lost
    /\ poller' = [poller EXCEPT ![p].phase = After(p, FALSE)]
    /\ UNCHANGED <<status, page, forms, modal, shown, taskPage>>

-----------------------------------------------------------------------------
(* The page of tasks.                                                      *)

(* The first load, the interval and the button: a question and what the    *)
(* panel answers.  When it arrives is open, so answers can change places.  *)
LoadTasks(s) ==
    /\ page = "tasks"
    /\ ~lists[s].asked /\ \A r \in 1 .. s - 1 : lists[r].asked
    /\ lists' = [lists EXCEPT ![s] = [asked |-> TRUE, got |-> [t \in Newest |-> status[t]]]]
    /\ UNCHANGED <<status, page, forms, progress, tasks, detail, bounds>>

Over(s) == lists[s].asked /\ lists' = [lists EXCEPT ![s] = Unasked]

(* Mutant: the open detail is not renewed.                                 *)
ListArrivesBeside(s) ==
    /\ Over(s) /\ tasks' = lists[s].got
    /\ UNCHANGED <<status, page, forms, progress, detail, bounds>>

(* With the effect on the list.                                            *)
ListArrives(s) ==
    /\ Over(s) /\ tasks' = lists[s].got
    /\ detail' = IF detail.task \in DOMAIN tasks'
                 THEN [task |-> detail.task, status |-> tasks'[detail.task]] ELSE detail
    /\ UNCHANGED <<status, page, forms, progress, bounds>>

ListFails(s) ==
    /\ Over(s) /\ Lost
    /\ UNCHANGED <<status, page, forms, progress, tasks, detail>>

ViewDetails(t) ==
    /\ detail = Nothing /\ Click
    /\ detail' = [task |-> t, status |-> tasks[t]]
    /\ UNCHANGED <<status, page, forms, progress, lists, tasks>>

CloseDetails ==
    /\ detail # Nothing /\ detail' = Nothing /\ Click
    /\ UNCHANGED <<status, page, forms, progress, lists, tasks>>

-----------------------------------------------------------------------------

Next ==
    \/ Elsewhere \/ \E t \in DOMAIN status : Proceed(t)
    \/ \E to \in Page : GoTo(to)
    \/ \E kind \in Dialog : OpenDialog(kind)
    \/ CloseDialog \/ CloseProgress
    \/ \E f \in Flow :
          \/ \E kind \in FlowKind, binds \in BOOLEAN : Submit(f, kind, binds)
          \/ Posted(f) \/ Binds(f) \/ Queued(f) \/ PostFails(f)
    \/ \E p \in DOMAIN poller : Poll(p) \/ PollArrives(p) \/ PollFails(p)
    \/ \E s \in List : LoadTasks(s) \/ ListArrives(s) \/ ListFails(s)
    \/ \E t \in DOMAIN tasks : ViewDetails(t)
    \/ CloseDetails

(* Timers fire and requests end, the failing ones only so many times.      *)
Fairness ==
    /\ \A s \in List : WF_vars(LoadTasks(s)) /\ WF_vars(ListArrives(s))
    /\ \A p \in 1 .. MaxModals :
       /\ WF_vars(p \in DOMAIN poller /\ Poll(p))
       /\ WF_vars(p \in DOMAIN poller /\ PollArrives(p))

Spec == Init /\ [][Next]_vars
FairSpec == Spec /\ Fairness

-----------------------------------------------------------------------------

TypeOK ==
    /\ status \in Seq(Status) /\ Len(status) <= MaxTasks
    /\ page \in Page /\ dialog \in Dialog \cup {"none"} /\ busy \subseteq Flow
    /\ flow \in [Flow -> [kind : FlowKind \cup {"none"}, binds : BOOLEAN, home : BOOLEAN,
                          phase : {"idle", "posting", "posted", "binding", "bound"},
                          task : 0 .. MaxTasks]]
    /\ modal \in 0 .. Len(poller)
    /\ shown \in [task : 0 .. MaxTasks, status : Status \cup {"none"}]
    /\ Len(poller) <= MaxModals
    /\ poller \in Seq([task : 0 .. MaxTasks, stop : BOOLEAN, hit : BOOLEAN, over : BOOLEAN,
                       phase : {"due", "asked", "over"},
                       got : Status \cup {"none"}])
    /\ DOMAIN lists = List /\ DOMAIN tasks \subseteq DOMAIN status
    /\ \A s \in List : DOMAIN lists[s].got \subseteq DOMAIN status
    /\ detail # Nothing => detail.task \in DOMAIN status /\ detail.status \in Status
    /\ losses \in 0 .. MaxLosses /\ clicks \in 0 .. MaxClicks

(* The modal shows its own task, or nothing yet: no answer to the poller   *)
(* of an earlier modal, of which one may still be under way, comes through.*)
(* Until the first answer with its task it may show another one in one     *)
(* case, when it came over an open modal, whose task stays in the state.   *)
ShowsItsOwn ==
    modal # 0 =>
       LET own == poller[modal] IN
       IF own.hit THEN shown.task = own.task
       ELSE own.over \/ shown = Nothing

Waits(t) == modal # 0 /\ poller[modal].task = t

(* The outcome of a task reaches the modal that waits for it, unless it is *)
(* closed or newer tasks push the task out of the answers.                 *)
ProgressSettles ==
    \A t \in 1 .. MaxTasks :
       Waits(t) /\ status[t] \in Terminal
          ~> ~Waits(t) \/ shown = [task |-> t, status |-> status[t]] \/ t \notin Newest

(* An open detail comes to show the outcome of its task, though answers    *)
(* come in any order, unless newer tasks push it out of the list.          *)
DetailSettles ==
    \A t \in 1 .. MaxTasks :
       detail.task = t /\ status[t] \in Terminal
          ~> detail.task # t \/ detail.status = status[t] \/ t \notin Newest
=============================================================================
