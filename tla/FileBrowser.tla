---------------------------- MODULE FileBrowser ----------------------------
(***************************************************************************)
(* The file manager from the page to the disk: FilesPage and uploadFile    *)
(* (web/src/main.tsx, api.ts) over the agent's FileActions.  The page runs *)
(* one callback at a time, but every await gives way to clicks, timers and *)
(* other answers: answers arrive in any order, and a callback goes on with *)
(* the directory that was shown when it was created.  A change is a task:  *)
(* its request is answered when it is queued, before the agent acts.       *)
(* Uploaded files have new names, so an upload touches no other file.      *)
(***************************************************************************)
EXTENDS FileActions, Sequences, SequencesExt

CONSTANTS
    Root,
    NoFile,
    Empty,       \* the text of a new file
    Batch,       \* drops of files
    Size,        \* files in a drop
    MaxLoads,    \* bound: listings asked for and not answered
    MaxOps       \* bound: what the user does

ASSUME PageAssumption ==
    /\ Root \in Dir /\ NoFile \notin File /\ Empty \in Text
    /\ Size \in Nat \ {0} /\ MaxLoads \in Nat \ {0} /\ MaxOps \in Nat

VARIABLES
    path,        \* the directory in the address bar
    items,       \* the directory whose entries the table shows
    loads,       \* directories asked for, in the order of asking
    timers,      \* reloads waiting in setTimeout
    edit,        \* the file in the editor
    opens,       \* the files whose text was asked for
    menu,        \* the file the context menu is about
    dialog,      \* the name dialog or the delete dialog
    clip,        \* what was cut or copied
    at,          \* runUploads of a drop: the file it is at, 0 before
    target,      \* and the directory it uploads to
    listed,      \* the upload list
    cleaning,    \* drops whose second timer runs
    post,        \* the request that submits a task
    by,          \* what sent it, and the directory shown then
    ops,
    asked,       \* the directory asked for last
    overtaken,   \* the last answer is not the one to what was asked last
    fresh        \* the rename dialog opened on a listing at rest

view == <<path, items, loads, asked, overtaken>>
dialogs == <<edit, opens, menu, dialog, clip, fresh>>
uploads == <<at, target, listed, cleaning>>
requests == <<post, by>>
vars == <<view, timers, dialogs, uploads, requests, agentVars, ops>>

Job == Batch \X (1 .. Size)
Named == {"newFile", "newFolder", "rename"}
NoDialog == [kind |-> "none", file |-> NoFile]
NoClip == [kind |-> "none", file |-> NoFile]
Nobody == [part |-> "none", dir |-> Root]

In(d, n) == [dir |-> d, name |-> n]

Init ==
    /\ AgentInit
    /\ path = Root /\ items = Root
    /\ loads = <<Root>> /\ asked = Root /\ overtaken = FALSE
    /\ timers = {}
    /\ edit = NoFile /\ opens = {} /\ menu = NoFile
    /\ dialog = NoDialog /\ clip = NoClip /\ fresh = FALSE
    /\ at = [b \in Batch |-> 0] /\ target = [b \in Batch |-> Root]
    /\ listed = [j \in Job |-> "none"] /\ cleaning = {}
    /\ post = [t \in Task |-> "free"] /\ by = [t \in Task |-> Nobody]
    /\ op = [t \in Task |-> NoFile]
    /\ ops = 0

TypeOK ==
    /\ AgentTypeOK
    /\ path \in Dir /\ items \in Dir /\ asked \in Dir
    /\ loads \in Seq(Dir) /\ Len(loads) <= MaxLoads
    /\ overtaken \in BOOLEAN /\ fresh \in BOOLEAN
    /\ timers \subseteq [of : Task \cup Batch, dir : Dir]
    /\ edit \in File \cup {NoFile} /\ opens \subseteq File /\ menu \in File \cup {NoFile}
    /\ dialog \in [kind : Named \cup {"delete", "none"}, file : File \cup {NoFile}]
    /\ dialog.kind \in {"rename", "delete"} => dialog.file \in File
    /\ clip \in [kind : {"copy", "move", "none"}, file : File \cup {NoFile}]
    /\ clip.kind # "none" => clip.file \in File
    /\ at \in [Batch -> 0 .. Size + 1] /\ target \in [Batch -> Dir]
    /\ listed \in [Job -> {"none", "uploading", "done", "error"}]
    /\ cleaning \subseteq Batch
    /\ post \in [Task -> {"free", "sent", "taken", "over"}]
    /\ by \in [Task -> [part : {"none", "editor", "names", "delete", "paste"}, dir : Dir]]
    /\ \A t \in Task : post[t] # "free" => op[t] \in Op
    /\ \A t \in Task : post[t] \in {"free", "sent"} => pc[t] = "none"
    /\ ops \in 0 .. MaxOps

-----------------------------------------------------------------------------
(* Listings.                                                               *)

Act == ops < MaxOps /\ ops' = ops + 1

(* A dialog or the editor lies over the page and takes the clicks.         *)
Uncovered == edit = NoFile /\ dialog = NoDialog

Ask(d) ==
    /\ Len(loads) < MaxLoads
    /\ loads' = Append(loads, d)
    /\ asked' = d /\ overtaken' = FALSE
    /\ UNCHANGED <<path, items>>

(* Mutant: the overlay lets clicks through.                                *)
NavigateBehind(d) ==
    /\ Act /\ Ask(d)
    /\ UNCHANGED <<timers, dialogs, uploads, requests, agentVars>>

(* A folder, a crumb, the parent, the address bar, or refresh.  The file   *)
(* name stops the click, so an open context menu may stay.                 *)
Navigate(d) ==
    /\ Uncovered /\ Act /\ Ask(d)
    /\ UNCHANGED <<timers, dialogs, uploads, requests, agentVars>>

TimerFires(r) ==
    /\ r \in timers /\ timers' = timers \ {r}
    /\ Ask(r.dir)
    /\ UNCHANGED <<dialogs, uploads, requests, agentVars, ops>>

(* The answer to the i-th request leaves; if it is the last one's and      *)
(* another is still to come, that one will be shown.                       *)
Answered(i) ==
    /\ loads' = RemoveAt(loads, i)
    /\ overtaken' = (overtaken \/ (i = Len(loads) /\ i # 1))

(* Mutant: an answer for another directory than the shown one is dropped.  *)
ListArrivesIfSame(i) ==
    /\ i \in DOMAIN loads
    /\ items' = path /\ path' = path
    /\ Answered(i)
    /\ UNCHANGED <<asked, timers, dialogs, uploads, requests, agentVars, ops>>

ListArrives(i) ==
    /\ i \in DOMAIN loads
    /\ items' = loads[i] /\ path' = loads[i]
    /\ Answered(i)
    /\ UNCHANGED <<asked, timers, dialogs, uploads, requests, agentVars, ops>>

ListFails(i) ==
    /\ i \in DOMAIN loads
    /\ loads' = RemoveAt(loads, i)
    /\ overtaken' = (overtaken \/ i = Len(loads))
    /\ UNCHANGED <<path, items, asked, timers, dialogs, uploads, requests, agentVars, ops>>

-----------------------------------------------------------------------------
(* The editor, the context menu and the dialogs.                           *)

Shown(f) == f.dir = items

OpenFile(f) ==
    /\ Uncovered /\ (Shown(f) \/ f = menu) /\ f \notin opens /\ Act
    /\ opens' = opens \cup {f} /\ menu' = NoFile
    /\ UNCHANGED <<view, timers, edit, dialog, clip, fresh, uploads, requests, agentVars>>

TextArrives(f) ==
    /\ f \in opens /\ opens' = opens \ {f} /\ edit' = f
    /\ UNCHANGED <<view, timers, menu, dialog, clip, fresh, uploads, requests, agentVars, ops>>

TextFails(f) ==
    /\ f \in opens /\ opens' = opens \ {f}
    /\ UNCHANGED <<view, timers, edit, menu, dialog, clip, fresh, uploads, requests, agentVars, ops>>

CloseEditor ==
    /\ edit # NoFile /\ edit' = NoFile
    /\ UNCHANGED <<view, timers, opens, menu, dialog, clip, fresh, uploads, requests, agentVars, ops>>

OpenMenu(f) ==
    /\ Uncovered /\ Shown(f) /\ Act /\ menu' = f
    /\ UNCHANGED <<view, timers, edit, opens, dialog, clip, fresh, uploads, requests, agentVars>>

CloseMenu ==
    /\ menu # NoFile /\ menu' = NoFile
    /\ UNCHANGED <<view, timers, edit, opens, dialog, clip, fresh, uploads, requests, agentVars, ops>>

(* No listing, no reload and nothing that ends in one is under way.        *)
AtRest ==
    /\ loads = << >> /\ timers = {}
    /\ \A t \in Task : post[t] \notin {"sent", "taken"}
    /\ \A b \in Batch : at[b] \in {0, Size + 1}

(* Mutant: the menu of the empty part of the table offers to delete.       *)
OpenDialogOnNothing(kind, f) ==
    /\ Uncovered /\ Act
    /\ IF kind = "rename" THEN f = menu /\ f # NoFile ELSE f = NoFile
    /\ dialog' = [kind |-> kind, file |-> f] /\ menu' = NoFile
    /\ fresh' = (kind = "rename" /\ AtRest /\ Shown(f))
    /\ UNCHANGED <<view, timers, edit, opens, clip, uploads, requests, agentVars>>

OpenDialog(kind, f) ==
    /\ Uncovered
    /\ IF kind \in {"rename", "delete"} THEN f = menu /\ f # NoFile /\ ops' = ops
                                        ELSE f = NoFile /\ Act
    /\ dialog' = [kind |-> kind, file |-> f] /\ menu' = NoFile
    /\ fresh' = (kind = "rename" /\ AtRest /\ Shown(f))
    /\ UNCHANGED <<view, timers, edit, opens, clip, uploads, requests, agentVars>>

CloseDialog ==
    /\ dialog # NoDialog /\ dialog' = NoDialog /\ fresh' = FALSE
    /\ UNCHANGED <<view, timers, edit, opens, menu, clip, uploads, requests, agentVars, ops>>

SetClipboard(kind) ==
    /\ Uncovered /\ menu # NoFile
    /\ clip' = [kind |-> kind, file |-> menu] /\ menu' = NoFile
    /\ UNCHANGED <<view, timers, edit, opens, dialog, fresh, uploads, requests, agentVars, ops>>

-----------------------------------------------------------------------------
(* Changes.  Nothing is disabled while a request is under way, so a dialog *)
(* can be sent twice.                                                      *)

Submit(t, part, kind, from, to, text) ==
    /\ post[t] = "free" /\ Act
    /\ post' = [post EXCEPT ![t] = "sent"]
    /\ by' = [by EXCEPT ![t] = [part |-> part, dir |-> path]]
    /\ op' = [op EXCEPT ![t] = [kind |-> kind, from |-> from, to |-> to, text |-> text]]
    /\ UNCHANGED <<view, timers, edit, opens, dialog, clip, fresh, uploads, disk, pc, txt, was>>

SaveFile(t, x) ==
    /\ edit # NoFile
    /\ Submit(t, "editor", "write", edit, edit, x)
    /\ UNCHANGED menu

(* The new name is joined to the directory shown now.                      *)
SubmitName(t, n) ==
    LET to == In(path, n) IN
    /\ dialog.kind \in Named
    /\ \/ dialog.kind = "newFolder" /\ Submit(t, "names", "mkdir", to, to, Empty)
       \/ dialog.kind = "newFile" /\ Submit(t, "names", "write", to, to, Empty)
       \/ /\ dialog.kind = "rename" /\ n # dialog.file.name
          /\ Submit(t, "names", "rename", dialog.file, to, Empty)
    /\ UNCHANGED menu

ConfirmDelete(t) ==
    /\ dialog.kind = "delete"
    /\ Submit(t, "delete", "delete", dialog.file, dialog.file, Empty)
    /\ UNCHANGED menu

PasteHere(t) ==
    /\ Uncovered /\ clip # NoClip
    /\ Submit(t, "paste", clip.kind, clip.file, In(path, clip.file.name), Empty)
    /\ menu' = NoFile

(* The panel writes the task and answers; its goroutine calls the agent.   *)
Taken(t) ==
    /\ post[t] = "sent" /\ post' = [post EXCEPT ![t] = "taken"]
    /\ pc' = [pc EXCEPT ![t] = "ready"]
    /\ UNCHANGED <<view, timers, dialogs, uploads, by, op, disk, txt, was, ops>>

PostFails(t) ==
    /\ post[t] \in {"sent", "taken"} /\ post' = [post EXCEPT ![t] = "over"]
    /\ UNCHANGED <<view, timers, dialogs, uploads, by, agentVars, ops>>

ReloadLater(who, d) == timers' = timers \cup {[of |-> who, dir |-> d]}

(* The handler goes on: it closes whatever is open by now.                 *)
Continue(t) ==
    \/ /\ by[t].part = "editor"
       /\ edit' = NoFile /\ Ask(by[t].dir)
       /\ UNCHANGED <<timers, dialog, clip, fresh>>
    \/ /\ by[t].part \in {"names", "delete"}
       /\ dialog' = IF (dialog.kind = "delete") = (by[t].part = "delete") THEN NoDialog ELSE dialog
       /\ fresh' = (fresh /\ dialog' # NoDialog)
       /\ ReloadLater(t, by[t].dir)
       /\ UNCHANGED <<view, edit, clip>>
    \/ /\ by[t].part = "paste"
       /\ clip' = IF Kind(t) = "move" THEN NoClip ELSE clip
       /\ ReloadLater(t, by[t].dir)
       /\ UNCHANGED <<view, edit, dialog, fresh>>

PostAnswered(t) ==
    /\ post[t] = "taken" /\ post' = [post EXCEPT ![t] = "over"]
    /\ Continue(t)
    /\ UNCHANGED <<opens, menu, uploads, by, agentVars, ops>>

-----------------------------------------------------------------------------
(* Uploads: the files of a drop one after another.                         *)

Drop(b) ==
    /\ at[b] = 0 /\ Act
    /\ at' = [at EXCEPT ![b] = 1] /\ target' = [target EXCEPT ![b] = path]
    /\ listed' = [listed EXCEPT ![<<b, 1>>] = "uploading"]
    /\ UNCHANGED <<view, timers, dialogs, cleaning, requests, agentVars>>

Settle(b, outcome) ==
    LET i == at[b] IN
    /\ i \in 1 .. Size /\ at' = [at EXCEPT ![b] = i + 1]
    /\ listed' = [j \in Job |-> IF j = <<b, i>> THEN outcome
                               ELSE IF j = <<b, i + 1>> THEN "uploading" ELSE listed[j]]
    /\ IF i < Size THEN UNCHANGED <<timers, cleaning>>
       ELSE ReloadLater(b, target[b]) /\ cleaning' = cleaning \cup {b}
    /\ UNCHANGED <<view, dialogs, target, requests, agentVars, ops>>

(* Mutant: the whole list is emptied.                                      *)
EmptyList(b) ==
    /\ b \in cleaning /\ cleaning' = cleaning \ {b}
    /\ listed' = [j \in Job |-> "none"]
    /\ UNCHANGED <<view, timers, dialogs, at, target, requests, agentVars, ops>>

(* Mutant: only what succeeded leaves the list.                            *)
CleanDone(b) ==
    /\ b \in cleaning /\ cleaning' = cleaning \ {b}
    /\ listed' = [j \in Job |-> IF listed[j] = "done" THEN "none" ELSE listed[j]]
    /\ UNCHANGED <<view, timers, dialogs, at, target, requests, agentVars, ops>>

(* The timer of one drop clears the settled uploads of all of them.        *)
CleanUp(b) ==
    /\ b \in cleaning /\ cleaning' = cleaning \ {b}
    /\ listed' = [j \in Job |-> IF listed[j] = "uploading" THEN "uploading" ELSE "none"]
    /\ UNCHANGED <<view, timers, dialogs, at, target, requests, agentVars, ops>>

-----------------------------------------------------------------------------

page == <<view, timers, dialogs, uploads, requests, ops>>

Agent ==
    /\ (\E t \in Task : AgentStep(t)) \/ AgentStops
    /\ UNCHANGED page

Next ==
    \/ \E d \in Dir : Navigate(d)
    \/ \E r \in timers : TimerFires(r)
    \/ \E i \in DOMAIN loads : ListArrives(i) \/ ListFails(i)
    \/ \E f \in File : OpenFile(f) \/ TextArrives(f) \/ TextFails(f) \/ OpenMenu(f)
    \/ CloseEditor \/ CloseMenu \/ CloseDialog
    \/ \E kind \in Named \cup {"delete"}, f \in File \cup {NoFile} : OpenDialog(kind, f)
    \/ \E kind \in {"copy", "move"} : SetClipboard(kind)
    \/ \E t \in Task : \/ \E x \in Text : SaveFile(t, x)
                       \/ \E n \in Name : SubmitName(t, n)
                       \/ ConfirmDelete(t) \/ PasteHere(t)
                       \/ Taken(t) \/ PostFails(t) \/ PostAnswered(t)
    \/ \E b \in Batch : \/ Drop(b) \/ CleanUp(b)
                        \/ \E outcome \in {"done", "error"} : Settle(b, outcome)
    \/ Agent

(* The browser runs its timers and ends every upload with load or error.   *)
Fairness ==
    \A b \in Batch :
       /\ WF_vars(\E outcome \in {"done", "error"} : Settle(b, outcome))
       /\ WF_vars(CleanUp(b))

Spec == Init /\ [][Next]_vars
FairSpec == Spec /\ Fairness

-----------------------------------------------------------------------------

(* When no listing is under way, the page shows the directory that was     *)
(* asked for last, by a click or by a delayed reload, unless answers came  *)
(* in another order or that one failed.                                    *)
LastAskedIsShown == loads = << >> /\ ~overtaken => path = asked /\ items = asked

(* The file that a drop is uploading stays on the list as such, though the *)
(* timers of other drops clear the list meanwhile.                         *)
UploadingStaysListed ==
    \A b \in Batch : at[b] \in 1 .. Size => listed[<<b, at[b]>>] = "uploading"

(* A rename keeps the file in its directory, though the name is joined to  *)
(* whatever directory is shown when it is sent: the dialog lies over the   *)
(* page.  Only a listing already under way when it opened can change that. *)
RenameStays ==
    fresh => dialog.kind = "rename" /\ dialog.file.dir = path

(* Every settled upload leaves the list.                                   *)
UploadsLeave ==
    \A j \in Job : listed[j] \in {"done", "error"} ~> listed[j] \notin {"done", "error"}
=============================================================================
