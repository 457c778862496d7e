--------------------------- MODULE FileBrowserProofs ---------------------------
(***************************************************************************)
(* Theorems about FileBrowser and the FileActions under it: types; that    *)
(* the page settles on the directory asked for last; that uploads under    *)
(* way stay listed; that a rename stays in its directory; and that no      *)
(* rename, move or copy of the agent loses a file.                         *)
(***************************************************************************)
EXTENDS FileBrowser, TLAPS

USE DEF view, dialogs, uploads, requests, page, agentVars, vars

-----------------------------------------------------------------------------
(* Types, by the parts of the state.                                       *)

Timer == [of : Task \cup Batch, dir : Dir]
Dialogue == [kind : Named \cup {"delete", "none"}, file : File \cup {NoFile}]
Clip == [kind : {"copy", "move", "none"}, file : File \cup {NoFile}]
Author == [part : {"none", "editor", "names", "delete", "paste"}, dir : Dir]

ViewOK ==
    /\ path \in Dir /\ items \in Dir /\ asked \in Dir
    /\ loads \in Seq(Dir) /\ Len(loads) <= MaxLoads /\ overtaken \in BOOLEAN
DialogsOK ==
    /\ edit \in File \cup {NoFile} /\ opens \subseteq File /\ menu \in File \cup {NoFile}
    /\ dialog \in Dialogue /\ fresh \in BOOLEAN
    /\ dialog.kind \in {"rename", "delete"} => dialog.file \in File
    /\ clip \in Clip /\ (IF clip.kind = "none" THEN clip = NoClip ELSE clip.file \in File)
UploadsOK ==
    /\ at \in [Batch -> 0 .. Size + 1] /\ target \in [Batch -> Dir]
    /\ listed \in [Job -> {"none", "uploading", "done", "error"}]
    /\ cleaning \subseteq Batch
RequestsOK ==
    /\ post \in [Task -> {"free", "sent", "taken", "over"}]
    /\ by \in [Task -> Author]
    /\ op = [t \in Task |-> op[t]]
    /\ \A t \in Task : post[t] # "free" => op[t] \in Op
    /\ \A t \in Task : post[t] \in {"free", "sent"} => pc[t] = "none"
FilesOK ==
    /\ disk \in Tree
    /\ pc \in [Task -> {"none", "ready", "lost"} \cup Begun]
    /\ txt \in [Task -> Content \cup {Absent}]
    /\ was \in [Task -> Content \cup {Absent}]

Types ==
    /\ ViewOK /\ timers \subseteq Timer /\ DialogsOK /\ UploadsOK /\ RequestsOK /\ FilesOK
    /\ ops \in 0 .. MaxOps

LEMMA TypesAre == Types => TypeOK
<1> SUFFICES ASSUME Types PROVE TypeOK
  OBVIOUS
<1>1. AgentTypeOK
  <2>1. DOMAIN op = Task
    BY DEF Types, RequestsOK
  <2>2. \A t \in Task : pc[t] # "none" => op[t] \in Op
    BY DEF Types, RequestsOK
  <2> QED BY <2>1, <2>2 DEF Types, FilesOK, AgentTypeOK
<1> QED BY <1>1 DEF Types, ViewOK, DialogsOK, UploadsOK, RequestsOK, TypeOK, Timer, Dialogue,
           Clip, Author

LEMMA TypesInit == Init => Types
<1> SUFFICES ASSUME Init PROVE Types
  OBVIOUS
<1>1. ViewOK
  <2>1. <<Root>> \in Seq(Dir) /\ Len(<<Root>>) = 1
    BY PageAssumption
  <2>2. 1 <= MaxLoads
    BY PageAssumption
  <2>3. loads = <<Root>> /\ path = Root /\ items = Root /\ asked = Root /\ overtaken = FALSE
    BY DEF Init
  <2> QED BY <2>1, <2>2, <2>3, PageAssumption DEF ViewOK
<1>2. DialogsOK
  BY PageAssumption DEF Init, DialogsOK, Dialogue, Clip, NoDialog, NoClip
<1>3. UploadsOK
  BY PageAssumption DEF Init, UploadsOK
<1>4. RequestsOK
  BY PageAssumption DEF Init, AgentInit, RequestsOK, Author, Nobody
<1>5. FilesOK
  BY FilesAssumption DEF Init, AgentInit, FilesOK
<1> QED BY <1>1, <1>2, <1>3, <1>4, <1>5, PageAssumption DEF Init, Types

LEMMA TailPart ==
    ASSUME NEW S, NEW a \in Seq(S), NEW b \in Seq(S),
           NEW k \in 1 .. Len(a) + Len(b), ~(k <= Len(a))
    PROVE  (a \o b)[k] = b[k - Len(a)]
BY SMTT(30)

LEMMA Gap ==
    ASSUME NEW n \in Nat, NEW i \in 1 .. n, NEW k \in 1 .. n - 1, ~(k < i)
    PROVE  /\ k - (i - 1) \in 1 .. n - i /\ k \in 1 .. (i - 1) + (n - i)
           /\ ~(k <= i - 1) /\ i + (k - (i - 1)) = k + 1
OBVIOUS

(* A listing without one of its parts.                                     *)
LEMMA Removed ==
    ASSUME NEW S, NEW q \in Seq(S), NEW i \in DOMAIN q,
           NEW r, r = RemoveAt(q, i)
    PROVE  /\ r \in Seq(S) /\ Len(r) = Len(q) - 1
           /\ \A k \in 1 .. Len(r) : r[k] = IF k < i THEN q[k] ELSE q[k + 1]
<1>1. i \in 1 .. Len(q) /\ Len(q) \in Nat
  OBVIOUS
<1>2. PICK a, b : a = SubSeq(q, 1, i - 1) /\ b = SubSeq(q, i + 1, Len(q))
  OBVIOUS
<1>3. /\ a \in Seq(S) /\ Len(a) = i - 1 /\ \A k \in 1 .. i - 1 : a[k] = q[k]
  BY <1>1, <1>2
<1>4. /\ b \in Seq(S) /\ Len(b) = Len(q) - i /\ \A k \in 1 .. Len(q) - i : b[k] = q[i + k]
  BY <1>1, <1>2
<1>5. r = a \o b
  BY <1>2 DEF RemoveAt
<1>6. /\ r \in Seq(S) /\ Len(r) = Len(q) - 1
  BY <1>1, <1>3, <1>4, <1>5
<1>7. ASSUME NEW k \in 1 .. Len(r) PROVE r[k] = IF k < i THEN q[k] ELSE q[k + 1]
  <2>1. CASE k < i
    BY <1>1, <1>3, <1>4, <1>5, <1>6, <2>1, SMTT(30)
  <2>2. CASE ~(k < i)
    <3>1. k \in Int /\ k \in 1 .. Len(q) - 1
      BY <1>1, <1>6
    <3>2. /\ k - (i - 1) \in 1 .. Len(q) - i /\ k \in 1 .. (i - 1) + (Len(q) - i)
          /\ ~(k <= i - 1) /\ i + (k - (i - 1)) = k + 1
      BY <1>1, <3>1, <2>2, Gap
    <3>3. k \in 1 .. Len(a) + Len(b) /\ ~(k <= Len(a)) /\ k - Len(a) = k - (i - 1)
      BY <1>3, <1>4, <3>2
    <3>4. r[k] = b[k - Len(a)]
      BY <1>3, <1>4, <1>5, <3>3, TailPart
    <3> QED BY <1>4, <2>2, <3>2, <3>3, <3>4
  <2> QED BY <2>1, <2>2
<1> QED BY <1>6, <1>7

(* The actions by what they touch.                                         *)
Listing ==
    \/ \E d \in Dir : Navigate(d)
    \/ \E r \in timers : TimerFires(r)
    \/ \E i \in DOMAIN loads : ListArrives(i) \/ ListFails(i)
Opening ==
    \/ \E f \in File : OpenFile(f) \/ TextArrives(f) \/ TextFails(f) \/ OpenMenu(f)
    \/ CloseEditor \/ CloseMenu \/ CloseDialog
    \/ \E kind \in Named \cup {"delete"}, f \in File \cup {NoFile} : OpenDialog(kind, f)
    \/ \E kind \in {"copy", "move"} : SetClipboard(kind)
Sending ==
    \E t \in Task : \/ \E x \in Text : SaveFile(t, x)
                    \/ \E n \in Name : SubmitName(t, n)
                    \/ ConfirmDelete(t) \/ PasteHere(t)
Answering == \E t \in Task : Taken(t) \/ PostFails(t) \/ PostAnswered(t)
Uploading ==
    \E b \in Batch : \/ Drop(b) \/ CleanUp(b)
                     \/ \E outcome \in {"done", "error"} : Settle(b, outcome)

LEMMA Steps ==
    ASSUME [Next]_vars
    PROVE  Listing \/ Opening \/ Sending \/ Answering \/ Uploading \/ Agent \/ UNCHANGED vars
<1>1. CASE Next
  BY <1>1, Zenon DEF Next, Listing, Opening, Sending, Answering, Uploading
<1> QED BY <1>1

LEMMA Frames ==
    /\ Listing => UNCHANGED <<dialogs, uploads, requests, agentVars>>
    /\ Opening => UNCHANGED <<view, timers, uploads, requests, agentVars>>
    /\ Sending => UNCHANGED <<view, timers, edit, opens, dialog, clip, fresh, uploads,
                             disk, pc, txt, was>>
    /\ Answering => UNCHANGED <<opens, menu, uploads, by, op, disk, txt, was, ops>>
    /\ Uploading => UNCHANGED <<view, dialogs, requests, agentVars>>
    /\ Agent => UNCHANGED page
<1>1. Listing => UNCHANGED <<dialogs, uploads, requests, agentVars>>
  BY DEF Listing, Navigate, TimerFires, ListArrives, ListFails
<1>2. Opening => UNCHANGED <<view, timers, uploads, requests, agentVars>>
  BY DEF Opening, OpenFile, TextArrives, TextFails, OpenMenu, CloseEditor, CloseMenu,
         CloseDialog, OpenDialog, SetClipboard
<1>3. Sending => UNCHANGED <<view, timers, edit, opens, dialog, clip, fresh, uploads,
                             disk, pc, txt, was>>
  BY DEF Sending, SaveFile, SubmitName, ConfirmDelete, PasteHere, Submit
<1>4. Answering => UNCHANGED <<opens, menu, uploads, by, op, disk, txt, was, ops>>
  BY DEF Answering, Taken, PostFails, PostAnswered
<1>5. Uploading => UNCHANGED <<view, dialogs, requests, agentVars>>
  BY DEF Uploading, Drop, CleanUp, Settle
<1>6. Agent => UNCHANGED page
  BY DEF Agent
<1> QED BY <1>1, <1>2, <1>3, <1>4, <1>5, <1>6, Zenon

(* The listings: asked for, answered or failed.                            *)
LEMMA ViewFx ==
    ASSUME Types, [Next]_vars
    PROVE  \/ UNCHANGED view
           \/ \E d \in Dir : Ask(d)
           \/ \E i \in DOMAIN loads : ListArrives(i) \/ ListFails(i)
<1>1. ASSUME NEW r \in timers, TimerFires(r) PROVE \E d \in Dir : Ask(d)
  BY <1>1 DEF TimerFires, Types, Timer
<1>2. ASSUME NEW t \in Task, PostAnswered(t) PROVE UNCHANGED view \/ \E d \in Dir : Ask(d)
  BY <1>2 DEF PostAnswered, Continue, Types, RequestsOK, Author
<1>3. CASE Listing
  BY <1>3, <1>1 DEF Listing, Navigate
<1>4. CASE Answering
  BY <1>4, <1>2 DEF Answering, Taken, PostFails
<1> QED BY <1>3, <1>4, Steps, Frames

LEMMA ViewStep == Types /\ [Next]_vars => ViewOK'
<1> SUFFICES ASSUME Types, [Next]_vars PROVE ViewOK'
  OBVIOUS
<1>1. CASE UNCHANGED view
  BY <1>1 DEF Types, ViewOK
<1>2. ASSUME NEW d \in Dir, Ask(d) PROVE ViewOK'
  <2>1. loads \in Seq(Dir) /\ Len(loads) < MaxLoads /\ loads' = Append(loads, d)
    BY <1>2 DEF Ask, Types, ViewOK
  <2>2. loads' \in Seq(Dir) /\ Len(loads') <= MaxLoads
    BY <2>1, PageAssumption
  <2> QED BY <2>2, <1>2 DEF Ask, Types, ViewOK
<1>3. ASSUME NEW i \in DOMAIN loads, ListArrives(i) \/ ListFails(i) PROVE ViewOK'
  <2>1. /\ loads' = RemoveAt(loads, i) /\ asked' = asked /\ overtaken' \in BOOLEAN
        /\ path' \in {path, loads[i]} /\ items' \in {items, loads[i]}
    BY <1>3 DEF ListArrives, ListFails, Answered
  <2>2. loads' \in Seq(Dir) /\ Len(loads') = Len(loads) - 1
    BY <2>1, Removed DEF Types, ViewOK
  <2>3. loads[i] \in Dir
    BY DEF Types, ViewOK
  <2>4. Len(loads') <= MaxLoads
    BY <2>2, PageAssumption DEF Types, ViewOK
  <2> QED BY <2>1, <2>2, <2>3, <2>4 DEF Types, ViewOK
<1> QED BY <1>1, <1>2, <1>3, ViewFx


-----------------------------------------------------------------------------
(* The directory asked for last is the one that will be shown, unless it   *)
(* was overtaken.                                                          *)

Settles ==
    /\ items = path
    /\ ~overtaken => IF loads = << >> THEN path = asked ELSE loads[Len(loads)] = asked

LEMMA SettlesStep == Types /\ Settles /\ [Next]_vars => Settles'
<1> SUFFICES ASSUME Types, Settles, [Next]_vars PROVE Settles'
  OBVIOUS
<1>0. loads \in Seq(Dir) /\ Len(loads) \in Nat
  BY DEF Types, ViewOK
<1>1. CASE UNCHANGED view
  BY <1>1 DEF Settles
<1>2. ASSUME NEW d \in Dir, Ask(d) PROVE Settles'
  <2>1. loads' = Append(loads, d) /\ asked' = d /\ items' = path'
    BY <1>2 DEF Ask, Settles
  <2>2. loads' # << >> /\ loads'[Len(loads')] = d
    BY <2>1, <1>0
  <2> QED BY <2>1, <2>2 DEF Settles
<1>3. ASSUME NEW i \in DOMAIN loads, ListArrives(i) \/ ListFails(i) PROVE Settles'
  <2>0. loads' = RemoveAt(loads, i) /\ i \in 1 .. Len(loads)
    BY <1>3, <1>0 DEF ListArrives, ListFails, Answered
  <2>1. /\ Len(loads') = Len(loads) - 1 /\ loads' \in Seq(Dir)
        /\ \A k \in 1 .. Len(loads') : loads'[k] = IF k < i THEN loads[k] ELSE loads[k + 1]
    <3>1. \A j \in DOMAIN loads : \A r : r = RemoveAt(loads, j) =>
             /\ r \in Seq(Dir) /\ Len(r) = Len(loads) - 1
             /\ \A k \in 1 .. Len(r) : r[k] = IF k < j THEN loads[k] ELSE loads[k + 1]
      BY <1>0, Removed
    <3>2. i \in DOMAIN loads
      OBVIOUS
    <3>3. PICK r : r = loads'
      OBVIOUS
    <3>4. r = RemoveAt(loads, i)
      BY <2>0, <3>3
    <3>5. /\ r \in Seq(Dir) /\ Len(r) = Len(loads) - 1
          /\ \A k \in 1 .. Len(r) : r[k] = IF k < i THEN loads[k] ELSE loads[k + 1]
      BY <3>1, <3>2, <3>4, Zenon
    <3> QED BY <3>3, <3>5
  <2>2. asked' = asked /\ (overtaken => overtaken')
    BY <1>3 DEF ListArrives, ListFails, Answered
  <2>3. CASE i < Len(loads)
    <3>1. loads' # << >> /\ loads # << >> /\ loads'[Len(loads')] = loads[Len(loads)]
      BY <2>0, <2>1, <2>3, <1>0
    <3>2. items' = path'
      BY <1>3 DEF ListArrives, ListFails, Settles
    <3> QED BY <3>1, <3>2, <2>2 DEF Settles
  <2>4. CASE i = Len(loads) /\ (overtaken' \/ overtaken)
    <3>1. items' = path' /\ overtaken'
      BY <1>3, <2>4, <2>2 DEF ListArrives, ListFails, Settles
    <3> QED BY <3>1 DEF Settles
  <2>5. CASE i = Len(loads) /\ ~overtaken' /\ ~overtaken
    <3>1. ListArrives(i) /\ i = 1
      BY <1>3, <2>5 DEF ListFails, ListArrives, Answered
    <3>2. loads' = << >> /\ loads # << >>
      BY <3>1, <2>0, <2>1, <2>5, <1>0
    <3>3. items' = loads[i] /\ path' = loads[i] /\ loads[i] = asked
      BY <3>1, <3>2, <2>5 DEF ListArrives, Settles
    <3> QED BY <3>2, <3>3, <2>2 DEF Settles
  <2> QED BY <2>0, <2>3, <2>4, <2>5, <1>0
<1> QED BY <1>1, <1>2, <1>3, ViewFx


-----------------------------------------------------------------------------
(* The types are kept.                                                     *)

LEMMA TimersStep == Types /\ [Next]_vars => (timers \subseteq Timer)'
<1> SUFFICES ASSUME Types, [Next]_vars PROVE timers' \subseteq Timer
  OBVIOUS
<1>0. ViewOK /\ timers \subseteq Timer /\ UploadsOK /\ RequestsOK
  BY DEF Types
<1>1. CASE Listing
  BY <1>0, <1>1 DEF Listing, Navigate, TimerFires, ListArrives, ListFails
<1>2. CASE Answering
  <2>1. PICK t \in Task : Taken(t) \/ PostFails(t) \/ PostAnswered(t)
    BY <1>2 DEF Answering
  <2>2. by[t].dir \in Dir
    BY <1>0 DEF RequestsOK, Author
  <2>3. timers' = timers \/ timers' = timers \cup {[of |-> t, dir |-> by[t].dir]}
    BY <2>1 DEF Taken, PostFails, PostAnswered, Continue, ReloadLater
  <2> QED BY <1>0, <2>2, <2>3 DEF Timer
<1>3. CASE Uploading
  <2>1. PICK b \in Batch : \/ Drop(b) \/ CleanUp(b)
                           \/ \E outcome \in {"done", "error"} : Settle(b, outcome)
    BY <1>3 DEF Uploading
  <2>2. target[b] \in Dir
    BY <1>0 DEF UploadsOK
  <2>3. timers' = timers \/ timers' = timers \cup {[of |-> b, dir |-> target[b]]}
    BY <2>1 DEF Drop, CleanUp, Settle, ReloadLater
  <2> QED BY <1>0, <2>2, <2>3 DEF Timer
<1> QED BY <1>0, <1>1, <1>2, <1>3, Steps, Frames

LEMMA UploadsStep == Types /\ [Next]_vars => UploadsOK'
<1> SUFFICES ASSUME Types, [Next]_vars PROVE UploadsOK'
  OBVIOUS
<1>0. UploadsOK /\ path \in Dir /\ Size \in Nat
  BY PageAssumption DEF Types, ViewOK
<1>1. CASE UNCHANGED uploads
  BY <1>0, <1>1 DEF UploadsOK
<1>2. ASSUME NEW b \in Batch, Drop(b) PROVE UploadsOK'
  <2>1. at' \in [Batch -> 0 .. Size + 1]
    BY <1>0, <1>2, PageAssumption DEF Drop, UploadsOK
  <2>2. target' \in [Batch -> Dir]
    BY <1>0, <1>2 DEF Drop, UploadsOK
  <2>3. listed' \in [Job -> {"none", "uploading", "done", "error"}]
    BY <1>0, <1>2 DEF Drop, UploadsOK
  <2> QED BY <1>0, <1>2, <2>1, <2>2, <2>3 DEF Drop, UploadsOK
<1>3. ASSUME NEW b \in Batch, NEW outcome \in {"done", "error"}, Settle(b, outcome)
      PROVE  UploadsOK'
  <2>1. at' \in [Batch -> 0 .. Size + 1]
    <3>1. PICK i : i = at[b] /\ i \in 1 .. Size /\ at' = [at EXCEPT ![b] = i + 1]
      BY <1>3 DEF Settle
    <3>2. i + 1 \in 0 .. Size + 1
      BY <3>1, <1>0
    <3> QED BY <3>1, <3>2, <1>0 DEF UploadsOK
  <2>2. listed' \in [Job -> {"none", "uploading", "done", "error"}]
    <3>1. \A j \in Job : listed[j] \in {"none", "uploading", "done", "error"}
      BY <1>0 DEF UploadsOK
    <3> QED BY <1>3, <3>1 DEF Settle
  <2>3. target' = target /\ cleaning' \subseteq Batch
    BY <1>0, <1>3 DEF Settle, UploadsOK
  <2> QED BY <1>0, <2>1, <2>2, <2>3 DEF UploadsOK
<1>4. ASSUME NEW b \in Batch, CleanUp(b) PROVE UploadsOK'
  <2>1. listed' \in [Job -> {"none", "uploading", "done", "error"}]
    <3>1. \A j \in Job : listed[j] \in {"none", "uploading", "done", "error"}
      BY <1>0 DEF UploadsOK
    <3> QED BY <1>4, <3>1 DEF CleanUp
  <2> QED BY <1>0, <1>4, <2>1 DEF CleanUp, UploadsOK
<1>5. Uploading => UploadsOK'
  BY <1>2, <1>3, <1>4 DEF Uploading
<1> QED BY <1>1, <1>5, Steps, Frames

LEMMA DialogsStep == Types /\ [Next]_vars => DialogsOK'
<1> SUFFICES ASSUME Types, [Next]_vars PROVE DialogsOK'
  OBVIOUS
<1>0. DialogsOK
  BY DEF Types
<1>1. CASE UNCHANGED dialogs
  BY <1>0, <1>1 DEF DialogsOK
<1>2. CASE Opening
  <2>1. ASSUME NEW f \in File, OpenFile(f) \/ TextArrives(f) \/ TextFails(f) \/ OpenMenu(f)
        PROVE  DialogsOK'
    <3>1. edit' \in {edit, f} /\ menu' \in {menu, NoFile, f} /\ UNCHANGED <<dialog, clip, fresh>>
      BY <2>1 DEF OpenFile, TextArrives, TextFails, OpenMenu
    <3>2. opens' \subseteq opens \cup {f}
      BY <2>1 DEF OpenFile, TextArrives, TextFails, OpenMenu
    <3> QED BY <1>0, <3>1, <3>2 DEF DialogsOK
  <2>2. CASE CloseEditor \/ CloseMenu \/ CloseDialog
    <3>1. /\ edit' \in {edit, NoFile} /\ menu' \in {menu, NoFile} /\ dialog' \in {dialog, NoDialog}
          /\ fresh' \in {fresh, FALSE} /\ UNCHANGED <<opens, clip>>
      BY <2>2 DEF CloseEditor, CloseMenu, CloseDialog
    <3>2. NoDialog \in Dialogue /\ NoDialog.kind = "none"
      BY DEF NoDialog, Dialogue
    <3> QED BY <1>0, <3>1, <3>2 DEF DialogsOK
  <2>3. ASSUME NEW kind \in Named \cup {"delete"}, NEW f \in File \cup {NoFile}, OpenDialog(kind, f)
        PROVE  DialogsOK'
    <3>1. dialog' \in Dialogue /\ dialog'.kind = kind /\ dialog'.file = f
      BY <2>3 DEF OpenDialog, Dialogue
    <3>2. kind \in {"rename", "delete"} => f \in File
      BY <2>3 DEF OpenDialog
    <3>3. fresh' \in BOOLEAN /\ menu' = NoFile /\ UNCHANGED <<edit, opens, clip>>
      BY <2>3 DEF OpenDialog
    <3> QED BY <1>0, <3>1, <3>2, <3>3 DEF DialogsOK
  <2>4. ASSUME NEW kind \in {"copy", "move"}, SetClipboard(kind) PROVE DialogsOK'
    BY <1>0, <2>4 DEF SetClipboard, DialogsOK, Clip, NoClip
  <2> QED BY <1>2, <2>1, <2>2, <2>3, <2>4 DEF Opening
<1>3. CASE Sending
  <2>1. menu' \in {menu, NoFile}
    BY <1>3 DEF Sending, SaveFile, SubmitName, ConfirmDelete, PasteHere
  <2> QED BY <1>0, <1>3, <2>1, Frames DEF DialogsOK
<1>4. CASE Answering
  <2>1. UNCHANGED <<opens, menu>>
    BY <1>4, Frames
  <2>2. edit' \in {edit, NoFile} /\ dialog' \in {dialog, NoDialog} /\ clip' \in {clip, NoClip}
        /\ fresh' \in BOOLEAN
    BY <1>0, <1>4 DEF Answering, Taken, PostFails, PostAnswered, Continue, DialogsOK
  <2>3. NoDialog \in Dialogue /\ NoDialog.kind = "none" /\ NoClip \in Clip /\ NoClip.kind = "none"
    BY DEF NoDialog, NoClip, Dialogue, Clip
  <2> QED BY <1>0, <2>1, <2>2, <2>3 DEF DialogsOK
<1> QED BY <1>1, <1>2, <1>3, <1>4, Steps, Frames


LEMMA SendingFx ==
    ASSUME Types, Sending
    PROVE  \E t \in Task, a \in Author, o \in Op :
              /\ post[t] = "free" /\ post' = [post EXCEPT ![t] = "sent"]
              /\ by' = [by EXCEPT ![t] = a] /\ a.dir = path
              /\ op' = [op EXCEPT ![t] = o]
              /\ o.kind = "rename" => o.to.dir = path
              /\ ops < MaxOps /\ ops' = ops + 1
<1>1. PICK t \in Task : \/ \E x \in Text : SaveFile(t, x)
                        \/ \E n \in Name : SubmitName(t, n)
                        \/ ConfirmDelete(t) \/ PasteHere(t)
  BY DEF Sending
<1>2. path \in Dir /\ DialogsOK
  BY DEF Types, ViewOK
<1>3. ASSUME NEW part \in {"editor", "names", "delete", "paste"}, NEW kind \in Kinds,
             NEW f \in File, NEW g \in File, NEW x \in Text,
             Submit(t, part, kind, f, g, x), kind = "rename" => g.dir = path
      PROVE  \E a \in Author, o \in Op :
              /\ post[t] = "free" /\ post' = [post EXCEPT ![t] = "sent"]
              /\ by' = [by EXCEPT ![t] = a] /\ a.dir = path
              /\ op' = [op EXCEPT ![t] = o]
              /\ o.kind = "rename" => o.to.dir = path
              /\ ops < MaxOps /\ ops' = ops + 1
  <2>1. PICK a : a = [part |-> part, dir |-> path]
    OBVIOUS
  <2>2. PICK o : o = [kind |-> kind, from |-> f, to |-> g, text |-> x]
    OBVIOUS
  <2>3. a \in Author /\ a.dir = path
    BY <1>2, <2>1 DEF Author
  <2>4. o \in Op /\ (o.kind = "rename" => o.to.dir = path)
    BY <1>3, <2>2 DEF Op
  <2>5. /\ post[t] = "free" /\ post' = [post EXCEPT ![t] = "sent"]
        /\ by' = [by EXCEPT ![t] = a] /\ op' = [op EXCEPT ![t] = o]
        /\ ops < MaxOps /\ ops' = ops + 1
    BY <1>3, <2>1, <2>2 DEF Submit, Act
  <2> QED BY <2>3, <2>4, <2>5, Zenon
<1>4. \A n \in Name : In(path, n) \in File /\ In(path, n).dir = path
  BY <1>2 DEF In, File
<1>5. \A f \in File : f.name \in Name
  BY DEF File
<1>6. {"write", "mkdir", "delete", "rename", "copy", "move"} \subseteq Kinds /\ Empty \in Text
  BY PageAssumption DEF Kinds, Renames
<1>7. CASE \E x \in Text : SaveFile(t, x)
  <2>1. PICK x \in Text : SaveFile(t, x)
    BY <1>7
  <2>2. edit \in File /\ Submit(t, "editor", "write", edit, edit, x)
    BY <1>2, <2>1 DEF SaveFile, DialogsOK
  <2> QED BY <1>3, <1>6, <2>2
<1>8. CASE \E n \in Name : SubmitName(t, n)
  <2>1. PICK n \in Name : SubmitName(t, n)
    BY <1>8
  <2>2. PICK to \in File : to = In(path, n) /\ to.dir = path
    BY <1>4
  <2>3. CASE \E kind \in {"mkdir", "write"} : Submit(t, "names", kind, to, to, Empty)
    <3>1. PICK kind \in {"mkdir", "write"} : Submit(t, "names", kind, to, to, Empty)
      BY <2>3
    <3> QED BY <1>3, <1>6, <2>2, <3>1
  <2>4. CASE dialog.kind = "rename" /\ Submit(t, "names", "rename", dialog.file, to, Empty)
    <3>1. dialog.file \in File
      BY <1>2, <2>4 DEF DialogsOK
    <3> QED BY <1>3, <1>6, <2>2, <2>4, <3>1
  <2> QED BY <2>1, <2>2, <2>3, <2>4 DEF SubmitName
<1>9. CASE ConfirmDelete(t)
  <2>1. dialog.file \in File /\ Submit(t, "delete", "delete", dialog.file, dialog.file, Empty)
    BY <1>2, <1>9 DEF ConfirmDelete, DialogsOK
  <2> QED BY <1>3, <1>6, <2>1
<1>10. CASE PasteHere(t)
  <2>1. clip.kind \in {"copy", "move"} /\ clip.file \in File
    BY <1>2, <1>10 DEF PasteHere, DialogsOK, Clip
  <2>2. PICK g \in File : g = In(path, clip.file.name)
    BY <1>4, <1>5, <2>1
  <2>3. Submit(t, "paste", clip.kind, clip.file, g, Empty)
    BY <1>10, <2>2 DEF PasteHere
  <2> QED BY <1>3, <1>6, <2>1, <2>3
<1> QED BY <1>1, <1>7, <1>8, <1>9, <1>10


(* Answers and failures, and the agent's steps.                            *)
LEMMA AgentFx ==
    ASSUME Types, Agent
    PROVE  /\ op' = op
           /\ \/ \E t \in Task : pc[t] # "none" /\ op[t] \in Op /\ AgentStep(t)
              \/ AgentStops
<1>1. op' = op
  BY DEF Agent, AgentStops, AgentStep, Begin, Unreached, WriteFile, MakeDir, Delete, Refuse,
         Rename, Drain, Drained, RemoveSource, RenameFails, CheckCopy, OpenCopy, FillCopy,
         CopyFails, CleanupFails
<1>2. ASSUME NEW t \in Task, AgentStep(t) PROVE pc[t] # "none"
  BY <1>2 DEF AgentStep, Begin, Unreached, WriteFile, MakeDir, Delete, Refuse,
         Rename, Drain, Drained, RemoveSource, RenameFails, CheckCopy, Copies, OpenCopy, FillCopy,
         CopyFails, CleanupFails, At
<1>3. \A t \in Task : pc[t] # "none" => op[t] \in Op
  BY DEF Types, RequestsOK
<1> QED BY <1>1, <1>2, <1>3 DEF Agent

(* Where a task may go from where it is.                                   *)
LEMMA PcFx ==
    ASSUME NEW t \in Task, AgentStep(t), FilesOK
    PROVE  \E p \in {"lost"} \cup Begun : pc[t] # "none" /\ pc' = [pc EXCEPT ![t] = p]
<1>1. pc[t] # "none"
  BY DEF AgentStep, Begin, Unreached, WriteFile, MakeDir, Delete, Refuse,
         Rename, Drain, Drained, RemoveSource, RenameFails, CheckCopy, Copies, OpenCopy, FillCopy,
         CopyFails, CleanupFails, At
<1>2. \E p \in {"lost"} \cup Begun : pc' = [pc EXCEPT ![t] = p]
  BY DEF AgentStep, Begin, Unreached, WriteFile, MakeDir, Delete, Refuse,
         Rename, Drain, Drained, RemoveSource, RenameFails, CheckCopy, OpenCopy, FillCopy,
         CopyFails, CleanupFails, Go, Begun, Busy
<1> QED BY <1>1, <1>2

LEMMA PcStep ==
    ASSUME Types, Agent
    PROVE  /\ pc' \in [Task -> {"none", "ready", "lost"} \cup Begun]
           /\ \A t \in Task : pc'[t] = "none" <=> pc[t] = "none"
<1>0. pc \in [Task -> {"none", "ready", "lost"} \cup Begun] /\ FilesOK
  BY DEF Types, FilesOK
<1>1. ASSUME NEW t \in Task, AgentStep(t)
      PROVE  /\ pc' \in [Task -> {"none", "ready", "lost"} \cup Begun]
             /\ \A u \in Task : pc'[u] = "none" <=> pc[u] = "none"
  <2>1. PICK p \in {"lost"} \cup Begun : pc[t] # "none" /\ pc' = [pc EXCEPT ![t] = p]
    BY <1>0, <1>1, PcFx
  <2>2. p # "none"
    BY <2>1 DEF Begun, Busy
  <2> QED BY <1>0, <2>1, <2>2
<1>2. CASE AgentStops
  <2>1. pc' = [t \in Task |-> IF pc[t] \in Busy THEN "stopped" ELSE pc[t]]
    BY <1>2 DEF AgentStops
  <2>2. "stopped" \in Begun /\ "none" \notin Busy
    BY DEF Begun, Busy
  <2> QED BY <1>0, <2>1, <2>2
<1> QED BY <1>1, <1>2 DEF Agent

LEMMA RequestsStep == Types /\ [Next]_vars => RequestsOK'
<1> SUFFICES ASSUME Types, [Next]_vars PROVE RequestsOK'
  OBVIOUS
<1>0. RequestsOK /\ pc \in [Task -> {"none", "ready", "lost"} \cup Begun]
  BY DEF Types, FilesOK
<1>1. CASE UNCHANGED <<requests, op, pc>>
  BY <1>0, <1>1 DEF RequestsOK
<1>2. CASE Sending
  <2>1. PICK t \in Task, a \in Author, o \in Op :
              /\ post[t] = "free" /\ post' = [post EXCEPT ![t] = "sent"]
              /\ by' = [by EXCEPT ![t] = a] /\ op' = [op EXCEPT ![t] = o]
    BY <1>2, SendingFx
  <2>2. pc' = pc
    BY <1>2, Frames
  <2>3. post' \in [Task -> {"free", "sent", "taken", "over"}] /\ by' \in [Task -> Author]
    BY <1>0, <2>1 DEF RequestsOK
  <2>4. op' = [u \in Task |-> op'[u]] /\ op'[t] = o /\ \A u \in Task \ {t} : op'[u] = op[u]
    BY <1>0, <2>1, Zenon DEF RequestsOK
  <2>5. \A u \in Task : post'[u] # "free" => op'[u] \in Op
    BY <1>0, <2>1, <2>4 DEF RequestsOK
  <2>6. \A u \in Task : post'[u] \in {"free", "sent"} => pc'[u] = "none"
    BY <1>0, <2>1, <2>2 DEF RequestsOK
  <2> QED BY <2>3, <2>4, <2>5, <2>6 DEF RequestsOK
<1>3. CASE Answering
  <2>1. PICK t \in Task : Taken(t) \/ PostFails(t) \/ PostAnswered(t)
    BY <1>3 DEF Answering
  <2>2. PICK s \in {"taken", "over"} : post' = [post EXCEPT ![t] = s]
    BY <2>1 DEF Taken, PostFails, PostAnswered
  <2>3. post[t] \in {"sent", "taken"}
    BY <2>1 DEF Taken, PostFails, PostAnswered
  <2>4. UNCHANGED <<by, op>>
    BY <1>3, Frames
  <2>5. pc' = pc \/ pc' = [pc EXCEPT ![t] = "ready"]
    BY <2>1 DEF Taken, PostFails, PostAnswered
  <2>6. post' \in [Task -> {"free", "sent", "taken", "over"}]
    BY <1>0, <2>2 DEF RequestsOK
  <2>7. \A u \in Task : post'[u] # "free" => post[u] # "free"
    BY <1>0, <2>2, <2>3 DEF RequestsOK
  <2>8. \A u \in Task : post'[u] \in {"free", "sent"} => pc'[u] = "none"
    BY <1>0, <2>2, <2>5 DEF RequestsOK
  <2> QED BY <1>0, <2>4, <2>6, <2>7, <2>8 DEF RequestsOK
<1>4. CASE Agent
  <2>1. UNCHANGED <<post, by, op>>
    BY <1>4, Frames, AgentFx
  <2>2. \A t \in Task : pc'[t] = "none" <=> pc[t] = "none"
    BY <1>4, PcStep
  <2> QED BY <1>0, <2>1, <2>2 DEF RequestsOK
<1> QED BY <1>1, <1>2, <1>3, <1>4, Steps, Frames

LEMMA FilesStep == Types /\ [Next]_vars => FilesOK'
<1> SUFFICES ASSUME Types, [Next]_vars PROVE FilesOK'
  OBVIOUS
<1>0. FilesOK
  BY DEF Types
<1>1. CASE UNCHANGED <<disk, pc, txt, was>>
  BY <1>0, <1>1 DEF FilesOK
<1>2. CASE Answering
  <2>1. pc' = pc \/ \E t \in Task : pc' = [pc EXCEPT ![t] = "ready"]
    BY <1>2 DEF Answering, Taken, PostFails, PostAnswered
  <2>2. pc' \in [Task -> {"none", "ready", "lost"} \cup Begun]
    BY <1>0, <2>1 DEF FilesOK
  <2> QED BY <1>0, <1>2, <2>2, Frames DEF FilesOK
<1>3. CASE Agent
  <2>1. pc' \in [Task -> {"none", "ready", "lost"} \cup Begun]
    BY <1>3, PcStep
  <2>2. ASSUME NEW t \in Task, op[t] \in Op, AgentStep(t)
        PROVE  /\ disk' \in Tree
               /\ txt' \in [Task -> Content \cup {Absent}]
               /\ was' \in [Task -> Content \cup {Absent}]
    <3>1. From(t) \in File /\ To(t) \in File /\ op[t].text \in Text
      BY <2>2 DEF Op, From, To
    <3>2. disk[From(t)] \in Content \cup {Absent} /\ disk[To(t)] \in Content \cup {Absent}
          /\ txt[t] \in Content \cup {Absent} /\ op[t].text \in Content
          /\ Partial \in Content
      BY <1>0, <3>1 DEF FilesOK, Tree, Content
    <3>3. was' = was \/ was' = [was EXCEPT ![t] = disk[To(t)]]
      BY <2>2 DEF AgentStep, Begin, Unreached, WriteFile, MakeDir, Delete, Refuse,
         Rename, Drain, Drained, RemoveSource, RenameFails, CheckCopy, OpenCopy, FillCopy,
         CopyFails, CleanupFails
    <3>4. txt' = txt \/ txt' = [txt EXCEPT ![t] = disk[From(t)]]
      BY <2>2 DEF AgentStep, Begin, Unreached, WriteFile, MakeDir, Delete, Refuse,
         Rename, Drain, Drained, RemoveSource, RenameFails, CheckCopy, OpenCopy, FillCopy,
         CopyFails, CleanupFails
    <3>5. \/ disk' = disk
          \/ \E f \in {From(t), To(t)}, x \in {op[t].text, Absent, Partial, txt[t]} : Put(f, x)
          \/ disk' = [disk EXCEPT ![From(t)] = Absent, ![To(t)] = disk[From(t)]]
      BY <2>2 DEF AgentStep, Begin, Unreached, WriteFile, MakeDir, Delete, Refuse,
         Rename, Drain, Drained, RemoveSource, RenameFails, CheckCopy, OpenCopy, FillCopy,
         CopyFails, CleanupFails
    <3>6. disk' \in Tree
      BY <1>0, <3>1, <3>2, <3>5 DEF Put, Tree, FilesOK
    <3> QED BY <1>0, <3>2, <3>3, <3>4, <3>6 DEF FilesOK
  <2>3. CASE AgentStops
    BY <1>0, <2>1, <2>3 DEF AgentStops, FilesOK
  <2> QED BY <1>3, <2>1, <2>2, <2>3, AgentFx DEF FilesOK
<1> QED BY <1>1, <1>2, <1>3, Steps, Frames

LEMMA OpsStep == Types /\ [Next]_vars => (ops \in 0 .. MaxOps)'
<1> SUFFICES ASSUME Types, [Next]_vars PROVE ops' \in 0 .. MaxOps
  OBVIOUS
<1>1. ops \in 0 .. MaxOps /\ MaxOps \in Nat
  BY PageAssumption DEF Types
<1>2. Listing => ops' = ops \/ Act
  BY DEF Listing, Navigate, TimerFires, ListArrives, ListFails
<1>3. Opening => ops' = ops \/ Act
  BY DEF Opening, OpenFile, TextArrives, TextFails, OpenMenu, CloseEditor, CloseMenu,
         CloseDialog, OpenDialog, SetClipboard
<1>4. Sending => ops' = ops \/ Act
  BY DEF Sending, SaveFile, SubmitName, ConfirmDelete, PasteHere, Submit
<1>5. Uploading => ops' = ops \/ Act
  BY DEF Uploading, Drop, CleanUp, Settle
<1>6. ops' = ops \/ Act
  BY <1>2, <1>3, <1>4, <1>5, Steps, Frames
<1> QED BY <1>1, <1>6 DEF Act

LEMMA TypesStep == Types /\ [Next]_vars => Types'
BY ViewStep, TimersStep, DialogsStep, UploadsStep, RequestsStep, FilesStep, OpsStep DEF Types

(* Every variable keeps its type.                                          *)
THEOREM TypeCorrect == Spec => []TypeOK
<1> QED BY TypesInit, TypesStep, TypesAre, PTL DEF Spec

(* When no listing is under way, the page shows the directory that was     *)
(* asked for last, unless answers came in another order or that one        *)
(* failed: the last request under way, or the shown directory once there   *)
(* is none, is the one asked for last.                                     *)
THEOREM LastAskedCorrect == Spec => []LastAskedIsShown
<1>1. Init => Settles
  BY DEF Init, Settles
<1>2. Settles => LastAskedIsShown
  BY DEF Settles, LastAskedIsShown
<1> QED BY <1>1, <1>2, TypesInit, TypesStep, SettlesStep, PTL DEF Spec


-----------------------------------------------------------------------------
(* Uploads.                                                                *)

LEMMA ListedStep == Types /\ UploadingStaysListed /\ [Next]_vars => UploadingStaysListed'
<1> SUFFICES ASSUME Types, UploadingStaysListed, [Next]_vars,
                    NEW c \in Batch, at'[c] \in 1 .. Size
             PROVE  listed'[<<c, at'[c]>>] = "uploading"
  BY DEF UploadingStaysListed
<1>0. UploadsOK /\ Size \in Nat \ {0}
  BY PageAssumption DEF Types
<1>1. at[c] \in 1 .. Size => listed[<<c, at[c]>>] = "uploading"
  BY DEF UploadingStaysListed
<1>2. CASE UNCHANGED uploads
  BY <1>1, <1>2
<1>3. ASSUME NEW b \in Batch, Drop(b) PROVE listed'[<<c, at'[c]>>] = "uploading"
  <2>1. <<b, 1>> \in Job
    BY <1>0 DEF Job
  <2>2. CASE c = b
    <3>1. at'[c] = 1
      BY <1>0, <1>3, <2>2 DEF Drop, UploadsOK
    <3> QED BY <1>0, <1>3, <2>1, <2>2, <3>1 DEF Drop, UploadsOK
  <2>3. CASE c # b
    <3>1. at'[c] = at[c]
      BY <1>0, <1>3, <2>3 DEF Drop, UploadsOK
    <3>2. <<c, at[c]>> \in Job /\ <<c, at[c]>> # <<b, 1>>
      BY <2>3, <3>1 DEF Job
    <3> QED BY <1>0, <1>1, <1>3, <3>1, <3>2 DEF Drop, UploadsOK
  <2> QED BY <2>2, <2>3
<1>4. ASSUME NEW b \in Batch, NEW outcome \in {"done", "error"}, Settle(b, outcome)
      PROVE  listed'[<<c, at'[c]>>] = "uploading"
  <2>1. PICK i \in 1 .. Size :
           /\ i = at[b] /\ at' = [at EXCEPT ![b] = i + 1]
           /\ listed' = [j \in Job |-> IF j = <<b, i>> THEN outcome
                                      ELSE IF j = <<b, i + 1>> THEN "uploading" ELSE listed[j]]
    BY <1>4 DEF Settle
  <2>2. <<c, at'[c]>> \in Job
    BY DEF Job
  <2>3. CASE c = b
    <3>1. at'[c] = i + 1 /\ i + 1 # i
      BY <1>0, <2>1, <2>3 DEF UploadsOK
    <3> QED BY <2>1, <2>2, <2>3, <3>1
  <2>4. CASE c # b
    <3>1. at'[c] = at[c]
      BY <1>0, <2>1, <2>4 DEF UploadsOK
    <3> QED BY <1>1, <2>1, <2>2, <2>4, <3>1
  <2> QED BY <2>3, <2>4
<1>5. ASSUME NEW b \in Batch, CleanUp(b) PROVE listed'[<<c, at'[c]>>] = "uploading"
  <2>1. at' = at /\ <<c, at[c]>> \in Job
    BY <1>5 DEF CleanUp, Job
  <2> QED BY <1>1, <1>5, <2>1 DEF CleanUp
<1>6. Uploading => listed'[<<c, at'[c]>>] = "uploading"
  BY <1>3, <1>4, <1>5 DEF Uploading
<1> QED BY <1>2, <1>6, Steps, Frames

(* The file that a drop is uploading stays on the list as such, though the *)
(* timers of other drops clear the list meanwhile: no other drop lists it, *)
(* and the timers leave what is uploading.                                 *)
THEOREM UploadsCorrect == Spec => []UploadingStaysListed
<1>1. Init => UploadingStaysListed
  BY PageAssumption DEF Init, UploadingStaysListed
<1> QED BY <1>1, TypesInit, TypesStep, ListedStep, PTL DEF Spec


-----------------------------------------------------------------------------
(* A rename that opened at rest: whatever comes meanwhile, a listing, a    *)
(* reload, an answer or the end of a drop, is about the shown directory.   *)

AllHere ==
    /\ \A k \in DOMAIN loads : loads[k] = path
    /\ \A r \in timers : r.dir = path
    /\ \A t \in Task : post[t] \in {"sent", "taken"} => by[t].dir = path
    /\ \A b \in Batch : at[b] \in 1 .. Size => target[b] = path

Stays == fresh => dialog.kind = "rename" /\ dialog.file.dir = path /\ AllHere

LEMMA StaysStep == Types /\ Settles /\ Stays /\ [Next]_vars => Stays'
<1> SUFFICES ASSUME Types, Settles, Stays, [Next]_vars, fresh'
             PROVE  /\ dialog'.kind = "rename" /\ dialog'.file.dir = path'
                    /\ AllHere'
  BY DEF Stays
<1>0. ViewOK /\ timers \subseteq Timer /\ UploadsOK /\ RequestsOK /\ items = path
  BY DEF Types, Settles
<1>1. CASE ~fresh
  <2>1. PICK kind \in Named \cup {"delete"}, f \in File \cup {NoFile} : OpenDialog(kind, f)
    <3>1. ~Answering
      BY <1>1 DEF Answering, Taken, PostFails, PostAnswered, Continue
    <3>2. Opening
      BY <1>1, <3>1, Steps, Frames
    <3> QED BY <1>1, <3>2 DEF Opening, OpenFile, TextArrives, TextFails, OpenMenu, CloseEditor,
               CloseMenu, CloseDialog, SetClipboard
  <2>2. kind = "rename" /\ AtRest /\ f.dir = path /\ dialog' = [kind |-> kind, file |-> f]
    BY <1>0, <2>1 DEF OpenDialog, Shown
  <2>3. UNCHANGED <<view, timers, uploads, requests>>
    BY <2>1 DEF OpenDialog
  <2>4. AllHere
    BY <1>0, <2>2, PageAssumption DEF AtRest, AllHere
  <2>5. AllHere'
    BY <2>3, <2>4 DEF AllHere
  <2> QED BY <2>2, <2>3, <2>5
<1>2. CASE fresh
  <2>0. dialog.kind = "rename" /\ dialog.file.dir = path /\ AllHere
    BY <1>2 DEF Stays
  <2>1. ~Uncovered
    BY <2>0 DEF Uncovered, NoDialog
  <2>2. CASE UNCHANGED <<path, loads, timers, requests, at, target, dialog>>
    BY <2>0, <2>2 DEF AllHere
  <2>3. ASSUME NEW d, d = path, Ask(d), timers' \subseteq timers, dialog' = dialog
        PROVE  /\ dialog'.kind = "rename" /\ dialog'.file.dir = path'
               /\ \A k \in DOMAIN loads' : loads'[k] = path'
               /\ \A r \in timers' : r.dir = path'
    <3>1. path' = path /\ loads' = Append(loads, path) /\ loads \in Seq(Dir)
      BY <1>0, <2>3 DEF Ask, ViewOK
    <3>2. \A k \in DOMAIN loads' : loads'[k] = path
      BY <2>0, <3>1 DEF AllHere
    <3> QED BY <2>0, <2>3, <3>1, <3>2 DEF AllHere
  <2>4. CASE Listing
    <3>1. UNCHANGED <<requests, at, target, dialog>>
      BY <2>4, Frames
    <3>2. ASSUME NEW r \in timers, TimerFires(r) PROVE AllHere' /\ path' = path
      <4>1. r.dir = path /\ Ask(r.dir) /\ timers' \subseteq timers /\ path' = path
        BY <2>0, <3>2 DEF AllHere, TimerFires, Ask
      <4>2. /\ \A k \in DOMAIN loads' : loads'[k] = path'
            /\ \A s \in timers' : s.dir = path'
        BY <2>3, <3>1, <4>1
      <4> QED BY <2>0, <3>1, <4>1, <4>2 DEF AllHere
    <3>3. ASSUME NEW i \in DOMAIN loads, ListArrives(i) \/ ListFails(i)
          PROVE  AllHere' /\ path' = path
      <4>1. path' = path /\ timers' = timers /\ loads' = RemoveAt(loads, i)
        BY <2>0, <3>3 DEF ListArrives, ListFails, Answered, AllHere
      <4>2. \A j \in DOMAIN loads : \A q : q = RemoveAt(loads, j) =>
             /\ q \in Seq(Dir) /\ Len(q) = Len(loads) - 1
             /\ \A k \in 1 .. Len(q) : q[k] = IF k < j THEN loads[k] ELSE loads[k + 1]
        BY <1>0, Removed DEF ViewOK
      <4>3. i \in DOMAIN loads
        OBVIOUS
      <4>4. PICK q : q = loads'
        OBVIOUS
      <4>5. q = RemoveAt(loads, i)
        BY <4>1, <4>4
      <4>6. /\ q \in Seq(Dir) /\ Len(q) = Len(loads) - 1
            /\ \A k \in 1 .. Len(q) : q[k] = IF k < i THEN loads[k] ELSE loads[k + 1]
        BY <4>2, <4>3, <4>5, Zenon
      <4>7. \A k \in DOMAIN q : q[k] = path
        <5>1. DOMAIN q = 1 .. Len(q) /\ DOMAIN loads = 1 .. Len(loads) /\ Len(loads) \in Nat
          BY <1>0, <4>6 DEF ViewOK
        <5> QED BY <2>0, <4>6, <5>1 DEF AllHere
      <4> QED BY <2>0, <3>1, <4>1, <4>4, <4>7 DEF AllHere
    <3> QED BY <2>0, <2>1, <2>4, <3>1, <3>2, <3>3 DEF Listing, Navigate
  <2>5. CASE Opening
    <3>1. dialog' = dialog
      BY <2>1, <2>5 DEF Opening, OpenFile, TextArrives, TextFails, OpenMenu, CloseEditor,
               CloseMenu, CloseDialog, OpenDialog, SetClipboard
    <3> QED BY <2>2, <2>5, <3>1, Frames
  <2>6. CASE Sending
    <3>1. PICK t \in Task, a \in Author :
              /\ post[t] = "free" /\ post' = [post EXCEPT ![t] = "sent"]
              /\ by' = [by EXCEPT ![t] = a] /\ a.dir = path
      BY <2>6, SendingFx
    <3>2. UNCHANGED <<view, timers, uploads, dialog>>
      BY <2>6, Frames
    <3>3. \A u \in Task : post'[u] \in {"sent", "taken"} => by'[u].dir = path
      BY <1>0, <2>0, <3>1 DEF RequestsOK, AllHere
    <3> QED BY <2>0, <3>2, <3>3 DEF AllHere
  <2>7. CASE Answering
    <3>1. PICK t \in Task : Taken(t) \/ PostFails(t) \/ PostAnswered(t)
      BY <2>7 DEF Answering
    <3>2. UNCHANGED <<uploads, by>>
      BY <2>7, Frames
    <3>3. PICK s \in {"taken", "over"} : post' = [post EXCEPT ![t] = s] /\ post[t] \in {"sent", "taken"}
      BY <3>1 DEF Taken, PostFails, PostAnswered
    <3>4. by[t].dir = path
      BY <2>0, <3>3 DEF AllHere
    <3>5. \A u \in Task : post'[u] \in {"sent", "taken"} => by'[u].dir = path
      BY <1>0, <2>0, <3>2, <3>3, <3>4 DEF RequestsOK, AllHere
    <3>6. /\ dialog' = dialog /\ path' = path
          /\ \A k \in DOMAIN loads' : loads'[k] = path'
          /\ \A r \in timers' : r.dir = path'
      <4>1. CASE Taken(t) \/ PostFails(t)
        BY <2>0, <4>1 DEF Taken, PostFails, AllHere
      <4>2. CASE PostAnswered(t) /\ by[t].part = "editor"
        <5>1. Ask(by[t].dir) /\ UNCHANGED <<timers, dialog>>
          BY <4>2 DEF PostAnswered, Continue
        <5>2. path' = path
          BY <5>1 DEF Ask
        <5> QED BY <2>3, <3>4, <5>1, <5>2
      <4>3. CASE PostAnswered(t) /\ by[t].part # "editor"
        <5>1. view' = view /\ timers' = timers \cup {[of |-> t, dir |-> by[t].dir]}
          BY <4>3 DEF PostAnswered, Continue, ReloadLater
        <5>2. dialog' = dialog
          BY <2>0, <4>3 DEF PostAnswered, Continue, NoDialog
        <5> QED BY <2>0, <3>4, <5>1, <5>2 DEF AllHere
      <4> QED BY <3>1, <4>1, <4>2, <4>3
    <3> QED BY <2>0, <3>2, <3>5, <3>6 DEF AllHere
  <2>8. CASE Uploading
    <3>1. UNCHANGED <<view, dialogs, requests>>
      BY <2>8, Frames
    <3>2. ASSUME NEW b \in Batch, Drop(b) PROVE AllHere'
      <4>1. \A c \in Batch : at'[c] \in 1 .. Size => target'[c] = path
        BY <1>0, <2>0, <3>2 DEF Drop, UploadsOK, AllHere
      <4> QED BY <2>0, <3>1, <3>2, <4>1 DEF Drop, AllHere
    <3>3. ASSUME NEW b \in Batch, NEW outcome \in {"done", "error"}, Settle(b, outcome)
          PROVE  AllHere'
      <4>1. at[b] \in 1 .. Size /\ target' = target /\ target[b] = path
        BY <2>0, <3>3 DEF Settle, AllHere
      <4>2. \A c \in Batch \ {b} : at'[c] = at[c]
        BY <1>0, <3>3 DEF Settle, UploadsOK
      <4>3. timers' = timers \/ timers' = timers \cup {[of |-> b, dir |-> target[b]]}
        BY <3>3 DEF Settle, ReloadLater
      <4>4. \A c \in Batch : at'[c] \in 1 .. Size => target'[c] = path
        BY <2>0, <4>1, <4>2 DEF AllHere
      <4> QED BY <2>0, <3>1, <4>1, <4>3, <4>4 DEF AllHere
    <3>4. ASSUME NEW b \in Batch, CleanUp(b) PROVE AllHere'
      BY <2>0, <3>1, <3>4 DEF CleanUp, AllHere
    <3> QED BY <2>0, <2>8, <3>1, <3>2, <3>3, <3>4 DEF Uploading
  <2> QED BY <2>2, <2>4, <2>5, <2>6, <2>7, <2>8, Steps, Frames
<1> QED BY <1>1, <1>2

(* A rename keeps the file in its directory: the dialog lies over the page *)
(* and, once it is at rest, whatever comes meanwhile is about the shown    *)
(* directory.                                                              *)
THEOREM RenamesCorrect == Spec => []RenameStays
<1>1. Init => Stays /\ Settles
  BY DEF Init, Stays, Settles
<1>2. Stays => RenameStays
  BY DEF Stays, RenameStays
<1> QED BY <1>1, <1>2, TypesInit, TypesStep, SettlesStep, StaysStep, PTL DEF Spec


-----------------------------------------------------------------------------
(* The agent's file actions.                                               *)

(* What a task asks for is settled before the agent has it.                *)
LEMMA Settled ==
    ASSUME Types, [Next]_vars, NEW t \in Task, pc[t] # "none"
    PROVE  op'[t] = op[t] /\ op[t] \in Op /\ pc'[t] # "none"
<1>0. RequestsOK /\ pc \in [Task -> {"none", "ready", "lost"} \cup Begun]
  BY DEF Types, FilesOK
<1>1. post[t] # "free" /\ op[t] \in Op
  BY <1>0 DEF RequestsOK
<1>2. CASE UNCHANGED <<op, pc>>
  BY <1>1, <1>2
<1>3. CASE Sending
  <2>1. PICK u \in Task, o \in Op : post[u] = "free" /\ op' = [op EXCEPT ![u] = o]
    BY <1>3, SendingFx
  <2>2. op'[t] = op[t]
    BY <1>0, <1>1, <2>1 DEF RequestsOK
  <2> QED BY <1>1, <1>3, <2>2, Frames
<1>4. CASE Answering
  <2>1. op' = op
    BY <1>4, Frames
  <2>2. pc' = pc \/ \E u \in Task : pc' = [pc EXCEPT ![u] = "ready"]
    BY <1>4 DEF Answering, Taken, PostFails, PostAnswered
  <2> QED BY <1>0, <1>1, <2>1, <2>2
<1>5. CASE Agent
  BY <1>1, <1>5, AgentFx, PcStep
<1> QED BY <1>2, <1>3, <1>4, <1>5, Steps, Frames

(* A task touches the two files it names, and no other.                    *)
LEMMA TouchFx ==
    ASSUME NEW u \in Task, AgentStep(u), FilesOK, op[u] \in Op,
           NEW f \in File \ Touches(u)
    PROVE  disk'[f] = disk[f]
<1>1. From(u) \in File /\ To(u) \in File /\ f # From(u) /\ f # To(u)
  BY DEF Op, From, To, Touches
<1>2. \/ disk' = disk
      \/ \E g \in {From(u), To(u)} : \E x : Put(g, x)
      \/ disk' = [disk EXCEPT ![From(u)] = Absent, ![To(u)] = disk[From(u)]]
  BY DEF AgentStep, Begin, Unreached, WriteFile, MakeDir, Delete, Refuse,
         Rename, Drain, Drained, RemoveSource, RenameFails, CheckCopy, OpenCopy, FillCopy,
         CopyFails, CleanupFails
<1> QED BY <1>1, <1>2 DEF Put, FilesOK, Tree

(* And its step is in no other task's record.                              *)
LEMMA OwnFx ==
    ASSUME NEW u \in Task, AgentStep(u), FilesOK, NEW t \in Task \ {u}
    PROVE  pc'[t] = pc[t] /\ txt'[t] = txt[t] /\ was'[t] = was[t]
<1>1. pc'[t] = pc[t]
  BY PcFx DEF FilesOK
<1>2. txt' = txt \/ txt' = [txt EXCEPT ![u] = disk[From(u)]]
  BY DEF AgentStep, Begin, Unreached, WriteFile, MakeDir, Delete, Refuse,
         Rename, Drain, Drained, RemoveSource, RenameFails, CheckCopy, OpenCopy, FillCopy,
         CopyFails, CleanupFails
<1>3. was' = was \/ was' = [was EXCEPT ![u] = disk[To(u)]]
  BY DEF AgentStep, Begin, Unreached, WriteFile, MakeDir, Delete, Refuse,
         Rename, Drain, Drained, RemoveSource, RenameFails, CheckCopy, OpenCopy, FillCopy,
         CopyFails, CleanupFails
<1> QED BY <1>1, <1>2, <1>3 DEF FilesOK

(* A step, for a task that is alone with its files.                        *)
LEMMA TaskFx ==
    ASSUME Types, [Next]_vars, NEW t \in Task, pc'[t] \in Begun, Alone(t)'
    PROVE  /\ op'[t] = op[t] /\ op[t] \in Op /\ Alone(t)
           /\ \/ AgentStep(t)
              \/ /\ pc'[t] = pc[t] /\ txt'[t] = txt[t] /\ was'[t] = was[t]
                 /\ disk'[From(t)] = disk[From(t)] /\ disk'[To(t)] = disk[To(t)]
              \/ /\ pc[t] \in Busy /\ pc'[t] = "stopped"
                 /\ UNCHANGED <<disk, txt, was>>
<1>0. FilesOK /\ pc \in [Task -> {"none", "ready", "lost"} \cup Begun]
  BY DEF Types, FilesOK
<1>1. pc[t] # "none" /\ (~Agent => UNCHANGED <<disk, txt, was>> /\ pc'[t] = pc[t])
  <2>1. CASE Answering
    <3>1. \/ pc' = pc
          \/ \E u \in Task : pc[u] = "none" /\ pc' = [pc EXCEPT ![u] = "ready"]
      BY <2>1 DEF Answering, Taken, PostFails, PostAnswered, Types, RequestsOK
    <3>2. pc'[t] = pc[t]
      BY <1>0, <3>1 DEF Begun, Busy
    <3>3. pc[t] # "none"
      BY <3>2 DEF Begun, Busy
    <3> QED BY <2>1, <3>2, <3>3, Frames
  <2>2. CASE Agent
    <3>1. pc'[t] # "none"
      BY DEF Begun, Busy
    <3> QED BY <2>2, <3>1, PcStep
  <2>3. CASE UNCHANGED <<disk, pc, txt, was>>
    <3>1. pc[t] # "none"
      BY <2>3 DEF Begun, Busy
    <3> QED BY <2>3, <3>1
  <2> QED BY <2>1, <2>2, <2>3, Steps, Frames
<1>2. op'[t] = op[t] /\ op[t] \in Op
  BY <1>1, Settled
<1>3. Alone(t)
  <2>1. ASSUME NEW u \in Task \ {t}, pc[u] # "none" PROVE Touches(u) \cap Touches(t) = {}
    <3>1. op'[u] = op[u] /\ pc'[u] # "none"
      BY <2>1, Settled
    <3>2. Touches(u)' \cap Touches(t)' = {}
      BY <3>1 DEF Alone
    <3> QED BY <1>2, <3>1, <3>2 DEF Touches, From, To
  <2> QED BY <2>1 DEF Alone
<1>4. CASE Agent
  <2>1. ASSUME NEW u \in Task \ {t}, pc[u] # "none", op[u] \in Op, AgentStep(u)
        PROVE  /\ pc'[t] = pc[t] /\ txt'[t] = txt[t] /\ was'[t] = was[t]
               /\ disk'[From(t)] = disk[From(t)] /\ disk'[To(t)] = disk[To(t)]
    <3>1. From(t) \notin Touches(u) /\ To(t) \notin Touches(u)
      BY <1>3, <2>1 DEF Alone, Touches
    <3>2. From(t) \in File /\ To(t) \in File
      BY <1>2 DEF Op, From, To
    <3> QED BY <1>0, <2>1, <3>1, <3>2, TouchFx, OwnFx
  <2>2. CASE AgentStops
    <3>1. UNCHANGED <<disk, txt, was>> /\ pc'[t] = IF pc[t] \in Busy THEN "stopped" ELSE pc[t]
      BY <2>2 DEF AgentStops
    <3> QED BY <3>1, <1>2, <1>3
  <2>3. CASE \E u \in Task : pc[u] # "none" /\ op[u] \in Op /\ AgentStep(u)
    <3>1. PICK u \in Task : pc[u] # "none" /\ op[u] \in Op /\ AgentStep(u)
      BY <2>3
    <3>2. CASE u = t
      BY <1>2, <1>3, <3>1, <3>2, Zenon
    <3>3. CASE u # t
      BY <1>2, <1>3, <2>1, <3>1, <3>3, Zenon
    <3> QED BY <3>2, <3>3, Zenon
  <2>4. (\E u \in Task : pc[u] # "none" /\ op[u] \in Op /\ AgentStep(u)) \/ AgentStops
    BY <1>4, AgentFx, Zenon
  <2> QED BY <2>2, <2>3, <2>4, <1>2, <1>3, Zenon
<1> QED BY <1>1, <1>2, <1>3, <1>4

(* A rename or a move that is alone with its files: until it removes the   *)
(* source, the source is whole, and it removes it only when the copy is.   *)
Moving(t) ==
    /\ pc[t] \in Busy \cup {"failed", "littered", "stopped"} => disk[From(t)] = txt[t]
    /\ pc[t] \in {"draining", "drained", "cleared", "copying", "copied"} => From(t) # To(t)
    /\ pc[t] \in {"drained", "copied", "done"} => disk[To(t)] = txt[t]

MovesOK == \A t \in Task : pc[t] \in Begun /\ Kind(t) \in Renames /\ Alone(t) => Moving(t)

LEMMA MovesStep == Types /\ MovesOK /\ [Next]_vars => MovesOK'
<1> SUFFICES ASSUME Types, MovesOK, [Next]_vars, NEW t \in Task,
                    pc'[t] \in Begun, Kind(t)' \in Renames, Alone(t)'
             PROVE  Moving(t)'
  BY DEF MovesOK
<1>1. op'[t] = op[t] /\ op[t] \in Op /\ Alone(t)
  BY TaskFx
<1>2. /\ From(t)' = From(t) /\ To(t)' = To(t) /\ Kind(t)' = Kind(t)
      /\ From(t) \in File /\ To(t) \in File /\ Kind(t) \in Renames
  BY <1>1 DEF From, To, Kind, Op
<1>3. pc[t] \in Begun => Moving(t)
  BY <1>1, <1>2 DEF MovesOK
<1>0. FilesOK
  BY DEF Types
<1>4. /\ pc[t] \in {"none", "ready", "lost"} \cup Begun
      /\ \A x : (pc' = [pc EXCEPT ![t] = x]) => pc'[t] = x
      /\ \A x : (txt' = [txt EXCEPT ![t] = x]) => txt'[t] = x
      /\ \A f, g \in File : \A x :
            Put(f, x) => disk'[f] = x /\ (g # f => disk'[g] = disk[g])
  BY <1>0 DEF FilesOK, Tree, Put
<1>5. CASE /\ pc'[t] = pc[t] /\ txt'[t] = txt[t] /\ was'[t] = was[t]
           /\ disk'[From(t)] = disk[From(t)] /\ disk'[To(t)] = disk[To(t)]
  BY <1>2, <1>3, <1>5 DEF Moving
<1>6. CASE /\ pc[t] \in Busy /\ pc'[t] = "stopped" /\ UNCHANGED <<disk, txt, was>>
  BY <1>2, <1>3, <1>6 DEF Moving, Begun, Busy
<1>7. CASE AgentStep(t)
  <2>1. CASE Begin(t)
    BY <1>2, <1>4, <2>1 DEF Begin, Go, Moving, Busy
  <2>2. CASE Unreached(t) \/ WriteFile(t) \/ MakeDir(t)
    BY <1>2, <1>4, <2>2 DEF Unreached, WriteFile, MakeDir, Go, Renames, Begun, Busy
  <2>3. CASE Delete(t) \/ Refuse(t)
    BY <1>2, <1>3, <1>4, <2>3 DEF Delete, Refuse, At, Go, Renames, Moving, Begun, Busy
  <2>4. CASE Rename(t)
    <3>1. pc'[t] = "done" /\ pc[t] = "begun" /\ txt' = txt
      BY <1>4, <2>4 DEF Rename, Go, At
    <3>2. disk'[To(t)] = disk[From(t)]
      BY <1>0, <1>2, <2>4 DEF Rename, FilesOK, Tree
    <3>3. disk[From(t)] = txt[t]
      BY <1>3, <3>1 DEF Moving, Begun, Busy
    <3> QED BY <1>2, <3>1, <3>2, <3>3 DEF Moving, Busy
  <2>5. CASE Drain(t)
    BY <1>2, <1>3, <1>4, <2>5 DEF Drain, At, Go, Moving, Begun, Busy
  <2>6. CASE Drained(t)
    BY <1>2, <1>3, <1>4, <2>6 DEF Drained, At, Go, Moving, Begun, Busy
  <2>7. CASE RemoveSource(t)
    BY <1>2, <1>3, <1>4, <2>7 DEF RemoveSource, At, Go, Moving, Begun, Busy
  <2>8. CASE RenameFails(t)
    BY <1>2, <1>3, <1>4, <2>8 DEF RenameFails, Go, Moving, Begun, Busy
  <2>9. CASE CheckCopy(t)
    BY <1>2, <1>3, <1>4, <2>9 DEF CheckCopy, Copies, At, Go, Moving, Begun, Busy
  <2>10. CASE OpenCopy(t)
    BY <1>2, <1>3, <1>4, <2>10 DEF OpenCopy, At, Go, Moving, Begun, Busy
  <2>11. CASE FillCopy(t)
    BY <1>2, <1>3, <1>4, <2>11 DEF FillCopy, At, Go, Moving, Begun, Busy
  <2>12. CASE CopyFails(t)
    BY <1>2, <1>3, <1>4, <2>12 DEF CopyFails, Go, Moving, Begun, Busy
  <2>13. CASE CleanupFails(t)
    BY <1>2, <1>3, <1>4, <2>13 DEF CleanupFails, Go, Moving, Begun, Busy
  <2> QED BY <1>7, <2>1, <2>2, <2>3, <2>4, <2>5, <2>6, <2>7, <2>8, <2>9, <2>10, <2>11, <2>12, <2>13
          DEF AgentStep
<1> QED BY <1>5, <1>6, <1>7, TaskFx

(* A rename or a move never loses the file, whatever step fails and        *)
(* wherever the agent stops: the source is removed only once its text is   *)
(* whole under the new name.                                               *)
THEOREM MovesCorrect == Spec => []MoveKeepsText
<1>1. Init => MovesOK
  BY DEF Init, AgentInit, MovesOK, Begun, Busy
<1>2. MovesOK => MoveKeepsText
  BY DEF MovesOK, Moving, MoveKeepsText, Begun
<1> QED BY <1>1, <1>2, TypesInit, TypesStep, MovesStep, PTL DEF Spec

(* A copy that is alone with its files: it writes only where it found      *)
(* nothing, and has cleaned up when it fails, if it could.                 *)
Copying(t) ==
    /\ disk[From(t)] = txt[t]
    /\ pc[t] \notin {"draining", "drained", "refused", "copied"}
    /\ pc[t] \in {"cleared", "copying", "done"} => From(t) # To(t)
    /\ pc[t] \in {"cleared", "copying", "littered"} => was[t] = Absent
    /\ pc[t] \in {"cleared", "copying", "littered"} => disk[To(t)] \in {Absent, Partial}
    /\ pc[t] \in {"begun", "failed"} => disk[To(t)] = was[t]
    /\ pc[t] = "done" => disk[To(t)] = txt[t]

CopiesOK == \A t \in Task : pc[t] \in Begun /\ Kind(t) = "copy" /\ Alone(t) => Copying(t)

LEMMA CopiesStep == Types /\ CopiesOK /\ [Next]_vars => CopiesOK'
<1> SUFFICES ASSUME Types, CopiesOK, [Next]_vars, NEW t \in Task,
                    pc'[t] \in Begun, Kind(t)' = "copy", Alone(t)'
             PROVE  Copying(t)'
  BY DEF CopiesOK
<1>1. op'[t] = op[t] /\ op[t] \in Op /\ Alone(t)
  BY TaskFx
<1>2. /\ From(t)' = From(t) /\ To(t)' = To(t) /\ Kind(t)' = Kind(t)
      /\ From(t) \in File /\ To(t) \in File /\ Kind(t) = "copy"
  BY <1>1 DEF From, To, Kind, Op
<1>3. pc[t] \in Begun => Copying(t)
  BY <1>1, <1>2 DEF CopiesOK
<1>0. FilesOK
  BY DEF Types
<1>4. /\ \A x : (pc' = [pc EXCEPT ![t] = x]) => pc'[t] = x
      /\ \A x : (txt' = [txt EXCEPT ![t] = x]) => txt'[t] = x
      /\ \A x : (was' = [was EXCEPT ![t] = x]) => was'[t] = x
      /\ \A f, g \in File : \A x :
            Put(f, x) => disk'[f] = x /\ (g # f => disk'[g] = disk[g])
  BY <1>0 DEF FilesOK, Tree, Put
<1>5. CASE /\ pc'[t] = pc[t] /\ txt'[t] = txt[t] /\ was'[t] = was[t]
           /\ disk'[From(t)] = disk[From(t)] /\ disk'[To(t)] = disk[To(t)]
  BY <1>2, <1>3, <1>5 DEF Copying
<1>6. CASE /\ pc[t] \in Busy /\ pc'[t] = "stopped" /\ UNCHANGED <<disk, txt, was>>
  BY <1>2, <1>3, <1>6 DEF Copying, Begun, Busy
<1>7. CASE AgentStep(t)
  <2>1. CASE Begin(t)
    BY <1>2, <1>4, <2>1 DEF Begin, Go, Copying
  <2>2. CASE Unreached(t) \/ WriteFile(t) \/ MakeDir(t) \/ Rename(t) \/ Drain(t)
    BY <1>2, <1>4, <2>2 DEF Unreached, WriteFile, MakeDir, Rename, Drain, Go, Renames, Begun, Busy
  <2>3. CASE Delete(t) \/ Refuse(t) \/ Drained(t) \/ RemoveSource(t) \/ RenameFails(t)
    BY <1>2, <1>3, <2>3 DEF Delete, Refuse, Drained, RemoveSource, RenameFails, At, Renames,
       Copying, Begun, Busy
  <2>4. CASE CheckCopy(t)
    <3>1. pc[t] = "begun"
      BY <1>2, <1>3, <2>4 DEF CheckCopy, Copies, At, Copying, Begun, Busy
    <3> QED BY <1>2, <1>3, <1>4, <2>4, <3>1 DEF CheckCopy, Go, Copying, Begun, Busy
  <2>5. CASE OpenCopy(t)
    BY <1>2, <1>3, <1>4, <2>5 DEF OpenCopy, At, Go, Copying, Begun, Busy
  <2>6. CASE FillCopy(t)
    <3>1. /\ pc'[t] = "done" /\ txt' = txt /\ was' = was
          /\ From(t) # To(t) /\ disk[From(t)] = txt[t]
      BY <1>2, <1>3, <1>4, <2>6 DEF FillCopy, At, Go, Copying, Begun, Busy
    <3>2. disk'[To(t)] = txt[t] /\ disk'[From(t)] = disk[From(t)]
      BY <1>2, <1>4, <2>6, <3>1 DEF FillCopy
    <3> QED BY <1>2, <3>1, <3>2 DEF Copying
  <2>7. CASE CopyFails(t)
    BY <1>2, <1>3, <1>4, <2>7 DEF CopyFails, Go, Copying, Begun, Busy
  <2>8. CASE CleanupFails(t)
    BY <1>2, <1>3, <1>4, <2>8 DEF CleanupFails, Go, Copying, Begun, Busy
  <2> QED BY <1>7, <2>1, <2>2, <2>3, <2>4, <2>5, <2>6, <2>7, <2>8 DEF AgentStep
<1> QED BY <1>5, <1>6, <1>7, TaskFx

(* A copy that fails leaves the destination as it was, unless its clean-up *)
(* fails too and there was no file; one that succeeds leaves its text in   *)
(* both, and no copy touches its source.                                   *)
THEOREM CopiesCorrect == Spec => []CopyOverwritesNothing
<1>1. Init => CopiesOK
  BY DEF Init, AgentInit, CopiesOK, Begun, Busy
<1>2. CopiesOK => CopyOverwritesNothing
  BY DEF CopiesOK, Copying, CopyOverwritesNothing
<1> QED BY <1>1, <1>2, TypesInit, TypesStep, CopiesStep, PTL DEF Spec
=============================================================================
