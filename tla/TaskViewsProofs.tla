----------------------------- MODULE TaskViewsProofs -----------------------------
(***************************************************************************)
(* Theorems about TaskViews: the progress modal shows its own task; types. *)
(***************************************************************************)
EXTENDS TaskViews, TLAPS

USE DEF forms, progress, taskPage, bounds, vars

-----------------------------------------------------------------------------
(* Types of what the modal depends on.                                     *)

Handler == [kind : FlowKind \cup {"none"}, phase : {"idle", "posting", "posted", "binding", "bound"},
            binds : BOOLEAN, task : Nat, home : BOOLEAN]
Poller == [task : Nat, phase : {"due", "asked", "over"}, stop : BOOLEAN,
           got : Status \cup {"none"}, hit : BOOLEAN, over : BOOLEAN]

Types ==
    /\ status \in Seq(Status) /\ flow \in [Flow -> Handler]
    /\ poller \in Seq(Poller) /\ modal \in Nat /\ modal <= Len(poller)

(* The handlers that know their task.                                      *)
Knows(f) == flow[f].phase \in {"posted", "binding", "bound"}

(* Only the open modal's poller is heard, and pollers and the handlers     *)
(* that may still open a modal are about tasks of the table.               *)
Own ==
    /\ \A p \in DOMAIN poller : poller[p].stop <=> p # modal
    /\ \A p \in DOMAIN poller : poller[p].task \in 1 .. Len(status)
    /\ \A f \in Flow : Knows(f) => flow[f].task \in 1 .. Len(status)

Inv == Types /\ Own /\ ShowsItsOwn

LEMMA InvInit == Init => Inv
<1> SUFFICES ASSUME Init PROVE Inv
  OBVIOUS
<1>1. NoFlow \in Handler /\ NoFlow.phase = "idle"
  BY DEF NoFlow, Handler, FlowKind, Dialog
<1>2. Types
  BY <1>1 DEF Init, Types
<1>3. Own
  BY <1>1 DEF Init, Own, Knows, Nothing
<1> QED BY <1>2, <1>3 DEF Inv, Init, ShowsItsOwn

-----------------------------------------------------------------------------
(* What the actions do to it.                                              *)

Polling == \E p \in DOMAIN poller : Poll(p) \/ PollArrives(p) \/ PollFails(p)
Ledger == Elsewhere \/ \E t \in DOMAIN status : Proceed(t)
Handling ==
    \E f \in Flow :
       \/ \E kind \in FlowKind, binds \in BOOLEAN : Submit(f, kind, binds)
       \/ Posted(f) \/ Binds(f) \/ Queued(f) \/ PostFails(f)

LEMMA Steps ==
    ASSUME [Next]_vars
    PROVE  \/ Polling \/ Ledger \/ Handling \/ CloseProgress
           \/ \E to \in Page : GoTo(to)
           \/ UNCHANGED <<status, flow, progress>>
<1>1. CASE Next
  <2>1. ASSUME \/ \E kind \in Dialog : OpenDialog(kind)
               \/ CloseDialog
               \/ \E s \in List : LoadTasks(s) \/ ListArrives(s) \/ ListFails(s)
               \/ \E t \in DOMAIN tasks : ViewDetails(t)
               \/ CloseDetails
        PROVE  UNCHANGED <<status, flow, progress>>
    BY <2>1 DEF OpenDialog, CloseDialog, LoadTasks, ListArrives, ListFails, ViewDetails, CloseDetails
  <2> QED BY <1>1, <2>1, Zenon DEF Next, Polling, Ledger, Handling
<1> QED BY <1>1

(* The ledger: rows come at the end, and keep their places.                *)
LEMMA LedgerFx ==
    ASSUME Types, Ledger
    PROVE  status' \in Seq(Status) /\ Len(status') >= Len(status) /\ UNCHANGED <<flow, progress>>
<1>0. status \in Seq(Status) /\ Len(status) \in Nat
  BY DEF Types
<1>1. CASE Elsewhere
  <2>1. status' = Append(status, "queued") /\ "queued" \in Status
    BY <1>1 DEF Elsewhere, Create, Status
  <2>2. Len(status') = Len(status) + 1 /\ status' \in Seq(Status)
    BY <1>0, <2>1
  <2> QED BY <1>0, <1>1, <2>2 DEF Elsewhere
<1>2. ASSUME NEW t \in DOMAIN status, Proceed(t)
      PROVE  status' \in Seq(Status) /\ Len(status') = Len(status) /\ UNCHANGED <<flow, progress>>
  <2>1. PICK s : status' = [status EXCEPT ![t] = s] /\ s \in Status
    BY <1>2, ProgressAssumption DEF Proceed, Status, Terminal
  <2>2. status' \in Seq(Status) /\ Len(status') = Len(status)
    BY <1>0, <2>1
  <2> QED BY <1>2, <2>2 DEF Proceed
<1> QED BY <1>0, <1>1, <1>2 DEF Ledger

LEMMA LedgerStep == Inv /\ Ledger => Inv'
<1> SUFFICES ASSUME Inv, Ledger PROVE Inv'
  OBVIOUS
<1>1. Types /\ Own /\ ShowsItsOwn
  BY DEF Inv
<1>2. status' \in Seq(Status) /\ Len(status') >= Len(status) /\ UNCHANGED <<flow, progress>>
  BY <1>1, LedgerFx
<1>3. Types' /\ ShowsItsOwn'
  BY <1>1, <1>2 DEF Types, ShowsItsOwn
<1>4. Len(status) \in Nat /\ Len(status') \in Nat
  BY <1>1, <1>2 DEF Types
<1>5. \A n \in 1 .. Len(status) : n \in 1 .. Len(status')
  BY <1>2, <1>4
<1>6. Own'
  BY <1>1, <1>2, <1>5 DEF Own, Knows
<1> QED BY <1>3, <1>6 DEF Inv

(* A poller asks, and hears the answer.                                    *)
LEMMA PollingStep == Inv /\ Polling => Inv'
<1> SUFFICES ASSUME Inv, NEW p \in DOMAIN poller, Poll(p) \/ PollArrives(p) \/ PollFails(p)
             PROVE  Inv'
  BY DEF Polling
<1>1. Types /\ Own /\ ShowsItsOwn
  BY DEF Inv
<1>2. /\ poller \in Seq(Poller) /\ modal \in Nat /\ modal <= Len(poller)
      /\ DOMAIN poller = 1 .. Len(poller) /\ poller[p] \in Poller
  BY <1>1 DEF Types
<1>3. UNCHANGED <<status, flow, modal>>
  BY DEF Poll, PollArrives, PollFails
<1>4. PICK r \in Poller :
         /\ poller' = [poller EXCEPT ![p] = r]
         /\ r.task = poller[p].task /\ r.stop = poller[p].stop /\ r.over = poller[p].over
         /\ \/ r.hit = poller[p].hit /\ shown' = shown
            \/ r.hit /\ ~r.stop /\ shown'.task = r.task
  <2>1. CASE Poll(p)
    <3>1. PICK g \in Status \cup {"none"} :
             poller' = [poller EXCEPT ![p].phase = "asked", ![p].got = g]
      <4>1. poller[p].task \in Newest => status[poller[p].task] \in Status
        BY <1>1 DEF Types, Newest
      <4> QED BY <2>1, <4>1 DEF Poll
    <3>2. PICK r : r = [poller[p] EXCEPT !.phase = "asked", !.got = g]
      OBVIOUS
    <3>3. r \in Poller /\ r.task = poller[p].task /\ r.stop = poller[p].stop /\ r.hit = poller[p].hit
          /\ r.over = poller[p].over
      BY <1>2, <3>2 DEF Poller
    <3>4. poller' = [poller EXCEPT ![p] = r]
      BY <1>2, <3>1, <3>2
    <3> QED BY <2>1, <3>3, <3>4 DEF Poll
  <2>2. CASE PollArrives(p)
    <3>1. PICK ph \in {"due", "asked", "over"}, h \in BOOLEAN :
             /\ poller' = [poller EXCEPT ![p].phase = ph, ![p].hit = @ \/ h]
             /\ h => ~poller[p].stop /\ shown'.task = poller[p].task
             /\ ~h => shown' = shown
      BY <2>2 DEF PollArrives, After
    <3>2. PICK r : r = [poller[p] EXCEPT !.phase = ph, !.hit = @ \/ h]
      OBVIOUS
    <3>3. r \in Poller /\ r.task = poller[p].task /\ r.stop = poller[p].stop
          /\ r.over = poller[p].over /\ (h => r.hit) /\ (~h => r.hit = poller[p].hit)
      BY <1>2, <3>2 DEF Poller
    <3>4. poller' = [poller EXCEPT ![p] = r]
      BY <1>2, <3>1, <3>2
    <3>5. CASE h
      BY <3>1, <3>3, <3>4, <3>5, Zenon
    <3>6. CASE ~h
      BY <3>1, <3>3, <3>4, <3>6, Zenon
    <3> QED BY <3>5, <3>6, Zenon
  <2>3. CASE PollFails(p)
    <3>1. PICK ph \in {"due", "asked", "over"} : poller' = [poller EXCEPT ![p].phase = ph]
      BY <2>3 DEF PollFails, After
    <3>2. PICK r : r = [poller[p] EXCEPT !.phase = ph]
      OBVIOUS
    <3>3. r \in Poller /\ r.task = poller[p].task /\ r.stop = poller[p].stop /\ r.hit = poller[p].hit
          /\ r.over = poller[p].over
      BY <1>2, <3>2 DEF Poller
    <3>4. poller' = [poller EXCEPT ![p] = r]
      BY <1>2, <3>1, <3>2
    <3> QED BY <2>3, <3>3, <3>4 DEF PollFails
  <2> QED BY <2>1, <2>2, <2>3
<1>5. /\ poller' \in Seq(Poller) /\ Len(poller') = Len(poller) /\ DOMAIN poller' = DOMAIN poller
      /\ poller'[p] = r /\ \A q \in DOMAIN poller : q # p => poller'[q] = poller[q]
  BY <1>2, <1>4
<1>6. \A q \in DOMAIN poller : poller'[q].task = poller[q].task /\ poller'[q].stop = poller[q].stop
  BY <1>4, <1>5
<1>7. Types'
  BY <1>1, <1>3, <1>5 DEF Types
<1>8. ~r.stop => p = modal /\ modal # 0
  BY <1>1, <1>2, <1>4 DEF Own
<1>9. Own'
  BY <1>1, <1>3, <1>5, <1>6 DEF Own, Knows
<1>10. ShowsItsOwn'
  <2>1. CASE p = modal
    BY <1>1, <1>2, <1>3, <1>4, <1>5, <2>1 DEF ShowsItsOwn
  <2>2. CASE p # modal
    <3>1. shown' = shown
      BY <1>4, <1>8, <2>2
    <3>2. modal # 0 => modal \in DOMAIN poller /\ poller'[modal] = poller[modal]
      BY <1>2, <1>5, <2>2
    <3> QED BY <1>1, <1>3, <3>1, <3>2 DEF ShowsItsOwn
  <2> QED BY <2>1, <2>2
<1> QED BY <1>7, <1>9, <1>10 DEF Inv

(* A handler of a dialog: where it may go.                                 *)
LEMMA HandlingFx ==
    ASSUME Inv, NEW f \in Flow, NEW r \in Handler, flow' = [flow EXCEPT ![f] = r],
           UNCHANGED <<status, progress>>,
           r.phase \in {"posted", "binding", "bound"} => Knows(f) /\ r.task = flow[f].task
    PROVE  Inv'
<1>1. Types /\ Own /\ ShowsItsOwn
  BY DEF Inv
<1>2. flow' \in [Flow -> Handler] /\ flow'[f] = r /\ \A g \in Flow : g # f => flow'[g] = flow[g]
  BY <1>1 DEF Types
<1>3. Types' /\ ShowsItsOwn'
  BY <1>1, <1>2 DEF Types, ShowsItsOwn
<1>4. \A g \in Flow : Knows(g)' => Knows(g) /\ flow'[g].task = flow[g].task
  BY <1>2 DEF Knows
<1>5. Own'
  BY <1>1, <1>4 DEF Own
<1> QED BY <1>3, <1>5 DEF Inv

LEMMA HandlingStep == Inv /\ Handling => Inv'
<1> SUFFICES ASSUME Inv, NEW f \in Flow,
                    \/ \E kind \in FlowKind, binds \in BOOLEAN : Submit(f, kind, binds)
                    \/ Posted(f) \/ Binds(f) \/ Queued(f) \/ PostFails(f)
             PROVE  Inv'
  BY DEF Handling
<1>1. Types /\ Own /\ ShowsItsOwn
  BY DEF Inv
<1>2. /\ flow \in [Flow -> Handler] /\ flow[f] \in Handler
      /\ status \in Seq(Status) /\ Len(status) \in Nat /\ poller \in Seq(Poller)
      /\ Len(poller) \in Nat /\ DOMAIN poller = 1 .. Len(poller)
  BY <1>1 DEF Types
<1>3. NoFlow \in Handler /\ NoFlow.phase = "idle"
  BY DEF NoFlow, Handler, FlowKind, Dialog
<1>4. CASE \E kind \in FlowKind, binds \in BOOLEAN : Submit(f, kind, binds)
  <2>1. PICK kind \in FlowKind, binds \in BOOLEAN : Submit(f, kind, binds)
    BY <1>4
  <2>2. PICK r : r = [NoFlow EXCEPT !.kind = kind, !.phase = "posting",
                                    !.binds = binds, !.home = TRUE]
    OBVIOUS
  <2>3. r \in Handler /\ r.phase = "posting"
    BY <2>2 DEF NoFlow, Handler, FlowKind, Dialog
  <2>4. flow' = [flow EXCEPT ![f] = r] /\ UNCHANGED <<status, progress>>
    BY <2>1, <2>2 DEF Submit
  <2> QED BY <2>3, <2>4, HandlingFx
<1>5. CASE Binds(f)
  <2>1. PICK r : r = [flow[f] EXCEPT !.phase = "binding"]
    OBVIOUS
  <2>2. r \in Handler /\ r.task = flow[f].task
    BY <1>2, <2>1 DEF Handler
  <2>3. flow' = [flow EXCEPT ![f] = r] /\ UNCHANGED <<status, progress>> /\ Knows(f)
    BY <1>2, <1>5, <2>1 DEF Binds, Knows
  <2> QED BY <2>2, <2>3, HandlingFx
<1>6. CASE PostFails(f)
  BY <1>3, <1>6, HandlingFx DEF PostFails
<1>7. CASE Posted(f)
  <2>1. status' = Append(status, "queued") /\ UNCHANGED progress /\ "queued" \in Status
    BY <1>7 DEF Posted, Create, Status
  <2>2. PICK n \in Nat : n = Len(status) + 1
    BY <1>2
  <2>3. status' \in Seq(Status) /\ Len(status') = n /\ \A k \in 1 .. Len(status) : k \in 1 .. n /\ k # n
    BY <1>2, <2>1, <2>2
  <2>4. PICK ph \in {"posted", "bound"}, t \in Nat :
           /\ flow' = [flow EXCEPT ![f].phase = ph, ![f].task = t]
           /\ t = n \/ (Knows(f) /\ t = flow[f].task)
    BY <1>2, <1>7, <2>3 DEF Posted, Knows, Handler
  <2>5. PICK r : r = [flow[f] EXCEPT !.phase = ph, !.task = t]
    OBVIOUS
  <2>6. r \in Handler /\ r.task = t
    BY <1>2, <2>5 DEF Handler
  <2>7. flow' = [flow EXCEPT ![f] = r]
    BY <1>2, <2>4, <2>5
  <2>8. flow' \in [Flow -> Handler] /\ flow'[f] = r /\ \A g \in Flow : g # f => flow'[g] = flow[g]
    BY <1>2, <2>6, <2>7
  <2>9. Types' /\ ShowsItsOwn'
    BY <1>1, <2>1, <2>3, <2>8 DEF Types, ShowsItsOwn
  <2>10. ASSUME NEW g \in Flow, Knows(g)'
         PROVE  flow'[g].task = n \/ (Knows(g) /\ flow'[g].task = flow[g].task)
    BY <2>4, <2>6, <2>8, <2>10 DEF Knows
  <2>11. n \in 1 .. n /\ \A p \in DOMAIN poller : poller[p].task \in 1 .. n
    BY <1>1, <2>2, <2>3 DEF Own
  <2>12. \A g \in Flow : Knows(g) => flow[g].task \in 1 .. n
    BY <1>1, <2>3 DEF Own
  <2>13. \A g \in Flow : Knows(g)' => flow'[g].task \in 1 .. n
    BY <2>10, <2>11, <2>12
  <2>14. Own'
    BY <1>1, <2>1, <2>3, <2>11, <2>13 DEF Own
  <2> QED BY <2>9, <2>14 DEF Inv
<1>8. CASE Queued(f)
  <2>1. flow' = [flow EXCEPT ![f] = NoFlow] /\ status' = status /\ Knows(f)
    BY <1>8 DEF Queued, Knows
  <2>2. CASE UNCHANGED progress
    BY <1>3, <2>1, <2>2, HandlingFx
  <2>3. CASE ShowProgress(flow[f].task)
    <3>1. PICK t : t = flow[f].task /\ t \in Nat
      BY <1>2 DEF Handler
    <3>2. PICK n \in Nat : n = Len(poller) + 1
      BY <1>2
    <3>3. /\ NewPoll(t) \in Poller /\ NewPoll(t).task = t /\ ~NewPoll(t).stop /\ ~NewPoll(t).hit
          /\ NewPoll(t).over <=> modal # 0
      BY <3>1 DEF NewPoll, Poller
    <3>4. /\ Stopped \in Seq(Poller) /\ Len(Stopped) = Len(poller)
          /\ \A p \in DOMAIN poller : Stopped[p].task = poller[p].task /\ Stopped[p].stop
      <4>1. CASE modal = 0
        BY <1>1, <1>2, <4>1 DEF Stopped, Own
      <4>2. CASE modal # 0
        <5>1. modal \in DOMAIN poller /\ poller[modal] \in Poller
          BY <1>1, <1>2, <4>2 DEF Types
        <5>2. PICK r : r = [poller[modal] EXCEPT !.stop = TRUE]
          OBVIOUS
        <5>3. r \in Poller /\ r.task = poller[modal].task /\ r.stop
          BY <5>1, <5>2 DEF Poller
        <5>4. Stopped = [poller EXCEPT ![modal] = r]
          BY <1>2, <4>2, <5>1, <5>2 DEF Stopped
        <5>5. /\ Stopped \in Seq(Poller) /\ Len(Stopped) = Len(poller) /\ Stopped[modal] = r
              /\ \A p \in DOMAIN poller : p # modal => Stopped[p] = poller[p]
          BY <1>2, <5>1, <5>3, <5>4
        <5>6. \A p \in DOMAIN poller : p # modal => poller[p].stop
          BY <1>1 DEF Own
        <5> QED BY <5>3, <5>5, <5>6
      <4> QED BY <4>1, <4>2
    <3>5. /\ poller' \in Seq(Poller) /\ Len(poller') = n /\ modal' = n
          /\ poller'[n] = NewPoll(t)
          /\ \A p \in DOMAIN poller : poller'[p] = Stopped[p]
      <4>1. poller' = Append(Stopped, NewPoll(t)) /\ modal' = Len(poller')
        BY <2>3, <3>1 DEF ShowProgress
      <4> QED BY <1>2, <3>2, <3>3, <3>4, <4>1
    <3>6. /\ DOMAIN poller' = 1 .. n /\ n # 0 /\ n \in 1 .. n
          /\ \A p \in 1 .. n : p # n => p \in DOMAIN poller
          /\ \A p \in DOMAIN poller : p \in 1 .. n /\ p # n
      BY <1>2, <3>2, <3>5
    <3>7. flow' \in [Flow -> Handler] /\ \A g \in Flow : Knows(g)' => Knows(g) /\ flow'[g] = flow[g]
      BY <1>2, <1>3, <2>1 DEF Knows
    <3>8. Types'
      BY <1>2, <2>1, <3>5, <3>7 DEF Types
    <3>9. \A p \in DOMAIN poller : poller'[p].task = poller[p].task /\ poller'[p].stop
      BY <3>4, <3>5
    <3>10. t \in 1 .. Len(status)
      BY <1>1, <2>1, <3>1 DEF Own
    <3>11. \A p \in DOMAIN poller' : (poller'[p].stop <=> p # modal')
      BY <3>3, <3>5, <3>6, <3>9
    <3>12. \A p \in DOMAIN poller' : poller'[p].task \in 1 .. Len(status')
      BY <1>1, <2>1, <3>3, <3>5, <3>6, <3>9, <3>10 DEF Own
    <3>13. \A g \in Flow : Knows(g)' => flow'[g].task \in 1 .. Len(status')
      BY <1>1, <2>1, <3>7 DEF Own
    <3>14. Own'
      BY <3>11, <3>12, <3>13 DEF Own
    <3>15. modal = 0 => shown' = Nothing
      BY <2>3 DEF ShowProgress
    <3>16. ShowsItsOwn'
      BY <3>3, <3>5, <3>15 DEF ShowsItsOwn
    <3> QED BY <3>8, <3>14, <3>16 DEF Inv
  <2> QED BY <1>8, <2>2, <2>3 DEF Queued
<1> QED BY <1>4, <1>5, <1>6, <1>7, <1>8

(* The modal closes.                                                       *)
LEMMA CloseStep == Inv /\ CloseProgress => Inv'
<1> SUFFICES ASSUME Inv, CloseProgress PROVE Inv'
  OBVIOUS
<1>1. Types /\ Own
  BY DEF Inv
<1>2. /\ poller \in Seq(Poller) /\ modal \in DOMAIN poller /\ poller[modal] \in Poller
      /\ DOMAIN poller = 1 .. Len(poller)
  BY <1>1 DEF CloseProgress, Types
<1>3. PICK r : r = [poller[modal] EXCEPT !.stop = TRUE]
  OBVIOUS
<1>4. r \in Poller /\ r.task = poller[modal].task /\ r.stop
  BY <1>2, <1>3 DEF Poller
<1>5. /\ poller' = [poller EXCEPT ![modal] = r] /\ modal' = 0 /\ shown'.task = 0
      /\ UNCHANGED <<status, flow>>
  BY <1>2, <1>3 DEF CloseProgress, Stopped, Nothing
<1>6. /\ poller' \in Seq(Poller) /\ Len(poller') = Len(poller) /\ DOMAIN poller' = DOMAIN poller
      /\ poller'[modal] = r /\ \A p \in DOMAIN poller : p # modal => poller'[p] = poller[p]
  BY <1>2, <1>4, <1>5
<1>7. \A p \in DOMAIN poller : poller'[p].task = poller[p].task /\ poller'[p].stop
  BY <1>1, <1>4, <1>6 DEF Own
<1>8. Types' /\ ShowsItsOwn'
  BY <1>1, <1>5, <1>6 DEF Types, ShowsItsOwn
<1>9. \A p \in DOMAIN poller : p # 0
  BY <1>2
<1>10. Own'
  BY <1>1, <1>5, <1>6, <1>7, <1>9 DEF Own, Knows
<1> QED BY <1>8, <1>10 DEF Inv

(* The page changes: its handlers go on, away from it.                     *)
LEMMA PageStep == Inv /\ (\E to \in Page : GoTo(to)) => Inv'
<1> SUFFICES ASSUME Inv, NEW to \in Page, GoTo(to) PROVE Inv'
  OBVIOUS
<1>1. Types /\ Own /\ ShowsItsOwn
  BY DEF Inv
<1>2. flow' = [f \in Flow |-> [flow[f] EXCEPT !.home = FALSE]] /\ UNCHANGED <<status, progress>>
  BY DEF GoTo
<1>3. ASSUME NEW f \in Flow
      PROVE  flow'[f] \in Handler /\ flow'[f].phase = flow[f].phase /\ flow'[f].task = flow[f].task
  BY <1>1, <1>2 DEF Types, Handler
<1>4. Types' /\ ShowsItsOwn'
  BY <1>1, <1>2, <1>3 DEF Types, ShowsItsOwn
<1>5. \A f \in Flow : (Knows(f)' <=> Knows(f)) /\ flow'[f].task = flow[f].task
  BY <1>3 DEF Knows
<1>6. Own'
  BY <1>1, <1>2, <1>5 DEF Own
<1> QED BY <1>4, <1>6 DEF Inv

LEMMA InvStep == Inv /\ [Next]_vars => Inv'
<1>1. Inv /\ UNCHANGED <<status, flow, progress>> => Inv'
  BY DEF Inv, Types, Own, Knows, ShowsItsOwn
<1> QED BY <1>1, Steps, PollingStep, LedgerStep, HandlingStep, CloseStep, PageStep

LEMMA InvInvariant == Spec => []Inv
BY InvInit, InvStep, PTL DEF Spec

(* The open modal shows its own task or nothing, but the task of the modal *)
(* it came over until the first answer with its own: only the poller of    *)
(* the open modal is heard, in whatever order handlers of closed and       *)
(* reopened dialogs end.                                                   *)
THEOREM ProgressCorrect == Spec => []ShowsItsOwn
<1>1. Inv => ShowsItsOwn
  BY DEF Inv
<1> QED BY <1>1, InvInvariant, PTL

-----------------------------------------------------------------------------
(* Types of the rest: of the page, and of what the page of tasks shows.    *)

(* A list of tasks is a part of the table, or was.                         *)
PartOf(list) == DOMAIN list \subseteq DOMAIN status /\ \A t \in DOMAIN list : list[t] \in Status

Bounded ==
    /\ page \in Page /\ dialog \in Dialog \cup {"none"} /\ busy \subseteq Flow
    /\ Len(status) <= MaxTasks /\ Len(poller) <= MaxModals
    /\ losses \in 0 .. MaxLosses /\ clicks \in 0 .. MaxClicks
Numbered ==
    /\ \A f \in Flow : flow[f].task <= Len(status)
    /\ shown \in [task : 0 .. MaxTasks, status : Status \cup {"none"}]
Listed ==
    /\ DOMAIN lists = List /\ \A s \in List : PartOf(lists[s].got)
    /\ PartOf(tasks)
    /\ detail # Nothing => detail.task \in DOMAIN status /\ detail.status \in Status
Rest == Bounded /\ Numbered /\ Listed

LEMMA SeqOf ==
    ASSUME NEW S, NEW T, NEW q \in Seq(S), \A i \in DOMAIN q : q[i] \in T
    PROVE  q \in Seq(T)
OBVIOUS

LEMMA EmptyPart == PartOf(<< >>)
<1>1. DOMAIN << >> = {}
  OBVIOUS
<1> QED BY <1>1 DEF PartOf

LEMMA RestInit == Init => Rest
<1> SUFFICES ASSUME Init PROVE Rest
  OBVIOUS
<1>1. Bounded
  BY ProgressAssumption DEF Init, Bounded, Page
<1>2. Numbered
  BY ProgressAssumption DEF Init, Numbered, NoFlow, Nothing
<1>3. Listed
  BY EmptyPart DEF Init, Listed, Unasked
<1> QED BY <1>1, <1>2, <1>3 DEF Rest

(* The table only grows.                                                   *)
LEMMA StatusFx ==
    ASSUME Types, Len(status) <= MaxTasks, [Next]_vars
    PROVE  /\ status' \in Seq(Status) /\ Len(status') <= MaxTasks
           /\ Len(status) <= Len(status') /\ DOMAIN status \subseteq DOMAIN status'
<1>0. status \in Seq(Status) /\ Len(status) \in Nat /\ DOMAIN status = 1 .. Len(status)
  BY DEF Types
<1>1. \/ status' = status
      \/ Create
      \/ \E t \in DOMAIN status, s \in Status : status' = [status EXCEPT ![t] = s]
  <2>1. ASSUME NEW t \in DOMAIN status, Proceed(t)
        PROVE  \E s \in Status : status' = [status EXCEPT ![t] = s]
    BY <2>1, ProgressAssumption DEF Proceed, Status, Terminal
  <2>2. ASSUME NEW f \in Flow, NEW kind \in FlowKind, NEW binds \in BOOLEAN, Submit(f, kind, binds)
        PROVE  status' = status
    BY <2>2 DEF Submit
  <2>3. ASSUME NEW f \in Flow, Binds(f) \/ Queued(f) \/ PostFails(f)
        PROVE  status' = status
    BY <2>3 DEF Binds, Queued, PostFails
  <2>4. ASSUME NEW p \in DOMAIN poller, Poll(p) \/ PollArrives(p) \/ PollFails(p)
        PROVE  status' = status
    BY <2>4 DEF Poll, PollArrives, PollFails
  <2>5. CASE Next
    BY <2>1, <2>2, <2>3, <2>4, <2>5 DEF Next, Elsewhere, Posted, GoTo, OpenDialog, CloseDialog,
       CloseProgress, LoadTasks, ListArrives, ListFails, ViewDetails, CloseDetails
  <2> QED BY <2>5
<1>2. CASE Create
  <2>1. Len(status) < MaxTasks /\ status' = Append(status, "queued") /\ "queued" \in Status
    BY <1>2 DEF Create, Status
  <2>2. status' \in Seq(Status) /\ Len(status') = Len(status) + 1
    <3>1. status \in Seq(Status) /\ Len(status) \in Nat /\ status' = Append(status, "queued") /\ "queued" \in Status
      BY <1>0, <2>1
    <3> QED BY <3>1
  <2>3. Len(status') <= MaxTasks
    <3>1. Len(status) \in Nat /\ MaxTasks \in Nat /\ Len(status) < MaxTasks /\ Len(status') = Len(status) + 1
      BY <1>0, <2>1, <2>2, ProgressAssumption
    <3> QED BY <3>1
  <2> QED BY <1>0, <2>2, <2>3
<1>3. ASSUME NEW t \in DOMAIN status, NEW s \in Status, status' = [status EXCEPT ![t] = s]
      PROVE  status' \in Seq(Status) /\ Len(status') = Len(status)
  BY <1>0, <1>3
<1> QED BY <1>0, <1>1, <1>2, <1>3

LEMMA BoundedStep == Inv /\ Inv' /\ Bounded /\ [Next]_vars => Bounded'
<1> SUFFICES ASSUME Inv, Inv', Bounded, [Next]_vars PROVE Bounded'
  OBVIOUS
<1>1. Len(status') <= MaxTasks
  BY StatusFx DEF Inv, Bounded
<1>2. losses' \in 0 .. MaxLosses /\ clicks' \in 0 .. MaxClicks
  <2>1. Lost \/ Click \/ UNCHANGED bounds
    <3>1. ASSUME NEW f \in Flow, NEW kind \in FlowKind, NEW binds \in BOOLEAN, Submit(f, kind, binds)
          PROVE  Click
      BY <3>1 DEF Submit
    <3>2. CASE Next
      BY <3>1, <3>2 DEF Next, Elsewhere, Proceed, GoTo, OpenDialog, CloseDialog, CloseProgress,
         Posted, Binds, Queued, PostFails, Poll, PollArrives, PollFails, LoadTasks, ListArrives,
         ListFails, ViewDetails, CloseDetails
    <3> QED BY <3>2
  <2> QED BY <2>1, ProgressAssumption DEF Lost, Click, Bounded
<1>3. page' \in Page /\ dialog' \in Dialog \cup {"none"} /\ busy' \subseteq Flow
  <2>1. ASSUME NEW f \in Flow, NEW kind \in FlowKind, NEW binds \in BOOLEAN, Submit(f, kind, binds)
        PROVE  UNCHANGED <<page, dialog>> /\ busy' \subseteq busy \cup {f}
    BY <2>1 DEF Submit
  <2>2. CASE Next
    BY <2>1, <2>2 DEF Bounded, Next, Elsewhere, Proceed, GoTo, OpenDialog, CloseDialog, CloseProgress,
       Posted, Binds, Queued, PostFails, Poll, PollArrives, PollFails, LoadTasks, ListArrives,
       ListFails, ViewDetails, CloseDetails
  <2> QED BY <2>2 DEF Bounded
<1>4. Len(poller') <= MaxModals
  <2>1. \/ Len(poller') = Len(poller)
        \/ Len(poller) < MaxModals /\ Len(poller') = Len(poller) + 1
    <3>0. poller \in Seq(Poller) /\ Len(poller) \in Nat
      BY DEF Inv, Types
    <3>1. ASSUME NEW p \in DOMAIN poller, Poll(p) \/ PollArrives(p) \/ PollFails(p)
          PROVE  Len(poller') = Len(poller)
      <4>1. DOMAIN poller' = DOMAIN poller
        BY <3>1 DEF Poll, PollArrives, PollFails
      <4> QED BY <3>0, <4>1 DEF Inv, Types
    <3>2. Len(Stopped) = Len(poller) /\ Stopped \in Seq(Poller \cup {Stopped[modal]})
      <4>1. CASE modal = 0
        BY <3>0, <4>1 DEF Stopped
      <4>2. CASE modal # 0
        <5>1. modal \in DOMAIN poller
          BY <4>2 DEF Inv, Types
        <5> QED BY <3>0, <4>2, <5>1 DEF Stopped
      <4> QED BY <4>1, <4>2
    <3>3. ASSUME NEW f \in Flow, Queued(f)
          PROVE  \/ Len(poller') = Len(poller)
                 \/ Len(poller) < MaxModals /\ Len(poller') = Len(poller) + 1
      BY <3>0, <3>2, <3>3 DEF Queued, ShowProgress
    <3>4. CASE CloseProgress
      BY <3>2, <3>4 DEF CloseProgress
    <3>5. ASSUME Ledger \/ (\E to \in Page : GoTo(to))
          PROVE  poller' = poller
      BY <3>5 DEF Ledger, Elsewhere, Proceed, GoTo
    <3>6. ASSUME NEW f \in Flow, NEW kind \in FlowKind, NEW binds \in BOOLEAN, Submit(f, kind, binds)
          PROVE  poller' = poller
      BY <3>6 DEF Submit
    <3>7. ASSUME NEW f \in Flow, Posted(f) \/ Binds(f) \/ PostFails(f)
          PROVE  poller' = poller
      BY <3>7 DEF Posted, Binds, PostFails
    <3> QED BY <3>1, <3>3, <3>4, <3>5, <3>6, <3>7, Steps DEF Polling, Handling
  <2> QED BY <2>1, ProgressAssumption DEF Inv, Types, Bounded
<1> QED BY <1>1, <1>2, <1>3, <1>4 DEF Bounded

LEMMA NumberedStep == Inv /\ Inv' /\ Bounded /\ Numbered /\ [Next]_vars => Numbered'
<1> SUFFICES ASSUME Inv, Inv', Bounded, Numbered, [Next]_vars PROVE Numbered'
  OBVIOUS
<1>0. /\ flow \in [Flow -> Handler] /\ flow' \in [Flow -> Handler] /\ Len(status) \in Nat
      /\ Len(status') \in Nat /\ Len(status) <= Len(status') /\ Len(status) <= MaxTasks
      /\ poller' \in Seq(Poller) /\ poller \in Seq(Poller)
  BY StatusFx DEF Inv, Types, Bounded
<1>1. ASSUME NEW f \in Flow PROVE flow'[f].task <= Len(status')
  <2>1. flow'[f].task \in {0, flow[f].task, Len(status')}
    <3>1. ASSUME NEW g \in Flow, NEW kind \in FlowKind, NEW binds \in BOOLEAN, Submit(g, kind, binds)
          PROVE  flow'[f].task \in {0, flow[f].task}
      BY <1>0, <3>1 DEF Submit, NoFlow
    <3>2. ASSUME NEW g \in Flow, Posted(g)
          PROVE  flow'[f].task \in {flow[f].task, Len(status')}
      BY <1>0, <3>2 DEF Posted, Handler
    <3>3. ASSUME NEW g \in Flow, Binds(g) \/ Queued(g) \/ PostFails(g)
          PROVE  flow'[f].task \in {0, flow[f].task}
      BY <1>0, <3>3 DEF Binds, Queued, PostFails, NoFlow, Handler
    <3>4. ASSUME NEW to \in Page, GoTo(to) PROVE flow'[f].task = flow[f].task
      BY <1>0, <3>4 DEF GoTo, Handler
    <3>5. ASSUME Polling \/ Ledger \/ CloseProgress PROVE flow' = flow
      BY <3>5 DEF Polling, Poll, PollArrives, PollFails, Ledger, Elsewhere, Proceed, CloseProgress
    <3> QED BY <3>1, <3>2, <3>3, <3>4, <3>5, Steps DEF Handling
  <2>2. flow[f].task \in Nat /\ flow[f].task <= Len(status)
    BY <1>0 DEF Numbered, Handler
  <2> QED BY <1>0, <2>1, <2>2
<1>2. shown' \in [task : 0 .. MaxTasks, status : Status \cup {"none"}]
  <2> DEFINE Shown == [task : 0 .. MaxTasks, status : Status \cup {"none"}]
  <2>0. Nothing \in Shown /\ shown \in Shown
    BY ProgressAssumption DEF Nothing, Numbered
  <2>1. ASSUME NEW p \in DOMAIN poller, PollArrives(p) PROVE shown' \in Shown
    <3>1. poller[p] \in Poller /\ poller[p].task \in 1 .. Len(status)
      BY <1>0 DEF Inv, Own
    <3>2. poller[p].task \in 0 .. MaxTasks /\ poller[p].got \in Status \cup {"none"}
      BY <1>0, <3>1, ProgressAssumption DEF Poller
    <3>3. shown' \in {shown, [task |-> poller[p].task, status |-> poller[p].got]}
      BY <2>1 DEF PollArrives
    <3> QED BY <2>0, <3>2, <3>3
  <2>2. ASSUME NEW p \in DOMAIN poller, Poll(p) \/ PollFails(p) PROVE shown' = shown
    BY <2>2 DEF Poll, PollFails
  <2>3. ASSUME NEW f \in Flow, NEW kind \in FlowKind, NEW binds \in BOOLEAN, Submit(f, kind, binds)
        PROVE  shown' = shown
    BY <2>3 DEF Submit
  <2>4. ASSUME NEW f \in Flow, Posted(f) \/ Binds(f) \/ Queued(f) \/ PostFails(f)
        PROVE  shown' \in {shown, Nothing}
    BY <2>4 DEF Posted, Binds, Queued, PostFails, ShowProgress
  <2>5. ASSUME Ledger \/ CloseProgress \/ (\E to \in Page : GoTo(to)) PROVE shown' \in {shown, Nothing}
    BY <2>5 DEF Ledger, Elsewhere, Proceed, CloseProgress, GoTo
  <2> HIDE DEF Shown
  <2>6. shown' \in Shown
    BY <2>0, <2>1, <2>2, <2>3, <2>4, <2>5, Steps DEF Polling, Handling
  <2> QED BY <2>6 DEF Shown
<1> QED BY <1>1, <1>2 DEF Numbered

LEMMA ListedStep == Inv /\ Inv' /\ Bounded /\ Listed /\ [Next]_vars => Listed'
<1> SUFFICES ASSUME Inv, Inv', Bounded, Listed, [Next]_vars PROVE Listed'
  OBVIOUS
<1>0. status \in Seq(Status) /\ status' \in Seq(Status) /\ DOMAIN status \subseteq DOMAIN status'
  BY StatusFx DEF Inv, Types, Bounded
<1>p. \A list : PartOf(list) => PartOf(list)'
  BY <1>0 DEF PartOf
<1>e. PartOf(<< >>)'
  BY EmptyPart, <1>p
<1>1. CASE UNCHANGED taskPage
  BY <1>0, <1>1, <1>p DEF Listed
<1>2. ASSUME NEW to \in Page, GoTo(to) PROVE Listed'
  BY <1>2, <1>e DEF GoTo, Listed, Unasked
<1>3. ASSUME NEW s \in List, LoadTasks(s) PROVE Listed'
  <2>1. PartOf([t \in Newest |-> status[t]])
    BY <1>0 DEF PartOf, Newest
  <2> QED BY <1>0, <1>3, <1>p, <2>1 DEF LoadTasks, Listed
<1>4. ASSUME NEW s \in List, ListArrives(s) PROVE Listed'
  <2>1. lists' = [lists EXCEPT ![s] = Unasked] /\ tasks' = lists[s].got
    BY <1>4 DEF ListArrives, Over
  <2>2. PartOf(tasks)'
    BY <1>p, <2>1 DEF Listed
  <2>3. (DOMAIN lists = List /\ \A r \in List : PartOf(lists[r].got))'
    BY <1>e, <1>p, <2>1 DEF Listed, Unasked
  <2>4. (detail # Nothing => detail.task \in DOMAIN status /\ detail.status \in Status)'
    BY <1>0, <1>4, <2>2 DEF ListArrives, Listed, PartOf
  <2> QED BY <2>2, <2>3, <2>4 DEF Listed
<1>5. ASSUME NEW s \in List, ListFails(s) PROVE Listed'
  BY <1>0, <1>5, <1>e, <1>p DEF ListFails, Over, Listed, Unasked
<1>6. ASSUME NEW t \in DOMAIN tasks, ViewDetails(t) PROVE Listed'
  BY <1>0, <1>6, <1>p DEF ViewDetails, Listed, PartOf
<1>7. CASE CloseDetails
  BY <1>0, <1>7, <1>p DEF CloseDetails, Listed
<1>8. ASSUME NEW f \in Flow, NEW kind \in FlowKind, NEW binds \in BOOLEAN, Submit(f, kind, binds)
      PROVE  UNCHANGED taskPage
  BY <1>8 DEF Submit
<1>9. CASE Next
  BY <1>1, <1>2, <1>3, <1>4, <1>5, <1>6, <1>7, <1>8, <1>9 DEF Next, Elsewhere, Proceed, OpenDialog,
     CloseDialog, CloseProgress, Posted, Binds, Queued, PostFails, Poll, PollArrives, PollFails
<1> QED BY <1>1, <1>9

(* THE TYPE INVARIANT.  A list that arrives, and a detail opened from it,  *)
(* is about tasks of the table, although the table has grown since and the *)
(* answers change places.                                                  *)
THEOREM TypeCorrect == Spec => []TypeOK
<1>1. Inv /\ Inv' /\ Rest /\ [Next]_vars => Rest'
  BY BoundedStep, NumberedStep, ListedStep DEF Rest
<1>2. ASSUME Inv, Rest PROVE TypeOK
  <2> USE <1>2 DEF Inv, Rest, Bounded, Numbered
  <2>1. status \in Seq(Status) /\ Len(status) \in Nat /\ poller \in Seq(Poller) /\ MaxTasks \in Nat
    BY ProgressAssumption DEF Types
  <2>2. flow \in [Flow -> [kind : FlowKind \cup {"none"}, binds : BOOLEAN, home : BOOLEAN,
                           phase : {"idle", "posting", "posted", "binding", "bound"},
                           task : 0 .. MaxTasks]]
    BY <2>1 DEF Types, Handler
  <2>3. poller \in Seq([task : 0 .. MaxTasks, stop : BOOLEAN, hit : BOOLEAN, over : BOOLEAN,
                        phase : {"due", "asked", "over"}, got : Status \cup {"none"}])
    <3>1. ASSUME NEW p \in DOMAIN poller
          PROVE  poller[p] \in [task : 0 .. MaxTasks, stop : BOOLEAN, hit : BOOLEAN, over : BOOLEAN,
                                phase : {"due", "asked", "over"}, got : Status \cup {"none"}]
      <4>1. poller[p] \in Poller
        BY <2>1
      <4>2. poller[p].task \in 1 .. Len(status)
        BY DEF Own
      <4>3. poller[p].task \in 0 .. MaxTasks
        BY <2>1, <4>2
      <4> QED BY <4>1, <4>3 DEF Poller
    <3> QED BY <2>1, <3>1, SeqOf, Zenon
  <2>4. modal \in 0 .. Len(poller)
    BY <2>1 DEF Types
  <2> QED BY <2>1, <2>2, <2>3, <2>4 DEF TypeOK, Listed, PartOf
<1>3. Inv /\ Rest => TypeOK
  BY <1>2
<1> QED BY <1>1, <1>3, RestInit, InvInvariant, PTL DEF Spec
=============================================================================
