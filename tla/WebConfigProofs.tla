--------------------------- MODULE WebConfigProofs ---------------------------
(***************************************************************************)
(* With one change of a path in flight, the system calls of WebConfig make *)
(* every path an atomic register: for every set of jobs, paths and texts,  *)
(* and whatever the tests, reloads, contexts, faults and stops do; a       *)
(* failure undoes no success; and once all is quiet the files are valid    *)
(* and are what the server runs, unless a restore failed or was cut off,   *)
(* or the last reload took in what was taken back.                         *)
(***************************************************************************)
EXTENDS WebConfig, TLAPS

USE DEF Phase, At, Goto, Finish, InFlight, Exposed, files, jobs, bounds, vars

(* A job alone on its path.                                                *)
Alone ==
    PerPath =>
        \A j, k \in Job : InFlight(j) /\ InFlight(k) /\ req[j].path = req[k].path => j = k

(* What a job knows of the files of its path, phase by phase.              *)
Before(j) ==
    /\ pc[j] \in {"open", "write", "rename", "remove"} => old[j] = disk[req[j].path]
    /\ pc[j] = "remove" => req[j].text = Gone
Staged(j) ==
    /\ pc[j] = "write" <=> fd[j] = "tmp"
    /\ pc[j] = "rename" => tmp[req[j].path] = req[j].text
Installed(j) ==
    pc[j] \in {"test", "reload"} => disk[req[j].path] = req[j].text
Restoring(j) ==
    /\ pc[j] = "unwrite" <=> fd[j] = "path"
    /\ pc[j] = "again" => disk[req[j].path] = old[j] \/ req[j].path \in stranded

(* ... and that the file was there, or was not, as its request wants.      *)
Copied == {"open", "write", "rename", "remove", "test", "reload", "undo", "unwrite", "again"}
Fitting(j) ==
    /\ pc[j] = "read" /\ req[j].kind = "create" => disk[req[j].path] = Gone
    /\ pc[j] \in Copied /\ req[j].kind = "create" => old[j] = Gone
    /\ pc[j] \in Copied /\ req[j].kind = "delete" => old[j] # Gone

Knows(j) == Before(j) /\ Staged(j) /\ Installed(j) /\ Restoring(j) /\ Fitting(j)
Knowledge == \A j \in Job : Knows(j)

(* A job has a request once it has started, and an answer once it is done. *)
Asked ==
    \A j \in Job :
        /\ pc[j] = "idle" <=> req[j] = NoRequest
        /\ pc[j] = "done" <=> result[j] # "none"

IInv ==
    /\ TypeOK
    /\ Asked
    /\ Alone
    /\ PerPath => Knowledge

LEMMA InitTypeOK == Init => TypeOK
<1> SUFFICES ASSUME Init PROVE TypeOK
  OBVIOUS
<1> USE DEF Init
<1>1. disk \in [Path -> Text] /\ live \in [Path -> Text] /\ tmp \in [Path -> Text]
  BY TextAssumption DEF TextAssumption
<1>2. req \in [Job -> Request \cup {NoRequest}] /\ old \in [Job -> Text]
  BY TextAssumption DEF TextAssumption
<1>3. cancels \in 0 .. MaxCancels /\ stops \in 0 .. MaxStops /\ faults \in 0 .. MaxFaults
  BY ScheduleAssumption DEF ScheduleAssumption
<1> QED BY <1>1, <1>2, <1>3 DEF TypeOK

LEMMA TypeStep == TypeOK /\ [Next]_vars => TypeOK'
<1> SUFFICES ASSUME TypeOK, [Next]_vars PROVE TypeOK'
  OBVIOUS
<1> USE TextAssumption, ScheduleAssumption DEF TypeOK, TextAssumption, ScheduleAssumption, Request, NoRequest
<1>1. ASSUME NEW j \in Job, Step(j) PROVE TypeOK'
  <2>1. CASE Start(j) BY <2>1 DEF Start
  <2>2. CASE CheckAbsent(j) BY <2>2 DEF CheckAbsent
  <2>3. CASE ReadOld(j)
    <3> USE <2>3 DEF ReadOld
    <3>1. (pc \in [Job -> Phase])' OBVIOUS
    <3>2. (old \in [Job -> Text])' OBVIOUS
    <3>3. (result \in [Job -> {"none", "ok", "failed", "rolledback"}])' OBVIOUS
    <3> QED BY <3>1, <3>2, <3>3
  <2>4. CASE OpenTmp(j) BY <2>4 DEF OpenTmp
  <2>5. CASE WriteTmp(j)
    <3> USE <2>5 DEF WriteTmp, Store
    <3>1. (pc \in [Job -> Phase])' OBVIOUS
    <3>2. (disk \in [Path -> Text])' OBVIOUS
    <3>3. (tmp \in [Path -> Text])' OBVIOUS
    <3>4. (fd \in [Job -> {"none", "tmp", "path"}])' OBVIOUS
    <3> QED BY <3>1, <3>2, <3>3, <3>4
  <2>6. CASE Rename(j)
    <3> USE <2>6 DEF Rename, Moved
    <3>1. (pc \in [Job -> Phase])' OBVIOUS
    <3>2. (disk \in [Path -> Text])' OBVIOUS
    <3>3. (tmp \in [Path -> Text])' OBVIOUS
    <3>4. (fd \in [Job -> {"none", "tmp", "path"}])' OBVIOUS
    <3>5. (result \in [Job -> {"none", "ok", "failed", "rolledback"}])' OBVIOUS
    <3> QED BY <3>1, <3>2, <3>3, <3>4, <3>5
  <2>7. CASE RemoveSite(j)
    <3> USE <2>7 DEF RemoveSite, Unlinked
    <3>1. (pc \in [Job -> Phase])' OBVIOUS
    <3>2. (disk \in [Path -> Text])' OBVIOUS
    <3>3. (fd \in [Job -> {"none", "tmp", "path"}])' OBVIOUS
    <3>4. (result \in [Job -> {"none", "ok", "failed", "rolledback"}])' OBVIOUS
    <3> QED BY <3>1, <3>2, <3>3, <3>4
  <2>8. CASE Test(j) BY <2>8 DEF Test, Passes
  <2>9. CASE Reload(j) BY <2>9 DEF Reload, Passes, Serve
  <2>10. CASE ReloadFails(j) BY <2>10 DEF ReloadFails
  <2>11. CASE UndoRemove(j) BY <2>11 DEF UndoRemove, Undone, Unlinked
  <2>12. CASE UndoTruncate(j) BY <2>12 DEF UndoTruncate
  <2>13. CASE UndoWrite(j) BY <2>13 DEF UndoWrite, Undone, Store
  <2>14. CASE ReloadAgain(j) BY <2>14 DEF ReloadAgain, Passes, Serve
  <2>15. CASE InstallFails(j) BY <2>15 DEF InstallFails, Fault
  <2>16. CASE UndoFails(j) BY <2>16 DEF UndoFails, Fault, Undone
  <2> QED BY <1>1, <2>1, <2>2, <2>3, <2>4, <2>5, <2>6, <2>7, <2>8, <2>9, <2>10, <2>11, <2>12, <2>13, <2>14, <2>15, <2>16 DEF Step
<1>2. ASSUME NEW j \in Job, Cancel(j) PROVE TypeOK'
  BY <1>2 DEF Cancel
<1>3. CASE AgentStops
  <2> USE <1>3 DEF AgentStops
  <2>1. (pc \in [Job -> Phase])' OBVIOUS
  <2>2. (fd \in [Job -> {"none", "tmp", "path"}])' OBVIOUS
  <2>3. (stops \in 0 .. MaxStops)' OBVIOUS
  <2>4. stranded' \subseteq Path
    <3>1. \A j \in Job : Exposed(j) => req[j].path \in Path OBVIOUS
    <3> QED BY <3>1
  <2> QED BY <2>1, <2>2, <2>3, <2>4
<1>4. CASE UNCHANGED vars BY <1>4
<1> QED BY <1>1, <1>2, <1>3, <1>4 DEF Next

(* THE TYPE INVARIANT of the configuration changes.                        *)
THEOREM WebTypeCorrect == Spec => []TypeOK
<1>1. Init => TypeOK
  BY InitTypeOK
<1> QED BY <1>1, TypeStep, PTL DEF Spec

(* A step is that of a job in flight, or starts one.                       *)
LEMMA OwnStep ==
    ASSUME TypeOK, NEW j \in Job, Step(j), ~Start(j)
    PROVE  req' = req /\ InFlight(j) /\ \A k \in Job \ {j} : pc'[k] = pc[k]
<1> USE DEF TypeOK
<1>2. CASE CheckAbsent(j) BY <1>2 DEF CheckAbsent
<1>3. CASE ReadOld(j) BY <1>3 DEF ReadOld
<1>4. CASE OpenTmp(j) BY <1>4 DEF OpenTmp
<1>5. CASE WriteTmp(j) BY <1>5 DEF WriteTmp
<1>6. CASE Rename(j) BY <1>6 DEF Rename
<1>7. CASE RemoveSite(j) BY <1>7 DEF RemoveSite
<1>8. CASE InstallFails(j) BY <1>8 DEF InstallFails
<1>9. CASE Test(j) BY <1>9 DEF Test
<1>10. CASE Reload(j) BY <1>10 DEF Reload
<1>11. CASE ReloadFails(j) BY <1>11 DEF ReloadFails
<1>12. CASE UndoRemove(j) BY <1>12 DEF UndoRemove, Undone
<1>13. CASE UndoTruncate(j) BY <1>13 DEF UndoTruncate
<1>14. CASE UndoWrite(j) BY <1>14 DEF UndoWrite, Undone
<1>15. CASE UndoFails(j) BY <1>15 DEF UndoFails, Undone
<1>16. CASE ReloadAgain(j) BY <1>16 DEF ReloadAgain
<1> QED BY <1>2, <1>3, <1>4, <1>5, <1>6, <1>7, <1>8, <1>9, <1>10, <1>11, <1>12, <1>13, <1>14, <1>15, <1>16 DEF Step

LEMMA AloneStep == IInv /\ [Next]_vars => Alone'
<1> SUFFICES ASSUME IInv, [Next]_vars, PerPath PROVE Alone'
  BY ScheduleAssumption DEF Alone
<1> USE DEF IInv, TypeOK, Alone
<1>1. ASSUME NEW j \in Job, Step(j) PROVE Alone'
  <2>1. CASE Start(j) BY <2>1 DEF Start, Busy, Request
  <2>2. CASE ~Start(j)
    <3>1. /\ req' = req
          /\ \A k \in Job \ {j} : pc'[k] = pc[k]
          /\ InFlight(j)
      BY <1>1, <2>2, OwnStep
    <3> QED BY <3>1
  <2> QED BY <2>1, <2>2
<1>2. ASSUME NEW j \in Job, Cancel(j) PROVE Alone'
  BY <1>2 DEF Cancel
<1>3. CASE AgentStops
  BY <1>3 DEF AgentStops
<1>4. CASE UNCHANGED vars BY <1>4
<1> QED BY <1>1, <1>2, <1>3, <1>4 DEF Next

LEMMA AskedStep == IInv /\ [Next]_vars => Asked'
<1> SUFFICES ASSUME IInv, [Next]_vars PROVE Asked'
  OBVIOUS
<1> USE DEF IInv, TypeOK, Asked
<1>1. ASSUME NEW j \in Job, Step(j) PROVE Asked'
  <2>1. CASE Start(j) BY <2>1 DEF Start, Request, NoRequest
  <2>2. CASE CheckAbsent(j) BY <2>2 DEF CheckAbsent
  <2>3. CASE ReadOld(j) BY <2>3 DEF ReadOld
  <2>4. CASE OpenTmp(j) BY <2>4 DEF OpenTmp
  <2>5. CASE WriteTmp(j) BY <2>5 DEF WriteTmp
  <2>6. CASE Rename(j) BY <2>6 DEF Rename
  <2>7. CASE RemoveSite(j) BY <2>7 DEF RemoveSite
  <2>8. CASE InstallFails(j) BY <2>8 DEF InstallFails
  <2>9. CASE Test(j) BY <2>9 DEF Test
  <2>10. CASE Reload(j) BY <2>10 DEF Reload
  <2>11. CASE ReloadFails(j) BY <2>11 DEF ReloadFails
  <2>12. CASE UndoRemove(j) BY <2>12 DEF UndoRemove, Undone
  <2>13. CASE UndoTruncate(j) BY <2>13 DEF UndoTruncate
  <2>14. CASE UndoWrite(j) BY <2>14 DEF UndoWrite, Undone
  <2>15. CASE UndoFails(j) BY <2>15 DEF UndoFails, Undone
  <2>16. CASE ReloadAgain(j) BY <2>16 DEF ReloadAgain
  <2> QED BY <1>1, <2>1, <2>2, <2>3, <2>4, <2>5, <2>6, <2>7, <2>8, <2>9, <2>10, <2>11, <2>12, <2>13, <2>14, <2>15, <2>16 DEF Step
<1>2. ASSUME NEW j \in Job, Cancel(j) PROVE Asked'
  BY <1>2 DEF Cancel
<1>3. CASE AgentStops
  BY <1>3 DEF AgentStops
<1>4. CASE UNCHANGED vars BY <1>4
<1> QED BY <1>1, <1>2, <1>3, <1>4 DEF Next

(* A step of a job leaves the others alone: their locals, and the file, the *)
(* temporary file and the fate of the path of one in flight.               *)
LEMMA OwnPath ==
    ASSUME IInv, PerPath, NEW j \in Job, Step(j), NEW k \in Job \ {j}
    PROVE  /\ pc'[k] = pc[k] /\ req'[k] = req[k] /\ old'[k] = old[k] /\ fd'[k] = fd[k]
           /\ InFlight(k) =>
                /\ disk'[req[k].path] = disk[req[k].path]
                /\ tmp'[req[k].path] = tmp[req[k].path]
                /\ req[k].path \in stranded <=> req[k].path \in stranded'
<1> USE DEF IInv, TypeOK, Alone, Knowledge, Knows, Staged, Restoring
<1>r. InFlight(k) => req[k].path \in Path
  BY DEF Request
<1>1. CASE Start(j) BY <1>1, <1>r DEF Start, Request
<1>2. CASE CheckAbsent(j) BY <1>2, <1>r DEF CheckAbsent
<1>3. CASE ReadOld(j) BY <1>3, <1>r DEF ReadOld
<1>4. CASE OpenTmp(j) BY <1>4, <1>r DEF OpenTmp
<1>5. CASE WriteTmp(j) BY <1>5, <1>r DEF WriteTmp, Store
<1>6. CASE Rename(j) BY <1>6, <1>r DEF Rename, Moved
<1>7. CASE RemoveSite(j) BY <1>7, <1>r DEF RemoveSite, Unlinked
<1>8. CASE InstallFails(j) BY <1>8, <1>r DEF InstallFails, Fault
<1>9. CASE Test(j) BY <1>9, <1>r DEF Test, Passes
<1>10. CASE Reload(j) BY <1>10, <1>r DEF Reload, Passes, Serve
<1>11. CASE ReloadFails(j) BY <1>11, <1>r DEF ReloadFails
<1>12. CASE UndoRemove(j) BY <1>12, <1>r DEF UndoRemove, Undone, Unlinked
<1>13. CASE UndoTruncate(j) BY <1>13, <1>r DEF UndoTruncate
<1>14. CASE UndoWrite(j) BY <1>14, <1>r DEF UndoWrite, Undone, Store
<1>15. CASE UndoFails(j) BY <1>15, <1>r DEF UndoFails, Undone, Fault
<1>16. CASE ReloadAgain(j) BY <1>16, <1>r DEF ReloadAgain, Passes, Serve
<1> QED BY <1>1, <1>2, <1>3, <1>4, <1>5, <1>6, <1>7, <1>8, <1>9, <1>10, <1>11, <1>12, <1>13, <1>14, <1>15, <1>16 DEF Step

LEMMA KnowledgeStep == IInv /\ PerPath /\ [Next]_vars => Knowledge'
<1> SUFFICES ASSUME IInv, PerPath, [Next]_vars PROVE Knowledge'
  OBVIOUS
<1> USE TextAssumption DEF TextAssumption, IInv, TypeOK, Knowledge, Knows, Before, Staged, Installed,
        Restoring, Fitting, Copied
<1>r. \A k \in Job : pc[k] # "idle" =>
         /\ req[k].path \in Path
         /\ req[k].kind = "delete" => req[k].text = Gone
  BY DEF Request
<1> USE <1>r
<1>1. ASSUME NEW j \in Job, Step(j) PROVE Knowledge'
  <2>0. ASSUME NEW k \in Job, k # j PROVE Knows(k)'
    BY <1>1, <2>0, OwnPath
  <2>1. CASE Start(j)
    <3>1. Knows(j)'
      BY <2>1 DEF Start, Request
    <3> QED BY <3>1, <2>0
  <2>2. CASE CheckAbsent(j)
    <3>1. Knows(j)'
      BY <2>2 DEF CheckAbsent
    <3> QED BY <3>1, <2>0
  <2>3. CASE ReadOld(j)
    <3> USE <2>3 DEF ReadOld
    <3>1. Before(j)' OBVIOUS
    <3>2. Staged(j)' OBVIOUS
    <3>3. Installed(j)' OBVIOUS
    <3>4. Restoring(j)' OBVIOUS
    <3>5. Fitting(j)' OBVIOUS
    <3> QED BY <3>1, <3>2, <3>3, <3>4, <3>5, <2>0
  <2>4. CASE OpenTmp(j)
    <3>1. Knows(j)'
      BY <2>4 DEF OpenTmp
    <3> QED BY <3>1, <2>0
  <2>5. CASE WriteTmp(j)
    <3> USE <2>5 DEF WriteTmp, Store
    <3>1. Before(j)' OBVIOUS
    <3>2. Staged(j)' OBVIOUS
    <3>3. Installed(j)' OBVIOUS
    <3>4. Restoring(j)' OBVIOUS
    <3>5. Fitting(j)' OBVIOUS
    <3> QED BY <3>1, <3>2, <3>3, <3>4, <3>5, <2>0
  <2>6. CASE Rename(j)
    <3> USE <2>6 DEF Rename, Moved
    <3>1. Before(j)' OBVIOUS
    <3>2. Staged(j)' OBVIOUS
    <3>3. Installed(j)' OBVIOUS
    <3>4. Restoring(j)' OBVIOUS
    <3>5. Fitting(j)' OBVIOUS
    <3> QED BY <3>1, <3>2, <3>3, <3>4, <3>5, <2>0
  <2>7. CASE RemoveSite(j)
    <3> USE <2>7 DEF RemoveSite, Unlinked
    <3>1. Before(j)' OBVIOUS
    <3>2. Staged(j)' OBVIOUS
    <3>3. Installed(j)' OBVIOUS
    <3>4. Restoring(j)' OBVIOUS
    <3>5. Fitting(j)' OBVIOUS
    <3> QED BY <3>1, <3>2, <3>3, <3>4, <3>5, <2>0
  <2>8. CASE InstallFails(j)
    <3>1. Knows(j)'
      BY <2>8 DEF InstallFails, Fault
    <3> QED BY <3>1, <2>0
  <2>9. CASE Test(j)
    <3>1. Knows(j)'
      BY <2>9 DEF Test, Passes
    <3> QED BY <3>1, <2>0
  <2>10. CASE Reload(j)
    <3>1. Knows(j)'
      BY <2>10 DEF Reload, Passes, Serve
    <3> QED BY <3>1, <2>0
  <2>11. CASE ReloadFails(j)
    <3>1. Knows(j)'
      BY <2>11 DEF ReloadFails
    <3> QED BY <3>1, <2>0
  <2>12. CASE UndoRemove(j)
    <3> USE <2>12 DEF UndoRemove, Undone, Unlinked
    <3>1. Before(j)' OBVIOUS
    <3>2. Staged(j)' OBVIOUS
    <3>3. Installed(j)' OBVIOUS
    <3>4. Restoring(j)' OBVIOUS
    <3>5. Fitting(j)' OBVIOUS
    <3> QED BY <3>1, <3>2, <3>3, <3>4, <3>5, <2>0
  <2>13. CASE UndoTruncate(j)
    <3>1. Knows(j)'
      BY <2>13 DEF UndoTruncate
    <3> QED BY <3>1, <2>0
  <2>14. CASE UndoWrite(j)
    <3> USE <2>14 DEF UndoWrite, Undone, Store
    <3>1. Before(j)' OBVIOUS
    <3>2. Staged(j)' OBVIOUS
    <3>3. Installed(j)' OBVIOUS
    <3>4. Restoring(j)' OBVIOUS
    <3>5. Fitting(j)' OBVIOUS
    <3> QED BY <3>1, <3>2, <3>3, <3>4, <3>5, <2>0
  <2>15. CASE UndoFails(j)
    <3>1. Knows(j)'
      BY <2>15 DEF UndoFails, Undone, Fault
    <3> QED BY <3>1, <2>0
  <2>16. CASE ReloadAgain(j)
    <3>1. Knows(j)'
      BY <2>16 DEF ReloadAgain, Passes, Serve
    <3> QED BY <3>1, <2>0
  <2> QED BY <1>1, <2>1, <2>2, <2>3, <2>4, <2>5, <2>6, <2>7, <2>8, <2>9, <2>10, <2>11, <2>12, <2>13, <2>14, <2>15, <2>16 DEF Step
<1>2. ASSUME NEW j \in Job, Cancel(j) PROVE Knowledge'
  BY <1>2 DEF Cancel
<1>3. CASE AgentStops
  BY <1>3 DEF AgentStops
<1>4. CASE UNCHANGED vars BY <1>4
<1> QED BY <1>1, <1>2, <1>3, <1>4 DEF Next

LEMMA InductiveInvariant == Spec => []IInv
<1>1. Init => IInv
  <2> SUFFICES ASSUME Init PROVE IInv
    OBVIOUS
  <2>1. TypeOK BY InitTypeOK
  <2>2. Alone BY DEF Alone, Init
  <2>3. Knowledge BY DEF Knowledge, Knows, Before, Staged, Installed, Restoring, Fitting, Copied, Init
  <2>4. Asked BY DEF Asked, Init
  <2> QED BY <2>1, <2>2, <2>3, <2>4 DEF IInv
<1>2. IInv /\ [Next]_vars => IInv'
  BY TypeStep, AloneStep, AskedStep, KnowledgeStep, ScheduleAssumption DEF IInv, ScheduleAssumption
<1> QED BY <1>1, <1>2, PTL DEF Spec

(* Content without its CHOOSE: a path has at most one job that can take its *)
(* new content back.                                                       *)
ContentIs ==
    \A p \in Path :
        /\ p \in stranded => Content(p) = Unknown
        /\ p \notin stranded =>
            /\ \A j \in Job : Exposed(j) /\ req[j].path = p => Content(p) = old[j]
            /\ (\A j \in Job : ~(Exposed(j) /\ req[j].path = p)) => Content(p) = disk[p]

LEMMA ContentLemma == IInv /\ PerPath => ContentIs
<1> SUFFICES ASSUME IInv, PerPath, NEW p \in Path, p \notin stranded,
                    NEW j \in Job, Exposed(j), req[j].path = p
             PROVE  Content(p) = old[j]
  BY DEF ContentIs, Content
<1> DEFINE Holds(k) == Exposed(k) /\ req[k].path = p
<1>1. \A k \in Job : Holds(k) => k = j
  BY DEF IInv, Alone
<1>2. (CHOOSE k \in Job : Holds(k)) = j
  BY <1>1
<1> QED BY <1>2 DEF Content

KInv == IInv /\ ContentIs
LEMMA ContentAlways == ASSUME PerPath PROVE Spec => []KInv
<1>1. IInv => KInv
  BY ContentLemma, PerPath DEF KInv
<1> QED BY <1>1, InductiveInvariant, PTL

(* Only a reload that succeeds, a restore that fails and a stop change what *)
(* the register holds.                                                     *)
LEMMA ContentStays ==
    ASSUME KInv, KInv', PerPath, NEW j \in Job, Step(j), ~Reload(j), ~UndoFails(j)
    PROVE  \A q \in Path : Content(q)' = Content(q)
<1> SUFFICES ASSUME NEW q \in Path PROVE Content(q)' = Content(q)
  OBVIOUS
<1> USE DEF KInv, IInv, TypeOK, Alone, Knowledge, Knows, Before, Staged, Installed, Restoring, ContentIs
<1>r. \A k \in Job : pc[k] # "idle" => req[k].path \in Path
  BY DEF Request
<1>1. CASE Start(j) BY <1>1, <1>r, SMTT(30) DEF Start, Request
<1>2. CASE CheckAbsent(j) BY <1>2, <1>r, SMTT(30) DEF CheckAbsent
<1>3. CASE ReadOld(j) BY <1>3, <1>r, SMTT(30) DEF ReadOld
<1>4. CASE OpenTmp(j) BY <1>4, <1>r, SMTT(30) DEF OpenTmp
<1>5. CASE WriteTmp(j) BY <1>5, <1>r, SMTT(30) DEF WriteTmp, Store
<1>6. CASE Rename(j) BY <1>6, <1>r, SMTT(30) DEF Rename, Moved
<1>7. CASE RemoveSite(j) BY <1>7, <1>r, SMTT(30) DEF RemoveSite, Unlinked
<1>8. CASE InstallFails(j) BY <1>8, <1>r, SMTT(30) DEF InstallFails, Fault
<1>9. CASE Test(j) BY <1>9, <1>r, SMTT(30) DEF Test, Passes
<1>10. CASE ReloadFails(j) BY <1>10, <1>r, SMTT(30) DEF ReloadFails
<1>11. CASE UndoRemove(j) BY <1>11, <1>r, SMTT(30) DEF UndoRemove, Undone, Unlinked
<1>12. CASE UndoTruncate(j) BY <1>12, <1>r, SMTT(30) DEF UndoTruncate
<1>13. CASE UndoWrite(j) BY <1>13, <1>r, SMTT(30) DEF UndoWrite, Undone, Store
<1>14. CASE ReloadAgain(j) BY <1>14, <1>r, SMTT(30) DEF ReloadAgain, Passes, Serve
<1> QED BY <1>1, <1>2, <1>3, <1>4, <1>5, <1>6, <1>7, <1>8, <1>9, <1>10, <1>11, <1>12, <1>13, <1>14 DEF Step

(* A successful reload makes what was asked for the content of the path ... *)
LEMMA ContentApplied ==
    ASSUME KInv, KInv', PerPath, NEW j \in Job, Reload(j)
    PROVE  /\ req[j].path \in Path /\ req[j].text \notin Bad
           /\ \A q \in Path : Content(q)' = IF q = req[j].path THEN req[j].text ELSE Content(q)
<1> USE DEF KInv
<1> DEFINE p == req[j].path
<1>1. p \in Path /\ req[j] \in Request /\ req[j].text \in Text
  BY TextAssumption DEF IInv, TypeOK, Reload, Request, TextAssumption
<1>2. disk[p] = req[j].text /\ req[j].text \notin Bad
  BY <1>1 DEF Reload, Passes, Valid, IInv, Knowledge, Knows, Installed
<1>3. ASSUME NEW q \in Path PROVE Content(q)' = IF q = p THEN req[j].text ELSE Content(q)
  BY <1>1, <1>2, <1>3, SMTT(30) DEF Reload, Passes, Serve, ContentIs, IInv, Alone, TypeOK
<1> QED BY <1>1, <1>2, <1>3

(* ... and a restore that fails loses it.                                  *)
LEMMA ContentLost ==
    ASSUME KInv, KInv', PerPath, NEW j \in Job, UndoFails(j)
    PROVE  /\ req[j].path \in Path
           /\ \A q \in Path : Content(q)' = IF q = req[j].path THEN Unknown ELSE Content(q)
<1> USE DEF KInv
<1>1. req[j].path \in Path
  BY DEF IInv, TypeOK, UndoFails, Request
<1>2. ASSUME NEW q \in Path PROVE Content(q)' = IF q = req[j].path THEN Unknown ELSE Content(q)
  BY <1>1, <1>2, SMTT(30) DEF UndoFails, Undone, ContentIs, IInv, Alone, TypeOK
<1> QED BY <1>1, <1>2

LEMMA ContentStopped ==
    ASSUME KInv, KInv', AgentStops
    PROVE  \A q \in Path :
               Content(q)' = IF \E j \in Job : Exposed(j) /\ req[j].path = q THEN Unknown ELSE Content(q)
BY DEF KInv, AgentStops, ContentIs, IInv, TypeOK

(* A job that goes on in flight, or ends without success.                  *)
LEMMA StepEnds ==
    ASSUME TypeOK, NEW j \in Job, Step(j), ~Start(j), ~Reload(j)
    PROVE  \/ InFlight(j)' /\ result' = result
           \/ \E r \in {"failed", "rolledback"} : Finish(j, r)
<1> USE DEF TypeOK
<1>2. CASE CheckAbsent(j) BY <1>2 DEF CheckAbsent
<1>3. CASE ReadOld(j) BY <1>3 DEF ReadOld
<1>4. CASE OpenTmp(j) BY <1>4 DEF OpenTmp
<1>5. CASE WriteTmp(j) BY <1>5 DEF WriteTmp
<1>6. CASE Rename(j) BY <1>6 DEF Rename
<1>7. CASE RemoveSite(j) BY <1>7 DEF RemoveSite
<1>8. CASE InstallFails(j) BY <1>8 DEF InstallFails
<1>9. CASE Test(j) BY <1>9 DEF Test
<1>11. CASE ReloadFails(j) BY <1>11 DEF ReloadFails
<1>12. CASE UndoRemove(j) BY <1>12 DEF UndoRemove, Undone
<1>13. CASE UndoTruncate(j) BY <1>13 DEF UndoTruncate
<1>14. CASE UndoWrite(j) BY <1>14 DEF UndoWrite, Undone
<1>15. CASE UndoFails(j) BY <1>15 DEF UndoFails, Undone
<1>16. CASE ReloadAgain(j) BY <1>16 DEF ReloadAgain
<1> QED BY <1>2, <1>3, <1>4, <1>5, <1>6, <1>7, <1>8, <1>9, <1>11, <1>12, <1>13, <1>14, <1>15, <1>16 DEF Step

(* REFINEMENT.  If operators have one change of a path in flight, every     *)
(* path is an atomic register of the changes asked for: it changes in the  *)
(* step that answers success, by what was asked for and is neither rejected *)
(* nor out of place, and is lost only by a restore that fails or a stop.   *)
THEOREM WebImplementsRegister == ASSUME PerPath PROVE Spec => ImplementsRegister
<1> DEFINE answers == [j \in Job |-> Answer(j)]
           abs == <<Base, req, answers>>
<1>1. Init => Register!Init
  <2> SUFFICES ASSUME Init PROVE Register!Init
    OBVIOUS
  <2>1. ASSUME NEW p \in Path PROVE Content(p) \in Text \ (Bad \cup {Blank})
    BY <2>1 DEF Content, Init, Valid
  <2>2. Base \in [Path -> Text \ (Bad \cup {Blank})]
    BY <2>1 DEF Base
  <2>3. req = [j \in Job |-> Register!NoRequest] /\ answers = [j \in Job |-> "none"]
    BY DEF Init, Answer, NoRequest, Register!NoRequest
  <2> QED BY <2>2, <2>3 DEF Register!Init
<1>2. ASSUME KInv, KInv', [Next]_vars PROVE [Register!Next]_abs
  <2> USE PerPath, <1>2 DEF KInv
  <2>r. /\ Request = Register!Request /\ NoRequest = Register!NoRequest
        /\ \A k \in Job : pc[k] # "idle" => req[k] \in Request
    BY DEF Request, NoRequest, Register!Request, Register!NoRequest, IInv, TypeOK
  <2>p. \A k \in Job : Register!Pending(k) <=> InFlight(k)
    BY <2>r DEF Register!Pending, IInv, TypeOK, Asked, Answer
  <2>s. ASSUME NEW j \in Job, Step(j) PROVE [Register!Next]_abs
    <3>0. ASSUME Base' = Base, req' = req, NEW r \in {"failed", "rolledback"}, Finish(j, r), InFlight(j)
          PROVE  [Register!Next]_abs
      <4>1. answers' = [answers EXCEPT ![j] = r]
        BY <3>0 DEF Answer, IInv, TypeOK
      <4>2. Register!Refuse(j)
        BY <3>0, <4>1, <2>p DEF Register!Refuse
      <4> QED BY <4>2 DEF Register!Next
    <3>s. ASSUME Base' = Base, req' = req, result' = result, InFlight(j), InFlight(j)',
                 \A k \in Job \ {j} : pc'[k] = pc[k]
          PROVE  [Register!Next]_abs
      <4>1. answers' = answers
        BY <3>s DEF Answer
      <4> QED BY <3>s, <4>1
    <3>1. CASE Start(j)
      <4>1. Base' = Base
        <5>1. ~Reload(j) /\ ~UndoFails(j)
          BY <3>1 DEF Start, Reload, UndoFails
        <5> QED BY <2>s, <5>1, ContentStays DEF Base
      <4>2. answers' = answers
        BY <3>1 DEF Start, Answer, IInv, TypeOK
      <4>3. PICK r \in Request : ~Busy(r.path) /\ req' = [req EXCEPT ![j] = r]
        BY <3>1 DEF Start
      <4>4. req[j] = NoRequest
        BY <3>1 DEF Start, IInv, Asked
      <4>5. \A k \in Job : Register!Pending(k) => req[k].path # r.path
        BY <4>3, <2>p DEF Busy
      <4>6. Register!Ask(j)
        BY <4>1, <4>2, <4>3, <4>4, <4>5, <2>r DEF Register!Ask
      <4> QED BY <4>6 DEF Register!Next
    <3>2. CASE Reload(j)
      <4> DEFINE p == req[j].path
      <4>1. p \in Path /\ req[j] \in Request
        BY <3>2, <2>r, ContentApplied DEF Reload
      <4>2. req[j].text \notin Bad
        BY <3>2, ContentApplied
      <4>3. ASSUME NEW q \in Path PROVE Content(q)' = IF q = p THEN req[j].text ELSE Content(q)
        BY <3>2, ContentApplied
      <4>4. Base' = [Base EXCEPT ![p] = req[j].text]
        BY <4>1, <4>3 DEF Base
      <4>5. answers' = [answers EXCEPT ![j] = "ok"]
        BY <3>2 DEF Reload, Answer, IInv, TypeOK
      <4>6. Register!Fits(req[j])
        <5>1. Base[p] = Unknown \/ Base[p] = old[j]
          BY <3>2, <4>1 DEF Reload, Base, ContentIs
        <5>2. /\ req[j].kind \in {"apply", "create", "delete"}
              /\ req[j].kind = "create" => old[j] = Gone
              /\ req[j].kind = "delete" => old[j] # Gone
          BY <3>2, <4>1 DEF Reload, Request, IInv, Knowledge, Knows, Fitting, Copied
        <5> QED BY <5>1, <5>2 DEF Register!Fits
      <4>7. Register!Apply(j)
        BY <3>2, <4>2, <4>4, <4>5, <4>6, <2>p DEF Register!Apply, Reload
      <4> QED BY <4>7 DEF Register!Next
    <3>3. CASE UndoFails(j)
      <4> DEFINE p == req[j].path
      <4>1. p \in Path
        BY <3>3, ContentLost
      <4>2. ASSUME NEW q \in Path PROVE Content(q)' = IF q = p THEN Unknown ELSE Content(q)
        BY <3>3, ContentLost
      <4>3. Base' = [Base EXCEPT ![p] = Unknown]
        BY <4>1, <4>2 DEF Base
      <4>4. answers' = answers \/ answers' = [answers EXCEPT ![j] = "rolledback"]
        <5>1. CASE late[j]
          BY <3>3, <5>1 DEF UndoFails, Undone, Answer, IInv, TypeOK
        <5>2. CASE ~late[j]
          <6>1. Finish(j, "rolledback")
            BY <3>3, <5>2 DEF UndoFails, Undone
          <6>2. answers' = [answers EXCEPT ![j] = "rolledback"]
            BY <6>1 DEF Answer, IInv, TypeOK
          <6> QED BY <6>2
        <5> QED BY <5>1, <5>2
      <4>5. Register!Spoil(j)
        BY <3>3, <4>3, <4>4, <2>p DEF Register!Spoil, UndoFails
      <4> QED BY <4>5 DEF Register!Next
    <3>4. CASE ~Start(j) /\ ~Reload(j) /\ ~UndoFails(j)
      <4>1. Base' = Base
        BY <2>s, <3>4, ContentStays DEF Base
      <4>2. req' = req /\ InFlight(j) /\ \A k \in Job \ {j} : pc'[k] = pc[k]
        BY <2>s, <3>4, OwnStep DEF IInv
      <4>3. \/ InFlight(j)' /\ result' = result
            \/ \E r \in {"failed", "rolledback"} : Finish(j, r)
        BY <2>s, <3>4, StepEnds DEF IInv
      <4> QED BY <3>0, <3>s, <4>1, <4>2, <4>3
    <3> QED BY <3>1, <3>2, <3>3, <3>4
  <2>c. ASSUME NEW j \in Job, Cancel(j) PROVE UNCHANGED abs
    <3>1. Base' = Base
      BY <2>c DEF Cancel, Base, ContentIs, Content
    <3>2. answers' = answers /\ req' = req
      BY <2>c DEF Cancel, Answer
    <3> QED BY <3>1, <3>2
  <2>a. ASSUME AgentStops PROVE [Register!Next]_abs
    <3> DEFINE spoiled == {j \in Job : Exposed(j)}
    <3>1. \A j \in spoiled : Register!Pending(j)
      BY <2>p
    <3>2. ASSUME NEW q \in Path
          PROVE  Content(q)' = IF \E j \in spoiled : req[j].path = q THEN Unknown ELSE Content(q)
      BY <2>a, ContentStopped
    <3>3. answers' = [j \in Job |-> IF Register!Pending(j) THEN "lost" ELSE answers[j]]
      BY <2>a, <2>p DEF AgentStops, Answer, IInv, TypeOK
    <3>4. req' = req
      BY <2>a DEF AgentStops
    <3>5. Register!Stop(spoiled)
      BY <3>1, <3>2, <3>3, <3>4 DEF Register!Stop, Base
    <3> QED BY <3>5 DEF Register!Next
  <2>u. ASSUME UNCHANGED vars PROVE UNCHANGED abs
    BY <2>u DEF Content, Base, Answer
  <2> QED BY <2>s, <2>c, <2>a, <2>u DEF Next
<1>3. KInv /\ KInv' /\ [Next]_vars => [Register!Next]_abs
  BY <1>2
<1> QED BY <1>1, <1>3, ContentAlways, PerPath, PTL DEF Spec, ImplementsRegister, Register!Spec

(* With one change of a path in flight, success is answered only when the  *)
(* server runs the requested content.                                      *)
THEOREM WebSuccessServed == ASSUME PerPath PROVE Spec => SuccessIsServed
<1> DEFINE Served ==
      \A j \in Job : result[j] # "ok" /\ result'[j] = "ok" => live'[req[j].path] = req[j].text
<1>1. ASSUME IInv, [Next]_vars PROVE Served
  <2> USE PerPath, <1>1 DEF IInv, TypeOK, Knowledge, Knows, Installed
  <2>1. ASSUME NEW j \in Job, Reload(j) PROVE Served
    BY <2>1 DEF Reload, Serve
  <2>2. ASSUME NEW j \in Job, Step(j), ~Reload(j), NEW k \in Job PROVE result'[k] = "ok" => result[k] = "ok"
    BY <2>2 DEF Step, Start, CheckAbsent, ReadOld, OpenTmp, WriteTmp, Rename, RemoveSite, InstallFails,
       Test, ReloadFails, UndoRemove, UndoTruncate, UndoWrite, UndoFails, ReloadAgain, Undone
  <2>3. ASSUME AgentStops \/ (\E j \in Job : Cancel(j)) \/ UNCHANGED vars PROVE result' = result
    BY <2>3 DEF AgentStops, Cancel
  <2> QED BY <2>1, <2>2, <2>3 DEF Next
<1>2. IInv /\ [Next]_vars => [Served]_vars
  BY <1>1
<1> QED BY <1>2, InductiveInvariant, PTL DEF Spec, SuccessIsServed
-----------------------------------------------------------------------------
(* What the register holds passes the test and is what the server runs:    *)
(* whoever is in flight can still get back there.                          *)
Sound ==
    /\ cancels = 0 => \A j \in Job : ~cancelled[j]
    /\ ~crossed /\ stranded = {} => Valid(Base) /\ (cancels = 0 => live = Base)

(* A reload with nothing on disk that may be taken back is sound again.    *)
LEMMA ServeSound ==
    ASSUME ContentIs', live' = disk, disk' = disk, Valid(disk), disk \in [Path -> Text],
           stranded' = {} /\ ~crossed' => \A k \in Job : ~Exposed(k)'
    PROVE  (~crossed /\ stranded = {} => Valid(Base) /\ live = Base)'
<1> SUFFICES ASSUME ~crossed', stranded' = {} PROVE Valid(Base)' /\ live' = Base'
  OBVIOUS
<1>1. ASSUME NEW q \in Path PROVE Content(q)' = disk[q]
  BY DEF ContentIs
<1>2. Base' = disk
  BY <1>1 DEF Base
<1> QED BY <1>2 DEF Valid

LEMMA SoundStep == KInv /\ KInv' /\ PerPath /\ Sound /\ [Next]_vars => Sound'
<1> SUFFICES ASSUME KInv, KInv', PerPath, Sound, [Next]_vars PROVE Sound'
  OBVIOUS
<1> USE DEF KInv
<1>1. ASSUME NEW j \in Job, Step(j) PROVE Sound'
  <2>0. cancels' = cancels /\ cancelled' = cancelled
    BY <1>1 DEF Step, Start, CheckAbsent, ReadOld, OpenTmp, WriteTmp, Rename, RemoveSite, InstallFails, Test, Reload,
       ReloadFails, UndoRemove, UndoTruncate, UndoWrite, UndoFails, ReloadAgain, Fault
  <2>1. CASE Reload(j)
    <3>1. \A k \in Job : Exposed(k)' => k # j /\ Exposed(k)
      BY <2>1 DEF Reload, IInv, TypeOK
    <3>2. live' = disk /\ disk' = disk /\ Valid(disk)
          /\ (stranded' = {} /\ ~crossed' => \A k \in Job : ~Exposed(k)')
      BY <2>1, <3>1 DEF Reload, Serve, Passes
    <3>3. (~crossed /\ stranded = {} => Valid(Base) /\ live = Base)'
      BY <3>2, ServeSound DEF IInv, TypeOK
    <3> QED BY <2>0, <3>3 DEF Sound
  <2>2. CASE UndoFails(j)
    <3>1. stranded' # {}
      BY <2>2 DEF UndoFails
    <3> QED BY <2>0, <3>1 DEF Sound
  <2>3. CASE ReloadAgain(j) /\ Passes(j) /\ Serve(j)
    <3>1. \A k \in Job : Exposed(k)' => k # j /\ Exposed(k)
      BY <2>3 DEF ReloadAgain, IInv, TypeOK
    <3>2. live' = disk /\ disk' = disk /\ Valid(disk)
          /\ (stranded' = {} /\ ~crossed' => \A k \in Job : ~Exposed(k)')
      BY <2>3, <3>1 DEF ReloadAgain, Serve, Passes
    <3>3. (~crossed /\ stranded = {} => Valid(Base) /\ live = Base)'
      BY <3>2, ServeSound DEF IInv, TypeOK
    <3> QED BY <2>0, <3>3 DEF Sound
  <2>4. CASE ~Reload(j) /\ ~UndoFails(j) /\ ~(ReloadAgain(j) /\ Passes(j) /\ Serve(j))
    <3>1. Base' = Base
      BY <1>1, <2>4, ContentStays DEF Base
    <3>2. crossed' = crossed /\ stranded' = stranded /\ (live' = live \/ cancelled[j])
      BY <1>1, <2>4 DEF Step, Start, CheckAbsent, ReadOld, OpenTmp, WriteTmp, Rename, RemoveSite, InstallFails,
         Test, ReloadFails, UndoRemove, UndoTruncate, UndoWrite, ReloadAgain
    <3>3. Valid(Base)' <=> Valid(Base)
      BY <3>1 DEF Valid
    <3> QED BY <2>0, <3>1, <3>2, <3>3 DEF Sound
  <2> QED BY <2>1, <2>2, <2>3, <2>4
<1>2. ASSUME NEW j \in Job, Cancel(j) PROVE Sound'
  <2>1. cancels' # 0
    BY <1>2, ScheduleAssumption DEF Cancel, IInv, TypeOK, ScheduleAssumption
  <2>2. Base' = Base /\ crossed' = crossed /\ stranded' = stranded
    BY <1>2 DEF Cancel, Base, Content
  <2>3. Valid(Base)' <=> Valid(Base)
    BY <2>2 DEF Valid
  <2> QED BY <2>1, <2>2, <2>3 DEF Sound
<1>3. CASE AgentStops
  <2>1. crossed' = crossed /\ live' = live /\ cancels' = cancels /\ cancelled' = cancelled
    BY <1>3 DEF AgentStops
  <2>2. CASE stranded' = {}
    <3>1. stranded = {} /\ \A k \in Job : ~Exposed(k)
      BY <1>3, <2>2 DEF AgentStops
    <3>2. \A q \in Path : Content(q)' = Content(q)
      BY <1>3, <2>2, <3>1 DEF AgentStops, ContentIs, IInv, TypeOK
    <3>3. Base' = Base
      BY <3>2 DEF Base
    <3>4. Valid(Base)' <=> Valid(Base)
      BY <3>3 DEF Valid
    <3> QED BY <2>1, <3>1, <3>3, <3>4 DEF Sound
  <2> QED BY <2>1, <2>2 DEF Sound
<1>4. CASE UNCHANGED vars
  <2>1. Base' = Base
    BY <1>4 DEF Base, Content
  <2>2. Valid(Base)' <=> Valid(Base)
    BY <2>1 DEF Valid
  <2> QED BY <1>4, <2>1, <2>2 DEF Sound
<1> QED BY <1>1, <1>2, <1>3, <1>4 DEF Next

LEMMA SoundAlways == ASSUME PerPath PROVE Spec => [](KInv /\ Sound)
<1>1. Init => Sound
  <2> SUFFICES ASSUME Init PROVE Sound
    OBVIOUS
  <2>1. \A q \in Path : Content(q) = disk[q]
    BY DEF Init, Content
  <2>2. Base = disk
    BY <2>1 DEF Init, Base
  <2> QED BY <2>2 DEF Init, Sound
<1>2. KInv /\ KInv' /\ Sound /\ [Next]_vars => Sound'
  BY SoundStep, PerPath
<1> QED BY <1>1, <1>2, ContentAlways, PerPath, PTL DEF Spec

LEMMA RestedBase ==
    ASSUME KInv, Rested, stranded = {}
    PROVE  Base = disk
<1>1. \A q \in Path : Content(q) = disk[q]
  BY DEF KInv, ContentIs, Rested
<1> QED BY <1>1 DEF Base, KInv, IInv, TypeOK

(* AT REST, after changes of different paths that may have overlapped, the  *)
(* files on disk pass the test of the server, unless a restore failed or   *)
(* was cut off, or the last reload took in what was then taken back.       *)
THEOREM WebRestedValid == ASSUME PerPath PROVE Spec => []RestedIsValid
<1>1. KInv /\ Sound => RestedIsValid
  BY RestedBase DEF Sound, RestedIsValid
<1> QED BY <1>1, SoundAlways, PerPath, PTL

(* ... and are what the server runs, if no context ended early.            *)
THEOREM WebServedOnDisk == ASSUME PerPath PROVE Spec => []ServedIsOnDisk
<1>1. KInv /\ Sound => ServedIsOnDisk
  BY RestedBase DEF Sound, ServedIsOnDisk
<1> QED BY <1>1, SoundAlways, PerPath, PTL
-----------------------------------------------------------------------------
(* The only change of a path that was applied is what the path holds, or   *)
(* what the job that is trying another one will put back.                  *)
OnlyOk(j) ==
    /\ result[j] = "ok"
    /\ \A k \in Job \ {j} : req[k].path = req[j].path => result[k] # "ok"
Kept == \A j \in Job : OnlyOk(j) => Content(req[j].path) \in {req[j].text, Unknown}

LEMMA KeptStep == KInv /\ KInv' /\ PerPath /\ Kept /\ [Next]_vars => Kept'
<1> SUFFICES ASSUME KInv, KInv', PerPath, Kept, [Next]_vars, NEW j \in Job, OnlyOk(j)'
             PROVE  (Content(req[j].path) \in {req[j].text, Unknown})'
  BY DEF Kept
<1>q. PICK p : p = req[j].path
  OBVIOUS
<1>0. TypeOK /\ Asked
  BY DEF KInv, IInv
<1>t. result \in [Job -> {"none", "ok", "failed", "rolledback"}]
  BY <1>0 DEF TypeOK
(* Once the two are asked for what they were, the step has kept it.        *)
<1>k. ASSUME OnlyOk(j), req'[j] = req[j], Content(p)' \in {Content(p), Unknown}
      PROVE  (Content(req[j].path) \in {req[j].text, Unknown})'
  <2>1. Content(p) \in {req[j].text, Unknown}
    BY <1>k, <1>q DEF Kept
  <2>2. (Content(req[j].path))' = Content(p)'
    BY <1>k, <1>q DEF Content
  <2> QED BY <1>k, <2>1, <2>2
<1>p. result[j] = "ok" => p \in Path
  BY <1>0, <1>q DEF TypeOK, Asked, Request
<1>1. ASSUME NEW i \in Job, Step(i) PROVE (Content(req[j].path) \in {req[j].text, Unknown})'
  <2>1. CASE Start(i)
    <3>1. result' = result /\ result[i] = "none" /\ req' = [req EXCEPT ![i] = req'[i]]
      BY <2>1, <1>0 DEF Start, TypeOK, Asked
    <3>2. j # i /\ req'[j] = req[j]
      BY <3>1, <1>0 DEF OnlyOk, TypeOK
    <3>3. OnlyOk(j)
      BY <3>1, <3>2, <1>0 DEF OnlyOk, TypeOK
    <3>4. ~Reload(i) /\ ~UndoFails(i)
      BY <2>1 DEF Start, Reload, UndoFails
    <3>5. Content(p)' = Content(p)
      BY <1>1, <3>3, <3>4, <1>p, ContentStays DEF OnlyOk
    <3> QED BY <1>k, <3>2, <3>3, <3>5
  <2>2. CASE Reload(i)
    <3>1. req' = req /\ result' = [result EXCEPT ![i] = "ok"]
      BY <2>2 DEF Reload
    <3>2. CASE i = j
      <4>1. Content(p)' = req[j].text
        BY <2>2, <3>2, <1>q, ContentApplied
      <4> QED BY <3>1, <4>1, <1>q DEF Content
    <3>3. CASE i # j
      <4>1. req[i].path # p /\ OnlyOk(j)
        BY <3>1, <3>3, <1>t, <1>q DEF OnlyOk
      <4>2. Content(p)' = Content(p)
        BY <2>2, <4>1, <1>p, ContentApplied DEF OnlyOk
      <4> QED BY <1>k, <3>1, <4>1, <4>2
    <3> QED BY <3>2, <3>3
  <2>3. CASE ~Start(i) /\ ~Reload(i)
    <3>1. req' = req
      BY <1>1, <2>3, <1>0, OwnStep
    <3>2. \/ result' = result
          \/ \E r \in {"failed", "rolledback"} : result' = [result EXCEPT ![i] = r]
      BY <1>1, <2>3, <1>0, StepEnds
    <3>3. result[i] = "none"
      BY <1>1, <2>3, <1>0, OwnStep, <1>t DEF Asked
    <3>4. OnlyOk(j)
      BY <3>1, <3>2, <3>3, <1>t DEF OnlyOk
    <3>5. Content(p)' \in {Content(p), Unknown}
      BY <1>1, <2>3, <3>4, <1>p, ContentStays, ContentLost DEF OnlyOk
    <3> QED BY <1>k, <3>1, <3>4, <3>5
  <2> QED BY <2>1, <2>2, <2>3
<1>2. CASE AgentStops
  <2>1. req' = req /\ result' = result
    BY <1>2 DEF AgentStops
  <2>2. OnlyOk(j)
    BY <2>1 DEF OnlyOk
  <2>3. Content(p)' \in {Content(p), Unknown}
    BY <1>2, <2>2, <1>p, ContentStopped DEF OnlyOk
  <2> QED BY <1>k, <2>1, <2>2, <2>3
<1>3. ASSUME UNCHANGED vars \/ \E i \in Job : Cancel(i)
      PROVE  (Content(req[j].path) \in {req[j].text, Unknown})'
  <2>1. /\ req' = req /\ result' = result
        /\ Content(p)' = Content(p)
    BY <1>3 DEF Cancel, Content
  <2>2. OnlyOk(j)
    BY <2>1 DEF OnlyOk
  <2> QED BY <1>k, <2>1, <2>2
<1> QED BY <1>1, <1>2, <1>3 DEF Next

LEMMA KeptAlways == ASSUME PerPath PROVE Spec => [](KInv /\ Kept)
<1>1. Init => Kept
  BY DEF Init, Kept, OnlyOk
<1>2. KInv /\ KInv' /\ Kept /\ [Next]_vars => Kept'
  BY KeptStep, PerPath
<1> QED BY <1>1, <1>2, ContentAlways, PerPath, PTL DEF Spec

(* With one change of a path in flight a failure takes no success back:    *)
(* at rest, the only change of a path that was applied is what is there,   *)
(* if no restore of that path failed or was cut off.                       *)
THEOREM WebFailureKeepsSuccess == ASSUME PerPath PROVE Spec => []FailureKeepsSuccess
<1>1. ASSUME KInv, Kept PROVE FailureKeepsSuccess
  <2> SUFFICES ASSUME NEW j \in Job, Rested, req[j].path \notin stranded, result[j] = "ok",
                      \A k \in Job \ {j} :
                          req[k].path = req[j].path => result[k] \in {"none", "failed", "rolledback"}
               PROVE  disk[req[j].path] = req[j].text
    BY DEF FailureKeepsSuccess
  <2>1. OnlyOk(j)
    BY DEF OnlyOk
  <2>2. req[j].path \in Path /\ req[j].text \in Text
    BY <1>1, TextAssumption DEF KInv, IInv, TypeOK, Asked, Request, TextAssumption
  <2>3. Content(req[j].path) = disk[req[j].path]
    BY <1>1, <2>2 DEF KInv, ContentIs, Rested
  <2>4. disk[req[j].path] \in {req[j].text, Unknown}
    BY <1>1, <2>1, <2>3 DEF Kept
  <2> QED BY <1>1, <2>2, <2>4, TextAssumption DEF KInv, IInv, TypeOK, TextAssumption
<1>2. KInv /\ Kept => FailureKeepsSuccess
  BY <1>1
<1> QED BY <1>2, KeptAlways, PerPath, PTL
=============================================================================
