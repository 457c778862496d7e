------------------------------ MODULE WebConfig ------------------------------
(***************************************************************************)
(* How the agent changes Nginx/Apache configuration (internal/agent/       *)
(* webserver.go and sites.go): keep the old content, install the new one   *)
(* through a temporary file and a rename, run the server's own test,       *)
(* reload, and put the old content back when either fails.  The agent has  *)
(* no lock: the actions of concurrent requests interleave at every system  *)
(* call.  The request's context ends when the panel gives up on it.  A     *)
(* system call that fails on the way in ends the job; one that fails on    *)
(* the way back is ignored.                                                *)
(***************************************************************************)
EXTENDS Naturals

CONSTANTS
    Job,          \* action requests
    Path,         \* configuration files
    Text,         \* contents of a file, among them Gone and Blank
    Gone,         \* there is no file
    Blank,        \* a file truncated and not yet written
    Bad,          \* contents the server rejects
    Unknown,      \* stands for whatever an interrupted job left
    Claim,        \* contents of which the server accepts only one at a time
    PerPath,      \* operators have one change of a path in flight
    MaxCancels,   \* bound: contexts that end early
    MaxFaults,    \* bound: system calls on files that fail
    MaxStops      \* bound: stops of the agent

ASSUME TextAssumption ==
    /\ Gone \in Text /\ Blank \in Text /\ Gone # Blank
    /\ Unknown \notin Text
    /\ Bad \subseteq Text \ {Gone, Blank}
    /\ Claim \subseteq Text \ ({Gone, Blank} \cup Bad)
ASSUME ScheduleAssumption ==
    /\ PerPath \in BOOLEAN
    /\ MaxCancels \in Nat
    /\ MaxFaults \in Nat
    /\ MaxStops \in Nat

VARIABLES
    disk,        \* content at a path
    tmp,         \* content at path.anpanel.tmp
    live,        \* the configuration the server runs
    pc, req, old, fd, late, cancelled, result,   \* per job
    stranded,    \* paths that a stopped or failing job did not put back
    crossed,     \* the last reload took in what another job may take back
    cancels, faults, stops

files == <<disk, tmp, live>>
jobs == <<pc, req, old, fd, late, cancelled, result>>
bounds == <<stranded, crossed, cancels, faults, stops>>
vars == <<files, jobs, bounds>>

Phase == {"idle", "check", "read", "open", "write", "rename", "remove", "test",
          "reload", "undo", "unwrite", "again", "done", "dead"}
InFlight(j) == pc[j] \notin {"idle", "done", "dead"}
Busy(p) == \E j \in Job : InFlight(j) /\ req[j].path = p

(* The new content is on disk and the job may still take it back.          *)
Exposed(j) == pc[j] \in {"test", "reload", "undo", "unwrite", "again"}

(* nginx -t and apachectl configtest look at the whole configuration.      *)
Valid(conf) ==
    /\ \A p \in Path : conf[p] \notin Bad
    /\ \A p, q \in Path : conf[p] \in Claim /\ conf[q] \in Claim => p = q

Request ==
    [kind : {"apply", "create"}, path : Path, text : Text \ {Gone, Blank}]
        \cup [kind : {"delete"}, path : Path, text : {Gone}]
NoRequest == [kind |-> "none", path |-> Unknown, text |-> Gone]

Init ==
    /\ disk \in [Path -> Text \ {Blank}] /\ Valid(disk)
    /\ live = disk
    /\ tmp = [p \in Path |-> Gone]
    /\ pc = [j \in Job |-> "idle"]
    /\ req = [j \in Job |-> NoRequest]
    /\ old = [j \in Job |-> Gone]
    /\ fd = [j \in Job |-> "none"]
    /\ late = [j \in Job |-> FALSE]
    /\ cancelled = [j \in Job |-> FALSE]
    /\ result = [j \in Job |-> "none"]
    /\ stranded = {}
    /\ crossed = FALSE
    /\ cancels = 0
    /\ faults = 0
    /\ stops = 0

At(j, phase) == pc[j] = phase
Goto(j, phase) == pc' = [pc EXCEPT ![j] = phase]
Finish(j, r) ==
    /\ Goto(j, "done")
    /\ result' = [result EXCEPT ![j] = r]

Fault ==
    /\ faults < MaxFaults
    /\ faults' = faults + 1
    /\ UNCHANGED <<cancels, stops>>

(* The server now runs what is on disk, its own or not.                    *)
Serve(j) ==
    /\ live' = disk
    /\ crossed' = \E k \in Job \ {j} : Exposed(k)

-----------------------------------------------------------------------------
Start(j) ==
    /\ At(j, "idle")
    /\ \E r \in Request :
        /\ PerPath => ~Busy(r.path)
        /\ req' = [req EXCEPT ![j] = r]
        /\ Goto(j, IF r.kind = "create" THEN "check" ELSE "read")
    /\ UNCHANGED <<files, old, fd, late, cancelled, result, bounds>>

(* createWebsite refuses a file that exists, long before it writes one.    *)
CheckAbsent(j) ==
    /\ At(j, "check")
    /\ \/ disk[req[j].path] = Gone /\ Goto(j, "read") /\ UNCHANGED result
       \/ disk[req[j].path] # Gone /\ Finish(j, "failed")
    /\ UNCHANGED <<files, req, old, fd, late, cancelled, bounds>>

(* The copy to restore from; deleteWebsite gives up without one.           *)
ReadOld(j) ==
    /\ At(j, "read")
    /\ old' = [old EXCEPT ![j] = disk[req[j].path]]
    /\ \/ req[j].kind # "delete" /\ Goto(j, "open") /\ UNCHANGED result
       \/ req[j].kind = "delete" /\ disk[req[j].path] # Gone
            /\ Goto(j, "remove") /\ UNCHANGED result
       \/ req[j].kind = "delete" /\ disk[req[j].path] = Gone /\ Finish(j, "failed")
    /\ UNCHANGED <<files, req, fd, late, cancelled, bounds>>

(* os.WriteFile of the shared path.anpanel.tmp: open and truncate ...       *)
OpenTmp(j) ==
    /\ At(j, "open")
    /\ tmp' = [tmp EXCEPT ![req[j].path] = Blank]
    /\ fd' = [fd EXCEPT ![j] = "tmp"]
    /\ Goto(j, "write")
    /\ UNCHANGED <<disk, live, req, old, late, cancelled, result, bounds>>

(* ... then write, to wherever the opened file is by now.                  *)
Store(j, text) ==
    /\ disk' = IF fd[j] = "path" THEN [disk EXCEPT ![req[j].path] = text] ELSE disk
    /\ tmp' = IF fd[j] = "tmp" THEN [tmp EXCEPT ![req[j].path] = text] ELSE tmp
    /\ fd' = [fd EXCEPT ![j] = "none"]

WriteTmp(j) ==
    /\ At(j, "write")
    /\ Store(j, req[j].text)
    /\ Goto(j, "rename")
    /\ UNCHANGED <<live, req, old, late, cancelled, result, bounds>>

(* A path that is renamed over or removed takes its open files along.      *)
Moved(p, k) ==
    IF req[k].path # p THEN fd[k]
    ELSE IF fd[k] = "tmp" THEN "path" ELSE "none"
Unlinked(p, k) ==
    IF req[k].path = p /\ fd[k] = "path" THEN "none" ELSE fd[k]

Rename(j) ==
    LET p == req[j].path IN
    /\ At(j, "rename")
    /\ \/ /\ tmp[p] = Gone
          /\ Finish(j, "failed")
          /\ UNCHANGED <<disk, tmp, fd>>
       \/ /\ tmp[p] # Gone
          /\ disk' = [disk EXCEPT ![p] = tmp[p]]
          /\ tmp' = [tmp EXCEPT ![p] = Gone]
          /\ fd' = [k \in Job |-> Moved(p, k)]
          /\ Goto(j, "test")
          /\ UNCHANGED result
    /\ UNCHANGED <<live, req, old, late, cancelled, bounds>>

RemoveSite(j) ==
    LET p == req[j].path IN
    /\ At(j, "remove")
    /\ \/ disk[p] = Gone /\ Finish(j, "failed") /\ UNCHANGED <<disk, fd>>
       \/ /\ disk[p] # Gone
          /\ disk' = [disk EXCEPT ![p] = Gone]
          /\ fd' = [k \in Job |-> Unlinked(p, k)]
          /\ Goto(j, "test")
          /\ UNCHANGED result
    /\ UNCHANGED <<tmp, live, req, old, late, cancelled, bounds>>

(* The backup, the temporary file, the rename or the removal fails; the     *)
(* file is as it was, the temporary one as it is.                          *)
InstallFails(j) ==
    /\ pc[j] \in {"read", "open", "write", "rename", "remove"}
    /\ Fault
    /\ fd' = [fd EXCEPT ![j] = "none"]
    /\ Finish(j, "failed")
    /\ UNCHANGED <<files, req, old, late, cancelled, stranded, crossed>>

(* configTest: of what is on disk now, unless the context has ended.       *)
Passes(j) == Valid(disk) /\ ~cancelled[j]

(* Mutant: a failed test is reported and the new file left in place.       *)
TestNoUndo(j) ==
    /\ At(j, "test")
    /\ \/ Passes(j) /\ Goto(j, "reload") /\ UNCHANGED result
       \/ ~Passes(j) /\ Finish(j, "failed")
    /\ UNCHANGED <<files, req, old, fd, late, cancelled, bounds>>

Test(j) ==
    /\ At(j, "test")
    /\ Goto(j, IF Passes(j) THEN "reload" ELSE "undo")
    /\ UNCHANGED <<files, req, old, fd, late, cancelled, result, bounds>>

(* Mutant: the passing test is taken for the reload.                       *)
ReloadSkipped(j) ==
    /\ At(j, "reload")
    /\ Finish(j, "ok")
    /\ UNCHANGED <<files, req, old, fd, late, cancelled, bounds>>

(* reloadServer: the server re-reads everything and refuses what is not    *)
(* valid.                                                                  *)
Reload(j) ==
    /\ At(j, "reload")
    /\ Passes(j)
    /\ Serve(j)
    /\ stranded' = stranded \ {req[j].path}
    /\ Finish(j, "ok")
    /\ UNCHANGED <<disk, tmp, req, old, fd, late, cancelled, cancels, faults, stops>>

(* Mutant: a failed reload is reported and the new file left in place.     *)
ReloadNoUndo(j) ==
    /\ At(j, "reload")
    /\ Finish(j, "failed")
    /\ UNCHANGED <<files, req, old, fd, late, cancelled, bounds>>

(* It can fail at any time, and a context that ends while systemctl waits   *)
(* reports a failure of a reload that takes place.                         *)
ReloadFails(j) ==
    /\ At(j, "reload")
    /\ late' = [late EXCEPT ![j] = TRUE]
    /\ \/ UNCHANGED live
       \/ cancelled[j] /\ Valid(disk) /\ live' = disk
    /\ Goto(j, "undo")
    /\ UNCHANGED <<disk, tmp, req, old, fd, cancelled, result, bounds>>

(* Mutant: a status nobody knows.                                          *)
UndoneElse(j) == Finish(j, "undone")

Undone(j) ==
    IF late[j] THEN Goto(j, "again") /\ UNCHANGED result ELSE Finish(j, "rolledback")

(* os.Remove of a file that was new ...                                    *)
UndoRemove(j) ==
    LET p == req[j].path IN
    /\ At(j, "undo")
    /\ old[j] = Gone
    /\ disk' = [disk EXCEPT ![p] = Gone]
    /\ fd' = [k \in Job |-> Unlinked(p, k)]
    /\ Undone(j)
    /\ UNCHANGED <<tmp, live, req, old, late, cancelled, bounds>>

(* ... or os.WriteFile of the old content, in place: truncate, then write. *)
UndoTruncate(j) ==
    /\ At(j, "undo")
    /\ old[j] # Gone
    /\ disk' = [disk EXCEPT ![req[j].path] = Blank]
    /\ fd' = [fd EXCEPT ![j] = "path"]
    /\ Goto(j, "unwrite")
    /\ UNCHANGED <<tmp, live, req, old, late, cancelled, result, bounds>>

(* Mutant: the wrong buffer is restored.                                   *)
UndoWriteNew(j) ==
    /\ At(j, "unwrite")
    /\ Store(j, req[j].text)
    /\ Undone(j)
    /\ UNCHANGED <<live, req, old, late, cancelled, bounds>>

UndoWrite(j) ==
    /\ At(j, "unwrite")
    /\ Store(j, old[j])
    /\ Undone(j)
    /\ UNCHANGED <<live, req, old, late, cancelled, bounds>>

(* Any of these can fail, and the error is dropped: the new content stays, *)
(* or an empty file, and the job still answers that it rolled back.        *)
UndoFails(j) ==
    /\ pc[j] \in {"undo", "unwrite"}
    /\ Fault
    /\ fd' = [fd EXCEPT ![j] = "none"]
    /\ stranded' = stranded \cup {req[j].path}
    /\ Undone(j)
    /\ UNCHANGED <<files, req, old, late, cancelled, crossed>>

(* The reload after a restore; its error is ignored.                       *)
ReloadAgain(j) ==
    /\ At(j, "again")
    /\ \/ Passes(j) /\ Serve(j)
       \/ UNCHANGED <<live, crossed>>
    /\ Finish(j, "rolledback")
    /\ UNCHANGED <<disk, tmp, req, old, fd, late, cancelled, stranded, cancels, faults, stops>>

-----------------------------------------------------------------------------
(* The ten-minute deadline, or the panel that asked is gone.               *)
Cancel(j) ==
    /\ InFlight(j) /\ ~cancelled[j]
    /\ cancels < MaxCancels
    /\ cancels' = cancels + 1
    /\ cancelled' = [cancelled EXCEPT ![j] = TRUE]
    /\ UNCHANGED <<files, pc, req, old, fd, late, result, stranded, crossed, faults, stops>>

(* The agent stops: files stay as they are, and the server runs on.        *)
AgentStops ==
    /\ stops < MaxStops
    /\ stops' = stops + 1
    /\ pc' = [j \in Job |-> IF InFlight(j) THEN "dead" ELSE pc[j]]
    /\ fd' = [j \in Job |-> "none"]
    /\ stranded' = stranded \cup {req[j].path : j \in {k \in Job : Exposed(k)}}
    /\ UNCHANGED <<files, req, old, late, cancelled, result, crossed, cancels, faults>>

Step(j) ==
    \/ Start(j) \/ CheckAbsent(j) \/ ReadOld(j) \/ OpenTmp(j) \/ WriteTmp(j)
    \/ Rename(j) \/ RemoveSite(j) \/ InstallFails(j) \/ Test(j) \/ Reload(j)
    \/ ReloadFails(j) \/ UndoRemove(j) \/ UndoTruncate(j) \/ UndoWrite(j)
    \/ UndoFails(j) \/ ReloadAgain(j)

Next == AgentStops \/ \E j \in Job : Step(j) \/ Cancel(j)

Spec == Init /\ [][Next]_vars

-----------------------------------------------------------------------------
TypeOK ==
    /\ disk \in [Path -> Text]
    /\ tmp \in [Path -> Text]
    /\ live \in [Path -> Text]
    /\ pc \in [Job -> Phase]
    /\ req \in [Job -> Request \cup {NoRequest}]
    /\ \A j \in Job : pc[j] # "idle" => req[j] \in Request
    /\ old \in [Job -> Text]
    /\ fd \in [Job -> {"none", "tmp", "path"}]
    /\ late \in [Job -> BOOLEAN]
    /\ cancelled \in [Job -> BOOLEAN]
    /\ result \in [Job -> {"none", "ok", "failed", "rolledback"}]
    /\ stranded \subseteq Path
    /\ crossed \in BOOLEAN
    /\ cancels \in 0 .. MaxCancels
    /\ faults \in 0 .. MaxFaults
    /\ stops \in 0 .. MaxStops

(* With one change of a path in flight, a path is an atomic register of    *)
(* the changes that were asked for: it takes the content of a change when  *)
(* that change answers success, and otherwise holds what it held, whatever *)
(* jobs on other paths, failing tests and reloads and ending contexts do.  *)
(* Only a restore that fails or a stop in the middle loses it.             *)
Content(p) ==
    IF p \in stranded THEN Unknown
    ELSE IF \E j \in Job : Exposed(j) /\ req[j].path = p
         THEN old[CHOOSE j \in Job : Exposed(j) /\ req[j].path = p]
         ELSE disk[p]
Base == [p \in Path |-> Content(p)]
Answer(j) == IF pc[j] = "dead" THEN "lost" ELSE result[j]
Register == INSTANCE SiteRegister
    WITH conf <- Base, ask <- req, answer <- [j \in Job |-> Answer(j)]
ImplementsRegister == Register!Spec

(* "configuration applied" is answered only when the server runs it.       *)
SuccessIsServed ==
    [][\A j \in Job : result[j] # "ok" /\ result'[j] = "ok" =>
           live'[req[j].path] = req[j].text]_vars

Rested == \A j \in Job : ~InFlight(j)

(* Once all is quiet the server runs what is on disk: a restart of it      *)
(* brings no surprise.  Jobs on different paths may overlap, but the last  *)
(* reload must not have taken in a file that another job then took back    *)
(* (crossed); a context that ended early may have kept the last reload     *)
(* from running (cancels), and a restore may have failed or been cut off   *)
(* (stranded).                                                             *)
ServedIsOnDisk ==
    Rested /\ ~crossed /\ cancels = 0 /\ stranded = {} => live = disk

(* Once all is quiet the files pass the server's test, or the next change  *)
(* of any site would be blamed for them: with the same exceptions, but for *)
(* contexts, which may end at any time.                                    *)
RestedIsValid ==
    Rested /\ ~crossed /\ stranded = {} => Valid(disk)

-----------------------------------------------------------------------------
(* README.md: the previous version is restored when a change fails.  So    *)
(* once all is quiet, a job that failed has not undone one that succeeded: *)
(* of two jobs on a path, the one that was applied is what is there,       *)
(* unless a restore failed or was cut off.                                 *)
FailureKeepsSuccess ==
    \A j \in Job :
        /\ Rested /\ req[j].path \notin stranded
        /\ result[j] = "ok"
        /\ \A k \in Job \ {j} : req[k].path = req[j].path => result[k] \in {"none", "failed", "rolledback"}
        => disk[req[j].path] = req[j].text
=============================================================================
