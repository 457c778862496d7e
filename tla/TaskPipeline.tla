---------------------------- MODULE TaskPipeline ----------------------------
(***************************************************************************)
(* POST /api/v1/actions from the browser to the host and back: the request *)
(* handler and its goroutine in anpanel-web (internal/app/server.go), the  *)
(* tasks table (internal/store/store.go), the RPC over the unix socket     *)
(* (internal/agent/client.go, server.go) and the execution in the agent.   *)
(* Both processes can stop at any step and are restarted by systemd; the   *)
(* RPC can time out; a write to SQLite can fail, and the code ignores it.  *)
(***************************************************************************)
EXTENDS Naturals

CONSTANTS
    Task,          \* task ids
    SelfUpdate,    \* tasks of kind panel.self_update
    Reversible,    \* tasks whose action restores the old version when it fails
    MaxStops,      \* bound: unplanned stops of either process
    MaxDbFaults    \* bound: failing SQLite writes

ASSUME KindAssumption ==
    /\ SelfUpdate \subseteq Task
    /\ Reversible \subseteq Task \ SelfUpdate
ASSUME BoundAssumption == MaxStops \in Nat /\ MaxDbFaults \in Nat

VARIABLES
    status,      \* tasks.status; "none" while there is no row
    audited,     \* tasks with a task.create row in the audit table
    web,         \* phase of anpanel-web
    worker,      \* phase of the handler, then of the goroutine, of a task
    answer,      \* the ActionResult and error the goroutine got
    agentUp,     \* anpanel-agent is running
    exec,        \* phase of executeAction for a task
    out,         \* what executeAction returned
    effect,      \* what the action did to the host
    restartDue,  \* schedulePanelRestart's timer is running
    stops, faults

webVars == <<status, audited, web, worker, answer>>
agentVars == <<agentUp, exec, out, effect, restartDue>>
vars == <<webVars, agentVars, stops, faults>>

Terminal == {"succeeded", "failed", "rolled_back"}
Status == {"none", "queued", "running"} \cup Terminal
WebPhase == {"down", "opening", "recovering", "serving"}
WorkerPhase == {"none", "created", "spawned", "calling", "waiting",
                "answered", "finished", "lost"}
Live == {"created", "spawned", "calling", "waiting", "answered"}
ExecPhase == {"idle", "running", "returned", "killed"}

(* agent.ActionResult with the error returned beside it: none, one of the  *)
(* action, or one of the call that should have brought the answer.         *)
Result == [err : {"nil", "action", "call"}, rolledBack : BOOLEAN]
Done == [err |-> "nil", rolledBack |-> FALSE]
Failure == [err |-> "action", rolledBack |-> FALSE]
RolledBack == [err |-> "action", rolledBack |-> TRUE]
NoAnswer == [err |-> "call", rolledBack |-> FALSE]

Init ==
    /\ status = [t \in Task |-> "none"]
    /\ audited = {}
    /\ web = "serving"
    /\ worker = [t \in Task |-> "none"]
    /\ answer = [t \in Task |-> NoAnswer]
    /\ agentUp = TRUE
    /\ exec = [t \in Task |-> "idle"]
    /\ out = [t \in Task |-> Failure]
    /\ effect = [t \in Task |-> "none"]
    /\ restartDue = FALSE
    /\ stops = 0
    /\ faults = 0

(* A write whose error the caller drops: it happens, or it is lost.        *)
Lost == faults < MaxDbFaults /\ faults' = faults + 1
WriteStatus(rows) ==
    \/ status' = rows /\ UNCHANGED faults
    \/ Lost /\ UNCHANGED status

Goto(t, from, to) ==
    /\ worker[t] = from
    /\ worker' = [worker EXCEPT ![t] = to]

-----------------------------------------------------------------------------
(* anpanel-web: the handler and its goroutine.                             *)

(* CreateTask; when it fails the client gets a 500 and nothing changed.    *)
Create(t) ==
    /\ web = "serving"
    /\ Goto(t, "none", "created")
    /\ status' = [status EXCEPT ![t] = "queued"]
    /\ UNCHANGED <<audited, web, answer, agentVars, stops, faults>>

(* Mutant: the goroutine is started without the audit row.                 *)
SpawnUnaudited(t) ==
    /\ Goto(t, "created", "spawned")
    /\ UNCHANGED <<status, audited, web, answer, agentVars, stops, faults>>

(* Audit, whose error is dropped, then the go statement.                   *)
AuditAndSpawn(t) ==
    /\ Goto(t, "created", "spawned")
    /\ \/ audited' = audited \cup {t} /\ UNCHANGED faults
       \/ Lost /\ UNCHANGED audited
    /\ UNCHANGED <<status, web, answer, agentVars, stops>>

(* UpdateTask "running", then the ten-minute context.                      *)
MarkRunning(t) ==
    /\ Goto(t, "spawned", "calling")
    /\ WriteStatus([status EXCEPT ![t] = "running"])
    /\ UNCHANGED <<audited, web, answer, agentVars, stops>>

Unreachable(t) == ~agentUp \/ exec[t] = "killed"

(* Mutant: the client retries a call that broke off.                       *)
CallRetries(t) ==
    /\ Unreachable(t)
    /\ Goto(t, "waiting", "calling") \/ Goto(t, "calling", "answered")
    /\ answer' = [answer EXCEPT ![t] = NoAnswer]
    /\ UNCHANGED <<status, audited, web, agentVars, stops, faults>>

(* The POST fails: nobody listens, the agent died, or time is up.  The      *)
(* ActionResult stays the zero value.                                      *)
CallFails(t) ==
    /\ Unreachable(t)
    /\ Goto(t, "calling", "answered") \/ Goto(t, "waiting", "answered")
    /\ answer' = [answer EXCEPT ![t] = NoAnswer]
    /\ UNCHANGED <<status, audited, web, agentVars, stops, faults>>

CallTimesOut(t) ==
    /\ Goto(t, "waiting", "answered")
    /\ answer' = [answer EXCEPT ![t] = NoAnswer]
    /\ UNCHANGED <<status, audited, web, agentVars, stops, faults>>

(* Mutant: a status the table does not know.                               *)
FinalStatusElse(a) == IF a.err = "nil" THEN "success" ELSE "failed"

(* Mutant: the goroutine looks at the flag and forgets the error.          *)
FinalStatusSansError(a) == IF a.rolledBack THEN "rolled_back" ELSE "succeeded"

(* The last UpdateTask of the goroutine.                                   *)
FinalStatus(a) ==
    IF a.err = "nil" THEN "succeeded" ELSE IF a.rolledBack THEN "rolled_back" ELSE "failed"

Finish(t) ==
    /\ Goto(t, "answered", "finished")
    /\ WriteStatus([status EXCEPT ![t] = FinalStatus(answer[t])])
    /\ UNCHANGED <<audited, web, answer, agentVars, stops>>

-----------------------------------------------------------------------------
(* anpanel-agent: the action handler and executeAction.                    *)

Accept(t) ==
    /\ agentUp
    /\ Goto(t, "calling", "waiting")
    /\ exec' = [exec EXCEPT ![t] = "running"]
    /\ UNCHANGED <<status, audited, web, answer, agentUp, out, effect, restartDue, stops, faults>>

Change(t) ==
    /\ exec[t] = "running"
    /\ effect[t] = "none"
    /\ effect' = [effect EXCEPT ![t] = "changed"]
    /\ UNCHANGED <<webVars, agentUp, exec, out, restartDue, stops, faults>>

Return(t, r) ==
    /\ exec[t] = "running"
    /\ exec' = [exec EXCEPT ![t] = "returned"]
    /\ out' = [out EXCEPT ![t] = r]

(* A self-update that returns has armed the two-second restart timer.      *)
Succeed(t) ==
    /\ effect[t] = "changed"
    /\ Return(t, Done)
    /\ restartDue' = (restartDue \/ t \in SelfUpdate)
    /\ UNCHANGED <<webVars, agentUp, effect, stops, faults>>

(* An action that cannot restore may fail half way.                        *)
Fail(t) ==
    /\ t \in Reversible => effect[t] = "none"
    /\ Return(t, Failure)
    /\ UNCHANGED <<webVars, agentUp, effect, restartDue, stops, faults>>

Restore(t) ==
    /\ t \in Reversible
    /\ effect[t] = "changed"
    /\ effect' = [effect EXCEPT ![t] = "restored"]
    /\ Return(t, RolledBack)
    /\ UNCHANGED <<webVars, agentUp, restartDue, stops, faults>>

(* The handler answers an error with http.Error, which carries the message *)
(* but not the ActionResult; Client.do then leaves its out untouched.      *)
OnWire(r) == IF r.err = "nil" THEN r ELSE [r EXCEPT !.rolledBack = FALSE]

Reply(t) ==
    /\ exec[t] = "returned"
    /\ Goto(t, "waiting", "answered")
    /\ answer' = [answer EXCEPT ![t] = OnWire(out[t])]
    /\ UNCHANGED <<status, audited, web, agentVars, stops, faults>>

-----------------------------------------------------------------------------
(* Stops and restarts of the two processes.                                *)

(* Mutant: tasks outlive the process that started them.                    *)
WebGoneAlone ==
    /\ web' = "down"
    /\ UNCHANGED <<status, audited, worker, answer>>

WebGone ==
    /\ web' = "down"
    /\ worker' = [t \in Task |-> IF worker[t] \in Live THEN "lost" ELSE worker[t]]
    /\ UNCHANGED <<status, audited, answer>>

AgentGone ==
    /\ agentUp' = FALSE
    /\ exec' = [t \in Task |-> IF exec[t] = "idle" THEN "idle" ELSE "killed"]
    /\ restartDue' = FALSE
    /\ UNCHANGED <<out, effect>>

WebStops ==
    /\ web # "down"
    /\ stops < MaxStops
    /\ stops' = stops + 1
    /\ WebGone
    /\ UNCHANGED <<agentVars, faults>>

AgentStops ==
    /\ agentUp
    /\ stops < MaxStops
    /\ stops' = stops + 1
    /\ AgentGone
    /\ UNCHANGED <<webVars, faults>>

(* systemctl restart of both units, by install.sh while the self-update is *)
(* still running it, or by the timer afterwards.                           *)
PanelRestart ==
    /\ \/ restartDue
       \/ \E t \in SelfUpdate : exec[t] = "running" /\ effect[t] = "changed"
    /\ WebGone
    /\ AgentGone
    /\ UNCHANGED <<stops, faults>>

AgentStarts ==
    /\ ~agentUp
    /\ agentUp' = TRUE
    /\ UNCHANGED <<webVars, exec, out, effect, restartDue, stops, faults>>

WebStarts ==
    /\ web = "down"
    /\ web' = "opening"
    /\ UNCHANGED <<status, audited, worker, answer, agentVars, stops, faults>>

(* Mutant: recovery without the condition on the status.                   *)
CloseEvery(group, s) ==
    [t \in Task |-> IF status[t] # "none" /\ t \in group THEN s ELSE status[t]]

CloseRunning(group, s) ==
    [t \in Task |-> IF status[t] = "running" /\ t \in group THEN s ELSE status[t]]

(* RecoverInterruptedTasks, two statements without a transaction; an error *)
(* of the first skips the second, and Run ignores either.                  *)
RecoverSelfUpdates ==
    /\ web = "opening"
    /\ \/ /\ status' = CloseRunning(SelfUpdate, "succeeded")
          /\ web' = "recovering"
          /\ UNCHANGED faults
       \/ Lost /\ web' = "serving" /\ UNCHANGED status
    /\ UNCHANGED <<audited, worker, answer, agentVars, stops>>

(* Mutant: recovery closes the self-updates only.                          *)
RecoverNoOthers ==
    /\ web = "recovering"
    /\ web' = "serving"
    /\ UNCHANGED <<status, audited, worker, answer, agentVars, stops, faults>>

RecoverOthers ==
    /\ web = "recovering"
    /\ web' = "serving"
    /\ WriteStatus(CloseRunning(Task, "failed"))
    /\ UNCHANGED <<audited, worker, answer, agentVars, stops>>

-----------------------------------------------------------------------------
WorkerStep(t) ==
    \/ Create(t) \/ AuditAndSpawn(t) \/ MarkRunning(t)
    \/ CallFails(t) \/ CallTimesOut(t) \/ Finish(t)

AgentStep(t) ==
    \/ Accept(t) \/ Change(t) \/ Succeed(t) \/ Fail(t) \/ Restore(t) \/ Reply(t)

HostStep ==
    \/ WebStops \/ AgentStops \/ PanelRestart \/ AgentStarts \/ WebStarts
    \/ RecoverSelfUpdates \/ RecoverOthers

Next == HostStep \/ \E t \in Task : WorkerStep(t) \/ AgentStep(t)

Spec == Init /\ [][Next]_vars

(***************************************************************************)
(* Goroutines are scheduled, a call ends by its deadline at the latest,    *)
(* the units have Restart=on-failure.  Nothing obliges an operator to      *)
(* submit, the host to fail, or a stop to happen, and an action need never *)
(* return: the deadline is what bounds it.                                 *)
(***************************************************************************)
Fairness ==
    /\ \A t \in Task :
          /\ WF_vars(AuditAndSpawn(t))
          /\ WF_vars(MarkRunning(t))
          /\ WF_vars(Accept(t) \/ CallFails(t) \/ CallTimesOut(t))
          /\ WF_vars(Finish(t))
    /\ WF_vars(AgentStarts)
    /\ WF_vars(WebStarts)
    /\ WF_vars(RecoverSelfUpdates)
    /\ WF_vars(RecoverOthers)

FairSpec == Spec /\ Fairness

-----------------------------------------------------------------------------
TypeOK ==
    /\ status \in [Task -> Status]
    /\ audited \subseteq Task
    /\ web \in WebPhase
    /\ worker \in [Task -> WorkerPhase]
    /\ answer \in [Task -> Result]
    /\ agentUp \in BOOLEAN
    /\ exec \in [Task -> ExecPhase]
    /\ out \in [Task -> Result]
    /\ effect \in [Task -> {"none", "changed", "restored"}]
    /\ restartDue \in BOOLEAN
    /\ stops \in 0 .. MaxStops
    /\ faults \in 0 .. MaxDbFaults

(* While the API is served and no write was lost, every row that says      *)
(* "running" has the goroutine that will settle it: no crash of either     *)
(* process, at any step, leaves a task running for ever in the task list.  *)
RunningHasWorker ==
    web = "serving" /\ faults = 0 =>
        \A t \in Task : status[t] = "running" =>
            worker[t] \in {"calling", "waiting", "answered"}

(* A task other than a self-update is reported as succeeded only if its    *)
(* change reached the host and is still in force.                          *)
SuccessIsReal ==
    \A t \in Task \ SelfUpdate : status[t] = "succeeded" => effect[t] = "changed"

(* No privileged change without its audit row, whatever the interleaving   *)
(* of handlers and stops, as long as the database takes its writes.        *)
AuditedBeforeWork ==
    faults = 0 => \A t \in Task : effect[t] # "none" => t \in audited

(* A settled task keeps its status: neither recovery after a restart nor   *)
(* the late end of a goroutine rewrites it.                                *)
TerminalIsFinal ==
    [][\A t \in Task : status[t] \in Terminal => status'[t] = status[t]]_vars

(* An action is executed at most once, although calls break off, time out  *)
(* and both ends are restarted.                                            *)
ExecutedOnce ==
    [][\A t \in Task : exec'[t] = "running" => exec[t] \in {"idle", "running"}]_vars

(* The pipeline implements the ledger: with the processes, the RPC and the *)
(* recovery hidden, rows are settled once and success is not made up.      *)
Ledger == INSTANCE TaskLedger
ImplementsLedger == Ledger!Spec

(* A task shown as running is eventually settled: by its answer, by the    *)
(* deadline of the call or by the recovery after a restart.                *)
RunningEnds ==
    \A t \in Task : status[t] = "running" ~> status[t] \in Terminal \/ faults > 0

-----------------------------------------------------------------------------
(* What the documents say and the code does not do.                        *)

(* docs/API.md: rolled_back is the status of an operation that failed and  *)
(* whose previous version was restored.  Said only of tasks whose goroutine *)
(* received the agent's own answer and whose last write was not lost.      *)
RolledBackIsReported ==
    \A t \in Task :
        (worker[t] = "finished" /\ answer[t].err = "action" /\ out[t].rolledBack)
            => (status[t] = "rolled_back" \/ faults > 0)

(* docs/API.md: queued means persisted and waiting for the agent.          *)
QueuedIsExecuted ==
    \A t \in Task : status[t] = "queued" ~> status[t] # "queued" \/ faults > 0
=============================================================================
