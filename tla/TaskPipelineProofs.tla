------------------------- MODULE TaskPipelineProofs -------------------------
(***************************************************************************)
(* Safety of TaskPipeline for every set of tasks and every bound.          *)
(***************************************************************************)
EXTENDS TaskPipeline, TLAPS

(* How the row of a task follows its handler and goroutine.  Nobody who     *)
(* could still write a row is alive while the recovery sweeps the table.   *)
RowsFollowWorkers ==
    /\ web # "serving" => \A t \in Task : worker[t] \notin Live
    /\ \A t \in Task :
        /\ worker[t] = "none" <=> status[t] = "none"
        /\ worker[t] \in {"created", "spawned"} => status[t] = "queued"
        /\ worker[t] \in Live => status[t] \in {"queued", "running"}

(* The agent has not heard of a task before the goroutine calls.           *)
WorkFollowsCall ==
    \A t \in Task :
        /\ worker[t] \in {"none", "created", "spawned", "calling"} => exec[t] = "idle"
        /\ exec[t] = "idle" => effect[t] = "none"

(* A claim of success, wherever it travels, is backed by the host, and the  *)
(* execution that could undo it is over.                                   *)
Backed(t) == effect[t] = "changed" /\ exec[t] \in {"returned", "killed"}
ClaimsAreBacked ==
    \A t \in Task :
        /\ out[t].err = "nil" => Backed(t) /\ ~out[t].rolledBack
        /\ answer[t].err = "nil" => Backed(t)
        /\ ~answer[t].rolledBack
        /\ t \notin SelfUpdate /\ status[t] = "succeeded" => Backed(t)

(* Whoever got past the audit write, or made the agent work, is audited.   *)
Audited ==
    faults = 0 =>
        \A t \in Task :
            worker[t] \in {"spawned", "calling", "waiting", "answered", "finished"}
                \/ exec[t] # "idle" => t \in audited

IInv ==
    /\ TypeOK
    /\ RowsFollowWorkers
    /\ WorkFollowsCall
    /\ ClaimsAreBacked
    /\ Audited
    /\ RunningHasWorker

USE DEF KindAssumption, BoundAssumption, Status, Terminal, WebPhase, WorkerPhase, Live, ExecPhase, Result, Done,
        Failure, RolledBack, NoAnswer, webVars, agentVars, vars

LEMMA InitTypeOK == Init => TypeOK
<1> SUFFICES ASSUME Init PROVE TypeOK
  OBVIOUS
<1> USE DEF Init
<1>1. answer \in [Task -> Result] /\ out \in [Task -> Result]
  OBVIOUS
<1>2. stops \in 0 .. MaxStops /\ faults \in 0 .. MaxDbFaults
  BY BoundAssumption
<1> QED BY <1>1, <1>2 DEF TypeOK

LEMMA InitIInv == Init => IInv
<1> SUFFICES ASSUME Init PROVE IInv
  OBVIOUS
<1> USE DEF Init
<1>1. TypeOK BY InitTypeOK
<1>2. RowsFollowWorkers BY DEF RowsFollowWorkers
<1>3. WorkFollowsCall BY DEF WorkFollowsCall
<1>4. ClaimsAreBacked BY DEF ClaimsAreBacked, Backed
<1>5. Audited BY DEF Audited
<1>6. RunningHasWorker BY DEF RunningHasWorker
<1> QED BY <1>1, <1>2, <1>3, <1>4, <1>5, <1>6 DEF IInv

(* Each action keeps the types.                                            *)
LEMMA TypeStep == TypeOK /\ [Next]_vars => TypeOK'
<1> SUFFICES ASSUME TypeOK, [Next]_vars PROVE TypeOK'
  OBVIOUS
<1> USE BoundAssumption DEF TypeOK, Goto, Lost, WriteStatus
<1>1. ASSUME NEW t \in Task, WorkerStep(t) PROVE TypeOK'
  <2>1. CASE Create(t) BY <2>1 DEF Create
  <2>2. CASE AuditAndSpawn(t) BY <2>2 DEF AuditAndSpawn
  <2>3. CASE MarkRunning(t)
    <3>1. (status \in [Task -> Status])' BY <2>3 DEF MarkRunning
    <3>2. (faults \in 0 .. MaxDbFaults)' BY <2>3 DEF MarkRunning
    <3> QED BY <2>3, <3>1, <3>2 DEF MarkRunning
  <2>4. CASE CallFails(t) BY <2>4 DEF CallFails
  <2>5. CASE CallTimesOut(t) BY <2>5 DEF CallTimesOut
  <2>6. CASE Finish(t) BY <2>6 DEF Finish, FinalStatus
  <2> QED BY <1>1, <2>1, <2>2, <2>3, <2>4, <2>5, <2>6 DEF WorkerStep
<1>2. ASSUME NEW t \in Task, AgentStep(t) PROVE TypeOK'
  <2>1. CASE Accept(t) BY <2>1 DEF Accept
  <2>2. CASE Change(t) BY <2>2 DEF Change
  <2>3. CASE Succeed(t) BY <2>3 DEF Succeed, Return
  <2>4. CASE Fail(t) BY <2>4 DEF Fail, Return
  <2>5. CASE Restore(t) BY <2>5 DEF Restore, Return
  <2>6. CASE Reply(t) BY <2>6 DEF Reply, OnWire
  <2> QED BY <1>2, <2>1, <2>2, <2>3, <2>4, <2>5, <2>6 DEF AgentStep
<1>3. ASSUME HostStep PROVE TypeOK'
  <2> USE DEF WebGone, AgentGone, CloseRunning
  <2>1. CASE WebStops BY <2>1 DEF WebStops
  <2>2. CASE AgentStops
    <3>1. (exec \in [Task -> ExecPhase])' BY <2>2 DEF AgentStops
    <3>2. (stops \in 0 .. MaxStops)' BY <2>2 DEF AgentStops
    <3> QED BY <2>2, <3>1, <3>2 DEF AgentStops
  <2>3. CASE PanelRestart BY <2>3 DEF PanelRestart
  <2>4. CASE AgentStarts BY <2>4 DEF AgentStarts
  <2>5. CASE WebStarts BY <2>5 DEF WebStarts
  <2>6. CASE RecoverSelfUpdates BY <2>6 DEF RecoverSelfUpdates
  <2>7. CASE RecoverOthers BY <2>7 DEF RecoverOthers
  <2> QED BY <1>3, <2>1, <2>2, <2>3, <2>4, <2>5, <2>6, <2>7 DEF HostStep
<1>4. CASE UNCHANGED vars BY <1>4
<1> QED BY <1>1, <1>2, <1>3, <1>4 DEF Next

(* THE TYPE INVARIANT.                                                     *)
(* Every column, phase and result keeps its type in every behaviour of the *)
(* two processes.                                                          *)
THEOREM TypeCorrect == Spec => []TypeOK
<1>1. Init => TypeOK
  BY InitTypeOK
<1>2. QED BY <1>1, TypeStep, PTL DEF Spec

LEMMA StepIInv == IInv /\ [Next]_vars => IInv'
<1> SUFFICES ASSUME IInv, [Next]_vars PROVE IInv'
  OBVIOUS
<1>t. TypeOK' BY TypeStep DEF IInv
<1> USE KindAssumption, BoundAssumption, <1>t
    DEF IInv, TypeOK, RowsFollowWorkers, WorkFollowsCall, ClaimsAreBacked,
        Backed, Audited, RunningHasWorker, Goto, Lost, WriteStatus
<1>1. ASSUME NEW t \in Task, WorkerStep(t) PROVE IInv'
  <2>1. CASE Create(t) BY <2>1 DEF Create
  <2>2. CASE AuditAndSpawn(t) BY <2>2 DEF AuditAndSpawn
  <2>3. CASE MarkRunning(t) BY <2>3 DEF MarkRunning
  <2>4. CASE CallFails(t) BY <2>4 DEF CallFails
  <2>5. CASE CallTimesOut(t) BY <2>5 DEF CallTimesOut
  <2>6. CASE Finish(t) BY <2>6 DEF Finish, FinalStatus
  <2> QED BY <1>1, <2>1, <2>2, <2>3, <2>4, <2>5, <2>6 DEF WorkerStep
<1>2. ASSUME NEW t \in Task, AgentStep(t) PROVE IInv'
  <2>1. CASE Accept(t) BY <2>1 DEF Accept
  <2>2. CASE Change(t) BY <2>2 DEF Change
  <2>3. CASE Succeed(t) BY <2>3 DEF Succeed, Return
  <2>4. CASE Fail(t) BY <2>4 DEF Fail, Return
  <2>5. CASE Restore(t) BY <2>5 DEF Restore, Return
  <2>6. CASE Reply(t) BY <2>6 DEF Reply, OnWire
  <2> QED BY <1>2, <2>1, <2>2, <2>3, <2>4, <2>5, <2>6 DEF AgentStep
<1>3. ASSUME HostStep PROVE IInv'
  <2> USE DEF WebGone, AgentGone, CloseRunning
  <2>1. CASE WebStops BY <2>1 DEF WebStops
  <2>2. CASE AgentStops BY <2>2 DEF AgentStops
  <2>3. CASE PanelRestart BY <2>3 DEF PanelRestart
  <2>4. CASE AgentStarts BY <2>4 DEF AgentStarts
  <2>5. CASE WebStarts BY <2>5 DEF WebStarts
  <2>6. CASE RecoverSelfUpdates BY <2>6 DEF RecoverSelfUpdates
  <2>7. CASE RecoverOthers BY <2>7 DEF RecoverOthers
  <2> QED BY <1>3, <2>1, <2>2, <2>3, <2>4, <2>5, <2>6, <2>7 DEF HostStep
<1>4. CASE UNCHANGED vars BY <1>4
<1> QED BY <1>1, <1>2, <1>3, <1>4 DEF Next

LEMMA InductiveInvariant == Spec => []IInv
BY InitIInv, StepIInv, PTL DEF Spec

(* A row that says running has the goroutine that will settle it, as long  *)
(* as the API is served and no database write was lost.                    *)
THEOREM NothingAbandoned == Spec => []RunningHasWorker
BY InductiveInvariant, PTL DEF IInv

(* Success reported of a task that is not a self-update is in force on the *)
(* host.                                                                   *)
THEOREM SuccessCorrect == Spec => []SuccessIsReal
<1>1. IInv => SuccessIsReal
  BY DEF IInv, ClaimsAreBacked, Backed, SuccessIsReal
<1> QED BY <1>1, InductiveInvariant, PTL

(* Work on the host is preceded by its audit row.                          *)
THEOREM AuditCorrect == Spec => []AuditedBeforeWork
<1>1. IInv => AuditedBeforeWork
  BY DEF IInv, Audited, WorkFollowsCall, AuditedBeforeWork
<1> QED BY <1>1, InductiveInvariant, PTL

(* A settled status is never rewritten.                                    *)
THEOREM TerminalCorrect == Spec => TerminalIsFinal
<1> DEFINE Kept == \A t \in Task : status[t] \in Terminal => status'[t] = status[t]
<1>1. ASSUME IInv, [Next]_vars PROVE Kept
  <2> USE <1>1 DEF IInv, TypeOK, RowsFollowWorkers, Goto, WriteStatus
  <2>1. ASSUME NEW u \in Task, WorkerStep(u) PROVE Kept
    BY <2>1 DEF WorkerStep, Create, AuditAndSpawn, MarkRunning, CallFails, CallTimesOut, Finish
  <2>2. ASSUME NEW u \in Task, AgentStep(u) PROVE Kept
    BY <2>2 DEF AgentStep, Accept, Change, Succeed, Fail, Restore, Reply, Return
  <2>3. ASSUME HostStep PROVE Kept
    BY <2>3 DEF HostStep, WebStops, AgentStops, PanelRestart, AgentStarts, WebStarts,
       RecoverSelfUpdates, RecoverOthers, WebGone, AgentGone, CloseRunning
  <2>4. CASE UNCHANGED vars BY <2>4
  <2> QED BY <1>1, <2>1, <2>2, <2>3, <2>4 DEF Next
<1>2. IInv /\ [Next]_vars => [Kept]_vars
  BY <1>1
<1> QED BY <1>2, InductiveInvariant, PTL DEF Spec, TerminalIsFinal

(* No action is executed twice.                                            *)
THEOREM OnceCorrect == Spec => ExecutedOnce
<1> DEFINE Once == \A t \in Task : exec'[t] = "running" => exec[t] \in {"idle", "running"}
<1>1. ASSUME IInv, [Next]_vars PROVE Once
  <2> USE <1>1 DEF IInv, TypeOK, WorkFollowsCall, Goto
  <2>1. ASSUME NEW u \in Task, WorkerStep(u) PROVE Once
    BY <2>1 DEF WorkerStep, Create, AuditAndSpawn, MarkRunning, CallFails, CallTimesOut, Finish
  <2>2. ASSUME NEW u \in Task, AgentStep(u) PROVE Once
    BY <2>2 DEF AgentStep, Accept, Change, Succeed, Fail, Restore, Reply, Return
  <2>3. ASSUME HostStep PROVE Once
    BY <2>3 DEF HostStep, WebStops, AgentStops, PanelRestart, AgentStarts, WebStarts,
       RecoverSelfUpdates, RecoverOthers, WebGone, AgentGone
  <2>4. CASE UNCHANGED vars BY <2>4
  <2> QED BY <1>1, <2>1, <2>2, <2>3, <2>4 DEF Next
<1>2. IInv /\ [Next]_vars => [Once]_vars
  BY <1>1
<1> QED BY <1>2, InductiveInvariant, PTL DEF Spec, ExecutedOnce

(* REFINEMENT.  Every step of the two processes is a step of the ledger or *)
(* leaves its variables alone.                                             *)
THEOREM PipelineImplementsLedger == Spec => ImplementsLedger
<1> USE DEF Ledger!vars, Ledger!Terminal, Ledger!Status, Ledger!Effect
<1>1. Init => Ledger!Init
  BY DEF Init, Ledger!Init
<1>2. ASSUME IInv, [Next]_vars PROVE [Ledger!Next]_(Ledger!vars)
  <2> USE <1>2 DEF IInv, TypeOK, RowsFollowWorkers, WorkFollowsCall, ClaimsAreBacked,
          Backed, Goto, Lost, WriteStatus
  <2>1. ASSUME NEW t \in Task, WorkerStep(t) PROVE [Ledger!Next]_(Ledger!vars)
    <3>1. CASE Create(t)
      <4>1. Ledger!Submit(t) BY <3>1 DEF Create, Ledger!Submit
      <4> QED BY <4>1 DEF Ledger!Next
    <3>2. CASE AuditAndSpawn(t) BY <3>2 DEF AuditAndSpawn
    <3>3. CASE MarkRunning(t)
      <4>1. Ledger!Begin(t) \/ UNCHANGED Ledger!vars
        BY <3>3 DEF MarkRunning, Ledger!Begin
      <4> QED BY <4>1 DEF Ledger!Next
    <3>4. CASE CallFails(t) BY <3>4 DEF CallFails
    <3>5. CASE CallTimesOut(t) BY <3>5 DEF CallTimesOut
    <3>6. CASE Finish(t)
      <4>1. Ledger!Settle(t, FinalStatus(answer[t])) \/ UNCHANGED Ledger!vars
        BY <3>6 DEF Finish, FinalStatus, Ledger!Settle
      <4>2. FinalStatus(answer[t]) \in Terminal
        BY DEF FinalStatus
      <4> QED BY <4>1, <4>2 DEF Ledger!Next
    <3> QED BY <2>1, <3>1, <3>2, <3>3, <3>4, <3>5, <3>6 DEF WorkerStep
  <2>2. ASSUME NEW t \in Task, AgentStep(t) PROVE [Ledger!Next]_(Ledger!vars)
    <3>1. CASE Accept(t) BY <3>1 DEF Accept
    <3>2. CASE Change(t)
      <4>1. Ledger!Work(t) BY <3>2 DEF Change, Ledger!Work
      <4> QED BY <4>1 DEF Ledger!Next
    <3>3. CASE Succeed(t) BY <3>3 DEF Succeed, Return
    <3>4. CASE Fail(t) BY <3>4 DEF Fail, Return
    <3>5. CASE Restore(t)
      <4>1. Ledger!Work(t) BY <3>5 DEF Restore, Return, Ledger!Work
      <4> QED BY <4>1 DEF Ledger!Next
    <3>6. CASE Reply(t) BY <3>6 DEF Reply
    <3> QED BY <2>2, <3>1, <3>2, <3>3, <3>4, <3>5, <3>6 DEF AgentStep
  <2>3. ASSUME HostStep PROVE [Ledger!Next]_(Ledger!vars)
    <3>1. CASE RecoverSelfUpdates
      <4>1. Ledger!CloseRunning(SelfUpdate, "succeeded") \/ UNCHANGED Ledger!vars
        BY <3>1 DEF RecoverSelfUpdates, CloseRunning, Ledger!CloseRunning
      <4> QED BY <4>1 DEF Ledger!Next
    <3>2. CASE RecoverOthers
      <4>1. Ledger!CloseRunning(Task, "failed") \/ UNCHANGED Ledger!vars
        BY <3>2 DEF RecoverOthers, CloseRunning, Ledger!CloseRunning
      <4> QED BY <4>1 DEF Ledger!Next
    <3>3. CASE WebStops \/ AgentStops \/ PanelRestart \/ AgentStarts \/ WebStarts
      BY <3>3 DEF WebStops, AgentStops, PanelRestart, AgentStarts, WebStarts, WebGone, AgentGone
    <3> QED BY <2>3, <3>1, <3>2, <3>3 DEF HostStep
  <2>4. CASE UNCHANGED vars BY <2>4
  <2> QED BY <1>2, <2>1, <2>2, <2>3, <2>4 DEF Next
<1>3. IInv /\ [Next]_vars => [Ledger!Next]_(Ledger!vars)
  BY <1>2
<1> QED BY <1>1, <1>3, InductiveInvariant, PTL DEF Spec, ImplementsLedger, Ledger!Spec
=============================================================================
