----------------------------- MODULE TaskLedger -----------------------------
(***************************************************************************)
(* What the panel promises about the tasks table, with neither processes   *)
(* nor messages: a task is persisted, picked up, works on the host, and is *)
(* settled once and for all.  TaskPipeline implements this module.         *)
(***************************************************************************)
CONSTANTS
    Task,        \* task ids
    SelfUpdate   \* those whose kind is panel.self_update

VARIABLES
    status,      \* the status column
    effect       \* what the task has done to the host

vars == <<status, effect>>

Terminal == {"succeeded", "failed", "rolled_back"}
Status == {"none", "queued", "running"} \cup Terminal
Effect == {"none", "changed", "restored"}

Init ==
    /\ status = [t \in Task |-> "none"]
    /\ effect = [t \in Task |-> "none"]

Submit(t) ==
    /\ status[t] = "none"
    /\ status' = [status EXCEPT ![t] = "queued"]
    /\ UNCHANGED effect

Begin(t) ==
    /\ status[t] = "queued"
    /\ status' = [status EXCEPT ![t] = "running"]
    /\ UNCHANGED effect

(* A task works only once its row is persisted; work that was given up on  *)
(* may still go on.                                                        *)
Work(t) ==
    /\ status[t] # "none"
    /\ \E e \in Effect \ {"none"} : effect' = [effect EXCEPT ![t] = e]
    /\ UNCHANGED status

(* A task is settled once.  Success is claimed only for work that took     *)
(* effect, a rollback only for work that was undone.                       *)
Settle(t, s) ==
    /\ status[t] \in {"queued", "running"}
    /\ s = "succeeded" => effect[t] = "changed"
    /\ s = "rolled_back" => effect[t] = "restored"
    /\ status' = [status EXCEPT ![t] = s]
    /\ UNCHANGED effect

(* After a restart every running row of a group is closed at once.         *)
CloseRunning(group, s) ==
    /\ status' = [t \in Task |-> IF status[t] = "running" /\ t \in group
                                   THEN s ELSE status[t]]
    /\ UNCHANGED effect

Next ==
    \/ \E t \in Task : Submit(t) \/ Begin(t) \/ Work(t)
    \/ \E t \in Task, s \in Terminal : Settle(t, s)
    \/ CloseRunning(SelfUpdate, "succeeded")
    \/ CloseRunning(Task, "failed")

Spec == Init /\ [][Next]_vars
=============================================================================
