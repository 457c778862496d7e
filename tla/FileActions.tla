---------------------------- MODULE FileActions ----------------------------
(***************************************************************************)
(* The file actions of the agent (internal/agent/files.go), one file       *)
(* system call at a time: write, mkdir, delete, rename, copy and move.  A  *)
(* rename that fails falls back to copying over the destination, and a     *)
(* move whose rename fails as a whole falls back to copyPath and           *)
(* deletePath.  Several tasks run at once.  Only files change: directories *)
(* stay.                                                                   *)
(***************************************************************************)
EXTENDS Naturals, FiniteSets

CONSTANTS
    Dir,
    Foreign,    \* the directories on another file system than the rest
    Name,
    Text,       \* the contents of files
    Absent,     \* there is no such file
    Partial,    \* a copy that was begun and not ended
    Disks,      \* what the files may hold at first
    Task

File == [dir : Dir, name : Name]
Content == Text \cup {Partial}
Tree == [File -> Content \cup {Absent}]

ASSUME FilesAssumption ==
    /\ Foreign \subseteq Dir
    /\ Absent \notin Content /\ Partial \notin Text
    /\ Disks \subseteq Tree

VARIABLES
    op,    \* what a task asks for
    disk,
    pc,    \* how far the agent is with it
    txt,   \* what it found in its source
    was    \* what its destination held when it began

agentVars == <<op, disk, pc, txt, was>>

Renames == {"rename", "move"}
Kinds == {"write", "mkdir", "delete", "copy"} \cup Renames
Op == [kind : Kinds, from : File, to : File, text : Text]

Busy == {"begun", "draining", "drained", "refused", "cleared", "copying", "copied"}
Begun == Busy \cup {"done", "failed", "littered", "stopped"}

(* A task that was never posted has no operation.                          *)
AgentInit ==
    /\ disk \in Disks
    /\ pc = [t \in Task |-> "none"]
    /\ txt = [t \in Task |-> Absent] /\ was = [t \in Task |-> Absent]

AgentTypeOK ==
    /\ disk \in Tree
    /\ pc \in [Task -> {"none", "ready", "lost"} \cup Begun]
    /\ txt \in [Task -> Content \cup {Absent}]
    /\ was \in [Task -> Content \cup {Absent}]
    /\ DOMAIN op = Task
    /\ \A t \in Task : pc[t] # "none" => op[t] \in Op

-----------------------------------------------------------------------------

At(t, p) == pc[t] = p
Kind(t) == op[t].kind
From(t) == op[t].from
To(t) == op[t].to

Go(t, p) == pc' = [pc EXCEPT ![t] = p]
Put(f, x) == disk' = [disk EXCEPT ![f] = x]

(* The agent has the request.                                              *)
Begin(t) ==
    /\ At(t, "ready") /\ Go(t, "begun")
    /\ txt' = [txt EXCEPT ![t] = disk[From(t)]]
    /\ was' = [was EXCEPT ![t] = disk[To(t)]]
    /\ UNCHANGED <<op, disk>>

(* The call does not reach the agent.                                      *)
Unreached(t) ==
    /\ At(t, "ready") /\ Go(t, "lost")
    /\ UNCHANGED <<op, disk, txt, was>>

(* A temporary file takes the place of the old one in one step.            *)
WriteFile(t) ==
    /\ At(t, "begun") /\ Kind(t) = "write" /\ Go(t, "done")
    /\ Put(To(t), op[t].text)
    /\ UNCHANGED <<op, txt, was>>

MakeDir(t) ==
    /\ At(t, "begun") /\ Kind(t) = "mkdir" /\ Go(t, "done")
    /\ UNCHANGED <<op, disk, txt, was>>

Delete(t) ==
    /\ \/ At(t, "begun") /\ Kind(t) = "delete"
       \/ At(t, "copied")
    /\ Go(t, "done")
    /\ Put(From(t), Absent)
    /\ UNCHANGED <<op, txt, was>>

(* A write, mkdir or delete that fails, the one at the end of a move too.  *)
Refuse(t) ==
    /\ \/ At(t, "begun") /\ Kind(t) \in {"write", "mkdir", "delete"}
       \/ At(t, "copied")
    /\ Go(t, "failed")
    /\ UNCHANGED <<op, disk, txt, was>>

SameDevice(f, g) == f.dir \in Foreign <=> g.dir \in Foreign

Rename(t) ==
    /\ At(t, "begun") /\ Kind(t) \in Renames
    /\ SameDevice(From(t), To(t)) /\ disk[From(t)] # Absent
    /\ Go(t, "done")
    /\ disk' = [disk EXCEPT ![From(t)] = Absent, ![To(t)] = disk[From(t)]]
    /\ UNCHANGED <<op, txt, was>>

(* os.Rename failed: copyRemove truncates the destination.  The kernel     *)
(* never refuses to rename a file to itself.                               *)
Drain(t) ==
    /\ At(t, "begun") /\ Kind(t) \in Renames
    /\ From(t) # To(t) /\ disk[From(t)] # Absent
    /\ Go(t, "draining")
    /\ txt' = [txt EXCEPT ![t] = disk[From(t)]]
    /\ Put(To(t), Partial)
    /\ UNCHANGED <<op, was>>

Drained(t) ==
    /\ At(t, "draining") /\ Go(t, "drained")
    /\ Put(To(t), txt[t])
    /\ UNCHANGED <<op, txt, was>>

(* Mutant: the source is removed while its copy is being written.          *)
RemoveAfterDraining(t) ==
    /\ pc[t] \in {"draining", "drained"} /\ disk[From(t)] # Absent /\ Go(t, "done")
    /\ Put(From(t), Absent)
    /\ UNCHANGED <<op, txt, was>>

RemoveSource(t) ==
    /\ At(t, "drained") /\ disk[From(t)] # Absent /\ Go(t, "done")
    /\ Put(From(t), Absent)
    /\ UNCHANGED <<op, txt, was>>

(* renamePath gives up where it stands; a move goes on with copyPath.      *)
RenameFails(t) ==
    /\ pc[t] \in {"begun", "draining", "drained"} /\ Kind(t) \in Renames
    /\ Go(t, IF Kind(t) = "move" THEN "refused" ELSE "failed")
    /\ UNCHANGED <<op, disk, txt, was>>

Copies(t) == (At(t, "begun") /\ Kind(t) = "copy") \/ At(t, "refused")

(* Mutant: an existing destination is not refused.                         *)
CheckSamePath(t) ==
    /\ Copies(t)
    /\ Go(t, IF From(t) = To(t) THEN "failed" ELSE "cleared")
    /\ UNCHANGED <<op, disk, txt, was>>

CheckCopy(t) ==
    /\ Copies(t)
    /\ Go(t, IF From(t) = To(t) \/ disk[To(t)] # Absent THEN "failed" ELSE "cleared")
    /\ UNCHANGED <<op, disk, txt, was>>

OpenCopy(t) ==
    /\ At(t, "cleared") /\ disk[From(t)] # Absent /\ Go(t, "copying")
    /\ txt' = [txt EXCEPT ![t] = disk[From(t)]]
    /\ Put(To(t), Partial)
    /\ UNCHANGED <<op, was>>

FillCopy(t) ==
    /\ At(t, "copying") /\ Go(t, IF Kind(t) = "move" THEN "copied" ELSE "done")
    /\ Put(To(t), txt[t])
    /\ UNCHANGED <<op, txt, was>>

(* What was written of the copy is removed again ...                       *)
CopyFails(t) ==
    /\ pc[t] \in {"cleared", "copying"} /\ Go(t, "failed")
    /\ Put(To(t), Absent)
    /\ UNCHANGED <<op, txt, was>>

(* ... or stays, if that fails too, which nobody is told.                  *)
CleanupFails(t) ==
    /\ pc[t] \in {"cleared", "copying"} /\ Go(t, "littered")
    /\ UNCHANGED <<op, disk, txt, was>>

(* The agent stops, and every task under way ends where it stands.         *)
AgentStops ==
    /\ \E t \in Task : pc[t] \in Busy
    /\ pc' = [t \in Task |-> IF pc[t] \in Busy THEN "stopped" ELSE pc[t]]
    /\ UNCHANGED <<op, disk, txt, was>>

AgentStep(t) ==
    \/ Begin(t) \/ Unreached(t) \/ WriteFile(t) \/ MakeDir(t) \/ Delete(t)
    \/ Refuse(t) \/ Rename(t) \/ Drain(t) \/ Drained(t) \/ RemoveSource(t) \/ RenameFails(t)
    \/ CheckCopy(t) \/ OpenCopy(t) \/ FillCopy(t) \/ CopyFails(t)
    \/ CleanupFails(t)

-----------------------------------------------------------------------------

Touches(t) == {From(t), To(t)}

(* No other task names one of the files of t.                              *)
Alone(t) ==
    \A u \in Task \ {t} : pc[u] = "none" \/ Touches(u) \cap Touches(t) = {}

(* A rename or a move never loses the file: whatever step fails, and if    *)
(* the agent stops between two, its text is whole under one of the names,  *)
(* and under the new one when the task succeeds.                           *)
MoveKeepsText ==
    \A t \in Task :
       pc[t] \in Begun /\ Kind(t) \in Renames /\ txt[t] # Absent /\ Alone(t)
          => /\ disk[From(t)] = txt[t] \/ disk[To(t)] = txt[t]
             /\ pc[t] = "done" => disk[To(t)] = txt[t]

(* A copy never touches its source, and overwrites nothing: when it fails  *)
(* the destination is as it was.  Only a clean-up that fails leaves part   *)
(* of a copy behind, where there was no file.                              *)
CopyOverwritesNothing ==
    \A t \in Task :
       pc[t] \in Begun /\ Kind(t) = "copy" /\ Alone(t)
          => /\ From(t) # To(t) => disk[From(t)] = txt[t]
             /\ pc[t] = "failed" => disk[To(t)] = was[t]
             /\ pc[t] = "littered" => was[t] = Absent /\ disk[To(t)] \in {Absent, Partial}
             /\ pc[t] = "done" => disk[To(t)] = txt[t]
=============================================================================
