-------------------------- MODULE PanelAccessProofs --------------------------
(***************************************************************************)
(* Theorems about PanelAccess: types, for operations in any interleaving;  *)
(* and, when operations do not overlap, that settings are atomic registers,*)
(* access is interrupted by an unbind only, and a saved entry path stays.  *)
(***************************************************************************)
EXTENDS PanelAccess, TLAPS

USE DEF files, panel, locals, due, vars, At

(* The steps of bind and unbind, and the steps before which a copy of the  *)
(* settings, or of the proxy file, is not there yet.                       *)
WithProxy == {"read", "install", "verdict", "issue", "verify", "test", "remove", "check",
              "rollback", "refill", "reload"}
Holds(j) ==
    /\ pc[j] # "idle" => req[j] \in Request
    /\ pc[j] \in WithProxy => req[j].kind \in {"bind", "unbind"}
    /\ pc[j] = "adopt" => req[j].kind = "set_entry"
    /\ pc[j] \in Phase \ {"idle", "load", "adopt", "setup"} => copy[j] \in Settings
    /\ pc[j] \in Phase \ {"idle", "load", "read"} /\ req[j].kind \in {"bind", "unbind"}
          => old[j] \in Vhost
    /\ pc[j] = "refill" => old[j] # "absent"
LocalsOK == \A j \in Job : Holds(j)

TInv == TypeOK /\ LocalsOK

LEMMA RequestValues ==
    ASSUME NEW r \in Request
    PROVE  /\ r.kind \in {"bind", "unbind", "recover", "set_entry", "self_update"}
           /\ r.kind = "set_entry" => r.value \in Entry
           /\ r.kind = "self_update" => r.value \in Channel
BY DEF Request

LEMMA ChangedSettings ==
    ASSUME NEW j \in Job, req[j] \in Request, copy[j] \in Settings
    PROVE  Changed(j) \in Settings
BY RequestValues DEF Changed, Settings

LEMMA WebLoadsType ==
    ASSUME TypeOK, WebLoads
    PROVE  addr' \in {"public", "local", "down"} /\ gate' \in Entry /\ missed' \in BOOLEAN
BY DEF TypeOK, WebLoads, Settings

LEMMA TypeStep == TInv /\ [Next]_vars => TInv'
<1> SUFFICES ASSUME TInv, [Next]_vars PROVE TInv'
  OBVIOUS
<1> USE DEF TInv, TypeOK, LocalsOK, Holds, WithProxy, Phase
<1>1. ASSUME NEW j \in Job, Start(j) \/ Step(j) \/ TimerFires(j) PROVE TInv'
  <2>1. CASE Start(j)
    <3>1. TypeOK'
      BY <2>1 DEF Start
    <3>2. LocalsOK'
      BY <2>1 DEF Start
    <3> QED BY <3>1, <3>2
  <2>2. CASE Load(j)
    <3>1. TypeOK'
      BY <2>2 DEF Load, Return
    <3>2. LocalsOK'
      BY <2>2 DEF Load, Return
    <3> QED BY <3>1, <3>2
  <2>3. CASE ReadOld(j)
    <3>1. TypeOK'
      BY <2>3 DEF ReadOld, Return
    <3>2. LocalsOK'
      BY <2>3 DEF ReadOld, Return
    <3> QED BY <3>1, <3>2
  <2>4. CASE Install(j)
    <3>1. TypeOK'
      BY <2>4 DEF Install, Goto, Vhost
    <3>2. LocalsOK'
      BY <2>4 DEF Install, Goto
    <3> QED BY <3>1, <3>2
  <2>5. CASE Accepted(j)
    <3>1. TypeOK'
      BY <2>5 DEF Accepted, Goto, Shown, Vhost
    <3>2. LocalsOK'
      BY <2>5 DEF Accepted, Goto
    <3> QED BY <3>1, <3>2
  <2>6. CASE Rejected(j)
    <3>1. TypeOK'
      BY <2>6 DEF Rejected, MayReload, Shown, Vhost, Goto
    <3>2. LocalsOK'
      BY <2>6 DEF Rejected, MayReload, Shown, Vhost, Goto
    <3> QED BY <3>1, <3>2
  <2>7. CASE Issue(j)
    <3>1. TypeOK'
      BY <2>7 DEF Issue, Goto, Vhost
    <3>2. LocalsOK'
      BY <2>7 DEF Issue, Goto
    <3> QED BY <3>1, <3>2
  <2>8. CASE Verified(j)
    <3>1. TypeOK'
      BY <2>8 DEF Verified, Goto, Shown, Vhost
    <3>2. LocalsOK'
      BY <2>8 DEF Verified, Goto
    <3> QED BY <3>1, <3>2
  <2>9. CASE IssueFails(j)
    <3>1. TypeOK'
      BY <2>9 DEF IssueFails, MayReload, Goto, Shown, Vhost
    <3>2. LocalsOK'
      BY <2>9 DEF IssueFails, MayReload, Goto
    <3> QED BY <3>1, <3>2
  <2>10. CASE Test(j)
    <3>1. TypeOK'
      BY <2>10 DEF Test, Goto
    <3>2. LocalsOK'
      BY <2>10 DEF Test, Goto
    <3> QED BY <3>1, <3>2
  <2>11. CASE Remove(j)
    <3>1. TypeOK'
      BY <2>11 DEF Remove, Return, Goto, Vhost
    <3>2. LocalsOK'
      BY <2>11 DEF Remove, Return, Goto
    <3> QED BY <3>1, <3>2
  <2>12. CASE Check(j)
    <3>1. TypeOK'
      BY <2>12 DEF Check, Goto, Shown, Vhost
    <3>2. LocalsOK'
      BY <2>12 DEF Check, Goto
    <3> QED BY <3>1, <3>2
  <2>13. CASE CheckFails(j)
    <3>1. TypeOK'
      BY <2>13 DEF CheckFails, MayReload, Goto, Shown, Vhost
    <3>2. LocalsOK'
      BY <2>13 DEF CheckFails, MayReload, Goto
    <3> QED BY <3>1, <3>2
  <2>24. CASE LeaveOut(j)
    <3>1. TypeOK'
      BY <2>24 DEF LeaveOut, Goto, Vhost, Restores
    <3>2. LocalsOK'
      BY <2>24 DEF LeaveOut, Goto
    <3> QED BY <3>1, <3>2
  <2>25. CASE TakeOut(j)
    <3>1. TypeOK'
      BY <2>25 DEF TakeOut, Goto, Vhost
    <3>2. LocalsOK'
      BY <2>25 DEF TakeOut, Goto
    <3> QED BY <3>1, <3>2
  <2>26. CASE Truncate(j)
    <3>1. TypeOK'
      BY <2>26 DEF Truncate, Goto, Vhost
    <3>2. LocalsOK'
      BY <2>26 DEF Truncate, Goto
    <3> QED BY <3>1, <3>2
  <2>27. CASE Refill(j)
    <3>1. TypeOK'
      BY <2>27 DEF Refill, Goto, Vhost
    <3>2. LocalsOK'
      BY <2>27 DEF Refill, Goto
    <3> QED BY <3>1, <3>2
  <2>28. CASE RestoreFails(j)
    <3>1. TypeOK'
      BY <2>28 DEF RestoreFails, Goto, Vhost, Restores
    <3>2. LocalsOK'
      BY <2>28 DEF RestoreFails, Goto
    <3> QED BY <3>1, <3>2
  <2>29. CASE ProxyRejected(j)
    <3>1. TypeOK'
      BY <2>29 DEF ProxyRejected, Goto, Vhost, Shown
    <3>2. LocalsOK'
      BY <2>29 DEF ProxyRejected, Goto
    <3> QED BY <3>1, <3>2
  <2>15. CASE ReloadAgain(j)
    <3>1. TypeOK'
      BY <2>15 DEF ReloadAgain, MayReload, Return, Shown, Vhost
    <3>2. LocalsOK'
      BY <2>15 DEF ReloadAgain, MayReload, Return
    <3> QED BY <3>1, <3>2
  <2>16. CASE OpenTmp(j)
    <3>1. TypeOK'
      BY <2>16 DEF OpenTmp, Goto
    <3>2. LocalsOK'
      BY <2>16 DEF OpenTmp, Goto
    <3> QED BY <3>1, <3>2
  <2>17. CASE WriteTmp(j)
    <3>0. Changed(j) \in Settings
      BY <2>17, ChangedSettings DEF WriteTmp
    <3>1. TypeOK'
      BY <2>17, <3>0 DEF WriteTmp, Goto
    <3>2. LocalsOK'
      BY <2>17 DEF WriteTmp, Goto
    <3> QED BY <3>1, <3>2
  <2>18. CASE Rename(j)
    <3> USE DEF Rename, Moved
    <3>r. /\ req[j] \in Request
          /\ req[j].kind \in {"bind", "unbind", "recover", "set_entry", "self_update"}
          /\ req[j].kind = "set_entry" => req[j].value \in Entry
      BY <2>18, RequestValues
    <3>f. config' \in Settings \cup {Torn} /\ tmp' = NoFile /\ fd' \in [Job -> {"none", "tmp", "config"}]
      BY <2>18
    <3>1. CASE req[j].kind \in {"bind", "unbind"}
      <4>1. Return(j) /\ timers' = timers \cup {j} /\ acked' = acked
        BY <2>18, <3>1 DEF Saved
      <4> QED BY <2>18, <3>f, <4>1 DEF Return
    <3>2. CASE req[j].kind = "set_entry"
      <4>1. Goto(j, "adopt") /\ acked' = req[j].value /\ timers' = timers
        BY <2>18, <3>2 DEF Saved
      <4> QED BY <2>18, <3>f, <3>r, <3>2, <4>1 DEF Goto
    <3>3. CASE req[j].kind = "self_update"
      <4>1. Goto(j, "setup") /\ timers' = timers /\ acked' = acked
        BY <2>18, <3>3 DEF Saved
      <4> QED BY <2>18, <3>f, <3>r, <3>3, <4>1 DEF Goto
    <3>4. CASE req[j].kind = "recover"
      <4>1. Return(j) /\ timers' = timers /\ acked' = acked
        BY <2>18, <3>4 DEF Saved
      <4> QED BY <2>18, <3>f, <4>1 DEF Return
    <3> QED BY <3>r, <3>1, <3>2, <3>3, <3>4
  <2>19. CASE SaveFails(j)
    <3>1. TypeOK'
      BY <2>19 DEF SaveFails, Saving, Return, Goto
    <3>2. LocalsOK'
      BY <2>19 DEF SaveFails, Saving, Return, Goto
    <3> QED BY <3>1, <3>2
  <2>20. CASE Adopt(j)
    <3>1. TypeOK'
      BY <2>20 DEF Adopt, Return, Settings
    <3>2. LocalsOK'
      BY <2>20 DEF Adopt, Return
    <3> QED BY <3>1, <3>2
  <2>21. CASE AdoptFails(j)
    <3>1. TypeOK'
      BY <2>21 DEF AdoptFails, Return
    <3>2. LocalsOK'
      BY <2>21 DEF AdoptFails, Return
    <3> QED BY <3>1, <3>2
  <2>22. CASE Setup(j)
    <3>1. TypeOK'
      BY <2>22 DEF Setup, Return
    <3>2. LocalsOK'
      BY <2>22 DEF Setup, Return
    <3> QED BY <3>1, <3>2
  <2>23. CASE TimerFires(j)
    <3>1. TypeOK'
      BY <2>23, WebLoadsType DEF TimerFires, Drop
    <3>2. LocalsOK'
      BY <2>23 DEF TimerFires, Drop
    <3> QED BY <3>1, <3>2
  <2> QED BY <1>1, <2>1, <2>2, <2>3, <2>4, <2>5, <2>6, <2>7, <2>8, <2>9, <2>10, <2>11, <2>12, <2>13, <2>15, <2>16, <2>17, <2>18, <2>19, <2>20, <2>21, <2>22, <2>23,
            <2>24, <2>25, <2>26, <2>27, <2>28, <2>29
         DEF Step, Bind, Unbind, Restore, Save
<1>2. ASSUME WebRestarts PROVE TInv'
  <2>1. TypeOK'
    BY <1>2, WebLoadsType DEF WebRestarts, Drop
  <2>2. LocalsOK'
    BY <1>2 DEF WebRestarts, Drop
  <2> QED BY <2>1, <2>2
<1>3. ASSUME AgentStops PROVE TInv'
  <2>1. TypeOK'
    BY <1>3 DEF AgentStops, AgentGone, Drop
  <2>2. LocalsOK'
    BY <1>3 DEF AgentStops, AgentGone, Drop
  <2> QED BY <2>1, <2>2
<1>4. ASSUME PanelRestarts PROVE TInv'
  <2>1. TypeOK'
    BY <1>4, WebLoadsType DEF PanelRestarts, AgentGone, Drop
  <2>2. LocalsOK'
    BY <1>4 DEF PanelRestarts, AgentGone, Drop
  <2> QED BY <2>1, <2>2
<1>5. ASSUME ServerReloads PROVE TInv'
  <2>1. TypeOK'
    BY <1>5 DEF ServerReloads, Shown, Vhost
  <2>2. LocalsOK'
    BY <1>5 DEF ServerReloads
  <2> QED BY <2>1, <2>2
<1>6. CASE UNCHANGED vars BY <1>6
<1> QED BY <1>1, <1>2, <1>3, <1>4, <1>5, <1>6 DEF Next

LEMMA InitType == Init => TInv
<1> SUFFICES ASSUME Init PROVE TInv
  OBVIOUS
<1> USE DEF Init, Phase, WithProxy
<1>1. config \in Settings /\ acked \in Entry /\ gate \in Entry
  BY DEF Settings
<1>2. TypeOK
  BY <1>1 DEF TypeOK, Vhost, Settings
<1>3. LocalsOK
  BY DEF LocalsOK, Holds
<1> QED BY <1>2, <1>3 DEF TInv

LEMMA TypeInvariant == Spec => []TInv
BY InitType, TypeStep, PTL DEF Spec

(* Types, for any operations in any interleaving.                          *)
THEOREM PanelTypeCorrect == Spec => []TypeOK
BY TypeInvariant, PTL DEF TInv

-----------------------------------------------------------------------------
(* Operations that do not overlap.                                         *)

Alone == \A j, k \in Job : pc[j] # "idle" /\ pc[k] # "idle" => j = k

Binding == {"install", "verdict", "issue", "verify", "test"}
Unbinding == {"remove", "check"}
Copied == {"read", "open", "write", "rename"} \cup Binding \cup Unbinding

(* What the operation in flight knows: its copy is the saved file, its     *)
(* temporary file is its own, and it binds behind a proxy that works.      *)
Knows(j) ==
    /\ pc[j] \in Binding => req[j].kind = "bind"
    /\ pc[j] \in Unbinding => req[j].kind = "unbind"
    /\ pc[j] \in Copied => copy[j] = config
    /\ pc[j] = "write" <=> fd[j] = "tmp"
    /\ fd[j] # "config"
    /\ pc[j] = "rename" => tmp = Changed(j)
    /\ pc[j] \in {"verify", "test"} => vhost = "https"
    /\ pc[j] = "test" => served = "https"
    /\ pc[j] \in Saving /\ req[j].kind = "bind" => vhost = "https" /\ served = "https"

SInv ==
    /\ TInv
    /\ config # Torn
    /\ Alone
    /\ \A j \in Job : Knows(j)

LEMMA InitSInv == Init => SInv
<1> SUFFICES ASSUME Init PROVE SInv
  OBVIOUS
<1>1. config # Torn
  BY FileAssumption DEF Init, Settings
<1> QED BY <1>1, InitType DEF Init, SInv, Alone, Knows, Binding, Unbinding, Copied, Saving

LEMMA ChangedKept ==
    ASSUME NEW j \in Job, req'[j] = req[j], copy'[j] = copy[j]
    PROVE  Changed(j)' = Changed(j)
BY DEF Changed

LEMMA SerialStep == SInv /\ Serial /\ [Next]_vars => SInv'
<1> SUFFICES ASSUME SInv, Serial, [Next]_vars PROVE SInv'
  OBVIOUS
<1>t. TInv'
  BY TypeStep DEF SInv
<1> USE <1>t DEF SInv, TInv, TypeOK, LocalsOK, Holds, WithProxy, Phase, Alone, Knows, Binding,
        Unbinding, Copied, Saving
<1>1. ASSUME NEW j \in Job, Start(j) \/ Step(j) \/ TimerFires(j) PROVE SInv'
  <2>1. CASE Start(j)
    BY <2>1, ChangedKept DEF Start, Idle
  <2>2. CASE Load(j)
    BY <2>2, ChangedKept DEF Load, Return
  <2>3. CASE ReadOld(j)
    BY <2>3, ChangedKept DEF ReadOld, Return
  <2>4. CASE Install(j)
    BY <2>4, ChangedKept DEF Install, Goto
  <2>5. CASE Accepted(j)
    BY <2>5, ChangedKept DEF Accepted, Goto
  <2>6. CASE Rejected(j)
    BY <2>6, ChangedKept DEF Rejected, MayReload, Goto
  <2>7. CASE Issue(j)
    BY <2>7, ChangedKept DEF Issue, Goto
  <2>8. CASE Verified(j)
    BY <2>8, ChangedKept DEF Verified, Goto, Shown
  <2>9. CASE IssueFails(j)
    BY <2>9, ChangedKept DEF IssueFails, MayReload, Goto
  <2>10. CASE Test(j)
    BY <2>10, ChangedKept DEF Test, Goto
  <2>11. CASE Remove(j)
    BY <2>11, ChangedKept DEF Remove, Return, Goto
  <2>12. CASE Check(j)
    BY <2>12, ChangedKept DEF Check, Goto
  <2>13. CASE CheckFails(j)
    BY <2>13, ChangedKept DEF CheckFails, MayReload, Goto
  <2>24. CASE LeaveOut(j)
    BY <2>24, ChangedKept DEF LeaveOut, Goto
  <2>25. CASE TakeOut(j)
    BY <2>25, ChangedKept DEF TakeOut, Goto
  <2>26. CASE Truncate(j)
    BY <2>26, ChangedKept DEF Truncate, Goto
  <2>27. CASE Refill(j)
    BY <2>27, ChangedKept DEF Refill, Goto
  <2>28. CASE RestoreFails(j)
    BY <2>28, ChangedKept DEF RestoreFails, Goto
  <2>29. CASE ProxyRejected(j)
    BY <2>29, ChangedKept DEF ProxyRejected, Goto
  <2>15. CASE ReloadAgain(j)
    BY <2>15, ChangedKept DEF ReloadAgain, MayReload, Return
  <2>16. CASE OpenTmp(j)
    BY <2>16, ChangedKept DEF OpenTmp, Goto
  <2>17. CASE WriteTmp(j)
    BY <2>17, ChangedKept DEF WriteTmp, Goto
  <2>18. CASE Rename(j)
    <3>1. config' = Changed(j) /\ Changed(j) \in Settings /\ fd' = [k \in Job |-> Moved(k)]
      BY <2>18, ChangedSettings DEF Rename
    <3>2. config' # Torn
      BY <3>1, FileAssumption
    <3>3. pc' \in {[pc EXCEPT ![j] = "idle"], [pc EXCEPT ![j] = "adopt"], [pc EXCEPT ![j] = "setup"]}
      BY <2>18, RequestValues DEF Rename, Saved, Return, Goto
    <3>4. Alone'
      <4>1. \A k \in Job \ {j} : pc[k] = "idle" /\ pc'[k] = "idle"
        BY <2>18, <3>3 DEF Rename
      <4> QED BY <4>1
    <3>5. ASSUME NEW k \in Job PROVE Knows(k)'
      BY <3>1, <3>3, <2>18 DEF Moved, Rename
    <3> QED BY <3>2, <3>4, <3>5
  <2>19. CASE SaveFails(j)
    BY <2>19, ChangedKept DEF SaveFails, Return, Goto
  <2>20. CASE Adopt(j)
    BY <2>20, ChangedKept DEF Adopt, Return
  <2>21. CASE AdoptFails(j)
    BY <2>21, ChangedKept DEF AdoptFails, Return
  <2>22. CASE Setup(j)
    BY <2>22, ChangedKept DEF Setup, Return
  <2>23. CASE TimerFires(j)
    BY <2>23, ChangedKept DEF TimerFires, Drop
  <2> QED BY <1>1, <2>1, <2>2, <2>3, <2>4, <2>5, <2>6, <2>7, <2>8, <2>9, <2>10, <2>11, <2>12, <2>13, <2>15, <2>16, <2>17, <2>18, <2>19, <2>20, <2>21, <2>22, <2>23,
            <2>24, <2>25, <2>26, <2>27, <2>28, <2>29
         DEF Step, Bind, Unbind, Restore, Save
<1>2. ASSUME WebRestarts PROVE SInv'
  BY <1>2, ChangedKept DEF WebRestarts, Drop
<1>3. ASSUME AgentStops PROVE SInv'
  BY <1>3, ChangedKept DEF AgentStops, AgentGone, Drop
<1>4. ASSUME PanelRestarts PROVE SInv'
  BY <1>4, ChangedKept DEF PanelRestarts, AgentGone, Drop
<1>5. ASSUME ServerReloads PROVE SInv'
  BY <1>5, ChangedKept DEF ServerReloads, Shown
<1>6. CASE UNCHANGED vars BY <1>6, ChangedKept
<1> QED BY <1>1, <1>2, <1>3, <1>4, <1>5, <1>6 DEF Next

LEMMA SerialInvariant == ASSUME Serial PROVE Spec => []SInv
BY InitSInv, SerialStep, PTL DEF Spec

(* REFINEMENT.  If operations do not overlap, settings change atomically,  *)
(* each by its own operation, and direct access is closed only behind a    *)
(* working https proxy, whatever fails, stops or restarts.                 *)
THEOREM PanelImplementsSettings == ASSUME Serial PROVE Spec => ImplementsSettings
<1>1. Init => Register!Init
  BY DEF Init, Register!Init
<1>2. ASSUME SInv, SInv', [Next]_vars PROVE [Register!Next]_<<config, served>>
  <2> USE <1>2 DEF SInv, TInv, TypeOK, LocalsOK, Holds, Vhost
  <2>s. ASSUME config' = config PROVE [Register!Next]_<<config, served>>
    BY <2>s DEF Register!Next, Register!Serve
  <2>1. ASSUME NEW j \in Job, Rename(j) PROVE [Register!Next]_<<config, served>>
    <3>1. /\ config' = Changed(j) /\ copy[j] = config /\ req[j] \in Request /\ served' = served
          /\ req[j].kind = "bind" => served = "https"
      BY <2>1 DEF Rename, Knows, Copied, Saving
    <3>2. CASE req[j].kind = "bind"
      BY <3>1, <3>2 DEF Changed, Register!Next, Register!CloseAccess
    <3>3. CASE req[j].kind \in {"unbind", "recover"}
      BY <3>1, <3>3 DEF Changed, Register!Next, Register!OpenAccess
    <3>4. CASE req[j].kind = "set_entry"
      BY <3>1, <3>4, RequestValues DEF Changed, Register!Next, Register!SetEntry
    <3>5. CASE req[j].kind = "self_update"
      BY <3>1, <3>5, RequestValues DEF Changed, Register!Next, Register!SetChannel
    <3> QED BY <3>1, <3>2, <3>3, <3>4, <3>5, RequestValues
  <2>2. ASSUME NEW j \in Job, Start(j) \/ Step(j) \/ TimerFires(j), ~Rename(j) PROVE config' = config
    <3>1. CASE WriteTmp(j)
      BY <3>1 DEF WriteTmp, Knows
    <3> QED BY <2>2, <3>1 DEF Step, Bind, Unbind, Restore, Save, Start, Load, ReadOld, Install, Accepted,
       Rejected, Issue, Verified, IssueFails, Test, Remove, Check, CheckFails, ProxyRejected,
       LeaveOut, TakeOut, Truncate, Refill, RestoreFails,
       ReloadAgain, OpenTmp, SaveFails, Adopt, AdoptFails, Setup, TimerFires
  <2>3. ASSUME WebRestarts \/ AgentStops \/ PanelRestarts \/ ServerReloads \/ UNCHANGED vars
        PROVE  config' = config
    BY <2>3 DEF WebRestarts, AgentStops, PanelRestarts, ServerReloads, AgentGone
  <2> QED BY <2>s, <2>1, <2>2, <2>3 DEF Next
<1>3. SInv /\ SInv' /\ [Next]_vars => [Register!Next]_<<config, served>>
  BY <1>2
<1> QED BY <1>1, <1>3, SerialInvariant, PTL DEF Spec, ImplementsSettings, Register!Spec

-----------------------------------------------------------------------------
(* Reachability.  A closed panel has its proxy file, or is being unbound,  *)
(* or is about to be restarted in public; and an operation that found no   *)
(* proxy file, to which it may return, found the panel open.               *)
Excused == stranded \/ vhost # "absent" \/ \E j \in Job : Exposed(j)
ClosedIsProxied ==
    /\ addr # "down"
    /\ config.listen = "local" => Excused
    /\ addr = "local" => Excused \/ timers # {}
Returning(j) ==
    /\ pc[j] \in Binding \cup Unbinding \cup Saving \cup {"rollback", "refill", "reload"}
    /\ req[j].kind \in {"bind", "unbind"}
FoundOpen(j) ==
    /\ Returning(j) /\ old[j] = "absent"
          => stranded \/ (config.listen = "public" /\ (addr = "public" \/ timers # {}))
    /\ pc[j] = "reload" /\ old[j] # "absent" => stranded \/ vhost # "absent"
    /\ pc[j] \in {"verdict", "issue", "verify", "test"} => vhost # "absent"
    /\ pc[j] \in {"rollback", "refill"} /\ req[j].kind = "bind" => vhost # "absent"
    /\ pc[j] = "refill" => vhost = "torn"

RInv == ClosedIsProxied /\ \A j \in Job : FoundOpen(j)

LEMMA ReachStep == SInv /\ SInv' /\ Serial /\ RInv /\ [Next]_vars => RInv'
<1> SUFFICES ASSUME SInv, SInv', Serial, RInv, [Next]_vars PROVE RInv'
  OBVIOUS
<1>l. config.listen \in {"public", "local"}
  BY DEF SInv, TInv, TypeOK, Settings
<1> USE <1>l DEF SInv, TInv, TypeOK, LocalsOK, Holds, WithProxy, Phase, Alone, Knows, Binding,
        Unbinding, Copied, Saving, RInv, ClosedIsProxied, Excused, Exposed, FoundOpen, Returning
<1>1. ASSUME NEW j \in Job, Start(j) \/ Step(j) \/ TimerFires(j) PROVE RInv'
  <2>1. CASE Start(j)
    BY <2>1 DEF Start, Idle
  <2>2. CASE Load(j)
    BY <2>2 DEF Load, Return
  <2>3. CASE ReadOld(j)
    BY <2>3 DEF ReadOld, Return
  <2>4. CASE Install(j)
    BY <2>4 DEF Install, Goto
  <2>5. CASE Accepted(j)
    BY <2>5 DEF Accepted, Goto
  <2>6. CASE Rejected(j)
    BY <2>6 DEF Rejected, MayReload, Goto
  <2>7. CASE Issue(j)
    BY <2>7 DEF Issue, Goto
  <2>8. CASE Verified(j)
    BY <2>8 DEF Verified, Goto
  <2>9. CASE IssueFails(j)
    BY <2>9 DEF IssueFails, MayReload, Goto
  <2>10. CASE Test(j)
    BY <2>10 DEF Test, Goto
  <2>11. CASE Remove(j)
    BY <2>11 DEF Remove, Return, Goto
  <2>12. CASE Check(j)
    BY <2>12 DEF Check, Goto
  <2>13. CASE CheckFails(j)
    BY <2>13 DEF CheckFails, MayReload, Goto
  <2>24. CASE LeaveOut(j)
    BY <2>24 DEF LeaveOut, Goto, Restores
  <2>25. CASE TakeOut(j)
    BY <2>25 DEF TakeOut, Goto
  <2>26. CASE Truncate(j)
    BY <2>26 DEF Truncate, Goto
  <2>27. CASE Refill(j)
    BY <2>27 DEF Refill, Goto
  <2>28. CASE RestoreFails(j)
    <3>1. UNCHANGED <<config, vhost, addr, timers, req, old>> /\ pc' = [pc EXCEPT ![j] = "reload"]
      BY <2>28 DEF RestoreFails, Goto
    <3>2. CASE req[j].kind = "unbind"
      <4>1. stranded' = TRUE
        BY <2>28, <3>2 DEF RestoreFails
      <4> QED BY <2>28, <3>1, <4>1 DEF RestoreFails
    <3>3. CASE req[j].kind = "bind"
      <4>1. stranded' = stranded /\ vhost # "absent" /\ pc[j] \in {"rollback", "refill"}
        BY <2>28, <3>3 DEF RestoreFails
      <4> QED BY <3>1, <3>3, <4>1
    <3> QED BY <2>28, <3>2, <3>3 DEF RestoreFails
  <2>29. CASE ProxyRejected(j)
    BY <2>29 DEF ProxyRejected, Goto
  <2>15. CASE ReloadAgain(j)
    BY <2>15 DEF ReloadAgain, MayReload, Return
  <2>16. CASE OpenTmp(j)
    BY <2>16 DEF OpenTmp, Goto
  <2>17. CASE WriteTmp(j)
    BY <2>17 DEF WriteTmp, Goto
  <2>18. CASE Rename(j)
    <3>1. config' = Changed(j) /\ copy[j] = config /\ req[j] \in Request
      BY <2>18 DEF Rename
    <3>2. config'.listen = IF req[j].kind = "bind" THEN "local"
                           ELSE IF req[j].kind \in {"unbind", "recover"} THEN "public"
                           ELSE config.listen
      BY <3>1, RequestValues DEF Changed, Settings
    <3>3. /\ req[j].kind = "unbind" => timers' # {}
          /\ timers # {} => timers' # {}
          /\ pc'[j] \in {"idle", "adopt", "setup"}
          /\ req[j].kind \in {"bind", "unbind"} => pc'[j] = "idle"
          /\ \A k \in Job \ {j} : pc[k] = "idle" /\ pc'[k] = "idle"
          /\ req[j].kind = "bind" => vhost = "https"
          /\ UNCHANGED <<vhost, addr, stranded>>
      <4>1. \A k \in Job \ {j} : pc[k] = "idle"
        BY <2>18 DEF Rename
      <4>2. CASE req[j].kind \in {"bind", "unbind"}
        <5>1. Return(j) /\ timers' = timers \cup {j}
          BY <2>18, <4>2 DEF Rename, Saved
        <5>2. j \in timers'
          BY <5>1
        <5>3. pc'[j] = "idle" /\ \A k \in Job \ {j} : pc'[k] = "idle"
          BY <4>1, <5>1 DEF Return
        <5>4. UNCHANGED <<vhost, addr, stranded>> /\ (req[j].kind = "bind" => vhost = "https")
          BY <2>18 DEF Rename
        <5> QED BY <4>1, <4>2, <5>2, <5>3, <5>4
      <4>3. CASE req[j].kind = "set_entry"
        BY <2>18, <4>1, <4>3 DEF Rename, Saved, Goto
      <4>4. CASE req[j].kind = "self_update"
        BY <2>18, <4>1, <4>4 DEF Rename, Saved, Goto
      <4>5. CASE req[j].kind = "recover"
        BY <2>18, <4>1, <4>5 DEF Rename, Saved, Return
      <4> QED BY <3>1, <4>2, <4>3, <4>4, <4>5, RequestValues
    <3> QED BY <3>2, <3>3, <2>18 DEF Rename
  <2>19. CASE SaveFails(j)
    BY <2>19 DEF SaveFails, Return, Goto
  <2>20. CASE Adopt(j)
    BY <2>20 DEF Adopt, Return
  <2>21. CASE AdoptFails(j)
    BY <2>21 DEF AdoptFails, Return
  <2>22. CASE Setup(j)
    BY <2>22 DEF Setup, Return
  <2>23. CASE TimerFires(j)
    BY <2>23 DEF TimerFires, WebLoads, Drop, Adopting
  <2> QED BY <1>1, <2>1, <2>2, <2>3, <2>4, <2>5, <2>6, <2>7, <2>8, <2>9, <2>10, <2>11, <2>12, <2>13, <2>15, <2>16, <2>17, <2>18, <2>19, <2>20, <2>21, <2>22, <2>23,
            <2>24, <2>25, <2>26, <2>27, <2>28, <2>29
         DEF Step, Bind, Unbind, Restore, Save
<1>2. ASSUME WebRestarts PROVE RInv'
  BY <1>2 DEF WebRestarts, WebLoads, Drop, Adopting
<1>3. ASSUME AgentStops PROVE RInv'
  <2>1. UNCHANGED <<config, vhost, addr>> /\ timers' = {}
    BY <1>3 DEF AgentStops, AgentGone
  <2>2. stranded' = (stranded \/ timers # {} \/ \E j \in Job : Exposed(j))
    BY <1>3 DEF AgentStops
  <2>3. ASSUME NEW j \in Job PROVE ~Returning(j)' /\ pc'[j] # "reload"
    BY <1>3 DEF AgentStops, Drop, InAgent
  <2>4. ClosedIsProxied'
    BY <2>1, <2>2
  <2> QED BY <2>3, <2>4
<1>4. ASSUME PanelRestarts PROVE RInv'
  BY <1>4 DEF PanelRestarts, AgentGone, WebLoads, Drop, InAgent
<1>5. ASSUME ServerReloads PROVE RInv'
  BY <1>5 DEF ServerReloads
<1>6. CASE UNCHANGED vars BY <1>6
<1> QED BY <1>1, <1>2, <1>3, <1>4, <1>5, <1>6 DEF Next

(* If operations do not overlap, only an unbind interrupts access: no      *)
(* failure, stop, restart or reload at any step of anything else does,     *)
(* except that of putting the proxy back.                                  *)
THEOREM PanelStaysReachable == ASSUME Serial PROVE Spec => []StaysReachable
<1>1. Init => RInv
  BY DEF Init, RInv, ClosedIsProxied, FoundOpen, Returning, Binding, Unbinding, Saving
<1>2. SInv /\ RInv => StaysReachable
  BY DEF SInv, TInv, TypeOK, RInv, ClosedIsProxied, Excused, StaysReachable, Reachable, Vhost
<1> QED BY <1>1, <1>2, ReachStep, SerialInvariant, PTL DEF Spec
-----------------------------------------------------------------------------
(* The entry path.  What was reported as saved is what is saved; the gate  *)
(* differs from it only while the page waits to take it over, or was told  *)
(* that this failed.                                                       *)
EntryKept ==
    /\ config.entry = acked
    /\ ~missed => gate = config.entry \/ \E j \in Job : pc[j] = "adopt"

LEMMA EntryStep == SInv /\ SInv' /\ Serial /\ EntryKept /\ [Next]_vars => EntryKept'
<1> SUFFICES ASSUME SInv, SInv', Serial, EntryKept, [Next]_vars PROVE EntryKept'
  OBVIOUS
<1> USE DEF SInv, TInv, TypeOK, LocalsOK, Holds, WithProxy, Phase, Alone, Knows, Copied, Saving, EntryKept
<1>1. ASSUME NEW j \in Job, Start(j) \/ Step(j) \/ TimerFires(j) PROVE EntryKept'
  <2>1. CASE Start(j)
    BY <2>1 DEF Start, Idle
  <2>2. CASE Load(j)
    BY <2>2 DEF Load, Return
  <2>3. CASE ReadOld(j)
    BY <2>3 DEF ReadOld, Return
  <2>4. CASE Install(j)
    BY <2>4 DEF Install, Goto
  <2>5. CASE Accepted(j)
    BY <2>5 DEF Accepted, Goto
  <2>6. CASE Rejected(j)
    BY <2>6 DEF Rejected, Goto
  <2>7. CASE Issue(j)
    BY <2>7 DEF Issue, Goto
  <2>8. CASE Verified(j)
    BY <2>8 DEF Verified, Goto
  <2>9. CASE IssueFails(j)
    BY <2>9 DEF IssueFails, Goto
  <2>10. CASE Test(j)
    BY <2>10 DEF Test, Goto
  <2>11. CASE Remove(j)
    BY <2>11 DEF Remove, Return, Goto
  <2>12. CASE Check(j)
    BY <2>12 DEF Check, Goto
  <2>13. CASE CheckFails(j)
    BY <2>13 DEF CheckFails, Goto
  <2>24. CASE LeaveOut(j)
    BY <2>24 DEF LeaveOut, Goto
  <2>25. CASE TakeOut(j)
    BY <2>25 DEF TakeOut, Goto
  <2>26. CASE Truncate(j)
    BY <2>26 DEF Truncate, Goto
  <2>27. CASE Refill(j)
    BY <2>27 DEF Refill, Goto
  <2>28. CASE RestoreFails(j)
    BY <2>28 DEF RestoreFails, Goto
  <2>29. CASE ProxyRejected(j)
    BY <2>29 DEF ProxyRejected, Goto
  <2>15. CASE ReloadAgain(j)
    BY <2>15 DEF ReloadAgain, Return
  <2>16. CASE OpenTmp(j)
    BY <2>16 DEF OpenTmp, Goto
  <2>17. CASE WriteTmp(j)
    BY <2>17 DEF WriteTmp, Goto
  <2>18. CASE Rename(j)
    <3>1. config' = Changed(j) /\ copy[j] = config /\ req[j] \in Request
      BY <2>18 DEF Rename
    <3>2. config \in Settings
      OBVIOUS
    <3>3. CASE req[j].kind = "set_entry"
      <4>1. config'.entry = req[j].value
        BY <3>1, <3>2, <3>3 DEF Changed, Settings
      <4>2. acked' = req[j].value /\ pc'[j] = "adopt"
        BY <2>18, <3>3 DEF Rename, Saved, Goto
      <4> QED BY <4>1, <4>2
    <3>4. CASE req[j].kind # "set_entry"
      <4>1. config'.entry = config.entry
        BY <3>1, <3>2, <3>4, RequestValues DEF Changed, Settings
      <4>2. acked' = acked /\ \A k \in Job : pc[k] = "adopt" => k = j
        BY <2>18, <3>1, <3>4, RequestValues DEF Rename, Saved
      <4>3. pc[j] # "adopt" /\ gate' = gate /\ missed' = missed
        BY <2>18 DEF Rename
      <4> QED BY <4>1, <4>2, <4>3
    <3> QED BY <3>3, <3>4
  <2>19. CASE SaveFails(j)
    BY <2>19 DEF SaveFails, Return, Goto
  <2>20. CASE Adopt(j)
    BY <2>20 DEF Adopt, Return
  <2>21. CASE AdoptFails(j)
    BY <2>21 DEF AdoptFails, Return
  <2>22. CASE Setup(j)
    BY <2>22 DEF Setup, Return
  <2>23. CASE TimerFires(j)
    BY <2>23 DEF TimerFires, WebLoads, Drop
  <2> QED BY <1>1, <2>1, <2>2, <2>3, <2>4, <2>5, <2>6, <2>7, <2>8, <2>9, <2>10, <2>11, <2>12, <2>13, <2>15, <2>16, <2>17, <2>18, <2>19, <2>20, <2>21, <2>22, <2>23,
            <2>24, <2>25, <2>26, <2>27, <2>28, <2>29
         DEF Step, Bind, Unbind, Restore, Save
<1>2. ASSUME WebRestarts PROVE EntryKept'
  BY <1>2 DEF WebRestarts, WebLoads, Drop
<1>3. ASSUME AgentStops PROVE EntryKept'
  BY <1>3 DEF AgentStops, AgentGone, Drop, InAgent
<1>4. ASSUME PanelRestarts PROVE EntryKept'
  BY <1>4 DEF PanelRestarts, AgentGone, WebLoads, Drop
<1>5. ASSUME ServerReloads PROVE EntryKept'
  BY <1>5 DEF ServerReloads
<1>6. CASE UNCHANGED vars BY <1>6
<1> QED BY <1>1, <1>2, <1>3, <1>4, <1>5, <1>6 DEF Next

LEMMA EntryInvariant == ASSUME Serial PROVE Spec => []EntryKept
<1>1. Init => EntryKept
  BY DEF Init, EntryKept
<1> QED BY <1>1, EntryStep, SerialInvariant, PTL DEF Spec

(* If operations do not overlap, the gate asks for the saved entry path    *)
(* whenever all is quiet, unless the page was told that saving failed.     *)
THEOREM PanelGateFollows == ASSUME Serial PROVE Spec => []GateFollows
<1>1. SInv /\ EntryKept => GateFollows
  BY DEF SInv, EntryKept, GateFollows, Idle
<1> QED BY <1>1, EntryInvariant, SerialInvariant, PTL

(* If operations do not overlap, an entry path reported as saved stays     *)
(* saved, which operations that overlap break (entry_reverted).            *)
THEOREM PanelEntryStays == ASSUME Serial PROVE Spec => []EntryStaysSaved
<1>1. EntryKept => EntryStaysSaved
  BY DEF EntryKept, EntryStaysSaved
<1> QED BY <1>1, EntryInvariant, PTL
=============================================================================
