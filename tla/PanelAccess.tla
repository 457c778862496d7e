----------------------------- MODULE PanelAccess -----------------------------
(***************************************************************************)
(* Whether and where the panel can be reached: panel.bind_domain,          *)
(* panel.unbind_domain, panel.set_entry and panel.self_update in the agent *)
(* (panel_domain.go, update.go), the page that saves the entry path in     *)
(* anpanel-web (entry.go), and anpanelctl recover-access (cli.go).  The    *)
(* agent and the command line load config.json, change a field of the      *)
(* copy, and save the copy through one temporary file, without a lock      *)
(* (config.go); anpanel-web only loads it.  The two files the web server   *)
(* reads and config.json survive stops; everything else goes with its      *)
(* process.                                                                *)
(***************************************************************************)
CONSTANTS
    Job,       \* requests in progress, used again and again
    Entry,     \* secret entry paths, each with its decoy
    Channel,   \* update channels
    Torn,      \* a file truncated and not yet written
    NoFile,
    Nothing,   \* a local variable that has no value
    Serial     \* operators wait for one operation to end before the next

Settings == [listen : {"public", "local"}, entry : Entry, channel : Channel]

ASSUME FileAssumption ==
    /\ Torn \notin Settings /\ NoFile \notin Settings /\ Nothing \notin Settings
    /\ Torn # NoFile /\ Torn # Nothing /\ NoFile # Nothing
ASSUME ValueAssumption == Nothing \notin Entry \cup Channel
ASSUME SerialAssumption == Serial \in BOOLEAN

VARIABLES
    config,      \* config.json
    tmp,         \* config.json.tmp
    vhost,       \* the panel's file in the web server's configuration
    served,      \* the panel in the configuration the web server runs
    addr,        \* where the running anpanel-web listens
    gate,        \* the entry path in the memory of anpanel-web
    pc, req, copy, old, fd,    \* per job
    timers,      \* jobs whose scheduleWebRestart has not fired
    upgraded,    \* schedulePanelRestart has not fired
    missed,      \* anpanel-web did not learn of a saved entry path
    stranded,    \* an unbind was cut off or could not restore, or a restart lost
    acked        \* the entry path last reported as saved

files == <<config, tmp, vhost, served>>
panel == <<addr, gate, missed>>
locals == <<req, copy, old, fd>>
due == <<timers, upgraded>>
vars == <<files, panel, pc, locals, due, stranded, acked>>

(* The panel's file; an empty one is no error, and proxies nothing.        *)
Vhost == {"absent", "torn", "http", "https"}
Shown(file) == IF file = "torn" THEN "absent" ELSE file
Request ==
    [kind : {"bind", "unbind", "recover"}, value : {Nothing}]
        \cup [kind : {"set_entry"}, value : Entry]
        \cup [kind : {"self_update"}, value : Channel]
Phase == {"idle", "load", "read", "install", "verdict", "issue", "verify", "test",
          "remove", "check", "open", "write", "rename", "adopt", "setup",
          "rollback", "refill", "reload"}
Saving == {"open", "write", "rename"}

(* The installer leaves an open panel without a proxy.                     *)
Init ==
    /\ config \in [listen : {"public"}, entry : Entry, channel : Channel]
    /\ tmp = NoFile
    /\ vhost = "absent"
    /\ served = "absent"
    /\ addr = config.listen
    /\ gate = config.entry
    /\ pc = [j \in Job |-> "idle"]
    /\ req = [j \in Job |-> Nothing]
    /\ copy = [j \in Job |-> Nothing]
    /\ old = [j \in Job |-> Nothing]
    /\ fd = [j \in Job |-> "none"]
    /\ timers = {}
    /\ upgraded = FALSE
    /\ missed = FALSE
    /\ stranded = FALSE
    /\ acked = config.entry

At(j, phase) == pc[j] = phase
Goto(j, phase) == pc' = [pc EXCEPT ![j] = phase] /\ UNCHANGED <<req, copy, old>>
Return(j) ==
    /\ pc' = [pc EXCEPT ![j] = "idle"]
    /\ req' = [req EXCEPT ![j] = Nothing]
    /\ copy' = [copy EXCEPT ![j] = Nothing]
    /\ old' = [old EXCEPT ![j] = Nothing]

Idle == \A j \in Job : At(j, "idle")
InAgent(j) == pc[j] \notin {"idle", "adopt"} /\ req[j].kind # "recover"

-----------------------------------------------------------------------------
Start(j) ==
    /\ At(j, "idle")
    /\ Serial => Idle
    /\ \E r \in Request : req' = [req EXCEPT ![j] = r]
    /\ pc' = [pc EXCEPT ![j] = "load"]
    /\ UNCHANGED <<files, panel, copy, old, fd, due, stranded, acked>>

(* config.Load gives up on a file that is not JSON.                        *)
Load(j) ==
    /\ At(j, "load")
    /\ \/ config = Torn /\ Return(j)
       \/ /\ config # Torn
          /\ copy' = [copy EXCEPT ![j] = config]
          /\ pc' = [pc EXCEPT ![j] = IF req[j].kind \in {"bind", "unbind"}
                                     THEN "read" ELSE "open"]
          /\ UNCHANGED <<req, old>>
    /\ UNCHANGED <<files, panel, fd, due, stranded, acked>>

(* Mutant: the file to go back to is not read.                             *)
ReadNothing(j) ==
    /\ At(j, "read")
    /\ Goto(j, IF req[j].kind = "bind" THEN "install" ELSE "remove")
    /\ UNCHANGED <<files, panel, fd, due, stranded, acked>>

(* The proxy file to go back to, or that there is none.  The operation can *)
(* still end here: no such web server, or no such Apache module.           *)
ReadOld(j) ==
    /\ At(j, "read")
    /\ \/ Return(j)
       \/ /\ old' = [old EXCEPT ![j] = vhost]
          /\ pc' = [pc EXCEPT ![j] = IF req[j].kind = "bind" THEN "install" ELSE "remove"]
          /\ UNCHANGED <<req, copy>>
    /\ UNCHANGED <<files, panel, fd, due, stranded, acked>>

-----------------------------------------------------------------------------
(* bindPanelDomain.                                                        *)

(* A reload takes the file as it is; one that is reported as failed may    *)
(* have taken place.                                                       *)
MayReload == served' \in {served, Shown(vhost)}

(* applyWebConfig of the http proxy: the file is replaced ...              *)
Install(j) ==
    /\ At(j, "install")
    /\ vhost' = "http"
    /\ Goto(j, "verdict")
    /\ UNCHANGED <<config, tmp, served, panel, fd, due, stranded, acked>>

(* ... tested and reloaded ...                                             *)
Accepted(j) ==
    /\ At(j, "verdict")
    /\ served' = Shown(vhost)
    /\ Goto(j, "issue")
    /\ UNCHANGED <<config, tmp, vhost, panel, fd, due, stranded, acked>>

(* ... or put back, which applyWebConfig does as rollback does below.      *)
Rejected(j) ==
    /\ At(j, "verdict")
    /\ MayReload
    /\ Goto(j, "rollback")
    /\ UNCHANGED <<config, tmp, vhost, panel, fd, due, stranded, acked>>

(* Certbot rewrites the file for https, or acme.sh issues and              *)
(* applyWebConfig replaces it.                                             *)
Issue(j) ==
    /\ At(j, "issue")
    /\ vhost' = "https"
    /\ Goto(j, "verify")
    /\ UNCHANGED <<config, tmp, served, panel, fd, due, stranded, acked>>

Verified(j) ==
    /\ At(j, "verify")
    /\ served' = Shown(vhost)
    /\ Goto(j, "test")
    /\ UNCHANGED <<config, tmp, vhost, panel, fd, due, stranded, acked>>

(* The https proxy is rejected, and the http one put back by               *)
(* applyWebConfig, or not, or half.                                        *)
ProxyRejected(j) ==
    /\ At(j, "verify")
    /\ vhost' \in {vhost, "torn", "http"}
    /\ served' \in {served, Shown(vhost), Shown(vhost')}
    /\ Goto(j, "rollback")
    /\ UNCHANGED <<config, tmp, panel, fd, due, stranded, acked>>

(* No certificate, or the last configTest.                                 *)
IssueFails(j) ==
    /\ pc[j] \in {"issue", "test"}
    /\ MayReload
    /\ Goto(j, "rollback")
    /\ UNCHANGED <<config, tmp, vhost, panel, fd, due, stranded, acked>>

Test(j) ==
    /\ At(j, "test")
    /\ Goto(j, "open")
    /\ UNCHANGED <<files, panel, fd, due, stranded, acked>>

-----------------------------------------------------------------------------
(* unbindPanelDomain.                                                      *)

(* The backup can fail, and the file can be gone by now.                   *)
Remove(j) ==
    /\ At(j, "remove")
    /\ \/ old[j] # "absent" /\ Return(j) /\ UNCHANGED vhost
       \/ vhost # "absent" /\ old[j] # "absent" /\ vhost' = "absent" /\ Goto(j, "check")
       \/ old[j] = "absent" /\ Goto(j, "check") /\ UNCHANGED vhost
    /\ UNCHANGED <<config, tmp, served, panel, fd, due, stranded, acked>>

(* configTest and reloadServer.                                            *)
Check(j) ==
    /\ At(j, "check")
    /\ served' = Shown(vhost)
    /\ Goto(j, "open")
    /\ UNCHANGED <<config, tmp, vhost, panel, fd, due, stranded, acked>>

(* Mutant: the error is returned and the file not restored.                *)
CheckUnrestored(j) ==
    /\ At(j, "check")
    /\ MayReload
    /\ Return(j)
    /\ UNCHANGED <<config, tmp, vhost, panel, fd, due, stranded, acked>>

CheckFails(j) ==
    /\ At(j, "check")
    /\ MayReload
    /\ Goto(j, "rollback")
    /\ UNCHANGED <<config, tmp, vhost, panel, fd, due, stranded, acked>>

-----------------------------------------------------------------------------
(* rollback of a bind and restore of an unbind, which had nothing to take  *)
(* away where it found no file; both then reload under a context of their  *)
(* own.  All errors are dropped.                                           *)
Restores(j) == req[j].kind = "bind" \/ old[j] # "absent"

LeaveOut(j) ==
    /\ At(j, "rollback")
    /\ ~Restores(j)
    /\ Goto(j, "reload")
    /\ UNCHANGED <<files, panel, fd, due, stranded, acked>>

TakeOut(j) ==
    /\ At(j, "rollback")
    /\ req[j].kind = "bind" /\ old[j] = "absent"
    /\ vhost' = "absent"
    /\ Goto(j, "reload")
    /\ UNCHANGED <<config, tmp, served, panel, fd, due, stranded, acked>>

(* os.WriteFile in place: open and truncate, then write.                   *)
Truncate(j) ==
    /\ At(j, "rollback")
    /\ old[j] # "absent"
    /\ vhost' = "torn"
    /\ Goto(j, "refill")
    /\ UNCHANGED <<config, tmp, served, panel, fd, due, stranded, acked>>

Refill(j) ==
    /\ At(j, "refill")
    /\ vhost' = old[j]
    /\ Goto(j, "reload")
    /\ UNCHANGED <<config, tmp, served, panel, fd, due, stranded, acked>>

RestoreFails(j) ==
    /\ pc[j] \in {"rollback", "refill"}
    /\ Restores(j)
    /\ stranded' = (stranded \/ req[j].kind = "unbind")
    /\ Goto(j, "reload")
    /\ UNCHANGED <<files, panel, fd, due, acked>>

ReloadAgain(j) ==
    /\ At(j, "reload")
    /\ MayReload
    /\ Return(j)
    /\ UNCHANGED <<config, tmp, vhost, panel, fd, due, stranded, acked>>

-----------------------------------------------------------------------------
(* config.Save of the copy.                                                *)
Changed(j) ==
    CASE req[j].kind = "bind" -> [copy[j] EXCEPT !.listen = "local"]
      [] req[j].kind \in {"unbind", "recover"} -> [copy[j] EXCEPT !.listen = "public"]
      [] req[j].kind = "set_entry" -> [copy[j] EXCEPT !.entry = req[j].value]
      [] req[j].kind = "self_update" -> [copy[j] EXCEPT !.channel = req[j].value]

(* Mutant: the file is written in place.                                   *)
OpenInPlace(j) ==
    /\ At(j, "open")
    /\ config' = Torn
    /\ fd' = [fd EXCEPT ![j] = "config"]
    /\ Goto(j, "write")
    /\ UNCHANGED <<tmp, vhost, served, panel, due, stranded, acked>>

(* os.WriteFile: open and truncate, then write to wherever the file is by  *)
(* now.                                                                    *)
OpenTmp(j) ==
    /\ At(j, "open")
    /\ tmp' = Torn
    /\ fd' = [fd EXCEPT ![j] = "tmp"]
    /\ Goto(j, "write")
    /\ UNCHANGED <<config, vhost, served, panel, due, stranded, acked>>

WriteTmp(j) ==
    /\ At(j, "write")
    /\ tmp' = IF fd[j] = "tmp" THEN Changed(j) ELSE tmp
    /\ config' = IF fd[j] = "config" THEN Changed(j) ELSE config
    /\ fd' = [fd EXCEPT ![j] = "none"]
    /\ Goto(j, "rename")
    /\ UNCHANGED <<vhost, served, panel, due, stranded, acked>>

(* What a saved copy leads to: a bind and an unbind return and leave a     *)
(* timer behind, the entry page goes on in anpanel-web, a self-update runs *)
(* the installer, recover-access prints that access is restored.           *)
Saved(j) ==
    CASE req[j].kind \in {"bind", "unbind"} ->
            Return(j) /\ timers' = timers \cup {j} /\ UNCHANGED acked
      [] req[j].kind = "set_entry" ->
            Goto(j, "adopt") /\ acked' = req[j].value /\ UNCHANGED timers
      [] req[j].kind = "self_update" ->
            Goto(j, "setup") /\ UNCHANGED <<timers, acked>>
      [] req[j].kind = "recover" ->
            Return(j) /\ UNCHANGED <<timers, acked>>

(* Open files move along with the file that is renamed; those of the file  *)
(* it replaces are lost.                                                   *)
Moved(k) == IF fd[k] = "tmp" THEN "config" ELSE "none"

Rename(j) ==
    /\ At(j, "rename")
    /\ tmp # NoFile
    /\ config' = tmp
    /\ tmp' = NoFile
    /\ fd' = [k \in Job |-> Moved(k)]
    /\ Saved(j)
    /\ UNCHANGED <<vhost, served, panel, upgraded, stranded>>

(* Any of its steps can fail, the rename because the file is gone.         *)
SaveFails(j) ==
    /\ pc[j] \in Saving
    /\ fd' = [fd EXCEPT ![j] = "none"]
    /\ IF req[j].kind \in {"bind", "unbind"} THEN Goto(j, "rollback") ELSE Return(j)
    /\ UNCHANGED <<files, panel, due, stranded, acked>>

-----------------------------------------------------------------------------
(* Mutant: the page answers and keeps the settings it has.                 *)
AdoptNothing(j) ==
    /\ At(j, "adopt")
    /\ Return(j)
    /\ UNCHANGED <<files, panel, fd, due, stranded, acked>>

(* saveEntrySettings takes over the whole file ...                         *)
Adopt(j) ==
    /\ At(j, "adopt")
    /\ config # Torn
    /\ gate' = config.entry
    /\ missed' = FALSE
    /\ Return(j)
    /\ UNCHANGED <<files, addr, fd, due, stranded, acked>>

(* ... unless its thirty seconds are over or the file cannot be read.      *)
AdoptFails(j) ==
    /\ At(j, "adopt")
    /\ missed' = TRUE
    /\ Return(j)
    /\ UNCHANGED <<files, addr, gate, fd, due, stranded, acked>>

(* The installer ends, and a good end arms the restart of both units.      *)
Setup(j) ==
    /\ At(j, "setup")
    /\ Return(j)
    /\ upgraded' \in {upgraded, TRUE}
    /\ UNCHANGED <<files, panel, fd, timers, stranded, acked>>

-----------------------------------------------------------------------------
(* A new anpanel-web loads config.json, or fails over and over.            *)
WebLoads ==
    \/ config = Torn /\ addr' = "down" /\ UNCHANGED <<gate, missed>>
    \/ /\ config # Torn
       /\ addr' = config.listen
       /\ gate' = config.entry
       /\ missed' = FALSE

(* The requests of the page that wait in a process that stops.             *)
Drop(group) ==
    /\ pc' = [j \in Job |-> IF j \in group THEN "idle" ELSE pc[j]]
    /\ req' = [j \in Job |-> IF j \in group THEN Nothing ELSE req[j]]
    /\ copy' = [j \in Job |-> IF j \in group THEN Nothing ELSE copy[j]]
    /\ old' = [j \in Job |-> IF j \in group THEN Nothing ELSE old[j]]
    /\ fd' = [j \in Job |-> IF j \in group THEN "none" ELSE fd[j]]

Adopting == {j \in Job : At(j, "adopt")}

WebRestarts ==
    /\ WebLoads
    /\ Drop(Adopting)
    /\ UNCHANGED <<files, due, stranded, acked>>

(* Mutant: the timer restarts nothing.                                     *)
TimerIdle(j) ==
    /\ j \in timers
    /\ timers' = timers \ {j}
    /\ UNCHANGED <<files, panel, pc, locals, upgraded, stranded, acked>>

TimerFires(j) ==
    /\ j \in timers
    /\ timers' = timers \ {j}
    /\ WebLoads
    /\ Drop(Adopting)
    /\ UNCHANGED <<files, upgraded, stranded, acked>>

(* An unbind between the removal of the proxy and the saved address.       *)
Exposed(j) ==
    pc[j] \in Saving \cup {"check", "rollback", "refill", "reload"} /\ req[j].kind = "unbind"

AgentGone ==
    /\ timers' = {}
    /\ upgraded' = FALSE
    /\ UNCHANGED <<files, acked>>

AgentStops ==
    /\ AgentGone
    /\ Drop({j \in Job : InAgent(j)})
    /\ stranded' = (stranded \/ timers # {} \/ \E j \in Job : Exposed(j))
    /\ UNCHANGED panel

(* Both units are restarted by the installer of a self-update or by the    *)
(* timer after it, whatever else the agent is doing.                       *)
PanelRestarts ==
    /\ upgraded \/ \E j \in Job : At(j, "setup")
    /\ AgentGone
    /\ Drop({j \in Job : InAgent(j) \/ At(j, "adopt")})
    /\ WebLoads
    /\ stranded' = (stranded \/ \E j \in Job : Exposed(j))

(* The web server is reloaded for another site, or restarted.              *)
ServerReloads ==
    /\ served' = Shown(vhost)
    /\ UNCHANGED <<config, tmp, vhost, panel, pc, locals, due, stranded, acked>>

-----------------------------------------------------------------------------
Bind(j) ==
    \/ Install(j) \/ Accepted(j) \/ Rejected(j) \/ Issue(j) \/ Verified(j)
    \/ ProxyRejected(j) \/ IssueFails(j) \/ Test(j)
Unbind(j) == Remove(j) \/ Check(j) \/ CheckFails(j)
Restore(j) ==
    \/ LeaveOut(j) \/ TakeOut(j) \/ Truncate(j) \/ Refill(j) \/ RestoreFails(j)
    \/ ReloadAgain(j)
Save(j) == OpenTmp(j) \/ WriteTmp(j) \/ Rename(j) \/ SaveFails(j)
Step(j) ==
    \/ Load(j) \/ ReadOld(j) \/ Bind(j) \/ Unbind(j) \/ Restore(j)
    \/ Save(j) \/ Adopt(j) \/ AdoptFails(j) \/ Setup(j)

Next ==
    \/ \E j \in Job : Start(j) \/ Step(j) \/ TimerFires(j)
    \/ WebRestarts \/ AgentStops \/ PanelRestarts \/ ServerReloads

Spec == Init /\ [][Next]_vars

(* The agent's goroutines run, commands and calls end by their deadlines,  *)
(* and timers fire.  Nobody is obliged to start, stop or reload anything.  *)
Fairness ==
    /\ \A j \in Job : WF_vars(Step(j)) /\ WF_vars(TimerFires(j))
    /\ WF_vars(upgraded /\ PanelRestarts)

FairSpec == Spec /\ Fairness

-----------------------------------------------------------------------------
TypeOK ==
    /\ config \in Settings \cup {Torn}
    /\ tmp \in Settings \cup {Torn, NoFile}
    /\ vhost \in Vhost
    /\ served \in Vhost \ {"torn"}
    /\ addr \in {"public", "local", "down"}
    /\ gate \in Entry
    /\ pc \in [Job -> Phase]
    /\ req \in [Job -> Request \cup {Nothing}]
    /\ copy \in [Job -> Settings \cup {Nothing}]
    /\ old \in [Job -> Vhost \cup {Nothing}]
    /\ fd \in [Job -> {"none", "tmp", "config"}]
    /\ timers \subseteq Job
    /\ upgraded \in BOOLEAN
    /\ missed \in BOOLEAN
    /\ stranded \in BOOLEAN
    /\ acked \in Entry

Reachable == addr = "public" \/ (addr = "local" /\ served # "absent")

(* Only an unbind may interrupt access to the panel, until the restart it  *)
(* scheduled: neither a bind that fails or is stopped at any step, nor     *)
(* a restart of the panel, a self-update or a reload of the web server for *)
(* another site ever leaves it without an address.  There are two          *)
(* exceptions, both of them a put-back whose errors are dropped: the old   *)
(* proxy file may be left empty, when writing it fails or is cut off, and  *)
(* the web server may refuse to take back a restored one.                  *)
StaysReachable ==
    \/ Reachable
    \/ stranded \/ timers # {}
    \/ \E j \in Job : Exposed(j)
    \/ vhost = "torn"
    \/ (served = "absent" /\ vhost \in {"http", "https"})

(* Once no operation is in flight the gate asks for the entry path that is *)
(* saved, unless the page was told that saving it failed.                  *)
GateFollows == Idle /\ ~missed => config # Torn /\ gate = config.entry

(* Settings are changed atomically, each by its own operation, over stops  *)
(* of either process at any step, and direct access is closed only behind  *)
(* a working https proxy.                                                  *)
Register == INSTANCE PanelSettings WITH settings <- config
ImplementsSettings == Register!Spec

(* An outage ends: with the restart that makes the panel listen in public, *)
(* or with the proxy restored.  Where it does not, and no unbind was cut   *)
(* off, the operation is over and the put-back is what failed: the file is *)
(* empty, or the web server did not reload it.                             *)
PutBackFailed == Idle /\ (vhost = "torn" \/ served # Shown(vhost))
OutageEnds == ~Reachable ~> (Reachable \/ stranded \/ PutBackFailed)

-----------------------------------------------------------------------------
(* panel_domain.go: setPanelEntry writes the entry path into config.json,  *)
(* and reports "entry path saved".  So it stays saved, at the latest when  *)
(* no other operation is in flight.                                        *)
EntryStaysSaved == Idle /\ config # Torn => config.entry = acked
=============================================================================
