------------------------------- MODULE CronPage -------------------------------
(***************************************************************************)
(* The jobs of the page of tasks (web/src/main.tsx) over the crontab of    *)
(* the host (internal/agent/crontab.go).  A change is a task, at work      *)
(* beside the others: it reads the crontab, and writes all of it back.     *)
(* Jobs have no ids but their places among the jobs, counted by the agent  *)
(* once for the list on the page, over the whole table, and once more for  *)
(* a removal, line by line.                                                *)
(***************************************************************************)
EXTENDS Naturals, Sequences, SequencesExt, FiniteSets

CONSTANTS
    Job,          \* lines that are jobs
    Comment,      \* lines that are not
    First,        \* the crontab at the start
    MaxLoads,     \* bound: questions of loadCron under way
    MaxTasks,     \* bound: tasks
    MaxClicks,    \* bound: what the administrator does
    MaxLosses     \* bound: requests and crontab calls that fail

ASSUME LinesAssumption ==
    /\ Job \cap Comment = {} /\ First \in Seq(Job \cup Comment)
    /\ \A i, k \in DOMAIN First : First[i] = First[k] => i = k
ASSUME PageAssumption ==
    /\ MaxTasks \in Nat /\ MaxLoads \in Nat \ {0}
    /\ MaxClicks \in Nat /\ MaxLosses \in Nat

VARIABLES
    status,      \* the status column of the changes, in the order of creation
    change,      \* what they are, and how far they are
    table,       \* the crontab
    edition,     \* the number of its writes, the first table counted as one
    writes,      \* what each of them was made from and did
    loads,       \* answers to loadCron
    crons,       \* state variable, with the edition it shows
    reloads,     \* timers set to loadCron
    losses, clicks

ledger == <<status, change>>
cron == <<table, edition, writes>>
cronTab == <<loads, crons, reloads>>
bounds == <<losses, clicks>>
vars == <<ledger, cron, cronTab, bounds>>

Terminal == {"succeeded", "failed"}
Status == {"queued", "running"} \cup Terminal
Load == 1 .. MaxLoads
Line == Job \cup Comment

(* A change of the crontab: "sent" by the page until its answer is there,  *)
(* with what the page meant and the edition it saw; the lines read and the *)
(* edition they are of, or no lines and none when the listing failed.      *)
NoChange == [kind |-> "none", id |-> 0, meant |-> "none", saw |-> 0,
             sent |-> FALSE, read |-> FALSE, raw |-> << >>, of |-> 0]

-----------------------------------------------------------------------------
(* crontab.go.                                                             *)

IsJob(line) == line \in Job

(* The jobs, each with its number among them; the list shows them by it.   *)
CronJob == [id : Nat, line : Job]

parseCrontab(raw) ==
    LET places == {i \in DOMAIN raw : IsJob(raw[i])}
    IN  {[id |-> Cardinality({k \in places : k <= i}), line |-> raw[i]] : i \in places}

(* Mutant: all lines are counted.                                          *)
CountsLines(raw, id) == {i \in DOMAIN raw : i = id}

(* The place of the id-th job, if there is one; every line is parsed alone.*)
PlaceOf(raw, id) ==
    LET IsCron(k) == parseCrontab(<<raw[k]>>) # {}
    IN  {i \in DOMAIN raw : IsCron(i) /\ Cardinality({k \in 1 .. i : IsCron(k)}) = id}

removeCronLine(raw, id) == RemoveAt(raw, CHOOSE i \in PlaceOf(raw, id) : TRUE)

-----------------------------------------------------------------------------

Init ==
    /\ status = << >> /\ change = << >>
    /\ table = First /\ edition = 1
    /\ writes = <<[base |-> 0, put |-> ToSet(First), out |-> {}]>>
    /\ loads = [s \in Load |-> [asked |-> s = 1, edition |-> IF s = 1 THEN 1 ELSE 0,
                                got |-> IF s = 1 THEN parseCrontab(First) ELSE {}]]
    /\ crons = [jobs |-> {}, edition |-> 0] /\ reloads = 0
    /\ losses = 0 /\ clicks = 0

Lost == losses < MaxLosses /\ losses' = losses + 1 /\ UNCHANGED clicks
Click == clicks < MaxClicks /\ clicks' = clicks + 1 /\ UNCHANGED losses

Create(c) ==
    /\ Len(status) < MaxTasks
    /\ status' = Append(status, "queued") /\ change' = Append(change, c)

Set(t, s) == status' = [status EXCEPT ![t] = s]

-----------------------------------------------------------------------------
(* The tasks in the agent.                                                 *)

Start(t) ==
    /\ status[t] = "queued" /\ Set(t, "running")
    /\ UNCHANGED <<change, cron, cronTab, bounds>>

ReadCrontab(t) ==
    /\ status[t] = "running" /\ ~change[t].read
    /\ change' = [change EXCEPT ![t].read = TRUE, ![t].raw = table, ![t].of = edition]
    /\ UNCHANGED <<status, cron, cronTab, bounds>>

(* A crontab -l that fails without a word is taken for an empty table.     *)
ReadNothing(t) ==
    /\ status[t] = "running" /\ ~change[t].read /\ Lost
    /\ change' = [change EXCEPT ![t].read = TRUE, ![t].raw = << >>, ![t].of = 0]
    /\ UNCHANGED <<status, cron, cronTab>>

Install(t, raw, put, out) ==
    /\ table' = raw /\ edition' = edition + 1
    /\ writes' = Append(writes, [base |-> change[t].of, put |-> put, out |-> out])

(* A crontab - that is stopped may have done its work before.              *)
Told(t) ==
    \/ Set(t, "succeeded") /\ UNCHANGED bounds
    \/ Set(t, "failed") /\ Lost

(* Mutant: the jobs are written back, not the lines.                       *)
WriteJobs(t) ==
    LET c == change[t] IN
    /\ status[t] = "running" /\ c.kind = "add" /\ c.read
    /\ Install(t, Append(SelectSeq(c.raw, IsJob), c.meant), {c.meant}, {}) /\ Told(t)
    /\ UNCHANGED <<change, cronTab>>

WriteAdded(t) ==
    LET c == change[t] IN
    /\ status[t] = "running" /\ c.kind = "add" /\ c.read
    /\ Install(t, Append(c.raw, c.meant), {c.meant}, {}) /\ Told(t)
    /\ UNCHANGED <<change, cronTab>>

WriteRemoved(t) ==
    LET c == change[t]
        to == removeCronLine(c.raw, c.id)
    IN
    /\ status[t] = "running" /\ c.kind = "remove" /\ c.read
    /\ IF PlaceOf(c.raw, c.id) = {} THEN Set(t, "failed") /\ UNCHANGED <<cron, bounds>>
       ELSE Install(t, to, {}, ToSet(c.raw) \ ToSet(to)) /\ Told(t)
    /\ UNCHANGED <<change, cronTab>>

(* crontab -l or crontab - fails, with nothing written.                    *)
CrontabFails(t) ==
    /\ status[t] = "running"
    /\ Set(t, "failed") /\ Lost
    /\ UNCHANGED <<change, cron, cronTab>>

-----------------------------------------------------------------------------
(* The page.                                                               *)

LoadCron(s) ==
    /\ ~loads[s].asked /\ \A r \in 1 .. s - 1 : loads[r].asked
    /\ loads' = [loads EXCEPT ![s] = [asked |-> TRUE, got |-> parseCrontab(table),
                                     edition |-> edition]]

Refresh(s) ==
    /\ Click /\ LoadCron(s)
    /\ UNCHANGED <<ledger, cron, crons, reloads>>

Reload(s) ==
    /\ reloads > 0 /\ reloads' = reloads - 1 /\ LoadCron(s)
    /\ UNCHANGED <<ledger, cron, crons, bounds>>

Loaded(s) == loads' = [loads EXCEPT ![s] = [asked |-> FALSE, got |-> {}, edition |-> 0]]

CronArrives(s) ==
    /\ loads[s].asked
    /\ crons' = [jobs |-> loads[s].got, edition |-> loads[s].edition] /\ Loaded(s)
    /\ UNCHANGED <<ledger, cron, reloads, bounds>>

(* The listing of the host failed without a word.                          *)
CronMisread(s) ==
    /\ loads[s].asked /\ Lost
    /\ loads' = [loads EXCEPT ![s].got = {}]
    /\ UNCHANGED <<ledger, cron, crons, reloads>>

CronFails(s) ==
    /\ loads[s].asked /\ Lost /\ Loaded(s)
    /\ UNCHANGED <<ledger, cron, crons, reloads>>

(* Text is new: equal lines are one and the same to the host.              *)
addCron(j) ==
    /\ Click
    /\ j \notin ToSet(First) /\ \A t \in DOMAIN change : change[t].meant # j
    /\ Create([NoChange EXCEPT !.kind = "add", !.meant = j, !.sent = TRUE])
    /\ UNCHANGED <<cron, cronTab>>

(* The button of a row posts its id.                                       *)
removeCron(job) ==
    /\ Click
    /\ Create([NoChange EXCEPT !.kind = "remove", !.id = job.id, !.meant = job.line,
                               !.saw = crons.edition, !.sent = TRUE])
    /\ UNCHANGED <<cron, cronTab>>

(* Mutant: two timers are set.                                             *)
PostAnsweredTwice(t) ==
    /\ change[t].sent
    /\ change' = [change EXCEPT ![t].sent = FALSE] /\ reloads' = reloads + 2
    /\ UNCHANGED <<status, cron, loads, crons, bounds>>

PostAnswered(t) ==
    /\ change[t].sent
    /\ change' = [change EXCEPT ![t].sent = FALSE] /\ reloads' = reloads + 1
    /\ UNCHANGED <<status, cron, loads, crons, bounds>>

PostFails(t) ==
    /\ change[t].sent /\ Lost
    /\ change' = [change EXCEPT ![t].sent = FALSE]
    /\ UNCHANGED <<status, cron, cronTab>>

-----------------------------------------------------------------------------

Next ==
    \/ \E t \in DOMAIN status :
          \/ Start(t) \/ ReadCrontab(t) \/ ReadNothing(t)
          \/ WriteAdded(t) \/ WriteRemoved(t) \/ CrontabFails(t)
          \/ PostAnswered(t) \/ PostFails(t)
    \/ \E s \in Load : Refresh(s) \/ Reload(s) \/ CronArrives(s) \/ CronMisread(s) \/ CronFails(s)
    \/ \E j \in Job : addCron(j)
    \/ \E job \in crons.jobs : removeCron(job)

Spec == Init /\ [][Next]_vars

-----------------------------------------------------------------------------

Change == [kind : {"add", "remove"}, id : Nat, meant : Job \cup {"none"},
           saw : Nat, sent : BOOLEAN, read : BOOLEAN, raw : Seq(Line), of : Nat]

TypeOK ==
    /\ status \in Seq(Status) /\ Len(status) <= MaxTasks
    /\ change \in Seq(Change) /\ Len(change) = Len(status)
    /\ table \in Seq(Line) /\ edition <= Len(status) + 1
    /\ writes \in Seq([base : Nat, put : SUBSET Line, out : SUBSET Job])
    /\ Len(writes) = edition
    /\ \A s \in Load : loads[s].got \subseteq CronJob /\ loads[s].edition <= edition
    /\ crons.jobs \subseteq CronJob /\ crons.edition <= edition
    /\ reloads \in 0 .. Len(status)
    /\ losses \in 0 .. MaxLosses /\ clicks \in 0 .. MaxClicks

(* A removal takes out the job of the row it was chosen in and nothing     *)
(* else, comments included, whenever no other change was written since the *)
(* list on the page was read: the places the page counts and those the     *)
(* agent counts are the same.                                              *)
RemovesTheChosen ==
    [][\A t \in DOMAIN status :
          LET c == change[t] IN
          c.kind = "remove" /\ c.saw = edition /\ edition' # edition /\ status'[t] # status[t]
             => /\ Len(table') = Len(table) - 1
                /\ ToSet(table') = ToSet(table) \ {c.meant}]_vars

(* A change was written after edition e by a task that had read the table  *)
(* before e, or had failed to read it.                                     *)
Overtaken(e) == \E n \in DOMAIN writes : n > e /\ writes[n].base < e

Gone == UNION {writes[n].out : n \in DOMAIN writes}

(* However changes overwrite each other, and though a task that failed may *)
(* have written: a line of the first table is lost only to a removal or to *)
(* a listing that failed without a word; an added job only to a removal or *)
(* to a task that had read the table before; a removed job comes back only *)
(* by such a task; comments are not removed, and keep their order.         *)
LinesStay ==
    /\ \A e \in DOMAIN writes : ~Overtaken(e) =>
          /\ writes[e].put \ Gone \subseteq ToSet(table)
          /\ writes[e].out \cap ToSet(table) = {}
    /\ Gone \cap Comment = {}
    /\ \A i, k \in DOMAIN table :
          i < k /\ ~IsJob(table[i]) /\ ~IsJob(table[k]) =>
             \E m, n \in DOMAIN First : m < n /\ First[m] = table[i] /\ First[n] = table[k]
=============================================================================
