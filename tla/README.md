# Formal model of AnPanel

AnPanel is a server panel made of two processes. `anpanel-web` serves the
browser, keeps accounts, tasks, metrics and alert rules in SQLite, and runs
unprivileged. `anpanel-agent` runs as root, listens on a unix socket, and carries
out the allowed actions on the host. This directory holds TLA+ modules translated
from that code, the configurations that check them with TLC, and theorems about
them checked with TLAPS.

## 1. Inventory

| Component | State | Operations | Hard behaviour |
|---|---|---|---|
| **Task pipeline** (`app/server.go`, `store/store.go`, `agent/client.go`, `agent/server.go`, `agent/update.go`) | `tasks` and `audit` rows; the goroutine of each request; the RPC; what the agent is executing; the restart timer of a self-update | submit, audit, run, answer, settle; recovery at start | either process stops at any step; the RPC ends before the action; writes whose errors are dropped; a self-update that restarts both processes |
| **Web server configuration** (`agent/webserver.go`, `agent/sites.go`, `agent/rewrite.go`) | the files, their `.anpanel.tmp`, what the server runs | apply, create, delete, configure, rewrite; test, reload, restore | no lock: concurrent actions interleave at every system call; restore of a copy read earlier, whose errors are dropped; contexts that end early; a stop of the agent half way |
| **Panel access** (`agent/panel_domain.go`, `app/entry.go`, `config/config.go`, `cli/cli.go`, `agent/update.go`) | `config.json`, its temporary file, the copy the panel holds, the panel's proxy file, the listening address | bind, unbind, save entry settings, self-update's channel, recovery command, delayed restart | agent and CLI save whole copies of one file without a lock, and the panel loads it; the panel must stay reachable |
| **Administrator access** (`app/server.go`, `store/store.go`, `auth/totp.go`, `cli/cli.go`) | user row, sessions, TOTP secret, login failures | login, logout, setup, change of credentials, TOTP enrolment and removal, CLI reset, limiter | the CLI writes the same database as the panel; secrets read before and used after other requests |
| **Alerts** (`app/server.go`, `store/store.go`, `notify/notify.go`) | rules, the state of each rule in memory, deliveries in flight | evaluate, add, change and remove a rule, notify | the state outlives the rule but not the process; deliveries run in goroutines; rule edits race with evaluation |
| **Metrics history** (`store/store.go`, `app/server.go`) | one-minute rows, five-minute rows | collect, aggregate, prune, query | boundaries of buckets against the retention limit |
| **Crontab** (`agent/crontab.go`, `web/src/main.tsx`) | the crontab, the list on the page | list, add, remove | read-modify-write without a lock; a listing that fails without output is taken for an empty table; ids are places, counted once for the page and once more for a removal |
| **Software and Docker** (`agent/software.go`, `agent/docker.go`) | installed components, containers | install, remove, deploy, container actions | checks made long before the work |
| **Terminal** (`agent/terminal.go`, `app/server.go`) | shell process, pipe, two websockets | open, relay, close | who ends whom |
| **File manager** (`agent/files.go`, `web/src/main.tsx`, `web/src/api.ts`) | files; the page's directory, dialogs, clipboard and upload list | browse, edit, create, rename, copy, move, delete, upload | several steps of which one fails, with a fallback that has steps of its own; answers that change places; timers |
| **Certificates** (`agent/certs.go`) | certificate files | issue, renew, discover | done by certbot and acme.sh |
| **Installer and package sources** (`scripts/`) | package source files, units | install, switch sources, restore | a failing step half way |
| **Host detection**, **metrics collection** (`system/`) | none | read `/proc`, run version commands | parsing only |
| **Browser interface** (`web/src`) | the profile and csrf of a tab, per page the lists, dialogs, pollers and timers | shows, asks again, submits | every `await` gives way to clicks, timers and other answers; handlers go on with what they captured, on pages that may be gone |

The components interact through four things: the HTTP-over-socket call
(`agent.Client` to `agent.server`), `config.json`, the SQLite file, and the web
server's configuration. What makes each of them correct:

* tasks: a row is settled once, truthfully, and never left running; nothing is
  done to the host without its audit row, nothing is done twice;
* configuration: a path holds what was last accepted by the server's own test and
  reloaded, or what it held before, as long as the restore can be carried out;
  failure of one change disturbs no other;
* access: the panel stays reachable over the address it answers on, and a saved
  setting is not undone by an unrelated one;
* accounts: `reset-admin` leaves no session of an old password (a change of
  credentials from the page revokes none, by the code), nobody is asked for the code
  of a secret that was never shown, a tab's profile and csrf are those of its session;
* alerts: an alert is sent exactly when the rule has fired for as long as it asks, and a
  recovery exactly when an alert that was sent has ended; a removal removes the rule that
  was chosen;
* files: no rename or move loses the text it is about, whatever fails, and no copy
  overwrites a file; the page shows the directory asked for last;
* tasks and jobs on screen: a modal shows its own task and comes to its outcome; a
  removal takes out the job that was chosen;
* metrics: each minute is counted once in one bucket.

## 2. Modules

| Module | Models | Role |
|---|---|---|
| `TaskLedger` | what the tasks table promises | abstract specification |
| `TaskPipeline` | request handler and goroutine, tasks and audit rows, RPC, agent, stops and recovery | component, implements `TaskLedger` |
| `TaskPipelineProofs` | | theorems about `TaskPipeline` |
| `SiteRegister` | what changing a configuration file promises | abstract specification |
| `WebConfig` | apply, create and delete of site files at the granularity of system calls | component, implements `SiteRegister` |
| `MCWebConfig` | | symmetry for TLC |
| `WebConfigProofs` | | theorems about `WebConfig` |
| `PanelSettings` | what the panel's settings promise | abstract specification |
| `PanelAccess` | bind, unbind, entry path, self-update's channel, recovery command, restarts | component, implements `PanelSettings` |
| `PanelAccessProofs` | | theorems about `PanelAccess` |
| `FileActions` | the agent's file actions, one system call at a time | component |
| `FileBrowser` | the page of files over `FileActions` | composition |
| `MCFileBrowser` | | first contents of the disk |
| `FileBrowserProofs` | | theorems about both |
| `AccountSession` | login, session, profile and TOTP enrolment, from the tabs of a browser to the rows; `reset-admin` | composition |
| `MCAccountSession` | | symmetry for TLC |
| `AccountSessionProofs` | | theorems about `AccountSession` |
| `TaskViews` | the dialogs that post tasks, the progress modal, the page of tasks | component over the statuses of `TaskLedger` |
| `TaskViewsProofs` | | theorems about `TaskViews` |
| `CronPage` | the jobs on the page, their tasks and the crontab | composition |
| `MCCronPage` | | the first crontab, and symmetry |
| `CronPageProofs` | | theorems about `CronPage` |
| `Alerts` | alert rules, their evaluation, the page of rules | composition |
| `AlertsProofs` | | theorems about `Alerts` |

### TaskPipeline

`status` and `audited` are the two tables, and survive stops. `web` is the phase
of `anpanel-web`: down, opening (before the first statement of
`RecoverInterruptedTasks`), recovering (before the second), serving. `worker[t]` is
how far the handler, then its goroutine, has come; `answer[t]` is what it got from
the agent; `exec[t]`, `out[t]` and `effect[t]` are the agent's side. Each write to
SQLite is an action, because a stop can come between any two; `WriteStatus` is a
write whose error the code drops, so it may be lost. `CallTimesOut` lets the call
end while the action goes on, as the ten-minute context does when a command ignores
it. `OnWire` is the agent's reply: an error is sent with `http.Error`, and the
`ActionResult` beside it is not sent at all. `PanelRestart` is the restart by the
installer inside a self-update or by the timer after it; both processes go.

Abstracted: what an action does is one of *nothing*, *changed*, *restored*.
`Reversible` tasks are those built on `applyWebConfig`, the only ones that set
`RolledBack`; their own steps are in `WebConfig`.

### WebConfig

`disk`, `tmp` and `live` are the file, its `.anpanel.tmp` and the content the web
server runs, per path. A job goes through the phases of `applyWebConfig` and
`deleteWebsite`. `os.WriteFile` is two steps, truncate and write, and `fd` says which
file the descriptor of a job refers to by now: a rename by another job moves it.
`Valid` is the server's test, over all files at once: `Bad` contents fail it, and so
do two paths with a `Claim` content (two default servers, for one). A reload that
is reported as failed may have taken place when the context ended while it ran.

System calls on files fail too. On the way in (`InstallFails`: the backup, the temporary
file, the rename, the removal) that ends the job with its file as it was. On the way back
(`UndoFails`) the code drops the error and still answers that it rolled back: the new
content stays, or an empty file. `stranded` is the set of paths that such a job, or one
the agent stopped between rename and verdict, did not put back; a path leaves it with its
next success. `crossed` says that the last reload took in the file of another job that was
not through yet, and which that job may take back afterwards.

`SiteRegister` has a register per path: `Ask` states a change, `Apply` puts exactly its
content into the register in the step that answers success, and only if the server
accepts it and the file was there, or not, as the change requires (`Fits`); `Refuse`
leaves the register alone; `Spoil` and `Stop` make it `Unknown`, and nothing but a change
in flight on that very path, whose restore fails or is cut off, can do that. The mapping
gives each path what is on disk or, while a job is between rename and verdict, the `old`
it would put back (`Content`).

`PerPath` states that operators have one change of a path in flight. The code does
not enforce it. The run with `PerPath = TRUE` and the theorem show what is true
then; the run with `PerPath = FALSE` shows what goes wrong without it.

Abstracted: contents are a handful of model values; backups with a time stamp are
left out; `configTest` and `reloadServer` stand for the commands of either server.

### PanelAccess

`config` and `tmp` are `config.json` and its temporary file; `vhost` is the panel's
own proxy file and `served` the proxy the web server runs; `addr` and `gate` are
where the running `anpanel-web` listens and the entry path it asks for. A job holds
the copy it loaded (`copy`) and the proxy file it would go back to (`old`) until it
returns, and job slots are used again, so TLC explores sequences of operations of
any length. `timers` and `upgraded` are the goroutines that restart the panel two
seconds later; they die with the agent. `served` is set by whoever reloads the web
server, `ServerReloads` for other sites included.

The put-back of a failed bind or unbind is modelled call by call: `TakeOut`, or
`Truncate` and `Refill`, since `os.WriteFile` works in place, then `ReloadAgain`. The code
drops the errors of all of them, so each can fail (`RestoreFails`, `MayReload`) or be cut
off by a stop, and an empty (`torn`) file may stay, which the web server serves as no
proxy at all. `applyWebConfig` is replace, then accept or put back, which may go wrong in
the same ways (`Rejected`, `ProxyRejected`). `Issue` stands for
certbot, which rewrites and reloads by itself, and for acme.sh followed by a second
`applyWebConfig`. The decoy mode is saved along with the entry path and is part of
an `Entry` value. A command or a test may fail for any reason, an ended context among
them, so failures are choices and need no `cancels`. A writer that fails to load ends; `config.json` is never missing.

### FileActions and FileBrowser

`FileActions` has the agent's part: `disk` holds what is at each name, `pc[t]` how far
a task is, `txt[t]` what it read in its source, `was[t]` what its destination held.
`Rename` is `os.Rename`; when it fails for whatever reason, `Drain`, `Drained` and
`RemoveSource` are `copyRemove`, and a `move` whose rename fails as a whole goes on with
`CheckCopy`, `OpenCopy`, `FillCopy` and `Delete` as `movePath` does. A rename between
two file systems (`Foreign`) always fails. `CopyFails` removes what was written, and
`CleanupFails` is the same with an error of `os.RemoveAll`, which the code drops: what was
written stays (`littered`).
`AgentStops` may come between any two calls. A write replaces the file in one step,
because `writeFileContent` renames a temporary file.

`FileBrowser` is `FilesPage`. `path` and `items` are two state variables of the page;
`loads` are the listings asked for and not answered, in the order of asking, of which
any may arrive next; `timers` are the reloads of `setTimeout`. `by[t]` is the directory
a handler captured when it sent its request: `Continue` is the rest of the handler,
after the answer. A task is answered when it is *queued*, so the agent may act before or
after that. `at`, `target` and `listed` are `runUploads`. Dialogs and the editor lie over
the page and take its clicks (`Uncovered`), but nothing disables a dialog's own button.

Abstracted: directories stay as they are and only files are in them; uploaded files
have names of their own, so that an upload touches no other file; contents are model
values. `asked`, `overtaken` and `fresh` are history: the directory asked for last,
whether its answer was overtaken or lost, whether the rename dialog opened at rest.

### AccountSession

Per tab: `me` is the profile held by `App`, `csrf` the module variable of `api.ts`,
`secret` what `SecurityBlock` shows. The `cookie` is one for all tabs. A request is sent
with the cookie and csrf of the moment and the profile its handler was rendered with
(`Send`), admitted by `withSession` or `login` with a snapshot of the account (`Admit`), and
carried out later from that snapshot (`Handle`); its answer may be lost (`Lose`). An edit
patches the captured profile (`Edited`, the `setMe({...me, ...})` of the page). A logout
needs no csrf (`Authorised`; `server.go:80` registers it without). `saved` is the entry path in
`config.json` and `entry` the one in the memory of the panel: a save that is answered 500 may
have taken place or take place later (`adrift`, `SavedUnheard`), which leaves the panel and
the tab with the old path until the next save that is answered (`missed`).
`ResetRow` and `ResetSessions` are the two statements of `ResetAdmin`.

Passwords are told apart by the number of the change that set them (`born`, `since`). A code
belongs to one secret. An expired cookie stays in the model: the server refuses it like
no cookie. `seen`, `astride`, `late`, `stale` and `turned` are history, and say what the
properties exclude: `late` sessions are those of logins that had verified the password
before a reset removed the sessions; a `stale` profile was changed by another tab, by a
reset, by an edit that overlapped another one or a login of the same tab, or by an edit
whose answer was lost; `turned` tabs have had their cookie changed by another tab. That an
edit can overlap a login (log out while the edit is answered, log in again) was found when
`ProfileIsCurrent` was proved: it needs more requests than the run has.

### TaskViews

`status` is the table of tasks, in the order of creation. `flow[f]` is a handler of the
installation, custom container, web binding or update dialog, with the phases posting,
posted, binding and bound; `home` says whether its page is still mounted. `busy` is the flag
of the open dialog: it disables the button while the dialog's own handler is at work, and goes
with the dialog when that is closed, so a dialog opened again can submit beside the first
handler. Closing a dialog counts as a click. Each run of the
effect of `TaskProgressModal` is an entry of `poller`, and `stop` is the flag its cleanup
sets: an answer to it may still be under way. A modal that comes `over` an open one keeps its
state, and shows the earlier task until the first answer with its own. `lists` are the questions of the page of
tasks, which its interval asks without waiting for the last. A question and what the
panel answers are one step, and when it arrives is open: only the order of arrival
matters. `Newest` goes by creation, where the code sorts by a time in seconds.

### CronPage

`table` is the crontab, `change[t]` a task that adds or removes: it reads the whole table
(`ReadCrontab`) and writes it back (`WriteAdded`, `WriteRemoved`) with nothing to keep two of
them apart. A `crontab -l` that fails without output is read as an empty table by a task
(`ReadNothing`), whose write then replaces all there was, and shown as an empty list by the
page (`CronMisread`); a `crontab -` may have done its work although its task ends as failed
(`Told`). `parseCrontab` gives the jobs with their ids, counted over the whole table; `PlaceOf` is the
count of a removal, which parses every line alone;
`edition` numbers the writes, and a removal remembers the edition of the list it was
chosen in (`saw`). `writes` is history: what each write was made from (`base`, none for a
silent failure), and which lines it put in and took out. `reloads` are the timers that list again after 800 ms. Lines are
distinct model values, jobs or comments, and nobody else edits the crontab.

### Alerts

`rules` is the table by id, and `serial` tells a rule from all others that ever had its
id. `alertStates` is the map in memory, which the removal of a rule leaves alone.
`Collect` is a sample with `evaluateAlerts` over all enabled rules: which of them fire is
free. The clock moves one step per sample, so durations are numbers of samples. A restart
empties the map. `told` and `spell` are history: what this process said last of a rule,
and the samples since one did not fire. Changing a rule over the API is in the model
(`Update`) although the page only adds and removes. A disabled rule is not evaluated and
keeps its state, so a pause does not end a spell. There is no silence period in the
model because the code never reads `silence_seconds`; section 5 has more on that. Delivery is left out.

## 3. Runs

| Run | Bounds | Shows |
|---|---|---|
| `task_pipeline` | two tasks, one self-update and one reversible; three stops, two lost writes | passes: settled once and truthfully, nothing left running, audit before work, at most one execution, `TaskLedger` implemented, running rows end |
| `rolled_back_status` | one stop, no lost write | violated: a rolled back action is recorded as `failed` |
| `queued_orphan` | one stop, no lost write | violated: a stop before the first update leaves a row `queued` for ever |
| `web_config` | two jobs, two paths, one change of a path at a time, two ended contexts (`MaxCancels`), one failing system call (`MaxFaults`), one stop (`MaxStops`) | passes: every path is an atomic register until a restore fails, success means served, files at rest are valid and served |
| `web_lost_update` | two jobs, no such restriction | violated: a failing change restores what was there before another one succeeded |
| `panel_access` | one job slot used endlessly, so one operation at a time, any number of failures and stops | passes: only an unbind or a failed put-back interrupts access, other outages end, `PanelSettings` implemented, the gate follows the saved entry |
| `entry_reverted` | two job slots, with operations that overlap | violated: a reported entry path is not the saved one |
| `file_browser` | two directories on two file systems, two names, two tasks, two drops of one file, two listings under way, three things the user does; any failure, any number of stops | passes: no move loses its file and no copy overwrites one, the page shows what was asked for last, a rename stays in its directory, uploads stay listed until they end and leave the list then |
| `account_session` | two tabs, two session tokens, two secrets, one change of the password, by the user or by a reset, four requests of the user; any request or answer lost | passes: profile and csrf of a tab are those of its session, a secret that is asked for was shown, a reset revokes |
| `task_views` | two handlers, two tasks, answers of one task, two runs of the modal's effect, two lists under way, one lost request, three clicks | passes: a modal shows its own task, and modal and detail come to show the outcome |
| `cron_page` | two jobs among two comments and two interchangeable jobs to add, three changes, one list under way, three clicks, one failure of any kind | passes: no line is lost or comes back but by a stale copy or a silent failure, a removal takes out the chosen job |
| `alerts` | two rules, durations of none and two samples, repeat after two, four samples, two changes, one restart | passes: alerts and recoveries are sent exactly when the samples say so, a removal removes the chosen rule |

Why these bounds are enough. Tasks interact only through stops, the restart of a
self-update and recovery, so a self-update and one other task show all of it; three
stops allow a stop in the recovery that follows a stop. Two paths and two jobs are
what interference between sites needs; a third job repeats it (three paths under
one claim are not covered), and one fault is enough for a restore that fails beside a job
that does not. In `panel_access` operations do not overlap, so one slot used again and
again has all their sequences; a restart pending from one operation falls into the next;
one update channel is enough to see settings reverted, because entry paths
take two values. In `file_browser` two tasks, two
directories and three actions suffice for any two of: a listing, a rename, a move, a drop,
a save in flight together; a drop of more than one file is left to the theorem.
`account_session` needs two tabs for one to change what another holds, a second token
for a login beside a session (one change of the password tells the sessions before from those
after), and a second secret for two setups that overlap; tabs,
tokens and secrets are interchangeable, and there is no liveness in that run. In
`task_views` an answer of one task makes a newer task push the older one out, which needs
a hundred tasks on the panel. In `cron_page` three changes make two that overlap and one
before them, and one failure falls on any of them; the jobs to add differ in nothing but
their names (`Added`). One list under way can be as old as any, and what is chosen in an old
list is excluded anyway; lists that change places are left to the theorem. In `alerts` four samples are a spell that is long enough, its repetition and
a recovery. All the named bounds are in guards or constants; safety for
other sizes is what the theorems are for.

Properties with exclusions say so in their statement, and each excludes what the
code cannot survive:

* tasks: a dropped database error (`faults = 0`);
* configuration: `stranded` (a restore that failed or was cut off; `ImplementsRegister` makes
  that path `Unknown`), `crossed` and, for `ServedIsOnDisk`, `cancels = 0` (a reload after a
  restore cannot run on a context that has ended);
* panel access: `stranded` (an unbind cut off before its address was saved), a put-back of the
  proxy file that failed or was cut off, `missed` (`GateFollows`);
* files: `MoveKeepsText` and `CopyOverwritesNothing` speak of a task no other shares a file with,
  `LastAskedIsShown` excludes answers that changed places, `RenameStays` a listing that was
  under way when the dialog opened;
* account: the `late` sessions (`ResetRevokes`), `stale` and `missed` (`ProfileIsCurrent`), `turned`
  (`CsrfIsTheCookies`);
* tasks on screen: a task that newer ones pushed out of the answers, and the modal that
  came over another until its first answer (`ShowsItsOwn`);
* crontab: a removal that another change overtakes (`RemovesTheChosen`), writes of a stale or
  silently empty copy (`LinesStay`).

In some cases the exclusion is the very hazard, and the property shows only that nothing
*else* brings about what it forbids: `GateFollows` and the save that times out,
`LastAskedIsShown` and answers that overtake, `RenameStays` and the listing under way,
`CsrfIsTheCookies` and the cookie another tab changed, `ProfileIsCurrent` and edits that overlap, `RemovesTheChosen` and the removal that
is overtaken, the two file properties and two tasks on one file, `MoveKeepsText` and a
destination that `copyRemove` truncates, `ProgressSettles` and `DetailSettles` and the task
that is pushed out. The code does go wrong there; the hazards of `PROJECT.json` say so one by
one.

Fairness. `TaskPipeline`: goroutines are scheduled, a call ends by its deadline,
`Restart=on-failure` brings processes back, recovery runs at start. Nothing obliges an
action to return. `PanelAccess`: the agent's handler runs, its commands end by their
deadlines, timers fire. `FileBrowser`: an upload ends with `load` or `error`, and the timer
that clears the list fires. `TaskViews`: a poller's timer fires and its question ends; the
interval of the page goes on while it is mounted and its questions end; questions fail at
most `MaxLosses` times, and failed ones are asked again. No run assumes that operators act, that stops happen or that
they cease.

## 4. Proofs

`TaskPipelineProofs` proves, from `KindAssumption` and `BoundAssumption` alone, for
every set of tasks and every number of stops and faults:

* `TypeCorrect`, `NothingAbandoned`, `SuccessCorrect`, `AuditCorrect`: the invariants;
* `TerminalCorrect`, `OnceCorrect`: the action properties;
* `PipelineImplementsLedger`: every step is a ledger step or a stutter.

None of the invariants is inductive alone. The strengthening relates the goroutine
to the row and to the agent: a worker that has not started its call has an idle
execution, a worker that has not finished has no settled row, an execution that is
not idle has been audited or a write was lost, and an answer without error was
sent by an execution whose effect is in force. `SuccessIsReal` needs the last,
`TerminalIsFinal` the second, `ExecutedOnce` the first.

`WebConfigProofs` proves `WebTypeCorrect`, and, assuming `PerPath`, that the changes
implement `SiteRegister` (`WebImplementsRegister`) and that success means the content is
served (`WebSuccessServed`). The strengthening says that two
jobs in flight have different paths, that a descriptor refers to the temporary file
exactly while its job is writing it, that the temporary file holds the requested
content before the rename, that `old` is what the path held before, and that the file was
there or not as the request wants (`Knows`). Then only the
job of a path can change it, a test that passes has seen the job's own content, and a
restore that is carried out puts back what the register holds (`ContentIs`).

`WebRestedValid` and `WebServedOnDisk` assume `PerPath` too; jobs on different paths may
overlap. The invariant `Sound` says that what the register holds (`Base`: `disk` with the
`old` of every job between rename and verdict put back) passes the test and is what the
server runs, unless something is `stranded` or the last reload was `crossed`, and, for what
the server runs, a context ended early. At rest `Base` is `disk`. A reload makes `Base` sound
again because, if it is not `crossed`, no other job has anything on disk to take back.
`WebFailureKeepsSuccess` is the positive side of `web_lost_update`: with one change of a path
in flight, a path whose only applied change is a job's holds that job's text in the register,
or is unknown (`Kept`).

`PanelAccessProofs` proves `PanelTypeCorrect` for operations in any interleaving, and,
assuming `Serial`, `PanelImplementsSettings` and `PanelStaysReachable`. The first
strengthening: one job at most is in flight, its copy is the saved file until it
renames, the temporary file is its own while it writes, and a bind that has come to
saving has the https proxy on disk and served. The second: a panel that is closed, or
will be after the next restart, has its proxy file on disk, or is being unbound, or is
about to be restarted in public; and an operation that may go back to *no proxy file*
found the panel open. A put-back that fails or is cut off leaves some file, if only an empty
one, which the property names. Both were checked with TLC before they were proved.
`PanelGateFollows` and `PanelEntryStays` (the positive side of `entry_reverted`) follow from a
third one, `EntryKept`: the saved entry path is the one last reported as saved, and the gate
asks for it, unless a job is about to hand it to the panel or the page was told that it could
not be.

`FileBrowserProofs` proves `TypeCorrect` and every safety property of the file run, for any
files, tasks, drops and bounds. `LastAskedCorrect`: the last of the listings under way, or
else the shown directory, is the one asked for last, unless it was overtaken (`Settles`).
`RenamesCorrect`: while a rename dialog that opened at rest is open, every listing, timer,
request and drop under way is about the shown directory (`Stays`), for which the overlay is
needed. `MovesCorrect` and `CopiesCorrect` go by where a task is: a move has its source whole
at every step until it removes it, and comes to that only with the text whole at its
destination; a copy writes only where it found nothing, so that all a failed clean-up can
leave is part of a copy (`Moving`, `Copying`). Both need that
a task which is alone with its files was so before (`TaskFx`), since what a task asks for
is settled before the agent has it.

`AccountSessionProofs` rests on one lemma, `StepFx`, that says what a step can do to a request
(`Fate`). `SecretCorrect`: the argument of an enrolment under way and every secret on a
screen were shown. `ResetCorrect`: a session whose password is older than the last reset is
late, or the reset is between its statements; a login admitted before the second statement
is `astride`. `CsrfCorrect`: an answer to `me` or `login` under way carries the cookie, unless
it was marked when the cookie changed. `TypeCorrect` needs the types of what requests carry
at each phase (`Typed`), since answers go into the page and arguments into the account.
`ProfileCorrect`: what a login or `me` took is the account as it is, and what an edit made is
still there, unless marked `old` (`TakenOK`, `MadeOK`); so a tab's profile is the account's but
for the fields of its own edits that are made and not yet answered, if none of its edits is
old or lost (`Fresh`, `Sure`). The panel's entry path is the saved one unless a save was answered
with an error (`Heard`). The proof goes by what
ends in a step: an edit settles its own field and leaves the others to the other edits.

`TaskViewsProofs` proves `ProgressCorrect`: only the poller of the open modal is not stopped,
and an answer comes through only to a poller that is not stopped (`Own`), so what is shown is
the modal's own task from its first answer on, whoever opened it over what.
`TypeCorrect` adds that every list of the page, under way or shown, is a part of the table
(`PartOf`), which only grows.

`CronPageProofs` proves `TypeCorrect`, `LinesCorrect` and `RemovalCorrect` for any crontab of
distinct lines (`LinesAssumption`), any number of changes and any lists under way. First, what the agent counts: both counts number
a job by the jobs up to its line (`ParseIs`, `PlaceIs`), no two jobs have one number
(`RankUnique`), so a removal goes to the line that the list showed under its number
(`PlaceUnique`). Then, what every copy of the table keeps, the one on the host and those that
tasks have read (`Good`): its lines are distinct, of the first table or of an addition, and its
comments are the first table's in their order; a write replaces the table by such a copy
less a job or with one more (`GoodRemoved`, `GoodAppended`). An addition that is not done has
its text in no copy, whoever writes an old one back. Third, every copy holds what the
writes it comes from put in and took out, up to those that were overtaken (`WritesOK`, `Holds`):
a write made from the newest table keeps that, and one made from an older table, or from
none, makes everything in between overtaken (`WriteNoted`). Last, a list or a click of the current
edition is of the current table (`ShownOK`). For the types, writes are counted by the tasks that
succeeded and timers by the requests that were answered (`Counts`).

`AlertsProofs` proves `TypeCorrect`, `NotificationsCorrect` and `RemovalCorrect`. The invariant
`Tracks` ties the state in memory to the history: `since` is the first sample of the spell,
a rule is active exactly when the last thing said of it was an alert, and `sent` is when; so
the code says something exactly when `AlertDue` or `RecoveryDue` holds. It
holds of every rule in the table because an id is above all ids ever given (`IdsOK`), so that
a new rule finds no state of an old one.

Checked by TLC only: `RunningEnds`, `OutageEnds`, `UploadsLeave`, `ProgressSettles`,
`DetailSettles` and the counterexample to `QueuedIsExecuted` (liveness under fairness is out
of the prover's reach). Every safety property of a passing run is stated by a theorem. No
module declares a RECURSIVE operator, and no proof needs induction over data: the counts of
`CronPage` are cardinalities, about which the library has theorems.

## 5. Findings

1. `agent/server.go:239`: the error path drops `RolledBack`; the status `rolled_back` of
   `docs/API.md` is never reached. (`rolled_back_status`)
2. `store/store.go:255`: recovery closes running rows only; a queued row can be orphaned.
   (`queued_orphan`)
3. `agent/webserver.go:285`: restore of a stale copy undoes another change of the path that
   had been reported as applied. (`web_lost_update`)
4. `config/config.go:116`: writers of `config.json` overlap without a lock, through one
   temporary name; a saved entry path is lost. (`entry_reverted`)

Documents that promise what the code does not have, recorded here without a run: the first
two do not say which alerts or sessions they are about, so a formula would be about a guess,
and no property of this project rests on the third.

* `README.md:21` lists a silence period (静默期) for alerts. `alert_rules` has `silence_seconds`
  (`store/store.go:85`) and the API stores it, but `evaluateAlerts` (`app/server.go:728`) never
  reads it: a rule made on the page has 300 seconds there (`main.tsx:1540`), and one that recovers
  and fires again within them alerts again. `NotificationsFollowSpells` states what is sent and when, without any silence.
* `docs/API.md:10` says that existing sessions can be revoked after credentials are changed
  (修改凭据后可撤销已有会话). `changeCredentials` (`app/server.go:222`) deletes no session, and no
  route revokes another's; only `reset-admin` on the command line does (`ResetRevokes`).
* `docs/API.md:8` asks for a csrf token on every request that changes state but login; logout
  changes state and is registered without (`app/server.go:80`).

## 6. Not modelled

* Edits that read a site file first (`configureWebsite`, `setSiteRewrite`,
  `injectTLSIntoSiteConfig`): they write through `applyWebConfig`, which `WebConfig` models for
  any content. What an edit loses because it read earlier is not stated.
* The login limiter, and the removal of TOTP, which no page calls.
* Delivery of notifications, and their settings: what is sent is modelled, not when it
  arrives.
* Metrics history: two SQL statements over timestamps, executed one after the other by
  one goroutine.
* Software, Docker, certificates and the installer: shell text run by package managers,
  docker, certbot and acme.sh, which hold the state. Their tasks are modelled as tasks.
* Terminals: who ends whom depends on the buffers of the pipe and of the proxy.
* Trees of directories, downloads, and the temporary file of an upload in the file manager.
* Of the browser: dashboard, websites, terminals, the panel domain wizard and the update
  page, which ask and submit in the ways the modelled pages do; texts and translations.
* Host detection and metrics collection, discovery of certificates and websites (parsing of
  command output and `/proc`), contents of generated configuration and compose files, build
  and release scripts.
