# A verification project for Renom

Renom is a game-server panel: one Node.js process with an Express and Socket.IO
front, a SQLite database, a local engine that runs each game server as a child
process, and a browser client without a framework. This directory holds TLA+ models
of the parts of it whose behaviour depends on order, timing and failure, the TLC
configurations that check them, and proofs of the most important results for TLAPS.

    tlc -workers 2 -config power.cfg PowerEngine.tla
    tlapm PowerEngineProofs.tla

## How the program runs, and what a step is

The panel is one JavaScript thread, and so is the page in the browser. Code between
two awaits is atomic with respect to everything else in the process, and every SQLite
call is synchronous. A step of a model is therefore one macrotask (an HTTP handler, a
timer, an event of a child or of a socket) up to its first await, or one continuation.
Awaits are where other requests, timers, clicks and exits come between, and the
interesting behaviour of the program is what is still true after them. The panel can
end at any step: by a signal, by an uncaught exception or by being killed. The
database and the disk stay.

## Inventory

| Component (under `src/apps/panel/src/server/`) | State | Operations | Hard behaviour | What makes it correct | Module |
|---|---|---|---|---|---|
| Local process engine (`modules/runtime/engine.ts`, `http/routes/power.ts`) | a slot per server: child, `stopping`; `servers.runtime_state` | start, stop, kill, restart, shutdown, exit event, stdin | requests share one exit event; timeouts race it; `finish()` is by server, not by child; panel crashes | one live child per server, none untracked, honest record and honest answers | `PowerContract`, `PowerEngine` |
| Server life cycle (`http/routes/servers.ts`, `modules/servers/repo.ts`, `index.ts`) | `servers.status`, `deleted_at`, variables | create, reinstall, switch software, suspend, unsuspend, delete, edit variables, boot reconciliation | background installs write the status minutes after their checks | no stuck server, no install beside a process or another install, suspension holds | `ServerLifecycle` |
| Schedules (`modules/schedules/runner.ts`) | rows with `is_processing`, `lock_until`, `next_run_at` | tick, claim, run, finalize, run now, create, edit, disable, delete | overlapping ticks with stale lists, lock expiry, unowned release, crashes | one run per schedule, no occurrence twice, edits kept, no lock for ever | `Scheduler` |
| Backups (`modules/backups/service.ts`) | rows, archive files, staging and displaced directories | create, restore, remove, retention, unlock | long awaits, crashes between file and row, concurrent restores | a listed backup has its file, a failed restore leaves the old directory whole | `Backups` |
| Allocations (`http/routes/allocations.ts`, `modules/servers/repo.ts`) | `allocations` rows, the port in `server.properties` | claim a free or a given port, assign, release, write the file | reuse of released rows, installs that write an old port, two notions of "taken" | one port per server, no port for two servers, the port the game reads is the row's | `Allocations` |
| Tunnels (`modules/tunnels/minekube.ts`, `http/routes/tunnel.ts`) | `tunnel.*` variables | reserve, install, compensate, disable, drop at a switch of software | await between reservation and compensation | one server per endpoint, a newer setting survives | `Tunnels` |
| Install operations and add-ons (`modules/runtime/install.ts`, `http/routes/addons.ts`) | files, `.part` files, `mcVersion` and derived variables, the version memo | resolve, download, verify, run an installer, record | jobs without a common lock share destinations; failures and crashes at any step; versions published meanwhile | what is in place is verified and whole, a ready server can run and knows its version, nothing is left over | `Install` |
| Access (`subusers`, `permissions`, `authz`, `users`, `auth`, `api-keys`, `http/console-gateway.ts`) | accounts, roles, password versions, tokens, keys, grants, sockets | set up, log in, authenticate, grant, remove, suspend, delete with transfer, join | awaits in login, cascades, sockets that keep the principal of their handshake | no access outlives its reason, nothing refers to an account that is gone | `Access` |
| Live console (`engine.ts`, `http/console-gateway.ts`, `public/app.js`) | history, run and sequence number; the page's log and watermarks | emit, join, replay, history read, reset | three channels, one lossy, answered in any order; restarts of server and panel; late output of an ended process | each line once, in order, of one console, none missing | `Console` |
| Stats sampling (`engine.ts`, `stats.ts`, `public/app.js`) | marks, `lastStatsState`, the page's graphs | sample pass, publish, adopt | await between reading and publishing; told once to whoever listens then | no dead process shown as running, no rate across two processes | `Stats` |
| Browser client (`public/app.js`) | URL, `currentServer`, `serverGeneration`, panes, the file editor | open, leave, refresh, answer, edit | every pane awaits while the user walks on | what is shown and saved is of the server and folder on the screen | `Browser` |
| Cron (`modules/schedules/cron.ts`), rate limiter, audit log, database and migrations, HTTP plumbing, blueprint data, scripts | | | mostly data, I/O or stateless code | | last section |

The components meet in few places: routes, the scheduler and suspension call the
engine; installs, backups and restores ask `engine.stateOf` before they touch the
directory; everything reads and writes the `servers` row; suspension, deletion
and revocation call the gateway to cut live subscriptions; the page hears of all of it
by answers and socket events.

The hazards of the code, each at its line, are in `PROJECT.json` under
"hazards", with the properties that cover it or the reason why none does.

## Modules

### PowerContract and PowerEngine

`PowerContract` is what is promised about the two power states a server has. `power`
is what requests are judged by, `stateOf()` in the engine: it moves only through
offline, running, stopping, offline. `shown` is what a person is shown,
`servers.runtime_state`, which the listings and the page report: starting, then the
same. A process begins only on a ready server that is offline by both; both are offline
together; stopping never turns back in `power`; a deleted server shows nothing. In
`shown`, stopping turns back to running in one case, and the contract says which: the
last line of `start()` writes "running" after its grace (`Settle`), also over the
"stopping" of a stop that came meanwhile.

`PowerEngine` is one server under `LocalProcessEngine`. Servers share nothing in
the engine but its Map, so one is enough. `proc` and `stopping` are the slot,
`runtimeState` the record, `alive`, `killed` and `children` the operating system.
`pc`, `op` and `on` say where each request is and what it waits for; `waiters` are
the exit listeners of the tracked child, in order, and `micro` is the microtask
queue. The queue is there because its order decides results: after one exit,
every woken caller resumes first in, first out, and each further `await` of a
caller costs it one more turn. `restart` needs two turns more than a plain
`stop`, a `kill` that resumes calls `finish()` again, and a suspension writes its
row one turn after its `kill`. No macrotask runs while the queue is not empty.

Abstracted: what a process prints, how it is asked to stop (it may obey or not),
why `start()` refuses (one failure), and the install statuses, which belong to
`ServerLifecycle`. `Launch` is the whole synchronous part of `start()`, `EndGrace`
what follows its 1.2 s grace. A spawn that fails later (ENOENT) is a child that
dies at once. Any process may die at any time.

### ServerLifecycle

One server row under everything that writes `status` and the version variable.
A job is a request that installs: it is idle, awaits its pre-swap backup
("backup"), or installs ("install" for creation and switch, "reinstall").
`asked` is what `persistInstalledVersion` gets as the requested version. Starting
and killing are one Boolean here; their own steps are in `PowerEngine`.
`disturbed` is a history variable for one property: a suspension, or a switch
that awaited its backup, came after a check.

### Scheduler

Schedule rows, ticks and manual runs. The clock counts ticks of 30 s and a tick is
named by the time it began, because `runDue` compares with that `now` as long as
it lasts. `due[t]` is what tick t selected and has still to look at, `turn` the
tick whose loop goes on in the present macrotask (nothing else runs meanwhile).
A run lasts until its last task ends or a failure stops it; what the tasks do, and
their order, is left out. `overrun`, `fired` and `downAt` are history variables.
`MCScheduler` declares the schedules interchangeable for the run `sched`: no action
or property names one of them, and the run checks no liveness.

### Backups

One server's backups, numbered in the order they were begun, which is that of
`created_at`. `row` and `locked` are the database, `file` the archives, `disk` the
server's directory and, per backup, the staging directory and the displaced copy of
a restore. A request makes an archive ("archive", then "sum" while it is hashed) or
restores one ("hash", "list", "extract"). `create()`'s last step, row, retention and
answer, is one macrotask; so is the swap. File operations are not transactions,
though: `EndsInSwap`, `EndsInRemove` and `EndsInRetention` are the same steps cut
short by the end of the panel, after any of their operations. Where they cut, and
that a directory is torn while it is being deleted or written, is the point of the
module.

Two restores of one backup use one staging directory. What happens to the one whose
directory is removed or moved away while its tar works there is the place "adrift":
its tar goes on, wherever its directory went. `twice` records that it came to this;
`cut`, `cutSwaps` and `told` are the other history variables.

Abstracted: archive names and their reservation (distinct numbers here), the
consistency label, which only a listing shows, what makes tar or a checksum fail,
and the check that the server is offline: it may become so, or not, at any time.
`MakeDir` is a start or an upload that makes a missing directory. Assumed: tar, a
child of the panel, ends with it; and an archive does not change on the disk
between its checksum and its extraction. Two backups begun in one millisecond are
ordered, which `ORDER BY created_at` leaves open.

### Allocations

`alloc` is the set of allocation rows that are not released, `file` each server's
`server.properties` as the sequence of its `server-port` settings, `installing` the port
that an install in flight read when it began and will write. A text may have no setting
or two; the panel reads and rewrites the first, the game listens on the last
(`PortRead`). `Assign` may fail to put the file in step, which its handler logs and
answers with success (`synced`); `EditFile` refuses a text only for its first setting,
as the editor's route does. `FreePorts` looks at the rows of one address, as
`claimFreePort()` does, and `PortTaken` at those of every address, as
`claimSpecificPort()` does; `Clash` is the rule of the assignment route, to which
0.0.0.0 is every address. `Create` with `dirMade` false is a creation whose directory
cannot be made and whose rows the same handler takes back. `auto` records which of
the two rules a row was claimed by, and `stale` why the file may have another port.

### Tunnels

`endpoint` and `provider` are the two variables of a server; a request reserves them,
awaits the plugin (`claim`), and on failure takes back what it wrote, by value. A
switch to software that does not take the plugin drops both (`SwapDropsTunnel`). `last`
says whether anybody has changed the tunnel since the reservation, `kept` which
endpoint the last successful change set. How a name is generated and what the plugin
is are left out: a name is any name, a download ends either way at any time.

### Install

An operation of a blueprint is a program, a sequence of small steps; nine blueprints
are given (`Blueprint`) and two add-on requests beside them. A step that awaits is an
action of its own: a vendor's answer, the start and the end of a download, an
installer, `venv`, `pip`. `part` and `place` are every destination and its `.part`
file; a stream follows its file when another download renames it (`writer`), as a
file descriptor does. `ctx` is the `InstallContext`: the version wanted, the one
resolved, and what will be recorded. `memo` is `latestMcVersionCache`, `released` how
many versions the vendors have published: a version and everything for it appear at
once. Of a file's content it is kept which version it is of, whether some of it is
missing, and whether two downloads shared it.

One install at a time is a premise here, because `status` refuses a second one; that a
suspension can break that premise is in `ServerLifecycle`. The rest of what a suspension
does is here: `Suspend` comes in any status, also during an install, which goes on;
an install that completes ends the suspension; and `Unsuspend` makes the row ready
whatever it was before (`servers.ts:897`), which `loose` records where the server was
not ready. What people do to the files is left out, except for removing an add-on.

### Access

Accounts with a role, a suspension, a password version (`version`) and the password
itself (`secret`); servers with owner and status; grants, API keys, logins between
verification and signature, signed tokens, console sockets. `Principals` is whoever
`authenticateToken()` accepts at this moment, so every request decides with present
data; a socket keeps what it had at its handshake, which is why the module is about
sockets most of all. Every route that cuts sockets does so in the step that writes the
row. A password is hash and version in two statements, which the command line puts into a
transaction and the routes do not: `EndsInPassword` is the panel ending between them. `lapsed` marks, for a property, what a socket shows by a grant that went with its
grantor's account.

Left out: names and e-mail addresses, hashing and signing, the lifetime of a token as
a number (it expires at any step), and changing a grant in place, which the code does
not offer.

### Console

One server's console from the engine to the page. The slot has a run number, a
sequence number and the last `HistoryLimit` lines; a join replays the last
`ReplayLimit` and streams from then on; a history read answers with the slot's lines
at one moment and is drawn at a later one. `wire` and `events` are the socket, which
delivers in order and may drop a volatile line; `wireFresh` and `joinAfter` are the
generations of `openServer()`. The page drops lines at or below `consoleSeq` and
empties its log when the run changes. A line carries the run that it was put in and the
process that wrote it (`of`): `emit()` is a closure that does not ask whether its process
is still the slot's, and the last output of one that has ended may come after the next
has begun. The user modelled has `control.console`; without it the page has no such tab
and reads no history. `lost` (the volatile lines that were dropped, which
stay away until the page loads again) and `unsettled` are history variables.

### Stats

The sampler's pass awaits its readers between two macrotasks (`SampleBegins`,
`SampleEnds`), while a process halts, ends and is replaced. `cpuMark` is the process
of the previous reading; the network's mark is set and cleared with it.
`lastStatsState` is one per slot, for all listeners; `others` is whoever else listens.
`label` is the process that the page's graphs show as running. `missed` records the
one case that is excepted: a page that joins again after the others had been told.

### Browser

The page follows one pane: panes share nothing but the navigation. A record says of
each of the sixteen who asks for it, with a generation or without (`asks`), what the
answer is compared with (`checks`), and when the list is emptied (`empties`). `calls`
are its requests in flight, answered in any order. Of the generation it is kept
whether it is still the newest. `late` are handlers that await a server's detail to
assign it to `currentServer`, `reading` the files that `openFile()` awaits.

### MCParts, MCAccess, MCScheduler, MCBackups

`MCParts` instantiates `Allocations`, `Tunnels`, `Install`, `Browser`, `Console` and
`Stats` in one specification. None of them reads what another writes, so a behaviour
follows one of them, its `subject`, and the others stay where they begin; the run
is six runs in one. `MCAccess` bounds `Access`. `MCScheduler` and `MCBackups` give
symmetry and bounds.

## Runs

| Run | Instance | Shows |
|---|---|---|
| `power` | 3 requests, 3 processes | `OneLiveChild`, `NoLostChild`, `RecordMatchesSlot`, `SuccessMeansDead`, and that the engine implements `PowerContract` |
| `power_live` | 2 requests, 3 processes, `FairSpec` | `RequestsEnd`, `StopsEnd` |
| `power_inert` (violation) | 2 requests, 2 processes | a suspended server with a live process |
| `life` | 3 jobs, 2 versions, `FairSpec` | `InstallingHasJob`, `UndisturbedInstallIsAlone`, `InstallSettles` |
| `life_torn`, `life_suspend` (violations) | 2 jobs, 2 versions | see below |
| `sched` | 2 schedules, 3 ticks, 1 manual request, lock of 2 ticks | `NoOverlapUnlessOverrun`, `FiresOnce`, `DisabledNeverFires`, `NextFollowsCron`, `OrphanLocksExpire` |
| `backups` | 2 requests, 2 backups, 1 kept | `ListedHasFile`, `DirNeverTorn`, `NothingLost`, `SuccessIsListed`, `KeepsNewest` |
| `backups_twice` (violation) | 2 requests, 1 backup | a restore that fails and leaves no directory |
| `access` | 3 accounts, 1 server, 1 key, 1 socket, 2 permissions | `WellFormed`, `PrincipalCurrent`, `StreamNeedsAccess`, `SessionsFollowPassword` |
| `parts`, ports | 2 servers, 2 ports, 3 addresses | `OneAllocation`, `ClashesAreAutomatic`, `FileHasOwnPort` |
| `parts`, tunnels | 2 servers, 2 names, 2 requests | `EndpointsKept` |
| `parts`, install | 9 blueprints, 2 versions, 2 installs, 2 add-on requests | `InPlaceIsWhole`, `ReadyIsRunnable`, `TidyWhenIdle` |
| `parts`, browser | 16 panes, 2 servers, 2 folders, 2 requests in flight | `PaneShowsOwn`, `PaneLoads` |
| `parts`, console | 2 processes, 3 lines, history of 2, replay of 1 | `ConsoleFollows` |
| `parts`, stats | 3 processes | `GraphsFollow` |
| `browser_editor` (violation) | 2 servers | the editor with another server's file |

Bounds. Three requests are the fewest with a stop, a kill and a restart waiting
for one exit; three processes let a restarted process be stopped and replaced
again. Three jobs let two installs overlap behind a third one's backup. Two
schedules and three ticks are the fewest with a tick that comes back, after a run,
to a row another tick has run in between; a lock of two ticks expires within the
bound. Two backups and one that is kept let a slow backup be purged by its own
retention, and a restore meet a purge, a removal or another restore; a request that
is over may begin again, so that two are enough for any number one after the other.
`MaxSpawns`, `MaxTime` and `MaxBackups` bound what grows without limit in the code;
they are guards of `Launch`, `Tick` and `Create` and take part in no property.

`access`: three accounts are the fewest with an owner of the panel, a grantor whose
account goes and a grantee who watches. `MaxVersion` bounds password versions (one
change is what a sleeping login can miss), `MaxSessions` the tokens and the logins
about at once. `FewChanges` keeps the run small: with three accounts, passwords and
keys stay as they were (roles and suspensions, which bump the version, too); with two,
everything happens, but no key is about while a password is half changed. Accounts are
declared interchangeable (`AnyUser`); no action or property names one, and the run checks no
liveness. The permissions are two, to connect and to manage grants: the others are
compared in the same way and nothing here depends on them.

`parts`: two ports on three addresses, one of them 0.0.0.0, make every relation of
two rows. `MaxInstalls` = 2 is a creation followed by a reinstall or a swap to any other
blueprint, with a version published in between (`TwoReleases`). Two add-on requests
overlap on one jar, with the search's memo; `FewAtOnce` lets them run beside a finished
Paper server and its reinstalls only. It lets suspensions come, and a reinstall repair
what an unsuspension leaves, while one version is out and nothing else excuses the
server. It keeps one late answer of the page in flight besides those of the pane followed
(`MaxCalls`), at most two events on a socket, no dropped line while the page is
unsettled, when nothing is claimed of it, and one late line of an ended process, the
second of the slot, while the page is settled and nothing was dropped. A
`server.properties` has at most two settings of the port, the fewest of which the first
is not the last.
`HistoryLimit`, `ReplayLimit`, `MaxSeq` and `MaxRuns` are as small as leaves lines
that a replay does not reach, lines that a history has forgotten, and a restart after
both; `StatRuns` = 3 is a restart under a pass that awaits, and another.

Fairness. `PowerEngine`: the event loop runs its queue, its timers and the exit
events, and SIGKILL takes effect; nobody has to ask anything and no process has to
obey. `ServerLifecycle`: an install and a backup end, because every download,
extraction and installer they run has a time limit in the code. All other modules
state safety only. What must eventually happen in them is stated of quiet states
instead: when nothing is in flight, the pane is filled (`PaneLoads`), the console is
complete (`ConsoleFollows`), the graphs are right or about to be told
(`GraphsFollow`), no partial file is left (`TidyWhenIdle`).

Several runs stop where a bound is reached, or where the panel or the user may stop:
they say `CHECK_DEADLOCK FALSE`.

### Where code and documentation disagree

Shown by a run:

* `power_inert`. Suspension kills first and writes the row afterwards. A restart
  waiting for the same exit resumes in between and starts the server again, whose
  row still says ready. The suspended server runs, against
  `http/routes/servers.ts:859-861`. Deletion has the same window.
* `life_torn`. `PUT software` asks whether the server is offline, waits for a
  backup, and installs without asking again.
* `life_suspend`. An install that completes writes "ready" over "suspended".
* `backups_twice`. Nothing keeps two restores of one backup apart (a person who
  does not see an answer and asks again is enough). The first to finish moves the
  staging directory into place; the second moves the directory just restored aside
  and its last rename throws. The server is left without a directory; its files are
  in `<id>.pre-restore-<backup>`, which the next restore of that backup deletes.
* `browser_editor`. `openFile()` fills the editor when the file's content is there,
  whatever server is current by then (`app.js:2396`), and saving goes to the current
  one (2414). `openServer()` empties the editor at the switch only (1206-1207).

Met while modelling, and stated as exceptions in properties:

* `NothingLost`: the comment at `modules/backups/service.ts:256-257` says that after a
  crash between the moves "the next restore (or the operator) recovers from it, nothing
  is lost". The next restore of that backup does not recover the displaced directory,
  it deletes it before it moves anything, so the property holds up to a second crash
  (`cutSwaps`). `ListedHasFile`: `remove()` deletes the archive before it marks the
  row, the order retention avoids at lines 281-283 (`cut`).
* `OrphanLocksExpire`: the lock of a crashed run expires after `LOCK_TTL_MS`, and the next
  tick runs the schedule again, as `runner.ts:10`, the comment at 190-191 and migration
  0003 say. The comment of the class (`runner.ts:34-36`) says the opposite: locks are
  released "only via explicit completion — a crashed run stays marked until an operator
  re-triggers it (visible, never silent)". The property states what the code does, which is
  what the comment says only of a schedule before that migration.
* `ImplementsContract`: a server stopped within 1.2 s of its start, whose process takes
  longer to end, is shown as stopping and then as running until it ends, because
  `engine.ts:482` does not ask; the power routes, which ask `stateOf()`, still say
  stopping.
* `NoOverlapUnlessOverrun`: a run may outlive `LOCK_TTL_MS`, and then a tick or a
  manual run begins a second one beside it, against `docs/features/schedules.md:23`
  ("Only one run happens at a time per schedule") and `runner.ts:33-34`.
* `ClashesAreAutomatic`: `claimFreePort()` looks at the rows of 0.0.0.0 only, so a new
  server may take a port that an administrator has assigned on another address, and
  the index it relies on (`repo.ts:206-207`) does not see it.
* `FileHasOwnPort`: an assignment whose `server.properties` cannot be written is answered
  with 201 and a line in the log (`allocations.ts:165-170`), and the game goes on listening
  on the old port. The editor lets a file through by its first `server-port`
  (`files.ts:141-143`), of two settings the game takes the last: the guard against a desync
  that `files.ts:136-139` describes does not see it.
* `EndpointsKept`: two requests of one server that await with the same endpoint are one
  to the compensation, which deletes by value; "ONLY the one this request wrote"
  (`tunnel.ts:126-128`) does not hold then.
* `StreamNeedsAccess`: deleting an account takes the grants that it had given to others
  with it, but cuts only its own sockets; the collaborators' streams go on until they
  reconnect, although the gateway says removal of a collaborator cuts
  (`console-gateway.ts:18-21`).
* `ReadyIsRunnable`: `unsuspend` writes "ready" over whatever there was before the
  suspension (`servers.ts:897`), also an install that failed, or that a restart of the
  panel cut short after the suspension had hidden it from the boot reconciliation; the
  server is offered for a start without its files until an install succeeds.
* `ReadyIsRunnable`, too: a reinstall takes a pinned version as one the request asked for and
  writes it back unconditionally over an edit made meanwhile (`routes/servers.ts:107-108`,
  against 85-86 and `repo.ts:318-320`); a swap that names no version keeps a row that
  says "latest", which is then never resolved to what was installed.
* `InPlaceIsWhole`: two add-on requests, or one and an install, share a `.part` file, and
  what the second writes goes on into the file the first has put in place.
* `TidyWhenIdle`: a refusal for want of a digest leaves the `.part` file, an archive that
  does not extract stays (Bedrock, PocketMine), a Python environment made earlier stays
  when its interpreter's probe fails and is then the one the engine launches.
* `SessionsFollowPassword`: between `setPassword` and `bumpPasswordVersion`
  (`users.ts:72-73`, 201-202) there is no transaction; if the panel ends there, the old
  password is gone and the sessions that were signed for it stay valid until the next
  change of the account, against "old sessions die with the version bump" (197-199).
* `ConsoleFollows`: late output of a process that has ended is put into the console of the
  next (`engine.ts:365-376`), although "a new process means a new console" and "a restart
  starts from zero" (355-357): the page shows the slot's console faithfully, and in it
  lines of two processes.
* `ConsoleFollows`, too: after a restart of the panel the engine counts from zero again,
  although the page relies on a counter that never does (`app.js:1781-1785`); and a
  page restored from the browser's cache reads and joins at the same time (1882-1883).
* `GraphsFollow`: a page that joins again after the other listeners were told of an end
  is not told, and goes on showing the process as running, which the comments at
  `engine.ts:617-620` say cannot be.
* `PaneShowsOwn`, `PaneLoads`: callers that pass no generation paint superseded loads
  (against 1248-1249); a handler that awaited a server's detail moves `currentServer`
  back to it, so the newest navigation does not own the view (1185-1186); the activity
  feed stays blank when a server is opened again before its first answer (3932-3936);
  the files tab that is opened while a folder loads mixes the two (1576); the
  administration forms keep the earlier fields until the answer is there.

Read, but not modelled: the dialogs of a software swap and of an add-on stay open
across the Back button and confirm for whatever server is current then (`app.js:3104`,
3341, 3360), and the late answer to a deletion leaves the server that was opened
meanwhile (3740-3744). An empty bound of a range in a cron field (`-5`)
counts as zero; `nextRun()` gives up after five years, which a 29 February
schedule exceeds between 2096 and 2104. `tunnel.provider` stays after a failed claim;
a failed change of an endpoint destroys the earlier one; endpoints of deleted servers
stay taken; an account that owns a deleted server cannot be deleted. Expiry of a token
or a key, and a password reset from the command line, cut no open socket. The comment
at `install.ts:117-118` names operations as unwired that are not.
`docs/features/servers.md:10` says that a creation claims the next free port starting
at 25565, which is one case of two.

## Proofs

Every invariant and action property of the passing runs is proved for every value of
the constants; what is left to TLC alone is liveness. Eight modules hold the proofs. Each
component has an inductive invariant, checked by TLC before it was proved, from which
its properties follow.

`PowerEngineProofs` proves for any set of requests and any number of spawns the
type invariant and all safety properties of the run `power`, including that the
engine implements its contract. `OneLiveChild` is not inductive by itself: nothing
in it says why the second `finish()` of a kill cannot clear the slot of a process
that a restart has just started. The argument is in `IndInv`: whoever waits, waits
for the tracked process (`WaitInv`); an exit moves all waiters to the queue, which
is empty then, and everything they queue again lies behind them, so while a
freshly woken caller is in the queue the slot is empty (`QueueInv`); and what a
continuation waited for is dead (`DeadInv`). `SlotInv` ties children to the slot. That
the engine implements its contract needs `RecordMatchesSlot`, which makes the two states
offline together, and `StopInv`, that a process somebody waits for is being stopped: it
is why a kill that gives up shows "stopping" over nothing else.

`ServerLifecycleProofs` proves for any number of jobs and any versions that no row
is stuck in "installing" and that an undisturbed install is alone; `AloneInv` says
why: while nothing disturbed it, an install in flight shows in the row's status.

`SchedulerProofs` proves for any schedules, any number of overlapping ticks and
manual requests, any periods and any lock time: types, `NoOverlapUnlessOverrun`,
`OrphanLocksExpire`, `DisabledNeverFires`, `FiresOnce` and `NextFollowsCron`. The lock in a row names
no owner, so nothing in `NoOverlapUnlessOverrun` says that a run's end releases
its own lock; `LockInv` adds that without an overrun the lock in the row is the one
its run took, and outlasts the clock, hence what can be claimed is not running
(`ClaimAlone`). `TurnInv` says that no tick compares with a time ahead of the clock,
`HorizonInv` that no lock reaches further than its TTL from now, and `FiredInv` that
an occurrence stays in the row only while its tick runs it, which makes a second
claim of it an overlap. `OnlyClaimsBegin` gives the action properties: only a
successful claim begins a tick's run. `NextFollowsCron` rests on one fact, that what
`NextRun` computes is a multiple of the period and not zero (`NextRunMatches`).

`BackupsProofs` proves for any number of requests, backups and kept backups: types,
`ListedHasFile`, `DirNeverTorn`, `NothingLost`, `SuccessIsListed` and `KeepsNewest`. Rows and
archives are one part of the argument: a backup in the making has no row and a
number of its own (`MakingInv`, `NumberInv`), so nothing but its own request touches
its archive until the row is written. Directories are the other. `DirNeverTorn`
says nothing of why the staging directory that is moved in is complete; `StagingInv`
does: unless restores of one backup overlapped, it has one user, it is there, and its
archive is sound, because none rots after its checksum. `HomeInv` adds that the
server has its directory as long as no crash cut a swap, so that what a first crash
leaves aside is whole. `SwapFields` follows a swap operation by operation. `KeepsNewest`
counts: a row may be purged when as many newer unlocked ones are there as are kept. Those
newer than the newest that may go all stay, so every purged row leaves that many behind it
(`NewestAreKept`).

`PortsProofs` proves for any servers, ports and addresses the three properties
of ports. `RowInv` says that a live server has one row and no other server any;
`PortInv` ties the last setting of the file and the installs in flight to it. That a search finds a free
port rests on `MinIsElement`, that the least of a set of numbers is one of them, which
follows from the well-foundedness of inclusion among finite sets.

It proves `EndpointsKept` for any servers, names and overlapping requests.
Compensation by value is right because of `TunnelClaimInv`: the request that was the last to
change a tunnel still has what it reserved, and no other request that waits would find
that value, nor the one that was kept; without two that share an endpoint, by value is
by owner. A switch of software that drops the tunnel under an awaiting request leaves the
compensation nothing to find.

`AccessProofs` proves for any accounts, servers, keys, sockets, permissions and scope
sets that the rows are well formed, that a socket's principal is current, that a stream
has a right to it, and that sessions follow the password. `TokenInv` strengthens the
last: what a login or a token has read is never newer than the account, and of the
present version it has the present password, unless a change of it was cut in two; this
is what makes a version that moves with every password enough while logins sleep. `Current` and `Watches` are the two
socket properties, socket by socket; they need each other, because a right is decided
with the role that the socket keeps. Every step either cuts the socket, or keeps its
holder and rights (`CurrentStep`, `WatchesStep`), or adds rights: a grant given where
there was none (`GrantStep`) or a server inherited (`OwnersSeeMore`). `FreshInv`, that
an account that does not exist is not suspended, is why the first owner can sign in.

`PageProofs` has the three parts of the page. It proves `GraphsFollow` for any number of processes and of frames on their
way. A page that has received everything is a special case of one that has not: every
claim, on the page or in a frame, that a process runs, is of the latest run or is undone
by a later frame, and if it is false, it is undone or the sampler has not told the end
yet (`LabelInv`). `Named` says that a frame's process is the run the page will have seen
by then, so that a reset does undo what came before it, and `Announced` that the sampler
has not told the end of the process in the slot.

It proves `ConsoleFollows` for any limits of the history and of the replay, any number of
lines and of restarts, and any order in which the three channels answer. The page's log
is built by a fold over what an event brings; `LineAppended` and `LinesPainted` say what
a fold leaves, by induction over its length (`Induction`, from the finite sets of the
library). `SlotInv` says that the slot numbers the lines of its console without a gap,
whichever process wrote them, `ReadInv` that an
answer on its way holds a stretch of them that ends no later than the slot, `PageInv`
what the watermark means: of the log's console, every line at or below it that the slot
still has is shown or lost. `StreamInv` relates page and slot across the events in between:
after the last of them the page is where the slot is.

It proves `PaneShowsOwn` and `PaneLoads` for any servers and folders, any number of
requests in flight and all sixteen panes. What the table of panes promises is taken apart
once (`PaneFacts`); then each request in flight, if it may paint, would paint what
belongs on the screen (`OwnServer`, `OwnFolder`), and as long as the pane is empty there
is one that will (`LoadInv`). `LiveInv` says that an answer which passes the page's check
for stale loads is for the server on the screen, unless loads of it overlapped.

`PartsProofs` proves the properties of the installs, for any of the nine blueprints, any
versions and add-ons, and any number of add-on requests, which interleave with the
install at every step. The argument has four parts.

* `ProgramInv` says what is left of a program: what follows what (`Follows`), and that
  a version is resolved before a step that needs one (`Versioned`). That each blueprint's
  program begins this way is `BlueprintInstalls`, operation by operation; that a step
  leaves a rest of the same shape, `RestShaped`.
* `DownloadInv` is why what is in place is whole: a stream to a `.part` file that is not
  shared is its only writer, so a rename takes nobody along; and the install's files are
  nobody else's. `FetchedWhole` and `EnvInv` follow the files through every step.
* `LeftInv` gives whatever is left over a reason: a writer, an install that is about to
  unpack or to drop it, or one of the exceptions. `TidyWhenIdle` is the case without jobs.
* `FetchInv` and `PipInv` are what makes a ready server run. While an install has
  neither failed nor been disturbed, each file that its server launches is still ahead of
  it, or in place and of the version that it got; the same of the variables it is to
  note; and the version it got is the one that `persistInstalledVersion()` will write
  (`Agree`). At the end nothing is ahead: the server is runnable. `Sound` is when this is
  argued, also under a suspension that came during the install, and `SettledInv` says
  that a suspension keeps what a ready server has, so that the end of one may make it
  ready again; with `loose` for the rest, that is `ReadyIsRunnable`.

It ends with the composition: `PartsInvariant` has the six inductive invariants in one,
and `PartsTypeCorrect` the types.

Assumptions. `MaxSpawns` is a natural number (`PowerEngine`); periods and the lock time
are positive and ids do not collide (`SchedulerAssumption`); at least one backup is
kept; the automatic range is within the ports, which are numbers
(`AllocationsAssumption`); the names for "none" are none of the things
(`TunnelsAssumption`, `AccessAssumption`, `BrowserAssumption`); "*" is not a permission
(`AccessAssumption`); a replay is of one line at least and no longer than the history
(`ConsoleAssumption`); no add-on has the name of a file of the blueprints, whose directory
is another (`InstallAssumption`); the other bounds are natural numbers. TLC evaluates all
of them.

Only model-checked: liveness under fairness (`RequestsEnd`, `StopsEnd`,
`InstallSettles`), for which TLAPS has no rule here.

## Plan

1. `Scheduler` composed with `Backups` and the server's status, for tasks that go on
   after a suspension; an abstract specification of backups, a list of restorable
   archives, that `Backups` implements.
2. `Cron`: `parseField`, `dayMatches` and `nextRun` against a declarative reference.
3. The dialogs of the browser client; the budget of `console:send`; the migration
   runner and blueprint seeding.

## Not modelled

Cron expressions: a pure function over calendar dates, of which `Scheduler` uses that
the next occurrence is later. The rate limiter: fixed windows per address that change
no other state. The audit log, which only the activity page reads. Migrations: each
statement is atomic and durable, which every module assumes, and the initial states are
those of the schema. Hashing, signing and TLS. Reading `/proc`. The add-on catalogue's
search, a proxy. The schema of blueprints and their seeding; files other than
`server.properties`, each one file system call under a path check. Logging,
configuration and the error handler. `install.sh`, `renom.sh` and the command-line
tools, except for the one that makes the first account. Of the browser client dialogs,
forms and drawing. The tasks of a schedule's run, the names of archives, commands
written to a server's stdin. Whether children outlive the panel is left open, as it is
decided by the service manager.
