# A verification project for the Valheim server manager

The repository is a web application (`src/vhsm`, Python, asyncio) that runs
several Valheim dedicated servers on one host: it starts and stops them, keeps
their configuration, mods, worlds and access lists, updates the game through
steamcmd, watches who plays, and talks to Discord. This directory holds TLA+
models of it, the TLC runs that check them on small instances, and proofs that
TLAPS checks for instances of any size.

`PROJECT.json` is the index: components, runs, the source lines of every
definition (`map`), the faulty variant each property detects (`mutants`), the
hazards, and the theorems.

## 1. The system

Everything runs on one asyncio event loop in one process. A step that does not
await is atomic; what interleaves are the tasks at their awaits, the worker
threads of `asyncio.to_thread`, and the game servers, which are processes of
their own. Of the manager nothing but files survives a restart. The servers are
stopped when it shuts down, and none is started by itself; but they have sessions of
their own (`start_new_session`, `supervisor.py`), so that they go on when it is killed,
unless the container goes with it. No later manager knows of such a server, which is
called a stray here: its instance is listed as stopped.

| Component | State | Operations | Hard behaviour | What makes it correct |
|---|---|---|---|---|
| `supervisor.py` | status, process handle, log pump, lock, exit code, error | start, stop, restart, reap, drain | calls of several tasks, a cancellation at any await, a late reaper, a grace period, stdout held open | one server at a time; an inactive status means no process; a stop that returns is final; every call returns |
| `manager.py`, lifecycle | one operation per instance, one job (`JobLog`), the maintenance flag | submit, delete, run_update, run_mod_update, shutdown_all | operations pending when a job begins, failures half way, deletion, shutdown | what a job takes down comes back; nothing is left running or orphaned |
| `manager.py`, sampler; `discord/announce.py` | listening, query endpoint, announced build and mods; StateWatcher's memory | sample_once, probe_instance, _announce_what_changed, observe | what was probed earlier decides now | a restart by hand is announced, one for an update is not; news is told once |
| `manager.py`, scheduler; `util.daily_due` | the day each check last ran, the catalogue, the pass | _scheduler_loop, run_mod_update, ensure | a day marked before the work, failures, restarts, settings replaced meanwhile | each day's check is made once; its catalogue is current or said to be old |
| `manager.py`, registry; `instance.py` | records, `instance.json` per directory | load_all, create, update, clone, import, delete, save; the bot's migration of channels | a clone awaits a copy of gigabytes; directories left behind; a save fails | running servers have disjoint ports; a channel belongs to one instance; a restart brings back what was |
| `playerlists.py`, `web/api.py` | banned, permitted, parked list, `tempbans.json` | kick, ban, unban, add, remove, switch on and off, reconcile | a kick is two writes, its end two more; each may be cut short | a ban stands, a kick ends, the whitelist is on only by hand |
| `events.py`, `discord/announce.py`, `bot.py`, `rest.py` | a queue per subscriber; keys already said; the bot's tasks and clients | publish, pump, handle, request, start, stop, reload | a full queue, failed posts, a stop while something is being posted, two saves at once | a key is said once; what arrives is in order; nothing blocks the pump; a stopped bot leaves nothing behind |
| `discord/gateway.py`, `bot.py`, `commands.py` | session, sequence, heartbeat, guilds with commands | identify, resume, heartbeat, resolve guilds, register commands, answer | a lost session, a silent connection, a registration beside a save | events are handled once and in order; menus match the settings; the client comes back |
| `monitor/players.py`, `roster.py` | sessions waiting for a name, rows; entries and a dirty flag | observe_log, observe_query, reset; observe, set_note, forget, save | names matched by order; a save in a thread while the loop observes | a row's name is its player's; the roster keeps everyone who was here |
| `mods/profile.py`, `web/api.py` | `mods.json`, the mods' files, a copy of the manifest per request | install, update all, check, import, switch, remove, clean up | every request has its own copy of the manifest and awaits downloads; a chain of installs fails half way | files are as recorded; no mod is without what it needs |
| `mods/cache.py`, `thunderstore.py` | packages on disk, catalogue | ensure_cached, store_upload, clear_cache; ensure | a shared partial download and staging directory, a removal beside a thread | what is handed out is the whole package |
| `worlds.py`, `backups.py` | world files, snapshots | snapshot, prune, restore, delete, install | sequences of file operations, in a thread, broken off or beside a start | there is a way back to every world that was replaced; no server loads half a world |
| `web/*`, `steam.py`, monitors | | | requests that change one of the above, I/O, parsing, layout | the order of their effects is part of the modules above |
| `mods/config.py`, `logspam.py`, `diagnostics.py`, tools | | | | not modelled, see section 7 |

How they interact. Web handlers and Discord commands call `submit`, which makes a
task that the manager owns; that task, the two jobs, `delete` and `shutdown_all`
call the instance's `Supervisor`, whose lock serialises them. The log pump feeds
every line to hooks: the player tracker, which feeds the roster and the event bus.
The sampler takes a snapshot of every instance on each tick, ends maintenance
windows, lifts kicks, and hands the snapshot to StateWatcher, which puts events
on the bus; the bot's pump takes them off and posts them. The scheduler takes
automatic snapshots, saves rosters in a thread, and begins the daily jobs, which
read the catalogue and fill the cache that all instances share.

How the models compose. Supervisor, Maintenance and Updates are views of the same
lifecycle at three distances: one process in full; one instance with its audience;
several instances with one job. Supervisor is shown to implement
`InstanceLifecycle`; of Maintenance and Updates it is proved that they move an instance
only as `InstanceLifecycle` allows (`LivesAsPromised`, `LiveAsPromised`), so that what
they assume of a supervisor is what Supervisor provides. Nightly extends
PackageCache: the scheduled checks, the installs and the requests on the cache act
on one entry of it. What Nightly's checks do to an instance's files is in Mods, and
what they do to its server in Maintenance.

## 2. Modules

A step of a model is the code between two awaits, and in a thread between two file
operations that something else can see. Names are the source's where TLA+ allows it.
Variables marked `history` are not in the code; they record what a property has to
remember. Definitions whose comment begins "Faulty variant" are used only as mutants:
they are what a plausible bug would look like, and TLC finds the property violated
when one replaces the definition after it.

**InstanceLifecycle** - what `start`, `stop` and `restart` promise: a status, and
whether a process exists. It has six steps, each a change somebody outside can
see. Nothing in it mentions tasks, handles or pumps.

**Supervisor** - the process side of `supervisor.py` (not its console buffer and
transcript). `status`, `process`, `pump`, `exit_code`,
`last_error`, `server_version` are the object's attributes, a launch being a
"run"; `pc`, `op`, `handle` say where each calling task is suspended and what its
local `process` holds; `proc` and `reader` are the operating system's process and
the pump task of each run. `StartBegins`, `Forked`, `Launched`, `LaunchFails` are
`start`; `StopAsks`, `StopObeyed`, `GraceExpires`, `Drained` are `stop` with its
timeouts; `PumpOpens`, `PumpLine`, `PumpEnds`, `Reap` are `_pump_output` and
`_reap`; `CancelStart`, `CancelStop`, `CancelWaiting` are
`InstanceManager._cancel_operation` hitting a task at each of its awaits.
`faults` says what is wrong with the host, once and for all: a child that holds
stdout, a process that SIGKILL does not end in ten seconds, a log directory that
cannot be made.

**Maintenance** - one instance, the operator's operation (`op`), the update or
mod update (`job`), the sampler (`Query`, `Probe`, `Tick`), a page that probes
(`PageProbes`) and StateWatcher. `listening` and `endpoint` are what the last probes
found, which is why they can be wrong: nothing but a probe resets `listening`, and the
next server may bind before one has come. `Tick` is one action because no await separates
the snapshot, `_announce_what_changed` and `StateWatcher.observe`. `StartEntered` is
refused, goes on, or raises and leaves the status as it was, as it does for a binary that
is missing or a directory that cannot be made; `debt` is what a job still owes to the
instance it took down.

**Registry** - `records` is `InstanceManager._records`, `disk` the `instance.json`
of each directory, `copies` the clones that await their copy, `bound` the port a
running server was launched with (`update` refuses to move the port of an active
instance, but `load_all` reads whatever the file says). `Restart` is `load_all` after
the end of the manager, which may leave any of its servers running (`strays`, until
`StrayExits`); `CloneCutShort` and the imports, which fail while extracting
(`Extracted`) or later, leave directories behind. `BotStart` gives the default channel
of the settings of earlier versions (`legacy`) to instances and takes shared ones away.

**Moderation** - the three files and the two places that write them. Each handler
is one action with a choice of how far it came, since it does not await but may
be cut short after any write. `ListBan` is the list page, which adds a ban without a look
at `tempbans.json`. `Toggle` is the switch of the whitelist.

**Updates** - several instances, one update, the operator's operations, deletions
and the shutdown. Of each supervisor it keeps the lock and the status; `call`
says for each caller (operation, job, delete, shutdown) whether it waits for the
lock or holds it. An update comes from a button, from the installation of the server,
or from the schedule; only the last is owned by somebody. `SteamcmdEnds` is the end of
the download, which may never come. `JobCancelled` is the cancellation of the scheduler
by `stop_background`, at each await of the update, including the one that swallows it.
At most one deletion of an instance is under way at a time, and the mod update is left
to Maintenance.

**Discord** - the event bus, the pump and the announcer, the attempts of a post,
and the requests (`savers`) that start and stop the bot: `SaveSettings`, `SaveToken`,
the start and the shutdown of the application. `bot` holds the attributes of
`DiscordBot`; what start number g makes (a RestClient, an Announcer, a gateway, a
queue, two tasks) is called g, and 0 is None. `Publish` is `EventBus.publish`;
`PumpBegins` to `PumpPosts` are `_pump` and `Announcer.handle` up to the await of a
post; `Posted`, `Refused`, `PostFails` its outcomes, a lost answer among them;
`PumpDies` the end of a cancelled task. `GatewayStopped`, `GatewayGone`, `PumpGone`,
`Closed` are `stop` from await to await, `Asks`, `Answered`, `Unanswered`, `Disturbed`,
`GivesUp` the rest of `start`. `ReloadFails` is a save of the settings that fails when
they have changed in memory: the switch has moved, and nothing is started or stopped.
Which events have a channel is left open (`PumpSkips`);
the gateway is a task that runs until it is cancelled, ends, or has its token refused.

**Gateway** - inside that task, and the interactions that come out of it. `client` is
`GatewayClient` (its session, its sequence number, whether the last heartbeat was
acknowledged), `link` the socket, `discord` what Discord remembers of a session: that is
external, and modelled by what the client relies on. Reading stops while a handler runs
(`handling`), as in the code. `passes` are the runs of `_register_commands`, one of the
READY handler and one of each request that saves settings: guilds are looked up, then
commands registered, then removed, and settings may change at each await. `Answer` is
the router: about which instance a command in a channel is answered.

**Presence** - the tracker's rows and its queue of connections without a name, the
names a query has told, the roster in memory and in its file, and a save in a thread in
four steps (`SaveBegins`, `SaveCollects`, `SaveWrites`, `SaveEnds`). `phase` is what the
players really do, and an action is a line of the console, as `Spawns` or `Leave`, with
all its effects on the tracker and on the roster. A save keeps the `MAX_PLAYERS` entries
that were seen last (`Truncated`); how many there are besides those of the model is left
open, so that any of these may be dropped. `ManagerRestarts` saves what is dirty,
`ManagerDies` does not. A stray may answer the query in the place of a new server.

**Mods** - the mods of one instance. `manifest` is `mods.json`, `files` what is on
disk of each package: a version under its name, one under `.old`, both or neither.
A request is a handler with its own `ModProfile`: `copy` is `_mods` as it was read
when the request began, `left` the rest of the chain that `_resolve_chain` gave,
`wishes` the packages still to be given to `install_by_name`. `InstallsOne` is the
code between two downloads of `install`, `ImportReplaces` all of
`replace_from_export` after the last download. `Toggle`, `Uninstall` and `Prune` do not
await. Files that cannot be removed are passed over (`stuck`): they stay although the
entry goes, or beside those of the new version. A switch renames one file after the other
and may stop between them (`StopsHalfWay`, `ImportStops`). `Fails` and `Breaks` end a
request at a download and in the copying of files, `ImportUnsaved` and `StopsHalfWay` also
where `mods.json` cannot be written, and `Crash` anywhere. The files of a package are taken
together; one whose files are in part renamed has both (`Split`).

**PackageCache** - one version of a package: the partial download (`part`), the staging
directory, and the entry, which counts once it bears a marker. A fetcher is a task in
`ensure_cached`; files are known by their path, and `linked` says whether the one a
fetcher has open is still there under its name.

**Nightly** - the scheduler's pass over the instances on several days, a check by hand,
and the catalogue in memory and on disk with its lock, on top of PackageCache. A day has
three parts: before the hour, due (`daily_due`), after. `CheckBegins` marks the day,
`Retries` puts it back, `Escapes` is an exception nobody catches. `BackgroundLoad` and
`Refresh` are the pages that read the catalogue; `SavesSchedule` replaces the settings a
pass has in hand. The server's own update has the schedule of an instance whose check
never has to be tried again.

**Worlds** - the worlds of an instance as files, each of which holds the number of the
save or upload it comes from; snapshots; and workers: "loop" is a handler that runs on the
event loop, where nothing else runs until it returns, "scheduler" the thread of
`_auto_snapshot`, and each upload has a thread of its own. A worker goes file by file
through copying what is there into a snapshot (`copy`, `list`), removing (`remove`) and
placing (`place`); any step may fail, and `Kill` ends them all. A restore copies what is
left of the snapshot when it comes to each file (`Sources`, `Finds`): a prune in its thread
may have removed it, and a `.fwl` that is not there is passed over. The server writes its
world when it likes, and goes on doing so as a stray when `Kill` spares it (`StraySaves`,
`StrayWrites`, `StrayDies`).

`*Proofs` hold the theorems of the modules they extend. Two of them are about several:
PlayersProofs about Moderation, Presence and Maintenance, DiscordProofs about Discord
and Gateway, each in a part of its own. These modules share no variable; because they
are extended together their specifications bear prefixed names (`GatewaySpec`,
`PresenceSpec`, `MaintenanceSpec`). `MC*` define the values of constants, the symmetries
and the bounds for TLC.

## 3. What TLC checks

| Run | Question | Bounds |
|---|---|---|
| `supervisor` | Do interleaved starts, stops, restarts, crashes and cancellations keep one server, its handle, final stops and the abstract lifecycle? Does every call return, and is an exit noticed? | 2 tasks, 2 launches, a host with at most one fault (`OneFault`) |
| `maintenance` | Do both jobs bring the instance back, is a restart by hand announced, is news told once, and does an instance come out of its maintenance window? | both jobs, 2 mod sets; 0.24 million states |
| `maintenance_held_back` | Is the update's own restart never announced? It can be. | update job; counterexample |
| `registry` | Are ports and channels disjoint, directories and memory in agreement? | 3 ids, ports 1, 3, 4 of a range of two each, 1 channel, `OneFault`, `FirstStart`, `SomeSure` |
| `moderation` | Does a ban stand, is nobody left banned by a kick, does a kick end? | 2 players |
| `presence` | Does a row bear its player's name, and does the roster keep everybody? | 3 players, one by crossplay, 3 names, `SomeClear`, `SaveApart`; 1.9 million states |
| `updates` | Does what the update took down come back, does nothing run on after the shutdown, is nothing orphaned, does the shutdown end? | 2 instances |
| `discord` | Is each key said once, in order, does no event hold up the next, is nothing forgotten by saves, which may fail, and by stops? | 2 requests, 2 starts, 2 events, a queue of 1, 2 attempts, `FewWhenOverlapped` |
| `gateway` | Are events handled once and in order, do menus match the settings, does the client come back? | 2 instances, 2 guilds, 1 request beside READY, 3 sessions, 3 events, 2 upsets; 1.1 million states |
| `mods` | Do files and `mods.json` agree, and is no mod left without what it needs, whatever overlaps, fails or crashes? | 2 requests, 3 packages, one in 2 versions of which the second needs another package, `Bounded` |
| `nightly` | Is the package that is handed out whole, is each day's check made once, is its catalogue current or said to be old? | 2 instances, 2 days, 1 file, the schedule and a check or install by hand, 2 upsets, `FewAtOnce` |
| `worlds` | Is there a way back to every world that was replaced, is a listed snapshot complete, does pruning spare what it must, does a restore do as it was asked, does no server load half a world? | 2 names, 2 files, 1 upload, 1 automatic snapshot kept, 2 saves, 3 snapshots, `Bounded` |

Why the bounds are enough for the hazards in view. Two tasks and two launches
give a stale pump and reaper beside a current run, with one task at the lock and
one waiting. Two instances give an update with one instance
down and the other still to be taken, or still to be started. Three ids are a
source, its clone and a third that takes the port meanwhile; the ports 1, 3, 4
with ranges of two make a pair that overlaps and pairs that do not, and the walk
of `_free_port` wrap. Two requests and two starts give a pump and a client that
outlive a stop beside their successors; two events in a queue of one give a
dropped one, a repeated key and an order. Two mod sets make news old and new. Three
players are two who cannot be told apart and one who can. Three sessions are the
first, one lost and one lost again; three events are READY, one handled and one in
doubt; two upsets are a failure and a failure of what should have mended it. Two days
are a day marked and the next; two instances a pass that has one behind it and one
before it. Three snapshots are one that is pruned, the one that is kept and the one
that a restore takes of what it replaces. The proofs of section 5 do not depend on any
of these bounds.

Bounds that are part of a model: `Runs` (launches in a history), `MaxMods` (changes
of the mod set), `MaxStarts`, `MaxEvents`, `MaxSessions`, `MaxUpsets`, `MaxDays`,
`MaxSaves` and `MaxSnaps`. Bounds of the runs alone are constraints, defined in the
MC module of each:

- `OneFault` (MCSupervisor): a host has at most one of the three faults.
- `OneFault`, `FirstStart`, `SomeSure` (MCRegistry): one directory left behind, one lost
  save or one stray at a time; before the bot has migrated the settings of an earlier version there are
  no copies, no directories left behind and no servers; and what follows once two of the
  three instances are exceptions to the rule about ports is left to the proofs.
- `FewWhenOverlapped` (MCDiscord): requests that overlap are explored with one event
  and while the bot stays on, which also means that `PumpGoesOn` is checked there on
  these behaviours only.
- `Bounded` (MCMods): what follows the first package in doubt, or the first import, is
  left to one request, and two packages are changed behind the back of a request. Two
  requests that begin together, with each other's installs, switches, removals and
  failures in between, are within it. `Newest` bounds the releases and `Asked` what is
  asked for by name (one mod; the others come as dependencies).
- `SomeClear`, `SaveApart` (MCPresence): one player at least was never confounded with
  another; no answer of the query is on its way during a save.
- `FewAtOnce` (MCNightly): what happens beside a download, with two at once, and on the
  second day.
- `Bounded` (MCWorlds): what follows once two have changed one world at once is left
  out, since no property speaks of it; one snapshot deleted by hand, one world left in
  disorder, or one stray.

Symmetry is used in `registry`, `mods`, `presence`, `nightly` and `worlds`, none of which
checks liveness. `updates`, `discord`, `gateway` and `nightly` switch off the deadlock
check: the first three stop for good when the manager is gone, the token or the
connection is refused for good, and the last when its days and upsets are used up.

One run refutes what the repository says of itself; it is the `finding`:
`ManagerRestartHeldBack`. A tick during the stop of an update sees an active
status, the last probe's `listening` and the endpoint kept until the next
start, and ends the maintenance window; the restart is then announced although
README.md says it is not.

### Disagreements that are exceptions in the properties

Met while modelling, and spelt out in the properties (most of them as a history
variable, in parentheses) rather than given a run of their own.

*Lifecycle.* `stop()` gives up ten seconds after SIGKILL and returns with the status
at "stopping", although its docstring (`supervisor.py:339`) promises a final status;
`StopIsFinal` is about hosts where SIGKILL works. An update started from the web is not
awaited by the shutdown (`outlived` in Updates), a start that waits
while its instance is deleted goes on (`behind`), and a scheduler that is just
awaiting a cancelled operation misses its own cancellation, so that
`stop_background` never returns (`swallowed`). "Servers that were running must come back"
(`manager.py:1347`), but a start that raises before the process is launched is tried once
and then let go of; the instance stays stopped (`debt` at "tried" in Maintenance).
"A restart somebody asked for by hand is announced normally" (`src/README.md:194`), but
not one whose server binds its port before a probe or three ticks have noticed that the
one before was gone (`unnoticed`): nothing but a probe resets `listening`.

*Strays.* The docstring of `restore_world` (`manager.py:1173`) refuses to restore under
a running server, which would overwrite it, and ports must not overlap; but a server that
outlived a killed manager is not looked for. Its instance is taken for stopped: the world
can be restored, imported or loaded by a second server beneath it (`mixed` in Worlds), and
the instance moved to another port, or deleted, which frees the one it still holds
(excepted in `RunningPortsDisjoint`).

*Registry.* Two clones at once, or a clone beside a create, import or update, may
take overlapping ports (`raced`; the comment at `manager.py:716` says ranges must not
overlap). A clone keeps its source's Discord channel until it is edited or the bot
starts, and a start of the bot whose save fails after it has given the old default
channel away leaves two instances on one channel until the next (`shared`).

*Access lists.* A kick whose request was cut short after the ban leaves the player
banned (`doubt` in Moderation). A ban from the list page of somebody who is just being
kicked does not cancel the expiry of the kick and is lifted with it (`fleeting`), whereas
the button for a ban does cancel it.

*Discord.* Two saves of the Discord settings at once may forget a gateway and a pump,
which then go on for ever (`overlapped`), although the docstring of `bot.py` calls start
and stop safe in whatever state the bot is in. A save that fails has changed the settings
in memory and neither started nor stopped anything, and the next save sees no change: a
bot that was switched off runs on until something else restarts it (`unapplied`). Two
registrations at once may remove the
commands of a guild that the other has just registered, and leave those of one that is no
longer wanted; a removal that fails is neither reported nor tried again; a restart of
the bot forgets which guilds it has registered (`doubt` in Gateway, all three). The
deletion of an instance leaves its guild's commands until the next registration
(`unsaid`). Reading stops while READY registers commands, so that a registration longer
than a heartbeat interval makes the client drop a healthy connection; `OnceInOrder` and
`BackUp` hold nevertheless. Close codes that end a session (4007, 4009) do not clear it:
the resume that follows is refused, and the session identified anew.

*Presence.* Two players who load at once can get each other's names: a comment says that
the name goes to the connection that is most recent, the code gives it to the oldest
(`crowd`). A row that only a query has told is never removed but by a reset, and the
line that spawns this player later is taken for one of it. `start()` resets the tracker
before it is refused (`StartRefused`), so that everybody on the page of a running server is
gone; they are in `crowd` until they leave. Players who are seen or forgotten while the
roster is being saved in its thread may be lost or come back (`rushed`). "A roster of
everyone who has ever joined, kept across restarts" (`src/README.md:66`) keeps 500 entries,
and loses who joined since the last save when the manager is killed or the save of another
instance's roster fails at its end (`gone`, both).

*Mods.* Two requests on the mods of one instance lose each other's changes: the later
save puts back what the other removed, or forgets what it installed (`doubt` in
Mods, for the packages concerned and no others). An install whose second download
fails has copied the files of the first and does not record them. An update of a
mod that came as a dependency makes it one that was asked for (`Installed`), so that
the clean-up no longer takes it away. Files that cannot be removed are passed over and the
entry dropped, so that they are still loaded although no mod is listed; a switch that
fails half way, or whose `mods.json` cannot be written, leaves files and entry in
disagreement (`doubt`, all of these).

*Cache and schedule.* Threads that unpack one package at once, or one of them beside an
upload or a clearing of the cache, can leave an entry marked complete that is not
(`doubted`), and so can a crash in a removal. A check whose download
fails raises `CacheError`, which `_run_mod_update` does not catch: it ends without the
report its comment promises, its day stays marked, and the instances after it wait for
the next pass (`lost`). A day put back in settings that a save of the form has replaced
stays marked in the new ones (`lost`). A forced read of the catalogue that fails before
any has succeeded does not fall back on the copy on disk, although the comment speaks of
it: the check is put off.

*Worlds.* A restore of one of Valheim's own backups in the old format takes the first
`.db` file it finds (excepted in `RestoredAsAsked`). An import under another name, a
name edited or a server started while an import is at work can do away with a
world of which there is no snapshot, or load half of it (`mixed`). A world left in
disorder by a crash is copied like any other, and pruning counts the copy (`torn`). A
deletion or pruning broken off leaves part of a snapshot in the list (`cut`). "A world is
always copied whole" (`backups.py:14`), but a restore of a snapshot that a prune is just
removing copies what is left and reports success, and the next start loads it: for
`RestoredAsAsked` it is no more than a part, for `LoadsWhole` the name is in disorder
(`torn`).

## 4. Fairness

Runs without a liveness property assume none. Of the others:

- A task that can run is run (weak fairness): the event loop is fair to ready
  callbacks. Taking `Supervisor._lock` is strongly fair, because `asyncio.Lock` is
  FIFO and a waiter cannot be overtaken for ever.
- A process that has been sent SIGKILL exits, unless the host has the fault that
  says otherwise; end of file follows the exit unless stdout is held. A server
  told to stop exits: by itself or by the SIGKILL that follows.
- The sampler's queries and probes are strongly fair: they run every few ticks
  and what they find may come and go.
- Time passes: the expiry of a kick is reached, and a tick of the sampler is not
  cut short for ever.
- The pump, and a request in `start` or `stop`, go on: what they await ends, since
  requests to Discord have a time-out and a cancelled task ends.
- In Gateway the client reads what has come, connects again and beats, a pass of
  `_register_commands` goes on, and Discord answers an IDENTIFY or a RESUME; that the
  connection stays up is never assumed, only that it is not lost for ever (`MaxUpsets`).
- Nothing is assumed of operators, of crashes, of the beginning of a job, or of
  steamcmd, which may hang. In Updates the shutdown comes to an end although an
  update hangs in steamcmd, because the cancellation reaches it there.

## 5. What is proved

All theorems hold for every value of the constants, under the assumptions the
modules name: "none" values are not members of the sets they complete
(`NoneAssumption`, `AbsentAssumption`, `NoInstanceAssumption`), ports are natural
numbers, faults are among the three listed, a world has a finite number of files and at
least one, at least one automatic snapshot is kept, names of players are no values that
stand for none (`NamesAssumption`), jobs are among the two (`JobsAssumption`), and bounds
are numbers.

**SupervisorProofs.** The inductive invariant adds to the types: `LockInv` (one
task past the lock, and who holds it is where a holder can be), `OwnerInv` (which
run the object's attributes, the holder's local variable and the pumps refer to)
and `AliveInv` (a live process is the object's, or is being launched or aborted
by the holder). `AliveInv` is what makes one server at a time inductive: it is
not enough that the status guards a start, since a cancelled launch and a late
reaper both change the status under other tasks' feet. From it follow
`OneServer`, the three action properties, the refinement of `InstanceLifecycle` (each
step maps to a step of it or to a stutter), and two invariants that no run checks:
`InactiveMeansGone` and `OutcomeConsistent`.

**RegistryProofs.** Disjointness of the ports of *running* servers is not
inductive: nothing in it speaks of an instance about to be started.
`BoundIsRecorded` says that a running server has bound the port of its record,
`PortsDisjoint` that the records of all instances are disjoint, running or not
(but for `raced`), so that what a server holds, a stray's included, is disjoint as long as
its instance is where its record says (`Held`), `CopiesApart` that a clone under way is not registered and
that the port it chose is still free as long as no port was taken or moved, and
`DiskAgrees` what a restart will read. `RestartKeeps` follows from `DiskAgrees`.

**PlayersProofs.** *Moderation.* `BanHasNoExpiry` (a ban by hand has no entry in
`tempbans.json`, unless the list page made it) is what keeps `BanStands` across the expiry. That the whitelist is on
only by hand, and that switching it loses no entry, are theorems that no run checks.

*Presence.* `OwnName` says nothing of the queue, which decides whose name a row gets:
`Queue` says that who waits is shown without a name, once each; `Rows` that who is away
is not shown; `Apart` that two who cannot be told apart are both in `crowd`. So a
name that goes to somebody else's row goes from one in `crowd` to another. For
`RosterKept`, `KeptOf` adds what a save holds while it is under way: what its thread has
collected is what the roster says of everybody who did not rush, and nobody of these is
stale when the flag is cleared; who is dropped from a full roster, or lost with a manager
that was killed, goes to `gone` in the same step.

*Maintenance.* `BroughtBack` alone is not inductive: a job lets go of an instance in several
stages, and an operator may launch it meanwhile. `Owing` says that an instance which is
owed a start is down, and that the job is on its way to that start; so a start that is
refused because the instance is active finds nothing owed, and whoever launches it has
paid. That a launch or a stop is somebody's is `LifeInv` (below).
`NewsOnce` needs that what was announced is not newer than what is on disk.
`LivesAsPromised`: that every step of Maintenance is one of `InstanceLifecycle`, a
stutter, or a launch (`SpawnAndUp`, two steps of it at once). It rests on `LifeInv`: a
process means that the status is running or stopping, whoever launches finds the status
at starting, and only one driver holds the lock. Without it a launch that ends could
bear on an instance that another driver has stopped meanwhile.

**UpdatesProofs.** `Debts` says that what the update owes is down and still on its
list; that it is down follows only because every launch, by whomever, strikes it
off, and `Locks` is needed for a launch to be somebody's. `Quieting` says that in
the last two phases of the shutdown no operation and no update is left that could
start anything, and that whatever runs is being stopped; it needs `Calls` (who can
be in which call) and `ScheduleWaited` (the scheduler's update is over when
`shutdown_all` begins). `Orphans` adds to `NoOrphans` that no start of a deleted
instance is pending but those that already waited.
`LiveAsPromised` maps the status of each instance to that of an `InstanceLifecycle` of
its own (`Life(i)`); `LaunchIsActive` is why a launch that succeeds is one that was
accepted. What Updates does in one step while it holds the lock is two there:
`SpawnAndUp`, `DieAndSettle`.

**DiscordProofs.** *Discord.* `Marked` (what was posted is remembered by its announcer) carries
`SaidOnce` with any number of pumps. `Stage` says how far a request in `stop` or
`start` has come and what is gone by then, so that `Settled` gives `NothingForgotten`
when it returns; `Quiet` says that nobody runs or is
connected but those the bot knows of, and nobody at all once it is switched off, unless a
save that failed has moved the switch (`unapplied`). `Ordered` says that a queue is the latest events without a gap
(`Block`: dropping the oldest keeps that), that the one pump holds something older
than its queue and nothing older than what has arrived (`Behind`), and that a new
start has a queue nobody used (`Fresh`); a pump that was cancelled while it posts is
why the next one may only be made when it is gone.

*Gateway.* `OnceInOrder` is the negation of a history variable; what carries it is what
client and Discord know of each other (`Numbered`): the number the client has is that of
the last event handled of its session, a live connection is at that of the session
which Discord holds, and a session never made has none. `MenusMatch` speaks of the time
when no registration is under way. `PassInv` says how far one is: while it resolves,
every instance behind it has its guild or is in what failed (`Resolves`); while it
registers and removes, every guild it wanted is in the menus, failed or still to do, and
what remains registered is wanted or still to be removed (`Serves`); one that is not
alone has put all guilds in doubt until the last has ended. `MenuFacts` ties what the
bot believes (`registered`) to what Discord has (`menus`) outside that doubt.

**ModsProofs.** `AsRecorded` alone is not inductive: a save writes what a request
believes, not what is on disk. `CopiesAgree` says that the two are the same for every
package nobody changed behind the request's back (`stale`) and that is not in doubt, so
that what could not be removed or renamed must be in doubt before the save;
`Untouched` that only a request in a chain has something unsaved. `Whole` carries
`DependenciesKept`: `mods.json` and every copy are closed under `Needs`, and the rest of a
chain brings what it needs (`Supplied`, from `ChainSupplied` about `_resolve_chain`), so
that a later save overwrites one closed list with another. Assumed of the catalogue:
BepInEx needs nothing (`CoreNeedsNothing`, since the code adds it without looking at what
it needs). `AcyclicAssumption` is what the model, not the proof, relies on: a chain is
installed dependencies first.

**NightlyProofs.** `ServedWhole`: `AloneInIt` says that a thread nobody came between has
the staging directory to itself, and that what it has unpacked is there; so that what it
marks is whole, and `EntryWhole` stays true of a marked entry until a removal or another
thread comes between. `CurrentOrSaid`: a check that began after a release (`began`) finds
that release whenever its forced request is answered, since a check never compares
with what was in memory unless the request failed, and then says so (`SaidInv`).
`OncePerDay`: `DayInv` says that what has been reported is not after `Before`, the last day
marked that is not in the scheduler's hands, so that the day in its hands can be reported
or put back; and that whatever the mark is put back to has been reported or is lost.

**WorldsProofs.** The steps are sorted once by what they do to the worlds, the snapshots
and the workers, and each part of the invariant is then proved against these few shapes.
`WayBack`: `Copied` (what a restore or an import has copied is what it is about to
replace), `Bare` (one that took no snapshot replaces nothing that is owed), `Alone`
(whoever replaces a world has it alone, or it is in `mixed`) and `Apart` (no server is up
meanwhile, or the world is in `mixed`) carry `Kept`, that a world owed is in its place or in a listed
snapshot that pruning does not touch. `Lone` says the same of strays: who replaces a world
that one of them has, or starts a second server on it, has put it in `mixed`. `LoadsWhole`:
`Ordered` says that a name is in order but while somebody changes it or a server saves,
`Placing` and `Saving` (of all `Savers`, the manager's server and the strays) what is missing
then, and a start finds nobody at it because the event loop is not free. `CopyWhole` does
the same for `ListedIsComplete`. `Asked` and `Laid` carry `RestoredAsAsked`: what there is
of the snapshot, what the copy has in hand and what it has put in place are what was asked
for, file by file, but for files removed since by somebody who has put it in `cut`.

`PruneSpares` counts newer snapshots, which may be pruned themselves. `Spared` says of every
one that is being pruned, begun or not, that it has `Keep` newer ones: if one of these is
removed, it was being pruned too, and its own `Keep` newer ones are newer than both.

Proved: every invariant and every action property of the passing runs, and the type
correctness of all the modules that have a specification of their own.

## 6. What is only model-checked

- Every liveness property: it rests on fairness, which is outside the prover's
  reach. These are `CallsReturn`, `ExitNoticed`, `HandRestartAnnounced`, `BackToNormal`,
  `KickLifts`, `ShutdownComesToEnd`, `PumpGoesOn`, `BackUp`.
- `ManagerRestartHeldBack`, which TLC refutes.

That a step of a module is the code between two awaits is neither checked nor proved; it
is read from the source, at the lines of `map`. So is the coverage of every action: the
theorems would hold of a model that does less, the runs show that none is idle.

The type invariants (`TypeOK` in every module) are not properties of the runs: they are
theorems, all eleven.

## 7. What is not modelled, and why

Parsing and formatting (`mods/config.py`, `discord/render.py`, the A2S packets, log
regular expressions), rendering of pages, form validation of single fields,
counters of CPU, memory and network, file formats of archives: sequential code
that examples test well, with no state that interacts. `logspam.py` and
`diagnostics.py` are sliding windows over one sequence of lines, without concurrency.
`tools/`, `tests/` and the container files are not part of the running system.

Within modelled components: the console ring and the text of the transcript; a second
cancellation while an aborted launch is reaped; the admin list; the upload of a package
that is not on Thunderstore into an instance's mods (into the cache it is `Upload`);
names of instances; resource limits; the waits of the gateway's back-off and the address
to resume at; the control tier of the Discord commands, which none of them has;
StateWatcher's news of status, reachability, notices and operations under way; the news of a new game build,
which `_announce_what_changed` keeps beside that of the mods; the export of archives and
worlds. `write_json` is taken to be atomic, as it is (a temporary file and a rename).

## 8. Plan

Written so far, in this order, the core of the system first: InstanceLifecycle
and Supervisor; Maintenance; Registry; Moderation; Updates; Discord; Mods; PackageCache
and Nightly; Worlds; Presence; Gateway.

What is left, most useful first:

1. Proofs: that Nightly does to the cache only what PackageCache has as its steps, stated
   with a specification of PackageCache alone, so that `ServedWhole` is proved once for
   all who use the cache; what a cancellation at each await preserves, as lemmas of
   Supervisor's.
2. The news of a new build in Maintenance, which may be told while the old one still
   runs.
3. The upload of a package in Mods, a package without dependencies.
4. LogThrottle and IssueWatcher as functions of a sequence of time stamps, checked
   against a definition of the window.
