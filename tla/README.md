# Audera in TLA+

Audera turns small Linux machines into a multi-room music system. A *streamer*
runs Snapserver (which mixes nothing and serves one stream per audio source) and
a NiceGUI web app; *players* run Snapclient and a CamillaDSP daemon. The web app
is the only thing that writes: it toggles sources, renames and regroups players,
pushes DSP pipelines and volumes, and every open browser must show the result.

This directory holds the specifications of that program: TLA+ modules
translated from `src/audera`, the TLC configurations that check them on small
instances, and theorems proved with TLAPS. `PROJECT.json` ties each definition
to the source lines it models.

    tlc  -workers 2 -config CommandQueue.cfg MCCommandQueue.tla
    tlapm CommandQueueProofs.tla

## 1. Inventory

### Processes and threads

One asyncio loop runs the web app: page handlers of any number of browsers, the
worker of the command queue, the broker's reader and its debounce timer. Code
between two `await`s is atomic; everything slow runs in a worker thread through
`asyncio.to_thread`, so what a handler read before an `await` may be stale after it.
Files and HTTP/WebSocket/systemctl calls are made in those threads. Snapserver,
CamillaDSP, PlexAmp and systemd are other processes and other hosts.

### Components

| component | source (`src/audera/…`) | state | operations | hard behaviour | what makes it correct |
|---|---|---|---|---|---|
| command queue | `ui/streamer/commands.py` | queue, batch, futures | submit, coalesce, run, stop | submitters cancelled at any await, callables in threads, a batch the queue overtakes | submission order, nobody forgotten, superseded only for a later one, everyone answered |
| event broker | `ui/streamer/broker.py` | cache, last delivered snapshot, timer, connection | seed, notification, reseed, debounce, DSP re-push, stop | reader, UI handlers, timer and seeding threads interleave; lost connections; stale reads | no stranded change, volumes of connected players, convergence to Snapserver |
| volume data access | `dal/volume.py` | one file per player | set (skips an equal value), get, get_all, observer | read-back after the lock is released, two writers that post in the other order | readers are told what is on disk |
| source toggling | `domains/sources/toggle.py`, `domains/sources/catalog.py`, `dal/sources.py`, `io.py` | `sources.json`, `snapserver.conf`, units | record, render, move units, restart, adopt | a dozen steps that fail one by one, kill in between | record, conf, units and server agree; one source stays |
| Sources tab | `ui/streamer/pages/index.py` | handlers, dialogs | toggle, disable dialog, reassign, wait | two browsers disabling at once, a dialog left open | guards hold where the write happens |
| configuration rendering | `cli/conf.py`, `cli/commands.py` | rendered files | render | refuses an empty set | conf names the enabled sources |
| provisioning | `../os/dietpi/lib/streamer.sh` | units | setup, reprovision | runs over an existing record | the record survives |
| systemd service | `services/system.py` | – | enable, disable, restart, reboot | a timeout with the effect done | – |
| Snapserver client | `clients/snapserver.py` | short-lived socket | call with deadline, parsers | answers out of order among notifications | a late answer is never taken for another call's |
| pages and fan-out | `ui/streamer/__init__.py`, `pages/__init__.py` | registry of pages, per page a flag for open overlays and the deferred tabs | five fan-outs, refresh, overlay open/close, disconnect, reload | a fan-out while an overlay is open, handlers that end late and clear the flag, a browser that comes back | no tab is rebuilt under an overlay, no announced change is lost |
| Players and Settings tabs | `ui/streamer/pages/index.py` | sliders bound to a dict of the cache, the reference indicator | volume, mute, reset, save and restore a balance, move, rename | the volume path writes three places, and every status replaces the dict | the last submitted volume wins, what is shown is what is stored |
| PlexAmp claim | `ui/streamer/pages/_plex.py` | drop-in, `_claim_in_flight`, timers of a panel | start, poll, restart with claim, record, clean up | panels deleted under a flow, several browsers, timeouts, leftover drop-in | a token belongs to a claim, a restart takes effect, only a claimed PlexAmp is recorded, every claim ends |
| DSP editor | `ui/streamer/pages/dsp.py`, `dal/dsp.py`, `dal/presets.py` | working copy, stored config | edit, reset, save, push | two browsers, player offline at save | what is stored is what was saved last, pushed or re-pushed |
| DSP compiler | `domains/dsp/compiler.py` | – | config → pipeline | order of filters, clipping headroom | pipeline denotes the config |
| headroom and volume curves | `domains/dsp/headroom.py`, `clients/camilladsp.py` | – | real arithmetic | – | – |
| settings, balance | `dal/settings.py`, `dal/balance.py` | JSON files | get, set, observers | a page saves the copy it was built with | – |
| setup wizard, access point | `ui/setup/pages.py`, `services/ap.py`, `services/netifaces.py`, the start gate in `cli/commands.py` | interfaces, access point, connection profiles, the page that all phones share | create, connect, finish, reboot | failing calls in the middle, leftovers of earlier runs, two phones at once, kills | a start ends on a network or with a reachable wizard; NetworkManager is restored; Finish leaves no access point |
| feature flags | `ui/features.py` | – | pure | – | – |
| PlexAmp client, other CLI commands, website, brand, tests | … | – | – | – | – |

`PROJECT.json` lists the same components with their status, and under
`hazards` each hard-to-test behaviour at the line where it bites, with the
properties that cover it.

### How they interact

* A handler never writes directly: it submits a callable to the **command
  queue** and awaits its future. The Sources tab composes with the queue only
  through "one at a time, in submission order", which is what `SerialExecutor`
  says and what `SourceToggle` uses (its `queue` and `job`).
* Snapserver notifies the **broker**; the broker's timer signals the pages,
  which rebuild from `broker.cache`. A source toggle ends with
  `broker.reseed()`, called from the handler, beside the reader.
* `volume_dal.set` calls an observer in the writer's thread, which posts a
  callback to the loop that changes `broker.cache.volumes`.
* A player that reconnects makes the broker submit a DSP re-push to the queue.
* A page shows what the cache held when its tab was built. The broker's timer and the
  observers of four DALs fan out to the registered pages; `PageFanout` says what a
  page does with a fan-out, and `VolumePath` composes it with the queue, the reader and
  the files.
* The setup wizard runs before any of this, in the process that later becomes the
  streamer, and shares with it only the host's network.
* Shutdown stops the queue first, then the broker.

## 2. Modules

| module | models | role |
|---|---|---|
| `SerialExecutor` | the promise of `CommandQueue.submit` | abstract specification |
| `CommandQueue` | `commands.py` | implements `SerialExecutor` under the mapping `Phase` |
| `CommandQueueProofs` | – | theorems about `CommandQueue` |
| `CommandQueueRefinement` | – | theorem: `CommandQueue` implements `SerialExecutor` |
| `MCCommandQueue` | – | instance for TLC |
| `EventBroker` | `broker.py`, the observer in `ui/streamer/__init__.py`, `dal/volume.py`, the acceptance test of the parsers; Snapserver as its environment | component |
| `EventBrokerProofs` | – | theorems about `EventBroker` |
| `MCEventBroker` | – | instance for TLC |
| `SourceToggle` | `toggle.py`, `dal/sources.py`, the Sources tab's handlers, rendering, reprovisioning; the host as its environment | composition of handlers, serial queue, host and broker cache |
| `SourceToggleProofs` | – | theorems about `SourceToggle` |
| `MCSourceToggle` | – | instance for TLC |
| `DspEditor` | `pages/dsp.py`, `dal/dsp.py`, `apply_pipeline`, the broker's re-push; the player as its environment | composition of editor pages, serial queue, stored file and daemon |
| `DspEditorProofs` | – | theorems about `DspEditor` |
| `MCDspEditor` | – | instances for TLC |
| `ClaimFlow` | `pages/_plex.py`, the switch of the source, rebuilds of the Sources tab; systemd, plex.tv and PlexAmp as its environment | composition of claims, browsers, host and the toggle's write |
| `ClaimFlowProofs` | – | theorems about `ClaimFlow` |
| `MCClaimFlow` | – | instances for TLC |
| `AccessPoint` | `services/ap.py`, `services/netifaces.py` as calls on the host's network | the host's state and what each call does to it |
| `SetupWizard` | `ui/setup/pages.py`, `AccessPoint.create/stop`, `netifaces.connect`, the start gate, the units' restart policy | composition of the service, its pages and the network |
| `SetupWizardProofs` | – | theorems about `SetupWizard` |
| `MCSetupWizard` | – | instance for TLC |
| `PageFanout` | `pages/__init__.py`, the fan-outs, the flag, the overlays and handlers of `pages/index.py` | component: what one browser's page does |
| `VolumePath` | sliders, mute and balance of `pages/index.py`, `dal/volume.py`, the observers, the broker's reader | composition of `PageFanout` with queue, device, files and cache |
| `VolumePathProofs` | – | theorems about `VolumePath` |
| `MCVolumePath` | – | instance for TLC |

Operators whose comment starts with "Slip:" are not part of any specification:
each is the form a definition would take with a plausible bug in it, and is
named in `PROJECT.json` beside the property that detects it.

### CommandQueue

`queue` is the `asyncio.Queue`; `batch`/`pos` the list of drained commands and
where the worker is in it; `future` what each submitter awaits; `thread` the
command whose callable is running. `Queue.get()` on a non-empty queue does not
suspend, so draining and coalescing the next batch belong to the same step as
the end of the previous command (`Finish`), and only an idle worker has a step
`Wake` of its own. Replaced commands stay in `batch` and are told apart by
`Replaced(batch)`; the code filters them out, which is the same list of
survivors. `Cancel` is a submitter's task being cancelled: `Runnable` evaluates
whether the future is cancelled when the worker gets to the command, as the code
does. `Stop` cancels the worker wherever it waits; a callable in its
thread cannot be interrupted (`Outlive`).

What is abstracted: what a callable does, and with which exception it fails.

### EventBroker

`cache`, `prev`, `armed` and `stopped` are the broker's attributes. `task`
holds, for the reader and for every UI handler inside `reseed()`, where it is
and its locals: `fetch`/`fetched` is `get_status` in a thread, `load`/`loaded`
`_load_volumes`, `seed` the threads of `_seed_one`, `get`/`got` the DAL
read of `Client.OnVolumeChanged`, `resync` the queued DSP re-push. Each pair is
the moment a thread read its data and the moment the task resumed with it:
everything else may happen in between. `wire` is the persistent socket (ordered,
its tail lost on a `Drop`), `srv` what Snapserver would answer now.
`writers`/`posts` are `volume_dal.set` after the write, its `get_all()`, and the
`call_soon_threadsafe` callbacks.

A client is its connectedness and one value for the rest; `OutOfRange` are the
values for which `Player(...)` raises, which aborts `_apply_full_status` *after*
the timer was cancelled and *before* the cache was touched.

### SourceToggle

A handler per click, in any browser: `ask` (who listens?), `dialog`, `queued`,
`await` (wait for Snapserver). The write is `job.step`: `check`, `move`
(reassign listeners one RPC at a time), `record`, `clear` (setup record),
`write` (conf), `units` (one systemctl call each), `restart`. `StepFails` makes
any of them raise, with or without its effect where the call is one that may
time out; `Kill` takes the process at any point, with or without a reboot;
`Reprovision` renders everything from the record; `MoveGroup` is the Players tab
in another browser. A switch can only ask for the opposite of what its card was built
with (`Asked`: `_on_change` ignores a change back to the rendered state); with a record
that may be what another browser changed since. After its write a handler waits for
Snapserver, reseeds the broker and rebuilds its card (`Settle`). The reseed may leave
the cache as it was, since it swallows a failing call; but a status it cannot apply
raises past the handler (`SettleRaises`), which then ends as `raised`, without the
rebuild. `Claim` is the click on Connect and `SetSetupComplete` the record that a claim
makes at its end, in a thread of its own beside the queue, whoever has disabled the
source since. `lastFailed`, `unfinished` and `overtaken` are history variables: which
discrepancies are explained by a toggle that itself failed, and which records were made
by a claim that a disable had overtaken.

What is left out: a claim also stops and starts the unit of its source; `UnitsMatchRecord`
speaks of the units the toggles leave, and `ClaimFlow` of the rest.

### DspEditor

One player and the editor pages open on it. A page has its working copy
(`staged`) and what it believes is stored (`saved`). A click on Save is one
`save[s]`: it submits `push` (`apply_pipeline`), `persist` (`dal.dsp.update`) and
`clear` (the clipped-samples counter), and between them resumes on the loop. The
commands get the working copy *by reference*: `Copy(s)` is the page's present
copy, unless `_on_reset` replaced the object meanwhile (`own`).
The thread's compiler reads the pre-amp and then the bands (`ReadPreamp`,
`ReadBands`), and the loop changes the bands and then the pre-amp (`Edit`,
`MarkChanged`), so either can see half of the other's work. `Updated` is `update()`
with the unreadable file's special case. `Reconnect` announces a player that
may have lost its pipeline; the reader then submits a re-push, which reads the
file and applies it in one command. `disturbed` is a history variable: what
happened while a save was under way.

What is abstracted: everything the user edits is one value `bands`; a pre-amp is the
value of bands it was computed from, so "protected against clipping" is
`preamp = bands`. A list of bands read while one is inserted (the thread sees a
band twice) is therefore not distinguished. The foreign part of the pipeline,
the preset library and YAML import and export do not take part.

### ClaimFlow

A `flow` is one click on Connect, in the order of the code: `pin`, `wait` and
`polling` (`_poll_auth`), `token`, then the restart (`stop`, `write`, `reload`,
`start`), `restarting` and `probing` (`_poll_port`), `record`, `remove`, `unmerge`,
`refresh`; a restart that is not up in time goes through `giveup`. Each stage
is a call in a thread or the wait for a timer; a timer is awaited by its own
callback, so that a flow has one of them under way at most. `page` is what each
browser renders (which panel, whether the button is enabled) and its
`_claim_in_flight`. A rebuild ends the flows that wait for a timer of the panel
it deletes, and marks those in the middle of a callback `deleted`: they
go on, and a timer they create afterwards runs. `claimConf` is the drop-in on disk,
`merged` what systemd last read of it, `plexamp` the unit with the token it was
started with. `enable --now` and `disable --now` make systemd read its units again too.
`cut` and `disturbed` are history variables. A toggle that landed reseeds the broker before
it rebuilds (`Settle`), and a reseed that raises leaves the rebuild out (`ReseedRaises`).

What is abstracted: a token is the number of its flow, deadlines are untimed (one
may pass at any tick), and a rebuild that a dialog defers is one that happens later.
Of the write of the toggle only what concerns PlexAmp is kept; `SourceToggle`
has the rest. NiceGUI's timers are modelled from what `_plex.py` says of them.

### AccessPoint and SetupWizard

`net` is the host: whether NetworkManager and wpa_supplicant run, whether `ap0`
exists, whether the access point's connection exists and is up, the Wi-Fi profiles
(several of one name are possible, each with a right or a wrong key) and the network
joined. `AccessPoint` has one operator per call, `…Works` for whether the host
accepts it and one for what it leaves; `Booted` is the host after a reboot.

`proc` is where the process's main thread is: the start gate, each call of
`create()`, the pages, or the end. An exception inside the `try` of `create()` is held
back (`error`) until the `finally` has restarted NetworkManager. A call that times out
may have had its effect. The pages share one `Page`, so `page` has one
`connected_profile` and one `shutting_down` for all phones. `attempt[b]` is a phone's
`connect_callback` with each nmcli call and each wait a step of its own;
`finish[b]` is its `shutdown()`: look, take down, look, delete, delete the interface
and stop the app, reboot five seconds later. `Return` races that reboot: the server
has stopped and the streamer goes on. `Kill`, `PowerCut` and `Respawn` are the unit's.
`cut` and `kept` are history: a `create()` that was killed, and
whether anybody has begun another attempt at `connected_profile` since it was set.

What is abstracted: a scan shows any set of networks, waits are untimed, NetworkManager
may join a network it knows at any time or never, and a failing connectivity check with
a network counts as an upset.

### PageFanout and VolumePath

A page is a record: connected, registered, the flag `_dialog_open`, the deferred tabs,
the overlays on the screen (`open`) and those that the server has closed but the
browser has not reported (`closing`), the handlers that will resume (`late`),
and what its tabs show. `stale` and `mixed` are history: tabs that changed since they
were built, and whether an overlay was opened before another one was over, since all
overlays of a page share the flag. `Notified` is one fan-out at one page,
`CloseDialog` and `Rebuild` are the code's helpers, and each click is an action.
The disable dialog opens after two reads, whatever was opened meanwhile.

`VolumePath` says what the tabs show. `volumes` is every dict that
`cache.volumes` was: a slider stays bound to the one its card was built with. A
volume command writes the device, the file, then Snapserver's mute (`ApplyVolume`),
and the observer reads all files in the writer's thread before it posts
(`ReadAll`, `PostAll`, `RunPost`). The reader loads files with each status, seeds
players it has no file for from the device (`SeedOne`, `SeedFile`), and reads one file
again for each echo of a volume command. `behind` orders a thread's answer after
what was posted to the loop before it. A Players tab is the players it has cards of, and
the dict they are bound to. `last`, `failed`, `strayed` and `apart` are history.
`strayed` names the players whose entry in the cache has differed from `prev`, the
snapshot that was delivered last, since that delivery: what may be left on a slider whose
dict a status then replaced without a dirty. `apart` names those of which the same is true
of whether they are connected. `early` marks an indicator that was built from
a cache on its way from what was delivered to what the files hold (a page is loaded, or a
balance saved, in the middle of it).

A page is registered and rendered before its browser connects (`Reload` gives it a
`connected` of either value), and a fan-out in that window removes it from the registry.

What is abstracted: `Take` may drop any command with a later one of its
key behind it, which over-approximates coalescing; settings are one value that
does not change what is shown; a move's effect on groups is left out. What a user sets
or saves, an overlay, a player that comes or goes and a failure each take one of
`MaxEvents`. Four simplifications limit what the properties say:

* the broker is its reader, whose connection does not break, and no page reseeds beside it:
  `LastSubmittedWins`, `CacheFollowsFiles`, `CacheWasDelivered` and `QuietPagesFollow`
  speak of runs without a UI reseed. `EventBroker` has both, and `broker_overtaken`
  shows what a reseed may do to the cache;
* a toggle's handler is an `OtherHandler` that ends in a rebuild, or in none when its reseed
  raises; the reseed itself is left out for the reason above;
* saving the balance is one step (`SaveBalance`), whose failure, a notification, is not told
  apart from not saving;
* one Restore runs at a time, and it goes on once no volume command of its player is left; in
  the code it awaits its own command only, which coalescing resolves at once.

## 3. Runs

| run | instance | checks | shows |
|---|---|---|---|
| `queue` | 4 commands, 2 keys and none | `RunsInSubmissionOrder`, `NothingForgotten`, `SupersededByLater`, `ImplementsSerialExecutor`, `EverySubmitterAnswered` | the queue is a serial executor, and answers everyone |
| `broker_safety` | 1 player, 1 group, 2 Snapserver events, a failed call, an upset, a UI reseed, seeding threads and volume writers | `TypeOK`, `NoStrandedChange`, `ConnectedHaveVolume` | cancelling the timer loses nothing; the dict the sliders bind to has every connected player |
| `broker_liveness` | 1 player, 1 stream, 3 events, 1 upset, no UI reseed | `Converges`, `ReconnectedArePushed` | after any upset the cache ends up equal to Snapserver and the pages know |
| `broker_overtaken` | the same with a UI reseed and 2 events | `ReflectedInEveryBrowser` (violated) | a UI reseed can apply an older status over newer notifications, for good |
| `toggle` | 3 catalogued sources and a retired one, 2 groups, 2 clicks, claims at any time, 1 upset | `TypeOK`, `OneSourceStaysEnabled`, `ServedMatchesRecord`, `UnitsMatchRecord`, `SetupDiscarded`, `ListenersMovedFirst`, `EveryToggleEnds` | whatever browsers do together and whatever fails, the record, conf, units and server agree once a toggle succeeded, and a failed one affects only its own source; a setup record outlives a disable only where a claim made it anew or the disable was cut short; every click ends, by its refresh or in a reseed that raises |
| `dsp` | 1 page, opened again after a kill, 2 saves, 1 edit or reset, 1 reconnect, 1 failure, damaged file or kill; no file, a damaged one, one of an older release or one of this | `InvalidNeverLive`, `CleanSaveAgrees`, `ProtectedUnlessEdited`, `SaveEnds`, `ResyncRestores` | the daemon runs only what it validated; an undisturbed save leaves daemon, file and page in agreement; only an edit during a save (or an old file) loses the clip guard; saves end, and a re-provisioned player gets its pipeline back |
| `dsp_resync` | 1 page, 1 save, 1 reconnect | `ResyncNeverStale` (violated) | a re-push between the apply and the persist of a save wins over the save |
| `claim` | 2 pages, 2 claims, 1 toggle, 1 failure, kill or reboot | `OverrideOwned`, `ClaimTakesEffect`, `RecordedMeansClaimed` | a token in the unit belongs to a claim that is under way or was cut short; an undisturbed restart takes effect; the record is never wrong about PlexAmp |
| `claim_live` | 1 page, 1 claim, 2 toggles, 2 rebuilds or reloads, 1 failure | `TypeOK`, `ClaimsEnd`, `StartingResolves` | claims end and the starting panel resolves |
| `claim_wedge` | 1 page, 1 claim, 1 rebuild | `FlagHasFlow` (violated) | a rebuild between two polls leaves the claim flag set for good |
| `wizard` | 2 phones, 2 networks, 3 checks, 2 attempts, 2 clicks on Finish, 1 failing call, kill or power cut | `ServedOverAccessPoint`, `ManagerRestored`, `CleanHandover`, `ConnectedIsStored`, `EveryStartIsUsable` | whatever fails and whatever an earlier run left, a start ends on a network or with a wizard that phones reach, NetworkManager runs again, and Finish takes the access point away |
| `volume` | 2 browsers, 2 players (one never seen), levels 0 and 50, 2 overlays, 3 events | `LastSubmittedWins`, `CacheFollowsFiles`, `CacheWasDelivered`, `QuietPagesFollow`, `OverlaysAreFlagged`, `ChangesAreRemembered` | device, file and mute end as last submitted; when nothing is under way the cache holds what the files do, that is what was delivered, and every registered page has the players' cards and shows it; no fan-out rebuilds under an overlay, and none is lost |

### Why the bounds are enough

* `queue`: three commands are needed for a batch with a survivor between two
  replaced positions, a fourth for a command queued while that batch runs. Two
  keys separate "same key" from "some key". The safety part is proved for every
  number of commands.
* `broker_*`: a client map with one player already tells apart unknown, known
  and connected. A second player adds independent copies, except for
  `gather()` over several seeding threads, whose order `missing` abstracts.
  Three events suffice for connect, disconnect and reconnect around a seed.
  One failure of each kind at any point covers the error paths; two failures in
  a row repeat them from a state the single failure reaches as well. `broker_safety` is
  proved for every number of each.
* `toggle`: two clicks are the two browsers of every race the code guards
  against. Three sources, because with two the second disable is always refused by
  the rule that one source stays. Two groups, so that a reassignment can be
  interrupted between two RPCs. The safety part is proved for any of them, and any catalog.

* `dsp*`: two saves are the shortest way a save meets what another left behind, and the
  disturbances are counted separately so that each pair of kinds occurs in one
  behaviour. Three values of bands: the default, another one, and one the daemon
  refuses. A second page adds saves that interleave; the three
  invariants are proved for any number of pages.

* `claim*`: two claims are two writers of one drop-in, and with the toggle
  three who stop and start the unit. Pages are symmetric in `claim`. The write of the
  record rebuilds every page, so `claim` deletes panels without rebuilds of their
  own, which `claim_live` has. The invariants are proved for any number of either.

* `wizard`: two phones are the two of every race (attempts at one network, two Finish);
  two networks separate "the same" from "another". One upset at any step covers each error
  path, and leaves what the next start, after the unit's restart or a boot, finds left
  over. Three checks, so that a miss need not be the last one. The safety part is proved
  for every number of each.
* `volume`: two browsers tell the page that acts from the one that watches, two players a
  seeded from a known one. Level 0 is where mute changes. Three events are the shortest way
  to a slider moved while a status is loaded and a third thing happens;
  two overlays are what share the flag.

`CHECK_DEADLOCK FALSE` everywhere: the environments are bounded and the
processes may be stopped, after which nothing has to happen.

### Fairness

* `CommandQueue`: weak fairness of `Wake` (the loop runs a ready task) and of
  `Finish` (every callable ends: the clients put a deadline on each call).
  Nothing about submitters or `Stop`.
* `EventBroker`: weak fairness of each task's and thread's steps, of the due
  timer, of Snapserver's answer to the seed request, of the reader's
  reconnection. Not of anything Snapserver, users or the network initiate.
* `SourceToggle`: weak fairness of the write's steps (each call has a deadline
  and each failure is an action too) and of the handlers, among them that an open
  dialog is answered. Snapserver need not come back: `_await_snapserver` has a
  deadline, and `EveryToggleEnds` relies on it. Nothing about claims: none need be
  made, and none need end.

* `DspEditor`: weak fairness of the loop's callbacks, of the commands (deadlines)
  and of the reader's submission. Nothing about users or the player.

* `ClaimFlow`: weak fairness of each flow's steps, of the starting panel's poll, of
  announced rebuilds and of the toggle's write: calls in threads have deadlines and timers
  fire. Strong fairness of `Deadline` and weak fairness of `GraceEnds`: time
  passes, so a flow does not tick for ever before its deadline. Nothing about users,
  plex.tv's authorization, or PlexAmp binding its port.

* `SetupWizard`: weak fairness of the main thread's steps only: calls have timeouts, the
  gate's checks end, the unit restarts after a failure (`Restarts`, the streamer's unit).
  Nobody has to click, and NetworkManager need not find its network.

* `VolumePath` states none: its properties are about moments at which nothing is under way.

### What the violated runs say

* `broker_overtaken`: `reseed()` called by a page handler fetches in a thread and
  applies what it fetched on resuming. Notifications the reader applied meanwhile
  are overwritten, and no later full status is guaranteed. The decision record
  005 promises that a (dis)connection is reflected in every open browser.

* `dsp_resync`: the re-push is one command, "so the config can't be captured stale
  ahead of an in-flight Save's persist", but the save is two: when the player
  reconnects while the apply runs, the re-push is queued before the persist, reads
  the previous file and puts it back on the player. Daemon and file then differ
  until the next save or reconnect.
* `claim_wedge`: `_poll_auth` and `_poll_port` clear `_claim_in_flight` when they find
  their panel deleted, "so a mid-claim Sources rebuild can't wedge the tab". The rebuild
  deletes their timers with the panel, though ("deletes these elements and cancels the
  timers below"), so after a rebuild between two polls that branch never runs: the flag
  stays set, and the page refuses toggles, and repaints on entering the tab, until it is
  loaded again.

## 4. Theorems

`CommandQueueProofs` proves for every `MaxCommands` and every set of keys:

* `Invariance` – `Spec => []IInv`;
* `TypeCorrect` – `TypeOK`;
* `OrderedWrites` – `RunsInSubmissionOrder`;
* `NobodyForgotten` – `NothingForgotten`;
* `CoalescedForALaterOne` – `SupersededByLater`.

The only assumption is `QueueAssumption`: `MaxCommands` is a natural number and
`NoKey` is not a key.

`RunsInSubmissionOrder` is not inductive: nothing in it says that what starts
next comes after what started. `IInv` adds `OrderInv`, which orders the whole
pipeline: *started < ahead of the worker in the batch < queued < not yet
submitted*, each of the sequences increasing. `WorkerInv` ties the running thread
to the position in the batch. `FutureInv` is `NothingForgotten` with the fact that
exactly the numbers above `submitted` are unsubmitted. `SupersededInv` says
that a superseded command is behind the worker for good — not queued, and in the batch
only at a replaced position — and that the survivor that replaced it has been
drained with it, so that no later coalescing can supersede that one too.

`GreatestPosition` gives the last command of a key in a batch, the one that is
not replaced. One lemma each for what the worker can do next (continue in the
batch, rest, drain), from which `Wake` and `Finish` follow, and one for each of
the other actions.

`CommandQueueRefinement` proves from the same assumption

* `QueueIsSerialExecutor` – `ImplementsSerialExecutor`: initial states map to initial
  states, and every step to a step of `SerialExecutor` or a stutter.

`IInv` does not say how futures relate to what started, so the proof adds `RanInv`: a
future has an outcome only once its callable started, and what is in a thread has
started. With it a command that `Phase` calls waiting is one whose future is pending
(`WaitingIsPending`), hence queued or ahead in the batch; and since started, batch and
queue are ordered, the next to start is the oldest that waits and is not superseded in
the same step, which is the guard `MayStart`. `PhaseTurns` computes the phases after a
step from what the step starts and supersedes; `ContinueTurns`, `DrainTurns` and
`EndTurns` are the three ways the worker goes on. Stopping is a stutter, a thread that
outlives the worker ends in a turn of its own, and a cancelled submitter abandons its
command or, once the callable has started, nothing.

`DspEditorProofs` proves for any pages, any editor values, any set of refused ones,
any initial file and any bounds:

* `StrengtheningHolds` – `Spec => []IInv`;
* `TypeCorrect` – `TypeOK`;
* `OnlyValidatedRuns` – `InvalidNeverLive`;
* `CleanSavesTellTheTruth` – `CleanSaveAgrees`;
* `ProtectedPreamp` – `ProtectedUnlessEdited`.

The only assumption is `DspAssumption`: the default is a value the daemon accepts,
and the markers (no file, unreadable, empty pipeline) are no configurations.

None of these properties is inductive. `InvalidNeverLive` needs `JobInv`: what a command
is about to apply has passed validation, and nothing replaces what it read in
between. `CleanSaveAgrees` speaks of the end of a save and needs to know what held
all along: `CleanInv` says for each stage of a save that nothing has disturbed
that it is alone, that no re-push is announced, queued or running, that the page's
copy is whole and attached, and that what has been read, applied and persisted so
far is what the page shows. That a save is alone carries the argument only because
each queued or running command belongs to a save that waits for it, and no save has
two (`QueueInv`, `JobInv`). `PageInv` says that a working copy the loop is not in
the middle of changing has its pre-amp in step with its bands, or bands that the
daemon refuses. One lemma per action; the commands share one for steps that only
read (`ReadingPreserves`) and one for steps that end a command (`ReturnPreserves`).
`ProtectedPreamp` needs `EditInv`, inductive beside the rest: while no save has been
edited under, the working copy of every save in flight is attached and whole, so a
command reads pre-amp and bands of one and the same configuration although it reads
them in two steps; and what is on file or running is such a configuration, or one that
was there at the start.

`SetupWizardProofs` proves for any phones, networks and bounds, and for either restart
policy:

* `TypeCorrect` – `TypeOK`;
* `ManagerIsRestored` – `ManagerRestored`;
* `WizardIsReachable` – `ServedOverAccessPoint`;
* `FinishLeavesNoPoint` – `CleanHandover`;
* `ConnectedStaysStored` – `ConnectedIsStored`.

The only assumption is `WizardAssumption`: the bounds are natural numbers, the gate makes a
check, and `None` is no network. `ManagerRestored` and `ServedOverAccessPoint` are
inductive beside `TypeOK`: only `create()` stops NetworkManager, and only `Up` leads to
the pages. `CleanHandover` needs `HandoverInv`: the point is up only with its connection, a
Finish is under way only while the server lives, and one that has come past the deletion
left neither point nor connection, which no other phone's Finish puts back.
`ConnectedIsStored` needs `KeptInv`: while `connected_profile` is kept, every attempt
under way is at another network, so what it deletes is another name.

`VolumePathProofs` proves for any browsers, players, volumes and bounds:

* `FlagCoversOverlays` – `OverlaysAreFlagged`;
* `NoChangeIsLost` – `ChangesAreRemembered`;
* `LastOneWins` – `LastSubmittedWins`;
* `CacheHoldsFiles` – `CacheFollowsFiles`;
* `WhatIsCachedWasDelivered` – `CacheWasDelivered`;
* `PagesShowFiles` – `QuietPagesFollow`.

The first two need no assumption and follow from `PagesInv`, which speaks of each page alone. `FlagInv` strengthens the
first: on a page whose overlays did not overlap there is one of them at most, so that
closing it may clear the flag, and a save under way is the dialog's own, so that clearing
the flag under it is in order (the same step rebuilds the tab, and the dialog goes
with it: `SaveEndKeeps`). Pages are described by what the helpers do to their fields
(`RebuildFields`, `CloseFields`); what the tabs show plays no part, so neither does
the broker, the queue or the files, whose steps leave the pages alone or fan out.

`LastOneWins` rests on `VolumeAssumption`: volumes are natural numbers, the markers `None`
and `Absent` are not volumes, and what the devices play at the start is one. The property
speaks of the moment at which no command is left; `LastInv` follows a player's last volume
there: the last volume command in the queue has it; with none there, the one being
applied, and as far as that has come the device and the file; with none at all, both.
`LastMute` is the same for the mute, which both kinds of command set. What could
spoil it is the seeding of a new player, which writes the file from what the device
played some time ago. `Traced` and `Shown` exclude that: until its file is written no
dict, balance, posted copy or command holds a volume of that player, so no slider of it is
live in any browser and no Restore includes it; `Seeding` says that what is about to be
written is then still what the device plays. The argument needs the pages after all,
but only which sliders are live (`RebuildShows` to `ScreenShows`).

`CacheHoldsFiles` rests on the same assumption and on `LastOneWins`' invariant. Copies of
the files are on their way to the cache in four places: an observer's reading before it is
posted, the posts, what the reader loads with a status, and the one file it reads again for an
echo. Any of them may be overtaken by a later write. `FilesInv` says of each (`FreshWorker`,
`FreshPosts`, `FreshReader`, `FreshCache`) that it agrees with the file or will not be
the last one: the echo of the write is still to come (`EchoDue`), or the reader is about to
store the file behind that very post (`Rereads`, which is where `behind` matters). The
command that writes a file is the one whose mute is announced afterwards, so `FileIsWritten`
makes everything older of that player outdated and the echo due in one step. The
seeding of a player has no echo; there `Traced` says that no copy holds anything of it
(`SeedWriteFiles`). `Synced` is about the players: one that the cache lacks, or that a
notification in the socket will remove, is in a status still to be read, after which
everything is loaded again. A command that fails between the file and the mute is
never announced, which is why its player is excused.

`WhatIsCachedWasDelivered` and `PagesShowFiles` need no further assumption, but a third
invariant beside those of the pages and the files, `ShowsInv`, in five parts:

* `ToldInv`: a player's entry that differs from the delivered one is still to be
  signalled. The timer is armed, or the reader is in a load and will compare when it ends,
  or a status is to be read, or the reader is going to store the file again behind the
  observer's post (`Rereads`). The last is the case that makes it hard: `RunPost` changes the
  cache in place and signals nothing, so an entry is announced only by the echo of the
  command that wrote the file (`RunPostTells`, `ServerTells`).
* `LeftInv`: a player that is cached and gone is in a notification or a status to be read.
* `StrayInv`: an entry that differs from the delivered one is of a player in `strayed`, and
  a player that is cached but was not delivered, or the reverse, is in `apart`.
* `CardsInv`: a Players tab that is not stale has the cards of the delivered players, but for
  those in `apart`, and is bound to a dict which holds, of every player that has not strayed,
  what was delivered; its slider is live if that is a volume. It does not matter which dict: this is
  why a status may replace it without a rebuild.
* `IndicatorInv`: unless a rebuild of the Settings tab is still posted, an indicator that
  is not stale is that of some choice, per player, of the volume on file or the one delivered
  (`IndicatorsOf`), or it is `early`.

When nothing is under way, `ToldInv` and `CacheHoldsFiles` make file, cache and delivered
snapshot agree, so the sliders have the one value, and all choices of `IndicatorsOf` give
the same indicator (`QuietTells`, `CardsFollow`, `IndicatorFollows`). `stale` is empty on a
page with nothing deferred by `NoChangeIsLost`'s invariant. How pages change is again
proved once for any tab and any set of what it may show (`Built`, `RebuildBuilds` to
`ScreenBuilds`).

`ClaimFlowProofs` proves for any browsers and any bounds:

* `TypeCorrect` – `TypeOK`;
* `OverrideIsOwned` – `OverrideOwned`;
* `ClaimRunsWithToken` – `ClaimTakesEffect`;
* `RecordIsEvidence` – `RecordedMeansClaimed`.

The only assumption is `ClaimAssumption`: the bounds are natural numbers and `None` is
neither a page nor a claim. `OverrideOwned` is not inductive, because a reload merges
whatever file is there: `Owned` says of the file and of what systemd merged
separately which stages may own them. `Prepared` says of a claim that nothing disturbed
what each stage before the restart has left for the next (the unit stopped, the file
its own, the file merged). `Evidence` follows the token's consumption from the open port
through the flow about to record to the record. `Orphans` belongs to the shape: a flow
whose browser is gone waits for no timer, so it can be given back to no page.

`SourceToggleProofs` proves for any catalog, any units per source, any groups, clicks,
failures, kills and reprovisions:

* `TypeCorrect` – `TypeOK`;
* `OneSourceStays` – `OneSourceStaysEnabled`;
* `ServedAsRecorded` – `ServedMatchesRecord`;
* `UnitsAsRecorded` – `UnitsMatchRecord`;
* `SetupIsDiscarded` – `SetupDiscarded`;
* `ListenersAreMovedFirst` – `ListenersMovedFirst`.

`ToggleAssumption` says what `catalog.py` guarantees: the catalog and each source's units
are finite sequences, no two sources share a unit, the default source is catalogued,
retired ids are not, a source whose setup is a flow is catalogued and not the default, and no device is
flashed with a configuration without a source; beside that, `None` (the absent key) is
neither an id nor a set of ids.

No write trusts what the handler saw before the queue, and so the invariant follows the
write that is under way. `AnotherStays`: between the check inside the queue and the
record, the record does not change, so the source that stays is still there.
`ConfInv` and `UnitsInv` say how far the write has come, the latter unit by unit
(`job.moved`). `SetupInv` adds the disable about to discard a setup; the record that a claim
makes beside the queue is of an enabled source or marked `overtaken` in the same step, and a
later disable takes record and mark away together (`ClaimKeeps`). `ListenersInv` says
why nobody is put back on a source being disabled: Snapserver, which does that when it
restarts, stays up from the reassignment to the restart. `Unrecorded` is what adoption
rests on: until the first write there is no record, conf and units are as
provisioned, only an enable can be queued, and no claim is under way. The proof of `UnitsMatchRecord` failed
at first where nothing is recorded and a click asks for what its card shows already: the
program cannot make that click, and the model's `Click` now says so (`Asked`).

`EventBrokerProofs` proves for any players, groups, streams, attributes, volumes, UI
handlers that reseed and bounds:

* `TypeCorrect` – `TypeOK`;
* `NothingStranded` – `NoStrandedChange`;
* `SlidersAreBound` – `ConnectedHaveVolume`.

`BrokerAssumption`: refused attributes are attributes, `None` is no volume, the reader and
the queue are no UI handlers, the bounds are natural numbers, and `Nothing` (the empty
tuple before the first delivery) is no snapshot, which in the code is a tuple of four.
Given the shape of every variable, `NoStrandedChange` is inductive: each handler that
changes clients, groups or streams ends in `_maybe_signal`, and a task that is
applying a status cannot be overtaken to its end by another one that would count for it
(`DeltaKeeps`, `SignalKeeps`, `StillPending`). `ConnectedHaveVolume` is not:
`_load_volumes` builds the dict from what it remembered before its awaits, so
`HaveVolume` says that, while the reader is alone, nobody has connected meanwhile
(`Solitude`, `BrokerRests`): its notifications wait in the socket. `Shape` contains for
each stage of a task which of its locals mean something.

Every safety invariant of the passing runs, and the refinement, is a theorem. Only
model-checked is everything under fairness (`EverySubmitterAnswered`, `Converges`,
`ReconnectedArePushed`, `EveryToggleEnds`, `SaveEnds`, `ResyncRestores`, `ClaimsEnd`,
`StartingResolves`, `EveryStartIsUsable`): TLAPS proves no liveness under fairness and has no rule for
`ENABLED`. Induction over data (what a recursive function computes for every input) is
out of its reach too.

## 5. Not modelled

* Within the modelled parts: the 250 ms of the debounce are untimed, so a stream of
  notifications that postpones the signal for ever is not distinguished from a
  slow one; group membership and per-field comparison of the snapshot are one
  value; the queue's latency is not measured.
* `NoStrandedChange` excuses one case on purpose: a UI `reseed()` whose status
  holds a client `Player(...)` rejects raises after it cancelled the timer, and
  the change the timer was armed for waits for the next signal.
* `Converges` assumes that no `get_status` fails: `reseed()` logs and swallows
  the failure, and a player that connected then stays unknown until the next full
  status.
* `submit` says that a pending command with the same key is replaced; one that is
  in the drained batch already is not, and runs before the later one. The last write wins
  all the same.
* An edit made between the persist of a save and its end is marked as saved and is
  in no file: `_on_save` takes the working copy of after its last `await` for the saved
  one. `CleanSaveAgrees` excuses saves that were edited across.
* `CleanSaveAgrees` excuses an unreadable file: `update()` compares the new configuration
  with what `get_or_create` returns, which for such a file is the new one itself, so Save
  reports success and stores nothing.
* `SourceToggle` leaves out the refusal of a toggle while a claim is in flight
  (`ClaimFlow` has it) and the status chips.
* The Snapserver client's request loop: one socket per call, on which only the call's own
  id ends the loop, so no answer can be another call's; a call is a step that has its effect
  or raises. The other CLI commands parse arguments and call one function.
* Real-valued parts (headroom search, filters, percent-to-dB curves) are out of TLC's
  reach; feature flags are constant tables; the PlexAmp client, website and brand assets
  keep no state; tests are read as documentation.

What the properties excuse is what the code does, seen while modelling it:

* The record of a completed claim is written in a thread beside the command queue
  (`_plex.py:338`), without a look at whether its source is still enabled. When another
  browser's disable discards the record before that write, and stops PlexAmp only after the
  claim's last probe, the disabled source has its setup record again, and when it is enabled next it does not ask for its
  setup, although "The record is discarded when the source is disabled"
  (`dal/sources.py:10`, `pages/index.py:286`). `SetupDiscarded` excuses exactly those
  records (`overtaken`); without the excuse TLC finds the interleaving.
* `reseed()` says that "Failures are logged and swallowed" because "Raising would abort the
  toggle's success path after the host write already landed" (`broker.py:161`), but
  it applies the status outside its `try` (`broker.py:170`), and a client the Player model
  rejects raises there. The toggle's handler then ends without the refresh that "every
  terminal path" has (`index.py:393`). The card stays busy until something else
  rebuilds the tab, as the observers of `sources.json` do when the record has changed.
  `EveryToggleEnds` counts such a handler as ended (`raised`), not as refreshed.

* The page of a browser that loses its connection is taken from the registry
  (`pages/__init__.py`) and never put back when the same client reconnects, although
  `connected_pages` says every connected browser. `ChangesAreRemembered` and
  `QuietPagesFollow` speak of registered pages.
* All overlays of a page share one flag. A handler that ends late refreshes the Players tab
  and deletes a menu opened meanwhile: the flag stays set, and every later change is
  deferred until another overlay closes, although a comment says that every path that
  refreshes clears it first. The save of a settings dialog that was dismissed clears
  the flag under an overlay opened since. `mixed` excuses overlays that overlap.
* A full status replaces the dict that sliders are bound to. If the new one equals what was
  last delivered, there is no dirty and no rebuild: a player that leaves and returns
  within the debounce, or a volume moved away and back, leaves sliders on the old
  dict. That shows the right value unless an echo or an observer had put another one in it:
  `Outdated` excuses those players only (`strayed`). A page loaded, or refreshed by a
  handler, while the player was gone has no card of it afterwards ("Reverted during the quiet
  period; nothing to deliver"), although decision record 005 promises that a connection is
  reflected in every open browser: `apart` excuses that. Without either excuse TLC finds
  a short counterexample.
* An indicator built while the cache is neither what was delivered nor what the files hold
  may stay wrong when the cache returns to what was delivered, since no dirty follows:
  `early`. So may one over a cache of which a command failed.
* A balance saved while a status is loaded is a snapshot of a cache that may lack a player.
* `settings` are saved as a whole copy of what the page was built with: of two browsers that
  change different features one is lost.
* A loudness change that crosses no mute boundary does reach other browsers, by the
  echo of the mute command that follows it, although decision record 005 says that
  it produces no broker event.
* `connected_profile` is never cleared: a later attempt at that network deletes its profile
  and may fail. `ConnectedIsStored` stops where somebody tries it again.
* A Finish that fails after the access point is down leaves its button disabled and
  nobody able to reach the page, until a power cut.
* The player's unit is a oneshot that does not restart: a `create()` that fails leaves a
  player without a wizard. `EveryStartIsUsable` is about the streamer's unit.
* Enterprise networks are offered to the user although `netifaces.py` says they are
  unsupported; in the model such an attempt is one with a wrong key.

## 6. Plan

In this order:

1. For the reference indicator, what a page built in the middle of a load is owed.
2. Pure operators: the compiled DSP pipeline against a reference denotation, and the
   rows of the Players tab against the cache.
3. What a move does to groups, beside a Snapserver that merges and splits them.
