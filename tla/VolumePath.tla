----------------------------- MODULE VolumePath ------------------------------
(***************************************************************************)
(* A player's loudness on its way from a slider to every browser: the      *)
(* command that writes CamillaDSP, the volume file and Snapserver's mute   *)
(* (pages/index.py), the observer of the volume file (ui/streamer), the    *)
(* broker's reader, which loads volumes with each status and follows       *)
(* Snapserver's notifications, and the pages, whose sliders are bound to   *)
(* the dict of volumes that was the cache's when the card was built.       *)
(*                                                                         *)
(* The broker is reduced to its reader: its connection does not break, and *)
(* no handler of a page reseeds beside it; EventBroker has both.           *)
(***************************************************************************)
EXTENDS PageFanout, Sequences

CONSTANTS Players, Levels, None, Absent,
          Start,         \* what each player's CamillaDSP plays at the start
          Known,         \* players whose volume is on file by then
          MaxEvents      \* bound: overlays opened, what users set or save, players
                         \* that come or go, streams that change, calls that fail,
                         \* browsers that reconnect

ASSUME VolumeAssumption ==
  /\ Levels \subseteq Nat /\ Levels # {} /\ Known \subseteq Players
  /\ Start \in [Players -> Levels]
  /\ None \notin Levels /\ Absent \notin Levels /\ None # Absent
  /\ MaxOverlays \in Nat /\ MaxEvents \in Nat

VARIABLES
  dev,       \* CamillaDSP of each player
  dal,       \* the volume files
  muted,     \* Snapserver's mute of each player
  ref,       \* balance.json
  online, streams,        \* Snapserver: connected players, changes of its streams
  wire,      \* notifications the reader has not read
  reader,    \* the reader task
  cached, seenStreams,    \* the cache: connected players, streams
  volumes,   \* every dict cache.volumes was; the last one is the cache's
  prev, armed,            \* the delivered snapshot, the debounce timer
  strayed,   \* history: players whose volume has differed from the delivered one
  apart,     \* history: players of which whether they are there has
  queue, worker,          \* commands waiting, and the one in its thread
  posts,     \* posted to the loop: tabs to rebuild, and what the volume files held
  restore,   \* the Restore under way
  moves, upsets,          \* what users did, and everything else that happened
  failed,    \* history: players of which a command failed
  last       \* history: what was last submitted for each player

host == <<dev, dal, muted, ref>>
snapserver == <<online, streams>>
cache == <<cached, seenStreams, volumes, prev, strayed, apart, armed>>
bounds == <<moves, upsets, failed>>
vars == <<page, opened, host, snapserver, wire, reader, cache, queue, worker,
          posts, restore, bounds, last>>

Volumes == [Players -> Levels \cup {None, Absent}]
Current == volumes[Len(volumes)]

Resting == [stage |-> "idle", player |-> None, percent |-> None, muted |-> FALSE,
            all |-> None]
AtRest == [stage |-> "idle", player |-> None, percent |-> None, all |-> None,
           seen |-> None, todo |-> {}, behind |-> 0]
NoRestore == [page |-> None, todo |-> {}, at |-> None, balance |-> None]

(* _at_reference *)
AtReference(players, vols, balance) ==
  /\ balance # None /\ players # {}
  /\ \A p \in players : balance[p] # None /\ vols[p] = balance[p]

Snapshot == <<cached, Current, seenStreams>>

(* What a tab shows: the players' cards, and the volumes they were built   *)
(* with, since a slider is live when its player's was known.               *)
(* early: it was built from a cache on its way between what was delivered  *)
(* and the files; a dirty is due only if that ends elsewhere than it was.  *)
Rendering(players, dicts, balance, early) ==
  [players |-> [dict |-> Len(dicts), cards |-> players,
                known |-> {p \in players : dicts[Len(dicts)][p] \in Levels}],
   settings |-> [at |-> AtReference(players, dicts[Len(dicts)], balance), early |-> early],
   sources |-> None]
CatchingUp(vols) ==
  cached # prev[1] \/ \E p \in cached : vols[p] \notin {dal[p], prev[2][p]}
Now == Rendering(cached, volumes, ref, CatchingUp(Current))

(* A known volume for the first player, none yet for those that come.      *)
Init ==
  /\ dev = Start
  /\ online = Known /\ cached = Known
  /\ dal = [p \in Players |-> IF p \in Known THEN dev[p] ELSE None]
  /\ volumes = << [p \in Players |-> IF p \in Known THEN dev[p] ELSE Absent] >>
  /\ ref \in {None, dal}
  /\ muted = [p \in Players |-> dal[p] = 0]
  /\ streams = 0 /\ seenStreams = 0
  /\ prev = <<cached, Current, 0>>
  /\ strayed = {} /\ apart = {} /\ armed = FALSE
  /\ wire = <<>> /\ queue = <<>> /\ posts = <<>>
  /\ reader = AtRest /\ worker = Resting
  /\ restore = NoRestore
  /\ page = [b \in Pages |-> Loaded(Rendering(cached, volumes, ref, FALSE))] /\ opened = 0
  /\ moves = 0 /\ upsets = 0 /\ failed = {}
  /\ last = [p \in Players |-> [percent |-> dev[p], muted |-> muted[p]]]

Room == moves + upsets + opened < MaxEvents
Act == Room /\ moves' = moves + 1 /\ UNCHANGED <<upsets, failed>>
Upset == Room /\ upsets' = upsets + 1 /\ UNCHANGED moves

-----------------------------------------------------------------------------
(* Snapserver: players come and go, streams change.                        *)
Notify(n) == wire' = Append(wire, n)

ServerChange ==
  /\ Upset /\ UNCHANGED failed
  /\ \/ \E p \in Players \ online : online' = online \cup {p} /\ UNCHANGED streams
          /\ Notify([kind |-> "status", player |-> None])
     \/ \E p \in online : online' = online \ {p} /\ UNCHANGED streams
          /\ Notify([kind |-> "gone", player |-> p])
     \/ streams' = streams + 1 /\ UNCHANGED online
          /\ Notify([kind |-> "stream", player |-> None])
     \/ UNCHANGED snapserver /\ Notify([kind |-> "status", player |-> None])
  /\ UNCHANGED <<page, opened, host, reader, cache, queue, worker, posts, restore,
                 last>>

-----------------------------------------------------------------------------
(* The broker's reader.                                                    *)
(* Slip: a volume that changes is not signalled. *)
SignalPlayers == armed' = (armed \/ cached' # prev[1] \/ seenStreams' # prev[3])

MaybeSignal == armed' = (armed \/ Snapshot' # prev)

Stray ==
  /\ strayed' = strayed \cup {p \in Players : Current'[p] # prev[2][p]}
  /\ apart' = apart \cup (cached' \ prev[1]) \cup (prev[1] \ cached')

Put(p, v) == volumes' = [volumes EXCEPT ![Len(volumes)][p] = v]
Idle == reader' = AtRest

(* A thread's answer comes to the loop behind what was posted before it.   *)
Resumes(stage) == reader.stage = stage /\ reader.behind = 0
rest == <<page, opened, host, snapserver, queue, worker, restore, last>>

(* A full status replaces the players and cancels the timer; a change is    *)
(* applied in place; the echo of a volume command has the file read again. *)
ReadNotification ==
  /\ reader.stage = "idle" /\ wire # <<>>
  /\ wire' = Tail(wire)
  /\ LET n == Head(wire)
     IN  \/ /\ n.kind = "status"
            /\ cached' = online /\ seenStreams' = streams /\ armed' = FALSE
            /\ reader' = [AtRest EXCEPT !.stage = "load"]
            /\ UNCHANGED <<volumes, prev>> /\ Stray
         \/ /\ n.kind = "gone"
            /\ cached' = cached \ {n.player} /\ Put(n.player, Absent)
            /\ UNCHANGED <<seenStreams, prev>> /\ MaybeSignal /\ Stray /\ Idle
         \/ /\ n.kind = "stream"
            /\ seenStreams' = streams
            /\ UNCHANGED <<cached, volumes, prev, strayed, apart>> /\ MaybeSignal /\ Idle
         \/ /\ n.kind = "echo"
            /\ reader' = [AtRest EXCEPT !.stage = "get", !.player = n.player]
            /\ UNCHANGED cache
  /\ UNCHANGED <<rest, posts, bounds>>

(* Slip: every player's CamillaDSP is read again. *)
LoadEverything ==
  /\ reader.stage = "load"
  /\ reader' = [reader EXCEPT !.stage = "seed", !.seen = dal, !.behind = Len(posts),
                              !.todo = cached]
  /\ UNCHANGED <<rest, wire, cache, posts, bounds>>

(* _load_volumes: the files, then each missing player's CamillaDSP.        *)
LoadFiles ==
  /\ reader.stage = "load"
  /\ reader' = [reader EXCEPT !.stage = "seed", !.seen = dal, !.behind = Len(posts),
                              !.todo = {p \in cached : dal[p] = None}]
  /\ UNCHANGED <<rest, wire, cache, posts, bounds>>

SeedOne ==
  /\ Resumes("seed") /\ reader.todo # {}
  /\ \E p \in reader.todo :
       \/ reader' = [reader EXCEPT !.stage = "file", !.player = p, !.percent = dev[p],
                                   !.todo = @ \ {p}]
            /\ UNCHANGED bounds
       \/ Upset /\ UNCHANGED failed /\ reader' = [reader EXCEPT !.todo = @ \ {p}]
  /\ UNCHANGED <<rest, wire, cache, posts>>

(* The new dict, in place of the old one that sliders are bound to.        *)
Rebuilt(vols) == [p \in Players |-> IF p \in cached THEN vols[p] ELSE Absent]

FinishLoad ==
  /\ Resumes("seed") /\ reader.todo = {}
  /\ volumes' = Append(volumes, Rebuilt(reader.seen))
  /\ Idle /\ UNCHANGED <<cached, seenStreams, prev>> /\ MaybeSignal /\ Stray
  /\ UNCHANGED <<rest, wire, posts, bounds>>

(* Client.OnVolumeChanged: the file is read in a thread, stored afterwards. *)
GetFile ==
  /\ reader.stage = "get"
  /\ reader' = [reader EXCEPT !.stage = "store", !.percent = dal[reader.player],
                              !.behind = Len(posts)]
  /\ UNCHANGED <<rest, wire, cache, posts, bounds>>

(* Slip: only the player's mute is taken from it. *)
StoreNothing ==
  /\ Resumes("store")
  /\ Idle /\ UNCHANGED <<cached, seenStreams, prev, volumes, strayed, apart>> /\ MaybeSignal
  /\ UNCHANGED <<rest, wire, posts, bounds>>

(* Stored for every client of the last status, connected or not.           *)
StoreVolume ==
  /\ Resumes("store")
  /\ \/ reader.percent # None /\ Put(reader.player, reader.percent)
     \/ (reader.percent # None => reader.player \notin cached) /\ UNCHANGED volumes
  /\ Idle /\ UNCHANGED <<cached, seenStreams, prev>> /\ MaybeSignal /\ Stray
  /\ UNCHANGED <<rest, wire, posts, bounds>>

(* _signal_dirty, and the fan-out to every page.                           *)
Deliver(tabs) ==
  /\ armed /\ armed' = FALSE
  /\ IF Snapshot = prev THEN UNCHANGED <<page, prev, strayed, apart>>
     ELSE /\ prev' = Snapshot /\ strayed' = {} /\ apart' = {}
          /\ FanOut(tabs \cup IF seenStreams # prev[3] THEN {"sources"} ELSE {},
                    Rendering(cached, volumes, ref, FALSE))
  /\ UNCHANGED <<opened, host, snapserver, wire, reader, cached, seenStreams, volumes,
                 queue, worker, posts, restore, bounds, last>>

(* Slip: the cards keep the dict they are bound to. *)
DirtySettings == Deliver({"settings"})

Dirty == Deliver({"players", "settings"})

-----------------------------------------------------------------------------
(* volume_dal.set: a file that would not change is left alone; otherwise   *)
(* the observer reads every file and posts them, all in the writer's thread. *)
WriteFile(p, v, writer, done) ==
  /\ dal' = [dal EXCEPT ![p] = v]
  /\ writer' = IF dal[p] = v THEN done ELSE [writer EXCEPT !.stage = "list"]
  /\ UNCHANGED bounds

Post(tabs, all) == posts' = Append(posts, [tabs |-> tabs, all |-> all])

ReadAll(writer) == writer.stage = "list" /\ writer' = [writer EXCEPT !.stage = "post", !.all = dal]
PostAll(writer, done) ==
  writer.stage = "post" /\ Post({"settings"}, writer.all) /\ writer' = done

Unseeded == [reader EXCEPT !.stage = "seed", !.player = None, !.percent = None, !.all = None,
                           !.behind = Len(posts')]
Seeded == [Unseeded EXCEPT !.seen[reader.player] = reader.percent]

SeedFile ==
  /\ \/ reader.stage = "file" /\ UNCHANGED posts
          /\ WriteFile(reader.player, reader.percent, reader, Seeded)
     \/ reader.stage = "file" /\ UNCHANGED <<dal, posts, failed>> /\ Upset
          /\ reader' = Unseeded
     \/ ReadAll(reader) /\ UNCHANGED <<dal, posts, bounds>>
     \/ PostAll(reader, Seeded) /\ UNCHANGED <<dal, bounds>>
  /\ UNCHANGED <<page, opened, dev, muted, ref, snapserver, wire, cache, queue, worker,
                 restore, last>>

-----------------------------------------------------------------------------
(* Commands.  One runs at a time, in order; one with a later one of its key *)
(* behind it may have been replaced by it.                                 *)
Volume(p, v) == [kind |-> "volume", player |-> p, percent |-> v, muted |-> v = 0]
Mute(p, m) == [kind |-> "mute", player |-> p, percent |-> None, muted |-> m]

Submit(c) ==
  /\ queue' = Append(queue, c)
  /\ last' = [last EXCEPT ![c.player] =
                [percent |-> IF c.kind = "volume" THEN c.percent ELSE @.percent,
                 muted |-> c.muted]]

Replaced == \E i \in 2 .. Len(queue) : queue[i].kind = "volume"
                                       /\ queue[i].player = Head(queue).player

Take ==
  /\ worker.stage = "idle" /\ queue # <<>>
  /\ queue' = Tail(queue)
  /\ \/ worker' = [Resting EXCEPT !.stage = IF Head(queue).kind = "volume" THEN "device" ELSE "side",
                                  !.player = Head(queue).player,
                                  !.percent = Head(queue).percent,
                                  !.muted = Head(queue).muted]
     \/ Head(queue).kind = "volume" /\ Replaced /\ UNCHANGED worker
  /\ UNCHANGED <<page, opened, host, snapserver, wire, reader, cache, posts, restore,
                 bounds, last>>

(* _apply_volume: the device, the file, then the mute.                     *)
Side == [worker EXCEPT !.stage = "side", !.all = None]

ApplyVolume ==
  /\ \/ /\ worker.stage = "device"
        /\ dev' = [dev EXCEPT ![worker.player] = worker.percent]
        /\ worker' = [worker EXCEPT !.stage = "file"]
        /\ UNCHANGED <<dal, muted, wire, posts, bounds>>
     \/ /\ worker.stage = "file" /\ WriteFile(worker.player, worker.percent, worker, Side)
        /\ UNCHANGED <<dev, muted, wire, posts>>
     \/ /\ ReadAll(worker) /\ UNCHANGED <<dev, dal, muted, wire, posts, bounds>>
     \/ /\ PostAll(worker, Side) /\ UNCHANGED <<dev, dal, muted, wire, bounds>>
     \/ /\ worker.stage = "side"
        /\ muted' = [muted EXCEPT ![worker.player] = worker.muted]
        /\ Notify([kind |-> "echo", player |-> worker.player])
        /\ worker' = Resting
        /\ UNCHANGED <<dev, dal, posts, bounds>>
  /\ UNCHANGED <<page, opened, ref, snapserver, reader, cache, queue, restore, last>>

(* A call raises; the submitter swallows it.                               *)
CommandFails ==
  /\ worker.stage \in {"device", "file", "side"}
  /\ Upset /\ failed' = failed \cup {worker.player} /\ worker' = Resting
  /\ UNCHANGED <<page, opened, host, snapserver, wire, reader, cache, queue, posts,
                 restore, last>>

(* The loop runs what an observer of a file posted.                        *)
RunPost ==
  /\ posts # <<>> /\ posts' = Tail(posts)
  /\ LET all == Head(posts).all
     IN  IF all = None THEN UNCHANGED volumes
         ELSE volumes' = [volumes EXCEPT ![Len(volumes)] =
                [p \in Players |-> IF all[p] = None THEN @[p] ELSE all[p]]]
  /\ FanOut(Head(posts).tabs, Rendering(cached, volumes', ref, CatchingUp(Current')))
  /\ reader' = [reader EXCEPT !.behind = IF @ = 0 THEN 0 ELSE @ - 1]
  /\ UNCHANGED <<opened, host, snapserver, wire, cached, seenStreams, prev, armed,
                 queue, worker, restore, bounds, last>>
  /\ Stray

-----------------------------------------------------------------------------
(* Users.                                                                  *)
others == <<snapserver, wire, reader, cache, worker>>

(* A slider is dead while its volume was unknown, and under an overlay.    *)
Slide(b, p) ==
  /\ Act /\ page[b].connected /\ page[b].open = {}
  /\ p \in page[b].shown.players.known
  /\ \E v \in Levels : Submit(Volume(p, v))
  /\ UNCHANGED <<page, opened, host, others, posts, restore>>

(* Mute, Reset: nothing is rebuilt. *)
SetMute(b, p) ==
  /\ Act /\ page[b].connected /\ p \in cached
  /\ \E m \in BOOLEAN : Submit(Mute(p, m))
  /\ UNCHANGED <<page, opened, host, others, posts, restore>>

(* The balance is what the cache says, and a save changes no volume.       *)
SaveBalance(b) ==
  /\ Act /\ page[b].connected /\ page[b].open = {}
  /\ ref' = [p \in Players |-> IF Current[p] \in Levels THEN Current[p] ELSE None]
  /\ Post({"settings"}, None)
  /\ With(b, Rebuild(page[b], {"settings"}, Rendering(cached, volumes, ref', CatchingUp(Current))))
  /\ UNCHANGED <<opened, dev, dal, muted, others, queue, restore, last>>

(* Restore goes through the players that were connected, one after the     *)
(* other, and then rebuilds the tab.                                       *)
Restore(b) ==
  /\ Act /\ page[b].connected /\ page[b].open = {} /\ ref # None /\ restore.page = None
  /\ restore' = [page |-> b, todo |-> {p \in cached : ref[p] # None}, at |-> None,
                 balance |-> ref]
  /\ UNCHANGED <<page, opened, host, others, queue, posts, last>>

Pending(c) == c.player = restore.at /\ c.percent # None
Awaited == restore.at # None
           /\ (Pending(worker) \/ \E i \in 1 .. Len(queue) : Pending(queue[i]))

RestoreNext ==
  /\ restore.page # None /\ ~Awaited
  /\ \/ \E p \in restore.todo :
          /\ Submit(Volume(p, restore.balance[p]))
          /\ restore' = [restore EXCEPT !.todo = @ \ {p}, !.at = p]
          /\ UNCHANGED page
     \/ /\ restore.todo = {}
        /\ With(restore.page, Rebuild(page[restore.page], {"players"}, Now))
        /\ restore' = NoRestore
        /\ UNCHANGED <<queue, last>>
  /\ UNCHANGED <<opened, host, others, posts, bounds>>

(* A player's switch, a feature, a toggle: its command is elsewhere, and   *)
(* what it wrote is announced.                                             *)
OtherHandler(b) ==
  /\ Act
  /\ \/ Begin(b, "refresh") /\ UNCHANGED posts
     \/ Begin(b, "refresh") /\ Post({"players", "settings"}, None)
     \/ Begin(b, "toggle") /\ Post({"sources", "players"}, None)
  /\ UNCHANGED <<host, others, queue, restore, last>>

OnScreen(b) ==
  /\ Screen(b, Now) /\ (Room \/ UNCHANGED opened)
  /\ UNCHANGED <<host, others, queue, posts, restore, bounds, last>>

(* The browser loses its connection, comes back, or is reloaded.           *)
Browser(b) ==
  /\ \/ Upset /\ (Disconnect(b) \/ Reload(b, Now))
     \/ Reconnect(b) /\ UNCHANGED <<moves, upsets>>
  /\ UNCHANGED <<host, others, queue, posts, restore, failed, last>>

-----------------------------------------------------------------------------
Reader == \/ ReadNotification \/ LoadFiles \/ SeedOne \/ SeedFile \/ FinishLoad
          \/ GetFile \/ StoreVolume
Worker == Take \/ ApplyVolume

Next ==
  \/ ServerChange \/ Reader \/ Dirty \/ Worker \/ CommandFails \/ RunPost \/ RestoreNext
  \/ \E b \in Pages :
       \/ SaveBalance(b) \/ Restore(b) \/ OtherHandler(b) \/ OnScreen(b) \/ Browser(b)
       \/ \E p \in Players : Slide(b, p) \/ SetMute(b, p)

Spec == Init /\ [][Next]_vars

-----------------------------------------------------------------------------
(* Once the commands are done, the device, the file and the mute are what  *)
(* was last submitted for a player, whatever was coalesced, restored or    *)
(* seeded meanwhile, unless a call failed.                                 *)
LastSubmittedWins ==
  queue = <<>> /\ worker.stage = "idle" =>
    \A p \in Players \ failed :
                       /\ dev[p] = last[p].percent
                       /\ dal[p] \in {None, last[p].percent}
                       /\ muted[p] = last[p].muted

(* What a card's slider shows.  Its dict may be one that a status replaced  *)
(* without a dirty, since it held what had been delivered; what an echo or *)
(* an observer put in it before that stays on the slider.  So does a card, *)
(* or the lack of one, of a page built while its player was apart.         *)
Slider(b, p) == volumes[page[b].shown.players.dict][p]
Outdated(b, p) == page[b].shown.players.dict # Len(volumes) /\ p \in strayed

Follows(b) ==
  /\ page[b].shown.players.cards \ apart = cached \ apart
  /\ \A p \in (cached \cap page[b].shown.players.cards) \ failed :
       IF p \in page[b].shown.players.known THEN Slider(b, p) = dal[p] \/ Outdated(b, p)
       ELSE dal[p] \notin Levels \/ p \in strayed
  /\ \/ page[b].shown.settings.at = AtReference(cached, Current, ref)
     \/ page[b].shown.settings.early \/ cached \cap failed # {}

Quiet == /\ queue = <<>> /\ worker.stage = "idle" /\ posts = <<>>
         /\ wire = <<>> /\ reader.stage = "idle" /\ ~armed

(* When nothing is under way, the cache holds of each connected player what *)
(* its file does, unless a command of it failed: although observers post    *)
(* what they read before other writes, and out of order, and the reader     *)
(* loads and stores what it read before them.                               *)
CacheFollowsFiles == Quiet => \A p \in online \ failed : Current[p] = dal[p]

(* Then the snapshot that was delivered last is what the cache holds, as   *)
(* far as commands did not fail: although an observer changes the cache    *)
(* without signalling, and a full status cancels the timer.                *)
CacheWasDelivered ==
  Quiet => /\ cached = prev[1] /\ seenStreams = prev[3]
           /\ \A p \in online \ failed : Current[p] = prev[2][p]

(* So every page has the cards of the players that are there, their        *)
(* sliders and its reference indicator show what the files hold, and a     *)
(* slider is live once there is a volume, unless the page has something    *)
(* deferred: although each status replaces the dict sliders are bound to.  *)
QuietPagesFollow ==
  Quiet => \A b \in Pages : page[b].registered /\ ~page[b].flag => Follows(b)
=============================================================================
