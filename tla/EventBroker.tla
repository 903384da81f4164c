----------------------------- MODULE EventBroker -----------------------------
(***************************************************************************)
(* audera/ui/streamer/broker.py: the process-wide cache of what Snapserver *)
(* serves, and the debounced signal that makes the open pages rebuild.     *)
(*                                                                         *)
(* Three kinds of tasks interleave on one asyncio loop, switching only at  *)
(* an await: the reader task of the persistent WebSocket, the UI handlers  *)
(* that call reseed() after a source toggle, and the debounce timer.  They *)
(* wait for worker threads that read Snapserver and the volume DAL; what a *)
(* thread read may be stale when its task resumes.  Volume writes come     *)
(* from other threads and are pushed into the cache by _on_volume_changed  *)
(* (audera/ui/streamer/__init__.py).                                       *)
(*                                                                         *)
(* Data abstraction.  A client is [on, attr]: whether it is connected, and *)
(* everything else about it (name, latency, Snapcast volume, mute, group)  *)
(* as one value.  A group is its stream (and mute) as one value, a stream  *)
(* its status.  The cache snapshot of the code compares all of it.         *)
(***************************************************************************)
EXTENDS Naturals, Sequences, FiniteSets, Functions

CONSTANTS
  Players, Groups, Streams,
  Attrs,        (* attribute values of a client                             *)
  OutOfRange,   (* those Player(...) rejects, e.g. a latency beyond 500 ms  *)
  Settings,     (* values of a group or of a stream                         *)
  Levels,       (* volume percents                                          *)
  None,         (* no volume known                                          *)
  Nothing,      (* _prev_snapshot = (): equal to no snapshot                *)
  Reseeders,    (* UI handlers that call reseed(), once each                *)
  MaxEvents,    (* bound on the changes Snapserver makes                    *)
  MaxRefusals,  (* bound on failed get_status calls                         *)
  MaxUpsets     (* bound on lost connections, failed DSP pushes and volume  *)
                (* writes together                                          *)

(* What the parsers build and what the cache holds: maps of the clients,    *)
(* groups and streams that Snapserver named, and of their volumes.          *)
ClientMaps == UNION {[ps -> [on : BOOLEAN, attr : Attrs]] : ps \in SUBSET Players}
GroupMaps == UNION {[gs -> Settings] : gs \in SUBSET Groups}
StreamMaps == UNION {[xs -> Settings] : xs \in SUBSET Streams}
Statuses == [clients : ClientMaps, groups : GroupMaps, streams : StreamMaps]
VolumeMaps == UNION {[ps -> Levels \cup {None}] : ps \in SUBSET Players}
Snapshots == [clients : ClientMaps, groups : GroupMaps, streams : StreamMaps,
              volumes : VolumeMaps]

ASSUME BrokerAssumption ==
  /\ OutOfRange \subseteq Attrs
  /\ None \notin Levels
  /\ Nothing \notin Snapshots
  /\ {"reader", "queue"} \cap Reseeders = {}
  /\ {MaxEvents, MaxRefusals, MaxUpsets} \subseteq Nat

VARIABLES
  srv,          (* what Server.GetStatus would answer now                   *)
  link,         (* the persistent socket: "down", "asked" (seed owed), "up" *)
  wire,         (* messages sent on it and not received yet                 *)
  stale,        (* players whose DSP pipeline was reset and not re-pushed   *)
  cache,        (* EventBroker.cache                                        *)
  prev,         (* _prev_snapshot                                           *)
  armed,        (* _debounce_handle is not None                             *)
  stopped,      (* _stopped                                                 *)
  task,         (* where each task is, and its local variables              *)
  dal,          (* the volume DAL                                           *)
  writers,      (* threads inside volume_dal.set, by what they still owe    *)
  posts,        (* call_soon_threadsafe callbacks of _on_volume_changed     *)
  left          (* what is left of each bound                               *)

vars == <<srv, link, wire, stale, cache, prev, armed, stopped, task, dal, writers, posts, left>>

external == <<srv, link, wire, stale>>
volumeVars == <<dal, writers, posts>>

Reader == "reader"
Queue == "queue"   (* the command queue's worker, for the volumes it writes   *)
Tasks == {Reader} \cup Reseeders

NoStatus == [clients |-> <<>>, groups |-> <<>>, streams |-> <<>>]

(* The local variables of a task that is not in the middle of anything.     *)
At(stage) ==
  [stage |-> stage, why |-> None, status |-> NoStatus, seen |-> <<>>,
   connected |-> {}, missing |-> {}]

Init ==
  /\ srv = [clients |-> <<>>, groups |-> <<>>, streams |-> <<>>]
  /\ link = "down"
  /\ wire = <<>>
  /\ stale = {}
  /\ cache = [clients |-> <<>>, groups |-> <<>>, streams |-> <<>>, volumes |-> <<>>]
  /\ prev = Nothing
  /\ armed = FALSE
  /\ stopped = FALSE
  /\ task = [t \in Tasks |-> At(IF t = Reader THEN "sleep" ELSE "new")]
  /\ dal = [p \in Players |-> None]
  /\ writers = {}
  /\ posts = <<>>
  /\ left = [events |-> MaxEvents, refusals |-> MaxRefusals, upsets |-> MaxUpsets]

Spend(what) == left[what] > 0 /\ left' = [left EXCEPT ![what] = @ - 1]

(* f with its value at x replaced, or x added to its domain.                *)
With(f, x, v) == [y \in DOMAIN f \cup {x} |-> IF y = x THEN v ELSE f[y]]

Connected(clients) == {p \in DOMAIN clients : clients[p].on}

Status(c) == [clients |-> c.clients, groups |-> c.groups, streams |-> c.streams]

-----------------------------------------------------------------------------
(* Snapserver and the network, as the broker sees them.                     *)

Notify(method, id, value) ==
  wire' = IF link = "down" THEN wire
          ELSE Append(wire, [method |-> method, id |-> id, value |-> value])

(* A player connects, perhaps freshly re-provisioned: then its CamillaDSP   *)
(* daemon has an empty pipeline.                                            *)
ClientConnects(p) ==
  /\ p \notin Connected(srv.clients)
  /\ \E a \in Attrs :
       /\ p \in DOMAIN srv.clients => a = srv.clients[p].attr
       /\ srv' = [srv EXCEPT !.clients = With(@, p, [on |-> TRUE, attr |-> a])]
  /\ \E reset \in SUBSET {p} : stale' = stale \cup reset
  /\ Notify("Client.OnConnect", p, None)

ClientDisconnects(p) ==
  /\ p \in Connected(srv.clients)
  /\ srv' = [srv EXCEPT !.clients[p].on = FALSE]
  /\ Notify("Client.OnDisconnect", p, None)
  /\ UNCHANGED stale

(* A new name or latency, or a new Snapcast volume or mute, which cannot    *)
(* take a client in or out of range.                                        *)
ClientChanges(p, a) ==
  /\ p \in DOMAIN srv.clients /\ srv.clients[p].attr # a
  /\ srv' = [srv EXCEPT !.clients[p].attr = a]
  /\ \/ Notify("Client.OnNameChanged", p, a)
     \/ /\ (a \in OutOfRange) = (srv.clients[p].attr \in OutOfRange)
        /\ Notify("Client.OnVolumeChanged", p, a)
  /\ UNCHANGED stale

GroupChanges(g, s) ==
  /\ g \in DOMAIN srv.groups /\ srv.groups[g] # s
  /\ srv' = [srv EXCEPT !.groups[g] = s]
  /\ Notify("Group.OnStreamChanged", g, s)
  /\ UNCHANGED stale

StreamUpdates(x, s) ==
  /\ x \in DOMAIN srv.streams => srv.streams[x] # s
  /\ srv' = [srv EXCEPT !.streams = With(@, x, s)]
  /\ Notify("Stream.OnUpdate", x, s)
  /\ UNCHANGED stale

(* Regrouping, or the deletion of a client: Server.OnUpdate carries the     *)
(* whole status.                                                            *)
ServerUpdates ==
  /\ \/ \E p \in DOMAIN srv.clients :
          srv' = [srv EXCEPT !.clients = Restrict(@, DOMAIN @ \ {p})]
     \/ \E g \in Groups \ DOMAIN srv.groups, s \in Settings :
          srv' = [srv EXCEPT !.groups = With(@, g, s)]
  /\ Notify("Server.OnUpdate", None, srv')
  /\ UNCHANGED stale

(* After stop() the broker's process exits: what follows is of no interest. *)
ServerStep ==
  /\ ~ stopped
  /\ \/ \E p \in Players :
          \/ ClientConnects(p)
          \/ ClientDisconnects(p)
          \/ \E a \in Attrs : ClientChanges(p, a)
     \/ \E g \in Groups, s \in Settings : GroupChanges(g, s)
     \/ \E x \in Streams, s \in Settings : StreamUpdates(x, s)
     \/ ServerUpdates
  /\ Spend("events")
  /\ UNCHANGED <<link, cache, prev, armed, stopped, task, volumeVars>>

(* The connection breaks; messages not received yet may be lost, the last   *)
(* ones first.                                                              *)
Drop ==
  /\ link # "down"
  /\ link' = "down"
  /\ \E n \in 0..Len(wire) : wire' = SubSeq(wire, 1, n)
  /\ Spend("upsets")
  /\ UNCHANGED <<srv, stale, cache, prev, armed, stopped, task, volumeVars>>

(* Snapserver answers the Server.GetStatus the reader sends on connecting.  *)
AnswerSeed ==
  /\ link = "asked"
  /\ link' = "up"
  /\ wire' = Append(wire, [method |-> "broker-seed", id |-> None, value |-> srv])
  /\ UNCHANGED <<srv, stale, cache, prev, armed, stopped, task, volumeVars, left>>

-----------------------------------------------------------------------------
(* _maybe_signal: arm the debounce timer when the cache differs from the    *)
(* last delivered snapshot; leave it as it is otherwise.                    *)
MaybeSignal(timer, c) == armed' = (timer \/ c # prev)

(* _signal_dirty, 250 ms after the last _maybe_signal.                      *)
SignalDirty ==
  /\ armed
  /\ armed' = FALSE
  /\ prev' = cache
  /\ UNCHANGED <<external, cache, stopped, task, volumeVars, left>>

Goto(t, local) == task' = [task EXCEPT ![t] = local]

(* An exception leaves the reader's connection and sends it to sleep, or    *)
(* ends a UI handler.                                                       *)
Raise(t) == Goto(t, At(IF t = Reader THEN "sleep" ELSE "raised"))

(* _apply_full_status up to its first await.  The parsers build every       *)
(* Player before the first assignment, so a rejected client leaves the      *)
(* cache alone; the timer is cancelled already.                             *)
BeginApply(t, status, why) ==
  /\ armed' = FALSE
  /\ IF \E p \in DOMAIN status.clients : status.clients[p].attr \in OutOfRange
     THEN /\ Raise(t)
          /\ UNCHANGED cache
     ELSE /\ cache' = [cache EXCEPT !.clients = status.clients,
                                    !.groups = status.groups,
                                    !.streams = status.streams]
          /\ Goto(t, [At("load") EXCEPT !.why = why])

(* Slip: the pages are told nothing after a UI reseed.                      *)
OnlyReaderSignals(t, c) ==
  /\ IF t = Reader THEN MaybeSignal(armed, c) ELSE UNCHANGED armed
  /\ Goto(t, IF t # Reader THEN At("end") ELSE At("recv"))

(* What follows a full status: reseed() and the reader both signal; after   *)
(* Client.OnConnect the reader goes on to _resync_dsp.                      *)
AfterApply(t, c) ==
  /\ MaybeSignal(armed, c)
  /\ Goto(t, IF t # Reader THEN At("end")
             ELSE IF task[t].why \in DOMAIN c.clients
                  THEN [At("resync") EXCEPT !.why = task[t].why]
                  ELSE At("recv"))

-----------------------------------------------------------------------------
(* The reader task.                                                         *)

(* connect() and the seed request, after the backoff.                       *)
Connect ==
  /\ task[Reader].stage = "sleep" /\ ~ stopped
  /\ link' = "asked"
  /\ wire' = <<>>
  /\ Goto(Reader, At("recv"))
  /\ UNCHANGED <<srv, stale, cache, prev, armed, stopped, volumeVars, left>>

(* recv() raises once the buffered messages are consumed.                   *)
ConnectionLost ==
  /\ task[Reader].stage = "recv" /\ link = "down" /\ wire = <<>>
  /\ Raise(Reader)
  /\ UNCHANGED <<external, cache, prev, armed, stopped, volumeVars, left>>

(* Slip: a disconnected player is only taken out of the volumes.            *)
OnlyVolumeDropped(c, p) == [c EXCEPT !.volumes = Restrict(@, DOMAIN @ \ {p})]

(* Client.OnDisconnect.                                                     *)
Disconnected(c, p) ==
  [c EXCEPT !.clients = IF p \in DOMAIN @ THEN [@ EXCEPT ![p].on = FALSE] ELSE @,
            !.volumes = Restrict(@, DOMAIN @ \ {p})]

(* A notification whose handler changes the cache and does not wait.        *)
Delta(m, c) ==
  CASE m.method = "Client.OnDisconnect" -> Disconnected(c, m.id)
    [] m.method \in {"Client.OnNameChanged", "Client.OnVolumeChanged"} ->
         [c EXCEPT !.clients = IF m.id \in DOMAIN @ THEN [@ EXCEPT ![m.id].attr = m.value] ELSE @]
    [] m.method = "Group.OnStreamChanged" ->
         [c EXCEPT !.groups = IF m.id \in DOMAIN @ THEN [@ EXCEPT ![m.id] = m.value] ELSE @]
    [] m.method = "Stream.OnUpdate" ->
         [c EXCEPT !.streams = With(@, m.id, m.value)]

Receive ==
  LET m == Head(wire) IN
  /\ task[Reader].stage = "recv" /\ wire # <<>>
  /\ wire' = Tail(wire)
  /\ \/ /\ m.method \in {"broker-seed", "Server.OnUpdate"}
        /\ BeginApply(Reader, m.value, None)
     \/ /\ m.method = "Client.OnConnect"
        /\ Goto(Reader, [At("fetch") EXCEPT !.why = m.id])
        /\ UNCHANGED <<cache, armed>>
     \/ /\ m.method = "Client.OnVolumeChanged" /\ m.id \in DOMAIN cache.clients
        /\ cache' = Delta(m, cache)
        /\ Goto(Reader, [At("get") EXCEPT !.why = m.id])
        /\ UNCHANGED armed
     \/ /\ m.method \notin {"broker-seed", "Server.OnUpdate", "Client.OnConnect"}
        /\ ~ (m.method = "Client.OnVolumeChanged" /\ m.id \in DOMAIN cache.clients)
        /\ cache' = Delta(m, cache)
        /\ MaybeSignal(armed, cache')
        /\ UNCHANGED task
  /\ UNCHANGED <<srv, link, stale, prev, stopped, volumeVars, left>>

(* Client.OnVolumeChanged: a thread reads the DAL, then the handler resumes.*)
ReadVolume ==
  /\ task[Reader].stage = "get"
  /\ Goto(Reader, [task[Reader] EXCEPT !.stage = "got", !.seen = dal])
  /\ UNCHANGED <<external, cache, prev, armed, stopped, volumeVars, left>>

ResumeVolume ==
  LET p == task[Reader].why
      vol == task[Reader].seen[p] IN
  /\ task[Reader].stage = "got"
  /\ cache' = IF vol = None THEN cache ELSE [cache EXCEPT !.volumes = With(@, p, vol)]
  /\ MaybeSignal(armed, cache')
  /\ Goto(Reader, At("recv"))
  /\ UNCHANGED <<external, prev, stopped, volumeVars, left>>

(* The queued DSP re-push ends; a failure is logged and swallowed.          *)
ResyncDone ==
  /\ task[Reader].stage = "resync"
  /\ \/ stale' = stale \ {task[Reader].why} /\ UNCHANGED left
     \/ Spend("upsets") /\ UNCHANGED stale
  /\ MaybeSignal(armed, cache)
  /\ Goto(Reader, At("recv"))
  /\ UNCHANGED <<srv, link, wire, cache, prev, stopped, volumeVars>>

-----------------------------------------------------------------------------
(* reseed(), from a UI handler or from Client.OnConnect.                    *)

StartReseed(t) ==
  /\ task[t].stage = "new" /\ ~ stopped
  /\ Goto(t, At("fetch"))
  /\ UNCHANGED <<external, cache, prev, armed, stopped, volumeVars, left>>

(* A thread asks Snapserver over a short-lived connection.                  *)
AnswerStatus(t) ==
  /\ task[t].stage = "fetch"
  /\ Goto(t, [task[t] EXCEPT !.stage = "fetched", !.status = srv])
  /\ UNCHANGED <<external, cache, prev, armed, stopped, volumeVars, left>>

(* get_status failed: logged and swallowed, nothing is applied.  After      *)
(* Client.OnConnect a player that is known already is still re-synced.      *)
StatusFailed(t) ==
  /\ task[t].stage = "fetch"
  /\ Spend("refusals")
  /\ IF t = Reader /\ task[t].why \notin DOMAIN cache.clients
     THEN MaybeSignal(armed, cache) /\ Goto(t, At("recv"))
     ELSE /\ UNCHANGED armed
          /\ Goto(t, IF t = Reader THEN [At("resync") EXCEPT !.why = task[t].why] ELSE At("end"))
  /\ UNCHANGED <<external, cache, prev, stopped, volumeVars>>

ApplyStatus(t) ==
  /\ task[t].stage = "fetched"
  /\ BeginApply(t, task[t].status, task[t].why)
  /\ UNCHANGED <<external, prev, stopped, volumeVars, left>>

(* _load_volumes: a thread reads the whole DAL.                             *)
ReadVolumes(t) ==
  /\ task[t].stage = "load"
  /\ Goto(t, [task[t] EXCEPT !.stage = "loaded", !.seen = dal])
  /\ UNCHANGED <<external, cache, prev, armed, stopped, volumeVars, left>>

(* Slip: a player without a known volume gets no entry.                     *)
RebuildKnownVolumes(t, connected, seen) ==
  /\ cache' = [cache EXCEPT !.volumes =
                 Restrict(seen, {p \in connected : seen[p] # None})]
  /\ AfterApply(t, cache')

(* cache.volumes is rebuilt for the clients that were connected when the    *)
(* DAL read came back.                                                      *)
RebuildVolumes(t, connected, seen) ==
  /\ cache' = [cache EXCEPT !.volumes = [p \in connected |-> seen[p]]]
  /\ AfterApply(t, cache')

(* Slip: devices are asked for players that are not connected.              *)
UnknownAnywhere(seen, connected) == {p \in DOMAIN seen : seen[p] = None}

Unknown(seen, connected) == {p \in connected : seen[p] = None}

ResumeLoad(t) ==
  LET connected == Connected(cache.clients)
      missing == Unknown(task[t].seen, connected) IN
  /\ task[t].stage = "loaded"
  /\ IF missing = {}
     THEN RebuildVolumes(t, connected, task[t].seen)
     ELSE /\ Goto(t, [task[t] EXCEPT !.stage = "seed", !.connected = connected,
                                     !.missing = missing])
          /\ UNCHANGED <<cache, armed>>
  /\ UNCHANGED <<external, prev, stopped, volumeVars, left>>

-----------------------------------------------------------------------------
(* The volume DAL and its observer.                                         *)

(* volume_dal.set: an equal volume is neither written nor announced.  The   *)
(* writer reads every volume back after releasing the lock.                 *)
SetVolume(w, p, v) ==
  IF dal[p] = v THEN UNCHANGED <<dal, writers>>
  ELSE /\ dal' = [dal EXCEPT ![p] = v]
       /\ writers' = writers \cup {[by |-> w, of |-> p, cached |-> Nothing]}

(* A loudness change of the queue's thread, which runs one command at a     *)
(* time; the queue is stopped before the broker.                            *)
WriteVolume(p, v) ==
  /\ ~ stopped
  /\ \A x \in writers : x.by # Queue
  /\ SetVolume(Queue, p, v)
  /\ Spend("upsets")
  /\ UNCHANGED <<external, cache, prev, armed, stopped, task, posts>>

(* One of the threads of _seed_one: the device answers some volume, which   *)
(* is written to the DAL, or does not answer.                               *)
SeedOne(t, p) ==
  /\ task[t].stage = "seed" /\ p \in task[t].missing
  /\ \E v \in Levels \cup {None} :
       /\ Goto(t, [task[t] EXCEPT !.missing = @ \ {p}, !.seen[p] = v])
       /\ IF v = None THEN UNCHANGED <<dal, writers>> ELSE SetVolume(t, p, v)
  /\ UNCHANGED <<external, cache, prev, armed, stopped, posts, left>>

(* gather() returns when every seeding thread has.                          *)
ResumeSeed(t) ==
  /\ task[t].stage = "seed" /\ task[t].missing = {}
  /\ \A x \in writers : x.by # t
  /\ RebuildVolumes(t, task[t].connected, task[t].seen)
  /\ UNCHANGED <<external, prev, stopped, volumeVars, left>>

(* _on_volume_changed in the writer's thread: get_all(), then a callback is *)
(* posted to the loop.                                                      *)
ReadBack(x) ==
  /\ x \in writers /\ x.cached = Nothing
  /\ writers' = (writers \ {x}) \cup {[x EXCEPT !.cached = dal]}
  /\ UNCHANGED <<external, cache, prev, armed, stopped, task, dal, posts, left>>

Post(x) ==
  /\ x \in writers /\ x.cached # Nothing
  /\ writers' = writers \ {x}
  /\ posts' = Append(posts, x.cached)
  /\ UNCHANGED <<external, cache, prev, armed, stopped, task, dal, left>>

(* The callback writes every volume of the DAL into the cache; it arms no   *)
(* timer.                                                                   *)
PushVolumes ==
  LET cached == Head(posts)
      known == {p \in Players : cached[p] # None} IN
  /\ posts # <<>>
  /\ posts' = Tail(posts)
  /\ cache' = [cache EXCEPT !.volumes =
                 [p \in DOMAIN @ \cup known |-> IF p \in known THEN cached[p] ELSE @[p]]]
  /\ UNCHANGED <<external, prev, armed, stopped, task, dal, writers, left>>

-----------------------------------------------------------------------------
(* stop(): the timer and the reader are cancelled.                          *)
Stop ==
  /\ ~ stopped
  /\ stopped' = TRUE
  /\ armed' = FALSE
  /\ link' = "down" /\ wire' = <<>>
  /\ Goto(Reader, At("end"))
  /\ UNCHANGED <<srv, stale, cache, prev, volumeVars, left>>

ReaderStep == Connect \/ ConnectionLost \/ Receive \/ ResumeVolume \/ ResyncDone
TaskStep(t) == ApplyStatus(t) \/ ResumeLoad(t) \/ ResumeSeed(t)
ThreadStep(t) ==
  \/ AnswerStatus(t) \/ ReadVolumes(t)
  \/ \E p \in Players : SeedOne(t, p)
WriterStep == \E x \in writers : ReadBack(x) \/ Post(x)

Next ==
  \/ ServerStep \/ Drop \/ AnswerSeed
  \/ ReaderStep \/ ReadVolume
  \/ \E t \in Tasks :
       StartReseed(t) \/ StatusFailed(t) \/ TaskStep(t) \/ ThreadStep(t)
  \/ \E p \in Players, v \in Levels : WriteVolume(p, v)
  \/ WriterStep \/ PushVolumes
  \/ SignalDirty
  \/ Stop

Spec == Init /\ [][Next]_vars

(* The loop runs what is ready, a due timer fires, every thread finishes,   *)
(* Snapserver answers, and the reader's connection attempts succeed.  What  *)
(* Snapserver, the network and the users do is not assumed.                 *)
Fairness ==
  /\ WF_vars(AnswerSeed) /\ WF_vars(ReaderStep) /\ WF_vars(ReadVolume)
  /\ \A t \in Tasks : WF_vars(TaskStep(t)) /\ WF_vars(ThreadStep(t))
  /\ WF_vars(WriterStep) /\ WF_vars(PushVolumes)
  /\ WF_vars(SignalDirty)

FairSpec == Spec /\ Fairness

-----------------------------------------------------------------------------
(* Properties.                                                              *)

Stages == {"sleep", "recv", "fetch", "fetched", "load", "loaded", "seed", "get", "got",
           "resync", "new", "end", "raised"}

(* Every cached object is one the parsers build, every local variable has a *)
(* value of its kind, and the bounds are never exceeded.                    *)
TypeOK ==
  /\ srv \in Statuses
  /\ link \in {"down", "asked", "up"}
  /\ stale \subseteq Players
  /\ Status(cache) \in Statuses /\ cache.volumes \in VolumeMaps
  /\ prev # Nothing => Status(prev) \in Statuses /\ prev.volumes \in VolumeMaps
  /\ {armed, stopped} \subseteq BOOLEAN
  /\ \A t \in Tasks : /\ task[t].stage \in Stages
                      /\ task[t].missing \subseteq task[t].connected
                      /\ task[t].connected \subseteq Players
  /\ dal \in [Players -> Levels \cup {None}]
  /\ \A what \in DOMAIN left : left[what] \in Nat

(* A task inside _apply_full_status, after the timer was cancelled.         *)
Applying(t) == task[t].stage \in {"load", "loaded", "seed"}

(* The reader has lost its connection, or has not received the seed of the  *)
(* new one yet.                                                             *)
Reconnecting ==
  \/ task[Reader].stage = "sleep"
  \/ link # "up"
  \/ \E i \in DOMAIN wire : wire[i].method = "broker-seed"

Delivered == prev # Nothing /\ Status(prev) = Status(cache)

(* Cancelling the debounce timer never strands a change: whenever clients,  *)
(* groups or streams differ from what the pages were last told, the timer   *)
(* is armed, or a task that will end in _maybe_signal is under way.  What   *)
(* is excused: a reader that must reconnect and seed again, and a UI reseed *)
(* that raised after cancelling the timer.                                  *)
NoStrandedChange ==
  \/ Delivered \/ armed \/ stopped \/ Reconnecting
  \/ \E t \in Tasks : Applying(t) \/ task[t].stage = "raised"
  \/ task[Reader].stage \in {"get", "got"}

(* No UI handler called reseed(): the reader alone writes the status.       *)
ReaderAlone == \A t \in Reseeders : task[t].stage = "new"

(* Outside an apply and while the running reader alone writes, every        *)
(* connected player of the cache has an entry in cache.volumes, the one its *)
(* slider is bound to.                                                      *)
ConnectedHaveVolume ==
  (ReaderAlone /\ ~ Applying(Reader) /\ ~ stopped) => Connected(cache.clients) \subseteq DOMAIN cache.volumes

InRange == \A p \in DOMAIN srv.clients : srv.clients[p].attr \notin OutOfRange

(* reseed() swallows a failed get_status: the player that connected stays   *)
(* unknown until something else makes the reader apply a full status.       *)
EveryCallAnswered == left.refusals = MaxRefusals

(* ADR 005, the seed-then-delta read path: if no UI handler reseeds, no     *)
(* get_status fails and Snapserver stops serving a player the model         *)
(* rejects, the cache ends up equal to what Snapserver serves, whatever was *)
(* lost or overtaken on the way, and the pages have been told.              *)
Converges ==
  ([]ReaderAlone /\ []EveryCallAnswered /\ <>[]InRange) => <>[](stopped \/ (Status(cache) = srv /\ Delivered))

(* Nothing lost, nothing failed, nothing stopped so far.                    *)
Undisturbed == ~ stopped /\ EveryCallAnswered /\ left.upsets = MaxUpsets

Announced(p) ==
  \E i \in DOMAIN wire : wire[i].method = "Client.OnConnect" /\ wire[i].id = p

(* A re-provisioned player whose Client.OnConnect reached the socket gets   *)
(* its saved DSP pipeline again, as long as it stays known, neither the     *)
(* socket nor a call fails and no player is served that the model rejects,  *)
(* whatever the notifications around it do.                                 *)
ReconnectedArePushed ==
  []InRange => \A p \in Players :
    (p \in stale /\ Announced(p))
      ~> (p \notin stale \/ p \notin DOMAIN srv.clients \/ ~ Undisturbed)

(* docs/adrs/005: a player connecting or disconnecting is reflected in      *)
(* every open browser within 250 ms of the notification.  Without loss and  *)
(* without a player the model rejects, the cache must at least end up equal *)
(* to what Snapserver serves.                                               *)
ReflectedInEveryBrowser ==
  []Undisturbed /\ []InRange => <>[](Status(cache) = srv)
=============================================================================
