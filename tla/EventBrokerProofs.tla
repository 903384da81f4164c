------------------------- MODULE EventBrokerProofs -------------------------
(***************************************************************************)
(* Proofs about EventBroker.  For any players, groups, streams, attributes *)
(* and volumes, any number of UI handlers that reseed, and any number of   *)
(* changes, refusals and upsets: every object of the cache is well formed, *)
(* cancelling the debounce timer strands no change, and a reader that is   *)
(* alone gives every connected player its volume.                          *)
(***************************************************************************)
EXTENDS EventBroker, TLAPS

Volumes == [Players -> Levels \cup {None}]

(* What can be on the socket.                                               *)
Messages ==
  [method : {"Client.OnConnect", "Client.OnDisconnect"}, id : Players, value : {None}]
  \cup [method : {"Client.OnNameChanged", "Client.OnVolumeChanged"}, id : Players,
        value : Attrs]
  \cup [method : {"Group.OnStreamChanged"}, id : Groups, value : Settings]
  \cup [method : {"Stream.OnUpdate"}, id : Streams, value : Settings]
  \cup [method : {"Server.OnUpdate", "broker-seed"}, id : {None}, value : Statuses]

WholeStatus == {"broker-seed", "Server.OnUpdate"}

(* The local variables of a task, and which of them its stage gives a       *)
(* meaning to.                                                              *)
Locals ==
  [stage : Stages, why : Players \cup {None}, status : Statuses,
   seen : Volumes \cup {<<>>}, connected : SUBSET Players, missing : SUBSET Players]

Sound(l) ==
  /\ l.missing \subseteq l.connected
  /\ l.stage \in {"loaded", "seed", "got"} => l.seen \in Volumes
  /\ l.stage \in {"get", "got"} => l.why \in Players

TaskShape ==
  /\ task \in [Tasks -> Locals]
  /\ \A t \in Tasks : Sound(task[t])

ServerShape ==
  /\ srv \in Statuses
  /\ link \in {"down", "asked", "up"}
  /\ wire \in Seq(Messages)
  /\ stale \subseteq Players

CacheShape ==
  /\ cache \in Snapshots
  /\ prev \in Snapshots \cup {Nothing}
  /\ armed \in BOOLEAN
  /\ stopped \in BOOLEAN

VolumeShape ==
  /\ dal \in Volumes
  /\ writers \subseteq
       [by : Tasks \cup {Queue}, of : Players, cached : Volumes \cup {Nothing}]
  /\ posts \in Seq(Volumes)

BoundShape == left \in [{"events", "refusals", "upsets"} -> Nat]

Shape == TaskShape /\ ServerShape /\ CacheShape /\ VolumeShape /\ BoundShape

(* While the running reader alone writes, a full status is on its way to    *)
(* the volumes of everybody it connects: the connected players the reader   *)
(* remembers while its devices are asked are those of the cache still.      *)
HaveVolume ==
  ReaderAlone /\ ~ stopped =>
    /\ ~ Applying(Reader) => Connected(cache.clients) \subseteq DOMAIN cache.volumes
    /\ task[Reader].stage = "seed" =>
         Connected(cache.clients) \subseteq task[Reader].connected

IInv == Shape /\ NoStrandedChange /\ HaveVolume

-----------------------------------------------------------------------------
(* Maps from some of A to B: the form of every part of a snapshot.          *)
Maps(A, B) == UNION {[as -> B] : as \in SUBSET A}

LEMMA SnapshotParts ==
  /\ ClientMaps = Maps(Players, [on : BOOLEAN, attr : Attrs])
  /\ GroupMaps = Maps(Groups, Settings)
  /\ StreamMaps = Maps(Streams, Settings)
  /\ VolumeMaps = Maps(Players, Levels \cup {None})
BY DEF ClientMaps, GroupMaps, StreamMaps, VolumeMaps, Maps

LEMMA MapDomain ==
  ASSUME NEW A, NEW B, NEW f \in Maps(A, B)
  PROVE  DOMAIN f \subseteq A /\ f \in [DOMAIN f -> B]
BY DEF Maps

LEMMA MapIntro ==
  ASSUME NEW A, NEW B, NEW D \in SUBSET A, NEW f \in [D -> B]
  PROVE  f \in Maps(A, B)
BY DEF Maps

LEMMA EmptyMap ==
  ASSUME NEW A, NEW B
  PROVE  <<>> \in Maps(A, B)
<1>1. <<>> \in [{} -> B]
  OBVIOUS
<1>2. {} \in SUBSET A
  OBVIOUS
<1> QED
  BY <1>1, <1>2, MapIntro

LEMMA WithMap ==
  ASSUME NEW A, NEW B, NEW f \in Maps(A, B), NEW x \in A, NEW v \in B
  PROVE  /\ With(f, x, v) \in Maps(A, B)
         /\ DOMAIN With(f, x, v) = DOMAIN f \cup {x}
<1> DEFINE D == DOMAIN f \cup {x}
<1>1. D \in SUBSET A /\ \A y \in DOMAIN f : f[y] \in B
  BY MapDomain
<1>2. With(f, x, v) \in [D -> B]
  BY <1>1 DEF With
<1>3. With(f, x, v) \in Maps(A, B)
  BY <1>1, <1>2, MapIntro
<1> QED
  BY <1>2, <1>3

LEMMA RestrictMap ==
  ASSUME NEW A, NEW B, NEW f \in Maps(A, B), NEW S \in SUBSET DOMAIN f
  PROVE  Restrict(f, S) \in Maps(A, B) /\ DOMAIN Restrict(f, S) = S
<1>1. S \in SUBSET A /\ \A y \in DOMAIN f : f[y] \in B
  BY MapDomain
<1>2. Restrict(f, S) \in [S -> B]
  BY <1>1 DEF Restrict
<1>3. Restrict(f, S) \in Maps(A, B)
  BY <1>1, <1>2, MapIntro
<1> QED
  BY <1>2, <1>3

LEMMA ChangedMap ==
  ASSUME NEW A, NEW B, NEW f \in Maps(A, B), NEW x \in DOMAIN f, NEW v \in B
  PROVE  [f EXCEPT ![x] = v] \in Maps(A, B)
<1>1. DOMAIN f \in SUBSET A /\ f \in [DOMAIN f -> B]
  BY MapDomain
<1>2. [f EXCEPT ![x] = v] \in [DOMAIN f -> B]
  BY <1>1
<1> QED
  BY <1>1, <1>2, MapIntro

LEMMA NoStatusIsStatus == NoStatus \in Statuses
BY EmptyMap, SnapshotParts DEF NoStatus, Statuses

(* What is received is sent, and the sequence keeps its kind.               *)
LEMMA Received ==
  ASSUME NEW S, NEW q \in Seq(S), q # <<>>
  PROVE  /\ Head(q) \in S /\ Tail(q) \in Seq(S)
         /\ \A i \in DOMAIN q : q[i] = Head(q) \/ \E j \in DOMAIN Tail(q) : Tail(q)[j] = q[i]
<1>1. Head(q) \in S /\ Tail(q) \in Seq(S) /\ Head(q) = q[1]
  OBVIOUS
<1>2. Len(q) \in Nat /\ Len(Tail(q)) = Len(q) - 1 /\ DOMAIN q = 1..Len(q)
      /\ DOMAIN Tail(q) = 1..Len(Tail(q))
  BY <1>1
<1>3. \A j \in 1..(Len(q) - 1) : Tail(q)[j] = q[j + 1]
  OBVIOUS
<1>4. ASSUME NEW i \in DOMAIN q, i # 1
      PROVE  \E j \in DOMAIN Tail(q) : Tail(q)[j] = q[i]
  <2>1. i - 1 \in 1..(Len(q) - 1) /\ (i - 1) + 1 = i
    BY <1>2, <1>4
  <2>2. Tail(q)[i - 1] = q[i]
    BY <2>1, <1>3
  <2> QED
    BY <2>1, <2>2, <1>2
<1> QED
  BY <1>1, <1>4

LEMMA SentLast ==
  ASSUME NEW S, NEW q \in Seq(S), NEW m \in S
  PROVE  /\ Append(q, m) \in Seq(S)
         /\ \A i \in DOMAIN q : i \in DOMAIN Append(q, m) /\ Append(q, m)[i] = q[i]
         /\ \E i \in DOMAIN Append(q, m) : Append(q, m)[i] = m
<1>1. Append(q, m) \in Seq(S) /\ Len(q) \in Nat
      /\ DOMAIN q = 1..Len(q) /\ DOMAIN Append(q, m) = 1..(Len(q) + 1)
  OBVIOUS
<1>2. Append(q, m)[Len(q) + 1] = m /\ \A i \in 1..Len(q) : Append(q, m)[i] = q[i]
  OBVIOUS
<1>3. Len(q) + 1 \in DOMAIN Append(q, m)
  BY <1>1
<1> QED
  BY <1>1, <1>2, <1>3
-----------------------------------------------------------------------------
(* A task between two things has no local variable that matters.            *)
LEMMA AtIdle ==
  ASSUME NEW stage \in Stages \ {"loaded", "seed", "get", "got"}
  PROVE  /\ At(stage) \in Locals /\ Sound(At(stage))
         /\ At(stage).stage = stage
         /\ \A p \in Players \cup {None} :
              LET l == [At(stage) EXCEPT !.why = p] IN
                l \in Locals /\ Sound(l) /\ l.stage = stage
BY NoStatusIsStatus DEF At, Locals, Sound, Stages

(* Only the task that moves moves.                                          *)
OthersRest(t) == \A u \in Tasks \ {t} : task'[u] = task[u]

LEMMA GotoMoves ==
  ASSUME TaskShape, NEW t \in Tasks, NEW l \in Locals, Sound(l), Goto(t, l)
  PROVE  TaskShape' /\ task'[t] = l /\ OthersRest(t)
<1>1. task \in [Tasks -> Locals] /\ task' = [task EXCEPT ![t] = l]
  BY DEF TaskShape, Goto
<1>2. task' \in [Tasks -> Locals] /\ task'[t] = l /\ OthersRest(t)
  BY <1>1 DEF OthersRest
<1>3. ASSUME NEW u \in Tasks
      PROVE  Sound(task'[u])
  <2>1. CASE u = t
    BY <2>1, <1>2
  <2>2. CASE u # t
    BY <2>2, <1>2 DEF OthersRest, TaskShape
  <2> QED
    BY <2>1, <2>2
<1>4. (\A u \in Tasks : Sound(task[u]))'
  BY <1>3 DEF Sound
<1> QED
  BY <1>2, <1>4 DEF TaskShape

LEMMA ReaderIsTask == Reader \in Tasks /\ \A t \in Reseeders : t \in Tasks /\ t # Reader
BY BrokerAssumption DEF Tasks, Reader

(* The parts of a snapshot.                                                 *)
LEMMA SnapshotFields ==
  ASSUME NEW c \in Snapshots
  PROVE  /\ Status(c) \in Statuses
         /\ c.clients \in Maps(Players, [on : BOOLEAN, attr : Attrs])
         /\ c.groups \in Maps(Groups, Settings)
         /\ c.streams \in Maps(Streams, Settings)
         /\ c.volumes \in Maps(Players, Levels \cup {None})
         /\ Connected(c.clients) \subseteq Players
<1>1. /\ c.clients \in ClientMaps /\ c.groups \in GroupMaps
      /\ c.streams \in StreamMaps /\ c.volumes \in VolumeMaps
  BY DEF Snapshots
<1>2. Status(c) \in Statuses
  BY <1>1 DEF Status, Statuses
<1>3. Connected(c.clients) \subseteq Players
  BY <1>1, SnapshotParts, MapDomain DEF Connected
<1> QED
  BY <1>1, <1>2, <1>3, SnapshotParts

(* New volumes alone: the status stays.                                     *)
LEMMA NewVolumes ==
  ASSUME NEW c \in Snapshots, NEW v \in Maps(Players, Levels \cup {None})
  PROVE  LET d == [c EXCEPT !.volumes = v] IN
           d \in Snapshots /\ Status(d) = Status(c) /\ d.clients = c.clients /\ d.volumes = v
<1>1. v \in VolumeMaps
  BY SnapshotParts
<1> QED
  BY <1>1 DEF Snapshots, Status

(* A handler that does not wait leaves a well-formed cache, and takes no    *)
(* volume from a player that stays connected.                               *)
LEMMA DeltaKeeps ==
  ASSUME NEW m \in Messages, NEW c \in Snapshots,
         m.method \notin WholeStatus \cup {"Client.OnConnect"}
  PROVE  /\ Delta(m, c) \in Snapshots
         /\ Connected(c.clients) \subseteq DOMAIN c.volumes =>
              Connected(Delta(m, c).clients) \subseteq DOMAIN Delta(m, c).volumes
<1> DEFINE Client == [on : BOOLEAN, attr : Attrs]
<1>0. /\ c.clients \in Maps(Players, Client)
      /\ c.groups \in Maps(Groups, Settings)
      /\ c.streams \in Maps(Streams, Settings)
      /\ c.volumes \in Maps(Players, Levels \cup {None})
  BY SnapshotFields
<1>1. c.clients \in [DOMAIN c.clients -> Client]
  BY <1>0, MapDomain
<1>2. CASE m.method = "Client.OnDisconnect"
  <2> DEFINE p == m.id
             cs == IF p \in DOMAIN c.clients THEN [c.clients EXCEPT ![p].on = FALSE]
                   ELSE c.clients
             vs == Restrict(c.volumes, DOMAIN c.volumes \ {p})
  <2>1. Delta(m, c) = [c EXCEPT !.clients = cs, !.volumes = vs]
    BY <1>2 DEF Delta, Disconnected
  <2>2. vs \in Maps(Players, Levels \cup {None}) /\ DOMAIN vs = DOMAIN c.volumes \ {p}
    BY <1>0, RestrictMap
  <2>3. CASE p \in DOMAIN c.clients
    <3>1. [c.clients[p] EXCEPT !.on = FALSE] \in Client
      BY <2>3, <1>1
    <3>2. cs = [c.clients EXCEPT ![p] = [c.clients[p] EXCEPT !.on = FALSE]]
      BY <2>3
    <3>3. cs \in Maps(Players, Client)
      BY <3>1, <3>2, <2>3, <1>0, ChangedMap
    <3>4. Connected(cs) = Connected(c.clients) \ {p}
      BY <3>2, <2>3, <1>1 DEF Connected
    <3> QED
      BY <3>3, <3>4, <2>1, <2>2, <1>0, SnapshotParts DEF Snapshots
  <2>4. CASE p \notin DOMAIN c.clients
    <3>1. cs = c.clients /\ p \notin Connected(c.clients)
      BY <2>4 DEF Connected
    <3> QED
      BY <3>1, <2>1, <2>2, <1>0, SnapshotParts DEF Snapshots
  <2> QED
    BY <2>3, <2>4
<1>3. CASE m.method \in {"Client.OnNameChanged", "Client.OnVolumeChanged"}
  <2> DEFINE p == m.id
             cs == IF p \in DOMAIN c.clients THEN [c.clients EXCEPT ![p].attr = m.value]
                   ELSE c.clients
  <2>1. Delta(m, c) = [c EXCEPT !.clients = cs]
    BY <1>3 DEF Delta
  <2>2. CASE p \in DOMAIN c.clients
    <3>1. m.value \in Attrs
      BY <1>3 DEF Messages
    <3>2. [c.clients[p] EXCEPT !.attr = m.value] \in Client
      BY <2>2, <1>1, <3>1
    <3>3. cs = [c.clients EXCEPT ![p] = [c.clients[p] EXCEPT !.attr = m.value]]
      BY <2>2
    <3>4. cs \in Maps(Players, Client)
      BY <3>2, <3>3, <2>2, <1>0, ChangedMap
    <3>5. Connected(cs) = Connected(c.clients)
      BY <3>3, <2>2, <1>1 DEF Connected
    <3> QED
      BY <3>4, <3>5, <2>1, <1>0, SnapshotParts DEF Snapshots
  <2>3. CASE p \notin DOMAIN c.clients
    BY <2>1, <2>3, <1>0, SnapshotParts DEF Snapshots
  <2> QED
    BY <2>2, <2>3
<1>4. CASE m.method = "Group.OnStreamChanged"
  <2> DEFINE gs == IF m.id \in DOMAIN c.groups THEN [c.groups EXCEPT ![m.id] = m.value]
                   ELSE c.groups
  <2>1. Delta(m, c) = [c EXCEPT !.groups = gs] /\ m.value \in Settings
    BY <1>4 DEF Delta, Messages
  <2>2. gs \in Maps(Groups, Settings)
    BY <2>1, <1>0, ChangedMap
  <2> QED
    BY <2>1, <2>2, <1>0, SnapshotParts DEF Snapshots
<1>5. CASE m.method = "Stream.OnUpdate"
  <2> DEFINE xs == With(c.streams, m.id, m.value)
  <2>1. Delta(m, c) = [c EXCEPT !.streams = xs] /\ m.id \in Streams /\ m.value \in Settings
    BY <1>5 DEF Delta, Messages
  <2>2. xs \in Maps(Streams, Settings)
    BY <2>1, <1>0, WithMap
  <2> HIDE DEF xs
  <2> QED
    BY <2>1, <2>2, <1>0, SnapshotParts DEF Snapshots
<1> QED
  BY <1>2, <1>3, <1>4, <1>5 DEF Messages, WholeStatus

(* Where _apply_full_status leaves its task.                                *)
LEMMA BeginApplyFacts ==
  ASSUME Shape, NEW t \in Tasks, NEW status \in Statuses,
         NEW why \in Players \cup {None}, BeginApply(t, status, why)
  PROVE  /\ TaskShape' /\ OthersRest(t)
         /\ cache' \in Snapshots /\ armed' \in BOOLEAN
         /\ \/ task'[t].stage = "load"
            \/ /\ task'[t].stage = IF t = Reader THEN "sleep" ELSE "raised"
               /\ cache' = cache
<1>0. TaskShape /\ cache \in Snapshots
  BY DEF Shape, CacheShape
<1>1. CASE \E p \in DOMAIN status.clients : status.clients[p].attr \in OutOfRange
  <2>1. cache' = cache /\ Raise(t) /\ armed' = FALSE
    BY <1>1 DEF BeginApply
  <2> DEFINE stage == IF t = Reader THEN "sleep" ELSE "raised"
  <2>2. stage \in Stages \ {"loaded", "seed", "get", "got"} /\ Goto(t, At(stage))
    BY <2>1 DEF Raise, Stages
  <2>3. At(stage) \in Locals /\ Sound(At(stage)) /\ At(stage).stage = stage
    BY <2>2, AtIdle
  <2>4. TaskShape' /\ task'[t] = At(stage) /\ OthersRest(t)
    BY <2>2, <2>3, <1>0, GotoMoves
  <2> QED
    BY <2>1, <2>3, <2>4, <1>0
<1>2. CASE ~ \E p \in DOMAIN status.clients : status.clients[p].attr \in OutOfRange
  <2> DEFINE l == [At("load") EXCEPT !.why = why]
  <2>1. /\ cache' = [cache EXCEPT !.clients = status.clients, !.groups = status.groups,
                                  !.streams = status.streams]
        /\ Goto(t, l) /\ armed' = FALSE
    BY <1>2 DEF BeginApply
  <2>2. "load" \in Stages \ {"loaded", "seed", "get", "got"}
    BY DEF Stages
  <2>3. l \in Locals /\ Sound(l) /\ l.stage = "load"
    BY <2>2, AtIdle
  <2>4. TaskShape' /\ task'[t] = l /\ OthersRest(t)
    BY <2>1, <2>3, <1>0, GotoMoves
  <2>5. cache' \in Snapshots
    BY <2>1, <1>0 DEF Snapshots, Statuses
  <2> QED
    BY <2>1, <2>3, <2>4, <2>5
<1> QED
  BY <1>1, <1>2

LEMMA AfterApplyFacts ==
  ASSUME TaskShape, NEW t \in Tasks, NEW c, AfterApply(t, c)
  PROVE  /\ TaskShape' /\ OthersRest(t)
         /\ MaybeSignal(armed, c)
         /\ task'[t].stage \in {"end", "resync", "recv"}
<1>0. {"end", "resync", "recv"} \subseteq Stages \ {"loaded", "seed", "get", "got"}
  BY DEF Stages
<1>1. task[t].why \in Players \cup {None}
  BY DEF TaskShape, Locals
<1> DEFINE r == [At("resync") EXCEPT !.why = task[t].why]
<1>2. /\ At("end") \in Locals /\ Sound(At("end")) /\ At("end").stage = "end"
      /\ At("recv") \in Locals /\ Sound(At("recv")) /\ At("recv").stage = "recv"
      /\ r \in Locals /\ Sound(r) /\ r.stage = "resync"
  BY <1>0, <1>1, AtIdle
<1>3. \E l \in {At("end"), At("recv"), r} : Goto(t, l)
  BY DEF AfterApply
<1>4. PICK l \in {At("end"), At("recv"), r} : Goto(t, l)
  BY <1>3
<1>5. l \in Locals /\ Sound(l) /\ l.stage \in {"end", "resync", "recv"}
  BY <1>2
<1>6. TaskShape' /\ task'[t] = l /\ OthersRest(t)
  BY <1>4, <1>5, GotoMoves
<1> QED
  BY <1>5, <1>6 DEF AfterApply
-----------------------------------------------------------------------------
(* What the parts of the invariant rest on.                                 *)
LEMMA Frames ==
  /\ TaskShape /\ UNCHANGED task => TaskShape'
  /\ ServerShape /\ UNCHANGED external => ServerShape'
  /\ CacheShape /\ UNCHANGED <<cache, prev, armed, stopped>> => CacheShape'
  /\ VolumeShape /\ UNCHANGED volumeVars => VolumeShape'
  /\ BoundShape /\ UNCHANGED left => BoundShape'
BY DEF TaskShape, ServerShape, CacheShape, VolumeShape, BoundShape, external, volumeVars,
       Sound

LEMMA SpendKeeps ==
  ASSUME BoundShape, NEW what \in {"events", "refusals", "upsets"}, Spend(what)
  PROVE  BoundShape'
<1>1. left[what] \in Nat /\ left[what] > 0 /\ left' = [left EXCEPT ![what] = left[what] - 1]
  BY DEF BoundShape, Spend
<1>2. left[what] - 1 \in Nat
  BY <1>1
<1> QED
  BY <1>1, <1>2 DEF BoundShape

(* _maybe_signal strands nothing: an unarmed timer means that the pages     *)
(* have been told this very snapshot.                                       *)
LEMMA SignalKeeps ==
  ASSUME cache' \in Snapshots, prev \in Snapshots \cup {Nothing}, prev' = prev,
         armed \in BOOLEAN, MaybeSignal(armed, cache')
  PROVE  armed' \in BOOLEAN /\ NoStrandedChange'
<1>1. CASE armed \/ cache' # prev
  <2>1. armed' = TRUE
    BY <1>1 DEF MaybeSignal
  <2> QED
    BY <2>1 DEF NoStrandedChange
<1>2. CASE ~ armed /\ cache' = prev
  <2>1. armed' = FALSE
    BY <1>2 DEF MaybeSignal
  <2>2. prev' # Nothing /\ prev' = cache'
    BY <1>2, BrokerAssumption
  <2>3. Delivered'
    BY <2>2 DEF Delivered
  <2> QED
    BY <2>1, <2>3 DEF NoStrandedChange
<1> QED
  BY <1>1, <1>2

(* A step that delivers nothing, forgets nothing and excuses nothing less.  *)
LEMMA StillPending ==
  ASSUME NoStrandedChange,
         Status(cache') = Status(cache), UNCHANGED <<prev, armed, stopped>>,
         Reconnecting => Reconnecting',
         \A u \in Tasks : /\ Applying(u) => Applying(u)'
                          /\ task[u].stage = "raised" => task'[u].stage = "raised",
         task[Reader].stage \in {"get", "got"} => task'[Reader].stage \in {"get", "got"}
  PROVE  NoStrandedChange'
<1>1. Delivered => Delivered'
  BY DEF Delivered
<1> QED
  BY <1>1 DEF NoStrandedChange

(* The socket alone: a seed that is owed or under way stays so.             *)
LEMMA SeedStays ==
  ASSUME Reconnecting, UNCHANGED <<link, task>>,
         \A i \in DOMAIN wire : i \in DOMAIN wire' /\ wire'[i] = wire[i]
  PROVE  Reconnecting'
BY DEF Reconnecting

(* The reader is alone only if it was.                                      *)
LEMMA Solitude ==
  ASSUME NEW t \in Tasks, OthersRest(t)
  PROVE  /\ t = Reader => (ReaderAlone' => ReaderAlone)
         /\ t # Reader /\ task'[t].stage # "new" => ~ ReaderAlone'
BY ReaderIsTask DEF ReaderAlone, OthersRest, Tasks

LEMMA VolumeStays ==
  ASSUME HaveVolume, UNCHANGED <<task, stopped>>,
         cache'.clients = cache.clients,
         DOMAIN cache.volumes \subseteq DOMAIN cache'.volumes
  PROVE  HaveVolume'
BY DEF HaveVolume, ReaderAlone, Applying

(* A step of the socket or of the volume threads: the broker itself rests.  *)
LEMMA BrokerRests ==
  ASSUME IInv, UNCHANGED <<cache, prev, armed, stopped, task>>,
         Reconnecting => Reconnecting'
  PROVE  NoStrandedChange' /\ HaveVolume' /\ TaskShape' /\ CacheShape'
<1>1. NoStrandedChange'
  <2>1. \A u \in Tasks : Applying(u) => Applying(u)'
    BY DEF Applying
  <2> QED
    BY <2>1, StillPending DEF IInv
<1>2. HaveVolume'
  BY VolumeStays DEF IInv
<1> QED
  BY <1>1, <1>2, Frames DEF IInv, Shape

(* A task whose stage excuses nothing goes on, and changes nothing else of  *)
(* the broker.                                                              *)
LEMMA TaskMovesOn ==
  ASSUME IInv, NEW t \in Tasks, OthersRest(t), UNCHANGED <<cache, prev, armed, stopped>>,
         task[t].stage \notin {"load", "loaded", "seed", "raised", "get", "got"},
         task'[t].stage \notin {"new", "load", "loaded", "seed"},
         Reconnecting => Reconnecting'
  PROVE  NoStrandedChange' /\ HaveVolume'
<1>1. ASSUME NEW u \in Tasks
      PROVE  /\ Applying(u) => Applying(u)'
             /\ task[u].stage = "raised" => task'[u].stage = "raised"
             /\ task[u].stage \in {"get", "got"} => task'[u].stage \in {"get", "got"}
  BY DEF OthersRest, Applying
<1>2. NoStrandedChange'
  BY <1>1, StillPending, ReaderIsTask DEF IInv
<1>3. HaveVolume'
  <2>1. CASE t = Reader
    BY <2>1, Solitude DEF IInv, HaveVolume, Applying
  <2>2. CASE t # Reader
    BY <2>2, Solitude DEF HaveVolume
  <2> QED
    BY <2>1, <2>2
<1> QED
  BY <1>2, <1>3
-----------------------------------------------------------------------------
(* Snapserver and the socket.                                               *)

LEMMA NotifyKeeps ==
  ASSUME wire \in Seq(Messages), NEW method, NEW id, NEW value,
         [method |-> method, id |-> id, value |-> value] \in Messages,
         Notify(method, id, value)
  PROVE  /\ wire' \in Seq(Messages)
         /\ \A i \in DOMAIN wire : i \in DOMAIN wire' /\ wire'[i] = wire[i]
<1>1. CASE link = "down"
  BY <1>1 DEF Notify
<1>2. CASE link # "down"
  BY <1>2, SentLast DEF Notify
<1> QED
  BY <1>1, <1>2

(* Whatever Snapserver does, it sends what it did, and serves a status.     *)
LEMMA ServerKeeps ==
  ASSUME IInv, ServerStep
  PROVE  IInv'
<1> DEFINE Client == [on : BOOLEAN, attr : Attrs]
<1>0. /\ srv \in Statuses /\ wire \in Seq(Messages) /\ stale \subseteq Players
      /\ link \in {"down", "asked", "up"}
  BY DEF IInv, Shape, ServerShape
<1>1. /\ srv.clients \in Maps(Players, Client)
      /\ srv.groups \in Maps(Groups, Settings)
      /\ srv.streams \in Maps(Streams, Settings)
  BY <1>0, SnapshotParts DEF Statuses
<1>2. /\ DOMAIN srv.clients \subseteq Players /\ srv.clients \in [DOMAIN srv.clients -> Client]
      /\ DOMAIN srv.groups \subseteq Groups
  BY <1>1, MapDomain
<1> DEFINE Sent == /\ wire' \in Seq(Messages)
                   /\ \A i \in DOMAIN wire : i \in DOMAIN wire' /\ wire'[i] = wire[i]
           Goal == srv' \in Statuses /\ stale' \subseteq Players /\ Sent
<1>3. ASSUME NEW cs \in Maps(Players, Client), srv' = [srv EXCEPT !.clients = cs]
      PROVE  srv' \in Statuses
  BY <1>0, <1>3, SnapshotParts DEF Statuses
<1>4. ASSUME NEW p \in Players, ClientConnects(p)
      PROVE  Goal
  <2>1. PICK a \in Attrs : srv' = [srv EXCEPT !.clients = With(srv.clients, p, [on |-> TRUE, attr |-> a])]
    BY <1>4 DEF ClientConnects
  <2>2. With(srv.clients, p, [on |-> TRUE, attr |-> a]) \in Maps(Players, Client)
    BY <1>1, WithMap
  <2>3. srv' \in Statuses
    BY <2>1, <2>2, <1>3
  <2>4. stale' \subseteq Players
    BY <1>4, <1>0 DEF ClientConnects
  <2>5. [method |-> "Client.OnConnect", id |-> p, value |-> None] \in Messages
    BY DEF Messages
  <2>6. Sent
    BY <2>5, <1>4, <1>0, NotifyKeeps DEF ClientConnects
  <2> QED
    BY <2>3, <2>4, <2>6
<1>5. ASSUME NEW p \in Players, ClientDisconnects(p)
      PROVE  Goal
  <2>1. p \in DOMAIN srv.clients
    BY <1>5 DEF ClientDisconnects, Connected
  <2> DEFINE cs == [srv.clients EXCEPT ![p] = [srv.clients[p] EXCEPT !.on = FALSE]]
  <2>2. srv' = [srv EXCEPT !.clients = cs]
    BY <1>5, <2>1, <1>0 DEF ClientDisconnects, Statuses
  <2>3. [srv.clients[p] EXCEPT !.on = FALSE] \in Client
    BY <2>1, <1>2
  <2>4. cs \in Maps(Players, Client)
    BY <2>3, <2>1, <1>1, ChangedMap
  <2>5. srv' \in Statuses
    BY <2>2, <2>4, <1>3
  <2>6. [method |-> "Client.OnDisconnect", id |-> p, value |-> None] \in Messages
    BY DEF Messages
  <2>7. Sent
    BY <2>6, <1>5, <1>0, NotifyKeeps DEF ClientDisconnects
  <2> QED
    BY <2>5, <2>7, <1>5, <1>0 DEF ClientDisconnects
<1>6. ASSUME NEW p \in Players, NEW a \in Attrs, ClientChanges(p, a)
      PROVE  Goal
  <2>1. p \in DOMAIN srv.clients
    BY <1>6 DEF ClientChanges
  <2> DEFINE cs == [srv.clients EXCEPT ![p] = [srv.clients[p] EXCEPT !.attr = a]]
  <2>2. srv' = [srv EXCEPT !.clients = cs]
    BY <1>6, <2>1, <1>0 DEF ClientChanges, Statuses
  <2>3. [srv.clients[p] EXCEPT !.attr = a] \in Client
    BY <2>1, <1>2
  <2>4. cs \in Maps(Players, Client)
    BY <2>3, <2>1, <1>1, ChangedMap
  <2>5. srv' \in Statuses
    BY <2>2, <2>4, <1>3
  <2>6. PICK method \in {"Client.OnNameChanged", "Client.OnVolumeChanged"} : Notify(method, p, a)
    BY <1>6 DEF ClientChanges
  <2>7. [method |-> method, id |-> p, value |-> a] \in Messages
    BY DEF Messages
  <2>8. Sent
    BY <2>6, <2>7, <1>0, NotifyKeeps
  <2> QED
    BY <2>5, <2>8, <1>6, <1>0 DEF ClientChanges
<1>7. ASSUME NEW g \in Groups, NEW v \in Settings, GroupChanges(g, v)
      PROVE  Goal
  <2> DEFINE gs == [srv.groups EXCEPT ![g] = v]
  <2>1. g \in DOMAIN srv.groups /\ srv' = [srv EXCEPT !.groups = gs]
    BY <1>7, <1>0 DEF GroupChanges, Statuses
  <2>2. gs \in Maps(Groups, Settings)
    BY <2>1, <1>1, ChangedMap
  <2>3. srv' \in Statuses
    BY <2>1, <2>2, <1>0, SnapshotParts DEF Statuses
  <2>4. [method |-> "Group.OnStreamChanged", id |-> g, value |-> v] \in Messages
    BY DEF Messages
  <2>5. Sent
    BY <2>4, <1>7, <1>0, NotifyKeeps DEF GroupChanges
  <2> QED
    BY <2>3, <2>5, <1>7, <1>0 DEF GroupChanges
<1>8. ASSUME NEW x \in Streams, NEW v \in Settings, StreamUpdates(x, v)
      PROVE  Goal
  <2> DEFINE xs == With(srv.streams, x, v)
  <2>1. srv' = [srv EXCEPT !.streams = xs]
    BY <1>8 DEF StreamUpdates
  <2>2. xs \in Maps(Streams, Settings)
    BY <1>1, WithMap
  <2> HIDE DEF xs
  <2>3. srv' \in Statuses
    BY <2>1, <2>2, <1>0, SnapshotParts DEF Statuses
  <2>4. [method |-> "Stream.OnUpdate", id |-> x, value |-> v] \in Messages
    BY DEF Messages
  <2>5. Sent
    BY <2>4, <1>8, <1>0, NotifyKeeps DEF StreamUpdates
  <2> QED
    BY <2>3, <2>5, <1>8, <1>0 DEF StreamUpdates
<1>9. ASSUME ServerUpdates
      PROVE  Goal
  <2>1. ASSUME \E p \in DOMAIN srv.clients :
                 srv' = [srv EXCEPT !.clients = Restrict(srv.clients, DOMAIN srv.clients \ {p})]
        PROVE  srv' \in Statuses
    <3>1. PICK p \in DOMAIN srv.clients :
            srv' = [srv EXCEPT !.clients = Restrict(srv.clients, DOMAIN srv.clients \ {p})]
      BY <2>1
    <3>2. Restrict(srv.clients, DOMAIN srv.clients \ {p}) \in Maps(Players, Client)
      BY <1>1, RestrictMap
    <3> QED
      BY <3>1, <3>2, <1>3
  <2>2. ASSUME \E g \in Groups \ DOMAIN srv.groups, v \in Settings :
                 srv' = [srv EXCEPT !.groups = With(srv.groups, g, v)]
        PROVE  srv' \in Statuses
    <3>1. PICK g \in Groups, v \in Settings : srv' = [srv EXCEPT !.groups = With(srv.groups, g, v)]
      BY <2>2
    <3> DEFINE gs == With(srv.groups, g, v)
    <3>2. gs \in Maps(Groups, Settings)
      BY <1>1, WithMap
    <3>3. srv' = [srv EXCEPT !.groups = gs]
      BY <3>1
    <3> HIDE DEF gs
    <3> QED
      BY <3>2, <3>3, <1>0, SnapshotParts DEF Statuses
  <2>3. srv' \in Statuses
    BY <2>1, <2>2, <1>9 DEF ServerUpdates
  <2>4. [method |-> "Server.OnUpdate", id |-> None, value |-> srv'] \in Messages
    BY <2>3 DEF Messages
  <2>5. Sent
    BY <2>4, <1>9, <1>0, NotifyKeeps DEF ServerUpdates
  <2>6. stale' \subseteq Players
    BY <1>9, <1>0 DEF ServerUpdates
  <2> HIDE DEF Sent
  <2> QED
    BY <2>3, <2>5, <2>6
<1> HIDE DEF Goal
<1>10. Goal
  BY <1>4, <1>5, <1>6, <1>7, <1>8, <1>9 DEF ServerStep
<1> USE DEF Goal
<1>11. /\ UNCHANGED <<link, cache, prev, armed, stopped, task, volumeVars>>
       /\ Spend("events")
  BY DEF ServerStep
<1>12. Reconnecting => Reconnecting'
  BY <1>10, <1>11, SeedStays
<1>13. ServerShape'
  BY <1>10, <1>11, <1>0 DEF ServerShape
<1>14. BoundShape'
  BY <1>11, SpendKeeps DEF IInv, Shape
<1>15. VolumeShape'
  BY <1>11, Frames DEF IInv, Shape
<1>16. NoStrandedChange' /\ HaveVolume' /\ TaskShape' /\ CacheShape'
  BY <1>11, <1>12, BrokerRests
<1> QED
  BY <1>13, <1>14, <1>15, <1>16 DEF IInv, Shape

LEMMA DropKeeps ==
  ASSUME IInv, Drop
  PROVE  IInv'
<1>0. wire \in Seq(Messages)
  BY DEF IInv, Shape, ServerShape
<1>1. PICK n \in 0..Len(wire) : wire' = SubSeq(wire, 1, n)
  BY DEF Drop
<1>2. Len(wire) \in Nat /\ \A i \in 1..Len(wire) : wire[i] \in Messages
  BY <1>0
<1>3. wire' \in Seq(Messages)
  BY <1>0, <1>1, <1>2
<1>4. /\ link' = "down" /\ Spend("upsets")
      /\ UNCHANGED <<srv, stale, cache, prev, armed, stopped, task, volumeVars>>
  BY DEF Drop
<1>5. ServerShape'
  BY <1>3, <1>4 DEF IInv, Shape, ServerShape
<1>6. Reconnecting'
  BY <1>4 DEF Reconnecting
<1>7. NoStrandedChange' /\ HaveVolume' /\ TaskShape' /\ CacheShape'
  BY <1>4, <1>6, BrokerRests
<1>8. BoundShape' /\ VolumeShape'
  BY <1>4, SpendKeeps, Frames DEF IInv, Shape
<1> QED
  BY <1>5, <1>7, <1>8 DEF IInv, Shape

LEMMA AnswerSeedKeeps ==
  ASSUME IInv, AnswerSeed
  PROVE  IInv'
<1>0. srv \in Statuses /\ wire \in Seq(Messages)
  BY DEF IInv, Shape, ServerShape
<1> DEFINE m == [method |-> "broker-seed", id |-> None, value |-> srv]
<1>1. m \in Messages
  BY <1>0 DEF Messages
<1>2. /\ wire' = Append(wire, m) /\ link' = "up"
      /\ UNCHANGED <<srv, stale, cache, prev, armed, stopped, task, volumeVars, left>>
  BY DEF AnswerSeed
<1>3. wire' \in Seq(Messages) /\ \E i \in DOMAIN wire' : wire'[i] = m
  BY <1>0, <1>1, <1>2, SentLast
<1>4. ServerShape'
  BY <1>2, <1>3 DEF IInv, Shape, ServerShape
<1>5. Reconnecting'
  BY <1>3 DEF Reconnecting
<1>6. NoStrandedChange' /\ HaveVolume' /\ TaskShape' /\ CacheShape'
  BY <1>2, <1>5, BrokerRests
<1>7. BoundShape' /\ VolumeShape'
  BY <1>2, Frames DEF IInv, Shape
<1> QED
  BY <1>4, <1>6, <1>7 DEF IInv, Shape
-----------------------------------------------------------------------------
(* The reader.                                                              *)

LEMMA ConnectKeeps ==
  ASSUME IInv, Connect
  PROVE  IInv'
<1>0. "recv" \in Stages \ {"loaded", "seed", "get", "got"}
  BY DEF Stages
<1>1. /\ task[Reader].stage = "sleep" /\ link' = "asked" /\ wire' = <<>>
      /\ Goto(Reader, At("recv"))
      /\ UNCHANGED <<srv, stale, cache, prev, armed, stopped, volumeVars, left>>
  BY DEF Connect
<1>2. TaskShape' /\ task'[Reader].stage = "recv" /\ OthersRest(Reader)
  BY <1>0, <1>1, AtIdle, GotoMoves, ReaderIsTask DEF IInv, Shape
<1>3. wire' \in Seq(Messages)
  BY <1>1
<1>4. ServerShape'
  BY <1>1, <1>3 DEF IInv, Shape, ServerShape
<1>5. Reconnecting'
  BY <1>1 DEF Reconnecting
<1>6. NoStrandedChange' /\ HaveVolume'
  BY <1>1, <1>2, <1>5, TaskMovesOn, ReaderIsTask
<1>7. CacheShape' /\ VolumeShape' /\ BoundShape'
  BY <1>1, Frames DEF IInv, Shape
<1> QED
  BY <1>2, <1>4, <1>6, <1>7 DEF IInv, Shape

LEMMA ConnectionLostKeeps ==
  ASSUME IInv, ConnectionLost
  PROVE  IInv'
<1>0. "sleep" \in Stages \ {"loaded", "seed", "get", "got"}
  BY DEF Stages
<1>1. /\ task[Reader].stage = "recv" /\ Goto(Reader, At("sleep"))
      /\ UNCHANGED <<external, cache, prev, armed, stopped, volumeVars, left>>
  BY DEF ConnectionLost, Raise
<1>2. TaskShape' /\ task'[Reader].stage = "sleep" /\ OthersRest(Reader)
  BY <1>0, <1>1, AtIdle, GotoMoves, ReaderIsTask DEF IInv, Shape
<1>3. Reconnecting'
  BY <1>2 DEF Reconnecting
<1>4. NoStrandedChange' /\ HaveVolume'
  BY <1>1, <1>2, <1>3, TaskMovesOn, ReaderIsTask
<1>5. ServerShape' /\ CacheShape' /\ VolumeShape' /\ BoundShape'
  BY <1>1, Frames DEF IInv, Shape
<1> QED
  BY <1>2, <1>4, <1>5 DEF IInv, Shape

(* A full status begins to be applied: the timer is cancelled, and its task *)
(* has taken the debt over.                                                 *)
LEMMA BeginApplyKeeps ==
  ASSUME IInv, NEW t \in Tasks, NEW status \in Statuses, NEW why \in Players \cup {None},
         BeginApply(t, status, why), UNCHANGED <<prev, stopped>>,
         task[t].stage \in {"recv", "fetched"}
  PROVE  TaskShape' /\ CacheShape' /\ NoStrandedChange' /\ HaveVolume'
<1>1. /\ TaskShape' /\ OthersRest(t)
      /\ cache' \in Snapshots /\ armed' \in BOOLEAN
      /\ \/ task'[t].stage = "load"
         \/ /\ task'[t].stage = IF t = Reader THEN "sleep" ELSE "raised"
            /\ cache' = cache
  BY BeginApplyFacts DEF IInv
<1>2. CacheShape'
  BY <1>1 DEF IInv, Shape, CacheShape
<1>3. NoStrandedChange'
  BY <1>1 DEF NoStrandedChange, Applying, Reconnecting
<1>4. HaveVolume'
  <2>1. CASE t # Reader
    <3>1. task'[t].stage # "new"
      BY <1>1, <2>1
    <3> QED
      BY <2>1, <3>1, <1>1, Solitude DEF HaveVolume
  <2>2. CASE t = Reader /\ task'[t].stage = "load"
    BY <2>2 DEF HaveVolume, Applying
  <2>3. CASE t = Reader /\ task'[t].stage = "sleep" /\ cache' = cache
    BY <2>3, <1>1, Solitude DEF IInv, HaveVolume, Applying
  <2> QED
    BY <2>1, <2>2, <2>3, <1>1
<1> QED
  BY <1>1, <1>2, <1>3, <1>4

LEMMA ReceiveKeeps ==
  ASSUME IInv, Receive
  PROVE  IInv'
<1> DEFINE m == Head(wire)
<1>0. /\ task[Reader].stage = "recv" /\ wire # <<>> /\ wire' = Tail(wire)
      /\ UNCHANGED <<srv, link, stale, prev, stopped, volumeVars, left>>
  BY DEF Receive
<1>1. /\ m \in Messages /\ Tail(wire) \in Seq(Messages)
      /\ \A i \in DOMAIN wire :
           wire[i] = m \/ \E j \in DOMAIN Tail(wire) : Tail(wire)[j] = wire[i]
  BY <1>0, Received DEF IInv, Shape, ServerShape
<1>2. ServerShape' /\ VolumeShape' /\ BoundShape'
  BY <1>0, <1>1, Frames DEF IInv, Shape, ServerShape
<1>3. /\ TaskShape /\ cache \in Snapshots /\ prev \in Snapshots \cup {Nothing}
      /\ armed \in BOOLEAN /\ stopped \in BOOLEAN
  BY DEF IInv, Shape, CacheShape
<1> DEFINE Rest == TaskShape' /\ CacheShape' /\ NoStrandedChange' /\ HaveVolume'
<1> HIDE DEF m
<1>4. ASSUME m.method \in WholeStatus, BeginApply(Reader, m.value, None)
      PROVE  Rest
  <2>1. m.value \in Statuses
    BY <1>1, <1>4 DEF Messages, WholeStatus
  <2> QED
    BY <2>1, <1>4, <1>0, BeginApplyKeeps, ReaderIsTask
<1>5. ASSUME m.method = "Client.OnConnect", Goto(Reader, [At("fetch") EXCEPT !.why = m.id]),
             UNCHANGED <<cache, armed>>
      PROVE  Rest
  <2>0. "fetch" \in Stages \ {"loaded", "seed", "get", "got"}
    BY DEF Stages
  <2>1. m.id \in Players \cup {None}
    BY <1>1, <1>5 DEF Messages
  <2> DEFINE l == [At("fetch") EXCEPT !.why = m.id]
  <2>2. l \in Locals /\ Sound(l) /\ l.stage = "fetch"
    BY <2>0, <2>1, AtIdle
  <2>3. TaskShape' /\ task'[Reader].stage = "fetch" /\ OthersRest(Reader)
    BY <2>2, <1>3, <1>5, GotoMoves, ReaderIsTask
  <2>4. Reconnecting => Reconnecting'
    <3>1. ASSUME NEW i \in DOMAIN wire, wire[i].method = "broker-seed"
          PROVE  \E j \in DOMAIN wire' : wire'[j].method = "broker-seed"
      BY <3>1, <1>0, <1>1, <1>5
    <3> QED
      BY <3>1, <1>0 DEF Reconnecting
  <2>5. NoStrandedChange' /\ HaveVolume'
    BY <2>3, <2>4, <1>0, <1>5, TaskMovesOn, ReaderIsTask
  <2> QED
    BY <2>3, <2>5, <1>0, <1>5, Frames DEF IInv, Shape
<1>6. ASSUME m.method \notin WholeStatus \cup {"Client.OnConnect"}
      PROVE  /\ Delta(m, cache) \in Snapshots
             /\ Connected(cache.clients) \subseteq DOMAIN cache.volumes =>
                  Connected(Delta(m, cache).clients) \subseteq DOMAIN Delta(m, cache).volumes
  BY <1>6, <1>1, <1>3, DeltaKeeps
<1>7. ASSUME m.method = "Client.OnVolumeChanged", m.id \in DOMAIN cache.clients,
             cache' = Delta(m, cache), Goto(Reader, [At("get") EXCEPT !.why = m.id]),
             UNCHANGED armed
      PROVE  Rest
  <2>1. m.id \in Players
    BY <1>1, <1>7 DEF Messages
  <2> DEFINE l == [At("get") EXCEPT !.why = m.id]
  <2>2. l \in Locals /\ Sound(l) /\ l.stage = "get"
    BY <2>1, NoStatusIsStatus DEF At, Locals, Sound, Stages
  <2>3. TaskShape' /\ task'[Reader].stage = "get" /\ OthersRest(Reader)
    BY <2>2, <1>3, <1>7, GotoMoves, ReaderIsTask
  <2>4. NoStrandedChange'
    BY <2>3 DEF NoStrandedChange
  <2>5. CacheShape'
    BY <1>3, <1>6, <1>7, <1>0 DEF CacheShape, WholeStatus
  <2>6. HaveVolume'
    <3>1. Connected(cache.clients) \subseteq DOMAIN cache.volumes =>
            Connected(cache'.clients) \subseteq DOMAIN cache'.volumes
      BY <1>6, <1>7 DEF WholeStatus
    <3> QED
      BY <3>1, <2>3, <1>0, Solitude, ReaderIsTask DEF IInv, HaveVolume, Applying
  <2> QED
    BY <2>3, <2>4, <2>5, <2>6
<1>8. ASSUME m.method \notin WholeStatus \cup {"Client.OnConnect"},
             cache' = Delta(m, cache), MaybeSignal(armed, cache'), UNCHANGED task
      PROVE  Rest
  <2>1. armed' \in BOOLEAN /\ NoStrandedChange'
    BY <1>8, <1>6, <1>3, <1>0, SignalKeeps
  <2>2. CacheShape' /\ TaskShape'
    BY <2>1, <1>3, <1>6, <1>8, <1>0, Frames DEF CacheShape
  <2>3. HaveVolume'
    <3>1. Connected(cache.clients) \subseteq DOMAIN cache.volumes =>
            Connected(cache'.clients) \subseteq DOMAIN cache'.volumes
      BY <1>6, <1>8
    <3> QED
      BY <3>1, <1>8, <1>0 DEF IInv, HaveVolume, Applying, ReaderAlone
  <2> QED
    BY <2>1, <2>2, <2>3
<1>9. Rest
  <2> HIDE DEF Rest
  <2> QED
    BY <1>4, <1>5, <1>7, <1>8 DEF Receive, WholeStatus, m
<1> QED
  BY <1>2, <1>9 DEF IInv, Shape
LEMMA ReadVolumeKeeps ==
  ASSUME IInv, ReadVolume
  PROVE  IInv'
<1> DEFINE l == [task[Reader] EXCEPT !.stage = "got", !.seen = dal]
<1>1. /\ task[Reader].stage = "get" /\ Goto(Reader, l)
      /\ UNCHANGED <<external, cache, prev, armed, stopped, volumeVars, left>>
  BY DEF ReadVolume
<1>2. task[Reader] \in Locals /\ Sound(task[Reader]) /\ dal \in Volumes
  BY ReaderIsTask DEF IInv, Shape, TaskShape, VolumeShape
<1>3. l \in Locals /\ Sound(l) /\ l.stage = "got"
  BY <1>1, <1>2 DEF Locals, Sound, Stages
<1>4. TaskShape' /\ task'[Reader].stage = "got" /\ OthersRest(Reader)
  BY <1>1, <1>3, GotoMoves, ReaderIsTask DEF IInv, Shape
<1>5. NoStrandedChange'
  BY <1>4 DEF NoStrandedChange
<1>6. HaveVolume'
  BY <1>1, <1>4, Solitude, ReaderIsTask DEF IInv, HaveVolume, Applying
<1>7. ServerShape' /\ CacheShape' /\ VolumeShape' /\ BoundShape'
  BY <1>1, Frames DEF IInv, Shape
<1> QED
  BY <1>4, <1>5, <1>6, <1>7 DEF IInv, Shape

LEMMA ResumeVolumeKeeps ==
  ASSUME IInv, ResumeVolume
  PROVE  IInv'
<1> DEFINE p == task[Reader].why
           vol == task[Reader].seen[p]
<1>0. "recv" \in Stages \ {"loaded", "seed", "get", "got"}
  BY DEF Stages
<1>1. /\ task[Reader].stage = "got" /\ Goto(Reader, At("recv"))
      /\ cache' = IF vol = None THEN cache ELSE [cache EXCEPT !.volumes = With(cache.volumes, p, vol)]
      /\ MaybeSignal(armed, cache')
      /\ UNCHANGED <<external, prev, stopped, volumeVars, left>>
  BY DEF ResumeVolume
<1>2. p \in Players /\ task[Reader].seen \in Volumes
  BY <1>1, ReaderIsTask DEF IInv, Shape, TaskShape, Sound
<1>3. vol \in Levels \cup {None}
  BY <1>2 DEF Volumes
<1>4. /\ cache \in Snapshots /\ prev \in Snapshots \cup {Nothing}
      /\ armed \in BOOLEAN /\ stopped \in BOOLEAN
  BY DEF IInv, Shape, CacheShape
<1>5. TaskShape' /\ task'[Reader].stage = "recv" /\ OthersRest(Reader)
  BY <1>0, <1>1, AtIdle, GotoMoves, ReaderIsTask DEF IInv, Shape
<1> DEFINE vs == With(cache.volumes, p, vol)
<1>6. vs \in Maps(Players, Levels \cup {None}) /\ DOMAIN vs = DOMAIN cache.volumes \cup {p}
  <2>1. cache.volumes \in Maps(Players, Levels \cup {None})
    BY <1>4, SnapshotFields
  <2>2. ASSUME NEW x \in Players, NEW v \in Levels \cup {None}
        PROVE  /\ With(cache.volumes, x, v) \in Maps(Players, Levels \cup {None})
               /\ DOMAIN With(cache.volumes, x, v) = DOMAIN cache.volumes \cup {x}
    <3> DEFINE B == Levels \cup {None}
               f == cache.volumes
    <3>1. f \in Maps(Players, B) /\ v \in B
      BY <2>1, <2>2
    <3> HIDE DEF B, f
    <3>2. With(f, x, v) \in Maps(Players, B) /\ DOMAIN With(f, x, v) = DOMAIN f \cup {x}
      BY <3>1, WithMap
    <3> QED
      BY <3>2 DEF B, f
  <2> QED
    BY <2>2, <1>2, <1>3
<1>7. /\ cache' \in Snapshots /\ cache'.clients = cache.clients
      /\ DOMAIN cache.volumes \subseteq DOMAIN cache'.volumes
  <2> HIDE DEF vol, p
  <2>1. CASE vol = None
    BY <2>1, <1>1, <1>4
  <2>2. CASE vol # None
    <3>1. cache' = [cache EXCEPT !.volumes = vs]
      BY <2>2, <1>1
    <3> HIDE DEF vs
    <3> QED
      BY <3>1, <1>6, <1>4, NewVolumes
  <2> QED
    BY <2>1, <2>2
<1>8. armed' \in BOOLEAN /\ NoStrandedChange'
  BY <1>1, <1>4, <1>7, SignalKeeps
<1>9. HaveVolume'
  BY <1>1, <1>5, <1>7, Solitude, ReaderIsTask DEF IInv, HaveVolume, Applying
<1>10. CacheShape'
  BY <1>1, <1>4, <1>7, <1>8 DEF CacheShape
<1>11. ServerShape' /\ VolumeShape' /\ BoundShape'
  BY <1>1, Frames DEF IInv, Shape
<1> QED
  BY <1>5, <1>8, <1>9, <1>10, <1>11 DEF IInv, Shape

LEMMA ResyncDoneKeeps ==
  ASSUME IInv, ResyncDone
  PROVE  IInv'
<1>0. "recv" \in Stages \ {"loaded", "seed", "get", "got"}
  BY DEF Stages
<1>1. /\ task[Reader].stage = "resync" /\ Goto(Reader, At("recv"))
      /\ MaybeSignal(armed, cache)
      /\ UNCHANGED <<srv, link, wire, cache, prev, stopped, volumeVars>>
  BY DEF ResyncDone
<1>2. stale' \subseteq stale /\ (UNCHANGED left \/ Spend("upsets"))
  BY DEF ResyncDone
<1>3. ServerShape' /\ BoundShape' /\ VolumeShape'
  BY <1>1, <1>2, SpendKeeps, Frames DEF IInv, Shape, ServerShape
<1>4. /\ cache \in Snapshots /\ prev \in Snapshots \cup {Nothing}
      /\ armed \in BOOLEAN /\ stopped \in BOOLEAN
  BY DEF IInv, Shape, CacheShape
<1>5. TaskShape' /\ task'[Reader].stage = "recv" /\ OthersRest(Reader)
  BY <1>0, <1>1, AtIdle, GotoMoves, ReaderIsTask DEF IInv, Shape
<1>6. cache' = cache /\ MaybeSignal(armed, cache')
  BY <1>1
<1>7. armed' \in BOOLEAN /\ NoStrandedChange'
  BY <1>1, <1>4, <1>6, SignalKeeps
<1>8. CacheShape'
  BY <1>1, <1>4, <1>7 DEF CacheShape
<1>9. HaveVolume'
  BY <1>1, <1>5, Solitude, ReaderIsTask DEF IInv, HaveVolume, Applying
<1> QED
  BY <1>3, <1>5, <1>7, <1>8, <1>9 DEF IInv, Shape
-----------------------------------------------------------------------------
(* reseed(), from a UI handler or from the reader.                          *)

(* The step of a task that waited for an answer and excused nothing.        *)
LEMMA WaitingKeeps ==
  ASSUME IInv, NEW t \in Tasks, NEW l \in Locals, Sound(l), Goto(t, l),
         task[t].stage \in {"new", "fetch"}, l.stage \in {"fetch", "fetched", "resync", "end"},
         UNCHANGED <<external, cache, prev, armed, stopped, volumeVars>>, BoundShape'
  PROVE  IInv'
<1>1. TaskShape' /\ task'[t] = l /\ OthersRest(t)
  BY GotoMoves DEF IInv, Shape
<1>2. Reconnecting => Reconnecting'
  <2>1. ASSUME t = Reader
        PROVE  task[Reader].stage # "sleep"
    BY <2>1
  <2>2. task[Reader].stage = "sleep" => task'[Reader].stage = "sleep"
    BY <2>1, <1>1, ReaderIsTask DEF OthersRest
  <2> QED
    BY <2>2 DEF Reconnecting, external
<1>3. NoStrandedChange' /\ HaveVolume'
  BY <1>1, <1>2, TaskMovesOn
<1>4. ServerShape' /\ CacheShape' /\ VolumeShape'
  BY Frames DEF IInv, Shape
<1> QED
  BY <1>1, <1>3, <1>4 DEF IInv, Shape

LEMMA StartReseedKeeps ==
  ASSUME IInv, NEW t \in Tasks, StartReseed(t)
  PROVE  IInv'
<1>1. At("fetch") \in Locals /\ Sound(At("fetch")) /\ At("fetch").stage = "fetch"
  BY AtIdle DEF Stages
<1>2. /\ task[t].stage = "new" /\ Goto(t, At("fetch"))
      /\ UNCHANGED <<external, cache, prev, armed, stopped, volumeVars, left>>
  BY DEF StartReseed
<1>3. BoundShape'
  BY <1>2, Frames DEF IInv, Shape
<1> QED
  BY <1>1, <1>2, <1>3, WaitingKeeps

LEMMA AnswerStatusKeeps ==
  ASSUME IInv, NEW t \in Tasks, AnswerStatus(t)
  PROVE  IInv'
<1> DEFINE l == [task[t] EXCEPT !.stage = "fetched", !.status = srv]
<1>1. /\ task[t].stage = "fetch" /\ Goto(t, l)
      /\ UNCHANGED <<external, cache, prev, armed, stopped, volumeVars, left>>
  BY DEF AnswerStatus
<1>2. task[t] \in Locals /\ Sound(task[t]) /\ srv \in Statuses
  BY DEF IInv, Shape, TaskShape, ServerShape
<1>3. l \in Locals /\ Sound(l) /\ l.stage = "fetched"
  BY <1>2 DEF Locals, Sound, Stages
<1>4. BoundShape'
  BY <1>1, Frames DEF IInv, Shape
<1> HIDE DEF l
<1> QED
  BY <1>1, <1>3, <1>4, WaitingKeeps

LEMMA StatusFailedKeeps ==
  ASSUME IInv, NEW t \in Tasks, StatusFailed(t)
  PROVE  IInv'
<1>0. {"recv", "resync", "end"} \subseteq Stages \ {"loaded", "seed", "get", "got"}
  BY DEF Stages
<1>1. /\ task[t].stage = "fetch" /\ Spend("refusals")
      /\ UNCHANGED <<external, cache, prev, stopped, volumeVars>>
  BY DEF StatusFailed
<1>2. BoundShape'
  BY <1>1, SpendKeeps DEF IInv, Shape
<1>3. ASSUME t = Reader, MaybeSignal(armed, cache), Goto(t, At("recv"))
      PROVE  IInv'
  <2>1. TaskShape' /\ task'[Reader].stage = "recv" /\ OthersRest(Reader)
    BY <1>0, <1>3, AtIdle, GotoMoves, ReaderIsTask DEF IInv, Shape
  <2>2. /\ cache' \in Snapshots /\ prev \in Snapshots \cup {Nothing}
        /\ armed \in BOOLEAN /\ stopped \in BOOLEAN
    BY <1>1 DEF IInv, Shape, CacheShape
  <2>3. MaybeSignal(armed, cache')
    BY <1>1, <1>3
  <2>4. armed' \in BOOLEAN /\ NoStrandedChange'
    BY <1>1, <2>2, <2>3, SignalKeeps
  <2>5. CacheShape'
    BY <1>1, <2>2, <2>4 DEF CacheShape
  <2>6. HaveVolume'
    BY <1>1, <1>3, <2>1, Solitude, ReaderIsTask DEF IInv, HaveVolume, Applying
  <2>7. ServerShape' /\ VolumeShape'
    BY <1>1, Frames DEF IInv, Shape
  <2> QED
    BY <2>1, <2>4, <2>5, <2>6, <2>7, <1>2 DEF IInv, Shape
<1>4. ASSUME UNCHANGED armed,
             Goto(t, IF t = Reader THEN [At("resync") EXCEPT !.why = task[t].why] ELSE At("end"))
      PROVE  IInv'
  <2>1. task[t].why \in Players \cup {None}
    BY DEF IInv, Shape, TaskShape, Locals
  <2> DEFINE l == IF t = Reader THEN [At("resync") EXCEPT !.why = task[t].why] ELSE At("end")
  <2>2. l \in Locals /\ Sound(l) /\ l.stage \in {"resync", "end"}
    BY <1>0, <2>1, AtIdle
  <2> HIDE DEF l
  <2>3. Goto(t, l)
    BY <1>4 DEF l
  <2> QED
    BY <2>2, <2>3, <1>1, <1>2, <1>4, WaitingKeeps
<1> QED
  BY <1>3, <1>4 DEF StatusFailed

LEMMA ApplyStatusKeeps ==
  ASSUME IInv, NEW t \in Tasks, ApplyStatus(t)
  PROVE  IInv'
<1>1. /\ task[t].stage = "fetched" /\ BeginApply(t, task[t].status, task[t].why)
      /\ UNCHANGED <<external, prev, stopped, volumeVars, left>>
  BY DEF ApplyStatus
<1>2. task[t].status \in Statuses /\ task[t].why \in Players \cup {None}
  BY DEF IInv, Shape, TaskShape, Locals
<1>3. TaskShape' /\ CacheShape' /\ NoStrandedChange' /\ HaveVolume'
  BY <1>1, <1>2, BeginApplyKeeps
<1>4. ServerShape' /\ VolumeShape' /\ BoundShape'
  BY <1>1, Frames DEF IInv, Shape
<1> QED
  BY <1>3, <1>4 DEF IInv, Shape

(* A step inside the apply of t: the debt stays with t.  It suffices to say *)
(* what becomes of the players the reader remembers.                        *)
LEMMA InsideApply ==
  ASSUME IInv, NEW t \in Tasks, NEW l \in Locals, Sound(l), Goto(t, l),
         l.stage \in {"loaded", "seed"},
         UNCHANGED <<cache, prev, armed, stopped>>,
         t = Reader /\ ReaderAlone /\ ~ stopped /\ l.stage = "seed" =>
           Connected(cache.clients) \subseteq l.connected
  PROVE  TaskShape' /\ CacheShape' /\ NoStrandedChange' /\ HaveVolume'
<1>1. TaskShape' /\ task'[t] = l /\ OthersRest(t)
  BY GotoMoves DEF IInv, Shape
<1>2. NoStrandedChange'
  BY <1>1 DEF NoStrandedChange, Applying
<1>3. HaveVolume'
  <2>1. CASE t = Reader
    BY <2>1, <1>1, Solitude DEF HaveVolume, Applying
  <2>2. CASE t # Reader
    BY <2>2, <1>1, Solitude DEF HaveVolume
  <2> QED
    BY <2>1, <2>2
<1> QED
  BY <1>1, <1>2, <1>3, Frames DEF IInv, Shape

(* The apply ends: the volumes of the connected players are there, and the  *)
(* pages are told if there is something to tell.                            *)
LEMMA RebuildKeeps ==
  ASSUME IInv, NEW t \in Tasks, NEW connected \in SUBSET Players, NEW seen \in Volumes,
         RebuildVolumes(t, connected, seen), UNCHANGED <<prev, stopped>>,
         t = Reader /\ ReaderAlone /\ ~ stopped =>
           Connected(cache.clients) \subseteq connected
  PROVE  TaskShape' /\ CacheShape' /\ NoStrandedChange' /\ HaveVolume'
<1> DEFINE vs == [p \in connected |-> seen[p]]
<1>1. vs \in Maps(Players, Levels \cup {None}) /\ DOMAIN vs = connected
  <2>1. vs \in [connected -> Levels \cup {None}]
    BY DEF Volumes
  <2> QED
    BY <2>1, MapIntro
<1>2. cache' = [cache EXCEPT !.volumes = vs] /\ AfterApply(t, cache')
  BY DEF RebuildVolumes
<1>3. /\ cache \in Snapshots /\ prev \in Snapshots \cup {Nothing}
      /\ armed \in BOOLEAN /\ stopped \in BOOLEAN
  BY DEF IInv, Shape, CacheShape
<1>4. cache' \in Snapshots /\ cache'.clients = cache.clients /\ DOMAIN cache'.volumes = connected
  <2> HIDE DEF vs
  <2> QED
    BY <1>1, <1>2, <1>3, NewVolumes
<1>5. /\ TaskShape' /\ OthersRest(t)
      /\ MaybeSignal(armed, cache')
      /\ task'[t].stage \in {"end", "resync", "recv"}
  BY <1>2, AfterApplyFacts DEF IInv, Shape
<1>6. armed' \in BOOLEAN /\ NoStrandedChange'
  BY <1>3, <1>4, <1>5, SignalKeeps
<1>7. CacheShape'
  BY <1>3, <1>4, <1>6 DEF CacheShape
<1>8. HaveVolume'
  <2>1. CASE t = Reader
    BY <2>1, <1>4, <1>5, Solitude DEF HaveVolume
  <2>2. CASE t # Reader
    BY <2>2, <1>5, Solitude DEF HaveVolume
  <2> QED
    BY <2>1, <2>2
<1> QED
  BY <1>5, <1>6, <1>7, <1>8

LEMMA ReadVolumesKeeps ==
  ASSUME IInv, NEW t \in Tasks, ReadVolumes(t)
  PROVE  IInv'
<1> DEFINE l == [task[t] EXCEPT !.stage = "loaded", !.seen = dal]
<1>1. /\ task[t].stage = "load" /\ Goto(t, l)
      /\ UNCHANGED <<external, cache, prev, armed, stopped, volumeVars, left>>
  BY DEF ReadVolumes
<1>2. task[t] \in Locals /\ Sound(task[t]) /\ dal \in Volumes
  BY DEF IInv, Shape, TaskShape, VolumeShape
<1>3. l \in Locals /\ Sound(l) /\ l.stage = "loaded"
  BY <1>2 DEF Locals, Sound, Stages
<1> HIDE DEF l
<1>4. TaskShape' /\ CacheShape' /\ NoStrandedChange' /\ HaveVolume'
  BY <1>1, <1>3, InsideApply
<1>5. ServerShape' /\ VolumeShape' /\ BoundShape'
  BY <1>1, Frames DEF IInv, Shape
<1> QED
  BY <1>4, <1>5 DEF IInv, Shape

LEMMA ResumeLoadKeeps ==
  ASSUME IInv, NEW t \in Tasks, ResumeLoad(t)
  PROVE  IInv'
<1> DEFINE connected == Connected(cache.clients)
           missing == Unknown(task[t].seen, connected)
           l == [task[t] EXCEPT !.stage = "seed", !.connected = connected, !.missing = missing]
<1>1. /\ task[t].stage = "loaded"
      /\ \/ missing = {} /\ RebuildVolumes(t, connected, task[t].seen)
         \/ Goto(t, l) /\ UNCHANGED <<cache, armed>>
      /\ UNCHANGED <<external, prev, stopped, volumeVars, left>>
  BY DEF ResumeLoad
<1>2. task[t] \in Locals /\ Sound(task[t]) /\ connected \in SUBSET Players
  BY SnapshotFields DEF IInv, Shape, TaskShape, CacheShape
<1>3. task[t].seen \in Volumes
  BY <1>1, <1>2 DEF Sound
<1>4. missing \subseteq connected
  BY DEF Unknown
<1>5. l \in Locals /\ Sound(l) /\ l.stage = "seed" /\ l.connected = connected
  <2> HIDE DEF missing, connected
  <2> QED
    BY <1>2, <1>3, <1>4 DEF Locals, Sound, Stages
<1>6. TaskShape' /\ CacheShape' /\ NoStrandedChange' /\ HaveVolume'
  <2>1. CASE RebuildVolumes(t, connected, task[t].seen)
    BY <2>1, <1>1, <1>2, <1>3, RebuildKeeps
  <2>2. CASE Goto(t, l) /\ UNCHANGED <<cache, armed>>
    <3> HIDE DEF l
    <3> QED
      BY <2>2, <1>1, <1>5, InsideApply
  <2> QED
    BY <2>1, <2>2, <1>1
<1>7. ServerShape' /\ VolumeShape' /\ BoundShape'
  BY <1>1, Frames DEF IInv, Shape
<1> QED
  BY <1>6, <1>7 DEF IInv, Shape

LEMMA ResumeSeedKeeps ==
  ASSUME IInv, NEW t \in Tasks, ResumeSeed(t)
  PROVE  IInv'
<1>1. /\ task[t].stage = "seed" /\ RebuildVolumes(t, task[t].connected, task[t].seen)
      /\ UNCHANGED <<external, prev, stopped, volumeVars, left>>
  BY DEF ResumeSeed
<1>2. task[t] \in Locals /\ Sound(task[t])
  BY DEF IInv, Shape, TaskShape
<1>3. task[t].seen \in Volumes /\ task[t].connected \in SUBSET Players
  BY <1>1, <1>2 DEF Sound, Locals
<1>4. t = Reader /\ ReaderAlone /\ ~ stopped =>
        Connected(cache.clients) \subseteq task[t].connected
  BY <1>1 DEF IInv, HaveVolume
<1>5. TaskShape' /\ CacheShape' /\ NoStrandedChange' /\ HaveVolume'
  BY <1>1, <1>3, <1>4, RebuildKeeps
<1>6. ServerShape' /\ VolumeShape' /\ BoundShape'
  BY <1>1, Frames DEF IInv, Shape
<1> QED
  BY <1>5, <1>6 DEF IInv, Shape
-----------------------------------------------------------------------------
(* The volume DAL and its observer.                                         *)

LEMMA SetVolumeKeeps ==
  ASSUME VolumeShape, NEW w \in Tasks \cup {Queue}, NEW p \in Players, NEW v \in Levels,
         SetVolume(w, p, v), UNCHANGED posts
  PROVE  VolumeShape'
<1>1. CASE dal[p] = v
  BY <1>1 DEF SetVolume, VolumeShape
<1>2. CASE dal[p] # v
  <2>1. /\ dal' = [dal EXCEPT ![p] = v]
        /\ writers' = writers \cup {[by |-> w, of |-> p, cached |-> Nothing]}
    BY <1>2 DEF SetVolume
  <2>2. dal' \in Volumes
    BY <2>1 DEF VolumeShape, Volumes
  <2> QED
    BY <2>1, <2>2 DEF VolumeShape
<1> QED
  BY <1>1, <1>2

LEMMA SeedOneKeeps ==
  ASSUME IInv, NEW t \in Tasks, NEW p \in Players, SeedOne(t, p)
  PROVE  IInv'
<1>1. /\ task[t].stage = "seed" /\ p \in task[t].missing
      /\ UNCHANGED <<external, cache, prev, armed, stopped, posts, left>>
  BY DEF SeedOne
<1>2. PICK v \in Levels \cup {None} :
        /\ Goto(t, [task[t] EXCEPT !.missing = task[t].missing \ {p},
                                   !.seen = [task[t].seen EXCEPT ![p] = v]])
        /\ IF v = None THEN UNCHANGED <<dal, writers>> ELSE SetVolume(t, p, v)
  <2>1. task[t] \in Locals
    BY DEF IInv, Shape, TaskShape
  <2> QED
    BY <2>1 DEF SeedOne, Locals
<1> DEFINE l == [task[t] EXCEPT !.missing = task[t].missing \ {p},
                                !.seen = [task[t].seen EXCEPT ![p] = v]]
<1>3. task[t] \in Locals /\ Sound(task[t]) /\ task[t].seen \in Volumes
  BY <1>1 DEF IInv, Shape, TaskShape, Sound
<1>4. [task[t].seen EXCEPT ![p] = v] \in Volumes
  BY <1>3 DEF Volumes
<1>5. l \in Locals /\ Sound(l) /\ l.stage = "seed" /\ l.connected = task[t].connected
  BY <1>1, <1>3, <1>4 DEF Locals, Sound
<1>6. t = Reader /\ ReaderAlone /\ ~ stopped => Connected(cache.clients) \subseteq l.connected
  BY <1>1, <1>5 DEF IInv, HaveVolume
<1>7. Goto(t, l)
  BY <1>2
<1> HIDE DEF l
<1>8. TaskShape' /\ CacheShape' /\ NoStrandedChange' /\ HaveVolume'
  BY <1>1, <1>5, <1>6, <1>7, InsideApply
<1>9. VolumeShape'
  <2>1. CASE v = None
    BY <2>1, <1>1, <1>2, Frames DEF IInv, Shape, volumeVars
  <2>2. CASE v # None
    <3>1. v \in Levels /\ SetVolume(t, p, v)
      BY <2>2, <1>2
    <3> QED
      BY <3>1, <1>1, SetVolumeKeeps DEF IInv, Shape
  <2> QED
    BY <2>1, <2>2
<1>10. ServerShape' /\ BoundShape'
  BY <1>1, Frames DEF IInv, Shape
<1> QED
  BY <1>8, <1>9, <1>10 DEF IInv, Shape

LEMMA WriteVolumeKeeps ==
  ASSUME IInv, NEW p \in Players, NEW v \in Levels, WriteVolume(p, v)
  PROVE  IInv'
<1>1. /\ SetVolume(Queue, p, v) /\ Spend("upsets")
      /\ UNCHANGED <<external, cache, prev, armed, stopped, task, posts>>
  BY DEF WriteVolume
<1>2. VolumeShape'
  BY <1>1, SetVolumeKeeps DEF IInv, Shape
<1>3. Reconnecting => Reconnecting'
  BY <1>1 DEF Reconnecting, external
<1>4. NoStrandedChange' /\ HaveVolume' /\ TaskShape' /\ CacheShape'
  BY <1>1, <1>3, BrokerRests
<1>5. ServerShape' /\ BoundShape'
  BY <1>1, Frames, SpendKeeps DEF IInv, Shape
<1> QED
  BY <1>2, <1>4, <1>5 DEF IInv, Shape

LEMMA WriterStepKeeps ==
  ASSUME IInv, WriterStep
  PROVE  IInv'
<1> DEFINE Writers == [by : Tasks \cup {Queue}, of : Players, cached : Volumes \cup {Nothing}]
<1>0. writers \subseteq Writers /\ dal \in Volumes /\ posts \in Seq(Volumes)
  BY DEF IInv, Shape, VolumeShape
<1>1. PICK x \in writers : ReadBack(x) \/ Post(x)
  BY DEF WriterStep
<1>2. x \in Writers
  BY <1>0
<1>3. UNCHANGED <<external, cache, prev, armed, stopped, task, dal, left>>
  BY <1>1 DEF ReadBack, Post
<1>4. VolumeShape'
  <2>1. CASE ReadBack(x)
    <3>1. [x EXCEPT !.cached = dal] \in Writers
      BY <1>0, <1>2
    <3> QED
      BY <3>1, <2>1, <1>0, <1>3 DEF ReadBack, VolumeShape
  <2>2. CASE Post(x)
    <3>1. x.cached \in Volumes
      BY <2>2, <1>2 DEF Post
    <3>2. posts' \in Seq(Volumes)
      BY <3>1, <2>2, <1>0 DEF Post
    <3> QED
      BY <3>2, <2>2, <1>0, <1>3 DEF Post, VolumeShape
  <2> QED
    BY <2>1, <2>2, <1>1
<1>5. Reconnecting => Reconnecting'
  BY <1>3 DEF Reconnecting, external
<1>6. NoStrandedChange' /\ HaveVolume' /\ TaskShape' /\ CacheShape'
  BY <1>3, <1>5, BrokerRests
<1>7. ServerShape' /\ BoundShape'
  BY <1>3, Frames DEF IInv, Shape
<1> QED
  BY <1>4, <1>6, <1>7 DEF IInv, Shape

(* A pushed volume is never taken away, and no page has to be told.         *)
LEMMA PushVolumesKeeps ==
  ASSUME IInv, PushVolumes
  PROVE  IInv'
<1> DEFINE cached == Head(posts)
           known == {p \in Players : cached[p] # None}
           dom == DOMAIN cache.volumes \cup known
           vs == [p \in dom |-> IF p \in known THEN cached[p] ELSE cache.volumes[p]]
<1>1. /\ posts # <<>> /\ posts' = Tail(posts)
      /\ UNCHANGED <<external, prev, armed, stopped, task, dal, writers, left>>
  BY DEF PushVolumes
<1>2. cache \in Snapshots
  BY DEF IInv, Shape, CacheShape
<1>3. cache' = [cache EXCEPT !.volumes = vs]
  BY <1>2 DEF PushVolumes, Snapshots
<1>4. cached \in Volumes /\ Tail(posts) \in Seq(Volumes)
  BY <1>1, Received DEF IInv, Shape, VolumeShape
<1>5. vs \in Maps(Players, Levels \cup {None}) /\ DOMAIN cache.volumes \subseteq DOMAIN vs
  <2>1. /\ DOMAIN cache.volumes \subseteq Players
        /\ cache.volumes \in [DOMAIN cache.volumes -> Levels \cup {None}]
    BY <1>2, SnapshotFields, MapDomain
  <2>2. dom \in SUBSET Players
    BY <2>1
  <2>3. vs \in [dom -> Levels \cup {None}]
    <3> HIDE DEF cached
    <3> QED
      BY <2>1, <1>4 DEF Volumes
  <2>4. vs \in Maps(Players, Levels \cup {None})
    <3> HIDE DEF vs, dom
    <3> QED
      BY <2>2, <2>3, MapIntro
  <2> QED
    BY <2>4
<1> HIDE DEF vs
<1>6. /\ cache' \in Snapshots /\ Status(cache') = Status(cache)
      /\ cache'.clients = cache.clients /\ cache'.volumes = vs
  BY <1>2, <1>3, <1>5, NewVolumes
<1>7. NoStrandedChange'
  <2>1. Reconnecting => Reconnecting'
    BY <1>1 DEF Reconnecting, external
  <2>2. \A u \in Tasks : Applying(u) => Applying(u)'
    BY <1>1 DEF Applying
  <2> QED
    BY <2>1, <2>2, <1>1, <1>6, StillPending DEF IInv
<1>8. HaveVolume'
  BY <1>1, <1>5, <1>6, VolumeStays DEF IInv
<1>9. CacheShape' /\ VolumeShape'
  BY <1>1, <1>4, <1>6 DEF IInv, Shape, CacheShape, VolumeShape
<1>10. TaskShape' /\ ServerShape' /\ BoundShape'
  BY <1>1, Frames DEF IInv, Shape
<1> QED
  BY <1>7, <1>8, <1>9, <1>10 DEF IInv, Shape

(* The pages are told what the cache holds.                                 *)
LEMMA SignalDirtyKeeps ==
  ASSUME IInv, SignalDirty
  PROVE  IInv'
<1>1. /\ armed' = FALSE /\ prev' = cache
      /\ UNCHANGED <<external, cache, stopped, task, volumeVars, left>>
  BY DEF SignalDirty
<1>2. cache \in Snapshots /\ cache # Nothing /\ stopped \in BOOLEAN
  BY BrokerAssumption DEF IInv, Shape, CacheShape
<1>3. CacheShape'
  BY <1>1, <1>2 DEF CacheShape
<1>4. NoStrandedChange'
  BY <1>1, <1>2 DEF NoStrandedChange, Delivered
<1>5. HaveVolume'
  BY <1>1, VolumeStays DEF IInv
<1>6. TaskShape' /\ ServerShape' /\ VolumeShape' /\ BoundShape'
  BY <1>1, Frames DEF IInv, Shape
<1> QED
  BY <1>3, <1>4, <1>5, <1>6 DEF IInv, Shape

LEMMA StopKeeps ==
  ASSUME IInv, Stop
  PROVE  IInv'
<1>0. "end" \in Stages \ {"loaded", "seed", "get", "got"}
  BY DEF Stages
<1>1. /\ stopped' = TRUE /\ armed' = FALSE /\ link' = "down" /\ wire' = <<>>
      /\ Goto(Reader, At("end"))
      /\ UNCHANGED <<srv, stale, cache, prev, volumeVars, left>>
  BY DEF Stop
<1>2. TaskShape'
  BY <1>0, <1>1, AtIdle, GotoMoves, ReaderIsTask DEF IInv, Shape
<1>3. NoStrandedChange' /\ HaveVolume'
  BY <1>1 DEF NoStrandedChange, HaveVolume
<1>4. wire' \in Seq(Messages)
  BY <1>1
<1>5. ServerShape'
  BY <1>1, <1>4 DEF IInv, Shape, ServerShape
<1>6. CacheShape'
  BY <1>1 DEF IInv, Shape, CacheShape
<1>7. VolumeShape' /\ BoundShape'
  BY <1>1, Frames DEF IInv, Shape
<1> QED
  BY <1>2, <1>3, <1>5, <1>6, <1>7 DEF IInv, Shape

-----------------------------------------------------------------------------
(* The invariant.                                                           *)

LEMMA InitIInv == Init => IInv
<1> SUFFICES ASSUME Init PROVE IInv
  OBVIOUS
<1>1. TaskShape
  <2>1. {"sleep", "new"} \subseteq Stages \ {"loaded", "seed", "get", "got"}
    BY DEF Stages
  <2>2. task = [t \in Tasks |-> At(IF t = Reader THEN "sleep" ELSE "new")]
    BY DEF Init
  <2>3. /\ At("sleep") \in Locals /\ Sound(At("sleep"))
        /\ At("new") \in Locals /\ Sound(At("new"))
    BY <2>1, AtIdle
  <2> QED
    BY <2>2, <2>3 DEF TaskShape
<1>2. ServerShape
  <2>1. srv \in Statuses
    BY NoStatusIsStatus DEF Init, NoStatus
  <2> QED
    BY <2>1 DEF Init, ServerShape
<1>3. CacheShape
  <2>1. cache \in Snapshots
    BY EmptyMap, SnapshotParts DEF Init, Snapshots
  <2> QED
    BY <2>1 DEF Init, CacheShape
<1>4. VolumeShape /\ BoundShape
  BY BrokerAssumption DEF Init, VolumeShape, BoundShape, Volumes
<1>5. NoStrandedChange
  BY DEF Init, NoStrandedChange, Reconnecting
<1>6. HaveVolume
  <2>1. Connected(cache.clients) = {}
    BY DEF Init, Connected
  <2> QED
    BY <2>1 DEF HaveVolume
<1> QED
  BY <1>1, <1>2, <1>3, <1>4, <1>5, <1>6 DEF IInv, Shape

LEMMA NextIInv == IInv /\ [Next]_vars => IInv'
<1> SUFFICES ASSUME IInv, [Next]_vars PROVE IInv'
  OBVIOUS
<1>1. CASE ServerStep \/ Drop \/ AnswerSeed
  BY <1>1, ServerKeeps, DropKeeps, AnswerSeedKeeps
<1>2. CASE ReaderStep
  BY <1>2, ConnectKeeps, ConnectionLostKeeps, ReceiveKeeps, ResumeVolumeKeeps,
     ResyncDoneKeeps DEF ReaderStep
<1>3. CASE ReadVolume
  BY <1>3, ReadVolumeKeeps
<1>4. ASSUME NEW t \in Tasks,
             StartReseed(t) \/ StatusFailed(t) \/ TaskStep(t) \/ ThreadStep(t)
      PROVE  IInv'
  <2>1. CASE StartReseed(t) \/ StatusFailed(t)
    BY <2>1, StartReseedKeeps, StatusFailedKeeps
  <2>2. CASE TaskStep(t)
    BY <2>2, ApplyStatusKeeps, ResumeLoadKeeps, ResumeSeedKeeps DEF TaskStep
  <2>3. CASE ThreadStep(t)
    BY <2>3, AnswerStatusKeeps, ReadVolumesKeeps, SeedOneKeeps DEF ThreadStep
  <2> QED
    BY <1>4, <2>1, <2>2, <2>3
<1>5. CASE \E p \in Players, v \in Levels : WriteVolume(p, v)
  BY <1>5, WriteVolumeKeeps
<1>6. CASE WriterStep \/ PushVolumes
  BY <1>6, WriterStepKeeps, PushVolumesKeeps
<1>7. CASE SignalDirty \/ Stop
  BY <1>7, SignalDirtyKeeps, StopKeeps
<1>8. CASE UNCHANGED vars
  <2>1. UNCHANGED <<external, cache, prev, armed, stopped, task, volumeVars, left>>
    BY <1>8 DEF vars, external, volumeVars
  <2>2. Reconnecting => Reconnecting'
    BY <2>1 DEF Reconnecting, external
  <2>3. NoStrandedChange' /\ HaveVolume' /\ TaskShape' /\ CacheShape'
    BY <2>1, <2>2, BrokerRests
  <2> QED
    BY <2>1, <2>3, Frames DEF IInv, Shape
<1> QED
  BY <1>1, <1>2, <1>3, <1>4, <1>5, <1>6, <1>7, <1>8 DEF Next

THEOREM Invariance == Spec => []IInv
<1>1. Init => IInv
  BY InitIInv
<1>2. IInv /\ [Next]_vars => IInv'
  BY NextIInv
<1> QED
  BY <1>1, <1>2, PTL DEF Spec

(* Every object the broker caches or is about to cache is one the parsers   *)
(* build, each task's variables have the values its stage relies on, and no *)
(* bound is overdrawn.                                                      *)
THEOREM TypeCorrect == Spec => []TypeOK
<1>1. ASSUME IInv
      PROVE  TypeOK
  <2>1. Shape
    BY <1>1 DEF IInv
  <2>2. /\ Status(cache) \in Statuses /\ cache.volumes \in VolumeMaps
        /\ prev # Nothing => Status(prev) \in Statuses /\ prev.volumes \in VolumeMaps
    BY <2>1, SnapshotFields, SnapshotParts DEF Shape, CacheShape
  <2>3. \A t \in Tasks : /\ task[t].stage \in Stages
                         /\ task[t].missing \subseteq task[t].connected
                         /\ task[t].connected \subseteq Players
    BY <2>1 DEF Shape, TaskShape, Locals, Sound
  <2>4. /\ srv \in Statuses /\ link \in {"down", "asked", "up"} /\ stale \subseteq Players
        /\ {armed, stopped} \subseteq BOOLEAN
        /\ dal \in [Players -> Levels \cup {None}]
    BY <2>1 DEF Shape, ServerShape, CacheShape, VolumeShape, Volumes
  <2>5. \A what \in DOMAIN left : left[what] \in Nat
    BY <2>1 DEF Shape, BoundShape
  <2> QED
    BY <2>2, <2>3, <2>4, <2>5 DEF TypeOK
<1> QED
  BY <1>1, Invariance, PTL

(* _apply_full_status cancels the debounce timer, and no change of the      *)
(* cache is stranded by it: until the pages are told, the timer is armed or *)
(* a task that will signal is under way, whichever tasks interleave.        *)
THEOREM NothingStranded == Spec => []NoStrandedChange
<1>1. IInv => NoStrandedChange
  BY DEF IInv
<1> QED
  BY <1>1, Invariance, PTL

(* A reader that is alone never leaves a connected player without the       *)
(* volume its slider is bound to, whatever the observer of the volume DAL   *)
(* pushes between its waits.                                                *)
THEOREM SlidersAreBound == Spec => []ConnectedHaveVolume
<1>1. IInv => ConnectedHaveVolume
  BY DEF IInv, HaveVolume, ConnectedHaveVolume
<1> QED
  BY <1>1, Invariance, PTL
=============================================================================
