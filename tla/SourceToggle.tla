---------------------------- MODULE SourceToggle ----------------------------
(***************************************************************************)
(* Enabling and disabling an audio source: the Sources tab's handlers      *)
(* (audera/ui/streamer/pages/index.py), the write they submit to the       *)
(* command queue, its application to the host                              *)
(* (audera/domains/sources/toggle.py), the record of what is enabled       *)
(* (audera/dal/sources.py), and provisioning, which renders from it.       *)
(*                                                                         *)
(* Handlers of several browsers run concurrently; between their awaits the *)
(* record, Snapserver and the broker's cache move on.  The writes run one  *)
(* at a time, in submission order (SerialExecutor), but a write is a dozen *)
(* file and systemctl steps, each of which can fail, and the process can   *)
(* be killed between any two of them.                                      *)
(*                                                                         *)
(* A claim (_plex.py) writes the record too, in a thread of its own beside *)
(* the queue.  It is here as the click that starts it and the record that  *)
(* ends it; ClaimFlow has what is in between, and what it does to the unit.*)
(***************************************************************************)
EXTENDS Naturals, Sequences, FiniteSets, SequencesExt

CONSTANTS
  Catalog,      (* the catalogued source ids, in CATALOG order              *)
  Retired,      (* ids an older catalog recorded and this one does not name *)
  Default,      (* DEFAULT_ENABLED, one catalogued source                   *)
  SetupSources, (* those with a one-time setup                              *)
  Configured,   (* the stream sets a device may start out with              *)
  UnitsOf,      (* source -> sequence of its systemd units                  *)
  Groups,       (* Snapcast groups with a connected player                  *)
  MaxClicks,    (* bound on the clicks on a source's switch, in any browser *)
  None,
  MaxUpsets     (* bound on failing steps, kills, reboots, reprovisions and *)
                (* players moved on the Players tab, together               *)

Sources == ToSet(Catalog)
Handlers == 1..MaxClicks   (* one handler per click, in click order          *)
Units == UNION {ToSet(UnitsOf[s]) : s \in Sources}

ASSUME ToggleAssumption ==
  /\ Catalog \in Seq(Sources)
  /\ \A s \in Sources : UnitsOf[s] \in Seq(Units)
  /\ Default \in Sources
  /\ Retired \cap Sources = {}
  /\ None \notin Sources \cup Retired
  /\ \A ids \in SUBSET (Sources \cup Retired) : ids # None
  /\ \A s, t \in Sources : s # t => ToSet(UnitsOf[s]) \cap ToSet(UnitsOf[t]) = {}
  /\ SetupSources \subseteq Sources \ {Default}
  /\ Configured \subseteq (SUBSET Sources) \ {{}}
  /\ MaxClicks \in Nat /\ MaxUpsets \in Nat

VARIABLES
  recorded,     (* sources.json 'enabled', or None when the key is absent   *)
  setup,        (* sources.json 'setup': the ids recorded as complete       *)
  claiming,     (* sources with a claim under way in some browser           *)
  overtaken,    (* history: sources a claim recorded when they were disabled*)
  conf,         (* the streams /etc/snapserver.conf names                   *)
  unit,         (* which units are enabled, and run unless a claim stops one*)
  served,       (* the streams of the running Snapserver                    *)
  up,           (* whether it answers: not while it restarts                *)
  group,        (* the stream each group listens to                         *)
  known,        (* stream ids in the broker's cache                         *)
  loaded,       (* Page.load() has run in this process                      *)
  handler,      (* where each handler is, and its local variables           *)
  queue,        (* handlers whose write is queued, in submission order      *)
  job,          (* the write the queue's thread is executing                *)
  left,         (* what is left of MaxUpsets                                *)
  lastFailed,   (* history: the last write that changed the record failed   *)
  unfinished    (* history: sources whose last toggle recorded and failed   *)

vars == <<recorded, setup, claiming, overtaken, conf, unit, served, up, group, known, loaded,
          handler, queue, job, left, lastFailed, unfinished>>
setups == <<setup, claiming, overtaken>>
record == <<recorded, setup, claiming, overtaken>>
host == <<conf, unit, served, up, group>>
history == <<lastFailed, unfinished>>

NoJob == [step |-> "none", by |-> None, ids |-> {}, moved |-> 0]
Idle == job = NoJob

(* get_enabled().                                                           *)
Enabled == IF recorded = None THEN {Default} ELSE recorded

(* _enabled_ids(): the intersection with the catalog.                       *)
EnabledIds == Enabled \cap Sources

(* The streams render_snapserver names for a set of ids.                    *)
Rendered(ids) == ids \cap Sources

(* default_source(): the first catalogued source of the set.                *)
DefaultSource(ids) ==
  Catalog[CHOOSE i \in DOMAIN Catalog : Catalog[i] \in ids
            /\ \A j \in DOMAIN Catalog : Catalog[j] \in ids => i <= j]

UnitsMatch(s) == \A u \in ToSet(UnitsOf[s]) : unit[u] = (s \in Enabled)

(* A handler that has not started, or is over.                              *)
Blank(at) == [at |-> at, source |-> None, enable |-> FALSE, dest |-> None, live |-> {}]

(* A flashed device has recorded nothing and serves the default; an upgraded *)
(* one serves what an older release configured; a running one serves what   *)
(* it recorded, beside ids that are not catalogued any more.                *)
Init ==
  /\ \E ids \in Configured :
       /\ conf = ids /\ served = ids
       /\ unit = [u \in Units |-> \E s \in ids : u \in ToSet(UnitsOf[s])]
       /\ recorded \in {None, ids \cup Retired}
       /\ setup \in SUBSET (ids \cap Enabled \cap SetupSources)
       /\ group \in [Groups -> ids]
  /\ claiming = {} /\ overtaken = {}
  /\ up = TRUE
  /\ known = {}
  /\ loaded = FALSE
  /\ handler = [h \in Handlers |-> Blank("new")]
  /\ queue = <<>>
  /\ job = NoJob
  /\ left = MaxUpsets
  /\ lastFailed = (conf # EnabledIds)
  /\ unfinished = {s \in Sources : ~ UnitsMatch(s)}

Upset == left > 0 /\ left' = left - 1

-----------------------------------------------------------------------------
(* The process starts: adopt_running_sources records what Snapserver serves *)
(* when nothing is recorded and Snapserver answers.                         *)
Load ==
  /\ ~ loaded
  /\ loaded' = TRUE
  /\ IF recorded = None /\ up /\ served # {}
     THEN /\ recorded' = served
          /\ lastFailed' = FALSE
          /\ unfinished' = {}
     ELSE UNCHANGED <<recorded, history>>
  /\ UNCHANGED <<setups, host, known, handler, queue, job, left>>

(* The broker's cache catches up with Snapserver.                           *)
BrokerRefresh ==
  /\ loaded /\ up
  /\ known' = served
  /\ UNCHANGED <<record, host, loaded, handler, queue, job, left, history>>

-----------------------------------------------------------------------------
(* The handlers.                                                            *)

EndHandler(h) == handler' = [handler EXCEPT ![h] = Blank("end")]

Enqueue(h, dest) ==
  /\ handler' = [handler EXCEPT ![h].at = "queued", ![h].dest = dest, ![h].live = {}]
  /\ queue' = Append(queue, h)

Remaining(s) == EnabledIds \ {s}

(* A switch asks for the opposite of what its card shows: of the record, or *)
(* of an earlier one that another browser has changed since.  While nothing *)
(* is recorded there is no earlier one.                                     *)
Asked(s, enable) == recorded = None => enable = (s \notin Enabled)

(* _on_change and _toggle_source, up to its first await.                    *)
Click(h, s, enable) ==
  /\ loaded /\ handler[h].at = "new"
  /\ \A i \in Handlers : i < h => handler[i].at # "new"
  /\ Asked(s, enable)
  /\ LET clicked == [handler EXCEPT ![h].source = s, ![h].enable = enable] IN
     \/ /\ enable
        /\ handler' = [clicked EXCEPT ![h].at = "queued"]
        /\ queue' = Append(queue, h)
     \/ /\ ~ enable
        /\ IF Remaining(s) = {} THEN EndHandler(h)
           ELSE handler' = [clicked EXCEPT ![h].at = "ask"]
        /\ UNCHANGED queue
  /\ UNCHANGED <<record, host, known, loaded, job, left, history>>

(* _disable_source before its submit: the guards re-read the record.        *)
BeginDisable(h, dest) ==
  IF handler[h].source \notin EnabledIds \/ Cardinality(EnabledIds) = 1
  THEN EndHandler(h) /\ UNCHANGED queue
  ELSE Enqueue(h, dest)

(* _attached_players: nobody listens, or Snapserver does not answer, or one *)
(* of the calls raises although it does.                                    *)
NobodyListens(h) ==
  /\ handler[h].at = "ask"
  /\ \/ (up => \A g \in Groups : group[g] # handler[h].source) /\ UNCHANGED left
     \/ Upset
  /\ BeginDisable(h, None)
  /\ UNCHANGED <<record, host, known, loaded, job, history>>

(* Somebody listens: the dialog offers the other enabled sources the cache  *)
(* knows as running.                                                        *)
OpenDialog(h) ==
  /\ handler[h].at = "ask"
  /\ up /\ \E g \in Groups : group[g] = handler[h].source
  /\ handler' = [handler EXCEPT ![h].at = "dialog",
                                ![h].live = Remaining(handler[h].source) \cap known]
  /\ UNCHANGED <<record, host, known, loaded, queue, job, left, history>>

Confirm(h) ==
  /\ handler[h].at = "dialog"
  /\ \E dest \in IF handler[h].live = {} THEN {None} ELSE handler[h].live :
       BeginDisable(h, dest)
  /\ UNCHANGED <<record, host, known, loaded, job, left, history>>

Dismiss(h) ==
  /\ handler[h].at = "dialog"
  /\ EndHandler(h)
  /\ UNCHANGED <<record, host, known, loaded, queue, job, left, history>>

(* Slip: the handler waits for Snapserver without a deadline.               *)
SettleWhenUp(h) ==
  /\ handler[h].at = "await" /\ up
  /\ known' = served
  /\ EndHandler(h)
  /\ UNCHANGED <<record, host, loaded, queue, job, left, history>>

(* What a reseed leaves in the cache: nothing new when its call failed.     *)
Reseeded == known' \in {known} \cup IF up THEN {served} ELSE {}

(* _await_snapserver: until Snapserver answers, or the deadline passes; then*)
(* the broker is reseeded, and the card is rebuilt.                         *)
Settle(h) ==
  /\ handler[h].at = "await"
  /\ Reseeded
  /\ EndHandler(h)
  /\ UNCHANGED <<record, host, loaded, queue, job, left, history>>

(* The reseed raises: it swallows a failing call, but not a status it cannot*)
(* apply, with a client the Player model rejects.  The handler ends there.  *)
SettleRaises(h) ==
  /\ handler[h].at = "await" /\ up
  /\ Reseeded
  /\ handler' = [handler EXCEPT ![h] = Blank("raised")]
  /\ Upset
  /\ UNCHANGED <<record, host, loaded, queue, job, history>>

(* Connect, on the card of an enabled source that is not set up.            *)
Claim(s) ==
  /\ loaded
  /\ s \in (EnabledIds \cap SetupSources) \ (setup \cup claiming)
  /\ claiming' = claiming \cup {s}
  /\ UNCHANGED <<recorded, setup, overtaken, host, known, loaded, handler, queue, job, left,
                 history>>

(* set_setup_complete: the claim has succeeded, whoever has disabled the    *)
(* source since.                                                            *)
SetSetupComplete(s) ==
  /\ s \in claiming
  /\ claiming' = claiming \ {s}
  /\ setup' = setup \cup {s}
  /\ overtaken' = IF s \in Enabled THEN overtaken ELSE overtaken \cup {s}
  /\ UNCHANGED <<recorded, host, known, loaded, handler, queue, job, left, history>>

(* A player's card moves its group to a stream the menu offers; the RPC is  *)
(* queued like every write, and refused for a stream nobody serves.         *)
MoveGroup(g, s) ==
  /\ loaded /\ Idle /\ up /\ s \in known \cap served
  /\ group[g] # s
  /\ group' = [group EXCEPT ![g] = s]
  /\ Upset
  /\ UNCHANGED <<record, conf, unit, served, up, known, loaded, handler, queue, job, history>>

-----------------------------------------------------------------------------
(* The queued write, step by step.                                          *)

By == handler[job.by]
Advance(step) == job' = [job EXCEPT !.step = step]

(* The write ends and its submitter resumes: it waits for Snapserver, or    *)
(* rebuilds the card.                                                       *)
Return(at) ==
  /\ job' = NoJob
  /\ handler' = [handler EXCEPT ![job.by] = Blank(at)]

(* Slip: a write is looked at and left in the queue.                        *)
PeekJob ==
  /\ Idle /\ queue # <<>>
  /\ job' = [NoJob EXCEPT !.by = Head(queue), !.step = "record"]
  /\ UNCHANGED <<record, host, known, loaded, handler, queue, left, history>>

TakeJob ==
  /\ Idle /\ queue # <<>>
  /\ queue' = Tail(queue)
  /\ job' = [NoJob EXCEPT !.by = Head(queue),
                          !.step = IF handler[Head(queue)].enable THEN "record" ELSE "check"]
  /\ UNCHANGED <<record, host, known, loaded, handler, left, history>>

(* Slip: only the handlers check that another source stays enabled.         *)
CheckPresent ==
  /\ job.step = "check"
  /\ IF By.source \in EnabledIds
     THEN Advance(IF By.dest = None THEN "record" ELSE "move") /\ UNCHANGED handler
     ELSE Return("end")
  /\ UNCHANGED <<record, host, known, loaded, queue, left, history>>

(* _disable_source_write re-reads the record inside the queue.              *)
Check ==
  /\ job.step = "check"
  /\ IF By.source \in EnabledIds /\ Cardinality(EnabledIds) # 1
     THEN Advance(IF By.dest = None THEN "record" ELSE "move") /\ UNCHANGED handler
     ELSE Return("end")
  /\ UNCHANGED <<record, host, known, loaded, queue, left, history>>

(* Slip: one group is moved, the rest is left where it is.                  *)
ReassignOne ==
  /\ job.step = "move" /\ up
  /\ Advance("record")
  /\ \E g \in Groups : group' = [group EXCEPT ![g] = IF @ = By.source THEN By.dest ELSE @]
  /\ UNCHANGED <<record, conf, unit, served, up, known, loaded, handler, queue, left, history>>

(* The listeners are moved, one RPC each, before anything is recorded.      *)
Reassign ==
  /\ job.step = "move" /\ up
  /\ LET on == {g \in Groups : group[g] = By.source} IN
     \/ /\ on = {}
        /\ Advance("record") /\ UNCHANGED group
     \/ /\ By.dest \in served
        /\ \E g \in on : group' = [group EXCEPT ![g] = By.dest]
        /\ UNCHANGED job
  /\ UNCHANGED <<record, conf, unit, served, up, known, loaded, handler, queue, left, history>>

(* Slip: the conf is rendered from the set read before the toggle.          *)
RecordRenderingOld ==
  /\ job.step = "record"
  /\ recorded' = IF By.enable THEN Enabled \cup {By.source} ELSE Enabled \ {By.source}
  /\ job' = [job EXCEPT !.step = IF By.enable THEN "write" ELSE "clear", !.ids = Enabled]
  /\ UNCHANGED <<setups, host, known, loaded, handler, queue, left, history>>

(* set_enabled: a set that already says so is not written.  What follows is *)
(* rendered from the returned set.                                          *)
Record ==
  LET ids == IF By.enable THEN Enabled \cup {By.source} ELSE Enabled \ {By.source} IN
  /\ job.step = "record"
  /\ recorded' = IF ids = Enabled THEN recorded ELSE ids
  /\ job' = [job EXCEPT !.step = IF By.enable THEN "write" ELSE "clear", !.ids = ids]
  /\ UNCHANGED <<setups, host, known, loaded, handler, queue, left, history>>

(* Slip: the setup record survives the disable.                             *)
KeepSetup ==
  /\ job.step = "clear"
  /\ Advance("write")
  /\ UNCHANGED <<record, host, known, loaded, handler, queue, left, history>>

(* clear_setup.                                                             *)
ClearSetup ==
  /\ job.step = "clear"
  /\ setup' = setup \ {By.source}
  /\ overtaken' = overtaken \ {By.source}
  /\ Advance("write")
  /\ UNCHANGED <<recorded, claiming, host, known, loaded, handler, queue, left, history>>

(* _write_snapserver_conf: nothing is written when the render refuses.      *)
WriteConf ==
  /\ job.step = "write"
  /\ Rendered(job.ids) # {}
  /\ conf' = Rendered(job.ids)
  /\ Advance("units")
  /\ UNCHANGED <<record, unit, served, up, group, known, loaded, handler, queue, left, history>>

(* Slip: only the first unit of a source is moved.                          *)
FirstUnitLeft ==
  IF job.moved = 0 /\ UnitsOf[By.source] # <<>> THEN <<Head(UnitsOf[By.source])>> ELSE <<>>

(* The units still to be moved.                                             *)
UnitsLeft == SubSeq(UnitsOf[By.source], job.moved + 1, Len(UnitsOf[By.source]))

MovedUnit == [unit EXCEPT ![Head(UnitsLeft)] = By.enable]

MoveUnit ==
  /\ job.step = "units"
  /\ IF UnitsLeft = <<>>
     THEN Advance("restart") /\ UNCHANGED unit
     ELSE /\ unit' = MovedUnit
          /\ job' = [job EXCEPT !.moved = @ + 1]
  /\ UNCHANGED <<record, conf, served, up, group, known, loaded, handler, queue, left, history>>

RestartSnapserver ==
  /\ served' = conf
  /\ up' = FALSE

(* The last step: the write succeeds.                                       *)
Restart ==
  /\ job.step = "restart"
  /\ RestartSnapserver
  /\ Return("await")
  /\ lastFailed' = FALSE
  /\ unfinished' = unfinished \ {By.source}
  /\ UNCHANGED <<record, conf, unit, group, known, loaded, queue, left>>

(* What a failure or a kill in the middle of a write means for the history: *)
(* the record may have changed with the rest undone.                        *)
LeaveUndone ==
  IF job.step \in {"clear", "write", "units", "restart"}
  THEN lastFailed' = TRUE /\ unfinished' = unfinished \cup {By.source}
  ELSE UNCHANGED history

(* A step raises and the submitter's handler reports it.  A systemctl call  *)
(* that timed out may have its effect all the same.                         *)
StepFails ==
  /\ job.step \notin {"none", "check"}
  /\ Upset
  /\ \/ UNCHANGED host
     \/ /\ job.step = "units" /\ UnitsLeft # <<>>
        /\ unit' = MovedUnit
        /\ UNCHANGED <<conf, served, up, group>>
     \/ /\ job.step = "restart"
        /\ RestartSnapserver
        /\ UNCHANGED <<conf, unit, group>>
  /\ LeaveUndone
  /\ Return("end")
  /\ UNCHANGED <<record, known, loaded, queue>>

(* Errors that are not accidents: Snapserver is restarting, or does not     *)
(* serve the destination any more.                                          *)
ReassignRefused ==
  /\ job.step = "move"
  /\ ~ up \/ (By.dest \notin served /\ \E g \in Groups : group[g] = By.source)
  /\ Return("end")
  /\ UNCHANGED <<record, host, known, loaded, queue, left, history>>

-----------------------------------------------------------------------------
(* Snapserver and the host.                                                 *)

(* Snapserver answers again; the players reconnect, and a group whose       *)
(* stream is gone is put on default_source.                                 *)
SnapserverReady ==
  /\ ~ up
  /\ up' = TRUE
  /\ group' = [g \in Groups |-> IF group[g] \in served THEN group[g] ELSE DefaultSource(served)]
  /\ UNCHANGED <<record, conf, unit, served, known, loaded, handler, queue, job, left, history>>

(* The process is gone, and with it every handler and the queue.            *)
ProcessGone ==
  /\ loaded' = FALSE
  /\ known' = {}
  /\ queue' = <<>>
  /\ job' = NoJob
  /\ claiming' = {}
  /\ handler' = [h \in Handlers |->
                   Blank(IF handler[h].at = "new" THEN "new" ELSE "end")]

(* Killed or restarted by systemd; on a reboot Snapserver starts from the   *)
(* conf, and the units that are enabled start.                              *)
Kill ==
  /\ Upset
  /\ ProcessGone
  /\ LeaveUndone
  /\ UNCHANGED <<recorded, setup, overtaken, conf, unit, group>>
  /\ UNCHANGED <<served, up>> \/ RestartSnapserver

(* os/dietpi setup: the conf and the unit states are rendered from the      *)
(* record, and the device reboots.  The record survives.                    *)
Reprovision ==
  /\ Upset
  /\ Idle
  /\ ProcessGone
  /\ conf' = Rendered(Enabled)
  /\ unit' = [u \in Units |-> \E s \in Enabled \cap Sources : u \in ToSet(UnitsOf[s])]
  /\ served' = Rendered(Enabled) /\ up' = FALSE
  /\ lastFailed' = FALSE
  /\ unfinished' = (unfinished \cap setup) \ Enabled
  /\ UNCHANGED <<recorded, setup, overtaken, group>>

WorkerStep ==
  \/ TakeJob \/ Check \/ Reassign \/ ReassignRefused \/ Record \/ ClearSetup
  \/ WriteConf \/ MoveUnit \/ Restart

HandlerStep(h) == NobodyListens(h) \/ OpenDialog(h) \/ Settle(h) \/ SettleRaises(h)

Next ==
  \/ Load \/ BrokerRefresh
  \/ \E h \in Handlers :
       \/ \E s \in Sources, enable \in BOOLEAN : Click(h, s, enable)
       \/ HandlerStep(h) \/ Confirm(h) \/ Dismiss(h)
  \/ \E g \in Groups, s \in Sources : MoveGroup(g, s)
  \/ \E s \in SetupSources : Claim(s) \/ SetSetupComplete(s)
  \/ WorkerStep \/ StepFails
  \/ SnapserverReady \/ Kill \/ Reprovision

Spec == Init /\ [][Next]_vars

(* Every file and systemctl step returns or raises (each has a deadline),   *)
(* the loop resumes what is ready, and an open dialog is answered.          *)
FairSpec ==
  /\ Spec
  /\ WF_vars(WorkerStep)
  /\ WF_vars(\E h \in Handlers : HandlerStep(h) \/ Confirm(h) \/ Dismiss(h))

-----------------------------------------------------------------------------
(* Properties.                                                              *)

Steps == {"none", "check", "move", "record", "clear", "write", "units", "restart"}

(* Every variable has the shape the code gives it, and only queued handlers *)
(* and the one being served are waited for.                                 *)
TypeOK ==
  /\ recorded = None \/ recorded \subseteq Sources \cup Retired
  /\ claiming \subseteq SetupSources /\ overtaken \subseteq setup /\ setup \subseteq Sources
  /\ conf \subseteq Sources /\ served \subseteq Sources /\ known \subseteq Sources
  /\ unit \in [Units -> BOOLEAN]
  /\ group \in [Groups -> Sources]
  /\ {up, loaded, lastFailed} \subseteq BOOLEAN
  /\ unfinished \subseteq Sources
  /\ job.step \in Steps
  /\ \A h \in Handlers :
       handler[h].at = "queued" <=> h \in ToSet(queue) \/ (~ Idle /\ job.by = h)

(* Catalog rule 2: whatever two browsers disable at the same time, and      *)
(* whatever fails or is killed on the way, at least one catalogued source   *)
(* stays enabled, and the conf and Snapserver always have a stream.         *)
OneSourceStaysEnabled == EnabledIds # {} /\ conf # {} /\ served # {}

(* Between two writes, unless the last one failed after it had recorded its *)
(* intent, the conf names exactly the enabled sources and Snapserver was    *)
(* restarted with it; no later write, restart or reprovision undoes that.   *)
ServedMatchesRecord == Idle /\ ~ lastFailed => conf = EnabledIds /\ served = conf

(* Between two writes, the units of a source run exactly when it is         *)
(* enabled, except for sources whose own last toggle failed half-way: a     *)
(* toggle of another source neither repairs nor disturbs them.              *)
UnitsMatchRecord == Idle => \A s \in Sources \ unfinished : UnitsMatch(s)

(* A disable discards the setup record of its source, so that the source    *)
(* asks for its setup when it is enabled again: one that is disabled has a  *)
(* record only if the disable was cut short between its two writes, or if a *)
(* claim that it overtook made the record anew.  No other failure, kill,    *)
(* reprovision, or toggle leaves one.                                       *)
SetupDiscarded == Idle => setup \subseteq EnabledIds \cup unfinished \cup overtaken

(* Reassignment is the only abort point: once the disable of a source with  *)
(* a chosen destination has begun to record, nobody listens to the source.  *)
ListenersMovedFirst ==
  job.step \in {"record", "clear", "write", "units", "restart"} /\ By.dest # None
    => \A g \in Groups : group[g] # By.source

(* Every click comes to an end: by a refresh of the tab, whatever fails, is *)
(* refused or is toggled meanwhile, or in a reseed that raises after the    *)
(* write landed, for which the code has no refresh.  No handler waits for   *)
(* Snapserver, for its turn in the queue or for its write for ever: at some *)
(* point there are no handlers left that wait for anything.                 *)
EveryToggleEnds ==
  <>[](\A h \in Handlers : handler[h].at \in {"new", "end", "raised"})
=============================================================================
