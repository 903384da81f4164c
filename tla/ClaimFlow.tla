------------------------------ MODULE ClaimFlow ------------------------------
(***************************************************************************)
(* Claiming PlexAmp from the browser: the panel of PlexAmp's card on the   *)
(* Sources tab, the flow a click on Connect starts, and its restart of the *)
(* unit with the claim token in a systemd drop-in                          *)
(* (audera/ui/streamer/pages/_plex.py), beside the toggle of the source in *)
(* any browser and the rebuilds of the tab.                                *)
(*                                                                         *)
(* A flow is a chain of timer callbacks; each hands its blocking calls to a*)
(* thread and goes on when they return.  Rebuilding the tab deletes the    *)
(* panel and the timers created in it; a callback under way goes on, and a *)
(* timer it creates after the deletion runs.                               *)
(*                                                                         *)
(* Data abstraction.  A claim token is the number of the flow that fetched *)
(* it.  Deadlines are untimed: one may pass at any tick.                   *)
(***************************************************************************)
EXTENDS Naturals, FiniteSets

CONSTANTS
  Pages,          (* the open browsers                                      *)
  MaxClaims,      (* bound on the clicks on Connect                         *)
  MaxToggles,     (* bound on the clicks on PlexAmp's switch                *)
  MaxRebuilds,    (* bound on the other rebuilds and reloads of the tab     *)
  MaxUpsets,      (* bound on failing calls and kills together              *)
  None

Claims == 1..MaxClaims

ASSUME ClaimAssumption ==
  /\ {MaxClaims, MaxToggles, MaxRebuilds, MaxUpsets} \subseteq Nat
  /\ None \notin Pages \cup Claims

VARIABLES
  enabled,        (* PlexAmp is in sources.json 'enabled'                   *)
  recorded,       (* its setup is recorded as complete there                *)
  claimConf,      (* the token in the drop-in, or None without the file     *)
  merged,         (* the drop-in as of systemd's last daemon-reload         *)
  plexamp,        (* [run, token]: the unit, and the token it started with  *)
  claimed,        (* PlexAmp has consumed a token                           *)
  page,           (* what each browser shows, and its _claim_in_flight      *)
  flow,           (* where each claim is                                    *)
  toggle,         (* the queued write of PlexAmp's switch                   *)
  announced,      (* pages still to be rebuilt after a write of sources.json*)
  left,           (* what is left of each bound                             *)
  cut,            (* history: flows that ended without reaching a clean-up  *)
  disturbed       (* history: flows whose restart something interfered with *)

vars == <<enabled, recorded, claimConf, merged, plexamp, claimed, page, flow, toggle, announced,
          left, cut, disturbed>>
record == <<enabled, recorded>>
host == <<claimConf, merged, plexamp, claimed>>
history == <<cut, disturbed>>

Off == [run |-> "inactive", token |-> None]
NoFlow == [at |-> "new", page |-> None, deleted |-> FALSE]
NoToggle == [at |-> "none", page |-> None, enable |-> FALSE]

(* setup_state and _setup_state: the record outranks the probe; a closed    *)
(* port means starting within the grace, and unclaimed after it.            *)
Panel ==
  IF ~ enabled THEN "none"
  ELSE IF recorded \/ plexamp.run = "open" THEN "link"
  ELSE IF plexamp.run = "starting" THEN "starting" ELSE "connect"

Fresh == [flag |-> FALSE, panel |-> Panel, connect |-> TRUE, probing |-> FALSE]

Init ==
  /\ enabled \in BOOLEAN
  /\ recorded = FALSE
  /\ claimConf = None /\ merged = None
  /\ claimed = FALSE
  /\ plexamp \in {[run |-> r, token |-> None] : r \in {"inactive", "starting", "late"}}
  /\ plexamp.run # "inactive" => enabled
  /\ page = [p \in Pages |-> Fresh]
  /\ flow = [f \in Claims |-> NoFlow]
  /\ toggle = NoToggle
  /\ announced = {}
  /\ left = [toggles |-> MaxToggles, rebuilds |-> MaxRebuilds, upsets |-> MaxUpsets]
  /\ cut = {} /\ disturbed = {}

Spend(what) == left[what] > 0 /\ left' = [left EXCEPT ![what] = @ - 1]

(* The stages from the write of the drop-in to its removal, and the stages  *)
(* in which a flow relies on the unit being its own.                        *)
Holding == {"reload", "start", "restarting", "probing", "record", "remove", "giveup"}
Claiming == {"stop", "write", "reload", "start", "restarting", "probing"}
UnderWay(f) == flow[f].at \notin {"new", "end"}

-----------------------------------------------------------------------------
(* The Sources tab.                                                         *)

Waiting(f) == flow[f].at \in {"wait", "restarting"}

(* A rebuild deletes the panel.  A flow that waits for its timer is gone, a *)
(* flow in the middle of a callback loses its timer.                        *)
Rebuilt(p, flows) ==
  LET mine == {f \in Claims : flows[f].page = p /\ flows[f].at \notin {"new", "end"}
                              /\ ~ flows[f].deleted}
      gone == {f \in mine : Waiting(f)} IN
  /\ flow' = [f \in Claims |->
       IF f \in gone THEN [flows[f] EXCEPT !.at = "end"]
       ELSE IF f \in mine THEN [flows[f] EXCEPT !.deleted = TRUE] ELSE flows[f]]
  /\ cut' = cut \cup gone

Shown(p) == [page[p] EXCEPT !.panel = Panel, !.connect = TRUE]

Refresh(p) ==
  /\ Rebuilt(p, flow)
  /\ page' = [page EXCEPT ![p] = Shown(p)]

(* A stream changed, a dialog that deferred the rebuild is closed, or the   *)
(* tab is entered again, which does nothing during a claim.                 *)
Rebuild(p) ==
  /\ Refresh(p)
  /\ Spend("rebuilds")
  /\ UNCHANGED <<record, host, toggle, announced, disturbed>>

(* The observers of sources.json rebuild every page.                        *)
Announce(p) ==
  /\ p \in announced
  /\ Refresh(p)
  /\ announced' = announced \ {p}
  /\ UNCHANGED <<record, host, toggle, left, disturbed>>

(* The browser loads the page again: a new Page.  The flows of the old one  *)
(* go on without timers.                                                    *)
Reload(p) ==
  LET mine == {f \in Claims : flow[f].page = p /\ UnderWay(f)}
      gone == {f \in mine : Waiting(f)} IN
  /\ page' = [page EXCEPT ![p] = Fresh]
  /\ flow' = [f \in Claims |->
       IF f \in gone THEN [flow[f] EXCEPT !.at = "end"]
       ELSE IF f \in mine THEN [flow[f] EXCEPT !.deleted = TRUE, !.page = None] ELSE flow[f]]
  /\ cut' = cut \cup gone
  /\ Spend("rebuilds")
  /\ UNCHANGED <<record, host, toggle, announced, disturbed>>

(* _poll_started: the probe runs in a thread, and if PlexAmp is not starting*)
(* any more the tab is rebuilt, whatever it shows by then.                  *)
ProbeStarting(p) ==
  /\ page[p].panel = "starting" /\ ~ page[p].probing
  /\ page' = [page EXCEPT ![p].probing = TRUE]
  /\ UNCHANGED <<record, host, flow, toggle, announced, left, history>>

(* Slip: only a port that opened ends the panel.                            *)
StartingUntilOpen(p) ==
  /\ page[p].probing
  /\ IF plexamp.run # "open"
     THEN page' = [page EXCEPT ![p].probing = FALSE] /\ UNCHANGED <<flow, cut>>
     ELSE page' = [page EXCEPT ![p] = [Shown(p) EXCEPT !.probing = FALSE]] /\ Rebuilt(p, flow)
  /\ UNCHANGED <<record, host, toggle, announced, left, disturbed>>

StartingProbed(p) ==
  /\ page[p].probing
  /\ IF plexamp.run = "starting"
     THEN page' = [page EXCEPT ![p].probing = FALSE] /\ UNCHANGED <<flow, cut>>
     ELSE page' = [page EXCEPT ![p] = [Shown(p) EXCEPT !.probing = FALSE]] /\ Rebuilt(p, flow)
  /\ UNCHANGED <<record, host, toggle, announced, left, disturbed>>

-----------------------------------------------------------------------------
(* The claim, in the order of the code.                                     *)

Move(f, at) == flow' = [flow EXCEPT ![f].at = at]

(* A terminal path: the flag is cleared and, in a panel that is still there, *)
(* the button enabled again.                                                *)
Released(f, button) ==
  page' = [p \in Pages |->
    IF p # flow[f].page THEN page[p]
    ELSE [page[p] EXCEPT !.flag = FALSE,
                         !.connect = @ \/ (button /\ ~ flow[f].deleted)]]

Release(f, at, button) == Move(f, at) /\ Released(f, button)

Connect(p) ==
  /\ page[p].panel = "connect" /\ page[p].connect
  /\ \E f \in Claims :
       /\ flow[f].at = "new"
       /\ \A g \in Claims : g < f => flow[g].at # "new"
       /\ flow' = [flow EXCEPT ![f] = [NoFlow EXCEPT !.at = "pin", !.page = p]]
  /\ page' = [page EXCEPT ![p].connect = FALSE]
  /\ UNCHANGED <<record, host, toggle, announced, left, history>>

(* Slip: the flow is taken to wait in a browser that is gone.               *)
WaitAnyway(f, at) == Move(f, at) /\ UNCHANGED cut

(* A timer of a browser that is gone never fires.                           *)
WaitForTimer(f, at) ==
  IF flow[f].page = None THEN Move(f, "end") /\ cut' = cut \cup {f}
  ELSE Move(f, at) /\ UNCHANGED cut

PinCreated(f) ==
  /\ flow[f].at = "pin"
  /\ WaitForTimer(f, "wait")
  /\ page' = [p \in Pages |-> IF p = flow[f].page THEN [page[p] EXCEPT !.flag = TRUE] ELSE page[p]]
  /\ UNCHANGED <<record, host, toggle, announced, left, disturbed>>

(* The flag is not set yet, and is not touched.                             *)
PinRefused(f) ==
  /\ flow[f].at = "pin"
  /\ Move(f, "end")
  /\ page' = [p \in Pages |->
       IF p = flow[f].page /\ ~ flow[f].deleted THEN [page[p] EXCEPT !.connect = TRUE] ELSE page[p]]
  /\ UNCHANGED <<record, host, toggle, announced, left, history>>

(* A tick of either timer first looks whether the panel is still there ...  *)
PanelGone(f) ==
  /\ Waiting(f) /\ flow[f].deleted
  /\ Release(f, "end", FALSE)
  /\ cut' = cut \cup {f}
  /\ UNCHANGED <<record, host, toggle, announced, left, disturbed>>

(* Slip: a timed-out restart leaves the drop-in.                            *)
DeadlineLeavingConf(f) ==
  /\ Waiting(f) /\ ~ flow[f].deleted
  /\ Release(f, "end", TRUE)
  /\ UNCHANGED <<record, host, toggle, announced, left, history>>

(* Slip: only the authorization has a deadline.                             *)
DeadlineOfPin(f) ==
  /\ flow[f].at = "wait" /\ ~ flow[f].deleted
  /\ Release(f, "end", TRUE)
  /\ UNCHANGED <<record, host, toggle, announced, left, history>>

(* ... then at the deadline ...                                             *)
Deadline(f) ==
  /\ Waiting(f) /\ ~ flow[f].deleted
  /\ IF flow[f].at = "wait" THEN Release(f, "end", TRUE) ELSE Release(f, "giveup", FALSE)
  /\ UNCHANGED <<record, host, toggle, announced, left, history>>

(* ... and then asks plex.tv, or the host.                                  *)
Poll(f) ==
  /\ Waiting(f) /\ ~ flow[f].deleted
  /\ Move(f, IF flow[f].at = "wait" THEN "polling" ELSE "probing")
  /\ UNCHANGED <<record, host, page, toggle, announced, left, history>>

(* Not now: the next tick asks again, unless the timer has gone meanwhile.  *)
NextTick(f, at) ==
  IF flow[f].deleted THEN Move(f, "end") /\ cut' = cut \cup {f}
  ELSE Move(f, at) /\ UNCHANGED cut

NotAuthorized(f) ==
  /\ flow[f].at = "polling"
  /\ NextTick(f, "wait")
  /\ UNCHANGED <<record, host, page, toggle, announced, left, disturbed>>

Authorized(f) ==
  /\ flow[f].at = "polling"
  /\ Move(f, "token")
  /\ UNCHANGED <<record, host, page, toggle, announced, left, history>>

GotToken(f) ==
  /\ flow[f].at = "token"
  /\ Move(f, "stop")
  /\ UNCHANGED <<record, host, page, toggle, announced, left, history>>

(* Whoever touches the unit or the drop-in interferes with every other flow *)
(* that relies on them.                                                     *)
Disturb(by) == disturbed' = disturbed \cup {f \in Claims \ {by} : flow[f].at \in Claiming}

(* _restart_plexamp_with_claim.                                             *)
Stop(f) ==
  /\ flow[f].at = "stop"
  /\ plexamp' = Off
  /\ Move(f, "write") /\ Disturb(f)
  /\ UNCHANGED <<record, claimConf, merged, claimed, page, toggle, announced, left, cut>>

WriteClaim(f) ==
  /\ flow[f].at = "write"
  /\ claimConf' = f
  /\ Move(f, "reload") /\ Disturb(f)
  /\ UNCHANGED <<record, merged, plexamp, claimed, page, toggle, announced, left, cut>>

(* Slip: an enabled unit stays loaded across the stop, and is not reloaded. *)
SkipReload(f) ==
  /\ flow[f].at = "reload"
  /\ Move(f, "start")
  /\ UNCHANGED <<record, host, page, toggle, announced, left, history>>

DaemonReload(f) ==
  /\ flow[f].at = "reload"
  /\ merged' = claimConf
  /\ Move(f, "start") /\ Disturb(f)
  /\ UNCHANGED <<record, claimConf, plexamp, claimed, page, toggle, announced, left, cut>>

(* systemctl start: nothing to do for a unit that is active.                *)
Started == IF plexamp.run = "inactive" THEN [run |-> "starting", token |-> merged] ELSE plexamp

Start(f) ==
  /\ flow[f].at = "start"
  /\ plexamp' = Started
  /\ WaitForTimer(f, "restarting") /\ Disturb(f)
  /\ UNCHANGED <<record, claimConf, merged, claimed, page, toggle, announced, left>>

(* plex.tv refuses the token, or a step of the restart raises, with its     *)
(* effect when a systemctl call timed out.  The drop-in stays.              *)
ClaimFails(f) ==
  /\ flow[f].at \in {"token", "stop", "write", "reload", "start"}
  /\ Spend("upsets")
  /\ \/ UNCHANGED <<merged, plexamp>>
     \/ flow[f].at = "stop" /\ plexamp' = Off /\ UNCHANGED merged
     \/ flow[f].at = "reload" /\ merged' = claimConf /\ UNCHANGED plexamp
     \/ flow[f].at = "start" /\ plexamp' = Started /\ UNCHANGED merged
  /\ Release(f, "end", TRUE)
  /\ cut' = cut \cup {f}
  /\ Disturb(f)
  /\ UNCHANGED <<record, claimConf, claimed, toggle, announced>>

(* Slip: an active unit is taken for a claimed PlexAmp.                     *)
ProbedActive(f) ==
  /\ flow[f].at = "probing"
  /\ IF plexamp.run # "inactive" THEN Release(f, "record", FALSE) /\ UNCHANGED cut
     ELSE NextTick(f, "restarting") /\ UNCHANGED page
  /\ UNCHANGED <<record, host, toggle, announced, left, disturbed>>

(* setup_complete: PlexAmp binds its port only once it is claimed.          *)
Probed(f) ==
  /\ flow[f].at = "probing"
  /\ IF plexamp.run = "open" THEN Release(f, "record", FALSE) /\ UNCHANGED cut
     ELSE NextTick(f, "restarting") /\ UNCHANGED page
  /\ UNCHANGED <<record, host, toggle, announced, left, disturbed>>

(* set_setup_complete, in a thread of its own rather than in the queue.     *)
RecordComplete(f) ==
  /\ flow[f].at = "record"
  /\ recorded' = TRUE
  /\ announced' = Pages
  /\ Move(f, "remove")
  /\ UNCHANGED <<enabled, host, page, toggle, left, history>>

(* _remove_claim_override: the file ...                                     *)
RemoveConf(f) ==
  /\ flow[f].at \in {"remove", "giveup"}
  /\ claimConf' = None
  /\ Move(f, IF flow[f].at = "remove" THEN "unmerge" ELSE "giveupunmerge")
  /\ Disturb(f)
  /\ UNCHANGED <<record, merged, plexamp, claimed, page, toggle, announced, left, cut>>

(* ... and the reload; a flow that gave up enables its button again.        *)
Unmerge(f) ==
  /\ flow[f].at \in {"unmerge", "giveupunmerge"}
  /\ merged' = claimConf
  /\ IF flow[f].at = "unmerge" THEN Move(f, "refresh") /\ UNCHANGED page
     ELSE Release(f, "end", TRUE)
  /\ Disturb(f)
  /\ UNCHANGED <<record, claimConf, plexamp, claimed, toggle, announced, left, cut>>

(* Errors of the record and of the clean-up are swallowed, except after     *)
(* giving up, where the callback ends with the button still disabled.       *)
CleanUpFails(f) ==
  /\ flow[f].at \in {"record", "remove", "unmerge", "giveup", "giveupunmerge"}
  /\ Spend("upsets")
  /\ Move(f, CASE flow[f].at = "record" -> "remove"
               [] flow[f].at \in {"remove", "unmerge"} -> "refresh"
               [] OTHER -> "end")
  /\ cut' = IF flow[f].at = "record" THEN cut ELSE cut \cup {f}
  /\ UNCHANGED <<record, host, page, toggle, announced, disturbed>>

(* The last step of a claim that succeeded.                                 *)
ShowClaimed(f) ==
  /\ flow[f].at = "refresh"
  /\ page' = [p \in Pages |-> IF p = flow[f].page THEN Shown(p) ELSE page[p]]
  /\ Rebuilt(flow[f].page, [flow EXCEPT ![f].at = "end"])
  /\ UNCHANGED <<record, host, toggle, announced, left, disturbed>>

-----------------------------------------------------------------------------
(* The switch of the source, in any browser, through the command queue.     *)

(* The write runs after whatever is queued before it: the flag is looked at *)
(* when the switch is clicked.                                              *)
Toggle(p) ==
  /\ ~ page[p].flag
  /\ toggle.at = "none"
  /\ toggle' = [at |-> "queued", page |-> p, enable |-> page[p].panel = "none"]
  /\ Spend("toggles")
  /\ UNCHANGED <<record, host, page, flow, announced, history>>

(* set_enabled; an unchanged set is not written, and a source that is       *)
(* disabled already is left alone.                                          *)
WriteEnabled ==
  /\ toggle.at = "queued"
  /\ enabled' = toggle.enable
  /\ announced' = IF enabled = toggle.enable THEN announced ELSE Pages
  /\ toggle' = [toggle EXCEPT !.at = IF toggle.enable THEN "units"
                                     ELSE IF enabled THEN "clear" ELSE "settle"]
  /\ UNCHANGED <<recorded, host, page, flow, left, history>>

ClearSetup ==
  /\ toggle.at = "clear"
  /\ recorded' = FALSE
  /\ announced' = IF recorded THEN Pages ELSE announced
  /\ toggle' = [toggle EXCEPT !.at = "units"]
  /\ UNCHANGED <<enabled, host, page, flow, left, history>>

(* enable --now or disable --now; both reload the manager's units.          *)
MoveUnit ==
  /\ toggle.at = "units"
  /\ merged' = claimConf
  /\ plexamp' = IF ~ toggle.enable THEN Off
                ELSE IF plexamp.run = "inactive" THEN [run |-> "starting", token |-> claimConf]
                ELSE plexamp
  /\ toggle' = [toggle EXCEPT !.at = "reseed"]
  /\ Disturb(None)
  /\ UNCHANGED <<record, claimConf, claimed, page, flow, announced, left, cut>>

(* The handler resumes and rebuilds its page; so it does after a failure.   *)
Settle ==
  /\ toggle.at \in {"settle", "reseed"}
  /\ toggle' = NoToggle
  /\ Refresh(toggle.page)
  /\ UNCHANGED <<record, host, announced, left, disturbed>>

ToggleFails ==
  /\ toggle.at \in {"queued", "clear", "units"}
  /\ Spend("upsets")
  /\ toggle' = [toggle EXCEPT !.at = "settle"]
  /\ UNCHANGED <<record, host, page, flow, announced, history>>

(* The reseed that follows a write raises: nothing is rebuilt.              *)
ReseedRaises ==
  /\ toggle.at = "reseed"
  /\ Spend("upsets")
  /\ toggle' = NoToggle
  /\ UNCHANGED <<record, host, page, flow, announced, history>>

-----------------------------------------------------------------------------
(* PlexAmp and the host.                                                    *)

(* PlexAmp consumes its token, or was claimed before, and binds its port.   *)
Bind ==
  /\ plexamp.run \in {"starting", "late"}
  /\ claimed \/ plexamp.token # None
  /\ plexamp' = [plexamp EXCEPT !.run = "open"]
  /\ claimed' = TRUE
  /\ UNCHANGED <<record, claimConf, merged, page, flow, toggle, announced, left, history>>

(* STARTUP_GRACE passes with the port closed.                               *)
GraceEnds ==
  /\ plexamp.run = "starting"
  /\ plexamp' = [plexamp EXCEPT !.run = "late"]
  /\ UNCHANGED <<record, claimConf, merged, claimed, page, flow, toggle, announced, left, history>>

(* The process is killed and the browsers load the page again; on a reboot  *)
(* PlexAmp starts with the drop-in that was left.                           *)
Kill ==
  /\ Spend("upsets")
  /\ flow' = [f \in Claims |-> IF UnderWay(f) THEN [flow[f] EXCEPT !.at = "end"] ELSE flow[f]]
  /\ cut' = cut \cup {f \in Claims : UnderWay(f)}
  /\ toggle' = NoToggle
  /\ announced' = {}
  /\ \/ UNCHANGED <<merged, plexamp>>
     \/ /\ merged' = claimConf
        /\ plexamp' = IF enabled THEN [run |-> "starting", token |-> claimConf] ELSE Off
  /\ UNCHANGED <<record, claimConf, claimed, disturbed>>
  /\ page' = [p \in Pages |-> [Fresh EXCEPT !.panel = Panel']]

FlowStep(f) ==
  \/ PinCreated(f) \/ PinRefused(f)
  \/ PanelGone(f) \/ Deadline(f) \/ Poll(f) \/ NotAuthorized(f) \/ Authorized(f) \/ GotToken(f)
  \/ Stop(f) \/ WriteClaim(f) \/ DaemonReload(f) \/ Start(f)
  \/ Probed(f) \/ RecordComplete(f) \/ RemoveConf(f) \/ Unmerge(f) \/ ShowClaimed(f)

StartingStep(p) == ProbeStarting(p) \/ StartingProbed(p)

ToggleStep == WriteEnabled \/ ClearSetup \/ MoveUnit \/ Settle

Next ==
  \/ \E p \in Pages :
       Rebuild(p) \/ Announce(p) \/ Reload(p) \/ StartingStep(p) \/ Connect(p) \/ Toggle(p)
  \/ \E f \in Claims : FlowStep(f) \/ ClaimFails(f) \/ CleanUpFails(f)
  \/ ToggleStep \/ ToggleFails \/ ReseedRaises
  \/ Bind \/ GraceEnds \/ Kill

Spec == Init /\ [][Next]_vars

(* Every call in a thread has a deadline, timers fire, and time passes: a   *)
(* flow does not tick for ever before its deadline, nor a unit start.       *)
FairSpec ==
  /\ Spec
  /\ \A f \in Claims : WF_vars(FlowStep(f)) /\ SF_vars(Deadline(f))
  /\ \A p \in Pages : WF_vars(StartingStep(p)) /\ WF_vars(Announce(p))
  /\ WF_vars(ToggleStep) /\ WF_vars(GraceEnds)

-----------------------------------------------------------------------------
(* Properties.                                                              *)

Stages ==
  {"new", "pin", "wait", "polling", "token", "stop", "write", "reload", "start", "restarting",
   "probing", "record", "remove", "unmerge", "refresh", "giveup", "giveupunmerge", "end"}

(* Every variable has the shape the code gives it, and a flow whose browser *)
(* is gone does not wait for a timer.                                       *)
TypeOK ==
  /\ {enabled, recorded, claimed} \subseteq BOOLEAN
  /\ {claimConf, merged, plexamp.token} \subseteq Claims \cup {None}
  /\ plexamp.run \in {"inactive", "starting", "late", "open"}
  /\ page \in [Pages -> [flag : BOOLEAN, panel : {"none", "link", "starting", "connect"},
                         connect : BOOLEAN, probing : BOOLEAN]]
  /\ \A f \in Claims : /\ flow[f].at \in Stages
                       /\ flow[f].page = None => ~ Waiting(f)
  /\ announced \subseteq Pages /\ cut \subseteq Claims

(* The drop-in "is deleted on success and on timeout alike" (_plex.py):     *)
(* whatever flows of other browsers write and delete in between, a token is *)
(* on disk or merged only while its flow is under way, or if that flow was  *)
(* cut short.                                                               *)
OverrideOwned ==
  \A f \in {claimConf, merged} \ {None} : f \in cut \/ flow[f].at \in Holding \cup {"unmerge", "giveupunmerge"}

(* A restart that no other flow, toggle or failure interfered with has      *)
(* PlexAmp run with the token of its flow, not with the command line from   *)
(* before the claim.                                                        *)
ClaimTakesEffect ==
  \A f \in Claims :
    flow[f].at \in {"restarting", "probing"} /\ f \notin disturbed
      => plexamp.run # "inactive" /\ plexamp.token = f

(* The record outranks every later probe, and so it is only ever made of a  *)
(* PlexAmp that has consumed a token.                                       *)
RecordedMeansClaimed == recorded => claimed

(* Every click on Connect comes to an end, by success, refusal, deadline or *)
(* failure, or with its panel.                                              *)
ClaimsEnd == \A f \in Claims : flow[f].at # "new" ~> flow[f].at = "end"

(* "This timer terminates" (_build_starting_panel): the card does not say   *)
(* "starting" for ever, whoever rebuilds the tab or restarts the unit.      *)
StartingResolves == \A p \in Pages : page[p].panel = "starting" ~> page[p].panel # "starting"

(* _poll_auth clears the flag of a deleted panel "so a mid-claim Sources    *)
(* rebuild can't wedge the tab".  Then a set flag has a flow under way.     *)
FlagHasFlow ==
  \A p \in Pages : page[p].flag => \E f \in Claims : flow[f].page = p /\ UnderWay(f)
=============================================================================
