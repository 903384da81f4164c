----------------------------- MODULE SetupWizard -----------------------------
(***************************************************************************)
(* Onboarding a device onto a Wi-Fi network: the start gate of the command *)
(* line, the creation of the access point, the setup pages that any number *)
(* of phones share (ui/setup/pages.py), the attempts to join a network, and *)
(* the Finish that takes the access point down and reboots.                *)
(*                                                                         *)
(* Page.__init__ creates the access point before the web server starts, in *)
(* the process's only thread; afterwards every phone's handler is a task   *)
(* that may be interrupted at each await.                                  *)
(***************************************************************************)
EXTENDS AccessPoint, Naturals

CONSTANTS Phones,        \* browsers joined to the access point
          Restarts,      \* whether the unit restarts on failure (the streamer's does)
          Attempts,      \* connectivity checks of the start gate
          MaxConnects,   \* bound: clicks on Connect
          MaxFinishes,   \* bound: clicks on Finish
          MaxUpsets      \* bound: failing calls, missed checks, kills, power cuts

ASSUME WizardAssumption ==
  /\ Restarts \in BOOLEAN
  /\ Attempts \in Nat \ {0}
  /\ MaxConnects \in Nat /\ MaxFinishes \in Nat /\ MaxUpsets \in Nat
  /\ None \notin Ssids

VARIABLES
  proc,      \* the service: where its main thread is, the exception a finally
             \* holds back, the checks the gate has made
  page,      \* the shared Page: connected_profile, shutting_down
  attempt,   \* per phone: its connect_callback
  finish,    \* per phone: its shutdown()
  connects, finishes, upsets,
  cut,       \* history: create() was killed, or its restart failed, since the last restart
  kept       \* history: nobody began another attempt at connected_profile since

vars == <<net, proc, page, attempt, finish, connects, finishes, upsets, cut, kept>>
phoneVars == <<page, attempt, finish, connects, finishes, kept>>

Creating == {"stopManager", "stopSupplicant", "resetInterface", "addInterface",
             "linkUp", "captive", "restart"}
Steps == Creating \cup {"gate", "profile", "awaitProfile", "up", "serving",
                        "closing", "started", "failed"}
AttemptStages == {"idle", "forget", "forgotten", "add", "added", "up"}
FinishStages == {"none", "sleep", "takeDown", "delete", "deleting",
                 "interface", "reboot", "failed"}

Processes == [step : Steps, error : BOOLEAN, tries : 0 .. Attempts]
Attempted == {a \in [stage : AttemptStages, ssid : Ssids \cup {None}, key : Keys] :
                a.stage = "idle" \/ a.ssid \in Ssids}

Idle == [stage |-> "idle", ssid |-> None, key |-> "right"]
Blank == [connected |-> None, shutting |-> FALSE]
Running(step) == [step |-> step, error |-> FALSE, tries |-> 0]

TypeOK ==
  /\ net \in Networks
  /\ proc \in Processes
  /\ page \in [connected : Ssids \cup {None}, shutting : BOOLEAN]
  /\ attempt \in [Phones -> Attempted]
  /\ finish \in [Phones -> FinishStages]
  /\ connects \in 0 .. MaxConnects /\ finishes \in 0 .. MaxFinishes
  /\ upsets \in 0 .. MaxUpsets
  /\ cut \in BOOLEAN /\ kept \in BOOLEAN

(* A device out of the box, or one whose network changed since. *)
Init ==
  /\ net \in {[manager |-> TRUE, supplicant |-> TRUE, ap0 |-> FALSE, apProfile |-> FALSE,
               apUp |-> FALSE, profiles |-> p, wifi |-> None]
              : p \in {{}} \cup {{<<s, "right">>} : s \in Ssids}}
  /\ proc = Running("gate")
  /\ page = Blank
  /\ attempt = [b \in Phones |-> Idle]
  /\ finish = [b \in Phones |-> "none"]
  /\ connects = 0 /\ finishes = 0 /\ upsets = 0
  /\ cut = FALSE /\ kept = FALSE

(* The process ends and takes its page and handlers with it. *)
Forget ==
  /\ page' = Blank
  /\ attempt' = [b \in Phones |-> Idle]
  /\ finish' = [b \in Phones |-> "none"]
  /\ kept' = FALSE

Upset == upsets < MaxUpsets /\ upsets' = upsets + 1

-----------------------------------------------------------------------------
(* The start gate: connected_with_retry(), then the wizard if every check  *)
(* missed.  A check misses without a network, and may miss with one.       *)
Online ==
  /\ proc.step = "gate" /\ net.wifi # None
  /\ proc' = Running("started")
  /\ UNCHANGED <<net, phoneVars, upsets, cut>>

Missed == IF proc.tries + 1 < Attempts
          THEN [proc EXCEPT !.tries = @ + 1] ELSE Running("stopManager")

Miss ==
  /\ proc.step = "gate"
  /\ IF net.wifi = None THEN UNCHANGED upsets ELSE Upset
  /\ proc' = Missed
  /\ UNCHANGED <<net, phoneVars, cut>>

-----------------------------------------------------------------------------
(* AccessPoint.start(), called by Page.__init__.                           *)
Go(step) == proc' = [proc EXCEPT !.step = step]

(* Slip: the restart is not in a finally. *)
RaiseAtOnce == proc' = Running("failed")

(* Inside the try an exception waits for the finally; outside it ends the  *)
(* process.                                                                *)
Raise == proc' = IF proc.step \in Creating \ {"restart"}
                 THEN [proc EXCEPT !.step = "restart", !.error = TRUE]
                 ELSE Running("failed")

(* A call of create() or up(): a call that times out may have had its effect. *)
Call(works, effect, next) ==
  \/ works /\ net' = effect /\ Go(next) /\ UNCHANGED upsets
  \/ ~works /\ Raise /\ UNCHANGED <<net, upsets>>
  \/ Upset /\ (UNCHANGED net \/ (works /\ net' = effect)) /\ Raise

(* Both stops swallow their failure. *)
StopUnits ==
  \/ /\ proc.step = "stopManager"
     /\ \/ net' = ManagerStopped /\ UNCHANGED upsets
        \/ Upset /\ UNCHANGED net
     /\ Go("stopSupplicant")
     /\ UNCHANGED <<phoneVars, cut>>
  \/ /\ proc.step = "stopSupplicant"
     /\ \/ net' = SupplicantStopped /\ UNCHANGED upsets
        \/ Upset /\ UNCHANGED net
     /\ Go("resetInterface")
     /\ UNCHANGED <<phoneVars, cut>>

(* Slip: a stale interface is kept. *)
KeepInterface ==
  /\ proc.step = "resetInterface"
  /\ Go("addInterface")
  /\ UNCHANGED <<net, upsets, phoneVars, cut>>

(* delete_interface is not checked. *)
ResetInterface ==
  /\ proc.step = "resetInterface"
  /\ \/ net' = InterfaceDeleted /\ UNCHANGED upsets
     \/ Upset /\ UNCHANGED net
  /\ Go("addInterface")
  /\ UNCHANGED <<phoneVars, cut>>

AddInterface ==
  /\ proc.step = "addInterface"
  /\ Call(InterfaceWorks, InterfaceAdded, "linkUp")
  /\ UNCHANGED <<phoneVars, cut>>

LinkUp ==
  /\ proc.step = "linkUp"
  /\ Call(net.ap0, net, "captive")
  /\ UNCHANGED <<phoneVars, cut>>

WriteCaptive ==
  /\ proc.step = "captive"
  /\ Call(TRUE, net, "restart")
  /\ UNCHANGED <<phoneVars, cut>>

(* The finally: afterwards an exception held back goes on. *)
RestartManager ==
  /\ proc.step = "restart"
  /\ \/ /\ net' = ManagerRestarted /\ cut' = FALSE
        /\ proc' = Running(IF proc.error THEN "failed" ELSE "profile")
        /\ UNCHANGED upsets
     \/ /\ Upset
        /\ \/ net' = ManagerRestarted /\ cut' = FALSE
           \/ net' \in {net, ManagerStopped} /\ cut' = TRUE
        /\ proc' = Running("failed")
  /\ UNCHANGED phoneVars

(* Slip: a connection that is there already is taken for one that is up. *)
AddProfileAndTrust ==
  /\ proc.step = "profile"
  /\ IF net.apProfile THEN Go("serving") /\ UNCHANGED <<net, upsets>>
                      ELSE Call(ProfileWorks, ProfileAdded, "awaitProfile")
  /\ UNCHANGED <<phoneVars, cut>>

(* The connection of an earlier run is used again. *)
AddProfile ==
  /\ proc.step = "profile"
  /\ IF net.apProfile THEN Go("up") /\ UNCHANGED <<net, upsets>>
                      ELSE Call(ProfileWorks, ProfileAdded, "awaitProfile")
  /\ UNCHANGED <<phoneVars, cut>>

(* It polls for ten seconds, and gives up when it is still not there. *)
AwaitProfile ==
  /\ proc.step = "awaitProfile"
  /\ Call(net.apProfile, net, "up")
  /\ UNCHANGED <<phoneVars, cut>>

Up ==
  /\ proc.step = "up"
  /\ Call(UpWorks, PointUp, "serving")
  /\ UNCHANGED <<phoneVars, cut>>

-----------------------------------------------------------------------------
(* The pages.  Handlers run while the server does, and until the process   *)
(* ends after it was told to stop.                                         *)
Alive == proc.step \in {"serving", "closing"}
hostVars == <<proc, cut>>

Set(b, stage) == attempt' = [attempt EXCEPT ![b].stage = stage]
Resolve(b) == attempt' = [attempt EXCEPT ![b] = Idle]

(* connect(): a profile of that name is deleted before the new one is added. *)
Selected(b, s, k) ==
  attempt' = [attempt EXCEPT ![b] =
     [stage |-> IF HasProfile(s) THEN "forget" ELSE "add", ssid |-> s, key |-> k]]

(* What a scan shows is up to the air.  A click that has to scan first is   *)
(* one that comes later, and one whose network is gone, or that lacks the  *)
(* password it needs, changes nothing.                                     *)
Connect(b) ==
  /\ proc.step = "serving" /\ attempt[b].stage = "idle" /\ connects < MaxConnects
  /\ connects' = connects + 1
  /\ \E s \in Ssids, k \in Keys : Selected(b, s, k) /\ kept' = (kept /\ s # page.connected)
  /\ UNCHANGED <<net, hostVars, page, finish, finishes, upsets>>

(* A delete that fails is passed over. *)
ForgetProfile(b) ==
  /\ Alive /\ attempt[b].stage = "forget"
  /\ \/ ForgetWorks(attempt[b].ssid) /\ net' = Forgotten(attempt[b].ssid)
          /\ Set(b, "forgotten") /\ UNCHANGED upsets
     \/ ~ForgetWorks(attempt[b].ssid) /\ Set(b, "add") /\ UNCHANGED <<net, upsets>>
     \/ Upset /\ Set(b, "add") /\ UNCHANGED net
  /\ UNCHANGED <<hostVars, page, finish, connects, finishes, kept>>

(* Ten looks, one a second: gone goes on, still there gives up. *)
ForgottenOrNot(b) ==
  /\ attempt[b].stage = "forgotten"
  /\ IF HasProfile(attempt[b].ssid) THEN Resolve(b) ELSE Set(b, "add")

AwaitForgotten(b) ==
  /\ Alive /\ ForgottenOrNot(b)
  /\ UNCHANGED <<net, hostVars, page, finish, connects, finishes, upsets, kept>>

(* So is an add that fails. *)
StoreProfile(b) ==
  /\ Alive /\ attempt[b].stage = "add"
  /\ \/ net.manager /\ net' = Stored(attempt[b].ssid, attempt[b].key)
          /\ Set(b, "added") /\ UNCHANGED upsets
     \/ Upset /\ Set(b, "up") /\ UNCHANGED net
  /\ UNCHANGED <<hostVars, page, finish, connects, finishes, kept>>

AwaitStored(b) ==
  /\ Alive /\ attempt[b].stage = "added"
  /\ IF HasProfile(attempt[b].ssid) THEN Set(b, "up") ELSE Resolve(b)
  /\ UNCHANGED <<net, hostVars, page, finish, connects, finishes, upsets, kept>>

(* nmcli picks a profile of the name; what it cannot join it leaves        *)
(* unjoined, and the profile stays.                                        *)
Others(b) == {c \in Phones \ {b} : attempt[c].stage # "idle"
                                   /\ attempt[c].ssid = attempt[b].ssid}

Joined(b) ==
  /\ <<attempt[b].ssid, "right">> \in net.profiles
  /\ net' = Associated(attempt[b].ssid)
  /\ page' = [page EXCEPT !.connected = attempt[b].ssid]
  /\ kept' = (Others(b) = {})
  /\ UNCHANGED upsets

(* Slip: connected_profile is set whatever came of the attempt. *)
NotJoinedButConnected(b) ==
  /\ \/ <<attempt[b].ssid, "wrong">> \in net.profiles /\ net' = Disassociated
          /\ UNCHANGED upsets
     \/ ~HasProfile(attempt[b].ssid) /\ UNCHANGED <<net, upsets>>
     \/ Upset /\ net' \in {net, Disassociated}
  /\ page' = [page EXCEPT !.connected = attempt[b].ssid]
  /\ kept' = (Others(b) = {})

NotJoined(b) ==
  /\ \/ <<attempt[b].ssid, "wrong">> \in net.profiles /\ net' = Disassociated
          /\ UNCHANGED upsets
     \/ ~HasProfile(attempt[b].ssid) /\ UNCHANGED <<net, upsets>>
     \/ Upset /\ net' \in {net, Disassociated}
  /\ UNCHANGED <<page, kept>>

Join(b) ==
  /\ Alive /\ attempt[b].stage = "up"
  /\ Joined(b) \/ NotJoined(b)
  /\ Resolve(b)
  /\ UNCHANGED <<hostVars, finish, connects, finishes>>

-----------------------------------------------------------------------------
(* Finish.  The button is disabled by the first click, for every phone, a  *)
(* moment later: a second click can come before.                           *)
ClickFinish(b) ==
  /\ proc.step = "serving" /\ finish[b] = "none" /\ finishes < MaxFinishes
  /\ ~page.shutting \/ \A c \in Phones : finish[c] \in {"none", "sleep"}
  /\ finishes' = finishes + 1
  /\ page' = [page EXCEPT !.shutting = TRUE]
  /\ finish' = [finish EXCEPT ![b] = "sleep"]
  /\ UNCHANGED <<net, hostVars, attempt, connects, upsets, kept>>

Advance(b, stage) == finish' = [finish EXCEPT ![b] = stage]

(* One nmcli call of AccessPoint.stop(), in a thread. *)
StopCall(b, works, effect, next) ==
  \/ works /\ net' = effect /\ Advance(b, next) /\ UNCHANGED upsets
  \/ ~works /\ Advance(b, "failed") /\ UNCHANGED <<net, upsets>>
  \/ Upset /\ (UNCHANGED net \/ (works /\ net' = effect)) /\ Advance(b, "failed")

(* down() and delete() look whether the connection exists, then call. *)
Look(b) ==
  /\ \/ finish[b] = "sleep" /\ Advance(b, IF net.apProfile THEN "takeDown" ELSE "delete")
     \/ finish[b] = "delete" /\ Advance(b, IF net.apProfile THEN "deleting" ELSE "interface")
  /\ UNCHANGED <<net, upsets>>

(* Slip: the connection is only taken down. *)
DeleteNothing(b) == finish[b] = "deleting" /\ StopCall(b, DeleteWorks, PointDown, "interface")

TakeDown(b) == finish[b] = "takeDown" /\ StopCall(b, DownWorks, PointDown, "delete")
Delete(b) == finish[b] = "deleting" /\ StopCall(b, DeleteWorks, ProfileDeleted, "interface")

(* delete_interface, and then app.shutdown() on the loop. *)
Close(b) ==
  /\ finish[b] = "interface"
  /\ \/ net' = InterfaceDeleted /\ UNCHANGED upsets
     \/ Upset /\ UNCHANGED net
  /\ Advance(b, "reboot")

StopPoint(b) ==
  /\ Alive
  /\ \/ (Look(b) \/ TakeDown(b) \/ Delete(b)) /\ UNCHANGED proc
     \/ Close(b) /\ Go("closing")
  /\ UNCHANGED <<page, attempt, connects, finishes, cut, kept>>

(* Five seconds later, if the process is still there.                      *)
Reboot(b) ==
  /\ Alive /\ finish[b] = "reboot"
  /\ \/ net' = Booted /\ proc' = Running("gate") /\ Forget /\ UNCHANGED upsets
     \/ Upset /\ Advance(b, "failed") /\ UNCHANGED <<net, proc, page, attempt, kept>>
  /\ UNCHANGED <<connects, finishes, cut>>

(* The server has stopped: ui.run() returns, the streamer goes on to its   *)
(* own web app, and the player's process ends.                             *)
Return ==
  /\ proc.step = "closing"
  /\ proc' = Running("started") /\ Forget
  /\ UNCHANGED <<net, connects, finishes, upsets, cut>>

-----------------------------------------------------------------------------
(* The unit and the device.                                                *)
Respawn ==
  /\ proc.step = "failed" /\ Restarts
  /\ proc' = Running("gate")
  /\ UNCHANGED <<net, phoneVars, upsets, cut>>

Kill ==
  /\ Upset /\ proc.step \notin {"failed", "started"}
  /\ proc' = Running("failed") /\ Forget
  /\ cut' = (cut \/ proc.step \in Creating)
  /\ UNCHANGED <<net, connects, finishes>>

PowerCut ==
  /\ Upset
  /\ net' = Booted /\ proc' = Running("gate") /\ Forget
  /\ cut' = FALSE
  /\ UNCHANGED <<connects, finishes>>

Manager == AutoConnect /\ UNCHANGED <<proc, phoneVars, upsets, cut>>

Main == \/ Online \/ Miss \/ StopUnits \/ ResetInterface \/ AddInterface \/ LinkUp
        \/ WriteCaptive \/ RestartManager \/ AddProfile \/ AwaitProfile \/ Up
        \/ Return \/ Respawn
Handler(b) == \/ ForgetProfile(b) \/ AwaitForgotten(b) \/ StoreProfile(b)
              \/ AwaitStored(b) \/ Join(b)
Finisher(b) == StopPoint(b) \/ Reboot(b)

Next ==
  \/ Main \/ Manager \/ Kill \/ PowerCut
  \/ \E b \in Phones : Connect(b) \/ Handler(b)
                       \/ ClickFinish(b) \/ Finisher(b)

Spec == Init /\ [][Next]_vars

(* The main thread's calls and waits end; nobody has to click, and         *)
(* NetworkManager need not find its network.                               *)
FairSpec == Spec /\ WF_vars(Main)

-----------------------------------------------------------------------------
(* While the pages are served and nobody finishes, phones can reach them:  *)
(* no leftover of an earlier run, restart of NetworkManager or attempt to   *)
(* join a network leaves the wizard running with its access point down.    *)
ServedOverAccessPoint ==
  proc.step = "serving" /\ (\A b \in Phones : finish[b] \in {"none", "sleep"})
  => net.apUp

(* create() leaves NetworkManager running on every path, unless it was     *)
(* killed or the restart itself failed.                                    *)
ManagerRestored == net.manager \/ proc.step \in Creating \/ cut

(* Once Finish has come to stopping the web app, the access point is gone, *)
(* with its connection, however many phones clicked Finish.                *)
CleanHandover == proc.step = "closing" => ~net.apUp /\ ~net.apProfile

(* connected_profile names a profile that joined and is still stored,      *)
(* until somebody tries that network again.                                *)
ConnectedIsStored ==
  kept => page.connected # None /\ <<page.connected, "right">> \in net.profiles

(* Every start of the service ends with the device on its network or with  *)
(* a wizard that phones can reach.                                         *)
Usable == \/ proc.step = "serving" /\ net.apUp
          \/ proc.step = "started" /\ net.wifi # None
EveryStartIsUsable == proc.step = "gate" ~> Usable
=============================================================================
