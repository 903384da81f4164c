----------------------------- MODULE PageFanout ------------------------------
(***************************************************************************)
(* The dashboard pages of the streamer (ui/streamer/pages): one Page per   *)
(* browser, the registry that fan-outs go through, and the flag and the    *)
(* deferred tabs that keep a fan-out from rebuilding a tab under an overlay *)
(* the user has open.                                                      *)
(*                                                                         *)
(* now[t] is what a rebuild of tab t shows at that moment; the module that *)
(* composes this one with the data says what that is.                      *)
(***************************************************************************)
EXTENDS Naturals

CONSTANTS Pages,
          MaxOverlays    \* bound: overlays opened

VARIABLES
  page,      \* per browser: its Page, and the overlays on its screen
  opened

Tabs == {"players", "sources", "settings"}

(* The move menu and the settings dialog of a player, and the dialog that  *)
(* disables a source, are elements of the tab they were opened from.       *)
Overlays == {"menu", "settings", "disable"}
Host(o) == IF o = "disable" THEN "sources" ELSE "players"

(* Handlers that rebuild a tab when what they submitted is done.           *)
Handlers == {"move", "refresh", "save", "toggle"}

(* flag is _dialog_open; stale, tabs whose data changed since they were    *)
(* built; mixed, that an overlay was opened before another was over.       *)
Loaded(now) ==
  [connected |-> TRUE, registered |-> TRUE, flag |-> FALSE, deferred |-> {},
   open |-> {}, closing |-> {}, late |-> {}, shown |-> now, stale |-> {}, mixed |-> FALSE]

(* A refresh deletes the tab's elements, its overlays with them.           *)
Rebuild(r, tabs, now) ==
  [r EXCEPT !.shown = [t \in Tabs |-> IF t \in tabs THEN now[t] ELSE r.shown[t]],
            !.stale = @ \ tabs,
            !.open = {o \in @ : Host(o) \notin tabs},
            !.closing = {o \in @ : Host(o) \notin tabs}]

(* Slip: the deferred tabs are dropped. *)
CloseAndForget(r, now) == [r EXCEPT !.flag = FALSE, !.deferred = {}]

CloseDialog(r, now) ==
  Rebuild([r EXCEPT !.flag = FALSE, !.deferred = {}], r.deferred, now)

(* A page that is not connected is taken from the registry for good.       *)
Notified(r, tabs, now) ==
  LET changed == [r EXCEPT !.stale = @ \cup tabs]
  IN  IF ~r.registered THEN changed
      ELSE IF ~r.connected THEN [changed EXCEPT !.registered = FALSE]
      ELSE IF r.flag THEN [changed EXCEPT !.deferred = @ \cup tabs]
      ELSE Rebuild(changed, tabs, now)

FanOut(tabs, now) == page' = [b \in Pages |-> Notified(page[b], tabs, now)]

-----------------------------------------------------------------------------
(* What a user does in a browser, as the event reaches the server.         *)
With(b, r) == page' = [page EXCEPT ![b] = r]

(* The dialog that disables a source opens after two reads, whatever was    *)
(* opened meanwhile; the other two only while nothing covers their button. *)
Open(b, o) ==
  /\ page[b].connected /\ opened < MaxOverlays
  /\ o = "disable" \/ page[b].open = {}
  /\ opened' = opened + 1
  /\ With(b, [page[b] EXCEPT !.flag = TRUE, !.open = @ \cup {o},
                             !.mixed = \/ page[b].open \cup page[b].closing # {}
                                       \/ "save" \in page[b].late])

Shut(r, o) == [r EXCEPT !.open = @ \ {o}, !.closing = @ \ {o}]

(* The menu's value changes, or the dialog is hidden, once.                *)
Dismiss(b, o, now) ==
  /\ page[b].connected /\ o \in page[b].open \cup page[b].closing
  /\ With(b, IF o = "disable"
             THEN Rebuild(CloseDialog(Shut(page[b], o), now), {"sources"}, now)
             ELSE CloseDialog(Shut(page[b], o), now))
  /\ UNCHANGED opened

(* Clears the flag itself and closes; the browser reports the close later. *)
Leave(r, o, now) ==
  CloseDialog([r EXCEPT !.open = @ \ {o}, !.closing = @ \cup {o}], now)

Cancel(b, now) ==
  /\ page[b].connected /\ "settings" \in page[b].open
  /\ With(b, Leave(page[b], "settings", now))
  /\ UNCHANGED opened

(* A destination of the move menu.                                         *)
Pick(b, now) ==
  /\ page[b].connected /\ "menu" \in page[b].open
  /\ With(b, [Leave(page[b], "menu", now) EXCEPT !.late = @ \cup {"move"}])
  /\ UNCHANGED opened

Save(b) ==
  /\ page[b].connected /\ "settings" \in page[b].open
  /\ With(b, [page[b] EXCEPT !.late = @ \cup {"save"}])
  /\ UNCHANGED opened

(* handled is latched: the hide that follows does nothing.                 *)
Confirm(b, now) ==
  /\ page[b].connected /\ "disable" \in page[b].open
  /\ With(b, [CloseDialog(Shut(page[b], "disable"), now) EXCEPT !.late = @ \cup {"toggle"}])
  /\ UNCHANGED opened

(* A switch of a player, a feature, Restore; or a toggle without a dialog. *)
Begin(b, h) ==
  /\ page[b].connected /\ page[b].open = {}
  /\ With(b, [page[b] EXCEPT !.late = @ \cup {h}])
  /\ UNCHANGED opened

Resumed(r, h, now) ==
  LET done == [r EXCEPT !.late = @ \ {h}]
  IN  CASE h = "save"   -> Rebuild(CloseDialog(done, now), {"players"}, now)
        [] h = "toggle" -> Rebuild(done, {"sources"}, now)
        [] OTHER        -> Rebuild(done, {"players"}, now)

(* Slip: a toggle clears the flag when it is done. *)
ResumeClosing(b, h, now) ==
  /\ h \in page[b].late
  /\ With(b, Resumed(IF h = "toggle" THEN CloseDialog(page[b], now) ELSE page[b], h, now))
  /\ UNCHANGED opened

(* By player a move that landed rebuilds nothing, nor does a toggle whose  *)
(* reseed raises.                                                          *)
Resume(b, h, now) ==
  /\ h \in page[b].late
  /\ \/ With(b, Resumed(page[b], h, now))
     \/ h \in {"move", "toggle"} /\ With(b, [page[b] EXCEPT !.late = @ \ {h}])
  /\ UNCHANGED opened

-----------------------------------------------------------------------------
(* on_disconnect pops the page; a browser that comes back is the same      *)
(* client, and nothing registers its page again.                           *)
Disconnect(b) ==
  /\ page[b].connected
  /\ With(b, [page[b] EXCEPT !.connected = FALSE, !.registered = FALSE])
  /\ UNCHANGED opened

Reconnect(b) ==
  /\ ~page[b].connected
  /\ With(b, [page[b] EXCEPT !.connected = TRUE])
  /\ UNCHANGED opened

(* The new page is registered before its browser has connected.            *)
Reload(b, now) ==
  /\ \E connected \in BOOLEAN : With(b, [Loaded(now) EXCEPT !.connected = connected])
  /\ UNCHANGED opened

Screen(b, now) ==
  \/ \E o \in Overlays : Open(b, o) \/ Dismiss(b, o, now)
  \/ Cancel(b, now) \/ Pick(b, now) \/ Save(b) \/ Confirm(b, now)
  \/ \E h \in Handlers : Resume(b, h, now)

-----------------------------------------------------------------------------
(* No fan-out rebuilds a tab under the overlay a user has open, unless     *)
(* that was opened before an earlier one was over: they share the flag.    *)
OverlaysAreFlagged ==
  \A b \in Pages : page[b].open # {} => page[b].flag \/ page[b].mixed

(* A tab whose data changed is rebuilt, or remembered for when the overlay *)
(* is closed, unless the page has been taken from the registry.            *)
ChangesAreRemembered ==
  \A b \in Pages : page[b].registered =>
    /\ page[b].stale \subseteq page[b].deferred
    /\ page[b].deferred # {} => page[b].flag
=============================================================================
