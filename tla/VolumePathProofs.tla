-------------------------- MODULE VolumePathProofs --------------------------
(***************************************************************************)
(* Theorems about VolumePath, for any browsers, players, volumes and       *)
(* bounds: about the pages, whatever the broker, the commands and the      *)
(* observers announce, about the last volume submitted for a player, about *)
(* what the cache holds of the files, and about what the pages show of it. *)
(***************************************************************************)
EXTENDS VolumePath, SequenceTheorems, TLAPS

Fields == {"connected", "registered", "flag", "deferred", "open", "closing", "late",
           "shown", "stale", "mixed"}

(* A record with these fields; the values that are shown do not matter. *)
IsPage(r) ==
  /\ r = [f \in Fields |-> r[f]]
  /\ r.open \subseteq Overlays /\ r.closing \subseteq Overlays

(* Neither property is inductive.  An overlay that closes clears the flag, *)
(* so a second one must not be on the screen unless they overlapped; nor   *)
(* another than the dialog that a save under way is going to close.        *)
FlagInv(r) ==
  /\ r.open # {} => r.flag \/ r.mixed
  /\ ~r.mixed => \A o, q \in r.open \cup r.closing : o = q
  /\ "save" \in r.late /\ ~r.mixed => r.open \cup r.closing \subseteq {"settings"}

RememberInv(r) ==
  r.registered => /\ r.stale \subseteq r.deferred
                  /\ r.deferred # {} => r.flag

PageOk(r) == IsPage(r) /\ FlagInv(r) /\ RememberInv(r)
PagesInv == page = [b \in Pages |-> page[b]] /\ \A b \in Pages : PageOk(page[b])

-----------------------------------------------------------------------------
(* What a rebuild changes of a page. *)
LEMMA RebuildFields ==
  ASSUME NEW r, IsPage(r), NEW tabs, NEW now, NEW n, n = Rebuild(r, tabs, now)
  PROVE  /\ IsPage(n)
         /\ n.connected = r.connected /\ n.registered = r.registered /\ n.flag = r.flag
         /\ n.deferred = r.deferred /\ n.late = r.late /\ n.mixed = r.mixed
         /\ n.stale = r.stale \ tabs
         /\ n.open = {o \in r.open : Host(o) \notin tabs}
         /\ n.closing = {o \in r.closing : Host(o) \notin tabs}
BY DEF IsPage, Fields, Rebuild

(* A rebuild leaves the page in order. *)
LEMMA RebuildKeeps ==
  ASSUME NEW r, PageOk(r), NEW tabs, NEW now
  PROVE  PageOk(Rebuild(r, tabs, now))
<1> DEFINE n == Rebuild(r, tabs, now)
<1>1. /\ IsPage(n)
      /\ n.registered = r.registered /\ n.flag = r.flag
      /\ n.deferred = r.deferred /\ n.late = r.late /\ n.mixed = r.mixed
      /\ n.stale = r.stale \ tabs
      /\ n.open \subseteq r.open /\ n.closing \subseteq r.closing
  BY RebuildFields DEF PageOk
<1> HIDE DEF n
<1>2. FlagInv(n)
  BY <1>1 DEF PageOk, FlagInv
<1>3. RememberInv(n)
  BY <1>1 DEF PageOk, RememberInv
<1>4. QED
  BY <1>1, <1>2, <1>3 DEF PageOk, n

(* What closing a dialog changes of a page. *)
LEMMA CloseFields ==
  ASSUME NEW r, IsPage(r), NEW now, NEW n, n = CloseDialog(r, now)
  PROVE  /\ IsPage(n) /\ n.registered = r.registered /\ n.flag = FALSE /\ n.deferred = {}
         /\ n.late = r.late /\ n.mixed = r.mixed /\ n.stale = r.stale \ r.deferred
         /\ n.open \subseteq r.open /\ n.closing \subseteq r.closing
<1> DEFINE m == [r EXCEPT !.flag = FALSE, !.deferred = {}]
<1>1. /\ IsPage(m) /\ m.registered = r.registered /\ m.flag = FALSE /\ m.deferred = {}
      /\ m.late = r.late /\ m.mixed = r.mixed /\ m.stale = r.stale
      /\ m.open = r.open /\ m.closing = r.closing
  BY DEF IsPage, Fields
<1>2. n = Rebuild(m, r.deferred, now)
  BY DEF CloseDialog
<1> HIDE DEF m
<1>3. QED
  BY <1>1, <1>2, RebuildFields

(* Clearing the flag is in order when what is still open overlapped. *)
LEMMA CloseKeeps ==
  ASSUME NEW r, IsPage(r), FlagInv(r), RememberInv(r), r.open # {} => r.mixed, NEW now
  PROVE  PageOk(CloseDialog(r, now))
<1> DEFINE n == CloseDialog(r, now)
<1>1. /\ IsPage(n) /\ n.registered = r.registered /\ n.flag = FALSE /\ n.deferred = {}
      /\ n.late = r.late /\ n.mixed = r.mixed /\ n.stale = r.stale \ r.deferred
      /\ n.open \subseteq r.open /\ n.closing \subseteq r.closing
  BY CloseFields
<1> HIDE DEF n
<1>2. FlagInv(n)
  BY <1>1 DEF FlagInv
<1>3. RememberInv(n)
  BY <1>1 DEF RememberInv
<1>4. QED
  BY <1>1, <1>2, <1>3 DEF PageOk, n

(* An overlay that leaves the screen, in either way. *)
LEMMA ShutFields ==
  ASSUME NEW r, PageOk(r), NEW o, o \in r.open \cup r.closing
  PROVE  /\ IsPage(Shut(r, o)) /\ FlagInv(Shut(r, o)) /\ RememberInv(Shut(r, o))
         /\ Shut(r, o).open # {} => Shut(r, o).mixed
<1> DEFINE n == Shut(r, o)
<1>1. /\ IsPage(n) /\ n.registered = r.registered /\ n.flag = r.flag
      /\ n.deferred = r.deferred /\ n.late = r.late /\ n.mixed = r.mixed
      /\ n.stale = r.stale /\ n.open = r.open \ {o} /\ n.closing = r.closing \ {o}
  BY DEF PageOk, IsPage, Fields, Shut
<1> HIDE DEF n
<1>2. n.open # {} => n.mixed
  BY <1>1 DEF PageOk, FlagInv
<1>3. FlagInv(n) /\ RememberInv(n)
  BY <1>1 DEF PageOk, FlagInv, RememberInv
<1>4. QED
  BY <1>1, <1>2, <1>3 DEF n

(* An overlay that a handler closes, before the browser reports it. *)
LEMMA LeaveKeeps ==
  ASSUME NEW r, PageOk(r), NEW o, o \in r.open, NEW now
  PROVE  PageOk(Leave(r, o, now))
<1> DEFINE n == [r EXCEPT !.open = @ \ {o}, !.closing = @ \cup {o}]
<1>1. /\ IsPage(n) /\ n.registered = r.registered /\ n.flag = r.flag
      /\ n.deferred = r.deferred /\ n.late = r.late /\ n.mixed = r.mixed
      /\ n.stale = r.stale /\ n.open = r.open \ {o} /\ n.closing = r.closing \cup {o}
  BY DEF PageOk, IsPage, Fields
<1>2. Leave(r, o, now) = CloseDialog(n, now)
  BY DEF Leave
<1> HIDE DEF n
<1>3. n.open # {} => n.mixed
  BY <1>1 DEF PageOk, FlagInv
<1>4. FlagInv(n) /\ RememberInv(n)
  BY <1>1 DEF PageOk, FlagInv, RememberInv
<1>5. QED
  BY <1>1, <1>2, <1>3, <1>4, CloseKeeps

(* What a page waits for is only looked at when it is a save. *)
LEMMA LateKeeps ==
  ASSUME NEW r, PageOk(r), NEW s
  PROVE  /\ \A h : h # "save" => PageOk([r EXCEPT !.late = @ \cup {h}])
         /\ "settings" \in r.open => PageOk([r EXCEPT !.late = @ \cup {"save"}])
         /\ s \subseteq r.late => PageOk([r EXCEPT !.late = s])
<1>1. ASSUME NEW q, "save" \in q /\ "save" \notin r.late => "settings" \in r.open
      PROVE  PageOk([r EXCEPT !.late = q])
  <2> DEFINE n == [r EXCEPT !.late = q]
  <2>1. /\ IsPage(n) /\ n.registered = r.registered /\ n.flag = r.flag
        /\ n.deferred = r.deferred /\ n.late = q /\ n.mixed = r.mixed
        /\ n.stale = r.stale /\ n.open = r.open /\ n.closing = r.closing
    BY DEF PageOk, IsPage, Fields
  <2> HIDE DEF n
  <2>2. FlagInv(n)
    BY <1>1, <2>1 DEF PageOk, FlagInv
  <2>3. RememberInv(n)
    BY <2>1 DEF PageOk, RememberInv
  <2>4. QED
    BY <2>1, <2>2, <2>3 DEF PageOk, n
<1>2. QED
  BY <1>1

(* A save that ends clears the flag under its own dialog, and then rebuilds *)
(* the tab that the dialog is an element of.                               *)
LEMMA SaveEndKeeps ==
  ASSUME NEW r, PageOk(r), "save" \in r.late, NEW now
  PROVE  PageOk(Resumed(r, "save", now))
<1> DEFINE d == [r EXCEPT !.late = @ \ {"save"}]
           c == CloseDialog(d, now)
           n == Rebuild(c, {"players"}, now)
<1>1. /\ IsPage(d) /\ d.registered = r.registered
      /\ d.deferred = r.deferred /\ d.mixed = r.mixed /\ d.late = r.late \ {"save"}
      /\ d.stale = r.stale /\ d.open = r.open /\ d.closing = r.closing
  BY DEF PageOk, IsPage, Fields
<1> HIDE DEF d
<1>2. /\ IsPage(c) /\ c.registered = r.registered /\ c.flag = FALSE /\ c.deferred = {}
      /\ c.late = r.late \ {"save"} /\ c.mixed = r.mixed /\ c.stale = r.stale \ r.deferred
      /\ c.open \subseteq r.open /\ c.closing \subseteq r.closing
  <2>1. /\ IsPage(c) /\ c.registered = d.registered /\ c.flag = FALSE /\ c.deferred = {}
        /\ c.late = d.late /\ c.mixed = d.mixed /\ c.stale = d.stale \ d.deferred
        /\ c.open \subseteq d.open /\ c.closing \subseteq d.closing
    <3>1. IsPage(d)
      BY <1>1
    <3>2. QED
      BY ONLY <3>1, CloseFields
  <2>2. QED
    BY <1>1, <2>1
<1> HIDE DEF c
<1>3. /\ IsPage(n) /\ n.registered = r.registered /\ n.deferred = {}
      /\ n.late = r.late \ {"save"} /\ n.mixed = r.mixed
      /\ n.stale \subseteq r.stale \ r.deferred
      /\ n.open = {o \in c.open : Host(o) # "players"} /\ n.closing \subseteq r.closing
  BY <1>2, RebuildFields
<1> HIDE DEF n
<1>4. ~r.mixed => n.open = {}
  BY <1>2, <1>3 DEF PageOk, FlagInv, Host
<1>5. FlagInv(n)
  <2>1. n.open \subseteq r.open
    BY <1>2, <1>3
  <2>2. QED
    BY <1>3, <1>4, <2>1 DEF PageOk, FlagInv
<1>6. RememberInv(n)
  BY <1>3 DEF PageOk, RememberInv
<1>7. Resumed(r, "save", now) = n
  BY DEF Resumed, n, c, d
<1>8. QED
  BY <1>3, <1>5, <1>6, <1>7 DEF PageOk

(* So does every other handler that ends.                                  *)
LEMMA ResumedKeeps ==
  ASSUME NEW r, PageOk(r), NEW h \in Handlers, h \in r.late, NEW now
  PROVE  PageOk(Resumed(r, h, now))
<1>1. CASE h = "save"
  BY <1>1, SaveEndKeeps
<1>2. CASE h # "save"
  <2>1. PageOk([r EXCEPT !.late = @ \ {h}])
    <3>1. r.late \ {h} \subseteq r.late
      OBVIOUS
    <3>2. QED
      BY <3>1, LateKeeps
  <2>2. QED
    BY <1>2, <2>1, RebuildKeeps DEF Resumed
<1>3. QED
  BY <1>1, <1>2

(* A fan-out that reaches a page rebuilds it, defers the tabs, or drops it. *)
LEMMA NotifiedKeeps ==
  ASSUME NEW r, PageOk(r), NEW tabs, NEW now
  PROVE  PageOk(Notified(r, tabs, now))
<1> DEFINE c == [r EXCEPT !.stale = @ \cup tabs]
<1>1. /\ IsPage(c) /\ c.registered = r.registered /\ c.flag = r.flag
      /\ c.deferred = r.deferred /\ c.mixed = r.mixed /\ c.late = r.late
      /\ c.stale = r.stale \cup tabs /\ c.open = r.open /\ c.closing = r.closing
  BY DEF PageOk, IsPage, Fields
<1>2. FlagInv(c)
  BY <1>1 DEF PageOk, FlagInv
<1> HIDE DEF c
<1>3. CASE ~r.registered
  <2>1. RememberInv(c)
    BY <1>1, <1>3 DEF RememberInv
  <2>2. QED
    BY <1>1, <1>2, <1>3, <2>1 DEF PageOk, Notified, c
<1>4. CASE r.registered /\ ~r.connected
  <2> DEFINE n == [c EXCEPT !.registered = FALSE]
  <2>1. /\ IsPage(n) /\ n.registered = FALSE /\ n.flag = c.flag
        /\ n.mixed = c.mixed /\ n.late = c.late
        /\ n.open = c.open /\ n.closing = c.closing
    BY <1>1 DEF IsPage, Fields
  <2>2. Notified(r, tabs, now) = n
    BY <1>4 DEF Notified, c
  <2> HIDE DEF n
  <2>3. FlagInv(n) /\ RememberInv(n)
    BY <1>2, <2>1 DEF FlagInv, RememberInv
  <2>4. QED
    BY <2>1, <2>2, <2>3 DEF PageOk
<1>5. CASE r.registered /\ r.connected /\ r.flag
  <2> DEFINE n == [c EXCEPT !.deferred = @ \cup tabs]
  <2>1. /\ IsPage(n) /\ n.registered = c.registered /\ n.flag = c.flag
        /\ n.deferred = c.deferred \cup tabs /\ n.stale = c.stale
        /\ n.mixed = c.mixed /\ n.late = c.late
        /\ n.open = c.open /\ n.closing = c.closing
    BY <1>1 DEF IsPage, Fields
  <2>2. Notified(r, tabs, now) = n
    BY <1>5 DEF Notified, c
  <2> HIDE DEF n
  <2>3. FlagInv(n)
    BY <1>2, <2>1 DEF FlagInv
  <2>4. RememberInv(n)
    BY <1>1, <1>5, <2>1 DEF PageOk, RememberInv
  <2>5. QED
    BY <2>1, <2>2, <2>3, <2>4 DEF PageOk
<1>6. CASE r.registered /\ r.connected /\ ~r.flag
  <2> DEFINE n == Rebuild(c, tabs, now)
  <2>1. /\ IsPage(n) /\ n.registered = c.registered /\ n.flag = c.flag
        /\ n.deferred = c.deferred /\ n.stale = c.stale \ tabs
        /\ n.mixed = c.mixed /\ n.late = c.late
        /\ n.open \subseteq c.open /\ n.closing \subseteq c.closing
    BY <1>1, RebuildFields
  <2>2. Notified(r, tabs, now) = n
    BY <1>6 DEF Notified, c
  <2> HIDE DEF n
  <2>3. FlagInv(n)
    BY <1>2, <2>1 DEF FlagInv
  <2>4. RememberInv(n)
    BY <1>1, <1>6, <2>1 DEF PageOk, RememberInv
  <2>5. QED
    BY <2>1, <2>2, <2>3, <2>4 DEF PageOk
<1>7. QED
  BY <1>3, <1>4, <1>5, <1>6

-----------------------------------------------------------------------------
(* The pages, when one of them changes, and when all are notified. *)
LEMMA WithKeeps ==
  ASSUME PagesInv, NEW b, NEW r, With(b, r), b \in Pages => PageOk(r)
  PROVE  PagesInv'
<1>1. page' = [page EXCEPT ![b] = r]
  BY DEF With
<1>2. page' = [c \in Pages |-> page'[c]] /\ \A c \in Pages : page'[c] = IF c = b THEN r ELSE page[c]
  BY <1>1 DEF PagesInv
<1>3. \A c \in Pages : PageOk(page'[c])
  BY <1>2 DEF PagesInv
<1>4. QED
  BY <1>2, <1>3 DEF PagesInv

(* The fan-out. *)
LEMMA FanOutKeeps ==
  ASSUME PagesInv, NEW tabs, NEW now, FanOut(tabs, now)
  PROVE  PagesInv'
<1>1. page' = [c \in Pages |-> Notified(page[c], tabs, now)]
  BY DEF FanOut
<1>2. \A c \in Pages : PageOk(page'[c])
  BY <1>1, NotifiedKeeps DEF PagesInv
<1>3. page' = [c \in Pages |-> page'[c]]
  BY <1>1
<1>4. QED
  BY <1>2, <1>3 DEF PagesInv

(* A page that is loaded is in order. *)
LEMMA LoadedOk ==
  ASSUME NEW now
  PROVE  PageOk(Loaded(now))
BY DEF PageOk, IsPage, FlagInv, RememberInv, Loaded, Fields

(* An overlay that opens over none that is closing has not overlapped. *)
LEMMA OpenKeeps ==
  ASSUME PagesInv, NEW b \in Pages, NEW o \in Overlays, Open(b, o)
  PROVE  PagesInv'
<1> DEFINE r == page[b]
           n == [r EXCEPT !.flag = TRUE, !.open = @ \cup {o},
                          !.mixed = r.open \cup r.closing # {} \/ "save" \in r.late]
<1>1. PageOk(r) /\ With(b, n)
  BY DEF PagesInv, Open
<1> HIDE DEF r
<1>2. /\ IsPage(n) /\ n.registered = r.registered /\ n.flag = TRUE
      /\ n.deferred = r.deferred /\ n.late = r.late /\ n.stale = r.stale
      /\ n.mixed = (r.open \cup r.closing # {} \/ "save" \in r.late)
      /\ n.open = r.open \cup {o} /\ n.closing = r.closing
  BY <1>1 DEF PageOk, IsPage, Fields
<1> HIDE DEF n
<1>3. FlagInv(n)
  BY <1>2 DEF FlagInv
<1>4. RememberInv(n)
  BY <1>1, <1>2 DEF PageOk, RememberInv
<1>5. QED
  BY <1>1, <1>2, <1>3, <1>4, WithKeeps DEF PageOk

(* Every action of Screen. *)
LEMMA ScreenKeeps ==
  ASSUME PagesInv, NEW b \in Pages, NEW now, Screen(b, now)
  PROVE  PagesInv'
<1>1. PageOk(page[b])
  BY DEF PagesInv
<1>2. ASSUME NEW o \in Overlays, Open(b, o)
      PROVE  PagesInv'
  BY <1>2, OpenKeeps
<1>3. ASSUME NEW o \in Overlays, Dismiss(b, o, now)
      PROVE  PagesInv'
  <2>1. PageOk(CloseDialog(Shut(page[b], o), now))
    <3>1. o \in page[b].open \cup page[b].closing
      BY <1>3 DEF Dismiss
    <3>2. QED
      BY <1>1, <3>1, ShutFields, CloseKeeps
  <2>2. PageOk(Rebuild(CloseDialog(Shut(page[b], o), now), {"sources"}, now))
    BY <2>1, RebuildKeeps
  <2>3. QED
    BY <1>3, <2>1, <2>2, WithKeeps DEF Dismiss
<1>4. CASE Cancel(b, now)
  BY <1>1, <1>4, LeaveKeeps, WithKeeps DEF Cancel
<1>5. CASE Pick(b, now)
  <2>1. PageOk(Leave(page[b], "menu", now))
    BY <1>1, <1>5, LeaveKeeps DEF Pick
  <2>2. PageOk([Leave(page[b], "menu", now) EXCEPT !.late = @ \cup {"move"}])
    BY <2>1, LateKeeps
  <2>3. QED
    BY <1>5, <2>2, WithKeeps DEF Pick
<1>6. CASE Save(b)
  BY <1>1, <1>6, LateKeeps, WithKeeps DEF Save
<1>7. CASE Confirm(b, now)
  <2>1. PageOk(CloseDialog(Shut(page[b], "disable"), now))
    <3>1. "disable" \in page[b].open \cup page[b].closing
      BY <1>7 DEF Confirm
    <3>2. QED
      BY <1>1, <3>1, ShutFields, CloseKeeps
  <2>2. PageOk([CloseDialog(Shut(page[b], "disable"), now) EXCEPT !.late = @ \cup {"toggle"}])
    BY <2>1, LateKeeps
  <2>3. QED
    BY <1>7, <2>2, WithKeeps DEF Confirm
<1>8. ASSUME NEW h \in Handlers, Resume(b, h, now)
      PROVE  PagesInv'
  <2>1. PageOk(Resumed(page[b], h, now))
    BY <1>1, <1>8, ResumedKeeps DEF Resume
  <2>2. PageOk([page[b] EXCEPT !.late = @ \ {h}])
    <3>1. page[b].late \ {h} \subseteq page[b].late
      OBVIOUS
    <3>2. QED
      BY <1>1, <3>1, LateKeeps
  <2>3. QED
    BY <1>8, <2>1, <2>2, WithKeeps DEF Resume
<1>9. QED
  BY <1>2, <1>3, <1>4, <1>5, <1>6, <1>7, <1>8 DEF Screen

(* A connection that is lost, or comes back, and a page loaded again. *)
LEMMA BrowserKeeps ==
  ASSUME PagesInv, NEW b \in Pages, Browser(b)
  PROVE  PagesInv'
<1> DEFINE r == page[b]
<1>1. PageOk(r)
  BY DEF PagesInv
<1> HIDE DEF r
<1>2. ASSUME NEW n, n = [r EXCEPT !.connected = FALSE, !.registered = FALSE]
             \/ n = [r EXCEPT !.connected = TRUE]
      PROVE  PageOk(n)
  <2>1. /\ IsPage(n) /\ n.registered \in {FALSE, r.registered} /\ n.flag = r.flag
        /\ n.deferred = r.deferred /\ n.late = r.late /\ n.mixed = r.mixed
        /\ n.stale = r.stale /\ n.open = r.open /\ n.closing = r.closing
    BY <1>1, <1>2 DEF PageOk, IsPage, Fields
  <2>2. FlagInv(n) /\ RememberInv(n)
    BY <1>1, <2>1 DEF PageOk, FlagInv, RememberInv
  <2>3. QED
    BY <2>1, <2>2 DEF PageOk
<1>3. CASE Disconnect(b)
  BY <1>2, <1>3, WithKeeps DEF Disconnect, r
<1>4. CASE Reconnect(b)
  BY <1>2, <1>4, WithKeeps DEF Reconnect, r
<1>5. CASE Reload(b, Now)
  <2>1. PageOk(Loaded(Now))
    BY LoadedOk
  <2>2. PICK c \in BOOLEAN : With(b, [Loaded(Now) EXCEPT !.connected = c])
    BY <1>5 DEF Reload
  <2>3. PageOk([Loaded(Now) EXCEPT !.connected = c])
    BY <2>1 DEF PageOk, IsPage, FlagInv, RememberInv, Loaded, Fields
  <2>4. QED
    BY <2>2, <2>3, WithKeeps
<1>6. QED
  BY <1>3, <1>4, <1>5 DEF Browser

(* The pages stay in order in every step of the composition. *)
LEMMA PagesInvPreserved ==
  ASSUME PagesInv, [Next]_vars
  PROVE  PagesInv'
<1>1. CASE Dirty
  BY <1>1, FanOutKeeps DEF Dirty, Deliver, PagesInv
<1>2. CASE RunPost
  BY <1>2, FanOutKeeps DEF RunPost
<1>3. CASE RestoreNext
  <2>1. restore.page \in Pages => PageOk(Rebuild(page[restore.page], {"players"}, Now))
    BY RebuildKeeps DEF PagesInv
  <2>2. QED
    BY <1>3, <2>1, WithKeeps DEF RestoreNext, PagesInv
<1>4. ASSUME NEW b \in Pages, SaveBalance(b)
      PROVE  PagesInv'
  <2>1. PageOk(page[b])
    BY DEF PagesInv
  <2>2. QED
    BY <1>4, <2>1, RebuildKeeps, WithKeeps DEF SaveBalance
<1>5. ASSUME NEW b \in Pages, OtherHandler(b)
      PROVE  PagesInv'
  <2>1. PageOk(page[b])
    BY DEF PagesInv
  <2>2. \A h \in {"refresh", "toggle"} : Begin(b, h) => PagesInv'
    BY <2>1, LateKeeps, WithKeeps DEF Begin
  <2>3. QED
    BY <1>5, <2>2 DEF OtherHandler
<1>6. ASSUME NEW b \in Pages, OnScreen(b)
      PROVE  PagesInv'
  BY <1>6, ScreenKeeps DEF OnScreen
<1>7. ASSUME NEW b \in Pages, Browser(b)
      PROVE  PagesInv'
  BY <1>7, BrowserKeeps
<1>8. CASE UNCHANGED page
  BY <1>8 DEF PagesInv
<1>9. CASE ServerChange \/ Reader
  BY <1>8, <1>9
  DEF ServerChange, Reader, ReadNotification, LoadFiles, SeedOne, SeedFile, FinishLoad,
      GetFile, StoreVolume, rest
<1>10. CASE Worker \/ CommandFails
  BY <1>8, <1>10 DEF Worker, Take, ApplyVolume, CommandFails
<1>11. ASSUME NEW b \in Pages, NEW p \in Players, Slide(b, p) \/ SetMute(b, p)
       PROVE  PagesInv'
  BY <1>8, <1>11 DEF Slide, SetMute
<1>12. ASSUME NEW b \in Pages, Restore(b)
       PROVE  PagesInv'
  BY <1>8, <1>12 DEF Restore
<1>13. CASE UNCHANGED vars
  BY <1>8, <1>13 DEF vars
<1>14. QED
  BY <1>1, <1>2, <1>3, <1>4, <1>5, <1>6, <1>7, <1>9, <1>10, <1>11, <1>12, <1>13 DEF Next

(* So they are in order for ever. *)
LEMMA PagesStayOk == Spec => []PagesInv
<1>1. Init => PagesInv
  <2>1. SUFFICES ASSUME Init PROVE PagesInv
    OBVIOUS
  <2>2. PICK now : page = [b \in Pages |-> Loaded(now)]
    BY <2>1 DEF Init
  <2>3. QED
    BY <2>2, LoadedOk DEF PagesInv
<1>2. PagesInv /\ [Next]_vars => PagesInv'
  BY PagesInvPreserved
<1>3. QED
  BY <1>1, <1>2, PTL DEF Spec

(* No fan-out rebuilds a tab under an open overlay: its page has the flag  *)
(* set, or an overlay was opened before an earlier one was over.           *)
THEOREM FlagCoversOverlays == Spec => []OverlaysAreFlagged
<1>1. PagesInv => OverlaysAreFlagged
  BY DEF PagesInv, PageOk, FlagInv, OverlaysAreFlagged
<1>2. QED
  BY <1>1, PagesStayOk, PTL

(* No change that was announced to a registered page is lost: the tab was  *)
(* rebuilt, or is deferred until the flag is cleared.                      *)
THEOREM NoChangeIsLost == Spec => []ChangesAreRemembered
<1>1. PagesInv => ChangesAreRemembered
  BY DEF PagesInv, PageOk, RememberInv, ChangesAreRemembered
<1>2. QED
  BY <1>1, PagesStayOk, PTL
-----------------------------------------------------------------------------
(* The last volume.  What the files, the copies of them and the dicts hold. *)
Files == [Players -> Levels \cup {None}]

OnFile == {p \in Players : dal[p] # None}
Held(f) == {p \in Players : f[p] \in Levels}

Notices == [kind : {"status", "stream"}, player : {None}]
           \cup [kind : {"gone", "echo"}, player : Players]
Commands == [kind : {"volume"}, player : Players, percent : Levels, muted : BOOLEAN]
            \cup [kind : {"mute"}, player : Players, percent : {None}, muted : BOOLEAN]

Applying == {"device", "file", "list", "post"}
Loading == {"seed", "file", "list", "post"}

HostShape ==
  /\ dev \in [Players -> Levels] /\ dal \in Files /\ muted \in [Players -> BOOLEAN]
  /\ ref # None => ref \in Files
  /\ last \in [Players -> [percent : Levels, muted : BOOLEAN]]

CacheShape ==
  /\ online \subseteq Players /\ cached \subseteq Players
  /\ wire \in Seq(Notices)
  /\ volumes \in Seq(Volumes) /\ volumes # <<>>

ReaderShape ==
  /\ reader \in [stage : Loading \cup {"idle", "load", "get", "store"},
                 player : Players \cup {None}, percent : Levels \cup {None},
                 all : Files \cup {None}, seen : Files \cup {None},
                 todo : SUBSET Players, behind : Nat]
  /\ reader.stage \in {"file", "list", "post", "get", "store"} => reader.player \in Players
  /\ reader.stage \in {"file", "list", "post"} => reader.percent \in Levels
  /\ reader.stage \in Loading => reader.seen \in Files
  /\ reader.stage = "post" => reader.all \in Files

WorkerShape ==
  /\ queue \in Seq(Commands)
  /\ worker \in [stage : Applying \cup {"idle", "side"}, player : Players \cup {None},
                 percent : Levels \cup {None}, muted : BOOLEAN, all : Files \cup {None}]
  /\ worker.stage # "idle" => worker.player \in Players
  /\ worker.stage \in Applying => worker.percent \in Levels
  /\ worker.stage = "post" => worker.all \in Files

PostShape ==
  /\ posts \in Seq([tabs : SUBSET Tabs, all : Files \cup {None}])
  /\ \A i \in 1 .. Len(posts) : posts[i].all # None => posts[i].all \in Files
  /\ restore \in [page : Pages \cup {None}, todo : SUBSET Players,
                  at : Players \cup {None}, balance : Files \cup {None}]
  /\ \A p \in restore.todo : restore.balance[p] \in Levels

Shape == HostShape /\ CacheShape /\ ReaderShape /\ WorkerShape /\ PostShape

(* Nothing holds a volume of a player that has none on file, and so nobody *)
(* can set one, until the reader seeds it.                                 *)
TracedDicts(K) == \A i \in 1 .. Len(volumes) : Held(volumes[i]) \subseteq K
TracedReader(K) ==
  /\ reader.stage \in Loading => Held(reader.seen) \subseteq K
  /\ reader.stage = "post" => Held(reader.all) \subseteq K
  /\ reader.stage \in {"list", "post"} => reader.player \in K
  /\ reader.stage = "store" /\ reader.percent # None => reader.player \in K
TracedWorker(K) ==
  /\ \A i \in 1 .. Len(queue) : queue[i].kind = "volume" => queue[i].player \in K
  /\ worker.stage # "idle" /\ worker.percent # None => worker.player \in K
  /\ worker.stage = "post" => Held(worker.all) \subseteq K
TracedPosts(K) ==
  /\ \A i \in 1 .. Len(posts) : posts[i].all # None => Held(posts[i].all) \subseteq K
  /\ ref # None => Held(ref) \subseteq K
  /\ restore.todo \subseteq K
Traced(K) == TracedDicts(K) /\ TracedReader(K) /\ TracedWorker(K) /\ TracedPosts(K)

Shows(r, K) == r.shown.players.known \subseteq K
Shown(K) == \A b \in Pages : Shows(page[b], K)

Seeding ==
  /\ reader.todo \cap OnFile = {}
  /\ reader.stage = "file" =>
       /\ reader.player \notin OnFile \cup reader.todo
       /\ reader.percent = dev[reader.player]

(* The last volume of a player is that of its last command in the queue; or *)
(* of the one that is applied, as far as it has come; or is in place.       *)
VolumeAt(p, i) == queue[i].kind = "volume" /\ queue[i].player = p
Sliding(p) == worker.stage # "idle" /\ worker.player = p /\ worker.percent # None

LastVolume(p) ==
  /\ \A i \in 1 .. Len(queue) :
       VolumeAt(p, i) /\ (\A j \in 1 .. Len(queue) : VolumeAt(p, j) => j <= i)
         => queue[i].percent = last[p].percent
  /\ (\A i \in 1 .. Len(queue) : ~ VolumeAt(p, i)) =>
       /\ Sliding(p) => worker.percent = last[p].percent
       /\ (Sliding(p) /\ worker.stage = "device") \/ dev[p] = last[p].percent
       /\ \/ Sliding(p) /\ worker.stage \in {"device", "file"}
          \/ dal[p] \in {None, last[p].percent}

(* Its mute, which both kinds of command set last of all. *)
LastMute(p) ==
  /\ \A i \in 1 .. Len(queue) :
       queue[i].player = p /\ (\A j \in 1 .. Len(queue) : queue[j].player = p => j <= i)
         => queue[i].muted = last[p].muted
  /\ (\A i \in 1 .. Len(queue) : queue[i].player # p) =>
       IF worker.stage # "idle" /\ worker.player = p THEN worker.muted = last[p].muted
       ELSE muted[p] = last[p].muted

LastInv == \A p \in Players \ failed : LastVolume(p) /\ LastMute(p)

IInv == Shape /\ Traced(OnFile) /\ Shown(OnFile) /\ Seeding /\ LastInv

-----------------------------------------------------------------------------
(* Facts about sequences and records. *)
LEMMA Appended ==
  ASSUME NEW S, NEW s \in Seq(S), NEW e \in S
  PROVE  /\ Append(s, e) \in Seq(S) /\ Len(Append(s, e)) = Len(s) + 1 /\ Len(s) \in Nat
         /\ \A i \in 1 .. Len(s) : Append(s, e)[i] = s[i]
         /\ Append(s, e)[Len(s) + 1] = e
         /\ Append(s, e) # <<>>
OBVIOUS

(* The rest of a queue. *)
LEMMA Tailed ==
  ASSUME NEW S, NEW s \in Seq(S), s # <<>>
  PROVE  /\ Tail(s) \in Seq(S) /\ Len(Tail(s)) = Len(s) - 1 /\ Len(s) \in Nat \ {0}
         /\ \A i \in 1 .. Len(s) - 1 : Tail(s)[i] = s[i + 1]
         /\ Head(s) = s[1] /\ Head(s) \in S
OBVIOUS

(* The last element replaced. *)
LEMMA LastReplaced ==
  ASSUME NEW S, NEW s \in Seq(S), s # <<>>, NEW e \in S, NEW n,
         n = [s EXCEPT ![Len(s)] = e]
  PROVE  /\ n \in Seq(S) /\ n # <<>> /\ Len(n) = Len(s) /\ Len(s) \in 1 .. Len(s)
         /\ \A i \in 1 .. Len(s) : n[i] = IF i = Len(s) THEN e ELSE s[i]
<1>1. Len(s) \in 1 .. Len(s)
  OBVIOUS
<1>2. QED
  BY <1>1, ExceptSeq

(* The players on file are those the files hold a volume of. *)
LEMMA HeldFiles ==
  ASSUME HostShape
  PROVE  /\ Held(dal) = OnFile
         /\ \A p \in Players : dal[p] \in Levels <=> p \in OnFile
BY VolumeAssumption DEF HostShape, Files, Held, OnFile

-----------------------------------------------------------------------------
(* Sliders that are live, on a page and on all of them. *)
IsRecord(r) == r = [f \in Fields |-> r[f]]
Showing(r, K) == IsRecord(r) /\ Shows(r, K)

(* A rebuild of tabs that show players on file. *)
LEMMA RebuildShows ==
  ASSUME NEW r, NEW K, Showing(r, K), NEW tabs, NEW now, now.players.known \subseteq K
  PROVE  Showing(Rebuild(r, tabs, now), K)
<1> DEFINE n == Rebuild(r, tabs, now)
<1>1. IsRecord(n) /\ n.shown = [t \in Tabs |-> IF t \in tabs THEN now[t] ELSE r.shown[t]]
  BY DEF Showing, IsRecord, Fields, Rebuild
<1> HIDE DEF n
<1>2. n.shown.players \in {now.players, r.shown.players}
  BY <1>1 DEF Tabs
<1>3. QED
  BY <1>1, <1>2 DEF Showing, Shows, n

(* A dialog that closes. *)
LEMMA CloseShows ==
  ASSUME NEW r, NEW K, Showing(r, K), NEW now, now.players.known \subseteq K
  PROVE  Showing(CloseDialog(r, now), K)
<1> DEFINE m == [r EXCEPT !.flag = FALSE, !.deferred = {}]
<1>1. Showing(m, K)
  BY DEF Showing, Shows, IsRecord, Fields
<1> HIDE DEF m
<1>2. QED
  BY <1>1, RebuildShows DEF CloseDialog, m

(* Overlays, flags and handlers do not matter. *)
LEMMA OthersShow ==
  ASSUME NEW r, NEW K, Showing(r, K), NEW v, NEW w, NEW x
  PROVE  /\ Showing([r EXCEPT !.late = v], K)
         /\ Showing([r EXCEPT !.open = v, !.closing = w], K)
         /\ Showing([r EXCEPT !.flag = v, !.open = w, !.mixed = x], K)
         /\ Showing([r EXCEPT !.connected = v], K)
         /\ Showing([r EXCEPT !.registered = v], K)
         /\ Showing([r EXCEPT !.connected = v, !.registered = w], K)
         /\ Showing([r EXCEPT !.stale = v], K)
         /\ Showing([r EXCEPT !.deferred = v], K)
BY DEF Showing, Shows, IsRecord, Fields

(* A fan-out that reaches a page. *)
LEMMA NotifiedShows ==
  ASSUME NEW r, NEW K, Showing(r, K), NEW tabs, NEW now, now.players.known \subseteq K
  PROVE  Showing(Notified(r, tabs, now), K)
<1> DEFINE c == [r EXCEPT !.stale = @ \cup tabs]
<1>1. Showing(c, K)
  BY OthersShow
<1> HIDE DEF c
<1>2. /\ Showing([c EXCEPT !.registered = FALSE], K)
      /\ Showing([c EXCEPT !.deferred = @ \cup tabs], K)
      /\ Showing(Rebuild(c, tabs, now), K)
  BY <1>1, OthersShow, RebuildShows
<1>3. QED
  BY <1>1, <1>2 DEF Notified, c

(* An overlay that closes. *)
LEMMA LeaveShows ==
  ASSUME NEW r, NEW K, Showing(r, K), NEW o, NEW now, now.players.known \subseteq K
  PROVE  Showing(Leave(r, o, now), K) /\ Showing(CloseDialog(Shut(r, o), now), K)
<1> DEFINE n == [r EXCEPT !.open = @ \ {o}, !.closing = @ \cup {o}]
<1>1. Showing(n, K) /\ Showing(Shut(r, o), K)
  BY OthersShow DEF Shut
<1> HIDE DEF n
<1>2. QED
  BY <1>1, CloseShows DEF Leave, n

(* A handler that ends. *)
LEMMA ResumedShows ==
  ASSUME NEW r, NEW K, Showing(r, K), NEW h, NEW now, now.players.known \subseteq K
  PROVE  Showing(Resumed(r, h, now), K)
<1> DEFINE d == [r EXCEPT !.late = @ \ {h}]
<1>1. Showing(d, K)
  BY OthersShow
<1> HIDE DEF d
<1>2. /\ Showing(Rebuild(d, {"sources"}, now), K)
      /\ Showing(Rebuild(d, {"players"}, now), K)
      /\ Showing(Rebuild(CloseDialog(d, now), {"players"}, now), K)
  BY <1>1, RebuildShows, CloseShows
<1>3. QED
  BY <1>2 DEF Resumed, d

(* All pages, when one of them changes, and when all are notified. *)
Sound(K) == page = [b \in Pages |-> page[b]] /\ \A b \in Pages : Showing(page[b], K)

(* When one page changes, the others go on showing what they did.          *)
LEMMA WithShows ==
  ASSUME NEW K, Sound(K), NEW b, NEW r, With(b, r), b \in Pages => Showing(r, K)
  PROVE  \A c \in Pages : Shows(page'[c], K)
<1>1. \A c \in Pages : page'[c] = IF c = b THEN r ELSE page[c]
  BY DEF With, Sound
<1>2. QED
  BY <1>1 DEF Sound, Showing

(* A fan-out. *)
LEMMA FanOutShows ==
  ASSUME NEW K, Sound(K), NEW tabs, NEW now, FanOut(tabs, now), now.players.known \subseteq K
  PROVE  \A c \in Pages : Shows(page'[c], K)
<1>1. \A c \in Pages : page'[c] = Notified(page[c], tabs, now)
  BY DEF FanOut
<1>2. QED
  BY <1>1, NotifiedShows DEF Sound, Showing

(* What a user does on the screen. *)
LEMMA ScreenShows ==
  ASSUME NEW K, Sound(K), NEW b \in Pages, NEW now, now.players.known \subseteq K,
         Screen(b, now)
  PROVE  \A c \in Pages : Shows(page'[c], K)
<1> DEFINE r == page[b]
<1>0. Showing(r, K)
  BY DEF Sound
<1>1. ASSUME NEW o \in Overlays, Open(b, o)
      PROVE  \A c \in Pages : Shows(page'[c], K)
  BY <1>0, <1>1, OthersShow, WithShows DEF Open
<1>2. ASSUME NEW o \in Overlays, Dismiss(b, o, now)
      PROVE  \A c \in Pages : Shows(page'[c], K)
  <2>1. Showing(CloseDialog(Shut(r, o), now), K)
    BY <1>0, LeaveShows
  <2>2. Showing(Rebuild(CloseDialog(Shut(r, o), now), {"sources"}, now), K)
    BY <2>1, RebuildShows
  <2>3. QED
    BY <1>2, <2>1, <2>2, WithShows DEF Dismiss
<1>3. CASE Cancel(b, now)
  BY <1>0, <1>3, LeaveShows, WithShows DEF Cancel
<1>4. CASE Pick(b, now)
  <2>1. Showing(Leave(r, "menu", now), K)
    BY <1>0, LeaveShows
  <2>2. Showing([Leave(r, "menu", now) EXCEPT !.late = @ \cup {"move"}], K)
    BY <2>1, OthersShow
  <2>3. QED
    BY <1>4, <2>2, WithShows DEF Pick
<1>5. CASE Save(b)
  BY <1>0, <1>5, OthersShow, WithShows DEF Save
<1>6. CASE Confirm(b, now)
  <2>1. Showing(CloseDialog(Shut(r, "disable"), now), K)
    BY <1>0, LeaveShows
  <2>2. Showing([CloseDialog(Shut(r, "disable"), now) EXCEPT !.late = @ \cup {"toggle"}], K)
    BY <2>1, OthersShow
  <2>3. QED
    BY <1>6, <2>2, WithShows DEF Confirm
<1>7. ASSUME NEW h \in Handlers, Resume(b, h, now)
      PROVE  \A c \in Pages : Shows(page'[c], K)
  <2>1. Showing(Resumed(r, h, now), K) /\ Showing([r EXCEPT !.late = @ \ {h}], K)
    BY <1>0, ResumedShows, OthersShow
  <2>2. QED
    BY <1>7, <2>1, WithShows DEF Resume
<1>8. QED
  BY <1>1, <1>2, <1>3, <1>4, <1>5, <1>6, <1>7 DEF Screen

(* What a tab shows, of players that are on file. *)
LEMMA RenderingShows ==
  ASSUME NEW K, NEW players, players \subseteq Players, NEW dicts \in Seq(Volumes),
         dicts # <<>>, \A i \in 1 .. Len(dicts) : Held(dicts[i]) \subseteq K,
         NEW balance, NEW early
  PROVE  Rendering(players, dicts, balance, early).players.known \subseteq K
<1>1. Len(dicts) \in 1 .. Len(dicts)
  OBVIOUS
<1>2. Held(dicts[Len(dicts)]) \subseteq K
  BY <1>1
<1>3. Rendering(players, dicts, balance, early).players.known
        = {p \in players : dicts[Len(dicts)][p] \in Levels}
  BY DEF Rendering
<1>4. QED
  BY <1>2, <1>3 DEF Held

(* The pages as they are. *)
LEMMA PagesAreSound ==
  ASSUME IInv, PagesInv
  PROVE  Sound(OnFile)
BY DEF IInv, PagesInv, PageOk, IsPage, Sound, Showing, Shown, IsRecord

-----------------------------------------------------------------------------
(* What a step does not touch. *)
LEMMA Framed ==
  ASSUME IInv
  PROVE  /\ UNCHANGED <<dev, dal, muted, ref, last>> => HostShape'
         /\ UNCHANGED <<online, cached, wire, volumes>> => CacheShape'
         /\ UNCHANGED reader => ReaderShape'
         /\ UNCHANGED <<queue, worker>> => WorkerShape'
         /\ UNCHANGED <<posts, restore>> => PostShape'
         /\ UNCHANGED <<volumes, dal>> => TracedDicts(OnFile)'
         /\ UNCHANGED <<reader, dal>> => TracedReader(OnFile)'
         /\ UNCHANGED <<queue, worker, dal>> => TracedWorker(OnFile)'
         /\ UNCHANGED <<posts, ref, restore, dal>> => TracedPosts(OnFile)'
         /\ UNCHANGED <<page, dal>> => Shown(OnFile)'
         /\ UNCHANGED <<reader, dal, dev>> => Seeding'
         /\ UNCHANGED dal => OnFile' = OnFile
<1> USE DEF IInv, Shape, Traced
<1>1. UNCHANGED dal => OnFile' = OnFile
  BY DEF OnFile
<1>2. UNCHANGED <<dev, dal, muted, ref, last>> => HostShape'
  BY DEF HostShape
<1>3. UNCHANGED <<online, cached, wire, volumes>> => CacheShape'
  BY DEF CacheShape
<1>4. UNCHANGED reader => ReaderShape'
  BY DEF ReaderShape
<1>5. UNCHANGED <<queue, worker>> => WorkerShape'
  BY DEF WorkerShape
<1>6. UNCHANGED <<posts, restore>> => PostShape'
  BY DEF PostShape
<1>7. UNCHANGED <<volumes, dal>> => TracedDicts(OnFile)'
  BY <1>1 DEF TracedDicts
<1>8. UNCHANGED <<reader, dal>> => TracedReader(OnFile)'
  BY <1>1 DEF TracedReader
<1>9. UNCHANGED <<queue, worker, dal>> => TracedWorker(OnFile)'
  BY <1>1 DEF TracedWorker
<1>10. UNCHANGED <<posts, ref, restore, dal>> => TracedPosts(OnFile)'
  BY <1>1 DEF TracedPosts
<1>11. UNCHANGED <<page, dal>> => Shown(OnFile)'
  BY <1>1 DEF Shown, Shows
<1>12. UNCHANGED <<reader, dal, dev>> => Seeding'
  BY <1>1 DEF Seeding
<1>13. QED
  BY <1>1, <1>2, <1>3, <1>4, <1>5, <1>6, <1>7, <1>8, <1>9, <1>10, <1>11, <1>12

(* Nor what was last submitted. *)
LEMMA LastStays ==
  ASSUME LastInv, UNCHANGED <<queue, worker, dev, dal, muted, last>>,
         failed \subseteq failed'
  PROVE  LastInv'
BY DEF LastInv, LastVolume, LastMute, VolumeAt, Sliding

(* The copies of what is on file, when more is. *)
LEMMA FilesGrow ==
  ASSUME IInv, OnFile \subseteq OnFile'
  PROVE  /\ UNCHANGED volumes => TracedDicts(OnFile)'
         /\ UNCHANGED reader => TracedReader(OnFile)'
         /\ UNCHANGED <<queue, worker>> => TracedWorker(OnFile)'
         /\ UNCHANGED <<posts, ref, restore>> => TracedPosts(OnFile)'
         /\ UNCHANGED page => Shown(OnFile)'
<1>1. UNCHANGED volumes => TracedDicts(OnFile)'
  BY DEF IInv, Traced, TracedDicts
<1>2. UNCHANGED reader => TracedReader(OnFile)'
  BY DEF IInv, Traced, TracedReader
<1>3. UNCHANGED <<queue, worker>> => TracedWorker(OnFile)'
  BY DEF IInv, Traced, TracedWorker
<1>4. UNCHANGED <<posts, ref, restore>> => TracedPosts(OnFile)'
  BY DEF IInv, Traced, TracedPosts
<1>5. UNCHANGED page => Shown(OnFile)'
  BY DEF IInv, Shown, Shows
<1>6. QED
  BY <1>1, <1>2, <1>3, <1>4, <1>5

-----------------------------------------------------------------------------
(* Snapserver. *)
LEMMA ServerChangeKeeps ==
  ASSUME IInv, ServerChange
  PROVE  IInv'
<1>1. \E n \in Notices : wire' = Append(wire, n)
  <2>1. ASSUME NEW p \in Players
        PROVE  [kind |-> "gone", player |-> p] \in Notices
    BY DEF Notices
  <2>2. [kind |-> "status", player |-> None] \in Notices
        /\ [kind |-> "stream", player |-> None] \in Notices
    BY DEF Notices
  <2>3. online \subseteq Players
    BY DEF IInv, Shape, CacheShape
  <2>4. QED
    BY <2>1, <2>2, <2>3 DEF ServerChange, Notify
<1>2. wire' \in Seq(Notices)
  BY <1>1, Appended DEF IInv, Shape, CacheShape
<1>3. CacheShape'
  BY <1>2 DEF IInv, Shape, CacheShape, ServerChange, snapserver, cache
<1>4. QED
  BY <1>3, Framed, LastStays
  DEF IInv, Shape, Traced, ServerChange, host, cache, bounds

(* The reader, when it neither reads nor writes what commands are about. *)
LEMMA ReaderStep ==
  ASSUME IInv, UNCHANGED <<rest, posts, failed>>,
         CacheShape', ReaderShape', TracedDicts(OnFile), TracedDicts(OnFile)',
         TracedReader(OnFile)', Seeding'
  PROVE  IInv'
BY Framed, LastStays DEF IInv, Shape, Traced, rest, host

(* A dict in which one value is replaced. *)
LEMMA PutKeeps ==
  ASSUME IInv, NEW p, NEW v \in Levels \cup {None, Absent}, Put(p, v), UNCHANGED dal,
         v \in Levels => p \in OnFile
  PROVE  volumes' \in Seq(Volumes) /\ volumes' # <<>> /\ TracedDicts(OnFile)'
<1> DEFINE n == Len(volumes)
           e == [volumes[n] EXCEPT ![p] = v]
<1>1. volumes \in Seq(Volumes) /\ volumes # <<>> /\ n \in 1 .. n
  BY DEF IInv, Shape, CacheShape
<1>2. volumes' = [volumes EXCEPT ![n] = e]
  BY DEF Put
<1>3. volumes[n] \in Volumes
  BY <1>1
<1>4. e \in Volumes /\ Held(e) \subseteq Held(volumes[n]) \cup {q \in {p} : v \in Levels}
  BY <1>3 DEF Volumes, Held
<1> HIDE DEF e
<1>5. /\ volumes' \in Seq(Volumes) /\ volumes' # <<>> /\ Len(volumes') = n
      /\ \A i \in 1 .. n : volumes'[i] = IF i = n THEN e ELSE volumes[i]
  BY <1>1, <1>2, <1>4, LastReplaced
<1>6. OnFile' = OnFile /\ Held(e) \subseteq OnFile
  BY <1>1, <1>4, Framed DEF IInv, Traced, TracedDicts
<1>7. QED
  BY <1>5, <1>6 DEF IInv, Traced, TracedDicts

(* A notification. *)
LEMMA ReadNotificationKeeps ==
  ASSUME IInv, ReadNotification
  PROVE  IInv'
<1> DEFINE n == Head(wire)
<1>1. wire \in Seq(Notices) /\ wire # <<>> /\ wire' = Tail(wire)
  BY DEF IInv, Shape, CacheShape, ReadNotification
<1>2. wire' \in Seq(Notices) /\ n \in Notices
  BY <1>1, Tailed
<1>3. UNCHANGED <<rest, posts, failed, dal, online>>
  BY DEF ReadNotification, rest, bounds, host, snapserver
<1>4. online \subseteq Players /\ cached \subseteq Players /\ ReaderShape
  BY DEF IInv, Shape, CacheShape
<1> HIDE DEF n
<1>5. CASE n.kind = "status"
  <2>1. /\ cached' = online /\ UNCHANGED volumes
        /\ reader' = [AtRest EXCEPT !.stage = "load"]
    BY <1>5 DEF ReadNotification, n
  <2>2. ReaderShape' /\ TracedReader(OnFile)' /\ Seeding'
    BY <2>1 DEF AtRest, ReaderShape, TracedReader, Seeding, Loading
  <2>3. CacheShape'
    BY <1>2, <1>3, <1>4, <2>1 DEF CacheShape, IInv, Shape
  <2>4. QED
    BY <1>3, <2>1, <2>2, <2>3, Framed, ReaderStep DEF IInv, Traced
<1>6. CASE n.kind = "gone"
  <2>1. /\ cached' = cached \ {n.player} /\ Put(n.player, Absent) /\ reader' = AtRest
    BY <1>6 DEF ReadNotification, n, Idle
  <2>2. ReaderShape' /\ TracedReader(OnFile)' /\ Seeding'
    BY <2>1 DEF AtRest, ReaderShape, TracedReader, Seeding, Loading
  <2>3. volumes' \in Seq(Volumes) /\ volumes' # <<>> /\ TracedDicts(OnFile)'
    BY <1>3, <2>1, PutKeeps, VolumeAssumption
  <2>4. CacheShape'
    BY <1>2, <1>3, <1>4, <2>1, <2>3 DEF CacheShape
  <2>5. QED
    BY <1>3, <2>2, <2>3, <2>4, ReaderStep DEF IInv, Traced
<1>7. CASE n.kind = "stream"
  <2>1. UNCHANGED <<cached, volumes>> /\ reader' = AtRest
    BY <1>7 DEF ReadNotification, n, Idle
  <2>2. ReaderShape' /\ TracedReader(OnFile)' /\ Seeding'
    BY <2>1 DEF AtRest, ReaderShape, TracedReader, Seeding, Loading
  <2>3. CacheShape'
    BY <1>2, <1>3, <1>4, <2>1 DEF CacheShape, IInv, Shape
  <2>4. QED
    BY <1>3, <2>1, <2>2, <2>3, Framed, ReaderStep DEF IInv, Traced
<1>8. CASE n.kind = "echo"
  <2>1. /\ UNCHANGED <<cached, volumes>>
        /\ reader' = [AtRest EXCEPT !.stage = "get", !.player = n.player]
    BY <1>8 DEF ReadNotification, n, cache
  <2>2. n.player \in Players
    BY <1>2, <1>8 DEF Notices
  <2>3. ReaderShape' /\ TracedReader(OnFile)' /\ Seeding'
    BY <2>1, <2>2 DEF AtRest, ReaderShape, TracedReader, Seeding, Loading
  <2>4. CacheShape'
    BY <1>2, <1>3, <1>4, <2>1 DEF CacheShape, IInv, Shape
  <2>5. QED
    BY <1>3, <2>1, <2>3, <2>4, Framed, ReaderStep DEF IInv, Traced
<1>9. QED
  BY <1>2, <1>5, <1>6, <1>7, <1>8 DEF Notices

(* The reader alone moves: it fetches, or seeds the next. *)
LEMMA ReaderMoves ==
  ASSUME IInv, UNCHANGED <<rest, wire, cache, posts, failed>>,
         ReaderShape', TracedReader(OnFile)', Seeding'
  PROVE  IInv'
<1>1. UNCHANGED <<dal, online, cached, wire, volumes>>
  BY DEF rest, cache, host, snapserver
<1>2. CacheShape' /\ TracedDicts(OnFile)' /\ TracedDicts(OnFile)
  BY <1>1, Framed DEF IInv, Traced
<1>3. QED
  BY <1>2, ReaderStep

(* The files are read, all of them or one. *)
LEMMA FilesAreLoaded ==
  ASSUME IInv, LoadFiles \/ GetFile
  PROVE  IInv'
<1>1. /\ HostShape /\ ReaderShape /\ cached \subseteq Players /\ Len(posts) \in Nat
      /\ Held(dal) = OnFile /\ \A p \in Players : dal[p] \in Levels <=> p \in OnFile
  BY HeldFiles DEF IInv, Shape, CacheShape, PostShape
<1>2. /\ UNCHANGED <<rest, wire, cache, posts, failed, dal, dev>>
      /\ OnFile' = OnFile
  BY Framed DEF LoadFiles, GetFile, bounds, rest, host
<1>3. CASE LoadFiles
  <2> DEFINE missing == {p \in cached : dal[p] = None}
  <2>1. missing \subseteq Players /\ missing \cap OnFile = {}
    BY <1>1 DEF OnFile
  <2>2. reader' = [reader EXCEPT !.stage = "seed", !.seen = dal, !.behind = Len(posts),
                                 !.todo = missing]
    BY <1>3 DEF LoadFiles
  <2> HIDE DEF missing
  <2>3. reader'.stage = "seed" /\ reader'.seen = dal /\ reader'.todo = missing
    BY <1>1, <2>2 DEF ReaderShape
  <2>4. ReaderShape'
    <3>1. dal \in Files
      BY <1>1 DEF HostShape
    <3>2. QED
      BY <1>1, <2>1, <2>2, <2>3, <3>1 DEF ReaderShape, Loading
  <2>5. TracedReader(OnFile)' /\ Seeding'
    BY <1>1, <1>2, <2>1, <2>3 DEF TracedReader, Seeding
  <2>6. QED
    BY <1>2, <2>4, <2>5, ReaderMoves
<1>4. CASE GetFile
  <2> DEFINE v == dal[reader.player]
  <2>1. reader' = [reader EXCEPT !.stage = "store", !.percent = v, !.behind = Len(posts)]
        /\ reader.stage = "get"
    BY <1>4 DEF GetFile
  <2>2. reader.player \in Players /\ v \in Levels \cup {None}
        /\ (v # None => reader.player \in OnFile)
    BY <1>1, <2>1 DEF ReaderShape, HostShape, Files, OnFile
  <2> HIDE DEF v
  <2>3. /\ reader'.stage = "store" /\ reader'.percent = v /\ reader'.player = reader.player
        /\ reader'.todo = reader.todo
    BY <1>1, <2>1 DEF ReaderShape
  <2>4. ReaderShape'
    BY <1>1, <2>1, <2>2, <2>3 DEF ReaderShape, Loading
  <2>5. TracedReader(OnFile)' /\ Seeding'
    BY <1>2, <2>2, <2>3 DEF TracedReader, Seeding, IInv, Loading
  <2>6. QED
    BY <1>2, <2>4, <2>5, ReaderMoves
<1>5. QED
  BY <1>3, <1>4

(* A player that has no volume on file is asked for it. *)
LEMMA SeedOneKeeps ==
  ASSUME IInv, SeedOne
  PROVE  IInv'
<1>1. /\ HostShape /\ ReaderShape /\ Seeding /\ TracedReader(OnFile) /\ reader.stage = "seed"
  BY DEF IInv, Shape, Traced, SeedOne, Resumes
<1>2. /\ UNCHANGED <<rest, wire, cache, posts, failed, dal, dev>>
      /\ OnFile' = OnFile
  BY Framed DEF SeedOne, bounds, Upset, rest, host
<1>3. PICK p \in reader.todo :
        \/ reader' = [reader EXCEPT !.stage = "file", !.player = p, !.percent = dev[p],
                                    !.todo = @ \ {p}]
        \/ reader' = [reader EXCEPT !.todo = @ \ {p}]
  BY DEF SeedOne
<1>4. p \in Players /\ p \notin OnFile /\ dev[p] \in Levels
  BY <1>1 DEF ReaderShape, Seeding, HostShape
<1>5. CASE reader' = [reader EXCEPT !.stage = "file", !.player = p, !.percent = dev[p],
                                    !.todo = @ \ {p}]
  <2> DEFINE v == dev[p]
  <2>1. /\ reader'.stage = "file" /\ reader'.player = p /\ reader'.percent = v
        /\ reader'.todo = reader.todo \ {p} /\ reader'.seen = reader.seen
    BY <1>1, <1>5 DEF ReaderShape
  <2>2. ReaderShape'
    <3>1. v \in Levels
      BY <1>4
    <3> HIDE DEF v
    <3>2. reader' = [reader EXCEPT !.stage = "file", !.player = p, !.percent = v,
                                   !.todo = @ \ {p}]
      BY <1>5 DEF v
    <3>3. QED
      BY <1>1, <1>4, <2>1, <3>1, <3>2 DEF ReaderShape, Loading
  <2>3. TracedReader(OnFile)' /\ Seeding'
    BY <1>1, <1>2, <1>4, <2>1 DEF TracedReader, Seeding, Loading
  <2>4. QED
    BY <1>2, <2>2, <2>3, ReaderMoves
<1>6. CASE reader' = [reader EXCEPT !.todo = @ \ {p}]
  <2>1. /\ reader'.stage = "seed" /\ reader'.todo = reader.todo \ {p}
        /\ reader'.seen = reader.seen
    BY <1>1, <1>6 DEF ReaderShape
  <2>2. ReaderShape'
    BY <1>1, <1>4, <1>6, <2>1 DEF ReaderShape, Loading
  <2>3. TracedReader(OnFile)' /\ Seeding'
    BY <1>1, <1>2, <2>1 DEF TracedReader, Seeding, Loading
  <2>4. QED
    BY <1>2, <2>2, <2>3, ReaderMoves
<1>7. QED
  BY <1>3, <1>5, <1>6

(* The new dict holds what the reader has seen of those on file. *)
LEMMA FinishLoadKeeps ==
  ASSUME IInv, FinishLoad
  PROVE  IInv'
<1> DEFINE e == Rebuilt(reader.seen)
<1>1. /\ ReaderShape /\ CacheShape /\ TracedReader(OnFile) /\ TracedDicts(OnFile)
      /\ reader.stage = "seed" /\ reader' = AtRest
      /\ volumes' = Append(volumes, e)
  BY DEF IInv, Shape, Traced, FinishLoad, Resumes, Idle
<1>2. /\ UNCHANGED <<rest, posts, failed, online, cached, wire>>
      /\ OnFile' = OnFile
  BY Framed DEF FinishLoad, bounds, rest, host, snapserver
<1>3. reader.seen \in Files /\ Held(reader.seen) \subseteq OnFile
  BY <1>1 DEF ReaderShape, TracedReader, Loading
<1>4. e \in Volumes /\ Held(e) \subseteq OnFile
  BY <1>3, VolumeAssumption DEF Rebuilt, Files, Volumes, Held
<1> HIDE DEF e
<1>5. /\ volumes' \in Seq(Volumes) /\ Len(volumes') = Len(volumes) + 1 /\ volumes' # <<>>
      /\ \A i \in 1 .. Len(volumes) : volumes'[i] = volumes[i]
      /\ volumes'[Len(volumes) + 1] = e /\ Len(volumes) \in Nat
  BY <1>1, <1>4, Appended DEF CacheShape
<1>6. TracedDicts(OnFile)'
  BY <1>1, <1>2, <1>4, <1>5 DEF TracedDicts
<1>7. CacheShape'
  BY <1>1, <1>2, <1>5 DEF CacheShape
<1>8. ReaderShape' /\ TracedReader(OnFile)' /\ Seeding'
  BY <1>1 DEF AtRest, ReaderShape, TracedReader, Seeding, Loading
<1>9. QED
  BY <1>1, <1>2, <1>6, <1>7, <1>8, ReaderStep

(* What was read of a file is of a player on file. *)
LEMMA StoreVolumeKeeps ==
  ASSUME IInv, StoreVolume
  PROVE  IInv'
<1>1. /\ ReaderShape /\ CacheShape /\ TracedReader(OnFile) /\ TracedDicts(OnFile)
      /\ reader.stage = "store" /\ reader' = AtRest
  BY DEF IInv, Shape, Traced, StoreVolume, Resumes, Idle
<1>2. UNCHANGED <<rest, posts, failed, online, cached, wire, dal>>
  BY DEF StoreVolume, bounds, rest, host, snapserver
<1>3. volumes' \in Seq(Volumes) /\ volumes' # <<>> /\ TracedDicts(OnFile)'
  <2>1. CASE UNCHANGED volumes
    BY <1>1, <1>2, <2>1, Framed DEF CacheShape
  <2>2. CASE reader.percent # None /\ Put(reader.player, reader.percent)
    <3>1. reader.percent \in Levels /\ reader.player \in OnFile
      BY <1>1, <2>2 DEF ReaderShape, TracedReader
    <3>2. QED
      BY <1>2, <2>2, <3>1, PutKeeps
  <2>3. QED
    BY <2>1, <2>2 DEF StoreVolume
<1>4. CacheShape'
  BY <1>1, <1>2, <1>3 DEF CacheShape
<1>5. ReaderShape' /\ TracedReader(OnFile)' /\ Seeding'
  BY <1>1 DEF AtRest, ReaderShape, TracedReader, Seeding, Loading
<1>6. QED
  BY <1>1, <1>2, <1>3, <1>4, <1>5, ReaderStep

(* A file that is written. *)
LEMMA Written ==
  ASSUME HostShape, NEW p \in Players, NEW v \in Levels, dal' = [dal EXCEPT ![p] = v]
  PROVE  /\ dal' \in Files /\ OnFile' = OnFile \cup {p} /\ dal'[p] = v
         /\ \A q \in Players \ {p} : dal'[q] = dal[q]
<1>1. dal' \in Files /\ dal'[p] = v /\ \A q \in Players \ {p} : dal'[q] = dal[q]
  BY DEF HostShape, Files
<1>2. QED
  BY <1>1, VolumeAssumption DEF OnFile

(* What an observer posts. *)
LEMMA Posted ==
  ASSUME IInv, NEW tabs \in SUBSET Tabs, NEW all \in Files \cup {None}, Post(tabs, all),
         all # None => all \in Files /\ Held(all) \subseteq OnFile,
         UNCHANGED ref \/ Held(ref') \subseteq OnFile, UNCHANGED <<dal, restore>>
  PROVE  PostShape' /\ TracedPosts(OnFile)' /\ Len(posts') \in Nat
<1> DEFINE e == [tabs |-> tabs, all |-> all]
           S == [tabs : SUBSET Tabs, all : Files \cup {None}]
<1>1. e \in S /\ e.all = all /\ posts' = Append(posts, e)
  BY DEF Post
<1>2. posts \in Seq(S) /\ PostShape /\ TracedPosts(OnFile) /\ OnFile' = OnFile
  BY Framed DEF IInv, Shape, PostShape, Traced
<1> HIDE DEF e
<1>3. /\ posts' \in Seq(S) /\ Len(posts') = Len(posts) + 1 /\ Len(posts) \in Nat
      /\ \A i \in 1 .. Len(posts) : posts'[i] = posts[i]
      /\ posts'[Len(posts) + 1] = e
  BY <1>1, <1>2, Appended
<1> HIDE DEF S
<1>4. \A i \in 1 .. Len(posts') : posts'[i].all # None =>
        posts'[i].all \in Files /\ Held(posts'[i].all) \subseteq OnFile
  BY <1>1, <1>2, <1>3 DEF PostShape, TracedPosts
<1>5. PostShape'
  BY <1>2, <1>3, <1>4 DEF PostShape, S
<1>6. TracedPosts(OnFile)'
  BY <1>2, <1>4 DEF TracedPosts
<1>7. QED
  BY <1>3, <1>5, <1>6

(* The seeding of a player's file, which nobody has submitted a volume for. *)
LEMMA SeedWriteKeeps ==
  ASSUME IInv, SeedFile, WriteFile(reader.player, reader.percent, reader, Seeded),
         reader.stage = "file", UNCHANGED posts
  PROVE  IInv'
<1> DEFINE q == reader.player
           v == reader.percent
<1>1. /\ HostShape /\ ReaderShape /\ WorkerShape /\ Seeding /\ LastInv
      /\ TracedReader(OnFile) /\ TracedWorker(OnFile)
  BY DEF IInv, Shape, Traced
<1>2. /\ UNCHANGED <<page, opened, dev, muted, ref, snapserver, wire, cache, queue, worker,
                     restore, last, posts, failed>>
      /\ dal' = [dal EXCEPT ![q] = v]
  BY DEF SeedFile, WriteFile, bounds
<1>3. /\ q \in Players /\ v \in Levels /\ q \notin OnFile /\ q \notin reader.todo
      /\ v = dev[q] /\ reader.seen \in Files
  BY <1>1 DEF ReaderShape, Seeding, Loading
<1>4. dal[q] # v
  BY <1>3, VolumeAssumption DEF OnFile
<1>5. reader' = [reader EXCEPT !.stage = "list"]
  BY <1>4 DEF WriteFile
<1> HIDE DEF q, v
<1>6. /\ dal' \in Files /\ OnFile' = OnFile \cup {q} /\ dal'[q] = v
      /\ \A p \in Players \ {q} : dal'[p] = dal[p]
  BY <1>1, <1>2, <1>3, Written
<1>7. /\ reader'.stage = "list" /\ reader'.seen = reader.seen /\ reader'.player = q
      /\ reader'.todo = reader.todo
  BY <1>1, <1>5 DEF ReaderShape, q
<1>8. ReaderShape'
  BY <1>1, <1>3, <1>5, <1>7 DEF ReaderShape, Loading, q, v
<1>9. TracedReader(OnFile)'
  BY <1>1, <1>6, <1>7 DEF TracedReader, Loading, q
<1>10. Seeding'
  BY <1>1, <1>3, <1>6, <1>7 DEF Seeding
<1>11. HostShape'
  BY <1>1, <1>2, <1>6 DEF HostShape
<1>12. LastInv'
  <2>1. SUFFICES ASSUME NEW p \in Players \ failed'
                 PROVE  LastVolume(p)' /\ LastMute(p)'
    BY DEF LastInv
  <2>2. LastVolume(p) /\ LastMute(p)
    BY <1>1, <1>2 DEF LastInv
  <2>3. LastMute(p)'
    BY <1>2, <2>2 DEF LastMute
  <2>4. CASE p # q
    BY <1>2, <1>6, <2>2, <2>3, <2>4 DEF LastVolume, VolumeAt, Sliding
  <2>5. CASE p = q
    <3>1. ~ Sliding(p) /\ \A i \in 1 .. Len(queue) : ~ VolumeAt(p, i)
      BY <1>1, <1>3, <2>5 DEF TracedWorker, VolumeAt, Sliding
    <3>2. dev[p] = last[p].percent
      BY <2>2, <3>1 DEF LastVolume
    <3>3. LastVolume(p)'
      BY <1>2, <1>3, <1>6, <2>5, <3>1, <3>2 DEF LastVolume, VolumeAt, Sliding
    <3>4. QED
      BY <2>3, <3>3
  <2>6. QED
    BY <2>3, <2>4, <2>5
<1>13. QED
  BY <1>2, <1>6, <1>8, <1>9, <1>10, <1>11, <1>12, Framed, FilesGrow
  DEF IInv, Shape, Traced, snapserver, cache

(* The reader's other steps in the seeding of a file. *)
LEMMA SeedFileKeeps ==
  ASSUME IInv, SeedFile
  PROVE  IInv'
<1>1. /\ HostShape /\ ReaderShape /\ CacheShape /\ PostShape /\ Seeding
      /\ TracedReader(OnFile) /\ TracedDicts(OnFile) /\ LastInv
      /\ Held(dal) = OnFile
  BY HeldFiles DEF IInv, Shape, Traced
<1>2. UNCHANGED <<page, opened, dev, muted, ref, snapserver, wire, cache, queue, worker,
                  restore, last>>
  BY DEF SeedFile
<1>3. CASE reader.stage = "file" /\ UNCHANGED <<dal, posts, failed>> /\ reader' = Unseeded
  <2>1. Len(posts') \in Nat /\ OnFile' = OnFile
    BY <1>1, <1>3, Framed DEF PostShape
  <2>2. /\ reader'.stage = "seed" /\ reader'.seen = reader.seen
        /\ reader'.todo = reader.todo
    BY <1>1, <1>3 DEF Unseeded, ReaderShape
  <2>3. ReaderShape'
    BY <1>1, <1>3, <2>1, <2>2 DEF Unseeded, ReaderShape, Loading
  <2>4. TracedReader(OnFile)' /\ Seeding'
    BY <1>1, <1>3, <2>1, <2>2 DEF TracedReader, Seeding, Loading
  <2>5. QED
    BY <1>2, <1>3, <2>3, <2>4, ReaderMoves DEF rest, host
<1>4. CASE ReadAll(reader) /\ UNCHANGED <<dal, posts, bounds>>
  <2>1. reader.stage = "list" /\ reader' = [reader EXCEPT !.stage = "post", !.all = dal]
    BY <1>4 DEF ReadAll
  <2>2. /\ reader'.stage = "post" /\ reader'.seen = reader.seen /\ reader'.all = dal
        /\ reader'.todo = reader.todo /\ reader'.player = reader.player
    BY <1>1, <2>1 DEF ReaderShape
  <2>3. dal \in Files /\ OnFile' = OnFile
    BY <1>1, <1>4, Framed DEF HostShape
  <2>4. ReaderShape'
    BY <1>1, <2>1, <2>2, <2>3 DEF ReaderShape, Loading
  <2>5. TracedReader(OnFile)' /\ Seeding'
    BY <1>1, <2>1, <2>2, <2>3 DEF TracedReader, Seeding, Loading
  <2>6. QED
    BY <1>2, <1>4, <2>4, <2>5, ReaderMoves DEF rest, host, bounds
<1>5. CASE PostAll(reader, Seeded) /\ UNCHANGED <<dal, bounds>>
  <2> DEFINE all == reader.all
             v == reader.percent
             q == reader.player
             s == [reader.seen EXCEPT ![q] = v]
  <2>1. reader.stage = "post" /\ Post({"settings"}, all) /\ reader' = Seeded
    BY <1>5 DEF PostAll
  <2>2. /\ all \in Files /\ Held(all) \subseteq OnFile /\ v \in Levels /\ q \in Players
        /\ q \in OnFile /\ reader.seen \in Files /\ Held(reader.seen) \subseteq OnFile
    BY <1>1, <2>1 DEF ReaderShape, TracedReader, Loading
  <2>3. s \in Files /\ Held(s) \subseteq OnFile
    BY <2>2 DEF Files, Held
  <2>4. reader' = [reader EXCEPT !.stage = "seed", !.player = None, !.percent = None,
                                 !.all = None, !.behind = Len(posts'), !.seen = s]
    BY <1>1, <2>1 DEF Seeded, Unseeded, ReaderShape
  <2> HIDE DEF all, s
  <2>5. PostShape' /\ TracedPosts(OnFile)' /\ Len(posts') \in Nat
    BY <1>2, <1>5, <2>1, <2>2, Posted DEF Tabs
  <2>6. /\ reader'.stage = "seed" /\ reader'.seen = s /\ reader'.todo = reader.todo
    BY <1>1, <2>4 DEF ReaderShape
  <2>7. ReaderShape'
    BY <1>1, <2>3, <2>4, <2>5, <2>6 DEF ReaderShape, Loading
  <2>8. OnFile' = OnFile
    BY <1>5, Framed
  <2>9. TracedReader(OnFile)' /\ Seeding'
    BY <1>1, <2>3, <2>6, <2>8 DEF TracedReader, Seeding, Loading
  <2>10. QED
    BY <1>2, <1>5, <2>5, <2>7, <2>9, Framed, LastStays
    DEF IInv, Shape, Traced, snapserver, cache, bounds
<1>6. QED
  BY <1>3, <1>4, <1>5, SeedWriteKeeps DEF SeedFile, bounds, Upset

-----------------------------------------------------------------------------
(* Commands.  One that is taken leaves the others as they are. *)
LEMMA TakeKeeps ==
  ASSUME IInv, Take
  PROVE  IInv'
<1> DEFINE c == Head(queue)
           n == Len(queue)
<1>1. /\ WorkerShape /\ TracedWorker(OnFile) /\ LastInv
      /\ worker.stage = "idle" /\ queue # <<>> /\ queue' = Tail(queue)
  BY DEF IInv, Shape, Traced, Take
<1>2. UNCHANGED <<page, opened, host, snapserver, wire, reader, cache, posts, restore,
                  bounds, last>>
  BY DEF Take
<1>3. UNCHANGED <<dev, dal, muted, ref, failed, last, OnFile>>
  BY <1>2 DEF host, bounds, OnFile
<1>4. /\ queue' \in Seq(Commands) /\ Len(queue') = n - 1 /\ n \in Nat \ {0}
      /\ \A i \in 1 .. n - 1 : queue'[i] = queue[i + 1]
      /\ c = queue[1] /\ c \in Commands
  BY <1>1, Tailed DEF WorkerShape
<1>5. \/ /\ worker' = [Resting EXCEPT !.stage = IF c.kind = "volume" THEN "device" ELSE "side",
                                      !.player = c.player, !.percent = c.percent,
                                      !.muted = c.muted]
      \/ c.kind = "volume" /\ Replaced /\ UNCHANGED worker
  BY DEF Take
<1> HIDE DEF c, n
<1>6. WorkerShape' /\ TracedWorker(OnFile)'
  <2>1. \A i \in 1 .. n - 1 : queue'[i].kind = "volume" => queue'[i].player \in OnFile
    BY <1>1, <1>4 DEF TracedWorker, n
  <2>2. CASE c.kind = "volume" /\ Replaced /\ UNCHANGED worker
    BY <1>1, <1>3, <1>4, <2>1, <2>2 DEF WorkerShape, TracedWorker
  <2>3. CASE c.kind = "volume" /\ worker' = [stage |-> "device", player |-> c.player,
               percent |-> c.percent, muted |-> c.muted, all |-> None]
    <3>1. c.player \in Players /\ c.percent \in Levels /\ c.muted \in BOOLEAN
      BY <1>4, <2>3 DEF Commands
    <3>2. c.player \in OnFile
      BY <1>1, <1>4, <2>3 DEF TracedWorker, n
    <3>3. QED
      BY <1>3, <1>4, <2>1, <2>3, <3>1, <3>2 DEF WorkerShape, TracedWorker, Applying
  <2>4. CASE c.kind = "mute" /\ worker' = [stage |-> "side", player |-> c.player,
               percent |-> c.percent, muted |-> c.muted, all |-> None]
    <3>1. c.player \in Players /\ c.percent = None /\ c.muted \in BOOLEAN
      BY <1>4, <2>4 DEF Commands
    <3>2. QED
      BY <1>3, <1>4, <2>1, <2>4, <3>1 DEF WorkerShape, TracedWorker, Applying
  <2>5. QED
    BY <1>4, <1>5, <2>2, <2>3, <2>4 DEF Resting, Commands
<1>7. LastInv'
  <2>1. SUFFICES ASSUME NEW p \in Players \ failed'
                 PROVE  LastVolume(p)' /\ LastMute(p)'
    BY DEF LastInv
  <2>2. LastVolume(p) /\ LastMute(p)
    BY <1>1, <1>3 DEF LastInv
  <2>3. \A i \in 1 .. n - 1 : i + 1 \in 1 .. n
    BY <1>4
  <2>4. \A j \in 1 .. n : j = 1 \/ (j - 1 \in 1 .. n - 1 /\ queue'[j - 1] = queue[j])
    BY <1>4
  <2>5. ~ Sliding(p)
    BY <1>1 DEF Sliding
  <2>6. \A i \in 1 .. n - 1 : VolumeAt(p, i)' <=> VolumeAt(p, i + 1)
    BY <1>4 DEF VolumeAt
  <2>7. ASSUME NEW i \in 1 .. n - 1, VolumeAt(p, i)',
               \A j \in 1 .. n - 1 : VolumeAt(p, j)' => j <= i
        PROVE  queue'[i].percent = last[p].percent
    <3>1. VolumeAt(p, i + 1)
      BY <2>6, <2>7
    <3>2. ASSUME NEW j \in 1 .. n, VolumeAt(p, j)
          PROVE  j <= i + 1
      <4>1. CASE j = 1
        BY <4>1
      <4>2. CASE j # 1
        <5>1. j - 1 \in 1 .. n - 1 /\ (j - 1) + 1 = j
          BY <4>2, <1>4
        <5>2. VolumeAt(p, j - 1)'
          BY <3>2, <5>1, <2>6
        <5>3. j - 1 <= i
          BY <2>7, <5>1, <5>2
        <5>4. QED
          BY <5>3, <1>4
      <4>3. QED
        BY <4>1, <4>2
    <3>3. queue[i + 1].percent = last[p].percent
      BY <2>2, <2>3, <3>1, <3>2 DEF LastVolume, n
    <3>4. QED
      BY <1>4, <3>3
  <2>8. ASSUME NEW i \in 1 .. n - 1, queue'[i].player = p,
               \A j \in 1 .. n - 1 : queue'[j].player = p => j <= i
        PROVE  queue'[i].muted = last[p].muted
    <3>1. queue[i + 1].player = p
      BY <1>4, <2>8
    <3>2. ASSUME NEW j \in 1 .. n, queue[j].player = p
          PROVE  j <= i + 1
      <4>1. CASE j = 1
        BY <4>1
      <4>2. CASE j # 1
        <5>1. j - 1 \in 1 .. n - 1 /\ queue'[j - 1].player = p
          BY <4>2, <1>4, <2>4, <3>2
        <5>2. j - 1 <= i
          BY <2>8, <5>1
        <5>3. QED
          BY <5>2, <1>4
      <4>3. QED
        BY <4>1, <4>2
    <3>3. queue[i + 1].muted = last[p].muted
      BY <2>2, <2>3, <3>1, <3>2 DEF LastMute, n
    <3>4. QED
      BY <1>4, <3>3
  <2>9. ASSUME \A i \in 1 .. n - 1 : ~ VolumeAt(p, i)'
        PROVE  IF VolumeAt(p, 1) THEN c.percent = last[p].percent
               ELSE dev[p] = last[p].percent /\ dal[p] \in {None, last[p].percent}
    <3>1. \A j \in 1 .. n : VolumeAt(p, j) => j = 1
      <4>1. SUFFICES ASSUME NEW j \in 1 .. n, VolumeAt(p, j), j # 1 PROVE FALSE
        OBVIOUS
      <4>2. j - 1 \in 1 .. n - 1 /\ (j - 1) + 1 = j
        BY <4>1, <1>4
      <4>3. QED
        BY <4>1, <4>2, <2>6, <2>9
    <3>2. 1 \in 1 .. n
      BY <1>4
    <3>3. QED
      BY <1>4, <2>2, <2>5, <3>1, <3>2 DEF LastVolume, n
  <2>10. ASSUME \A i \in 1 .. n - 1 : queue'[i].player # p
         PROVE  IF c.player = p THEN c.muted = last[p].muted
                ELSE muted[p] = last[p].muted
    <3>1. \A j \in 1 .. n : queue[j].player = p => j = 1
      BY <1>4, <2>4, <2>10
    <3>2. 1 \in 1 .. n
      BY <1>4
    <3>3. QED
      BY <1>1, <1>4, <2>2, <3>1, <3>2 DEF LastMute, n
  <2>11. CASE c.kind = "volume" /\ Replaced /\ UNCHANGED worker
    <3>1. PICK i \in 2 .. n : queue[i].kind = "volume" /\ queue[i].player = c.player
      BY <2>11 DEF Replaced, n, c
    <3>2. i - 1 \in 1 .. n - 1 /\ queue'[i - 1] = queue[i]
      BY <1>4, <2>4, <3>1
    <3>3. ~ VolumeAt(p, 1) \/ VolumeAt(p, i - 1)'
      BY <1>4, <2>11, <3>1, <3>2 DEF VolumeAt
    <3>4. c.player # p \/ queue'[i - 1].player = p
      BY <3>1, <3>2
    <3>5. LastVolume(p)'
      BY <1>1, <1>3, <1>4, <2>5, <2>7, <2>9, <2>11, <3>2, <3>3 DEF LastVolume, Sliding
    <3>6. LastMute(p)'
      BY <1>1, <1>3, <1>4, <2>8, <2>10, <2>11, <3>2, <3>4 DEF LastMute
    <3>7. QED
      BY <3>5, <3>6
  <2>12. CASE worker' = [Resting EXCEPT !.stage = IF c.kind = "volume" THEN "device" ELSE "side",
                                        !.player = c.player, !.percent = c.percent,
                                        !.muted = c.muted]
    <3>1. /\ worker'.stage = IF c.kind = "volume" THEN "device" ELSE "side"
          /\ worker'.player = c.player /\ worker'.percent = c.percent
          /\ worker'.muted = c.muted
      BY <2>12 DEF Resting
    <3>2. VolumeAt(p, 1) <=> c.kind = "volume" /\ c.player = p
      BY <1>4 DEF VolumeAt
    <3>3. c.kind = "volume" <=> c.percent # None
      BY <1>4, VolumeAssumption DEF Commands
    <3>4. Sliding(p)' <=> VolumeAt(p, 1)
      BY <3>1, <3>2, <3>3 DEF Sliding
    <3>5. (\A i \in 1 .. n - 1 : ~ VolumeAt(p, i)') =>
            /\ Sliding(p)' => worker'.percent = last[p].percent
            /\ (Sliding(p)' /\ worker'.stage = "device") \/ dev[p] = last[p].percent
            /\ \/ Sliding(p)' /\ worker'.stage \in {"device", "file"}
               \/ dal[p] \in {None, last[p].percent}
      BY <2>9, <3>1, <3>2, <3>4
    <3>6. LastVolume(p)'
      BY <1>3, <1>4, <2>7, <3>5 DEF LastVolume
    <3>7. LastMute(p)'
      BY <1>3, <1>4, <2>8, <2>10, <3>1 DEF LastMute
    <3>8. QED
      BY <3>6, <3>7
  <2>13. QED
    BY <1>5, <2>11, <2>12
<1>8. QED
  BY <1>2, <1>3, <1>6, <1>7, Framed DEF IInv, Shape, Traced, host, snapserver, cache

(* The worker goes on with its command. *)
Continues(stage) ==
  /\ worker'.stage = stage /\ worker'.player = worker.player
  /\ worker'.percent = worker.percent /\ worker'.muted = worker.muted

(* Behind the device and the file, a command only has the mute to set. *)
LEMMA LastKept ==
  ASSUME IInv, UNCHANGED <<queue, dev, dal, muted, last, failed>>,
         worker.stage \in {"list", "post"}, Continues("post") \/ Continues("side")
  PROVE  LastInv'
<1>1. SUFFICES ASSUME NEW p \in Players \ failed'
               PROVE  LastVolume(p)' /\ LastMute(p)'
  BY DEF LastInv
<1>2. LastVolume(p) /\ LastMute(p)
  BY DEF IInv, LastInv
<1>3. Sliding(p)' <=> Sliding(p)
  BY DEF Sliding, Continues
<1>4. LastVolume(p)'
  BY <1>2, <1>3 DEF LastVolume, VolumeAt, Continues
<1>5. LastMute(p)'
  BY <1>2 DEF LastMute, Continues
<1>6. QED
  BY <1>4, <1>5

(* The device is set. *)
LEMMA DeviceKeeps ==
  ASSUME IInv, worker.stage = "device",
         dev' = [dev EXCEPT ![worker.player] = worker.percent],
         worker' = [worker EXCEPT !.stage = "file"],
         UNCHANGED <<page, dal, muted, ref, snapserver, wire, reader, cache, queue, posts,
                     restore, last, failed>>
  PROVE  IInv'
<1> DEFINE q == worker.player
           v == worker.percent
<1>1. /\ HostShape /\ WorkerShape /\ TracedWorker(OnFile) /\ Seeding /\ LastInv
  BY DEF IInv, Shape, Traced
<1>2. UNCHANGED <<page, dal, muted, ref, snapserver, wire, reader, cache, queue, posts,
                  restore, last, failed, OnFile>>
  BY DEF OnFile
<1>3. q \in Players /\ v \in Levels /\ v # None /\ q \in OnFile
  BY <1>1, VolumeAssumption DEF WorkerShape, TracedWorker, Applying
<1>4. Continues("file")
  BY <1>1 DEF WorkerShape, Continues
<1>5. WorkerShape'
  <2>1. worker' = [worker EXCEPT !.stage = "file"]
    OBVIOUS
  <2>2. QED
    BY <1>1, <1>2, <1>3, <1>4, <2>1 DEF WorkerShape, Continues, Applying
<1>6. TracedWorker(OnFile)'
  BY <1>1, <1>2, <1>3, <1>4 DEF TracedWorker, Continues
<1>7. dev' = [dev EXCEPT ![q] = v]
  OBVIOUS
<1> HIDE DEF q, v
<1>8. /\ dev' \in [Players -> Levels] /\ dev'[q] = v
      /\ \A p \in Players \ {q} : dev'[p] = dev[p]
  BY <1>1, <1>3, <1>7 DEF HostShape
<1>9. HostShape'
  BY <1>1, <1>2, <1>8 DEF HostShape
<1>10. Seeding'
  <2>1. reader.stage = "file" => reader.player \in Players \ {q}
    BY <1>1, <1>3 DEF Seeding, IInv, Shape, ReaderShape
  <2>2. QED
    BY <1>1, <1>2, <1>8, <2>1 DEF Seeding
<1>11. LastInv'
  <2>1. SUFFICES ASSUME NEW p \in Players \ failed'
                 PROVE  LastVolume(p)' /\ LastMute(p)'
    BY DEF LastInv
  <2>2. LastVolume(p) /\ LastMute(p)
    BY <1>1, <1>2 DEF LastInv
  <2>3. LastMute(p)'
    BY <1>2, <1>4, <2>2 DEF LastMute, Continues
  <2>4. Sliding(p) <=> p = q
    BY <1>3 DEF Sliding, q, v
  <2>5. Sliding(p)' <=> p = q
    BY <1>3, <1>4 DEF Sliding, Continues, q, v
  <2>6. CASE p = q
    BY <1>2, <1>4, <1>8, <2>2, <2>3, <2>4, <2>5, <2>6 DEF LastVolume, VolumeAt, Continues, v
  <2>7. CASE p # q
    BY <1>2, <1>4, <1>8, <2>2, <2>3, <2>4, <2>5, <2>7 DEF LastVolume, VolumeAt, Continues
  <2>8. QED
    BY <2>3, <2>6, <2>7
<1>12. QED
  BY <1>2, <1>5, <1>6, <1>9, <1>10, <1>11, Framed
  DEF IInv, Shape, Traced, snapserver, cache

(* Then its file. *)
LEMMA FileKeeps ==
  ASSUME IInv, worker.stage = "file", WriteFile(worker.player, worker.percent, worker, Side),
         UNCHANGED <<page, dev, muted, ref, snapserver, wire, reader, cache, queue, posts,
                     restore, last>>
  PROVE  IInv'
<1> DEFINE q == worker.player
           v == worker.percent
<1>1. /\ HostShape /\ WorkerShape /\ TracedWorker(OnFile) /\ Seeding /\ LastInv
  BY DEF IInv, Shape, Traced
<1>2. UNCHANGED <<page, dev, muted, ref, snapserver, wire, reader, cache, queue, posts,
                  restore, last, failed>>
  BY DEF WriteFile, bounds
<1>3. q \in Players /\ v \in Levels /\ v # None /\ q \in OnFile
  BY <1>1, VolumeAssumption DEF WorkerShape, TracedWorker, Applying
<1>4. /\ worker' = Side \/ worker' = [worker EXCEPT !.stage = "list"]
      /\ dal' = [dal EXCEPT ![q] = v]
  BY DEF WriteFile
<1>5. Continues("side") \/ Continues("list")
  BY <1>1, <1>4 DEF WorkerShape, Continues, Side
<1>6. WorkerShape'
  <2>1. CASE worker' = Side
    BY <1>1, <1>2, <1>3, <2>1 DEF WorkerShape, Side, Applying
  <2>2. CASE worker' = [worker EXCEPT !.stage = "list"]
    BY <1>1, <1>2, <1>3, <2>2 DEF WorkerShape, Applying
  <2>3. QED
    BY <1>4, <2>1, <2>2
<1> HIDE DEF q, v
<1>7. /\ dal' \in Files /\ OnFile' = OnFile \cup {q} /\ dal'[q] = v
      /\ \A p \in Players \ {q} : dal'[p] = dal[p]
  BY <1>1, <1>3, <1>4, Written
<1>8. OnFile' = OnFile
  BY <1>3, <1>7
<1>9. HostShape'
  BY <1>1, <1>2, <1>7 DEF HostShape
<1>10. TracedWorker(OnFile)' /\ Seeding'
  BY <1>1, <1>2, <1>3, <1>5, <1>8 DEF TracedWorker, Seeding, Continues
<1>11. LastInv'
  <2>1. SUFFICES ASSUME NEW p \in Players \ failed'
                 PROVE  LastVolume(p)' /\ LastMute(p)'
    BY DEF LastInv
  <2>2. LastVolume(p) /\ LastMute(p)
    BY <1>1, <1>2 DEF LastInv
  <2>3. LastMute(p)'
    BY <1>2, <1>5, <2>2 DEF LastMute, Continues
  <2>4. Sliding(p) <=> p = q
    BY <1>3 DEF Sliding, q, v
  <2>5. Sliding(p)' <=> p = q
    BY <1>3, <1>5 DEF Sliding, Continues, q, v
  <2>6. CASE p = q
    BY <1>2, <1>5, <1>7, <2>2, <2>3, <2>4, <2>5, <2>6 DEF LastVolume, VolumeAt, Continues, v
  <2>7. CASE p # q
    BY <1>2, <1>5, <1>7, <2>2, <2>3, <2>4, <2>5, <2>7 DEF LastVolume, VolumeAt, Continues
  <2>8. QED
    BY <2>3, <2>6, <2>7
<1>12. QED
  BY <1>2, <1>6, <1>8, <1>9, <1>10, <1>11, Framed, FilesGrow
  DEF IInv, Shape, Traced, snapserver, cache

(* Then the observer reads every file, and posts them. *)
LEMMA ObserverKeeps ==
  ASSUME IInv, ApplyVolume,
         \/ ReadAll(worker) /\ UNCHANGED <<dev, dal, muted, wire, posts, bounds>>
         \/ PostAll(worker, Side) /\ UNCHANGED <<dev, dal, muted, wire, bounds>>
  PROVE  IInv'
<1>1. /\ HostShape /\ WorkerShape /\ TracedWorker(OnFile) /\ Held(dal) = OnFile
  BY HeldFiles DEF IInv, Shape, Traced
<1>2. UNCHANGED <<page, dev, dal, muted, ref, snapserver, wire, reader, cache, queue,
                  restore, last, failed, OnFile>>
  BY DEF ApplyVolume, bounds, OnFile
<1>3. CASE ReadAll(worker) /\ UNCHANGED posts
  <2>1. worker.stage = "list" /\ worker' = [worker EXCEPT !.stage = "post", !.all = dal]
    BY <1>3 DEF ReadAll
  <2>2. Continues("post") /\ worker'.all = dal
    BY <1>1, <2>1 DEF WorkerShape, Continues
  <2>3. WorkerShape'
    <3>1. dal \in Files
      BY <1>1 DEF HostShape
    <3>2. QED
      BY <1>1, <1>2, <2>1, <2>2, <3>1 DEF WorkerShape, Continues, Applying
  <2>4. TracedWorker(OnFile)'
    BY <1>1, <1>2, <2>1, <2>2 DEF TracedWorker, Continues
  <2>5. LastInv'
    BY <1>2, <2>1, <2>2, LastKept
  <2>6. QED
    BY <1>2, <1>3, <2>3, <2>4, <2>5, Framed
    DEF IInv, Shape, Traced, snapserver, cache
<1>4. CASE PostAll(worker, Side)
  <2>1. worker.stage = "post" /\ Post({"settings"}, worker.all) /\ worker' = Side
    BY <1>4 DEF PostAll
  <2>2. worker.all \in Files /\ Held(worker.all) \subseteq OnFile
    BY <1>1, <2>1 DEF WorkerShape, TracedWorker
  <2>3. PostShape' /\ TracedPosts(OnFile)'
    BY <1>2, <2>1, <2>2, Posted DEF Tabs
  <2>4. Continues("side")
    BY <1>1, <2>1 DEF WorkerShape, Continues, Side
  <2>5. WorkerShape'
    BY <1>1, <1>2, <2>1, <2>4 DEF WorkerShape, Continues, Applying, Side
  <2>6. TracedWorker(OnFile)'
    BY <1>1, <1>2, <2>1, <2>4 DEF TracedWorker, Continues
  <2>7. LastInv'
    BY <1>2, <2>1, <2>4, LastKept
  <2>8. QED
    BY <1>2, <2>3, <2>5, <2>6, <2>7, Framed
    DEF IInv, Shape, Traced, snapserver, cache
<1>5. QED
  BY <1>3, <1>4

(* The mute is set last, and the worker rests; or a call has failed. *)
LEMMA WorkerRests ==
  ASSUME IInv, worker' = Resting, worker.stage \in {"device", "file", "side"},
         CacheShape', UNCHANGED <<page, dev, dal, ref, volumes, reader, queue, posts,
                                  restore, last>>,
         \/ /\ worker.stage = "side" /\ muted' = [muted EXCEPT ![worker.player] = worker.muted]
            /\ failed' = failed
         \/ muted' = muted /\ failed' = failed \cup {worker.player}
  PROVE  IInv'
<1>1. /\ HostShape /\ WorkerShape /\ TracedWorker(OnFile) /\ LastInv /\ OnFile' = OnFile
  BY Framed DEF IInv, Shape, Traced
<1>2. worker.player \in Players /\ worker.muted \in BOOLEAN
  BY <1>1 DEF WorkerShape
<1>3. /\ muted' \in [Players -> BOOLEAN]
      /\ \A p \in Players \ {worker.player} : muted'[p] = muted[p]
      /\ failed' = failed => muted'[worker.player] = worker.muted \/ muted' = muted
  BY <1>1, <1>2 DEF HostShape
<1>4. HostShape'
  BY <1>1, <1>3 DEF HostShape
<1>5. worker'.stage = "idle" /\ WorkerShape' /\ TracedWorker(OnFile)'
  BY <1>1 DEF WorkerShape, TracedWorker, Resting, Applying
<1>6. LastInv'
  <2>1. SUFFICES ASSUME NEW p \in Players \ failed'
                 PROVE  LastVolume(p)' /\ LastMute(p)'
    BY DEF LastInv
  <2>2. LastVolume(p) /\ LastMute(p) /\ ~ Sliding(p)'
    BY <1>1, <1>5 DEF LastInv, Sliding
  <2>3. LastVolume(p)'
    <3>1. CASE worker.stage = "side"
      BY <2>2, <3>1 DEF LastVolume, VolumeAt
    <3>2. CASE worker.stage # "side"
      <4>1. ~ Sliding(p)
        BY <3>2 DEF Sliding
      <4>2. QED
        BY <2>2, <4>1 DEF LastVolume, VolumeAt
    <3>3. QED
      BY <3>1, <3>2
  <2>4. LastMute(p)'
    <3>1. CASE p = worker.player
      <4>1. worker.stage = "side" /\ muted'[p] = worker.muted
        BY <1>1, <1>2, <3>1 DEF HostShape
      <4>2. QED
        BY <1>5, <2>2, <3>1, <4>1 DEF LastMute
    <3>2. CASE p # worker.player
      BY <1>3, <1>5, <2>2, <3>2 DEF LastMute
    <3>3. QED
      BY <3>1, <3>2
  <2>5. QED
    BY <2>3, <2>4
<1>7. QED
  BY <1>4, <1>5, <1>6, Framed DEF IInv, Shape, Traced

(* All steps of the worker. *)
LEMMA CommandsKeep ==
  ASSUME IInv, Worker \/ CommandFails
  PROVE  IInv'
<1>1. CASE Take
  BY <1>1, TakeKeeps
<1>2. CASE CommandFails
  <2>1. CacheShape'
    BY <1>2, Framed DEF CommandFails, snapserver, cache
  <2>2. QED
    BY <1>2, <2>1, WorkerRests DEF CommandFails, host, cache
<1>3. CASE ApplyVolume
  <2>1. CASE worker.stage = "device"
    BY <1>3, <2>1, DeviceKeeps DEF ApplyVolume, ReadAll, PostAll, bounds
  <2>2. CASE worker.stage = "file"
    BY <1>3, <2>2, FileKeeps DEF ApplyVolume, ReadAll, PostAll
  <2>3. CASE worker.stage \in {"list", "post"}
    BY <1>3, <2>3, ObserverKeeps DEF ApplyVolume
  <2>4. CASE worker.stage = "side"
    <3>1. /\ muted' = [muted EXCEPT ![worker.player] = worker.muted] /\ worker' = Resting
          /\ Notify([kind |-> "echo", player |-> worker.player])
          /\ UNCHANGED <<page, dev, dal, ref, snapserver, reader, cache, queue, posts,
                         restore, last, failed>>
      BY <1>3, <2>4 DEF ApplyVolume, ReadAll, PostAll, bounds
    <3>2. CacheShape'
      <4>1. CacheShape /\ worker.player \in Players
        BY <2>4 DEF IInv, Shape, WorkerShape
      <4>2. [kind |-> "echo", player |-> worker.player] \in Notices
        BY <4>1 DEF Notices
      <4>3. wire' \in Seq(Notices)
        BY <3>1, <4>1, <4>2, Appended DEF Notify, CacheShape
      <4>4. QED
        BY <3>1, <4>1, <4>3 DEF CacheShape, snapserver, cache
    <3>3. QED
      BY <2>4, <3>1, <3>2, WorkerRests DEF cache
  <2>5. QED
    BY <1>3, <2>1, <2>2, <2>3, <2>4 DEF ApplyVolume, ReadAll, PostAll
<1>4. QED
  BY <1>1, <1>2, <1>3 DEF Worker

-----------------------------------------------------------------------------
(* Users.  A command that is submitted is the last of its player's. *)
LEMMA SubmitKeeps ==
  ASSUME IInv, NEW c \in Commands, Submit(c), c.kind = "volume" => c.player \in OnFile,
         UNCHANGED <<worker, dev, dal, muted, ref, failed>>
  PROVE  HostShape' /\ WorkerShape' /\ TracedWorker(OnFile)' /\ LastInv'
<1> DEFINE n == Len(queue)
           q == c.player
           l == [percent |-> IF c.kind = "volume" THEN c.percent ELSE last[q].percent,
                 muted |-> c.muted]
<1>1. /\ HostShape /\ WorkerShape /\ TracedWorker(OnFile) /\ LastInv /\ OnFile' = OnFile
  BY Framed DEF IInv, Shape, Traced
<1>2. /\ queue' \in Seq(Commands) /\ Len(queue') = n + 1 /\ n \in Nat
      /\ \A i \in 1 .. n : queue'[i] = queue[i]
      /\ queue'[n + 1] = c
  BY <1>1, Appended DEF WorkerShape, Submit
<1>3. /\ c.player \in Players /\ c.muted \in BOOLEAN
      /\ c.kind = "volume" => c.percent \in Levels
  BY DEF Commands
<1>4. /\ l \in [percent : Levels, muted : BOOLEAN]
      /\ l.percent = IF c.kind = "volume" THEN c.percent ELSE last[q].percent
      /\ l.muted = c.muted
  BY <1>1, <1>3 DEF HostShape
<1>5. last' = [last EXCEPT ![q] = l]
  BY <1>1, <1>3 DEF Submit, HostShape
<1> HIDE DEF l
<1>6. /\ last' \in [Players -> [percent : Levels, muted : BOOLEAN]] /\ last'[q] = l
      /\ \A p \in Players \ {q} : last'[p] = last[p]
  BY <1>1, <1>3, <1>4, <1>5 DEF HostShape
<1> HIDE DEF n
<1>7. HostShape'
  BY <1>1, <1>6 DEF HostShape
<1>8. WorkerShape' /\ TracedWorker(OnFile)'
  BY <1>1, <1>2 DEF WorkerShape, TracedWorker, n
<1>9. LastInv'
  <2>1. SUFFICES ASSUME NEW p \in Players \ failed'
                 PROVE  LastVolume(p)' /\ LastMute(p)'
    BY DEF LastInv
  <2>2. LastVolume(p) /\ LastMute(p) /\ (Sliding(p)' <=> Sliding(p))
    BY <1>1 DEF LastInv, Sliding
  <2>3. /\ \A i \in 1 .. n : queue'[i].kind = queue[i].kind /\ queue'[i].player = queue[i].player
        /\ 1 .. n + 1 = 1 .. n \cup {n + 1} /\ n + 1 \notin 1 .. n
        /\ \A i \in 1 .. n : ~ (n + 1 <= i) /\ i <= n + 1
    BY <1>2
  <2>4. \A i \in 1 .. n : VolumeAt(p, i)' <=> VolumeAt(p, i)
    BY <2>3 DEF VolumeAt
  <2>5. \A i : i = n + 1 => (VolumeAt(p, i)' <=> (c.kind = "volume" /\ q = p))
    BY <1>2 DEF VolumeAt
  <2>6. last'[p].percent = IF c.kind = "volume" /\ q = p THEN c.percent
                           ELSE last[p].percent
    BY <1>4, <1>6
  <2>7. last'[p].muted = IF q = p THEN c.muted ELSE last[p].muted
    BY <1>4, <1>6
  <2>8. LastVolume(p)'
    <3>1. CASE c.kind = "volume" /\ q = p
      <4>1. \A i \in 1 .. n + 1 : n + 1 <= i => i = n + 1
        BY <2>3
      <4>2. \E j \in 1 .. n + 1 : j = n + 1 /\ VolumeAt(p, j)'
                                  /\ queue'[j].percent = last'[p].percent
        BY <1>2, <2>3, <2>6, <2>5, <3>1
      <4>3. QED
        BY <1>2, <4>1, <4>2 DEF LastVolume
    <3>2. CASE ~ (c.kind = "volume" /\ q = p)
      <4>1. \A i : i = n + 1 => ~ VolumeAt(p, i)'
        BY <2>5, <3>2
      <4>2. ASSUME NEW i \in 1 .. n + 1, VolumeAt(p, i)',
                   \A j \in 1 .. n + 1 : VolumeAt(p, j)' => j <= i
            PROVE  queue'[i].percent = last'[p].percent
        <5>1. i \in 1 .. n /\ VolumeAt(p, i) /\ \A j \in 1 .. n : VolumeAt(p, j) => j <= i
          BY <2>3, <2>4, <4>1, <4>2
        <5>2. queue[i].percent = last[p].percent
          BY <2>2, <5>1 DEF LastVolume, n
        <5>3. QED
          BY <1>2, <2>6, <3>2, <5>1, <5>2
      <4>3. (\A i \in 1 .. n + 1 : ~ VolumeAt(p, i)') => \A i \in 1 .. n : ~ VolumeAt(p, i)
        BY <2>3, <2>4
      <4>4. last'[p].percent = last[p].percent
        BY <2>6, <3>2
      <4>5. QED
        BY <1>1, <1>2, <2>2, <4>2, <4>3, <4>4 DEF LastVolume, n
    <3>3. QED
      BY <3>1, <3>2
  <2>9. LastMute(p)'
    <3>1. CASE q = p
      BY <1>2, <2>3, <2>7, <3>1 DEF LastMute
    <3>2. CASE q # p
      BY <1>2, <2>2, <2>3, <2>7, <3>2 DEF LastMute, n
    <3>3. QED
      BY <3>1, <3>2
  <2>10. QED
    BY <2>8, <2>9
<1>10. QED
  BY <1>7, <1>8, <1>9

(* A live slider is one of a player on file. *)
LEMMA SlideKeeps ==
  ASSUME IInv, NEW b \in Pages, NEW p \in Players, Slide(b, p) \/ SetMute(b, p)
  PROVE  IInv'
<1>1. UNCHANGED <<page, host, snapserver, wire, reader, cache, worker, posts, restore, failed>>
  BY DEF Slide, SetMute, Act, others
<1>2. \E c \in Commands : Submit(c) /\ (c.kind = "volume" => c.player \in OnFile)
  <2>1. CASE Slide(b, p)
    <3>1. PICK v \in Levels : Submit(Volume(p, v))
      BY <2>1 DEF Slide
    <3>2. Volume(p, v) \in Commands /\ Volume(p, v).player = p
      BY DEF Volume, Commands
    <3>3. p \in OnFile
      BY <2>1 DEF Slide, IInv, Shown, Shows
    <3>4. QED
      BY <3>1, <3>2, <3>3
  <2>2. CASE SetMute(b, p)
    <3>1. PICK m \in BOOLEAN : Submit(Mute(p, m))
      BY <2>2 DEF SetMute
    <3>2. Mute(p, m) \in Commands /\ Mute(p, m).kind = "mute"
      BY DEF Mute, Commands
    <3>3. QED
      BY <3>1, <3>2
  <2>3. QED
    BY <2>1, <2>2
<1>3. HostShape' /\ WorkerShape' /\ TracedWorker(OnFile)' /\ LastInv'
  BY <1>1, <1>2, SubmitKeeps DEF host
<1>4. QED
  BY <1>1, <1>3, Framed DEF IInv, Shape, Traced, host, snapserver, cache

(* What a tab that is built now shows. *)
LEMMA NowShows ==
  ASSUME IInv, NEW balance, NEW early
  PROVE  /\ Rendering(cached, volumes, balance, early).players.known \subseteq OnFile
         /\ Now.players.known \subseteq OnFile
BY RenderingShows DEF IInv, Shape, CacheShape, Traced, TracedDicts, Now

(* A step of the pages. *)
LEMMA PagesStep ==
  ASSUME IInv, UNCHANGED <<host, snapserver, wire, reader, cached, volumes, queue, worker,
                           failed, last>>,
         PostShape', TracedPosts(OnFile)', \A c \in Pages : Shows(page'[c], OnFile)
  PROVE  IInv'
<1>1. Shown(OnFile)'
  BY Framed DEF Shown, Shows, host
<1>2. QED
  BY <1>1, Framed, LastStays DEF IInv, Shape, Traced, host, snapserver

(* The timer's fan-out. *)
LEMMA DirtyKeeps ==
  ASSUME IInv, PagesInv, Dirty
  PROVE  IInv'
<1>1. Sound(OnFile)
  BY PagesAreSound
<1>2. UNCHANGED <<host, snapserver, wire, reader, cached, volumes, queue, worker, posts,
                  restore, failed, last>>
  BY DEF Dirty, Deliver, bounds
<1>3. \A c \in Pages : Shows(page'[c], OnFile)
  <2>1. CASE UNCHANGED page
    BY <1>1, <2>1 DEF Sound, Showing
  <2>2. CASE ~ UNCHANGED page
    <3>1. PICK tabs : FanOut(tabs, Rendering(cached, volumes, ref, FALSE))
      BY <2>2 DEF Dirty, Deliver
    <3>2. QED
      BY <1>1, <3>1, NowShows, FanOutShows
  <2>3. QED
    BY <2>1, <2>2
<1>4. PostShape' /\ TracedPosts(OnFile)'
  BY <1>2, Framed DEF IInv, Shape, Traced, host
<1>5. QED
  BY <1>2, <1>3, <1>4, PagesStep

(* What was posted is merged into the dict, and the pages are told. *)
LEMMA RunPostKeeps ==
  ASSUME IInv, PagesInv, RunPost
  PROVE  IInv'
<1> DEFINE all == Head(posts).all
           n == Len(volumes)
           e == [p \in Players |-> IF all[p] = None THEN volumes[n][p] ELSE all[p]]
           S == [tabs : SUBSET Tabs, all : Files \cup {None}]
<1>1. /\ PostShape /\ CacheShape /\ ReaderShape /\ Seeding
      /\ TracedDicts(OnFile) /\ TracedPosts(OnFile) /\ TracedReader(OnFile)
      /\ Sound(OnFile)
  BY PagesAreSound DEF IInv, Shape, Traced
<1>2. UNCHANGED <<host, snapserver, wire, cached, queue, worker, restore, failed, last>>
  BY DEF RunPost, bounds
<1>3. OnFile' = OnFile /\ UNCHANGED <<dev, dal, muted, ref>>
  BY <1>2, Framed DEF host
<1>4. posts \in Seq(S) /\ posts # <<>> /\ posts' = Tail(posts)
  BY <1>1 DEF PostShape, RunPost
<1>5. /\ posts' \in Seq(S) /\ Len(posts') = Len(posts) - 1 /\ Len(posts) \in Nat \ {0}
      /\ \A i \in 1 .. Len(posts) - 1 : posts'[i] = posts[i + 1]
      /\ Head(posts) = posts[1]
  BY <1>4, Tailed
<1>6. PostShape' /\ TracedPosts(OnFile)'
  <2>1. \A i \in 1 .. Len(posts') : i + 1 \in 1 .. Len(posts) /\ posts'[i] = posts[i + 1]
    BY <1>5
  <2>2. PostShape'
    BY <1>1, <1>2, <1>5, <2>1 DEF PostShape
  <2>3. TracedPosts(OnFile)'
    BY <1>1, <1>2, <1>3, <2>1 DEF TracedPosts
  <2>4. QED
    BY <2>2, <2>3
<1>7. all # None => all \in Files /\ Held(all) \subseteq OnFile
  <2>1. 1 \in 1 .. Len(posts)
    BY <1>5
  <2>2. QED
    BY <1>1, <1>5, <2>1 DEF PostShape, TracedPosts
<1>8. IF all = None THEN UNCHANGED volumes ELSE volumes' = [volumes EXCEPT ![n] = e]
  BY DEF RunPost
<1> HIDE DEF all, S
<1>9. volumes' \in Seq(Volumes) /\ volumes' # <<>> /\ TracedDicts(OnFile)'
  <2>1. volumes \in Seq(Volumes) /\ volumes # <<>> /\ n \in 1 .. n /\ volumes[n] \in Volumes
        /\ Held(volumes[n]) \subseteq OnFile
    <3>1. volumes \in Seq(Volumes) /\ volumes # <<>> /\ n \in 1 .. n
      BY <1>1 DEF CacheShape
    <3>2. QED
      BY <1>1, <3>1 DEF TracedDicts
  <2>2. CASE all = None
    BY <1>1, <1>3, <1>8, <2>1, <2>2 DEF TracedDicts
  <2>3. CASE all # None
    <3>1. e \in Volumes /\ Held(e) \subseteq OnFile
      BY <1>7, <2>1, <2>3 DEF Volumes, Files, Held
    <3> HIDE DEF e
    <3>2. /\ volumes' \in Seq(Volumes) /\ volumes' # <<>> /\ Len(volumes') = n
          /\ \A i \in 1 .. n : volumes'[i] = IF i = n THEN e ELSE volumes[i]
      BY <1>8, <2>1, <2>3, <3>1, LastReplaced
    <3>3. QED
      BY <1>1, <1>3, <3>1, <3>2 DEF TracedDicts
  <2>4. QED
    BY <2>2, <2>3
<1>10. CacheShape'
  BY <1>1, <1>2, <1>9 DEF CacheShape, snapserver
<1>11. ReaderShape' /\ TracedReader(OnFile)' /\ Seeding'
  <2>1. PICK k \in Nat : reader' = [reader EXCEPT !.behind = k]
    <3>1. reader.behind \in Nat
      BY <1>1 DEF ReaderShape
    <3>2. (IF reader.behind = 0 THEN 0 ELSE reader.behind - 1) \in Nat
      BY <3>1
    <3>3. reader' = [reader EXCEPT !.behind = IF reader.behind = 0 THEN 0
                                              ELSE reader.behind - 1]
      BY DEF RunPost
    <3>4. QED
      BY <3>2, <3>3
  <2>2. /\ reader'.stage = reader.stage /\ reader'.player = reader.player
        /\ reader'.percent = reader.percent /\ reader'.all = reader.all
        /\ reader'.seen = reader.seen /\ reader'.todo = reader.todo
    BY <1>1, <2>1 DEF ReaderShape
  <2>3. ReaderShape'
    BY <1>1, <2>1, <2>2 DEF ReaderShape
  <2>4. TracedReader(OnFile)' /\ Seeding'
    BY <1>1, <1>3, <2>2 DEF TracedReader, Seeding
  <2>5. QED
    BY <2>3, <2>4
<1>12. Shown(OnFile)'
  <2>1. PICK tabs, early : FanOut(tabs, Rendering(cached, volumes', ref, early))
    BY DEF RunPost
  <2>2. Rendering(cached, volumes', ref, early).players.known \subseteq OnFile
    BY <1>1, <1>3, <1>9, RenderingShows DEF CacheShape, TracedDicts
  <2>3. \A c \in Pages : Shows(page'[c], OnFile)
    BY <1>1, <2>1, <2>2, FanOutShows
  <2>4. QED
    BY <1>3, <2>3 DEF Shown, Shows
<1>13. QED
  BY <1>2, <1>3, <1>6, <1>9, <1>10, <1>11, <1>12, Framed, LastStays
  DEF IInv, Shape, Traced

(* A balance is made of what the cache holds, and restored to those in it. *)
LEMMA SaveBalanceKeeps ==
  ASSUME IInv, PagesInv, NEW b \in Pages, SaveBalance(b)
  PROVE  IInv'
<1> DEFINE f == [p \in Players |-> IF Current[p] \in Levels THEN Current[p] ELSE None]
<1>1. /\ HostShape /\ CacheShape /\ TracedDicts(OnFile) /\ Sound(OnFile)
  BY PagesAreSound DEF IInv, Shape, Traced
<1>2. /\ UNCHANGED <<dev, dal, muted, snapserver, wire, reader, cache, worker, queue,
                     restore, last, failed, OnFile>>
      /\ ref' = f /\ Post({"settings"}, None)
  BY DEF SaveBalance, Act, others, OnFile
<1>3. Len(volumes) \in 1 .. Len(volumes)
  BY <1>1 DEF CacheShape
<1>4. f \in Files /\ Held(f) \subseteq OnFile
  BY <1>1, <1>3, VolumeAssumption DEF Files, Held, TracedDicts, Current
<1> HIDE DEF f
<1>5. HostShape'
  BY <1>1, <1>2, <1>4 DEF HostShape
<1>6. PostShape' /\ TracedPosts(OnFile)'
  BY <1>2, <1>4, Posted DEF Tabs
<1>7. PICK early : With(b, Rebuild(page[b], {"settings"},
                                   Rendering(cached, volumes, ref', early)))
  BY DEF SaveBalance
<1>8. Showing(Rebuild(page[b], {"settings"}, Rendering(cached, volumes, ref', early)), OnFile)
  BY <1>1, NowShows, RebuildShows DEF Sound
<1>9. Shown(OnFile)'
  <2>1. \A c \in Pages : Shows(page'[c], OnFile)
    BY <1>1, <1>7, <1>8, WithShows
  <2>2. QED
    BY <1>2, <2>1 DEF Shown, Shows
<1>10. QED
  BY <1>2, <1>5, <1>6, <1>9, Framed, LastStays
  DEF IInv, Shape, Traced, snapserver, cache

(* Restore. *)
LEMMA RestoreKeeps ==
  ASSUME IInv, NEW b \in Pages, Restore(b)
  PROVE  IInv'
<1> DEFINE players == {p \in cached : ref[p] # None}
<1>1. HostShape /\ CacheShape /\ PostShape /\ TracedPosts(OnFile)
  BY DEF IInv, Shape, Traced
<1>2. /\ UNCHANGED <<page, host, snapserver, wire, reader, cache, worker, queue, posts,
                     last, failed, ref, OnFile>>
      /\ ref # None
      /\ restore' = [page |-> b, todo |-> players, at |-> None, balance |-> ref]
  BY DEF Restore, Act, others, host, OnFile
<1>3. ref \in Files /\ Held(ref) \subseteq OnFile
  BY <1>1, <1>2 DEF HostShape, TracedPosts
<1>4. /\ players \subseteq Players /\ players \subseteq OnFile
      /\ \A p \in players : ref[p] \in Levels
  BY <1>1, <1>3 DEF CacheShape, Files, Held
<1> HIDE DEF players
<1>5. PostShape'
  BY <1>1, <1>2, <1>3, <1>4 DEF PostShape
<1>6. TracedPosts(OnFile)'
  BY <1>1, <1>2, <1>4 DEF TracedPosts
<1>7. QED
  BY <1>2, <1>5, <1>6, Framed, LastStays
  DEF IInv, Shape, Traced, host, snapserver, cache

(* Its next command, or its end. *)
LEMMA RestoreNextKeeps ==
  ASSUME IInv, PagesInv, RestoreNext
  PROVE  IInv'
<1>1. /\ PostShape /\ TracedPosts(OnFile) /\ Sound(OnFile)
  BY PagesAreSound DEF IInv, Shape, Traced
<1>2. UNCHANGED <<host, snapserver, wire, reader, cache, worker, posts, failed, ref, OnFile>>
  BY DEF RestoreNext, others, bounds, host, OnFile
<1>3. ASSUME NEW p \in restore.todo, Submit(Volume(p, restore.balance[p])),
             restore' = [restore EXCEPT !.todo = @ \ {p}, !.at = p], UNCHANGED page
      PROVE  IInv'
  <2> DEFINE c == Volume(p, restore.balance[p])
  <2>1. p \in Players /\ restore.balance[p] \in Levels /\ p \in OnFile
    BY <1>1 DEF PostShape, TracedPosts
  <2>2. c \in Commands /\ c.player = p
    BY <2>1 DEF Volume, Commands
  <2> HIDE DEF c
  <2>3. HostShape' /\ WorkerShape' /\ TracedWorker(OnFile)' /\ LastInv'
    BY <1>2, <1>3, <2>1, <2>2, SubmitKeeps DEF host, c
  <2>4. /\ restore'.todo = restore.todo \ {p} /\ restore'.balance = restore.balance
        /\ restore' \in [page : Pages \cup {None}, todo : SUBSET Players,
                         at : Players \cup {None}, balance : Files \cup {None}]
    BY <1>1, <1>3, <2>1 DEF PostShape
  <2>5. PostShape' /\ TracedPosts(OnFile)'
    BY <1>1, <1>2, <2>4 DEF PostShape, TracedPosts
  <2>6. QED
    BY <1>2, <1>3, <2>3, <2>5, Framed
    DEF IInv, Shape, Traced, host, snapserver, cache
<1>4. ASSUME With(restore.page, Rebuild(page[restore.page], {"players"}, Now)),
             restore' = NoRestore, UNCHANGED <<queue, last>>
      PROVE  IInv'
  <2>1. PostShape' /\ TracedPosts(OnFile)'
    BY <1>1, <1>2, <1>4 DEF PostShape, TracedPosts, NoRestore
  <2>2. restore.page \in Pages =>
          Showing(Rebuild(page[restore.page], {"players"}, Now), OnFile)
    BY <1>1, NowShows, RebuildShows DEF Sound
  <2>3. \A c \in Pages : Shows(page'[c], OnFile)
    BY <1>1, <1>4, <2>2, WithShows
  <2>4. QED
    BY <1>2, <1>4, <2>1, <2>3, PagesStep DEF cache
<1>5. QED
  BY <1>3, <1>4 DEF RestoreNext

(* The other handlers, the overlays, and the browsers themselves. *)
LEMMA HandlerKeeps ==
  ASSUME IInv, PagesInv, NEW b \in Pages, OtherHandler(b)
  PROVE  IInv'
<1>1. PostShape /\ TracedPosts(OnFile) /\ Sound(OnFile)
  BY PagesAreSound DEF IInv, Shape, Traced
<1>2. UNCHANGED <<host, snapserver, wire, reader, cached, volumes, worker, queue, restore,
                  last, failed, dal, ref>>
  BY DEF OtherHandler, Act, others, host, cache
<1>3. PostShape' /\ TracedPosts(OnFile)'
  <2>1. CASE UNCHANGED posts
    BY <1>2, <2>1, Framed DEF IInv, Shape, Traced
  <2>2. CASE \E tabs \in SUBSET Tabs : Post(tabs, None)
    BY <1>2, <2>2, Posted
  <2>3. QED
    BY <2>1, <2>2 DEF OtherHandler, Tabs
<1>4. \A c \in Pages : Shows(page'[c], OnFile)
  <2>1. ASSUME NEW h, Begin(b, h)
        PROVE  \A c \in Pages : Shows(page'[c], OnFile)
    <3>1. Showing([page[b] EXCEPT !.late = @ \cup {h}], OnFile)
      BY <1>1, OthersShow DEF Sound
    <3>2. QED
      BY <1>1, <2>1, <3>1, WithShows DEF Begin
  <2>2. QED
    BY <2>1 DEF OtherHandler
<1>5. QED
  BY <1>2, <1>3, <1>4, PagesStep

(* What an overlay or a browser's connection changes. *)
LEMMA ScreenAndBrowserKeep ==
  ASSUME IInv, PagesInv, NEW b \in Pages, OnScreen(b) \/ Browser(b)
  PROVE  IInv'
<1>1. Sound(OnFile) /\ Now.players.known \subseteq OnFile
  BY PagesAreSound, NowShows
<1>2. UNCHANGED <<host, snapserver, wire, reader, cached, volumes, worker, queue, posts,
                  restore, last, failed, dal, ref>>
  BY DEF OnScreen, Browser, others, host, cache, bounds
<1>3. PostShape' /\ TracedPosts(OnFile)'
  BY <1>2, Framed DEF IInv, Shape, Traced
<1>4. \A c \in Pages : Shows(page'[c], OnFile)
  <2>1. CASE OnScreen(b)
    BY <1>1, <2>1, ScreenShows DEF OnScreen
  <2>2. CASE Disconnect(b) \/ Reconnect(b)
    <3>1. /\ Showing([page[b] EXCEPT !.connected = FALSE, !.registered = FALSE], OnFile)
          /\ Showing([page[b] EXCEPT !.connected = TRUE], OnFile)
      BY <1>1, OthersShow DEF Sound
    <3>2. QED
      BY <1>1, <2>2, <3>1, WithShows DEF Disconnect, Reconnect
  <2>3. CASE Reload(b, Now)
    <3>1. \A c \in BOOLEAN : Showing([Loaded(Now) EXCEPT !.connected = c], OnFile)
      BY <1>1 DEF Showing, Shows, IsRecord, Fields, Loaded
    <3>2. QED
      BY <1>1, <2>3, <3>1, WithShows DEF Reload
  <2>4. QED
    BY <2>1, <2>2, <2>3 DEF Browser
<1>5. QED
  BY <1>2, <1>3, <1>4, PagesStep

-----------------------------------------------------------------------------
(* Every step of the composition. *)
LEMMA IInvPreserved ==
  ASSUME IInv, PagesInv, [Next]_vars
  PROVE  IInv'
<1>1. CASE Reader
  BY <1>1, ReadNotificationKeeps, FilesAreLoaded, SeedOneKeeps, SeedFileKeeps,
     FinishLoadKeeps, StoreVolumeKeeps DEF Reader
<1>2. CASE UNCHANGED vars
  BY <1>2, Framed, LastStays DEF IInv, Shape, Traced, vars, host, snapserver, cache, bounds
<1>3. QED
  BY <1>1, <1>2, ServerChangeKeeps, DirtyKeeps, CommandsKeep, RunPostKeeps,
     RestoreNextKeeps, SaveBalanceKeeps, RestoreKeeps, HandlerKeeps, ScreenAndBrowserKeep,
     SlideKeeps DEF Next

(* At the start the files are what the devices play, or there are none. *)
LEMMA IInvAtStart ==
  ASSUME Init
  PROVE  IInv
<1> DEFINE first == [p \in Players |-> IF p \in Known THEN dev[p] ELSE Absent]
<1>1. /\ Known \subseteq Players /\ dev \in [Players -> Levels] /\ dev = Start
      /\ None \notin Levels /\ Absent \notin Levels
  BY VolumeAssumption DEF Init
<1>2. dal = [p \in Players |-> IF p \in Known THEN dev[p] ELSE None]
  BY DEF Init
<1>3. dal \in Files /\ OnFile = Known /\ Held(dal) = Known
  BY <1>1, <1>2 DEF Files, OnFile, Held
<1>4. first \in Volumes /\ Held(first) \subseteq OnFile
  BY <1>1, <1>3 DEF Volumes, Held
<1>5. volumes = <<first>> /\ online = Known /\ cached = Known
  BY DEF Init
<1> HIDE DEF first
<1>6. /\ volumes \in Seq(Volumes) /\ volumes # <<>> /\ Len(volumes) = 1
      /\ volumes[1] = first
  BY <1>4, <1>5
<1>7. muted = [p \in Players |-> dal[p] = 0]
  BY DEF Init
<1>8. muted \in [Players -> BOOLEAN]
  BY <1>7
<1>9. last = [p \in Players |-> [percent |-> dev[p], muted |-> muted[p]]]
  BY DEF Init
<1>10. HostShape
  <2>1. last \in [Players -> [percent : Levels, muted : BOOLEAN]]
    BY <1>1, <1>8, <1>9
  <2>2. ref # None => ref \in Files
    BY <1>3 DEF Init
  <2>3. QED
    BY <1>1, <1>3, <1>8, <2>1, <2>2 DEF HostShape
<1>11. CacheShape /\ TracedDicts(OnFile)
  <2>1. wire \in Seq(Notices)
    BY DEF Init
  <2>2. QED
    BY <1>1, <1>4, <1>5, <1>6, <2>1 DEF CacheShape, TracedDicts
<1>12. ReaderShape /\ TracedReader(OnFile) /\ Seeding
  BY DEF Init, AtRest, ReaderShape, TracedReader, Seeding, Loading
<1>13. WorkerShape /\ TracedWorker(OnFile)
  BY DEF Init, Resting, WorkerShape, TracedWorker, Applying
<1>14. PostShape /\ TracedPosts(OnFile)
  <2>1. PostShape
    BY DEF Init, NoRestore, PostShape
  <2>2. ref # None => Held(ref) \subseteq OnFile
    BY <1>3 DEF Init
  <2>3. QED
    BY <2>1, <2>2 DEF Init, NoRestore, TracedPosts
<1>15. Shown(OnFile)
  <2>1. Rendering(cached, volumes, ref, FALSE).players.known \subseteq OnFile
    BY <1>11, RenderingShows DEF CacheShape, TracedDicts
  <2>2. QED
    BY <2>1 DEF Init, Shown, Shows, Loaded
<1>16. LastInv
  <2>1. SUFFICES ASSUME NEW p \in Players \ failed PROVE LastVolume(p) /\ LastMute(p)
    BY DEF LastInv
  <2>2. /\ last[p].percent = dev[p] /\ last[p].muted = muted[p]
        /\ dal[p] \in {None, dev[p]}
    BY <1>2, <1>9
  <2>3. queue = <<>> /\ worker.stage = "idle"
    BY DEF Init, Resting
  <2>4. QED
    BY <2>2, <2>3 DEF LastVolume, LastMute, Sliding, VolumeAt
<1>17. QED
  BY <1>10, <1>11, <1>12, <1>13, <1>14, <1>15, <1>16 DEF IInv, Shape, Traced

(* So the invariant holds for ever. *)
LEMMA Invariance == Spec => []IInv
<1>1. Init => IInv
  BY IInvAtStart
<1>2. IInv /\ PagesInv /\ [Next]_vars => IInv'
  BY IInvPreserved
<1>3. QED
  BY <1>1, <1>2, PagesStayOk, PTL DEF Spec

(* Once the commands are done, device, file and mute of a player are what  *)
(* was last submitted, unless a call failed: a slider that is live belongs *)
(* to a player whose file was written, so the reader never seeds over it   *)
(* (_apply_volume, volume_dal.set, _load_volumes).                         *)
THEOREM LastOneWins == Spec => []LastSubmittedWins
<1>1. IInv => LastSubmittedWins
  <2>1. SUFFICES ASSUME IInv, queue = <<>>, worker.stage = "idle", NEW p \in Players \ failed
                 PROVE  /\ dev[p] = last[p].percent
                        /\ dal[p] \in {None, last[p].percent}
                        /\ muted[p] = last[p].muted
    BY DEF LastSubmittedWins
  <2>2. LastVolume(p) /\ LastMute(p) /\ ~ Sliding(p)
    BY <2>1 DEF IInv, LastInv, Sliding
  <2>3. \A i \in 1 .. Len(queue) : FALSE
    BY <2>1
  <2>4. QED
    BY <2>1, <2>2, <2>3 DEF LastVolume, LastMute
<1>2. QED
  BY <1>1, Invariance, PTL

-----------------------------------------------------------------------------
(* What the cache holds.  A player that Snapserver has, and that the cache *)
(* does not, or that a notification will remove from it, is in a status    *)
(* that is still to be read.                                               *)
StatusDue == \E i \in 1 .. Len(wire) : wire[i].kind = "status"

Synced ==
  /\ \A i \in 1 .. Len(wire) : wire[i].kind = "gone" /\ wire[i].player \in online =>
       \E j \in 1 .. Len(wire) : i < j /\ wire[j].kind = "status"
  /\ StatusDue \/ online \subseteq cached

(* The echo of a command that wrote a player's file has yet to be read, or *)
(* the reader is about to store that file behind the first n posts.        *)
Echoes(p) == \E i \in 1 .. Len(wire) : wire[i].kind = "echo" /\ wire[i].player = p
WorkedOn(p) == worker.stage \in {"list", "post", "side"} /\ worker.player = p
EchoDue(p) == WorkedOn(p) \/ Echoes(p)
Rereads(p, n) ==
  \/ EchoDue(p)
  \/ reader.stage = "get" /\ reader.player = p
  \/ reader.stage = "store" /\ reader.player = p /\ reader.percent = dal[p] /\ n <= reader.behind

(* So a copy of the file that differs from it will not be the last one.    *)
FreshPosts(p) ==
  \A i \in 1 .. Len(posts) : posts[i].all # None =>
    posts[i].all[p] \in {None, dal[p]} \/ Rereads(p, i)
FreshWorker(p) == worker.stage = "post" => worker.all[p] \in {None, dal[p]}
FreshReader(p) ==
  /\ reader.stage = "post" => reader.all[p] \in {None, dal[p]} \/ EchoDue(p)
  /\ reader.stage \in Loading =>
       IF reader.stage \in {"list", "post"} /\ reader.player = p
       THEN reader.percent = dal[p] \/ EchoDue(p)
       ELSE reader.seen[p] = dal[p] \/ EchoDue(p)
  /\ reader.stage = "store" /\ reader.player = p => reader.percent = dal[p] \/ EchoDue(p)
Fresh(p) == p \in OnFile => FreshPosts(p) /\ FreshWorker(p) /\ FreshReader(p)

(* Nor will the cache's, be it none because the reader is loading.         *)
FreshCache(p) ==
  p \in online => \/ Current[p] = dal[p]
                  \/ p \in OnFile /\ Rereads(p, 0)
                  \/ reader.stage \in Loading \cup {"load"} \/ StatusDue

FilesInv == Synced /\ \A p \in Players \ failed : Fresh(p) /\ FreshCache(p)

-----------------------------------------------------------------------------
(* A notification that comes is read behind the others. *)
LEMMA Announced ==
  ASSUME IInv, NEW n \in Notices, Notify(n)
  PROVE  /\ n.kind = "status" => StatusDue'
         /\ StatusDue => StatusDue'
         /\ \A p : Echoes(p) => Echoes(p)'
         /\ n.kind = "echo" => Echoes(n.player)'
<1>1. wire \in Seq(Notices)
  BY DEF IInv, Shape, CacheShape
<1>2. /\ Len(wire') = Len(wire) + 1 /\ Len(wire) \in Nat
      /\ \A i \in 1 .. Len(wire) : wire'[i] = wire[i]
      /\ wire'[Len(wire) + 1] = n
  BY <1>1, Appended DEF Notify
<1>3. /\ \A i \in 1 .. Len(wire) : i \in 1 .. Len(wire')
      /\ Len(wire) + 1 \in 1 .. Len(wire')
  BY <1>2
<1>4. QED
  BY <1>2, <1>3 DEF StatusDue, Echoes

(* Nobody who is connected is removed by the last of them. *)
LEMMA StaysSynced ==
  ASSUME IInv, Synced, NEW n \in Notices, Notify(n), UNCHANGED cached,
         n.kind = "gone" => n.player \notin online',
         online' \subseteq online \/ n.kind = "status"
  PROVE  Synced'
<1>1. wire \in Seq(Notices)
  BY DEF IInv, Shape, CacheShape
<1>2. /\ Len(wire') = Len(wire) + 1 /\ Len(wire) \in Nat
      /\ \A i \in 1 .. Len(wire) : wire'[i] = wire[i]
      /\ wire'[Len(wire) + 1] = n
  BY <1>1, Appended DEF Notify
<1>3. /\ 1 .. Len(wire') = 1 .. Len(wire) \cup {Len(wire) + 1}
      /\ \A i \in 1 .. Len(wire) : i < Len(wire) + 1
  BY <1>2
<1>4. ASSUME NEW i \in 1 .. Len(wire'), wire'[i].kind = "gone", wire'[i].player \in online'
      PROVE  \E j \in 1 .. Len(wire') : i < j /\ wire'[j].kind = "status"
  <2>1. i \in 1 .. Len(wire) /\ wire[i] = wire'[i]
    BY <1>2, <1>3, <1>4
  <2>2. CASE n.kind = "status"
    BY <1>2, <1>3, <2>1, <2>2
  <2>3. CASE online' \subseteq online
    <3>1. \E j \in 1 .. Len(wire) : i < j /\ wire[j].kind = "status"
      BY <1>4, <2>1, <2>3 DEF Synced
    <3>2. QED
      BY <1>2, <1>3, <3>1
  <2>4. QED
    BY <2>2, <2>3
<1>5. StatusDue' \/ online' \subseteq cached'
  BY Announced DEF Synced
<1>6. QED
  BY <1>4, <1>5 DEF Synced

(* The first of them is read. *)
LEMMA StatusStays ==
  ASSUME IInv, wire # <<>>, wire' = Tail(wire)
  PROVE  /\ Head(wire) \in Notices
         /\ StatusDue /\ Head(wire).kind # "status" => StatusDue'
         /\ \A p : Echoes(p) /\ ~ (Head(wire).kind = "echo" /\ Head(wire).player = p)
                  => Echoes(p)'
<1>1. wire \in Seq(Notices)
  BY DEF IInv, Shape, CacheShape
<1>2. /\ Len(wire') = Len(wire) - 1 /\ Len(wire) \in Nat \ {0}
      /\ \A i \in 1 .. Len(wire) - 1 : wire'[i] = wire[i + 1]
      /\ wire[1] = Head(wire) /\ wire[1] \in Notices
  BY <1>1, Tailed
<1>3. \A i \in 1 .. Len(wire) : i = 1 \/ (i - 1 \in 1 .. Len(wire') /\ wire'[i - 1] = wire[i])
  BY <1>2
<1>4. StatusDue /\ wire[1].kind # "status" => StatusDue'
  BY <1>3 DEF StatusDue
<1>5. \A p : Echoes(p) /\ ~ (wire[1].kind = "echo" /\ wire[1].player = p) => Echoes(p)'
  BY <1>3 DEF Echoes
<1>6. QED
  BY <1>2, <1>4, <1>5

(* And is no longer there for those behind it. *)
LEMMA ReadSyncs ==
  ASSUME IInv, Synced, wire # <<>>, wire' = Tail(wire), online' = online,
         \/ cached' = online
         \/ Head(wire).kind = "gone" /\ cached' = cached \ {Head(wire).player}
         \/ Head(wire).kind \in {"stream", "echo"} /\ cached' = cached
  PROVE  Synced'
<1>1. wire \in Seq(Notices)
  BY DEF IInv, Shape, CacheShape
<1>2. /\ Len(wire') = Len(wire) - 1 /\ Len(wire) \in Nat \ {0}
      /\ \A i \in 1 .. Len(wire) - 1 : wire'[i] = wire[i + 1]
  BY <1>1, Tailed
<1>3. \A j \in 1 .. Len(wire) : j > 1 => j - 1 \in 1 .. Len(wire') /\ wire'[j - 1] = wire[j]
  BY <1>2
<1>4. ASSUME NEW i \in 1 .. Len(wire'), wire'[i].kind = "gone", wire'[i].player \in online'
      PROVE  \E j \in 1 .. Len(wire') : i < j /\ wire'[j].kind = "status"
  <2>1. i + 1 \in 1 .. Len(wire) /\ wire[i + 1] = wire'[i]
    BY <1>2
  <2>2. PICK j \in 1 .. Len(wire) : i + 1 < j /\ wire[j].kind = "status"
    BY <1>4, <2>1 DEF Synced
  <2>3. j - 1 \in 1 .. Len(wire') /\ wire'[j - 1] = wire[j] /\ i < j - 1
    BY <1>2, <1>3, <2>1, <2>2
  <2>4. QED
    BY <2>2, <2>3
<1>5. StatusDue' \/ online' \subseteq cached'
  <2>1. CASE wire[1].kind = "gone" /\ wire[1].player \in online
    <3>1. 1 \in 1 .. Len(wire)
      BY <1>2
    <3>2. \E j \in 1 .. Len(wire) : 1 < j /\ wire[j].kind = "status"
      BY <2>1, <3>1 DEF Synced
    <3>3. QED
      BY <1>3, <3>2 DEF StatusDue
  <2>2. CASE ~ (wire[1].kind = "gone" /\ wire[1].player \in online)
    BY <1>2, <2>2, StatusStays DEF Synced
  <2>3. QED
    BY <2>1, <2>2
<1>6. QED
  BY <1>4, <1>5 DEF Synced

-----------------------------------------------------------------------------
(* What a step does not touch: the copies, when no echo is lost. *)
Echoing == \A p \in Players \ failed' : EchoDue(p) => EchoDue(p)'

(* A later reading of a file stays due.                                    *)
LEMMA RereadsStay ==
  ASSUME NEW p, NEW n, UNCHANGED <<dal, reader>>, EchoDue(p) => EchoDue(p)', Rereads(p, n)
  PROVE  Rereads(p, n)'
BY DEF Rereads

(* Nothing but the worker and the wire has moved. *)
LEMMA CopiesStay ==
  ASSUME FilesInv, Echoing, UNCHANGED <<dal, posts, reader, volumes>>,
         failed \subseteq failed', Synced',
         worker' = worker \/ worker'.stage # "post" \/ worker'.all = dal,
         StatusDue => StatusDue', online' \subseteq online \/ StatusDue'
  PROVE  FilesInv'
<1>1. SUFFICES ASSUME NEW p \in Players \ failed'
               PROVE  Fresh(p)' /\ FreshCache(p)'
  BY DEF FilesInv
<1>2. Fresh(p) /\ FreshCache(p) /\ (EchoDue(p) => EchoDue(p)') /\ OnFile' = OnFile
  BY DEF FilesInv, Echoing, OnFile
<1>3. \A n : Rereads(p, n) => Rereads(p, n)'
  BY <1>2, RereadsStay
<1>4. FreshPosts(p) => FreshPosts(p)'
  BY <1>3 DEF FreshPosts
<1>5. FreshWorker(p) => FreshWorker(p)'
  BY DEF FreshWorker
<1>6. FreshReader(p) => FreshReader(p)'
  BY <1>2 DEF FreshReader
<1>7. FreshCache(p)'
  BY <1>2, <1>3 DEF FreshCache, Current
<1>8. QED
  BY <1>2, <1>4, <1>5, <1>6, <1>7 DEF Fresh

(* Nothing of it has moved. *)
LEMMA FilesStay ==
  ASSUME FilesInv, UNCHANGED <<dal, posts, reader, volumes, worker, wire, online, cached, failed>>
  PROVE  FilesInv'
<1>1. Echoing /\ Synced' /\ StatusDue' = StatusDue
  BY DEF Echoing, EchoDue, Echoes, WorkedOn, FilesInv, Synced, StatusDue
<1>2. QED
  BY <1>1, CopiesStay

(* An observer posts what it read, or a page what is not about volumes. *)
LEMMA PostsStay ==
  ASSUME IInv, FilesInv, Echoing, NEW tabs, NEW all, Post(tabs, all),
         UNCHANGED <<dal, volumes, wire, online, cached, failed>>,
         worker' = worker \/ worker'.stage # "post",
         all # None => \A p \in OnFile \ failed : all[p] \in {None, dal[p]} \/ EchoDue(p),
         reader.stage \notin {"get", "store"} \/ reader' = reader,
         \A p \in Players \ failed : Fresh(p) => FreshReader(p)' \/ p \notin OnFile,
         reader' = reader \/ reader'.stage \in Loading
  PROVE  FilesInv'
<1> DEFINE S == [tabs : SUBSET Tabs, all : Files \cup {None}]
           e == [tabs |-> tabs, all |-> all]
<1>0. /\ posts' = Append(posts, e) /\ e.all = all
      /\ posts \in Seq(S)
  BY DEF Post, IInv, Shape, PostShape
<1>1. /\ Len(posts') = Len(posts) + 1 /\ Len(posts) \in Nat
      /\ \A i \in 1 .. Len(posts) : posts'[i] = posts[i]
      /\ posts'[Len(posts) + 1] = e
  BY <1>0
<1>2. SUFFICES ASSUME NEW p \in Players \ failed
               PROVE  Fresh(p)' /\ FreshCache(p)'
  BY DEF FilesInv, Synced, StatusDue
<1>3. Fresh(p) /\ FreshCache(p) /\ (EchoDue(p) => EchoDue(p)') /\ OnFile' = OnFile
  BY DEF FilesInv, Echoing, OnFile
<1>4. \A n : Rereads(p, n) => Rereads(p, n)'
  BY <1>3 DEF Rereads, Loading
<1>5. p \in OnFile => FreshPosts(p)'
  <2>1. SUFFICES ASSUME p \in OnFile, NEW i \in 1 .. Len(posts'), posts'[i].all # None
                 PROVE  posts'[i].all[p] \in {None, dal[p]} \/ Rereads(p, i)'
    BY DEF FreshPosts
  <2>2. CASE i \in 1 .. Len(posts)
    BY <1>1, <1>3, <1>4, <2>1, <2>2 DEF Fresh, FreshPosts
  <2>3. CASE i = Len(posts) + 1
    BY <1>0, <1>1, <1>3, <2>1, <2>3 DEF Rereads
  <2>4. QED
    BY <1>1, <2>2, <2>3
<1>6. p \in OnFile => FreshWorker(p)'
  BY <1>3 DEF Fresh, FreshWorker
<1>7. FreshCache(p)'
  <2>1. StatusDue' = StatusDue
    BY DEF StatusDue
  <2>2. QED
    BY <1>3, <1>4, <2>1 DEF FreshCache, Current
<1>8. QED
  BY <1>3, <1>5, <1>6, <1>7 DEF Fresh

-----------------------------------------------------------------------------
(* Snapserver announces whom it has. *)
LEMMA ServerChangeFiles ==
  ASSUME IInv, FilesInv, ServerChange
  PROVE  FilesInv'
<1>1. UNCHANGED <<dal, posts, reader, volumes, worker, cached, failed>>
  BY DEF ServerChange, host, cache
<1>2. online \subseteq Players
  BY DEF IInv, Shape, CacheShape
<1>3. \E n \in Notices : /\ Notify(n)
                         /\ n.kind = "gone" => n.player \notin online'
                         /\ online' \subseteq online \/ n.kind = "status"
  <2> DEFINE st == [kind |-> "status", player |-> None]
             sr == [kind |-> "stream", player |-> None]
             gn(p) == [kind |-> "gone", player |-> p]
  <2>1. /\ st \in Notices /\ st.kind = "status"
        /\ sr \in Notices /\ sr.kind = "stream"
        /\ \A p \in Players : gn(p) \in Notices /\ gn(p).kind = "gone" /\ gn(p).player = p
    BY DEF Notices
  <2>2. \/ Notify(st)
        \/ Notify(sr) /\ online' = online
        \/ \E p \in online : Notify(gn(p)) /\ online' = online \ {p}
    BY DEF ServerChange, snapserver
  <2> HIDE DEF st, sr, gn
  <2>3. CASE Notify(st)
    BY <2>1, <2>3
  <2>4. CASE Notify(sr) /\ online' = online
    BY <2>1, <2>4
  <2>5. ASSUME NEW p \in online, Notify(gn(p)), online' = online \ {p}
        PROVE  \E n \in Notices : /\ Notify(n)
                                  /\ n.kind = "gone" => n.player \notin online'
                                  /\ online' \subseteq online \/ n.kind = "status"
    BY <1>2, <2>1, <2>5
  <2>6. QED
    BY <2>2, <2>3, <2>4, <2>5
<1>4. PICK n \in Notices : /\ Notify(n)
                           /\ n.kind = "gone" => n.player \notin online'
                           /\ online' \subseteq online \/ n.kind = "status"
  BY <1>3
<1>5. Synced'
  BY <1>1, <1>4, StaysSynced DEF FilesInv
<1>6. Echoing /\ (StatusDue => StatusDue') /\ (online' \subseteq online \/ StatusDue')
  BY <1>1, <1>4, Announced DEF Echoing, EchoDue, WorkedOn
<1>7. QED
  BY <1>1, <1>5, <1>6, CopiesStay

(* What a value that is put leaves of the cache's dict. *)
LEMMA PutCurrent ==
  ASSUME IInv, NEW p \in Players, NEW v \in Levels \cup {None, Absent}, Put(p, v)
  PROVE  Current'[p] = v /\ \A q \in Players \ {p} : Current'[q] = Current[q]
<1> DEFINE e == [Current EXCEPT ![p] = v]
<1>1. /\ volumes \in Seq(Volumes) /\ volumes # <<>>
      /\ Len(volumes) \in 1 .. Len(volumes)
  BY DEF IInv, Shape, CacheShape
<1>2. Current \in Volumes
  BY <1>1 DEF Current
<1>3. e \in Volumes /\ e[p] = v /\ \A q \in Players \ {p} : e[q] = Current[q]
  BY <1>2 DEF Volumes
<1>4. volumes' = [volumes EXCEPT ![Len(volumes)] = e]
  BY DEF Put, Current
<1> HIDE DEF e
<1>5. Current' = e
  BY <1>1, <1>3, <1>4, LastReplaced DEF Current
<1>6. QED
  BY <1>3, <1>5

(* The reader takes a notification: an echo has it read the file again, and *)
(* a player that is removed though it is connected is in a later status.    *)
LEMMA ReadNotificationFiles ==
  ASSUME IInv, FilesInv, ReadNotification
  PROVE  FilesInv'
<1> DEFINE n == Head(wire)
<1>0. n = wire[1]
  BY DEF ReadNotification, IInv, Shape, CacheShape
<1>1. /\ reader.stage = "idle" /\ wire # <<>> /\ wire' = Tail(wire)
      /\ UNCHANGED <<dal, posts, worker, online, failed>>
  BY DEF ReadNotification, rest, bounds, host, snapserver
<1>2. /\ n \in Notices
      /\ StatusDue /\ n.kind # "status" => StatusDue'
      /\ \A p : Echoes(p) /\ ~ (n.kind = "echo" /\ n.player = p) => Echoes(p)'
  BY <1>1, StatusStays
<1>3. \/ /\ n.kind = "status" /\ cached' = online /\ reader'.stage = "load"
         /\ UNCHANGED volumes
      \/ /\ n.kind = "gone" /\ cached' = cached \ {n.player} /\ Put(n.player, Absent)
         /\ reader'.stage = "idle"
      \/ /\ n.kind = "stream" /\ UNCHANGED <<cached, volumes>> /\ reader'.stage = "idle"
      \/ /\ n.kind = "echo" /\ UNCHANGED <<cached, volumes>>
         /\ reader'.stage = "get" /\ reader'.player = n.player
  <2>1. \/ /\ n.kind = "status" /\ cached' = online /\ UNCHANGED volumes
           /\ reader' = [AtRest EXCEPT !.stage = "load"]
        \/ /\ n.kind = "gone" /\ cached' = cached \ {n.player} /\ Put(n.player, Absent)
           /\ reader' = AtRest
        \/ n.kind = "stream" /\ UNCHANGED <<cached, volumes>> /\ reader' = AtRest
        \/ /\ n.kind = "echo" /\ UNCHANGED <<cached, volumes>>
           /\ reader' = [AtRest EXCEPT !.stage = "get", !.player = n.player]
    BY DEF ReadNotification, Idle, cache
  <2> HIDE DEF n
  <2>2. /\ AtRest.stage = "idle" /\ [AtRest EXCEPT !.stage = "load"].stage = "load"
        /\ \A p : /\ [AtRest EXCEPT !.stage = "get", !.player = p].stage = "get"
                 /\ [AtRest EXCEPT !.stage = "get", !.player = p].player = p
    BY DEF AtRest
  <2>3. CASE n.kind = "status" /\ cached' = online /\ UNCHANGED volumes
             /\ reader' = [AtRest EXCEPT !.stage = "load"]
    BY <2>2, <2>3
  <2>4. CASE n.kind = "gone" /\ cached' = cached \ {n.player} /\ Put(n.player, Absent)
             /\ reader' = AtRest
    BY <2>2, <2>4
  <2>5. CASE n.kind = "stream" /\ UNCHANGED <<cached, volumes>> /\ reader' = AtRest
    BY <2>2, <2>5
  <2>6. CASE n.kind = "echo" /\ UNCHANGED <<cached, volumes>>
             /\ reader' = [AtRest EXCEPT !.stage = "get", !.player = n.player]
    BY <2>2, <2>6
  <2>7. QED
    BY <2>1, <2>3, <2>4, <2>5, <2>6
<1>4. Synced'
  BY <1>1, <1>3, ReadSyncs DEF FilesInv
<1>5. OnFile' = OnFile
  BY <1>1 DEF OnFile
<1> HIDE DEF n
<1>6. SUFFICES ASSUME NEW p \in Players \ failed
               PROVE  Fresh(p)' /\ FreshCache(p)'
  BY <1>1, <1>4 DEF FilesInv
<1>7. Fresh(p) /\ FreshCache(p)
  BY DEF FilesInv
<1>8. \A k : Rereads(p, k) => Rereads(p, k)'
  BY <1>1, <1>2, <1>3 DEF Rereads, EchoDue, WorkedOn
<1>9. Fresh(p)'
  <2>1. FreshPosts(p) => FreshPosts(p)'
    BY <1>1, <1>8 DEF FreshPosts
  <2>2. FreshWorker(p) => FreshWorker(p)'
    BY <1>1 DEF FreshWorker
  <2>3. FreshReader(p)'
    BY <1>3 DEF FreshReader, Loading
  <2>4. QED
    BY <1>5, <1>7, <2>1, <2>2, <2>3 DEF Fresh
<1>10. FreshCache(p)'
  <2>1. CASE n.kind = "status"
    BY <1>3, <2>1 DEF FreshCache
  <2>2. CASE n.kind = "gone" /\ n.player = p
    <3>1. p \in online => StatusDue
      <4>1. 1 \in 1 .. Len(wire)
        BY <1>1 DEF IInv, Shape, CacheShape
      <4>2. QED
        BY <1>0, <2>2, <4>1 DEF FilesInv, Synced, StatusDue
    <3>2. QED
      BY <1>1, <1>2, <2>2, <3>1 DEF FreshCache
  <2>3. CASE n.kind # "status" /\ ~ (n.kind = "gone" /\ n.player = p)
    <3>1. Current'[p] = Current[p]
      <4>1. CASE UNCHANGED volumes
        BY <4>1 DEF Current
      <4>2. CASE n.kind = "gone" /\ Put(n.player, Absent) /\ n.player # p
        <5>1. n.player \in Players
          BY <1>2, <1>3, <4>2, VolumeAssumption DEF Notices
        <5>2. QED
          BY <4>2, <5>1, PutCurrent, VolumeAssumption
      <4>3. QED
        BY <1>3, <2>3, <4>1, <4>2
    <3>2. QED
      BY <1>1, <1>2, <1>5, <1>7, <1>8, <2>3, <3>1 DEF FreshCache, Loading
  <2>4. QED
    BY <2>1, <2>2, <2>3
<1>11. QED
  BY <1>9, <1>10

(* The reader moves, and no echo is lost. *)
LEMMA ReaderFiles ==
  ASSUME FilesInv, UNCHANGED <<rest, wire, cached, posts, failed>>,
         \A p \in Players \ failed :
           /\ p \in OnFile /\ Fresh(p) => FreshReader(p)'
           /\ \A n \in 1 .. Len(posts) : Rereads(p, n) => Rereads(p, n)'
           /\ FreshCache(p)'
  PROVE  FilesInv'
<1>1. SUFFICES ASSUME NEW p \in Players \ failed
               PROVE  Fresh(p)' /\ FreshCache(p)'
  BY DEF FilesInv, Synced, StatusDue, rest, snapserver
<1>2. Fresh(p) /\ UNCHANGED <<OnFile, dal, worker>>
  BY DEF FilesInv, rest, host, OnFile
<1>3. p \in OnFile => FreshPosts(p)' /\ FreshWorker(p)'
  BY <1>2 DEF Fresh, FreshPosts, FreshWorker
<1>4. QED
  BY <1>2, <1>3 DEF Fresh

(* The echoes are those the worker and Snapserver owe. *)
LEMMA EchoesStay ==
  ASSUME UNCHANGED <<wire, worker>>
  PROVE  /\ \A p : EchoDue(p)' = EchoDue(p)
         /\ StatusDue' = StatusDue
         /\ Echoing
BY DEF EchoDue, Echoes, WorkedOn, StatusDue, Echoing

(* What the reader fetches is what the files hold. *)
LEMMA FilesAreFetched ==
  ASSUME IInv, FilesInv, LoadFiles \/ GetFile
  PROVE  FilesInv'
<1>1. /\ ReaderShape /\ UNCHANGED <<rest, wire, cached, volumes, posts, failed>>
      /\ Len(posts) \in Nat
  BY DEF IInv, Shape, PostShape, LoadFiles, GetFile, cache, bounds
<1>2. /\ UNCHANGED <<OnFile, dal, worker, online>>
      /\ \A p : EchoDue(p)' = EchoDue(p)
      /\ StatusDue' = StatusDue
  BY <1>1, EchoesStay DEF rest, host, snapserver, OnFile
<1>3. CASE LoadFiles
  <2>1. /\ reader'.stage = "seed" /\ reader'.seen = dal /\ reader.stage = "load"
    BY <1>1, <1>3 DEF LoadFiles, ReaderShape
  <2>2. \A p \in Players : FreshReader(p)' /\ FreshCache(p)'
    BY <1>2, <2>1 DEF FreshReader, FreshCache, Loading
  <2>3. \A p : \A n : Rereads(p, n) => Rereads(p, n)'
    BY <1>2, <2>1 DEF Rereads
  <2>4. QED
    BY <1>1, <2>2, <2>3, ReaderFiles
<1>4. CASE GetFile
  <2>1. /\ reader'.stage = "store" /\ reader'.player = reader.player /\ reader.stage = "get"
        /\ reader'.percent = dal[reader.player] /\ reader'.behind = Len(posts)
    BY <1>1, <1>4 DEF GetFile, ReaderShape
  <2>2. \A p \in Players : FreshReader(p)'
    BY <1>2, <2>1 DEF FreshReader, Loading
  <2>3. \A p : \A n \in 0 .. Len(posts) : Rereads(p, n) => Rereads(p, n)'
    BY <1>1, <1>2, <2>1 DEF Rereads
  <2>4. \A p \in Players \ failed : FreshCache(p)'
    <3>1. 0 \in 0 .. Len(posts)
      BY <1>1
    <3>2. QED
      BY <1>1, <1>2, <2>1, <2>3, <3>1 DEF FilesInv, FreshCache, Current, Loading
  <2>5. QED
    BY <1>1, <2>2, <2>3, <2>4, ReaderFiles
<1>5. QED
  BY <1>3, <1>4

(* Another player is asked for its volume, or a seeding is given up. *)
LEMMA SeedingFiles ==
  ASSUME IInv, FilesInv, UNCHANGED <<rest, wire, cache, posts, failed>>,
         reader.stage \in {"seed", "file"}, reader'.stage \in {"seed", "file"},
         reader'.seen = reader.seen
  PROVE  FilesInv'
<1>1. /\ UNCHANGED <<OnFile, dal, worker, online, cached>>
      /\ \A p : EchoDue(p)' = EchoDue(p)
  BY EchoesStay DEF rest, host, snapserver, cache, OnFile
<1>2. \A p : p \in OnFile /\ Fresh(p) => FreshReader(p)'
  BY <1>1 DEF Fresh, FreshReader, Loading
<1>3. \A p : FreshCache(p)' /\ \A n : Rereads(p, n) => Rereads(p, n)'
  BY <1>1 DEF FreshCache, Rereads, Loading
<1>4. QED
  BY <1>1, <1>2, <1>3, ReaderFiles

(* The file of a player that had none is written; no copy holds any of it. *)
LEMMA SeedWriteFiles ==
  ASSUME IInv, FilesInv, SeedFile,
         WriteFile(reader.player, reader.percent, reader, Seeded),
         reader.stage = "file", UNCHANGED posts
  PROVE  FilesInv'
<1> DEFINE q == reader.player
           v == reader.percent
<1>1. /\ HostShape /\ ReaderShape /\ WorkerShape /\ PostShape /\ Seeding
      /\ TracedWorker(OnFile) /\ TracedPosts(OnFile)
  BY DEF IInv, Shape, Traced
<1>2. /\ UNCHANGED <<online, cached, volumes, wire, worker, posts, failed>>
      /\ dal' = [dal EXCEPT ![q] = v]
  BY DEF SeedFile, WriteFile, bounds, snapserver, cache
<1>3. q \in Players /\ v \in Levels /\ q \notin OnFile
  BY <1>1 DEF ReaderShape, Seeding
<1>4. reader' = [reader EXCEPT !.stage = "list"]
  BY <1>3, VolumeAssumption DEF WriteFile, OnFile
<1>5. /\ reader'.stage = "list" /\ reader'.seen = reader.seen /\ reader'.player = q
      /\ reader'.percent = v
  BY <1>1, <1>4 DEF ReaderShape
<1> HIDE DEF q, v
<1>6. /\ OnFile' = OnFile \cup {q} /\ dal'[q] = v
      /\ \A p \in Players \ {q} : dal'[p] = dal[p]
  BY <1>1, <1>2, <1>3, Written
<1>7. \A p : EchoDue(p)' = EchoDue(p)
  BY <1>2, EchoesStay
<1>8. SUFFICES ASSUME NEW p \in Players \ failed
               PROVE  Fresh(p)' /\ FreshCache(p)'
  BY <1>2 DEF FilesInv, Synced, StatusDue
<1>9. FreshCache(p)'
  BY <1>5 DEF FreshCache, Loading
<1>10. CASE p = q
  <2>1. \A f \in Files : Held(f) \subseteq OnFile => f[p] = None
    BY <1>3, <1>10 DEF Files, Held
  <2>2. FreshPosts(p)'
    BY <1>1, <1>2, <2>1 DEF FreshPosts, PostShape, TracedPosts
  <2>3. FreshWorker(p)'
    BY <1>1, <1>2, <2>1 DEF FreshWorker, WorkerShape, TracedWorker
  <2>4. FreshReader(p)'
    BY <1>5, <1>6, <1>10 DEF FreshReader
  <2>5. QED
    BY <1>9, <2>2, <2>3, <2>4 DEF Fresh
<1>11. CASE p # q
  <2>1. Fresh(p) /\ dal'[p] = dal[p] /\ (p \in OnFile' <=> p \in OnFile)
    BY <1>6, <1>11 DEF FilesInv
  <2>2. \A n : Rereads(p, n) => Rereads(p, n)'
    BY <1>7 DEF Rereads
  <2>3. FreshPosts(p) => FreshPosts(p)'
    BY <1>2, <2>1, <2>2 DEF FreshPosts
  <2>4. FreshWorker(p) => FreshWorker(p)'
    BY <1>2, <2>1 DEF FreshWorker
  <2>5. FreshReader(p) => FreshReader(p)'
    BY <1>5, <1>7, <1>11, <2>1 DEF FreshReader, Loading
  <2>6. QED
    BY <1>9, <2>1, <2>3, <2>4, <2>5 DEF Fresh
<1>12. QED
  BY <1>10, <1>11

(* Its other steps: the files are read, and posted. *)
LEMMA SeedFileFiles ==
  ASSUME IInv, FilesInv, SeedFile
  PROVE  FilesInv'
<1>1. /\ HostShape /\ ReaderShape /\ PostShape
      /\ UNCHANGED <<volumes, cached, online, wire, worker>>
  BY DEF IInv, Shape, SeedFile, snapserver, cache
<1>2. \A p : EchoDue(p)' = EchoDue(p)
  BY <1>1, EchoesStay
<1>3. CASE reader.stage = "file" /\ UNCHANGED <<dal, posts, failed>> /\ reader' = Unseeded
  <2>1. reader'.stage = "seed" /\ reader'.seen = reader.seen
    BY <1>1, <1>3 DEF Unseeded, ReaderShape
  <2>2. UNCHANGED <<rest, wire, cache, posts, failed>>
    BY <1>3 DEF SeedFile, rest, host
  <2>3. QED
    BY <1>3, <2>1, <2>2, SeedingFiles
<1>4. CASE ReadAll(reader) /\ UNCHANGED <<dal, posts, bounds>>
  <2>1. /\ reader.stage = "list" /\ reader'.stage = "post" /\ reader'.all = dal
        /\ reader'.player = reader.player /\ reader'.percent = reader.percent
        /\ reader'.seen = reader.seen
    BY <1>1, <1>4 DEF ReadAll, ReaderShape
  <2>2. UNCHANGED <<rest, wire, cached, posts, failed, dal, OnFile>>
    BY <1>1, <1>4 DEF SeedFile, rest, host, bounds, OnFile
  <2>3. \A p \in Players : p \in OnFile /\ Fresh(p) => FreshReader(p)'
    BY <1>2, <2>1, <2>2 DEF Fresh, FreshReader, Loading
  <2>4. \A p : FreshCache(p)' /\ \A n : Rereads(p, n) => Rereads(p, n)'
    BY <1>2, <2>1, <2>2 DEF FreshCache, Rereads, Loading
  <2>5. QED
    BY <2>2, <2>3, <2>4, ReaderFiles
<1>5. CASE PostAll(reader, Seeded) /\ UNCHANGED <<dal, bounds>>
  <2> DEFINE q == reader.player
             v == reader.percent
             s == [reader.seen EXCEPT ![q] = v]
  <2>1. reader.stage = "post" /\ Post({"settings"}, reader.all) /\ reader' = Seeded
    BY <1>5 DEF PostAll
  <2>2. q \in Players /\ v \in Levels /\ reader.seen \in Files
    BY <1>1, <2>1 DEF ReaderShape, Loading
  <2>3. s[q] = v /\ \A p \in Players \ {q} : s[p] = reader.seen[p]
    BY <2>2 DEF Files
  <2>4. reader' = [reader EXCEPT !.stage = "seed", !.player = None, !.percent = None,
                                 !.all = None, !.behind = Len(posts'), !.seen = s]
    BY <1>1, <2>1 DEF Seeded, Unseeded, ReaderShape
  <2> HIDE DEF s
  <2>5. reader'.stage = "seed" /\ reader'.seen = s
    BY <1>1, <2>4 DEF ReaderShape
  <2>6. UNCHANGED <<failed, OnFile>>
    BY <1>5 DEF bounds, OnFile
  <2>7. \A p \in Players : p \in OnFile /\ Fresh(p) => FreshReader(p)'
    BY <1>2, <1>5, <2>1, <2>3, <2>5 DEF Fresh, FreshReader, Loading
  <2>8. \A p \in OnFile \ failed : reader.all[p] \in {None, dal[p]} \/ EchoDue(p)
    BY <2>1 DEF FilesInv, Fresh, FreshReader, OnFile
  <2>9. Echoing
    BY <1>1, EchoesStay
  <2>10. QED
    BY <1>1, <1>5, <2>1, <2>5, <2>6, <2>7, <2>8, <2>9, PostsStay DEF Loading
<1>6. QED
  BY <1>3, <1>4, <1>5, SeedWriteFiles DEF SeedFile, bounds, Upset

(* A player that is not on file has no volume in what the reader has seen, *)
(* and the cache holds what it has seen of those that are.                 *)
LEMMA FinishLoadFiles ==
  ASSUME IInv, FilesInv, FinishLoad
  PROVE  FilesInv'
<1> DEFINE e == Rebuilt(reader.seen)
<1>1. /\ ReaderShape /\ CacheShape /\ TracedReader(OnFile)
      /\ reader.stage = "seed" /\ reader'.stage = "idle"
      /\ volumes' = Append(volumes, e)
  BY DEF IInv, Shape, Traced, FinishLoad, Resumes, Idle, AtRest
<1>2. /\ UNCHANGED <<rest, posts, wire, cached, failed>>
      /\ UNCHANGED <<OnFile, dal, worker, online>>
  BY DEF FinishLoad, bounds, rest, host, snapserver, OnFile
<1>3. /\ \A p : EchoDue(p)' = EchoDue(p)
      /\ StatusDue' = StatusDue
  BY <1>2, EchoesStay
<1>4. reader.seen \in Files /\ Held(reader.seen) \subseteq OnFile
  BY <1>1 DEF ReaderShape, TracedReader, Loading
<1>5. \A p \in Players : e[p] = IF p \in cached THEN reader.seen[p] ELSE Absent
  BY DEF Rebuilt
<1>6. Current' = e
  <2>1. e \in Volumes
    BY <1>4, <1>5 DEF Rebuilt, Files, Volumes
  <2> HIDE DEF e
  <2>2. QED
    BY <1>1, <2>1, Appended DEF Current, CacheShape
<1> HIDE DEF e
<1>7. ASSUME NEW p \in Players \ failed
      PROVE  FreshCache(p)'
  <2>1. SUFFICES ASSUME p \in online, ~StatusDue
                 PROVE  e[p] = dal[p] \/ (p \in OnFile /\ EchoDue(p))
    BY <1>2, <1>3, <1>6 DEF FreshCache, Rereads
  <2>2. e[p] = reader.seen[p]
    BY <1>5, <2>1 DEF FilesInv, Synced
  <2>3. CASE p \in OnFile
    BY <1>1, <2>2, <2>3 DEF FilesInv, Fresh, FreshReader, Loading
  <2>4. CASE p \notin OnFile
    BY <1>4, <2>2, <2>4 DEF Files, Held, OnFile
  <2>5. QED
    BY <2>3, <2>4
<1>8. \A p : FreshReader(p)' /\ \A n : Rereads(p, n) => Rereads(p, n)'
  BY <1>1, <1>3 DEF FreshReader, Rereads, Loading
<1>9. QED
  BY <1>2, <1>7, <1>8, ReaderFiles

(* What is stored is what the file holds, unless an echo of it is due. *)
LEMMA StoreVolumeFiles ==
  ASSUME IInv, FilesInv, StoreVolume
  PROVE  FilesInv'
<1> DEFINE q == reader.player
           v == reader.percent
<1>1. /\ ReaderShape /\ TracedReader(OnFile) /\ reader.stage = "store" /\ reader.behind = 0
      /\ reader'.stage = "idle"
  BY DEF IInv, Shape, Traced, StoreVolume, Resumes, Idle, AtRest
<1>2. /\ UNCHANGED <<rest, posts, wire, cached, failed>>
      /\ UNCHANGED <<OnFile, dal, worker, online>>
  BY DEF StoreVolume, bounds, rest, host, snapserver, OnFile
<1>3. /\ \A p : EchoDue(p)' = EchoDue(p)
      /\ StatusDue' = StatusDue
  BY <1>2, EchoesStay
<1>4. q \in Players /\ v \in Levels \cup {None} /\ (v # None => q \in OnFile)
  BY <1>1 DEF ReaderShape, TracedReader
<1>5. \/ v # None /\ Put(q, v)
      \/ (v # None => q \notin cached) /\ UNCHANGED volumes
  BY DEF StoreVolume
<1> HIDE DEF q, v
<1>6. /\ \A p \in Players \ {q} : Current'[p] = Current[p]
      /\ v # None /\ q \in cached => Current'[q] = v
      /\ v = None => Current'[q] = Current[q]
  <2>1. CASE v # None /\ Put(q, v)
    BY <1>4, <2>1, PutCurrent
  <2>2. CASE (v # None => q \notin cached) /\ UNCHANGED volumes
    BY <2>2 DEF Current
  <2>3. QED
    BY <1>5, <2>1, <2>2
<1>7. ASSUME NEW p \in Players \ failed
      PROVE  FreshCache(p)'
  <2>1. SUFFICES ASSUME p \in online, ~StatusDue
                 PROVE  Current'[p] = dal[p] \/ (p \in OnFile /\ EchoDue(p))
    BY <1>2, <1>3 DEF FreshCache, Rereads
  <2>2. /\ \/ Current[p] = dal[p]
           \/ p \in OnFile /\ (EchoDue(p) \/ (p = q /\ v = dal[p]))
        /\ p \in cached
    BY <1>1, <2>1 DEF FilesInv, Synced, FreshCache, Rereads, Loading, q, v
  <2>3. CASE p # q
    BY <1>6, <2>2, <2>3
  <2>4. CASE p = q /\ v = None
    BY <1>6, <2>2, <2>4 DEF OnFile
  <2>5. CASE p = q /\ v # None
    <3>1. v = dal[p] \/ EchoDue(p)
      BY <1>1, <1>4, <2>5 DEF FilesInv, Fresh, FreshReader, q, v
    <3>2. QED
      BY <1>4, <1>6, <2>2, <2>5, <3>1
  <2>6. QED
    BY <2>3, <2>4, <2>5
<1>8. /\ \A p : FreshReader(p)'
      /\ \A p : \A n \in 1 .. Len(posts) : Rereads(p, n) => Rereads(p, n)'
  BY <1>1, <1>3 DEF FreshReader, Rereads, Loading
<1>9. QED
  BY <1>2, <1>7, <1>8, ReaderFiles

-----------------------------------------------------------------------------
(* The worker takes a command, sets a device, or fails: no file is written. *)
LEMMA TakeFiles ==
  ASSUME IInv, FilesInv, Take
  PROVE  FilesInv'
<1>1. /\ UNCHANGED <<dal, posts, reader, volumes, wire, online, cached, failed>>
      /\ worker.stage = "idle"
      /\ worker' = worker \/ worker'.stage # "post"
  BY DEF Take, Resting, host, snapserver, cache, bounds
<1>2. Echoing /\ Synced' /\ StatusDue' = StatusDue
  BY <1>1 DEF Echoing, EchoDue, Echoes, WorkedOn, FilesInv, Synced, StatusDue
<1>3. QED
  BY <1>1, <1>2, CopiesStay

(* A failure only concerns the player of the command. *)
LEMMA CommandFailsFiles ==
  ASSUME IInv, FilesInv, CommandFails
  PROVE  FilesInv'
<1>1. /\ UNCHANGED <<dal, posts, reader, volumes, wire, online, cached>>
      /\ failed' = failed \cup {worker.player} /\ worker'.stage # "post"
  BY DEF CommandFails, Resting, host, snapserver, cache
<1>2. Echoing /\ Synced' /\ StatusDue' = StatusDue
  BY <1>1 DEF Echoing, EchoDue, Echoes, WorkedOn, FilesInv, Synced, StatusDue
<1>3. QED
  BY <1>1, <1>2, CopiesStay

(* A file that a command writes has its echo come, after every copy of it  *)
(* that was taken before.                                                  *)
LEMMA FileIsWritten ==
  ASSUME IInv, FilesInv, worker.stage = "file",
         WriteFile(worker.player, worker.percent, worker, Side),
         UNCHANGED <<snapserver, wire, reader, cache, posts>>
  PROVE  FilesInv'
<1> DEFINE q == worker.player
           v == worker.percent
<1>1. HostShape /\ WorkerShape /\ TracedWorker(OnFile)
  BY DEF IInv, Shape, Traced
<1>2. /\ UNCHANGED <<online, cached, volumes, wire, reader, posts, failed>>
      /\ dal' = [dal EXCEPT ![q] = v]
      /\ worker' = Side \/ worker' = [worker EXCEPT !.stage = "list"]
  BY DEF WriteFile, bounds, snapserver, cache
<1>3. q \in Players /\ v \in Levels /\ q \in OnFile
  BY <1>1, VolumeAssumption DEF WorkerShape, TracedWorker, Applying
<1>4. worker'.stage \in {"side", "list"} /\ worker'.player = q
  BY <1>1, <1>2 DEF WorkerShape, Side
<1> HIDE DEF q, v
<1>5. /\ OnFile' = OnFile
      /\ \A p \in Players \ {q} : dal'[p] = dal[p]
  <2>1. /\ OnFile' = OnFile \cup {q}
        /\ \A p \in Players \ {q} : dal'[p] = dal[p]
    BY <1>1, <1>2, <1>3, Written
  <2>2. QED
    BY <1>3, <2>1
<1>6. \A p : (p = q => EchoDue(p)') /\ (EchoDue(p) => EchoDue(p)')
  BY <1>2, <1>4 DEF EchoDue, WorkedOn, Echoes
<1>7. SUFFICES ASSUME NEW p \in Players \ failed
               PROVE  Fresh(p)' /\ FreshCache(p)'
  BY <1>2 DEF FilesInv, Synced, StatusDue
<1>8. FreshWorker(p)'
  BY <1>4 DEF FreshWorker
<1>9. CASE p = q
  <2>1. FreshPosts(p)' /\ FreshReader(p)'
    BY <1>6, <1>9 DEF FreshPosts, FreshReader, Rereads
  <2>2. FreshCache(p)'
    BY <1>3, <1>5, <1>6, <1>9 DEF FreshCache, Rereads
  <2>3. QED
    BY <1>8, <2>1, <2>2 DEF Fresh
<1>10. CASE p # q
  <2>1. Fresh(p) /\ FreshCache(p) /\ dal'[p] = dal[p]
    BY <1>5, <1>10 DEF FilesInv
  <2>2. \A n : Rereads(p, n) => Rereads(p, n)'
    BY <1>2, <1>6, <2>1 DEF Rereads
  <2>3. FreshPosts(p) => FreshPosts(p)'
    BY <1>2, <2>1, <2>2 DEF FreshPosts
  <2>4. FreshReader(p) => FreshReader(p)'
    BY <1>2, <1>6, <2>1 DEF FreshReader
  <2>5. FreshCache(p)'
    <3>1. Current' = Current /\ StatusDue' = StatusDue
      BY <1>2 DEF Current, StatusDue
    <3>2. QED
      BY <1>2, <1>5, <2>1, <2>2, <3>1 DEF FreshCache
  <2>6. QED
    BY <1>5, <1>8, <2>1, <2>3, <2>4, <2>5 DEF Fresh
<1>11. QED
  BY <1>9, <1>10

(* A command goes on to its end; the echo is on its way before it is over. *)
LEMMA ApplyVolumeFiles ==
  ASSUME IInv, FilesInv, ApplyVolume
  PROVE  FilesInv'
<1>1. /\ WorkerShape
      /\ UNCHANGED <<reader, volumes, online, cached>>
  BY DEF IInv, Shape, ApplyVolume, snapserver, cache
<1>2. CASE worker.stage = "device"
  <2>1. UNCHANGED <<dal, wire, posts, failed>> /\ worker'.stage = "file"
    BY <1>1, <1>2 DEF ApplyVolume, ReadAll, PostAll, bounds, WorkerShape
  <2>2. Echoing /\ Synced' /\ StatusDue' = StatusDue
    BY <1>1, <1>2, <2>1 DEF Echoing, EchoDue, Echoes, WorkedOn, FilesInv, Synced, StatusDue
  <2>3. QED
    BY <1>1, <2>1, <2>2, CopiesStay
<1>3. CASE worker.stage = "file"
  BY <1>3, FileIsWritten DEF ApplyVolume, ReadAll, PostAll
<1>4. CASE worker.stage = "list"
  <2>1. /\ UNCHANGED <<dal, wire, posts, failed>>
        /\ worker'.all = dal /\ worker'.stage = "post" /\ worker'.player = worker.player
    BY <1>1, <1>4 DEF ApplyVolume, ReadAll, PostAll, bounds, WorkerShape
  <2>2. Echoing /\ Synced' /\ StatusDue' = StatusDue
    BY <1>1, <1>4, <2>1 DEF Echoing, EchoDue, Echoes, WorkedOn, FilesInv, Synced, StatusDue
  <2>3. QED
    BY <1>1, <2>1, <2>2, CopiesStay
<1>5. CASE worker.stage = "post"
  <2>1. /\ UNCHANGED <<dal, wire, failed>> /\ Post({"settings"}, worker.all)
        /\ worker'.stage = "side" /\ worker'.player = worker.player
    BY <1>1, <1>5 DEF ApplyVolume, ReadAll, PostAll, bounds, WorkerShape, Side
  <2>2. Echoing
    BY <1>5, <2>1 DEF Echoing, EchoDue, Echoes, WorkedOn
  <2>3. \A p \in OnFile \ failed : worker.all[p] \in {None, dal[p]}
    BY <1>5 DEF FilesInv, Fresh, FreshWorker, OnFile
  <2>4. \A p \in Players \ failed : (p \in OnFile /\ Fresh(p)) => FreshReader(p)'
    BY <1>1, <2>1, <2>2 DEF Fresh, FreshReader, Echoing
  <2>5. QED
    BY <1>1, <2>1, <2>2, <2>3, <2>4, PostsStay
<1>6. CASE worker.stage = "side"
  <2>1. /\ UNCHANGED <<dal, posts, failed>> /\ worker'.stage = "idle"
        /\ Notify([kind |-> "echo", player |-> worker.player])
    BY <1>1, <1>6 DEF ApplyVolume, ReadAll, PostAll, bounds, Resting
  <2> DEFINE n == [kind |-> "echo", player |-> worker.player]
  <2>2. n \in Notices /\ n.kind = "echo" /\ n.player = worker.player
    BY <1>1, <1>6 DEF Notices, WorkerShape
  <2> HIDE DEF n
  <2>3. Synced'
    BY <1>1, <2>1, <2>2, StaysSynced DEF FilesInv, n
  <2>4. Echoing /\ (StatusDue => StatusDue')
    BY <1>1, <1>6, <2>1, <2>2, Announced DEF Echoing, EchoDue, WorkedOn, n
  <2>5. QED
    BY <1>1, <2>1, <2>3, <2>4, CopiesStay
<1>7. QED
  BY <1>2, <1>3, <1>4, <1>5, <1>6 DEF ApplyVolume, ReadAll, PostAll

(* What a post that is run does to the cache, and to the reader behind it. *)
LEMMA PostIsMerged ==
  ASSUME IInv, RunPost
  PROVE  LET all == Head(posts).all
         IN  /\ all # None => all \in Files /\ Held(all) \subseteq OnFile
             /\ \A p \in Players :
                  Current'[p] = IF all = None \/ all[p] = None THEN Current[p] ELSE all[p]
             /\ \A p : \A n \in 0 .. Len(posts) - 1 : Rereads(p, n + 1) => Rereads(p, n)'
             /\ \A p : Rereads(p, 0) => Rereads(p, 0)'
<1> DEFINE all == Head(posts).all
           k == reader.behind
           e == [p \in Players |-> IF all[p] = None THEN Current[p] ELSE all[p]]
<1>1. /\ CacheShape /\ ReaderShape /\ PostShape /\ TracedPosts(OnFile)
      /\ UNCHANGED <<dal, worker, wire>>
  BY DEF IInv, Shape, Traced, RunPost, host
<1>2. Len(posts) \in Nat \ {0} /\ Head(posts) = posts[1]
  BY <1>1, Tailed DEF PostShape, RunPost
<1>3. k \in Nat /\ (IF k = 0 THEN 0 ELSE k - 1) \in Nat
  BY <1>1 DEF ReaderShape
<1>4. /\ reader'.stage = reader.stage /\ reader'.player = reader.player
      /\ reader'.percent = reader.percent
      /\ reader'.behind = IF k = 0 THEN 0 ELSE k - 1
  BY <1>1 DEF RunPost, ReaderShape
<1>5. all # None => all \in Files /\ Held(all) \subseteq OnFile
  <2>1. 1 \in 1 .. Len(posts)
    BY <1>2
  <2>2. QED
    BY <1>1, <1>2, <2>1 DEF PostShape, TracedPosts
<1>6. \A p \in Players : Current'[p] = IF all = None \/ all[p] = None THEN Current[p] ELSE all[p]
  <2>1. CASE all = None
    <3>1. UNCHANGED volumes
      BY <2>1 DEF RunPost
    <3>2. QED
      BY <2>1, <3>1 DEF Current
  <2>2. CASE all # None
    <3>1. /\ volumes \in Seq(Volumes) /\ volumes # <<>>
          /\ Len(volumes) \in 1 .. Len(volumes)
      BY <1>1 DEF CacheShape
    <3>2. Current \in Volumes
      BY <3>1 DEF Current
    <3>3. e \in Volumes
      BY <1>5, <2>2, <3>2 DEF Volumes, Files
    <3>4. volumes' = [volumes EXCEPT ![Len(volumes)] = e]
      BY <2>2 DEF RunPost, Current
    <3>5. \A p \in Players : e[p] = IF all[p] = None THEN Current[p] ELSE all[p]
      OBVIOUS
    <3> HIDE DEF e, all
    <3>6. Current' = e
      BY <3>1, <3>3, <3>4, LastReplaced DEF Current
    <3>7. QED
      BY <2>2, <3>5, <3>6
  <2>3. QED
    BY <2>1, <2>2
<1> HIDE DEF e, k
<1>7. \A p : EchoDue(p)' = EchoDue(p)
  BY <1>1, EchoesStay
<1>8. \A p : \A n \in 0 .. Len(posts) - 1 : Rereads(p, n + 1) => Rereads(p, n)'
  BY <1>1, <1>2, <1>3, <1>4, <1>7 DEF Rereads, k
<1>9. \A p : Rereads(p, 0) => Rereads(p, 0)'
  BY <1>1, <1>3, <1>4, <1>7 DEF Rereads, k
<1>10. QED
  BY <1>5, <1>6, <1>8, <1>9

(* The loop runs a post: what it puts in the cache the file holds, or the  *)
(* reader has yet to store it.                                             *)
LEMMA RunPostFiles ==
  ASSUME IInv, FilesInv, RunPost
  PROVE  FilesInv'
<1> DEFINE all == Head(posts).all
<1>1. /\ ReaderShape /\ PostShape
      /\ UNCHANGED <<dal, worker, wire, online, cached, failed, OnFile>>
  BY DEF IInv, Shape, RunPost, host, snapserver, bounds, OnFile
<1>2. /\ Len(posts') = Len(posts) - 1 /\ Len(posts) \in Nat \ {0}
      /\ \A i \in 1 .. Len(posts) - 1 : posts'[i] = posts[i + 1]
      /\ Head(posts) = posts[1]
  BY <1>1, Tailed DEF PostShape, RunPost
<1>3. /\ reader'.stage = reader.stage /\ reader'.player = reader.player
      /\ reader'.percent = reader.percent /\ reader'.all = reader.all
      /\ reader'.seen = reader.seen
  BY <1>1 DEF RunPost, ReaderShape
<1>4. /\ all # None => all \in Files /\ Held(all) \subseteq OnFile
      /\ \A p \in Players :
           Current'[p] = IF all = None \/ all[p] = None THEN Current[p] ELSE all[p]
      /\ \A p : \A n \in 0 .. Len(posts) - 1 : Rereads(p, n + 1) => Rereads(p, n)'
      /\ \A p : Rereads(p, 0) => Rereads(p, 0)'
  BY PostIsMerged
<1> HIDE DEF all
<1>5. SUFFICES ASSUME NEW p \in Players \ failed
               PROVE  Fresh(p)' /\ FreshCache(p)'
  BY <1>1 DEF FilesInv, Synced, StatusDue
<1>6. /\ Fresh(p) /\ FreshCache(p)
      /\ EchoDue(p)' = EchoDue(p) /\ StatusDue' = StatusDue
  BY <1>1, EchoesStay DEF FilesInv
<1>7. Fresh(p)'
  <2>1. p \in OnFile => FreshPosts(p)'
    <3>1. SUFFICES ASSUME p \in OnFile, NEW i \in 1 .. Len(posts'), posts'[i].all # None
                   PROVE  posts'[i].all[p] \in {None, dal[p]} \/ Rereads(p, i)'
      BY <1>1 DEF FreshPosts
    <3>2. i + 1 \in 1 .. Len(posts) /\ posts'[i] = posts[i + 1] /\ i \in 0 .. Len(posts) - 1
      BY <1>2
    <3>3. QED
      BY <1>4, <1>6, <3>1, <3>2 DEF Fresh, FreshPosts
  <2>2. FreshWorker(p) => FreshWorker(p)'
    BY <1>1 DEF FreshWorker
  <2>3. FreshReader(p) => FreshReader(p)'
    BY <1>1, <1>3, <1>6 DEF FreshReader
  <2>4. QED
    BY <1>1, <1>6, <2>1, <2>2, <2>3 DEF Fresh
<1>8. FreshCache(p)'
  <2>1. CASE all = None \/ all[p] = None
    BY <1>1, <1>3, <1>4, <1>6, <2>1 DEF FreshCache
  <2>2. CASE all # None /\ all[p] # None
    <3>1. p \in OnFile
      BY <1>4, <2>2 DEF Files, Held
    <3>2. 1 \in 1 .. Len(posts) /\ 0 \in 0 .. Len(posts) - 1 /\ 0 + 1 = 1
      BY <1>2
    <3>3. all[p] = dal[p] \/ Rereads(p, 1)
      BY <1>2, <1>6, <2>2, <3>1, <3>2 DEF Fresh, FreshPosts, all
    <3>4. all[p] = dal[p] \/ Rereads(p, 0)'
      BY <1>4, <3>2, <3>3
    <3>5. QED
      BY <1>1, <1>4, <2>2, <3>1, <3>4 DEF FreshCache
  <2>3. QED
    BY <2>1, <2>2
<1>9. QED
  BY <1>7, <1>8

(* A page that saves a balance, or is told of another handler's change. *)
LEMMA PagesPostFiles ==
  ASSUME IInv, FilesInv, NEW b \in Pages, SaveBalance(b) \/ OtherHandler(b)
  PROVE  FilesInv'
<1>1. UNCHANGED <<dal, volumes, wire, online, cached, failed, worker, reader>>
  BY DEF SaveBalance, OtherHandler, Act, others, host, snapserver, cache
<1>2. Echoing
  BY <1>1, EchoesStay
<1>3. UNCHANGED posts \/ \E tabs : Post(tabs, None)
  BY DEF SaveBalance, OtherHandler
<1>4. \A p : (p \in OnFile /\ Fresh(p)) => FreshReader(p)'
  BY <1>1, EchoesStay DEF Fresh, FreshReader
<1>5. CASE UNCHANGED posts
  BY <1>1, <1>5, FilesStay
<1>6. CASE \E tabs : Post(tabs, None)
  BY <1>1, <1>2, <1>4, <1>6, PostsStay
<1>7. QED
  BY <1>3, <1>5, <1>6

(* Every step of the composition. *)
LEMMA FilesInvPreserved ==
  ASSUME IInv, FilesInv, [Next]_vars
  PROVE  FilesInv'
<1>1. CASE Reader
  <2>1. CASE SeedOne
    <3>1. /\ UNCHANGED <<rest, wire, cache, posts, failed>>
          /\ reader.stage = "seed" /\ ReaderShape
      BY <2>1 DEF SeedOne, Resumes, Upset, bounds, IInv, Shape
    <3>2. reader'.stage \in {"seed", "file"} /\ reader'.seen = reader.seen
      BY <2>1, <3>1 DEF SeedOne, ReaderShape
    <3>3. QED
      BY <3>1, <3>2, SeedingFiles
  <2>2. QED
    BY <1>1, <2>1, ReadNotificationFiles, FilesAreFetched, SeedFileFiles, FinishLoadFiles,
       StoreVolumeFiles DEF Reader
<1>2. CASE Worker
  BY <1>2, TakeFiles, ApplyVolumeFiles DEF Worker
<1>3. CASE \/ Dirty \/ RestoreNext \/ UNCHANGED vars
           \/ \E b \in Pages : \/ Restore(b) \/ OnScreen(b) \/ Browser(b)
                               \/ \E p \in Players : Slide(b, p) \/ SetMute(b, p)
  <2>1. UNCHANGED <<dal, posts, reader, volumes, worker, wire, online, cached, failed>>
    BY <1>3 DEF Dirty, Deliver, RestoreNext, Restore, OnScreen, Browser, Slide, SetMute, Act, Upset,
       others, host, snapserver, cache, bounds, vars
  <2>2. QED
    BY <2>1, FilesStay
<1>4. QED
  BY <1>1, <1>2, <1>3, ServerChangeFiles, CommandFailsFiles, RunPostFiles, PagesPostFiles
  DEF Next

(* The cache starts with the files of the players that are known. *)
LEMMA FilesInvAtStart ==
  ASSUME Init
  PROVE  FilesInv
<1>1. /\ wire = <<>> /\ posts = <<>> /\ online = Known /\ cached = Known
      /\ reader.stage = "idle" /\ worker.stage = "idle" /\ Known \subseteq Players
  BY VolumeAssumption DEF Init, AtRest, Resting
<1>2. \A p \in Known : Current[p] = dal[p]
  BY <1>1 DEF Init, Current
<1>3. Synced
  BY <1>1 DEF Synced
<1>4. \A p : FreshPosts(p) /\ FreshWorker(p) /\ FreshReader(p)
  BY <1>1 DEF FreshPosts, FreshWorker, FreshReader, Loading
<1>5. QED
  BY <1>1, <1>2, <1>3, <1>4 DEF FilesInv, Fresh, FreshCache

(* So the invariant holds for ever. *)
LEMMA FilesInvariance == Spec => []FilesInv
<1>1. Init => FilesInv
  BY FilesInvAtStart
<1>2. IInv /\ FilesInv /\ [Next]_vars => FilesInv'
  BY FilesInvPreserved
<1>3. QED
  BY <1>1, <1>2, Invariance, PTL DEF Spec

(* When nothing is under way, the cache holds of each connected player what *)
(* its file does, unless a command of it failed: an observer's post and the *)
(* reader's load may carry what another write has overtaken, but the echo   *)
(* of that write comes behind them (_apply_volume, _load_volumes,           *)
(* Client.OnVolumeChanged).                                                 *)
THEOREM CacheHoldsFiles == Spec => []CacheFollowsFiles
<1>1. IInv /\ FilesInv => CacheFollowsFiles
  <2>1. SUFFICES ASSUME IInv, FilesInv, Quiet, NEW p \in online \ failed
                 PROVE  Current[p] = dal[p]
    BY DEF CacheFollowsFiles
  <2>2. \A n : ~ Rereads(p, n)
    BY <2>1 DEF Quiet, Rereads, EchoDue, WorkedOn, Echoes
  <2>3. ~ StatusDue
    BY <2>1 DEF Quiet, StatusDue
  <2>4. QED
    BY <2>1, <2>2, <2>3 DEF Quiet, FilesInv, FreshCache, Loading, IInv, Shape, CacheShape
<1>2. QED
  BY <1>1, Invariance, FilesInvariance, PTL

-----------------------------------------------------------------------------
(* What was delivered, and what the pages show of it.  A difference that is *)
(* not signalled is one the reader has yet to signal: it loads, a status is *)
(* on its way, or it will store the file of which the observer posted.     *)
Signalled == armed \/ reader.stage \in Loading \cup {"load"}
Untold(p) == Signalled \/ StatusDue \/ (p \in OnFile /\ Rereads(p, 0))
ToldInv ==
  /\ Signalled \/ (cached = prev[1] /\ seenStreams = prev[3])
  /\ \A p \in online \ failed : Current[p] = prev[2][p] \/ Untold(p)

(* Players that left are still in the cache only for want of reading that. *)
Gone(p) == \E i \in 1 .. Len(wire) : wire[i].kind = "gone" /\ wire[i].player = p
LeftInv == \A p \in cached \ online : StatusDue \/ Gone(p)

(* What the cards may be: of the players that were told, those that were   *)
(* apart aside, and bound to a dict in which players that did not stray    *)
(* have the volumes that were told.                                        *)
CardsOf(dicts, told, away, off) ==
  {s \in [dict : 1 .. Len(dicts), cards : SUBSET Players, known : SUBSET Players] :
     /\ s.cards \ off = told[1] \ off
     /\ \A p \in Players \ away :
          /\ dicts[s.dict][p] = told[2][p]
          /\ p \in s.cards => (p \in s.known <=> told[2][p] \in Levels)}

(* What the reference indicator may show, unless early: that of players of *)
(* which each has the volume that was told or that of its file.            *)
IndicatorsOf(players, told, files, balance) ==
  {s \in [at : BOOLEAN, early : BOOLEAN] :
     s.early \/ \E m \in Volumes : /\ \A p \in players : m[p] \in {files[p], told[p]}
                                  /\ s.at = AtReference(players, m, balance)}

(* A tab of a page that is told of changes shows one of S, or it is stale. *)
Built(r, t, S) == IsRecord(r) /\ (r.registered /\ t \notin r.stale => r.shown[t] \in S)

(* The tab will be rebuilt since a file or the reference has changed.      *)
SettingsPosted ==
  \/ \E i \in 1 .. Len(posts) : "settings" \in posts[i].tabs
  \/ worker.stage \in {"list", "post"} \/ reader.stage \in {"list", "post"}

StrayInv ==
  /\ \A p \in Players : Current[p] = prev[2][p] \/ p \in strayed
  /\ cached \ apart = prev[1] \ apart
CardsInv ==
  \A b \in Pages : Built(page[b], "players", CardsOf(volumes, prev, strayed, apart))
IndicatorInv ==
  SettingsPosted \/
    \A b \in Pages : Built(page[b], "settings", IndicatorsOf(prev[1], prev[2], dal, ref))

ShowsInv == ToldInv /\ LeftInv /\ StrayInv /\ CardsInv /\ IndicatorInv

-----------------------------------------------------------------------------
(* A tab that is built, and the page's other tabs and fields. *)
LEMMA RebuildBuilds ==
  ASSUME NEW r, NEW t \in Tabs, NEW S, IsRecord(r), NEW tabs, NEW now,
         Built(r, t, S) \/ t \in tabs, t \in tabs => now[t] \in S
  PROVE  Built(Rebuild(r, tabs, now), t, S)
<1> DEFINE n == Rebuild(r, tabs, now)
<1>1. /\ IsRecord(n) /\ n.registered = r.registered /\ n.stale = r.stale \ tabs
      /\ n.shown = [u \in Tabs |-> IF u \in tabs THEN now[u] ELSE r.shown[u]]
  BY DEF IsRecord, Fields, Rebuild
<1> HIDE DEF n
<1>2. n.shown[t] = IF t \in tabs THEN now[t] ELSE r.shown[t]
  BY <1>1
<1>3. QED
  BY <1>1, <1>2 DEF Built, n

(* The other fields do not matter, and one more tab may be stale. *)
LEMMA OthersBuild ==
  ASSUME NEW r, NEW t, NEW S, Built(r, t, S), NEW v, NEW w, NEW x
  PROVE  /\ Built([r EXCEPT !.late = v], t, S)
         /\ Built([r EXCEPT !.open = v, !.closing = w], t, S)
         /\ Built([r EXCEPT !.flag = v, !.open = w, !.mixed = x], t, S)
         /\ Built([r EXCEPT !.connected = v], t, S)
         /\ Built([r EXCEPT !.registered = FALSE], t, S)
         /\ Built([r EXCEPT !.connected = v, !.registered = FALSE], t, S)
         /\ Built([r EXCEPT !.deferred = v], t, S)
         /\ Built([r EXCEPT !.flag = v, !.deferred = w], t, S)
         /\ Built([r EXCEPT !.stale = @ \cup v], t, S)
BY DEF Built, IsRecord, Fields

(* A dialog that closes. *)
LEMMA CloseBuilds ==
  ASSUME NEW r, NEW t \in Tabs, NEW S, Built(r, t, S), NEW now, now[t] \in S
  PROVE  Built(CloseDialog(r, now), t, S)
<1> DEFINE m == [r EXCEPT !.flag = FALSE, !.deferred = {}]
<1>1. Built(m, t, S)
  BY OthersBuild
<1> HIDE DEF m
<1>2. IsRecord(m)
  BY <1>1 DEF Built
<1>3. QED
  BY <1>1, <1>2, RebuildBuilds DEF CloseDialog, m

(* A fan-out that reaches a page.  Of a tab that is among those told, it   *)
(* does not matter what it showed before.                                  *)
LEMMA NotifiedBuilds ==
  ASSUME NEW r, NEW t \in Tabs, NEW S, IsRecord(r), NEW tabs, NEW now,
         Built(r, t, S) \/ t \in tabs, t \in tabs => now[t] \in S
  PROVE  Built(Notified(r, tabs, now), t, S)
<1> DEFINE c == [r EXCEPT !.stale = @ \cup tabs]
<1>1. /\ IsRecord(c) /\ c.registered = r.registered /\ c.stale = r.stale \cup tabs
      /\ c.shown = r.shown
  BY DEF IsRecord, Fields
<1>2. Built(c, t, S)
  BY <1>1 DEF Built
<1> HIDE DEF c
<1>3. /\ Built([c EXCEPT !.registered = FALSE], t, S)
      /\ Built([c EXCEPT !.deferred = @ \cup tabs], t, S)
      /\ Built(Rebuild(c, tabs, now), t, S)
  BY <1>1, <1>2, OthersBuild, RebuildBuilds
<1>4. QED
  BY <1>2, <1>3 DEF Notified, c

(* An overlay that closes. *)
LEMMA LeaveBuilds ==
  ASSUME NEW r, NEW t \in Tabs, NEW S, Built(r, t, S), NEW o, NEW now, now[t] \in S
  PROVE  Built(Leave(r, o, now), t, S) /\ Built(CloseDialog(Shut(r, o), now), t, S)
<1> DEFINE n == [r EXCEPT !.open = @ \ {o}, !.closing = @ \cup {o}]
<1>1. Built(n, t, S) /\ Built(Shut(r, o), t, S)
  BY OthersBuild DEF Shut
<1> HIDE DEF n
<1>2. QED
  BY <1>1, CloseBuilds DEF Leave, n

(* A handler that ends. *)
LEMMA ResumedBuilds ==
  ASSUME NEW r, NEW t \in Tabs, NEW S, Built(r, t, S), NEW h, NEW now, now[t] \in S
  PROVE  Built(Resumed(r, h, now), t, S)
<1> DEFINE d == [r EXCEPT !.late = @ \ {h}]
<1>1. Built(d, t, S)
  BY OthersBuild
<1> HIDE DEF d
<1>2. Built(CloseDialog(d, now), t, S)
  BY <1>1, CloseBuilds
<1>3. IsRecord(d) /\ IsRecord(CloseDialog(d, now))
  BY <1>1, <1>2 DEF Built
<1>4. /\ Built(Rebuild(d, {"sources"}, now), t, S)
      /\ Built(Rebuild(d, {"players"}, now), t, S)
      /\ Built(Rebuild(CloseDialog(d, now), {"players"}, now), t, S)
  BY <1>1, <1>2, <1>3, RebuildBuilds
<1>5. QED
  BY <1>4 DEF Resumed, d

(* All pages, when one of them changes, and when all are told. *)
LEMMA WithBuilds ==
  ASSUME PagesInv, NEW t, NEW S, \A c \in Pages : Built(page[c], t, S),
         NEW b, NEW r, With(b, r), b \in Pages => Built(r, t, S)
  PROVE  \A c \in Pages : Built(page'[c], t, S)
<1>1. \A c \in Pages : page'[c] = IF c = b THEN r ELSE page[c]
  BY DEF With, PagesInv
<1>2. QED
  BY <1>1

(* A fan-out. *)
LEMMA FanOutBuilds ==
  ASSUME PagesInv, NEW t \in Tabs, NEW S, NEW tabs, NEW now, FanOut(tabs, now),
         t \in tabs \/ \A c \in Pages : Built(page[c], t, S), t \in tabs => now[t] \in S
  PROVE  \A c \in Pages : Built(page'[c], t, S)
<1>1. \A c \in Pages : page'[c] = Notified(page[c], tabs, now)
  BY DEF FanOut
<1>2. \A c \in Pages : IsRecord(page[c])
  BY DEF PagesInv, PageOk, IsPage, IsRecord
<1>3. QED
  BY <1>1, <1>2, NotifiedBuilds

(* What a user does on the screen. *)
LEMMA ScreenBuilds ==
  ASSUME NEW t \in Tabs, NEW S, \A c \in Pages : Built(page[c], t, S),
         NEW b \in Pages, NEW now, now[t] \in S, PagesInv, Screen(b, now)
  PROVE  \A c \in Pages : Built(page'[c], t, S)
<1> DEFINE r == page[b]
           Fine == \A c \in Pages : Built(page'[c], t, S)
<1>0. Built(r, t, S)
  OBVIOUS
<1>1. \A n : With(b, n) /\ Built(n, t, S) => Fine
  BY WithBuilds
<1>2. SUFFICES Fine
  OBVIOUS
<1> HIDE DEF Fine
<1>3. ASSUME NEW o \in Overlays, Open(b, o)
      PROVE  Fine
  BY <1>0, <1>1, <1>3, OthersBuild DEF Open
<1>4. ASSUME NEW o \in Overlays, Dismiss(b, o, now)
      PROVE  Fine
  <2>1. Built(CloseDialog(Shut(r, o), now), t, S)
    BY <1>0, LeaveBuilds
  <2>2. IsRecord(CloseDialog(Shut(r, o), now))
    BY <2>1 DEF Built
  <2>3. Built(Rebuild(CloseDialog(Shut(r, o), now), {"sources"}, now), t, S)
    BY <2>1, <2>2, RebuildBuilds
  <2>4. QED
    BY <1>1, <1>4, <2>1, <2>3 DEF Dismiss
<1>5. CASE Cancel(b, now)
  BY <1>0, <1>1, <1>5, LeaveBuilds DEF Cancel
<1>6. CASE Pick(b, now)
  <2>1. Built(Leave(r, "menu", now), t, S)
    BY <1>0, LeaveBuilds
  <2>2. Built([Leave(r, "menu", now) EXCEPT !.late = @ \cup {"move"}], t, S)
    BY <2>1, OthersBuild
  <2>3. QED
    BY <1>1, <1>6, <2>2 DEF Pick
<1>7. CASE Save(b)
  BY <1>0, <1>1, <1>7, OthersBuild DEF Save
<1>8. CASE Confirm(b, now)
  <2>1. Built(CloseDialog(Shut(r, "disable"), now), t, S)
    BY <1>0, LeaveBuilds
  <2>2. Built([CloseDialog(Shut(r, "disable"), now) EXCEPT !.late = @ \cup {"toggle"}], t, S)
    BY <2>1, OthersBuild
  <2>3. QED
    BY <1>1, <1>8, <2>2 DEF Confirm
<1>9. ASSUME NEW h \in Handlers, Resume(b, h, now)
      PROVE  Fine
  <2>1. Built(Resumed(r, h, now), t, S) /\ Built([r EXCEPT !.late = @ \ {h}], t, S)
    BY <1>0, ResumedBuilds, OthersBuild
  <2>2. QED
    BY <1>1, <1>9, <2>1 DEF Resume
<1>10. QED
  BY <1>3, <1>4, <1>5, <1>6, <1>7, <1>8, <1>9 DEF Screen

-----------------------------------------------------------------------------
(* A card that is built is bound to the last dict. *)
LEMMA RenderedCard ==
  ASSUME NEW dicts \in Seq(Volumes), dicts # <<>>, NEW told, NEW away, NEW off,
         \A p \in Players \ away : dicts[Len(dicts)][p] = told[2][p],
         NEW players \in SUBSET Players, players \ off = told[1] \ off,
         NEW balance, NEW early
  PROVE  Rendering(players, dicts, balance, early)["players"] \in CardsOf(dicts, told, away, off)
<1> DEFINE known == {p \in players : dicts[Len(dicts)][p] \in Levels}
           s == [dict |-> Len(dicts), cards |-> players, known |-> known]
<1>1. Len(dicts) \in 1 .. Len(dicts)
  OBVIOUS
<1>2. s \in CardsOf(dicts, told, away, off)
  <2>1. s \in [dict : 1 .. Len(dicts), cards : SUBSET Players, known : SUBSET Players]
    BY <1>1
  <2>2. s.cards = players /\ s.dict = Len(dicts) /\ s.known = known
    OBVIOUS
  <2> HIDE DEF s
  <2>3. QED
    BY <2>1, <2>2 DEF CardsOf
<1>3. QED
  BY <1>2 DEF Rendering

(* An indicator that is not early takes its volumes from it. *)
LEMMA RenderedIndicator ==
  ASSUME NEW dicts \in Seq(Volumes), dicts # <<>>, NEW told, NEW files, NEW players, NEW balance,
         NEW delivered, NEW early \in BOOLEAN,
         ~early => /\ players = delivered
                   /\ \A p \in players : dicts[Len(dicts)][p] \in {files[p], told[p]}
  PROVE  Rendering(players, dicts, balance, early)["settings"]
           \in IndicatorsOf(delivered, told, files, balance)
<1> DEFINE at == AtReference(players, dicts[Len(dicts)], balance)
           s == [at |-> at, early |-> early]
<1>1. dicts[Len(dicts)] \in Volumes
  OBVIOUS
<1>2. at \in BOOLEAN
  BY DEF AtReference
<1>3. s \in [at : BOOLEAN, early : BOOLEAN] /\ s.at = at /\ s.early = early
  BY <1>2
<1>4. s \in IndicatorsOf(delivered, told, files, balance)
  BY <1>1, <1>3 DEF IndicatorsOf
<1>5. QED
  BY <1>4 DEF Rendering

(* A dict that changes, or a new one: those who did not stray are as told. *)
LEMMA CardsGrow ==
  ASSUME IInv, CacheShape', Stray, UNCHANGED prev, Len(volumes) <= Len(volumes'),
         \A i \in 1 .. Len(volumes) : i < Len(volumes') => volumes'[i] = volumes[i]
  PROVE  CardsOf(volumes, prev, strayed, apart) \subseteq CardsOf(volumes', prev', strayed', apart')
<1>1. Len(volumes) \in Nat /\ Len(volumes') \in Nat
  BY DEF IInv, Shape, CacheShape
<1>2. /\ strayed \subseteq strayed' /\ apart \subseteq apart'
      /\ \A p \in Players \ strayed' : volumes'[Len(volumes')][p] = prev'[2][p]
  BY DEF Stray, Current
<1>3. SUFFICES ASSUME NEW s \in CardsOf(volumes, prev, strayed, apart)
               PROVE  s \in CardsOf(volumes', prev', strayed', apart')
  OBVIOUS
<1>4. /\ s \in [dict : 1 .. Len(volumes), cards : SUBSET Players, known : SUBSET Players]
      /\ s.cards \ apart = prev[1] \ apart
      /\ \A p \in Players \ strayed :
           /\ volumes[s.dict][p] = prev[2][p]
           /\ p \in s.cards => (p \in s.known <=> prev[2][p] \in Levels)
  BY DEF CardsOf
<1>5. /\ s \in [dict : 1 .. Len(volumes'), cards : SUBSET Players, known : SUBSET Players]
      /\ s.dict \in 1 .. Len(volumes)
  BY <1>1, <1>4
<1>6. ASSUME NEW p \in Players \ strayed'
      PROVE  volumes'[s.dict][p] = prev'[2][p]
  <2>1. CASE s.dict < Len(volumes')
    BY <1>2, <1>4, <1>5, <2>1
  <2>2. CASE s.dict = Len(volumes')
    BY <1>2, <2>2
  <2>3. QED
    BY <1>1, <1>5, <2>1, <2>2
<1>7. s.cards \ apart' = prev'[1] \ apart'
  BY <1>2, <1>4
<1>8. QED
  BY <1>2, <1>4, <1>5, <1>6, <1>7 DEF CardsOf

(* Nothing of it moves. *)
LEMMA CardsStay ==
  ASSUME CardsInv, UNCHANGED page,
         CardsOf(volumes, prev, strayed, apart) \subseteq CardsOf(volumes', prev', strayed', apart')
  PROVE  CardsInv'
BY DEF CardsInv, Built

(* The cache's dict, when something in it is replaced. *)
LEMMA DictReplaced ==
  ASSUME CacheShape, CacheShape', NEW e, volumes' = [volumes EXCEPT ![Len(volumes)] = e]
  PROVE  /\ Len(volumes') = Len(volumes)
         /\ \A i \in 1 .. Len(volumes) : i < Len(volumes') => volumes'[i] = volumes[i]
<1>1. /\ volumes \in Seq(Volumes) /\ volumes' \in Seq(Volumes)
      /\ Len(volumes) \in Nat /\ Len(volumes') \in Nat
  BY DEF CacheShape
<1>2. DOMAIN volumes' = DOMAIN volumes
  OBVIOUS
<1>3. Len(volumes') = Len(volumes)
  BY <1>1, <1>2
<1>4. ASSUME NEW i \in 1 .. Len(volumes), i < Len(volumes')
      PROVE  volumes'[i] = volumes[i]
  <2>1. DOMAIN volumes = 1 .. Len(volumes)
    BY <1>1
  <2>2. i # Len(volumes)
    <3>1. \A n \in Nat : ~ (n < n)
      OBVIOUS
    <3>2. QED
      BY <1>1, <1>3, <1>4, <3>1
  <2>3. QED
    BY <2>1, <2>2
<1>5. QED
  BY <1>3, <1>4

(* The reader changes a dict, or replaces it. *)
LEMMA ReaderCards ==
  ASSUME IInv, IInv', CardsInv, Reader
  PROVE  CardsInv'
<1> DEFINE Grow == /\ Len(volumes) <= Len(volumes')
                   /\ \A i \in 1 .. Len(volumes) : i < Len(volumes') => volumes'[i] = volumes[i]
           Changed == \E e : volumes' = [volumes EXCEPT ![Len(volumes)] = e]
<1>1. /\ CacheShape /\ CacheShape' /\ Len(volumes) \in Nat
      /\ volumes \in Seq(Volumes)
  BY DEF IInv, Shape, CacheShape
<1>2. UNCHANGED <<page, prev>>
  BY DEF Reader, ReadNotification, LoadFiles, SeedOne, SeedFile, FinishLoad, GetFile,
         StoreVolume, rest, cache
<1>3. \/ UNCHANGED <<volumes, strayed, apart>>
      \/ Stray /\ (Changed \/ UNCHANGED volumes \/ \E e : volumes' = Append(volumes, e))
  <2>1. CASE ReadNotification
    BY <2>1 DEF ReadNotification, Put, cache
  <2>2. CASE FinishLoad
    BY <2>2 DEF FinishLoad
  <2>3. CASE StoreVolume
    BY <2>3 DEF StoreVolume, Put
  <2>4. CASE LoadFiles \/ SeedOne \/ SeedFile \/ GetFile
    BY <2>4 DEF LoadFiles, SeedOne, SeedFile, GetFile, cache
  <2>5. QED
    BY <2>1, <2>2, <2>3, <2>4 DEF Reader
<1>4. Changed => Grow
  BY <1>1, DictReplaced
<1>5. UNCHANGED volumes => Grow
  BY <1>1
<1>6. ASSUME NEW e, volumes' = Append(volumes, e)
      PROVE  Grow
  BY <1>1, <1>6
<1> HIDE DEF Grow, Changed
<1>7. CASE UNCHANGED <<volumes, strayed, apart>>
  BY <1>2, <1>7, CardsStay
<1>8. CASE Stray /\ Grow
  BY <1>1, <1>2, <1>8, CardsGrow, CardsStay DEF Grow
<1>9. QED
  BY <1>3, <1>4, <1>5, <1>6, <1>7, <1>8

(* The timer's fan-out tells every page what is then delivered, and nobody *)
(* has strayed from that.                                                  *)
LEMMA DirtyCards ==
  ASSUME IInv, PagesInv, CardsInv, Dirty
  PROVE  CardsInv'
<1>1. CASE Snapshot = prev
  <2>1. UNCHANGED <<page, prev, strayed, apart, volumes>>
    BY <1>1 DEF Dirty, Deliver
  <2>2. QED
    BY <2>1, CardsStay
<1>2. CASE Snapshot # prev
  <2> DEFINE now == Rendering(cached, volumes, ref, FALSE)
             S == CardsOf(volumes, Snapshot, {}, {})
  <2>1. /\ prev' = Snapshot /\ strayed' = {} /\ apart' = {} /\ UNCHANGED volumes
        /\ \E tabs : "players" \in tabs /\ FanOut(tabs, now)
    BY <1>2 DEF Dirty, Deliver
  <2>2. PICK tabs : "players" \in tabs /\ FanOut(tabs, now)
    BY <2>1
  <2>3. CardsOf(volumes', prev', strayed', apart') = S
    BY <2>1
  <2>4. now["players"] \in S
    BY RenderedCard DEF IInv, Shape, CacheShape, Current, Snapshot
  <2> HIDE DEF now, S
  <2>5. \A c \in Pages : Built(page'[c], "players", S)
    BY <2>2, <2>4, FanOutBuilds DEF Tabs
  <2>6. QED
    BY <2>3, <2>5 DEF CardsInv
<1>3. QED
  BY <1>1, <1>2

(* So does an observer's post, if it is about the cards. *)
LEMMA RunPostCards ==
  ASSUME IInv, IInv', PagesInv, StrayInv', CardsInv, RunPost
  PROVE  CardsInv'
<1> DEFINE T == CardsOf(volumes, prev, strayed, apart)
           S == CardsOf(volumes', prev', strayed', apart')
<1>1. CacheShape /\ CacheShape' /\ Len(volumes) \in Nat
  BY DEF IInv, Shape, CacheShape
<1>2. UNCHANGED <<prev, cached>> /\ Stray
      /\ (UNCHANGED volumes \/ \E e : volumes' = [volumes EXCEPT ![Len(volumes)] = e])
  BY DEF RunPost
<1>3. T \subseteq S
  <2>1. /\ Len(volumes) <= Len(volumes')
        /\ \A i \in 1 .. Len(volumes) : i < Len(volumes') => volumes'[i] = volumes[i]
    BY <1>1, <1>2, DictReplaced
  <2>2. QED
    BY <1>1, <1>2, <2>1, CardsGrow
<1>4. \A early : Rendering(cached, volumes', ref, early)["players"] \in S
  <2>1. /\ volumes' \in Seq(Volumes) /\ volumes' # <<>> /\ cached \in SUBSET Players
    BY <1>1, <1>2 DEF CacheShape
  <2>2. /\ \A p \in Players \ strayed' : volumes'[Len(volumes')][p] = prev'[2][p]
        /\ cached \ apart' = prev'[1] \ apart'
    BY <1>2 DEF StrayInv, Current
  <2>3. QED
    BY <2>1, <2>2, RenderedCard
<1>5. \A c \in Pages : Built(page[c], "players", S)
  BY <1>3 DEF CardsInv, Built
<1>6. PICK tabs, early : FanOut(tabs, Rendering(cached, volumes', ref, early))
  BY DEF RunPost
<1> HIDE DEF S
<1>7. \A c \in Pages : Built(page'[c], "players", S)
  BY <1>4, <1>5, <1>6, FanOutBuilds DEF Tabs
<1>8. QED
  BY <1>7 DEF CardsInv, S

(* A page that users change, when nothing else is. *)
LEMMA PageBuilds ==
  ASSUME PagesInv, NEW t \in Tabs, NEW S, \A c \in Pages : Built(page[c], t, S), Now[t] \in S,
         NEW b \in Pages, RestoreNext \/ OtherHandler(b) \/ OnScreen(b) \/ Browser(b)
  PROVE  \A c \in Pages : Built(page'[c], t, S)
<1> DEFINE Fine == \A c \in Pages : Built(page'[c], t, S)
<1>1. \A c : \A n : With(c, n) /\ (c \in Pages => Built(n, t, S)) => Fine
  BY WithBuilds
<1>2. UNCHANGED page => Fine
  OBVIOUS
<1>3. SUFFICES Fine
  OBVIOUS
<1>4. CASE OnScreen(b)
  BY <1>4, ScreenBuilds DEF OnScreen
<1> HIDE DEF Fine
<1>5. \A c \in Pages : IsRecord(page[c])
  BY DEF Built
<1>6. CASE RestoreNext
  <2>1. restore.page \in Pages => Built(Rebuild(page[restore.page], {"players"}, Now), t, S)
    BY <1>5, RebuildBuilds
  <2>2. UNCHANGED page \/ With(restore.page, Rebuild(page[restore.page], {"players"}, Now))
    BY <1>6 DEF RestoreNext
  <2>3. QED
    BY <1>1, <1>2, <2>1, <2>2
<1>7. CASE OtherHandler(b)
  <2>1. \E h : With(b, [page[b] EXCEPT !.late = @ \cup {h}])
    BY <1>7 DEF OtherHandler, Begin
  <2>2. \A h : Built([page[b] EXCEPT !.late = @ \cup {h}], t, S)
    BY OthersBuild
  <2>3. QED
    BY <1>1, <2>1, <2>2
<1>8. CASE Browser(b)
  <2>1. /\ Built([page[b] EXCEPT !.connected = FALSE, !.registered = FALSE], t, S)
        /\ Built([page[b] EXCEPT !.connected = TRUE], t, S)
    BY OthersBuild
  <2>2. ASSUME NEW c \in BOOLEAN
        PROVE  Built([Loaded(Now) EXCEPT !.connected = c], t, S)
    <3> DEFINE r == [Loaded(Now) EXCEPT !.connected = c]
    <3>1. IsRecord(r) /\ r.shown = Now
      BY DEF IsRecord, Fields, Loaded
    <3> HIDE DEF r
    <3>2. Built(r, t, S)
      BY <3>1 DEF Built
    <3>3. QED
      BY <3>2 DEF r
  <2>3. QED
    BY <1>1, <1>8, <2>1, <2>2 DEF Browser, Disconnect, Reconnect, Reload
<1>9. QED
  BY <1>4, <1>6, <1>7, <1>8

(* Every step, for the cards. *)
LEMMA CardsPreserved ==
  ASSUME IInv, IInv', PagesInv, StrayInv, StrayInv', CardsInv, [Next]_vars
  PROVE  CardsInv'
<1> DEFINE S == CardsOf(volumes, prev, strayed, apart)
<1>1. CASE \/ ServerChange \/ Worker \/ CommandFails \/ UNCHANGED vars
           \/ \E b \in Pages : Restore(b) \/ \E p \in Players : Slide(b, p) \/ SetMute(b, p)
  <2>1. UNCHANGED <<page, cache>>
    BY <1>1 DEF ServerChange, Worker, Take, ApplyVolume, CommandFails, vars, Restore, Slide,
       SetMute, others
  <2>2. QED
    BY <2>1, CardsStay DEF cache
<1>2. \A balance, early : Rendering(cached, volumes, balance, early)["players"] \in S
  BY RenderedCard DEF IInv, Shape, CacheShape, StrayInv, Current
<1>3. ASSUME NEW b \in Pages,
             SaveBalance(b) \/ RestoreNext \/ OtherHandler(b) \/ OnScreen(b) \/ Browser(b)
      PROVE  CardsInv'
  <2>1. UNCHANGED <<volumes, prev, strayed, apart>>
    BY <1>3 DEF SaveBalance, RestoreNext, OtherHandler, OnScreen, Browser, others, cache
  <2>2. Now["players"] \in S
    BY <1>2 DEF Now
  <2>3. \A c \in Pages : Built(page[c], "players", S) /\ IsRecord(page[c])
    BY DEF CardsInv, Built
  <2> HIDE DEF S
  <2>4. \A c \in Pages : Built(page'[c], "players", S)
    <3>1. CASE SaveBalance(b)
      <4>1. PICK early : With(b, Rebuild(page[b], {"settings"},
                                         Rendering(cached, volumes, ref', early)))
        BY <3>1 DEF SaveBalance
      <4>2. Built(Rebuild(page[b], {"settings"}, Rendering(cached, volumes, ref', early)),
                  "players", S)
        BY <1>2, <2>3, RebuildBuilds DEF Tabs
      <4>3. QED
        BY <2>3, <4>1, <4>2, WithBuilds
    <3>2. CASE ~ SaveBalance(b)
      BY <1>3, <2>2, <2>3, <3>2, PageBuilds DEF Tabs
    <3>3. QED
      BY <3>1, <3>2
  <2>5. QED
    BY <2>1, <2>4 DEF CardsInv, S
<1>4. CASE RestoreNext
  <2>1. CASE Pages = {}
    BY <2>1 DEF CardsInv
  <2>2. CASE \E b \in Pages : TRUE
    BY <1>3, <1>4, <2>2
  <2>3. QED
    BY <2>1, <2>2
<1>5. QED
  BY <1>1, <1>3, <1>4, ReaderCards, DirtyCards, RunPostCards DEF Next

-----------------------------------------------------------------------------
(* A post that comes is run behind the others. *)
LEMMA Behind ==
  ASSUME IInv, NEW tabs, NEW all, Post(tabs, all)
  PROVE  /\ \A i \in 1 .. Len(posts) : i \in 1 .. Len(posts') /\ posts'[i] = posts[i]
         /\ "settings" \in tabs => SettingsPosted'
<1> DEFINE e == [tabs |-> tabs, all |-> all]
<1>1. posts' = Append(posts, e) /\ e.tabs = tabs
  BY DEF Post
<1> HIDE DEF e
<1>2. /\ Len(posts') = Len(posts) + 1 /\ posts'[Len(posts) + 1] = e /\ Len(posts) \in Nat
      /\ \A i \in 1 .. Len(posts) : posts'[i] = posts[i]
  BY <1>1 DEF IInv, Shape, PostShape
<1>3. /\ \A i \in 1 .. Len(posts) : i \in 1 .. Len(posts')
      /\ Len(posts) + 1 \in 1 .. Len(posts')
  BY <1>2
<1>4. QED
  BY <1>1, <1>2, <1>3 DEF SettingsPosted

(* A file that is written, or a reference that is saved, has the tabs with *)
(* the indicator rebuilt: whoever writes it posts that behind it.          *)
LEMMA PostedStays ==
  ASSUME IInv, SettingsPosted,
         UNCHANGED posts \/ \E tabs, all : Post(tabs, all),
         \/ worker' = worker \/ worker.stage \notin {"list", "post"}
         \/ worker'.stage \in {"list", "post"} \/ \E all : Post({"settings"}, all),
         \/ reader' = reader \/ reader.stage \notin {"list", "post"}
         \/ reader'.stage \in {"list", "post"} \/ \E all : Post({"settings"}, all)
  PROVE  SettingsPosted'
<1>1. Len(posts) \in Nat
  BY DEF IInv, Shape, PostShape
<1>2. ASSUME NEW tabs, NEW all, Post(tabs, all)
      PROVE  \A i \in 1 .. Len(posts) : i \in 1 .. Len(posts') /\ posts'[i] = posts[i]
  BY <1>2, Behind
<1>3. ASSUME NEW all, Post({"settings"}, all)
      PROVE  SettingsPosted'
  BY <1>3, Behind
<1>4. CASE \E i \in 1 .. Len(posts) : "settings" \in posts[i].tabs
  <2>1. CASE UNCHANGED posts
    BY <1>4, <2>1 DEF SettingsPosted
  <2>2. CASE \E tabs, all : Post(tabs, all)
    BY <1>2, <1>4, <2>2 DEF SettingsPosted
  <2>3. QED
    BY <2>1, <2>2
<1>5. CASE worker.stage \in {"list", "post"}
  BY <1>3, <1>5 DEF SettingsPosted
<1>6. CASE reader.stage \in {"list", "post"}
  BY <1>3, <1>6 DEF SettingsPosted
<1>7. QED
  BY <1>4, <1>5, <1>6 DEF SettingsPosted

(* What is posted is on its way when a post is not about the indicator. *)
LEMMA RunPostPosted ==
  ASSUME IInv, RunPost, SettingsPosted, "settings" \notin Head(posts).tabs
  PROVE  SettingsPosted'
<1>1. PostShape /\ ReaderShape
  BY DEF IInv, Shape
<1>2. /\ Len(posts') = Len(posts) - 1 /\ Len(posts) \in Nat \ {0}
      /\ \A i \in 1 .. Len(posts) - 1 : posts'[i] = posts[i + 1]
      /\ Head(posts) = posts[1]
  BY <1>1, Tailed DEF PostShape, RunPost
<1>3. \A i \in 1 .. Len(posts) : i = 1 \/ (i - 1 \in 1 .. Len(posts') /\ posts'[i - 1] = posts[i])
  BY <1>2
<1>4. worker' = worker /\ reader'.stage = reader.stage
  BY <1>1 DEF RunPost, ReaderShape
<1>5. QED
  BY <1>2, <1>3, <1>4 DEF SettingsPosted

(* A volume that is the one on file leaves the file alone. *)
LEMMA SameFile ==
  ASSUME HostShape, NEW p, NEW v, dal[p] = v
  PROVE  [dal EXCEPT ![p] = v] = dal
BY DEF HostShape, Files

(* The worker, on its way from the file to the post. *)
LEMMA WorkerPosts ==
  ASSUME IInv, Worker \/ CommandFails
  PROVE  /\ SettingsPosted => SettingsPosted'
         /\ UNCHANGED dal \/ SettingsPosted'
<1>1. WorkerShape /\ HostShape /\ UNCHANGED reader
  BY DEF IInv, Shape, Worker, Take, ApplyVolume, CommandFails
<1>2. CASE Take \/ CommandFails
  <2>1. UNCHANGED <<dal, posts>> /\ worker.stage \notin {"list", "post"}
    BY <1>2 DEF Take, CommandFails, host
  <2>2. QED
    BY <1>1, <2>1, PostedStays
<1>3. CASE ApplyVolume /\ worker.stage \in {"device", "side"}
  <2>1. UNCHANGED <<dal, posts>>
    BY <1>3 DEF ApplyVolume, ReadAll, PostAll
  <2>2. QED
    BY <1>1, <1>3, <2>1, PostedStays
<1>4. CASE ApplyVolume /\ worker.stage = "file"
  <2>1. UNCHANGED posts /\ WriteFile(worker.player, worker.percent, worker, Side)
    BY <1>4 DEF ApplyVolume, ReadAll, PostAll
  <2>2. UNCHANGED dal \/ worker'.stage = "list"
    <3>1. dal[worker.player] = worker.percent => UNCHANGED dal
      BY <1>1, <2>1, SameFile DEF WriteFile
    <3>2. dal[worker.player] # worker.percent => worker'.stage = "list"
      BY <1>1, <2>1 DEF WriteFile, WorkerShape
    <3>3. QED
      BY <3>1, <3>2
  <2>3. worker'.stage = "list" => SettingsPosted'
    BY DEF SettingsPosted
  <2>4. SettingsPosted => SettingsPosted'
    BY <1>1, <1>4, <2>1, PostedStays
  <2>5. QED
    BY <2>2, <2>3, <2>4
<1>5. CASE ApplyVolume /\ worker.stage = "list"
  <2>1. UNCHANGED <<dal, posts>> /\ worker'.stage = "post"
    BY <1>1, <1>5 DEF ApplyVolume, ReadAll, PostAll, WorkerShape
  <2>2. QED
    BY <1>1, <2>1, PostedStays
<1>6. CASE ApplyVolume /\ worker.stage = "post"
  <2>1. UNCHANGED dal /\ Post({"settings"}, worker.all)
    BY <1>6 DEF ApplyVolume, ReadAll, PostAll
  <2>2. QED
    BY <2>1, Behind
<1>7. QED
  BY <1>2, <1>3, <1>4, <1>5, <1>6 DEF Worker, ApplyVolume, ReadAll, PostAll

(* The reader, when it seeds a file. *)
LEMMA ReaderPosts ==
  ASSUME IInv, Reader
  PROVE  /\ SettingsPosted => SettingsPosted'
         /\ UNCHANGED dal \/ SettingsPosted'
<1>1. ReaderShape /\ HostShape /\ UNCHANGED worker
  BY DEF IInv, Shape, Reader, ReadNotification, LoadFiles, SeedOne, SeedFile, FinishLoad,
     GetFile, StoreVolume, rest
<1>2. CASE ReadNotification \/ LoadFiles \/ SeedOne \/ FinishLoad \/ GetFile \/ StoreVolume
  <2>1. UNCHANGED <<dal, posts>> /\ reader.stage \notin {"list", "post"}
    BY <1>2 DEF ReadNotification, LoadFiles, SeedOne, FinishLoad, GetFile, StoreVolume,
       Resumes, rest, host
  <2>2. QED
    BY <1>1, <2>1, PostedStays
<1>3. CASE SeedFile /\ reader.stage = "file"
  <2>1. /\ UNCHANGED posts
        /\ UNCHANGED dal \/ WriteFile(reader.player, reader.percent, reader, Seeded)
    BY <1>3 DEF SeedFile, ReadAll, PostAll
  <2>2. dal[reader.player] = reader.percent => UNCHANGED dal
    BY <1>1, <2>1, SameFile DEF WriteFile
  <2>3. UNCHANGED dal \/ reader'.stage = "list"
    <3>1. dal[reader.player] # reader.percent => UNCHANGED dal \/ reader'.stage = "list"
      BY <1>1, <2>1 DEF WriteFile, ReaderShape
    <3>2. QED
      BY <2>2, <3>1
  <2>4. reader'.stage = "list" => SettingsPosted'
    BY DEF SettingsPosted
  <2>5. SettingsPosted => SettingsPosted'
    BY <1>1, <1>3, <2>1, PostedStays
  <2>6. QED
    BY <2>3, <2>4, <2>5
<1>4. CASE SeedFile /\ reader.stage = "list"
  <2>1. UNCHANGED <<dal, posts>> /\ reader' = [reader EXCEPT !.stage = "post", !.all = dal]
    BY <1>4 DEF SeedFile, ReadAll, PostAll
  <2>2. reader'.stage = "post"
    BY <1>1, <2>1 DEF ReaderShape
  <2>3. QED
    BY <1>1, <2>1, <2>2, PostedStays
<1>5. CASE SeedFile /\ reader.stage = "post"
  <2>1. UNCHANGED dal /\ Post({"settings"}, reader.all)
    BY <1>5 DEF SeedFile, ReadAll, PostAll
  <2>2. QED
    BY <2>1, Behind
<1>6. QED
  BY <1>2, <1>3, <1>4, <1>5 DEF Reader, SeedFile, ReadAll, PostAll

(* What was built now is an indicator of what was told and of the files.   *)
LEMMA NowIndicates ==
  ASSUME IInv
  PROVE  /\ Now["settings"] \in IndicatorsOf(prev[1], prev[2], dal, ref)
         /\ Rendering(cached, volumes, ref, FALSE)["settings"]
              \in IndicatorsOf(cached, Current, dal, ref)
<1>1. volumes \in Seq(Volumes) /\ volumes # <<>>
  BY DEF IInv, Shape, CacheShape
<1>2. CatchingUp(Current) \in BOOLEAN
  BY DEF CatchingUp
<1>3. ~ CatchingUp(Current) =>
        /\ cached = prev[1]
        /\ \A p \in cached : volumes[Len(volumes)][p] \in {dal[p], prev[2][p]}
  BY DEF CatchingUp, Current
<1>4. Now["settings"] \in IndicatorsOf(prev[1], prev[2], dal, ref)
  BY <1>1, <1>2, <1>3, RenderedIndicator DEF Now
<1>5. \A p \in cached : volumes[Len(volumes)][p] \in {dal[p], Current[p]}
  BY DEF Current
<1>6. FALSE \in BOOLEAN
  OBVIOUS
<1>7. QED
  BY <1>1, <1>4, <1>5, <1>6, RenderedIndicator

(* The timer's fan-out. *)
LEMMA DirtyIndicates ==
  ASSUME IInv, PagesInv, IndicatorInv, Dirty
  PROVE  IndicatorInv'
<1>1. /\ UNCHANGED <<dal, ref, posts, reader, worker>>
  BY DEF Dirty, Deliver, host
<1>2. SettingsPosted' = SettingsPosted
  BY <1>1 DEF SettingsPosted
<1>3. CASE Snapshot = prev
  <2>1. UNCHANGED <<page, prev>>
    BY <1>3 DEF Dirty, Deliver
  <2>2. QED
    BY <1>1, <1>2, <2>1 DEF IndicatorInv
<1>4. CASE Snapshot # prev
  <2> DEFINE now == Rendering(cached, volumes, ref, FALSE)
             S == IndicatorsOf(cached, Current, dal, ref)
  <2>1. prev' = Snapshot /\ \E tabs : "settings" \in tabs /\ FanOut(tabs, now)
    BY <1>4 DEF Dirty, Deliver
  <2>2. PICK tabs : "settings" \in tabs /\ FanOut(tabs, now)
    BY <2>1
  <2>3. IndicatorsOf(prev'[1], prev'[2], dal', ref') = S
    BY <1>1, <2>1 DEF Snapshot
  <2>4. now["settings"] \in S
    BY NowIndicates
  <2> HIDE DEF now, S
  <2>5. \A c \in Pages : Built(page'[c], "settings", S)
    BY <2>2, <2>4, FanOutBuilds DEF Tabs
  <2>6. QED
    BY <2>3, <2>5 DEF IndicatorInv
<1>5. QED
  BY <1>3, <1>4

(* An observer's post, and every other that is run. *)
LEMMA RunPostIndicates ==
  ASSUME IInv, IInv', PagesInv, IndicatorInv, RunPost
  PROVE  IndicatorInv'
<1> DEFINE tabs == Head(posts).tabs
           now == Rendering(cached, volumes', ref, CatchingUp(Current'))
           S == IndicatorsOf(prev[1], prev[2], dal, ref)
<1>1. UNCHANGED <<dal, ref, prev, cached>> /\ FanOut(tabs, now)
  BY DEF RunPost, host
<1>2. now["settings"] \in S
  <2>1. volumes' \in Seq(Volumes) /\ volumes' # <<>>
    BY DEF IInv, Shape, CacheShape
  <2>2. CatchingUp(Current') \in BOOLEAN
    BY DEF CatchingUp
  <2>3. ~ CatchingUp(Current') =>
          /\ cached = prev[1]
          /\ \A p \in cached : volumes'[Len(volumes')][p] \in {dal[p], prev[2][p]}
    BY DEF CatchingUp, Current
  <2>4. QED
    BY <2>1, <2>2, <2>3, RenderedIndicator
<1>3. SettingsPosted /\ "settings" \notin tabs => SettingsPosted'
  BY RunPostPosted
<1> HIDE DEF tabs, now
<1>4. \/ SettingsPosted' \/ "settings" \in tabs
      \/ \A c \in Pages : Built(page[c], "settings", S)
  BY <1>3 DEF IndicatorInv
<1> HIDE DEF S
<1>5. SettingsPosted' \/ \A c \in Pages : Built(page'[c], "settings", S)
  BY <1>1, <1>2, <1>4, FanOutBuilds DEF Tabs
<1>6. QED
  BY <1>1, <1>5 DEF IndicatorInv, S

(* Every step, for the indicator. *)
LEMMA IndicatorPreserved ==
  ASSUME IInv, IInv', PagesInv, IndicatorInv, [Next]_vars
  PROVE  IndicatorInv'
<1>1. CASE \/ ServerChange \/ Reader \/ Worker \/ CommandFails \/ UNCHANGED vars
           \/ \E b \in Pages : Restore(b) \/ \E p \in Players : Slide(b, p) \/ SetMute(b, p)
  <2>1. UNCHANGED <<page, prev, ref>>
    BY <1>1 DEF ServerChange, Reader, ReadNotification, LoadFiles, SeedOne, SeedFile,
       FinishLoad, GetFile, StoreVolume, Worker, Take, ApplyVolume, CommandFails, vars,
       Restore, Slide, SetMute, others, rest, cache, host
  <2>2. (SettingsPosted => SettingsPosted') /\ (UNCHANGED dal \/ SettingsPosted')
    <3>1. CASE Reader \/ Worker \/ CommandFails
      BY <3>1, ReaderPosts, WorkerPosts
    <3>2. CASE ~ (Reader \/ Worker \/ CommandFails)
      <4>1. UNCHANGED <<dal, posts, reader, worker>>
        BY <1>1, <3>2 DEF ServerChange, vars, Restore, Slide, SetMute, others, host
      <4>2. QED
        BY <4>1 DEF SettingsPosted
    <3>3. QED
      BY <3>1, <3>2
  <2>3. QED
    BY <2>1, <2>2 DEF IndicatorInv
<1>2. ASSUME NEW b \in Pages, SaveBalance(b)
      PROVE  IndicatorInv'
  <2>1. Post({"settings"}, None)
    BY <1>2 DEF SaveBalance
  <2>2. QED
    BY <2>1, Behind DEF IndicatorInv
<1>3. ASSUME NEW b \in Pages, RestoreNext \/ OtherHandler(b) \/ OnScreen(b) \/ Browser(b)
      PROVE  IndicatorInv'
  <2> DEFINE S == IndicatorsOf(prev[1], prev[2], dal, ref)
  <2>1. /\ UNCHANGED <<prev, dal, ref, worker, reader>>
        /\ UNCHANGED posts \/ \E tabs, all : Post(tabs, all)
    BY <1>3 DEF RestoreNext, OtherHandler, OnScreen, Browser, others, cache, host
  <2>2. SettingsPosted => SettingsPosted'
    BY <2>1, PostedStays
  <2>3. Now["settings"] \in S
    BY NowIndicates
  <2> HIDE DEF S
  <2>4. ASSUME \A c \in Pages : Built(page[c], "settings", S)
        PROVE  \A c \in Pages : Built(page'[c], "settings", S)
    BY <1>3, <2>3, <2>4, PageBuilds DEF Tabs
  <2>5. QED
    BY <2>1, <2>2, <2>4 DEF IndicatorInv, S
<1>4. CASE RestoreNext
  <2>1. CASE Pages = {}
    BY <2>1 DEF IndicatorInv
  <2>2. CASE \E b \in Pages : TRUE
    BY <1>3, <1>4, <2>2
  <2>3. QED
    BY <2>1, <2>2
<1>5. QED
  BY <1>1, <1>2, <1>3, <1>4, DirtyIndicates, RunPostIndicates DEF Next

-----------------------------------------------------------------------------
(* Who strayed is noted wherever a volume or the players of the cache change. *)
LEMMA StrayPreserved ==
  ASSUME StrayInv, [Next]_vars
  PROVE  StrayInv'
<1>1. Stray /\ UNCHANGED prev => StrayInv'
  BY DEF Stray, StrayInv
<1>2. UNCHANGED <<volumes, prev, cached, strayed, apart>> => StrayInv'
  BY DEF StrayInv, Current
<1>3. CASE Reader
  <2>1. CASE ReadNotification
    BY <1>1, <1>2, <2>1 DEF ReadNotification, cache
  <2>2. CASE FinishLoad \/ StoreVolume
    BY <1>1, <2>2 DEF FinishLoad, StoreVolume
  <2>3. CASE LoadFiles \/ SeedOne \/ SeedFile \/ GetFile
    BY <1>2, <2>3 DEF LoadFiles, SeedOne, SeedFile, GetFile, cache
  <2>4. QED
    BY <1>3, <2>1, <2>2, <2>3 DEF Reader
<1>4. CASE RunPost
  BY <1>1, <1>4 DEF RunPost
<1>5. CASE Dirty
  <2>1. CASE Snapshot = prev
    BY <1>2, <1>5, <2>1 DEF Dirty, Deliver
  <2>2. CASE Snapshot # prev
    <3>1. prev' = Snapshot /\ UNCHANGED <<volumes, cached>>
      BY <1>5, <2>2 DEF Dirty, Deliver
    <3>2. prev'[2] = Current' /\ prev'[1] = cached'
      BY <3>1 DEF Snapshot, Current
    <3>3. QED
      BY <3>2 DEF StrayInv
  <2>3. QED
    BY <2>1, <2>2
<1>6. CASE \/ ServerChange \/ Worker \/ CommandFails \/ RestoreNext \/ UNCHANGED vars
           \/ \E b \in Pages : \/ SaveBalance(b) \/ Restore(b) \/ OtherHandler(b)
                               \/ OnScreen(b) \/ Browser(b)
                               \/ \E p \in Players : Slide(b, p) \/ SetMute(b, p)
  <2>1. UNCHANGED cache
    BY <1>6 DEF ServerChange, Worker, Take, ApplyVolume, CommandFails, vars, RestoreNext,
       SaveBalance, Restore, OtherHandler, OnScreen, Browser, Slide, SetMute, others
  <2>2. QED
    BY <1>2, <2>1 DEF cache
<1>7. QED
  BY <1>3, <1>4, <1>5, <1>6 DEF Next

(* A notification that comes does not hide the ones before it. *)
LEMMA GoneStays ==
  ASSUME IInv, NEW n \in Notices, Notify(n)
  PROVE  /\ \A p : Gone(p) => Gone(p)'
         /\ n.kind = "gone" => Gone(n.player)'
<1>1. wire \in Seq(Notices)
  BY DEF IInv, Shape, CacheShape
<1>2. /\ Len(wire') = Len(wire) + 1 /\ Len(wire) \in Nat
      /\ \A i \in 1 .. Len(wire) : wire'[i] = wire[i]
      /\ wire'[Len(wire) + 1] = n
  BY <1>1, Appended DEF Notify
<1>3. /\ \A i \in 1 .. Len(wire) : i \in 1 .. Len(wire')
      /\ Len(wire) + 1 \in 1 .. Len(wire')
  BY <1>2
<1>4. QED
  BY <1>2, <1>3 DEF Gone

(* Nor does one that is read. *)
LEMMA GoneIsRead ==
  ASSUME IInv, wire # <<>>, wire' = Tail(wire)
  PROVE  \A p : Gone(p) /\ ~ (Head(wire).kind = "gone" /\ Head(wire).player = p) => Gone(p)'
<1>1. wire \in Seq(Notices)
  BY DEF IInv, Shape, CacheShape
<1>2. /\ Len(wire') = Len(wire) - 1 /\ Len(wire) \in Nat \ {0}
      /\ \A i \in 1 .. Len(wire) - 1 : wire'[i] = wire[i + 1]
      /\ wire[1] = Head(wire)
  BY <1>1, Tailed
<1>3. \A i \in 1 .. Len(wire) : i = 1 \/ (i - 1 \in 1 .. Len(wire') /\ wire'[i - 1] = wire[i])
  BY <1>2
<1>4. QED
  BY <1>2, <1>3 DEF Gone

(* Who leaves is announced, and taken from the cache when that is read. *)
LEMMA LeftPreserved ==
  ASSUME IInv, LeftInv, [Next]_vars
  PROVE  LeftInv'
<1>1. CASE ServerChange
  <2> DEFINE st == [kind |-> "status", player |-> None]
             sr == [kind |-> "stream", player |-> None]
             gn(p) == [kind |-> "gone", player |-> p]
  <2>1. /\ st \in Notices /\ st.kind = "status"
        /\ sr \in Notices /\ sr.kind = "stream"
        /\ \A p \in Players : gn(p) \in Notices /\ gn(p).kind = "gone" /\ gn(p).player = p
    BY DEF Notices
  <2>2. /\ \/ Notify(st)
           \/ Notify(sr) /\ online' = online
           \/ \E p \in online : Notify(gn(p)) /\ online' = online \ {p}
        /\ UNCHANGED cached /\ online \subseteq Players
    BY <1>1 DEF ServerChange, snapserver, cache, IInv, Shape, CacheShape
  <2> HIDE DEF st, sr, gn
  <2>3. CASE Notify(st)
    BY <2>1, <2>3, Announced DEF LeftInv
  <2>4. CASE Notify(sr) /\ online' = online
    BY <2>1, <2>2, <2>4, Announced, GoneStays DEF LeftInv
  <2>5. ASSUME NEW p \in online, Notify(gn(p)), online' = online \ {p}
        PROVE  LeftInv'
    <3>1. (StatusDue => StatusDue') /\ (\A q : Gone(q) => Gone(q)') /\ Gone(p)'
      BY <2>1, <2>2, <2>5, Announced, GoneStays
    <3>2. QED
      BY <2>2, <2>5, <3>1 DEF LeftInv
  <2>6. QED
    BY <2>2, <2>3, <2>4, <2>5
<1>2. CASE ReadNotification
  <2> DEFINE n == Head(wire)
  <2>1. /\ UNCHANGED online /\ wire # <<>> /\ wire' = Tail(wire)
        /\ \/ n.kind = "status" /\ cached' = online
           \/ n.kind = "gone" /\ cached' = cached \ {n.player}
           \/ n.kind = "stream" /\ UNCHANGED cached
           \/ n.kind = "echo" /\ UNCHANGED cached
    BY <1>2 DEF ReadNotification, rest, snapserver, cache
  <2>2. /\ StatusDue /\ n.kind # "status" => StatusDue'
        /\ \A p : Gone(p) /\ ~ (n.kind = "gone" /\ n.player = p) => Gone(p)'
    BY <2>1, StatusStays, GoneIsRead
  <2> HIDE DEF n
  <2>3. CASE n.kind = "status" /\ cached' = online
    BY <2>1, <2>3 DEF LeftInv
  <2>4. CASE n.kind = "gone" /\ cached' = cached \ {n.player}
    BY <2>1, <2>2, <2>4 DEF LeftInv
  <2>5. CASE n.kind \in {"stream", "echo"} /\ UNCHANGED cached
    BY <2>1, <2>2, <2>5 DEF LeftInv
  <2>6. QED
    BY <2>1, <2>3, <2>4, <2>5
<1>3. CASE ApplyVolume
  <2>1. UNCHANGED <<online, cached>>
    BY <1>3 DEF ApplyVolume, snapserver, cache
  <2>2. CASE UNCHANGED wire
    BY <2>1, <2>2 DEF LeftInv, StatusDue, Gone
  <2>3. CASE worker.stage = "side" /\ Notify([kind |-> "echo", player |-> worker.player])
    <3>1. [kind |-> "echo", player |-> worker.player] \in Notices
      BY <2>3 DEF IInv, Shape, WorkerShape, Notices
    <3>2. (StatusDue => StatusDue') /\ (\A q : Gone(q) => Gone(q)')
      BY <2>3, <3>1, Announced, GoneStays
    <3>3. QED
      BY <2>1, <3>2 DEF LeftInv
  <2>4. QED
    BY <1>3, <2>2, <2>3 DEF ApplyVolume
<1>4. CASE ~ (ServerChange \/ ReadNotification \/ ApplyVolume)
  <2>1. UNCHANGED <<online, cached, wire>>
    <3>1. CASE Reader
      BY <1>4, <3>1 DEF Reader, LoadFiles, SeedOne, SeedFile, FinishLoad, GetFile, StoreVolume,
         rest, snapserver, cache
    <3>2. CASE Dirty \/ Take \/ CommandFails \/ RunPost \/ RestoreNext \/ UNCHANGED vars
      BY <3>2 DEF Dirty, Deliver, Take, CommandFails, RunPost, RestoreNext, others, snapserver,
         cache, vars
    <3>3. ASSUME NEW b \in Pages,
                 \/ SaveBalance(b) \/ Restore(b) \/ OtherHandler(b) \/ OnScreen(b) \/ Browser(b)
                 \/ \E p \in Players : Slide(b, p) \/ SetMute(b, p)
          PROVE  UNCHANGED <<online, cached, wire>>
      BY <3>3 DEF SaveBalance, Restore, OtherHandler, OnScreen, Browser, Slide, SetMute,
         others, snapserver, cache
    <3>4. QED
      BY <1>4, <3>1, <3>2, <3>3 DEF Next, Worker
  <2>2. QED
    BY <2>1 DEF LeftInv, StatusDue, Gone
<1>5. QED
  BY <1>1, <1>2, <1>3, <1>4

-----------------------------------------------------------------------------
(* What differs and is not signalled: nothing, after the reader has looked. *)
LEMMA SignalTells ==
  ASSUME MaybeSignal, UNCHANGED prev
  PROVE  ToldInv'
<1>1. CASE armed'
  BY <1>1 DEF ToldInv, Untold, Signalled
<1>2. CASE Snapshot' = prev
  <2>1. cached' = prev'[1] /\ Current' = prev'[2] /\ seenStreams' = prev'[3]
    BY <1>2 DEF Snapshot, Current
  <2>2. QED
    BY <2>1 DEF ToldInv
<1>3. QED
  BY <1>1, <1>2 DEF MaybeSignal

(* The same, when the cache does not change, and no echo is lost. *)
LEMMA ToldStays ==
  ASSUME ToldInv, UNCHANGED <<cached, seenStreams, volumes, prev>>,
         Signalled => Signalled', StatusDue => StatusDue', failed \subseteq failed',
         online' \subseteq online \/ StatusDue',
         \A p \in Players \ failed' :
           p \in OnFile /\ Rereads(p, 0) => p \in OnFile' /\ Rereads(p, 0)',
         online \subseteq Players
  PROVE  ToldInv'
<1>1. ASSUME NEW p \in online' \ failed'
      PROVE  Current'[p] = prev'[2][p] \/ Untold(p)'
  <2>1. CASE StatusDue'
    BY <2>1 DEF Untold
  <2>2. CASE p \in online
    <3>1. Current[p] = prev[2][p] \/ Untold(p)
      BY <1>1, <2>2 DEF ToldInv
    <3>2. Untold(p) => Untold(p)'
      BY <1>1, <2>2 DEF Untold
    <3>3. QED
      BY <3>1, <3>2 DEF Current
  <2>3. QED
    BY <1>1, <2>1, <2>2
<1>2. QED
  BY <1>1 DEF ToldInv

(* A notification: a status has the reader load, an echo the file be read. *)
LEMMA NotificationTells ==
  ASSUME IInv, ToldInv, ReadNotification
  PROVE  ToldInv'
<1> DEFINE n == Head(wire)
<1>1. /\ reader.stage = "idle" /\ wire # <<>> /\ wire' = Tail(wire)
      /\ UNCHANGED <<dal, OnFile, worker, online, failed>> /\ online \subseteq Players
  BY DEF ReadNotification, rest, bounds, host, snapserver, IInv, Shape, CacheShape, OnFile
<1>2. \/ n.kind = "status" /\ reader' = [AtRest EXCEPT !.stage = "load"]
      \/ MaybeSignal /\ UNCHANGED prev
      \/ /\ n.kind = "echo" /\ UNCHANGED cache
         /\ reader' = [AtRest EXCEPT !.stage = "get", !.player = n.player]
  BY DEF ReadNotification
<1>3. /\ n \in Notices
      /\ StatusDue /\ n.kind # "status" => StatusDue'
      /\ \A p : Echoes(p) /\ ~ (n.kind = "echo" /\ n.player = p) => Echoes(p)'
  BY <1>1, StatusStays
<1> HIDE DEF n
<1>4. CASE n.kind = "status" /\ reader' = [AtRest EXCEPT !.stage = "load"]
  <2>1. reader'.stage = "load"
    BY <1>4 DEF AtRest
  <2>2. Signalled'
    BY <2>1 DEF Signalled
  <2>3. QED
    BY <2>2 DEF ToldInv, Untold
<1>5. CASE MaybeSignal /\ UNCHANGED prev
  BY <1>5, SignalTells
<1>6. CASE n.kind = "echo" /\ UNCHANGED cache
           /\ reader' = [AtRest EXCEPT !.stage = "get", !.player = n.player]
  <2>1. reader'.stage = "get" /\ reader'.player = n.player
    BY <1>6 DEF AtRest
  <2>2. \A p \in Players : Rereads(p, 0) => Rereads(p, 0)'
    BY <1>1, <1>3, <1>6, <2>1 DEF Rereads, EchoDue, WorkedOn
  <2>3. Signalled => Signalled'
    BY <1>1, <1>6 DEF Signalled, Loading, cache
  <2>4. QED
    BY <1>1, <1>3, <1>6, <2>2, <2>3, ToldStays DEF cache
<1>7. QED
  BY <1>2, <1>4, <1>5, <1>6

(* The reader's other steps: it is loading, it signals, or it holds what   *)
(* the file does and will store it.                                        *)
LEMMA ReaderTells ==
  ASSUME IInv, ToldInv, Reader
  PROVE  ToldInv'
<1>1. ReaderShape
  BY DEF IInv, Shape
<1>2. CASE LoadFiles \/ SeedOne \/ SeedFile
  <2>1. reader'.stage \in Loading
    <3>1. CASE LoadFiles
      BY <1>1, <3>1 DEF LoadFiles, ReaderShape, Loading
    <3>2. CASE SeedOne
      BY <1>1, <3>2 DEF SeedOne, Resumes, ReaderShape, Loading
    <3>3. CASE SeedFile
      <4>1. Unseeded.stage = "seed" /\ Seeded.stage = "seed"
        BY <1>1 DEF Unseeded, Seeded, ReaderShape
      <4>2. [reader EXCEPT !.stage = "list"].stage = "list"
            /\ [reader EXCEPT !.stage = "post", !.all = dal].stage = "post"
        BY <1>1 DEF ReaderShape
      <4>3. \/ reader' = Seeded \/ reader' = Unseeded \/ reader' = [reader EXCEPT !.stage = "list"]
            \/ reader' = [reader EXCEPT !.stage = "post", !.all = dal]
        BY <3>3 DEF SeedFile, WriteFile, ReadAll, PostAll
      <4>4. QED
        BY <4>1, <4>2, <4>3 DEF Loading
    <3>4. QED
      BY <1>2, <3>1, <3>2, <3>3
  <2>2. Signalled'
    BY <2>1 DEF Signalled
  <2>3. QED
    BY <2>2 DEF ToldInv, Untold
<1>3. CASE FinishLoad \/ StoreVolume
  BY <1>3, SignalTells DEF FinishLoad, StoreVolume
<1>4. CASE GetFile
  <2>1. /\ reader'.stage = "store" /\ reader'.player = reader.player /\ reader.stage = "get"
        /\ reader'.percent = dal[reader.player] /\ reader'.behind \in Nat
        /\ UNCHANGED <<cache, wire, worker, online, dal, OnFile, failed>>
        /\ online \subseteq Players
    BY <1>1, <1>4 DEF GetFile, ReaderShape, IInv, Shape, CacheShape, PostShape, rest, host,
       snapserver, bounds, OnFile
  <2>2. (\A p : EchoDue(p)' = EchoDue(p)) /\ StatusDue' = StatusDue
    BY <2>1, EchoesStay
  <2>3. \A p : Rereads(p, 0) => Rereads(p, 0)'
    BY <2>1, <2>2 DEF Rereads
  <2>4. Signalled => Signalled'
    BY <2>1 DEF Signalled, Loading, cache
  <2>5. QED
    BY <2>1, <2>2, <2>3, <2>4, ToldStays DEF cache
<1>5. QED
  BY <1>2, <1>3, <1>4, NotificationTells DEF Reader

(* The worker: from the file to the echo, the file is to be read again. *)
LEMMA WorkerTells ==
  ASSUME IInv, ToldInv, Worker \/ CommandFails
  PROVE  ToldInv'
<1>1. /\ WorkerShape /\ online \subseteq Players
      /\ UNCHANGED <<cache, reader, online>> /\ failed \subseteq failed'
  BY DEF IInv, Shape, CacheShape, Worker, Take, ApplyVolume, CommandFails, snapserver, bounds,
     WriteFile
<1>2. Signalled' = Signalled
  BY <1>1 DEF Signalled, cache
<1>3. CASE Take \/ CommandFails \/ (ApplyVolume /\ worker.stage \in {"device", "list", "post"})
  <2>1. UNCHANGED <<dal, wire, OnFile>>
    BY <1>3 DEF Take, CommandFails, ApplyVolume, ReadAll, PostAll, host, OnFile
  <2>2. \A p \in Players \ failed' : EchoDue(p) => EchoDue(p)'
    <3>1. CASE Take
      BY <2>1, <3>1 DEF Take, EchoDue, Echoes, WorkedOn
    <3>2. CASE CommandFails
      BY <2>1, <3>2 DEF CommandFails, EchoDue, Echoes, WorkedOn
    <3>3. CASE ApplyVolume /\ worker.stage \in {"device", "list", "post"}
      <4>1. worker.stage = "device" \/ (/\ worker'.stage \in {"post", "side"}
                                        /\ worker'.player = worker.player)
        BY <1>1, <3>3 DEF ApplyVolume, ReadAll, PostAll, WorkerShape, Side
      <4>2. QED
        BY <2>1, <4>1 DEF EchoDue, Echoes, WorkedOn
    <3>4. QED
      BY <1>3, <3>1, <3>2, <3>3
  <2>3. \A p \in Players \ failed' : Rereads(p, 0) => Rereads(p, 0)'
    BY <1>1, <2>1, <2>2, RereadsStay
  <2>4. StatusDue' = StatusDue
    BY <2>1 DEF StatusDue
  <2>5. QED
    BY <1>1, <1>2, <2>1, <2>3, <2>4, ToldStays DEF cache
<1>4. CASE ApplyVolume /\ worker.stage = "file"
  <2> DEFINE q == worker.player
  <2>1. /\ UNCHANGED wire /\ WriteFile(q, worker.percent, worker, Side)
        /\ HostShape /\ TracedWorker(OnFile)
    BY <1>4 DEF ApplyVolume, ReadAll, PostAll, IInv, Shape, Traced
  <2>2. q \in Players /\ worker.percent \in Levels
    BY <1>1, <1>4 DEF WorkerShape, Applying
  <2>3. worker'.stage \in {"list", "side"} /\ worker'.player = q
    BY <1>1, <2>1 DEF WriteFile, WorkerShape, Side
  <2>4. dal' = [dal EXCEPT ![q] = worker.percent]
    BY <2>1 DEF WriteFile
  <2> HIDE DEF q
  <2>5. OnFile' = OnFile \cup {q} /\ \A p \in Players \ {q} : dal'[p] = dal[p]
    BY <2>1, <2>2, <2>4, Written
  <2>6. \A p : (p = q => EchoDue(p)') /\ (EchoDue(p) => EchoDue(p)')
    BY <1>4, <2>1, <2>3 DEF EchoDue, Echoes, WorkedOn
  <2>7. \A p \in Players : Rereads(p, 0) => Rereads(p, 0)'
    BY <1>1, <2>5, <2>6 DEF Rereads
  <2>8. StatusDue' = StatusDue
    BY <2>1 DEF StatusDue
  <2>9. QED
    BY <1>1, <1>2, <2>5, <2>7, <2>8, ToldStays DEF cache
<1>5. CASE ApplyVolume /\ worker.stage = "side"
  <2> DEFINE n == [kind |-> "echo", player |-> worker.player]
  <2>1. UNCHANGED <<dal, OnFile>> /\ Notify(n)
    BY <1>5 DEF ApplyVolume, ReadAll, PostAll, OnFile
  <2>2. n \in Notices /\ n.kind = "echo" /\ n.player = worker.player
    BY <1>1, <1>5 DEF Notices, WorkerShape
  <2> HIDE DEF n
  <2>3. (StatusDue => StatusDue') /\ \A p : EchoDue(p) => EchoDue(p)'
    BY <1>5, <2>1, <2>2, Announced DEF EchoDue, WorkedOn
  <2>4. \A p \in Players : Rereads(p, 0) => Rereads(p, 0)'
    BY <1>1, <2>1, <2>3, RereadsStay
  <2>5. QED
    BY <1>1, <1>2, <2>1, <2>3, <2>4, ToldStays DEF cache
<1>6. QED
  BY <1>3, <1>4, <1>5 DEF Worker, ApplyVolume, ReadAll, PostAll

(* Snapserver: nothing that it sends hides what is on its way. *)
LEMMA ServerTells ==
  ASSUME IInv, ToldInv, ServerChange
  PROVE  ToldInv'
<1>1. UNCHANGED <<dal, OnFile, reader, cache, worker, failed>> /\ online \subseteq Players
  BY DEF ServerChange, host, OnFile, IInv, Shape, CacheShape
<1>2. \E n \in Notices : Notify(n) /\ (online' \subseteq online \/ n.kind = "status")
  <2> DEFINE st == [kind |-> "status", player |-> None]
             sr == [kind |-> "stream", player |-> None]
             gn(p) == [kind |-> "gone", player |-> p]
  <2>1. /\ st \in Notices /\ st.kind = "status" /\ sr \in Notices
        /\ \A p \in Players : gn(p) \in Notices
    BY DEF Notices
  <2>2. \/ Notify(st)
        \/ Notify(sr) /\ online' = online
        \/ \E p \in online : Notify(gn(p)) /\ online' = online \ {p}
    BY DEF ServerChange, snapserver
  <2> HIDE DEF st, sr, gn
  <2>3. QED
    BY <1>1, <2>1, <2>2
<1>3. PICK n \in Notices : Notify(n) /\ (online' \subseteq online \/ n.kind = "status")
  BY <1>2
<1>4. /\ StatusDue => StatusDue'
      /\ online' \subseteq online \/ StatusDue'
      /\ \A p : EchoDue(p) => EchoDue(p)'
  BY <1>1, <1>3, Announced DEF EchoDue, WorkedOn
<1>5. \A p \in Players : Rereads(p, 0) => Rereads(p, 0)'
  BY <1>1, <1>4, RereadsStay
<1>6. Signalled' = Signalled
  BY <1>1 DEF Signalled, cache
<1>7. QED
  BY <1>1, <1>4, <1>5, <1>6, ToldStays DEF cache

(* An observer's post: it changes what the cache holds without signalling, *)
(* and only when the file is to be read again.                             *)
LEMMA RunPostTells ==
  ASSUME IInv, FilesInv, ToldInv, RunPost
  PROVE  ToldInv'
<1> DEFINE all == Head(posts).all
<1>1. /\ UNCHANGED <<cached, seenStreams, prev, armed, dal, OnFile, wire, online, failed>>
      /\ online \subseteq Players /\ PostShape /\ ReaderShape
  BY DEF RunPost, host, snapserver, bounds, OnFile, IInv, Shape, CacheShape
<1>2. reader'.stage = reader.stage
  BY <1>1 DEF RunPost, ReaderShape
<1>3. Signalled' = Signalled /\ StatusDue' = StatusDue
  BY <1>1, <1>2 DEF Signalled, StatusDue
<1>4. Len(posts) \in Nat \ {0} /\ posts[1] = Head(posts)
  BY <1>1, Tailed DEF PostShape, RunPost
<1>5. /\ all # None => all \in Files /\ Held(all) \subseteq OnFile
      /\ \A p \in Players :
           Current'[p] = IF all = None \/ all[p] = None THEN Current[p] ELSE all[p]
      /\ \A p : \A n \in 0 .. Len(posts) - 1 : Rereads(p, n + 1) => Rereads(p, n)'
      /\ \A p : Rereads(p, 0) => Rereads(p, 0)'
  BY PostIsMerged
<1> HIDE DEF all
<1>6. ASSUME NEW p \in online \ failed
      PROVE  Current'[p] = prev[2][p] \/ Untold(p)'
  <2>1. Untold(p) => Untold(p)'
    BY <1>1, <1>3, <1>5 DEF Untold
  <2>2. Current[p] = prev[2][p] \/ Untold(p)
    BY <1>6 DEF ToldInv
  <2>3. CASE all = None \/ all[p] = None
    BY <1>1, <1>5, <2>1, <2>2, <2>3
  <2>4. CASE all # None /\ all[p] # None
    <3>1. p \in OnFile /\ p \in Players
      BY <1>1, <1>5, <1>6, <2>4 DEF Files, Held
    <3>2. 1 \in 1 .. Len(posts) /\ 0 \in 0 .. Len(posts) - 1 /\ 0 + 1 = 1
      BY <1>4
    <3>3. all[p] = dal[p] \/ Rereads(p, 1)
      BY <1>4, <1>6, <2>4, <3>1, <3>2 DEF FilesInv, Fresh, FreshPosts, all
    <3>4. Rereads(p, 1) => Untold(p)'
      BY <1>1, <1>5, <3>1, <3>2 DEF Untold
    <3>5. Current[p] = dal[p] \/ Untold(p)
      BY <1>6, <3>1 DEF FilesInv, FreshCache, Untold, Signalled
    <3>6. Current'[p] = all[p]
      BY <1>5, <2>4, <3>1
    <3>7. QED
      BY <2>1, <2>2, <3>3, <3>4, <3>5, <3>6
  <2>5. QED
    BY <2>3, <2>4
<1>7. QED
  BY <1>1, <1>3, <1>6 DEF ToldInv

(* The timer delivers the snapshot, or it is what was delivered. *)
LEMMA DirtyTells ==
  ASSUME Dirty
  PROVE  ToldInv'
<1>1. prev' = Snapshot /\ UNCHANGED <<cached, volumes, seenStreams>>
  BY DEF Dirty, Deliver
<1>2. cached' = prev'[1] /\ seenStreams' = prev'[3] /\ Current' = prev'[2]
  BY <1>1 DEF Snapshot, Current
<1>3. QED
  BY <1>2 DEF ToldInv

(* Every step, for what was told. *)
LEMMA ToldPreserved ==
  ASSUME IInv, FilesInv, ToldInv, [Next]_vars
  PROVE  ToldInv'
<1>1. CASE \/ RestoreNext \/ UNCHANGED vars
           \/ \E b \in Pages : \/ SaveBalance(b) \/ Restore(b) \/ OtherHandler(b)
                               \/ OnScreen(b) \/ Browser(b)
                               \/ \E p \in Players : Slide(b, p) \/ SetMute(b, p)
  <2>1. /\ UNCHANGED <<dal, reader, cache, wire, worker, online, failed>>
        /\ online \subseteq Players
    BY <1>1 DEF RestoreNext, vars, SaveBalance, Restore, OtherHandler, OnScreen, Browser, Slide,
       SetMute, Act, Upset, others, host, snapserver, bounds, IInv, Shape, CacheShape
  <2>2. StatusDue' = StatusDue /\ Signalled' = Signalled /\ OnFile' = OnFile
    BY <2>1 DEF StatusDue, Signalled, OnFile, cache
  <2>3. \A p : Rereads(p, 0) => Rereads(p, 0)'
    BY <2>1, EchoesStay, RereadsStay
  <2>4. QED
    BY <2>1, <2>2, <2>3, ToldStays DEF cache
<1>2. QED
  BY <1>1, ServerTells, ReaderTells, WorkerTells, RunPostTells, DirtyTells DEF Next

-----------------------------------------------------------------------------
(* Every step of the composition. *)
LEMMA ShowsInvPreserved ==
  ASSUME IInv, IInv', PagesInv, FilesInv, ShowsInv, [Next]_vars
  PROVE  ShowsInv'
BY ToldPreserved, LeftPreserved, StrayPreserved, CardsPreserved, IndicatorPreserved DEF ShowsInv

(* At the start every page shows the cache, and that is what was delivered. *)
LEMMA ShowsInvAtStart ==
  ASSUME Init, IInv
  PROVE  ShowsInv
<1> DEFINE now == Rendering(cached, volumes, ref, FALSE)
<1>1. /\ prev = <<cached, Current, 0>> /\ seenStreams = 0 /\ strayed = {}
      /\ cached = online /\ apart = {}
      /\ \A b \in Pages : page[b] = Loaded(now)
  BY DEF Init
<1>2. ToldInv /\ LeftInv /\ StrayInv
  BY <1>1 DEF ToldInv, LeftInv, StrayInv
<1>3. /\ now["players"] \in CardsOf(volumes, prev, strayed, apart)
      /\ now["settings"] \in IndicatorsOf(prev[1], prev[2], dal, ref)
  BY <1>1, NowIndicates, RenderedCard DEF IInv, Shape, CacheShape, Current
<1>4. IsRecord(Loaded(now)) /\ Loaded(now).shown = now
  BY DEF IsRecord, Fields, Loaded
<1> HIDE DEF now
<1>5. CardsInv /\ IndicatorInv
  BY <1>1, <1>3, <1>4 DEF CardsInv, IndicatorInv, Built
<1>6. QED
  BY <1>2, <1>5 DEF ShowsInv

(* So the invariant holds for ever. *)
LEMMA ShowsInvariance == Spec => []ShowsInv
<1>1. Init /\ IInv => ShowsInv
  BY ShowsInvAtStart
<1>2. IInv /\ IInv' /\ PagesInv /\ FilesInv /\ ShowsInv /\ [Next]_vars => ShowsInv'
  BY ShowsInvPreserved
<1>3. QED
  BY <1>1, <1>2, Invariance, PagesStayOk, FilesInvariance, PTL DEF Spec

(* When nothing is under way, nothing is due. *)
LEMMA QuietTells ==
  ASSUME IInv, ToldInv, LeftInv, Quiet
  PROVE  CacheWasDelivered /\ cached \subseteq online
<1>1. ~ StatusDue /\ \A p : ~ Rereads(p, 0) /\ ~ Gone(p)
  BY DEF Quiet, StatusDue, Gone, Rereads, EchoDue, WorkedOn, Echoes
<1>2. ~ Signalled
  BY DEF Quiet, Signalled, Loading
<1>3. \A p : ~ Untold(p)
  BY <1>1, <1>2 DEF Untold
<1>4. QED
  BY <1>1, <1>2, <1>3 DEF ToldInv, LeftInv, CacheWasDelivered

(* When nothing is under way, the snapshot that was delivered last is what *)
(* the cache holds, unless a command failed: an observer changes the cache *)
(* without signalling and a full status cancels the timer, but a load that *)
(* ends and an echo that is stored compare the cache with what was         *)
(* delivered (_maybe_signal, _signal_dirty, _handle_notification).         *)
THEOREM WhatIsCachedWasDelivered == Spec => []CacheWasDelivered
<1>1. IInv /\ ShowsInv => CacheWasDelivered
  BY QuietTells DEF ShowsInv, CacheWasDelivered
<1>2. QED
  BY <1>1, Invariance, ShowsInvariance, PTL

(* The cards are those of the cache's players, and a slider shows what is  *)
(* on file: the cache's, or in a dict that has been replaced what was      *)
(* delivered, which is the same.                                           *)
LEMMA CardsFollow ==
  ASSUME IInv, PagesInv, FilesInv, ShowsInv, CacheFollowsFiles, Quiet,
         NEW b \in Pages, page[b].registered, ~page[b].flag
  PROVE  /\ page[b].shown.players.cards \ apart = cached \ apart
         /\ \A p \in (cached \cap page[b].shown.players.cards) \ failed :
              IF p \in page[b].shown.players.known THEN Slider(b, p) = dal[p] \/ Outdated(b, p)
              ELSE dal[p] \notin Levels \/ p \in strayed
<1> DEFINE s == page[b].shown["players"]
<1>1. CacheWasDelivered /\ cached \subseteq online
  BY QuietTells DEF ShowsInv
<1>2. page[b].stale = {}
  BY DEF PagesInv, PageOk, RememberInv
<1>3. s \in CardsOf(volumes, prev, strayed, apart)
  BY <1>2 DEF ShowsInv, CardsInv, Built
<1> HIDE DEF s
<1>4. s.cards \ apart = cached \ apart
  BY <1>1, <1>3 DEF CardsOf, CacheWasDelivered
<1>5. ASSUME NEW p \in (cached \cap s.cards) \ failed
      PROVE  IF p \in s.known THEN volumes[s.dict][p] = dal[p] \/ (s.dict # Len(volumes) /\ p \in strayed)
             ELSE dal[p] \notin Levels \/ p \in strayed
  <2>1. Current[p] = prev[2][p] /\ Current[p] = dal[p] /\ p \in Players
    BY <1>1, <1>5 DEF CacheWasDelivered, CacheFollowsFiles, IInv, Shape, CacheShape
  <2>2. CASE p \notin strayed
    <3>1. volumes[s.dict][p] = prev[2][p] /\ (p \in s.known <=> prev[2][p] \in Levels)
      BY <1>3, <1>5, <2>1, <2>2 DEF CardsOf
    <3>2. QED
      BY <2>1, <3>1
  <2>3. CASE p \in strayed
    BY <2>1, <2>3 DEF Current
  <2>4. QED
    BY <2>2, <2>3
<1>6. QED
  BY <1>4, <1>5 DEF s, Slider, Outdated

(* So does the indicator: whichever of the two it took of each player, they *)
(* are the same.                                                           *)
LEMMA IndicatorFollows ==
  ASSUME IInv, PagesInv, FilesInv, ShowsInv, CacheFollowsFiles, Quiet, cached \cap failed = {},
         NEW b \in Pages, page[b].registered, ~page[b].flag
  PROVE  \/ page[b].shown.settings.at = AtReference(cached, Current, ref)
         \/ page[b].shown.settings.early
<1>1. CacheWasDelivered /\ cached \subseteq online
  BY QuietTells DEF ShowsInv
<1>2. /\ cached = prev[1]
      /\ \A p \in cached : Current[p] = prev[2][p] /\ Current[p] = dal[p]
  BY <1>1 DEF CacheWasDelivered, CacheFollowsFiles
<1>3. page[b].stale = {}
  BY DEF PagesInv, PageOk, RememberInv
<1>4. ~ SettingsPosted
  BY DEF Quiet, SettingsPosted
<1>5. page[b].shown["settings"] \in IndicatorsOf(prev[1], prev[2], dal, ref)
  BY <1>3, <1>4 DEF ShowsInv, IndicatorInv, Built
<1>6. CASE ~ page[b].shown.settings.early
  <2>1. PICK m \in Volumes : /\ \A p \in prev[1] : m[p] \in {dal[p], prev[2][p]}
                             /\ page[b].shown.settings.at = AtReference(prev[1], m, ref)
    BY <1>5, <1>6 DEF IndicatorsOf
  <2>2. \A p \in cached : m[p] = Current[p]
    BY <1>2, <2>1
  <2>3. AtReference(cached, m, ref) = AtReference(cached, Current, ref)
    BY <2>2 DEF AtReference
  <2>4. QED
    BY <1>2, <2>1, <2>3
<1>7. QED
  BY <1>6

(* When nothing is under way, every page has the cards of the players that *)
(* are there, and the sliders and the reference indicator show what is on  *)
(* file, unless the page has something deferred or was built while a       *)
(* player was apart: each status replaces the dict that sliders are bound  *)
(* to, but what the old one holds was delivered, and what came since has   *)
(* every page rebuilt (build_players_tab, _build_player_card,              *)
(* _at_reference, _on_dirty, _on_volume_changed).                          *)
THEOREM PagesShowFiles == Spec => []QuietPagesFollow
<1>1. IInv /\ PagesInv /\ FilesInv /\ ShowsInv /\ CacheFollowsFiles => QuietPagesFollow
  BY CardsFollow, IndicatorFollows DEF QuietPagesFollow, Follows
<1>2. QED
  BY <1>1, Invariance, PagesStayOk, FilesInvariance, ShowsInvariance, CacheHoldsFiles, PTL
=============================================================================
