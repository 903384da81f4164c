--------------------------- MODULE ClaimFlowProofs ---------------------------
(***************************************************************************)
(* Theorems about ClaimFlow: for any browsers and any bounds on claims,    *)
(* toggles, rebuilds, failures and kills.                                  *)
(***************************************************************************)
EXTENDS ClaimFlow, TLAPS

Flows == [at : Stages, page : Pages \cup {None}, deleted : BOOLEAN]
Panels == {"none", "link", "starting", "connect"}
Browser == [flag : BOOLEAN, panel : Panels, connect : BOOLEAN, probing : BOOLEAN]
Tokens == Claims \cup {None}

(* The type invariant with the records TypeOK leaves out. *)
HostShape ==
  /\ enabled \in BOOLEAN /\ recorded \in BOOLEAN /\ claimed \in BOOLEAN
  /\ claimConf \in Tokens /\ merged \in Tokens
  /\ plexamp \in [run : {"inactive", "starting", "late", "open"}, token : Tokens]

PageShape ==
  /\ page \in [Pages -> Browser]
  /\ toggle \in [at : {"none", "queued", "clear", "units", "reseed", "settle"},
                 page : Pages \cup {None}, enable : BOOLEAN]
  /\ announced \subseteq Pages

FlowShape ==
  /\ flow \in [Claims -> Flows]
  /\ cut \subseteq Claims /\ disturbed \subseteq Claims

(* A flow whose browser is gone has lost its panel, and waits for no timer: *)
(* so it cannot be sent back to wait for one.                               *)
Orphans ==
  \A f \in Claims : flow[f].page = None /\ UnderWay(f) => flow[f].deleted /\ ~ Waiting(f)

Shape == HostShape /\ PageShape /\ FlowShape /\ Orphans

(* OverrideOwned, with the file apart from what systemd merged: a flow that *)
(* unmerges has removed its file, and so its reload does not merge it again.*)
Keeping == Holding \cup {"unmerge", "giveupunmerge"}
Owned ==
  \A f \in Claims :
    /\ claimConf = f => f \in cut \/ flow[f].at \in Holding
    /\ merged = f => f \in cut \/ flow[f].at \in Keeping

(* ClaimTakesEffect, with what each earlier stage has prepared for it. *)
Prepared ==
  \A f \in Claims \ disturbed :
    /\ flow[f].at \in {"write", "reload", "start"} => plexamp.run = "inactive"
    /\ flow[f].at \in {"reload", "start"} => claimConf = f
    /\ flow[f].at = "start" => merged = f
    /\ flow[f].at \in {"restarting", "probing"} => plexamp.run # "inactive" /\ plexamp.token = f

(* RecordedMeansClaimed, with the open port and the flow about to record. *)
Evidence ==
  (recorded \/ plexamp.run = "open" \/ \E f \in Claims : flow[f].at = "record") => claimed

IInv == Shape /\ Owned /\ Prepared /\ Evidence

-----------------------------------------------------------------------------
(* What the helpers of the actions do. *)

(* A rebuild ends flows that wait, as cut, and marks the others as deleted. *)
LEMMA RebuiltFlows ==
  ASSUME NEW p, NEW flows \in [Claims -> Flows], cut \subseteq Claims, Rebuilt(p, flows)
  PROVE  /\ flow' \in [Claims -> Flows]
         /\ cut' \subseteq Claims /\ cut \subseteq cut'
         /\ \A f \in Claims :
              /\ flow'[f].page = flows[f].page
              /\ flows[f].deleted => flow'[f].deleted
              /\ \/ flow'[f].at = flows[f].at
                 \/ flow'[f].at = "end" /\ f \in cut'
<1> DEFINE mine == {f \in Claims : flows[f].page = p /\ flows[f].at \notin {"new", "end"}
                                   /\ ~ flows[f].deleted}
           gone == {f \in mine : Waiting(f)}
<1>1. /\ flow' = [f \in Claims |->
            IF f \in gone THEN [flows[f] EXCEPT !.at = "end"]
            ELSE IF f \in mine THEN [flows[f] EXCEPT !.deleted = TRUE] ELSE flows[f]]
      /\ cut' = cut \cup gone /\ gone \subseteq Claims
  BY DEF Rebuilt
<1> HIDE DEF mine, gone
<1>2. QED
  BY <1>1 DEF Flows, Stages

(* The panel of a card is one of the four. *)
LEMMA PanelType ==
  /\ Panel \in Panels
  /\ Fresh \in Browser
BY DEF Panel, Panels, Fresh, Browser

LEMMA ShownType ==
  ASSUME NEW p \in Pages, page \in [Pages -> Browser]
  PROVE  Shown(p) \in Browser /\ [Shown(p) EXCEPT !.probing = FALSE] \in Browser
BY PanelType DEF Shown, Browser

(* A flow moves, the others stay. *)
LEMMA Moved ==
  ASSUME NEW f \in Claims, NEW at \in Stages, flow \in [Claims -> Flows], Move(f, at)
  PROVE  /\ flow' \in [Claims -> Flows]
         /\ flow'[f].at = at
         /\ \A g \in Claims : /\ g # f => flow'[g].at = flow[g].at
                              /\ flow'[g].page = flow[g].page /\ flow'[g].deleted = flow[g].deleted
BY DEF Move, Flows

LEMMA ReleasedType ==
  ASSUME NEW f \in Claims, NEW b \in BOOLEAN, flow \in [Claims -> Flows],
         page \in [Pages -> Browser], Released(f, b)
  PROVE  page' \in [Pages -> Browser]
<1>1. ASSUME NEW p \in Pages
      PROVE  [page[p] EXCEPT !.flag = FALSE,
                             !.connect = page[p].connect \/ (b /\ ~ flow[f].deleted)] \in Browser
  BY DEF Browser
<1>2. QED
  BY <1>1 DEF Released

LEMMA MoveKeepsOrphans ==
  ASSUME NEW f \in Claims, NEW at \in Stages, flow \in [Claims -> Flows], Orphans,
         UnderWay(f), Move(f, at),
         flow[f].page = None => at \notin {"wait", "restarting"}
  PROVE  Orphans'
BY Moved DEF Orphans, UnderWay, Waiting

LEMMA RebuiltKeepsOrphans ==
  ASSUME NEW p, NEW flows \in [Claims -> Flows], cut \subseteq Claims, Rebuilt(p, flows), Orphans,
         \A f \in Claims : /\ flows[f].page = flow[f].page /\ flows[f].deleted = flow[f].deleted
                           /\ flows[f].at = flow[f].at \/ flows[f].at = "end"
  PROVE  Orphans'
<1>1. \A f \in Claims :
        /\ flow'[f].page = flows[f].page
        /\ flows[f].deleted => flow'[f].deleted
        /\ flow'[f].at = flows[f].at \/ flow'[f].at = "end"
  BY RebuiltFlows
<1>2. QED
  BY <1>1 DEF Orphans, UnderWay, Waiting

-----------------------------------------------------------------------------
(* The shape of the state. *)

LEMMA InitShape == ASSUME Init PROVE Shape
<1>1. HostShape
  <2>1. PICK r \in {"inactive", "starting", "late"} : plexamp = [run |-> r, token |-> None]
    BY DEF Init
  <2>2. QED
    BY <2>1 DEF Init, HostShape, Tokens
<1>2. PageShape
  BY PanelType DEF Init, PageShape, NoToggle
<1>3. FlowShape /\ Orphans
  BY DEF Init, FlowShape, Orphans, NoFlow, UnderWay, Flows, Stages
<1>4. QED
  BY <1>1, <1>2, <1>3 DEF Shape

LEMMA HostShapeKept == ASSUME Shape, [Next]_vars PROVE HostShape'
<1> USE DEF Shape, HostShape
<1> DEFINE Units == [run : {"inactive", "starting", "late", "open"}, token : Tokens]
<1>1. /\ Off \in Units /\ Started \in Units
      /\ \A t \in Tokens : [run |-> "starting", token |-> t] \in Units
      /\ [plexamp EXCEPT !.run = "open"] \in Units /\ [plexamp EXCEPT !.run = "late"] \in Units
      /\ \A f \in Claims : f \in Tokens
      /\ None \in Tokens
  BY DEF Off, Started, Tokens
<1> HIDE DEF Units
<1> SUFFICES \/ UNCHANGED <<record, host>>
             \/ /\ enabled' \in BOOLEAN /\ recorded' \in BOOLEAN /\ claimed' \in BOOLEAN
                /\ claimConf' \in Tokens /\ merged' \in Tokens /\ plexamp' \in Units
  BY DEF record, host, Units
<1>2. plexamp \in Units
  BY DEF Units
<1>3. ASSUME NEW p \in Pages,
             Rebuild(p) \/ Announce(p) \/ Reload(p) \/ StartingStep(p) \/ Connect(p) \/ Toggle(p)
      PROVE  UNCHANGED <<record, host>>
  BY <1>3 DEF Rebuild, Announce, Reload, StartingStep, ProbeStarting, StartingProbed, Connect, Toggle
<1>4. ASSUME NEW f \in Claims,
             \/ PinCreated(f) \/ PinRefused(f) \/ PanelGone(f) \/ Deadline(f) \/ Poll(f)
             \/ NotAuthorized(f) \/ Authorized(f) \/ GotToken(f) \/ Probed(f) \/ ShowClaimed(f)
             \/ CleanUpFails(f)
      PROVE  UNCHANGED <<record, host>>
  BY <1>4 DEF PinCreated, PinRefused, PanelGone, Deadline, Poll, NotAuthorized, Authorized, GotToken,
              Probed, ShowClaimed, CleanUpFails
<1>5. ASSUME NEW f \in Claims,
             \/ Stop(f) \/ WriteClaim(f) \/ DaemonReload(f) \/ Start(f) \/ ClaimFails(f)
             \/ RecordComplete(f) \/ RemoveConf(f) \/ Unmerge(f)
      PROVE  /\ enabled' \in BOOLEAN /\ recorded' \in BOOLEAN /\ claimed' \in BOOLEAN
             /\ claimConf' \in Tokens /\ merged' \in Tokens /\ plexamp' \in Units
  BY <1>1, <1>2, <1>5 DEF Stop, WriteClaim, DaemonReload, Start, ClaimFails, RecordComplete, RemoveConf,
                          Unmerge, record, host
<1>6. CASE ToggleStep \/ ToggleFails \/ ReseedRaises
  <2>1. toggle.enable \in BOOLEAN
    BY DEF PageShape
  <2>2. QED
    BY <1>1, <1>2, <1>6, <2>1 DEF ToggleStep, ToggleFails, ReseedRaises, WriteEnabled, ClearSetup,
                                  MoveUnit, Settle, record, host
<1>7. CASE Bind \/ GraceEnds \/ Kill
  BY <1>1, <1>2, <1>7 DEF Bind, GraceEnds, Kill, record, host
<1>8. CASE UNCHANGED vars
  BY <1>8 DEF vars, record, host
<1>9. QED
  BY <1>3, <1>4, <1>5, <1>6, <1>7, <1>8 DEF Next, FlowStep

LEMMA PageShapeKept == ASSUME Shape, [Next]_vars PROVE PageShape'
<1> USE DEF Shape
<1>0. /\ page \in [Pages -> Browser] /\ announced \subseteq Pages
      /\ flow \in [Claims -> Flows]
      /\ \A p \in Pages : page[p] \in Browser
  BY DEF PageShape, FlowShape
<1>1. ASSUME NEW p \in Pages, Rebuild(p) \/ Announce(p) \/ Connect(p) \/ Toggle(p)
      PROVE  PageShape'
  <2>1. Shown(p) \in Browser /\ [page[p] EXCEPT !.connect = FALSE] \in Browser
    BY <1>0, ShownType DEF Browser
  <2>2. page' \in [Pages -> Browser]
    BY <1>0, <1>1, <2>1 DEF Rebuild, Announce, Refresh, Connect, Toggle
  <2>3. announced' \subseteq Pages
    BY <1>0, <1>1 DEF Rebuild, Announce, Connect, Toggle
  <2>4. \/ toggle' = toggle
        \/ \E e \in BOOLEAN : toggle' = [at |-> "queued", page |-> p, enable |-> e]
    BY <1>1 DEF Rebuild, Announce, Connect, Toggle
  <2>5. QED
    BY <2>2, <2>3, <2>4 DEF PageShape
<1>2. ASSUME NEW p \in Pages, Reload(p) \/ StartingStep(p)
      PROVE  PageShape'
  <2>1. /\ Fresh \in Browser /\ [Shown(p) EXCEPT !.probing = FALSE] \in Browser
        /\ [page[p] EXCEPT !.probing = FALSE] \in Browser
        /\ [page[p] EXCEPT !.probing = TRUE] \in Browser
    BY <1>0, ShownType, PanelType DEF Browser
  <2>2. page' \in [Pages -> Browser]
    BY <1>0, <1>2, <2>1 DEF Reload, StartingStep, ProbeStarting, StartingProbed
  <2>3. UNCHANGED <<toggle, announced>>
    BY <1>2 DEF Reload, StartingStep, ProbeStarting, StartingProbed
  <2>4. QED
    BY <2>2, <2>3 DEF PageShape
<1>3. ASSUME NEW f \in Claims,
             \/ PanelGone(f) \/ Deadline(f) \/ ClaimFails(f) \/ Probed(f) \/ Unmerge(f)
      PROVE  PageShape'
  <2>1. \/ page' = page
        \/ \E b \in BOOLEAN : Released(f, b)
    BY <1>3 DEF PanelGone, Deadline, ClaimFails, Probed, Unmerge, Release
  <2>2. page' \in [Pages -> Browser]
    BY <1>0, <2>1, ReleasedType
  <2>3. UNCHANGED <<toggle, announced>>
    BY <1>3 DEF PanelGone, Deadline, ClaimFails, Probed, Unmerge
  <2>4. QED
    BY <2>2, <2>3 DEF PageShape
<1>4. ASSUME NEW f \in Claims, PinCreated(f) \/ PinRefused(f) \/ ShowClaimed(f)
      PROVE  PageShape'
  <2>1. \A p \in Pages : /\ Shown(p) \in Browser
                         /\ [page[p] EXCEPT !.connect = TRUE] \in Browser
                         /\ [page[p] EXCEPT !.flag = TRUE] \in Browser
    BY <1>0, ShownType DEF Browser
  <2>2. page' \in [Pages -> Browser]
    BY <1>0, <1>4, <2>1 DEF PinCreated, PinRefused, ShowClaimed
  <2>3. UNCHANGED <<toggle, announced>>
    BY <1>4 DEF PinCreated, PinRefused, ShowClaimed
  <2>4. QED
    BY <2>2, <2>3 DEF PageShape
<1>5. ASSUME NEW f \in Claims,
             \/ Poll(f) \/ NotAuthorized(f) \/ Authorized(f) \/ GotToken(f) \/ Stop(f) \/ WriteClaim(f)
             \/ DaemonReload(f) \/ Start(f) \/ RecordComplete(f) \/ RemoveConf(f) \/ CleanUpFails(f)
      PROVE  PageShape'
  <2>1. UNCHANGED <<page, toggle>> /\ announced' \in {announced, Pages}
    BY <1>5 DEF Poll, NotAuthorized, Authorized, GotToken, Stop, WriteClaim, DaemonReload, Start,
                RecordComplete, RemoveConf, CleanUpFails
  <2>2. QED
    BY <2>1 DEF PageShape
<1>6. CASE WriteEnabled \/ ClearSetup \/ MoveUnit \/ ToggleFails
  <2>1. page' = page /\ announced' \in {announced, Pages}
    BY <1>6 DEF WriteEnabled, ClearSetup, MoveUnit, ToggleFails
  <2>2. \E at \in {"clear", "units", "reseed", "settle"} : toggle' = [toggle EXCEPT !.at = at]
    BY <1>6 DEF WriteEnabled, ClearSetup, MoveUnit, ToggleFails
  <2>3. QED
    BY <2>1, <2>2 DEF PageShape
<1>7. CASE Settle \/ ReseedRaises
  <2>1. \A p \in Pages : Shown(p) \in Browser
    BY <1>0, ShownType
  <2>2. /\ page' \in {page, [page EXCEPT ![toggle.page] = Shown(toggle.page)]}
        /\ toggle' = NoToggle /\ announced' = announced
    BY <1>7 DEF Settle, ReseedRaises, Refresh
  <2>3. page' \in [Pages -> Browser]
    BY <1>0, <2>1, <2>2
  <2>4. QED
    BY <1>0, <2>2, <2>3 DEF PageShape, NoToggle
<1>8. CASE Kill
  <2>1. Panel' \in Panels
    BY DEF Panel, Panels
  <2>2. [Fresh EXCEPT !.panel = Panel'] \in Browser
    BY <2>1, PanelType DEF Browser
  <2>3. QED
    BY <1>8, <2>2 DEF Kill, PageShape, NoToggle
<1>9. CASE Bind \/ GraceEnds \/ UNCHANGED vars
  BY <1>9 DEF Bind, GraceEnds, vars, PageShape
<1>10. QED
  BY <1>1, <1>2, <1>3, <1>4, <1>5, <1>6, <1>7, <1>8, <1>9 DEF Next, FlowStep, ToggleStep

LEMMA FlowShapeKept == ASSUME Shape, [Next]_vars PROVE FlowShape' /\ Orphans'
<1> USE DEF Shape
<1>0. /\ flow \in [Claims -> Flows] /\ cut \subseteq Claims /\ disturbed \subseteq Claims
      /\ Orphans
  BY DEF FlowShape
<1>1. ASSUME NEW p \in Pages, Rebuild(p) \/ Announce(p) \/ StartingStep(p) \/ Toggle(p)
      PROVE  FlowShape' /\ Orphans'
  <2>1. disturbed' = disturbed /\ (UNCHANGED <<flow, cut>> \/ Rebuilt(p, flow))
    BY <1>1 DEF Rebuild, Announce, StartingStep, ProbeStarting, StartingProbed, Toggle, Refresh, history
  <2>2. CASE UNCHANGED <<flow, cut>>
    BY <1>0, <2>1, <2>2 DEF FlowShape, Orphans, UnderWay, Waiting
  <2>3. CASE Rebuilt(p, flow)
    BY <1>0, <2>1, <2>3, RebuiltFlows, RebuiltKeepsOrphans DEF FlowShape
  <2>4. QED
    BY <2>1, <2>2, <2>3
<1>2. ASSUME NEW p \in Pages, Reload(p) PROVE FlowShape' /\ Orphans'
  <2> DEFINE mine == {f \in Claims : flow[f].page = p /\ UnderWay(f)}
             gone == {f \in mine : Waiting(f)}
  <2>1. /\ flow' = [f \in Claims |->
             IF f \in gone THEN [flow[f] EXCEPT !.at = "end"]
             ELSE IF f \in mine THEN [flow[f] EXCEPT !.deleted = TRUE, !.page = None] ELSE flow[f]]
        /\ cut' = cut \cup gone /\ gone \subseteq Claims /\ disturbed' = disturbed
        /\ \A f \in mine \ gone : ~ Waiting(f)
    BY <1>2 DEF Reload
  <2> HIDE DEF mine, gone
  <2>2. FlowShape'
    BY <1>0, <2>1 DEF FlowShape, Flows, Stages
  <2>3. Orphans'
    BY <1>0, <2>1 DEF Orphans, UnderWay, Waiting, Flows
  <2>4. QED
    BY <2>2, <2>3
<1>3. ASSUME NEW p \in Pages, Connect(p) PROVE FlowShape' /\ Orphans'
  <2> DEFINE n == [NoFlow EXCEPT !.at = "pin", !.page = p]
  <2>1. PICK f \in Claims : flow' = [flow EXCEPT ![f] = n]
    BY <1>3 DEF Connect
  <2>2. n \in Flows /\ n.at = "pin" /\ n.page = p
    BY DEF NoFlow, Flows, Stages
  <2>3. p # None
    BY ClaimAssumption
  <2> HIDE DEF n
  <2>4. flow' \in [Claims -> Flows] /\ Orphans'
    BY <1>0, <2>1, <2>2, <2>3 DEF Orphans, UnderWay, Waiting, Flows, Stages
  <2>5. QED
    BY <1>0, <1>3, <2>4 DEF Connect, history, FlowShape
<1>4. ASSUME NEW f \in Claims, FlowStep(f) \/ ClaimFails(f) \/ CleanUpFails(f), ~ ShowClaimed(f)
      PROVE  FlowShape' /\ Orphans'
  <2>1. cut' \subseteq Claims /\ disturbed' \subseteq Claims
    BY <1>0, <1>4 DEF FlowStep, PinCreated, PinRefused, PanelGone, Deadline, Poll, NotAuthorized, Authorized,
         GotToken, Stop, WriteClaim, DaemonReload, Start, Probed, RecordComplete, RemoveConf, Unmerge,
         ClaimFails, CleanUpFails, WaitForTimer, NextTick, Disturb, history
  <2>2. UnderWay(f)
    BY <1>4 DEF FlowStep, PinCreated, PinRefused, PanelGone, Deadline, Poll, NotAuthorized, Authorized,
         GotToken, Stop, WriteClaim, DaemonReload, Start, Probed, RecordComplete, RemoveConf, Unmerge,
         ClaimFails, CleanUpFails, UnderWay, Waiting
  <2>3. flow[f].page = None => flow[f].deleted
    BY <1>0, <2>2 DEF Orphans
  <2>4. \E at \in Stages : /\ Move(f, at)
                           /\ flow[f].page = None => at \notin {"wait", "restarting"}
    BY <1>0, <1>4, <2>3 DEF FlowStep, PinCreated, PinRefused, PanelGone, Deadline, Poll, NotAuthorized, Authorized,
         GotToken, Stop, WriteClaim, DaemonReload, Start, Probed, RecordComplete, RemoveConf, Unmerge,
         ClaimFails, CleanUpFails, WaitForTimer, NextTick, Release, Waiting, Stages
  <2>5. QED
    BY <1>0, <2>1, <2>2, <2>4, Moved, MoveKeepsOrphans DEF FlowShape
<1>5. ASSUME NEW f \in Claims, ShowClaimed(f) PROVE FlowShape' /\ Orphans'
  <2> DEFINE ended == [flow EXCEPT ![f].at = "end"]
  <2>1. /\ ended \in [Claims -> Flows]
        /\ \A g \in Claims : /\ ended[g].page = flow[g].page /\ ended[g].deleted = flow[g].deleted
                             /\ ended[g].at = flow[g].at \/ ended[g].at = "end"
    BY <1>0 DEF Flows, Stages
  <2>2. Rebuilt(flow[f].page, ended) /\ disturbed' = disturbed
    BY <1>5 DEF ShowClaimed
  <2> HIDE DEF ended
  <2>3. QED
    BY <1>0, <2>1, <2>2, RebuiltFlows, RebuiltKeepsOrphans DEF FlowShape
<1>6. CASE WriteEnabled \/ ClearSetup \/ MoveUnit \/ ToggleFails \/ ReseedRaises \/ Bind \/ GraceEnds
         \/ UNCHANGED vars
  <2>1. flow' = flow /\ cut' = cut /\ disturbed' \subseteq Claims
    BY <1>0, <1>6 DEF WriteEnabled, ClearSetup, MoveUnit, ToggleFails, ReseedRaises, Bind, GraceEnds, vars,
                     Disturb, history
  <2>2. QED
    BY <1>0, <2>1 DEF FlowShape, Orphans, UnderWay, Waiting
<1>7. CASE Settle
  BY <1>0, <1>7, RebuiltFlows, RebuiltKeepsOrphans DEF Settle, Refresh, FlowShape
<1>8. CASE Kill
  <2>1. /\ flow' \in [Claims -> Flows]
        /\ \A f \in Claims : flow'[f].at \in {"new", "end"}
    BY <1>0, <1>8 DEF Kill, UnderWay, Flows, Stages
  <2>2. cut' \subseteq Claims /\ disturbed' \subseteq Claims
    BY <1>0, <1>8 DEF Kill
  <2>3. QED
    BY <2>1, <2>2 DEF FlowShape, Orphans, UnderWay
<1>9. QED
  BY <1>1, <1>2, <1>3, <1>4, <1>5, <1>6, <1>7, <1>8 DEF Next, ToggleStep

-----------------------------------------------------------------------------
(* Who holds the token, what a restart has prepared, and the evidence of a *)
(* claim.                                                                  *)

(* A step that leaves the host alone and moves flows only where they rely  *)
(* on nothing new: nobody forgets its token without being cut, nobody      *)
(* enters a stage of the restart or the one that records.                  *)
Quiet ==
  /\ UNCHANGED host /\ (recorded' => recorded)
  /\ cut \subseteq cut' /\ disturbed \subseteq disturbed'
  /\ \A f \in Claims :
       \/ flow'[f].at = flow[f].at
       \/ /\ f \in cut' \/ flow[f].at \notin Keeping \/ {flow[f].at, flow'[f].at} \subseteq Holding
          /\ flow'[f].at \notin {"write", "reload", "start", "record"}
          /\ flow'[f].at \in {"restarting", "probing"} => flow[f].at \in {"restarting", "probing"}

LEMMA QuietKeeps ==
  ASSUME Owned, Prepared, Evidence, Quiet
  PROVE  Owned' /\ Prepared' /\ Evidence'
<1>1. Owned'
  BY DEF Owned, Quiet, host, Keeping, Holding
<1>2. Prepared'
  BY DEF Prepared, Quiet, host
<1>3. Evidence'
  BY DEF Evidence, Quiet, host
<1>4. QED
  BY <1>1, <1>2, <1>3

(* A rebuild is quiet. *)
LEMMA RebuiltQuiet ==
  ASSUME NEW p, flow \in [Claims -> Flows], cut \subseteq Claims, Rebuilt(p, flow),
         UNCHANGED host, recorded' => recorded, disturbed' = disturbed
  PROVE  Quiet
<1>1. /\ cut \subseteq cut'
      /\ \A f \in Claims : flow'[f].at = flow[f].at \/ (flow'[f].at = "end" /\ f \in cut')
  BY RebuiltFlows
<1>2. QED
  BY <1>1 DEF Quiet

(* The pages, the switch's write and the flows outside the restart. *)
LEMMA QuietActions ==
  ASSUME Shape,
         \/ \E p \in Pages :
              Rebuild(p) \/ Announce(p) \/ Reload(p) \/ StartingStep(p) \/ Connect(p) \/ Toggle(p)
         \/ \E f \in Claims :
              \/ PinCreated(f) \/ PinRefused(f) \/ PanelGone(f) \/ Deadline(f) \/ Poll(f)
              \/ NotAuthorized(f) \/ Authorized(f) \/ GotToken(f) \/ ShowClaimed(f) \/ CleanUpFails(f)
              \/ Probed(f) /\ plexamp.run # "open"
         \/ WriteEnabled \/ ClearSetup \/ Settle \/ ToggleFails \/ ReseedRaises
         \/ UNCHANGED vars
  PROVE  Quiet
<1> USE DEF Shape
<1>0. flow \in [Claims -> Flows] /\ cut \subseteq Claims
  BY DEF FlowShape
<1>1. ASSUME NEW p \in Pages, Rebuild(p) \/ Announce(p) \/ StartingStep(p) \/ Toggle(p) PROVE Quiet
  <2>1. CASE UNCHANGED <<flow, cut>>
    BY <1>1, <2>1 DEF Rebuild, Announce, StartingStep, ProbeStarting, StartingProbed, Toggle, Quiet, record, history
  <2>2. CASE Rebuilt(p, flow) /\ ~ Toggle(p)
    <3>1. UNCHANGED host /\ (recorded' => recorded) /\ disturbed' = disturbed
      BY <1>1, <2>2 DEF Rebuild, Announce, StartingStep, ProbeStarting, StartingProbed, record, history
    <3>2. QED
      BY <1>0, <2>2, <3>1, RebuiltQuiet
  <2>3. QED
    BY <1>1, <2>1, <2>2 DEF Rebuild, Announce, StartingStep, ProbeStarting, StartingProbed, Toggle, Refresh, history
<1>2. ASSUME NEW p \in Pages, Reload(p) PROVE Quiet
  <2>1. \A f \in Claims : flow'[f].at = flow[f].at \/ (flow'[f].at = "end" /\ f \in cut')
    BY <1>0, <1>2 DEF Reload, Flows
  <2>2. QED
    BY <1>2, <2>1 DEF Reload, Quiet, record
<1>3. ASSUME NEW p \in Pages, Connect(p) PROVE Quiet
  <2>1. PICK f \in Claims : /\ flow' = [flow EXCEPT ![f] = [NoFlow EXCEPT !.at = "pin", !.page = p]]
                            /\ flow[f].at = "new"
    BY <1>3 DEF Connect
  <2>2. [NoFlow EXCEPT !.at = "pin", !.page = p].at = "pin"
    BY DEF NoFlow
  <2>3. \A g \in Claims : flow'[g].at = flow[g].at \/ (flow[g].at = "new" /\ flow'[g].at = "pin")
    BY <1>0, <2>1, <2>2
  <2>4. QED
    BY <1>3, <2>3 DEF Connect, Quiet, record, history, Keeping, Holding
<1>4. ASSUME NEW f \in Claims,
             \/ PinCreated(f) \/ PinRefused(f) \/ PanelGone(f) \/ Deadline(f) \/ Poll(f)
             \/ NotAuthorized(f) \/ Authorized(f) \/ GotToken(f) \/ CleanUpFails(f)
             \/ Probed(f) /\ plexamp.run # "open"
      PROVE  Quiet
  <2>1. UNCHANGED <<record, host, disturbed>> /\ cut \subseteq cut'
    BY <1>4 DEF PinCreated, PinRefused, PanelGone, Deadline, Poll, NotAuthorized, Authorized, GotToken,
                CleanUpFails, Probed, WaitForTimer, NextTick, history
  <2>2. PICK at \in Stages :
          /\ Move(f, at)
          /\ f \in cut' \/ flow[f].at \notin Keeping \/ {flow[f].at, at} \subseteq Holding
          /\ at \notin {"write", "reload", "start", "record"}
          /\ at \in {"restarting", "probing"} => flow[f].at \in {"restarting", "probing"}
    BY <1>4 DEF PinCreated, PinRefused, PanelGone, Deadline, Poll, NotAuthorized, Authorized, GotToken,
                CleanUpFails, Probed, WaitForTimer, NextTick, Release, Waiting, Keeping, Holding, Stages
  <2>3. flow'[f].at = at /\ \A g \in Claims \ {f} : flow'[g].at = flow[g].at
    BY <1>0, <2>2, Moved
  <2>4. QED
    BY <2>1, <2>2, <2>3 DEF Quiet, record
<1>5. ASSUME NEW f \in Claims, ShowClaimed(f) PROVE Quiet
  <2> DEFINE ended == [flow EXCEPT ![f].at = "end"]
  <2>1. /\ ended \in [Claims -> Flows]
        /\ \A g \in Claims : g # f => ended[g].at = flow[g].at
        /\ ended[f].at = "end"
    BY <1>0 DEF Flows, Stages
  <2>2. Rebuilt(flow[f].page, ended) /\ disturbed' = disturbed
    BY <1>5 DEF ShowClaimed
  <2> HIDE DEF ended
  <2>3. /\ cut \subseteq cut' /\ flow'[f].at = "end"
        /\ \A g \in Claims : g # f => flow'[g].at = flow[g].at \/ (flow'[g].at = "end" /\ g \in cut')
    BY <1>0, <2>1, <2>2, RebuiltFlows
  <2>4. QED
    BY <1>5, <2>3 DEF Quiet, ShowClaimed, record, Keeping, Holding
<1>6. CASE WriteEnabled \/ ClearSetup \/ ToggleFails \/ ReseedRaises \/ UNCHANGED vars
  BY <1>6 DEF WriteEnabled, ClearSetup, ToggleFails, ReseedRaises, vars, Quiet, record, history, host
<1>7. CASE Settle
  BY <1>0, <1>7, RebuiltQuiet DEF Settle, Refresh, record
<1>8. QED
  BY <1>1, <1>2, <1>3, <1>4, <1>5, <1>6, <1>7

(* The steps of a flow's restart, and of its clean-up. *)
LEMMA RestartKeeps ==
  ASSUME IInv, NEW f \in Claims,
         \/ Stop(f) \/ WriteClaim(f) \/ DaemonReload(f) \/ Start(f) \/ ClaimFails(f)
         \/ (Probed(f) /\ plexamp.run = "open") \/ RecordComplete(f) \/ RemoveConf(f) \/ Unmerge(f)
  PROVE  Owned' /\ Prepared' /\ Evidence'
<1> USE DEF IInv, Shape
<1>0. flow \in [Claims -> Flows] /\ f # None /\ f \in Tokens
  BY ClaimAssumption DEF FlowShape, Tokens
<1>1. CASE Stop(f)
  <2>1. /\ flow'[f].at = "write" /\ \A g \in Claims \ {f} : flow'[g].at = flow[g].at
        /\ plexamp'.run = "inactive"
    BY <1>0, <1>1, Moved DEF Stop, Stages, Off
  <2>2. Owned'
    BY <1>1, <2>1 DEF Stop, Owned, Keeping, Holding
  <2>3. Prepared'
    BY <1>1, <2>1 DEF Stop, Prepared, Disturb, Claiming
  <2>4. Evidence'
    BY <1>1, <2>1 DEF Stop, Evidence, record
  <2>5. QED
    BY <2>2, <2>3, <2>4
<1>2. CASE WriteClaim(f)
  <2>1. /\ flow[f].at = "write"
        /\ flow'[f].at = "reload" /\ \A g \in Claims \ {f} : flow'[g].at = flow[g].at
    BY <1>0, <1>2, Moved DEF WriteClaim, Stages
  <2>2. Owned'
    BY <1>2, <2>1 DEF WriteClaim, Owned, Keeping, Holding
  <2>3. Prepared'
    BY <1>2, <2>1 DEF WriteClaim, Prepared, Disturb, Claiming
  <2>4. Evidence'
    BY <1>2, <2>1 DEF WriteClaim, Evidence, record
  <2>5. QED
    BY <2>2, <2>3, <2>4
<1>3. CASE DaemonReload(f)
  <2>1. /\ flow[f].at = "reload"
        /\ flow'[f].at = "start" /\ \A g \in Claims \ {f} : flow'[g].at = flow[g].at
    BY <1>0, <1>3, Moved DEF DaemonReload, Stages
  <2>2. Owned'
    BY <1>3, <2>1 DEF DaemonReload, Owned, Keeping, Holding
  <2>3. Prepared'
    BY <1>3, <2>1 DEF DaemonReload, Prepared, Disturb, Claiming
  <2>4. Evidence'
    BY <1>3, <2>1 DEF DaemonReload, Evidence, record
  <2>5. QED
    BY <2>2, <2>3, <2>4
<1>4. CASE Start(f)
  <2>1. PICK at \in {"restarting", "end"} :
          /\ flow[f].at = "start" /\ cut \subseteq cut' /\ (at = "end" => f \in cut')
          /\ Move(f, at)
    BY <1>0, <1>4 DEF Start, WaitForTimer
  <2>2. flow'[f].at = at /\ \A g \in Claims \ {f} : flow'[g].at = flow[g].at
    BY <1>0, <2>1, Moved DEF Stages
  <2>3. Owned'
    BY <1>4, <2>1, <2>2 DEF Start, Owned, Keeping, Holding
  <2>4. plexamp.run = "inactive" => plexamp'.run = "starting" /\ plexamp'.token = merged
    BY <1>4 DEF Start, Started
  <2>5. Prepared'
    BY <1>4, <2>1, <2>2, <2>4 DEF Start, Prepared, Disturb, Claiming
  <2>6. plexamp'.run = "open" => plexamp.run = "open"
    BY <1>4 DEF Start, Started
  <2>7. Evidence'
    BY <1>4, <2>1, <2>2, <2>6 DEF Start, Evidence, record
  <2>8. QED
    BY <2>3, <2>5, <2>7
<1>5. CASE ClaimFails(f)
  <2>1. /\ flow'[f].at = "end" /\ \A g \in Claims \ {f} : flow'[g].at = flow[g].at
        /\ flow[f].at \in Claiming \cup {"token"}
    BY <1>0, <1>5, Moved DEF ClaimFails, Release, Stages, Claiming
  <2>2. Owned'
    BY <1>5, <2>1 DEF ClaimFails, Owned, Keeping, Holding
  <2>3. Prepared'
    BY <1>5, <2>1 DEF ClaimFails, Prepared, Disturb, Claiming
  <2>4. plexamp'.run = "open" => plexamp.run = "open"
    BY <1>5 DEF ClaimFails, Started, Off
  <2>5. Evidence'
    BY <1>5, <2>1, <2>4 DEF ClaimFails, Evidence, record
  <2>6. QED
    BY <2>2, <2>3, <2>5
<1>6. CASE Probed(f) /\ plexamp.run = "open"
  <2>1. /\ flow[f].at = "probing" /\ UNCHANGED <<record, host, disturbed, cut>>
        /\ flow'[f].at = "record" /\ \A g \in Claims \ {f} : flow'[g].at = flow[g].at
    BY <1>0, <1>6, Moved DEF Probed, Release, Stages
  <2>2. QED
    BY <1>6, <2>1 DEF Owned, Prepared, Evidence, Keeping, Holding, record, host
<1>7. CASE RecordComplete(f)
  <2>1. /\ flow[f].at = "record" /\ UNCHANGED <<host, disturbed, cut>>
        /\ flow'[f].at = "remove" /\ \A g \in Claims \ {f} : flow'[g].at = flow[g].at
    BY <1>0, <1>7, Moved DEF RecordComplete, Stages, history
  <2>2. QED
    BY <1>7, <2>1 DEF Owned, Prepared, Evidence, Keeping, Holding, host
<1>8. CASE RemoveConf(f)
  <2>1. /\ flow[f].at \in {"remove", "giveup"}
        /\ flow'[f].at \in {"unmerge", "giveupunmerge"}
        /\ \A g \in Claims \ {f} : flow'[g].at = flow[g].at
    BY <1>0, <1>8, Moved DEF RemoveConf, Stages
  <2>2. Owned'
    BY <1>8, <2>1, ClaimAssumption DEF RemoveConf, Owned, Keeping, Holding
  <2>3. Prepared'
    BY <1>8, <2>1 DEF RemoveConf, Prepared, Disturb, Claiming
  <2>4. Evidence'
    BY <1>8, <2>1 DEF RemoveConf, Evidence, record
  <2>5. QED
    BY <2>2, <2>3, <2>4
<1>9. CASE Unmerge(f)
  <2>1. /\ flow[f].at \in {"unmerge", "giveupunmerge"}
        /\ flow'[f].at \in {"refresh", "end"}
        /\ \A g \in Claims \ {f} : flow'[g].at = flow[g].at
    BY <1>0, <1>9, Moved DEF Unmerge, Release, Stages
  <2>2. Owned'
    BY <1>9, <2>1 DEF Unmerge, Owned, Keeping, Holding
  <2>3. Prepared'
    BY <1>9, <2>1 DEF Unmerge, Prepared, Disturb, Claiming
  <2>4. Evidence'
    BY <1>9, <2>1 DEF Unmerge, Evidence, record
  <2>5. QED
    BY <2>2, <2>3, <2>4
<1>10. QED
  BY <1>1, <1>2, <1>3, <1>4, <1>5, <1>6, <1>7, <1>8, <1>9

(* The unit, the switch's call for it, and kills. *)
LEMMA UnitKeeps ==
  ASSUME IInv, MoveUnit \/ Bind \/ GraceEnds \/ Kill
  PROVE  Owned' /\ Prepared' /\ Evidence'
<1> USE DEF IInv, Shape
<1>0. /\ flow \in [Claims -> Flows]
      /\ plexamp \in [run : {"inactive", "starting", "late", "open"}, token : Tokens]
      /\ \A g \in Claims : g # None
  BY ClaimAssumption DEF FlowShape, HostShape
<1>1. CASE MoveUnit
  <2>1. plexamp'.run = "open" => plexamp.run = "open"
    BY <1>1 DEF MoveUnit, Off
  <2>2. QED
    BY <1>0, <1>1, <2>1 DEF MoveUnit, Owned, Prepared, Evidence, Disturb, Claiming, Keeping, Holding, record
<1>2. CASE Bind
  <2>1. plexamp'.run = "open" /\ plexamp'.token = plexamp.token /\ plexamp.run # "inactive"
    BY <1>0, <1>2 DEF Bind
  <2>2. QED
    BY <1>2, <2>1 DEF Bind, Owned, Prepared, Evidence, record, history
<1>3. CASE GraceEnds
  <2>1. plexamp'.run = "late" /\ plexamp'.token = plexamp.token /\ plexamp.run # "inactive"
    BY <1>0, <1>3 DEF GraceEnds
  <2>2. QED
    BY <1>3, <2>1 DEF GraceEnds, Owned, Prepared, Evidence, record, history
<1>4. CASE Kill
  <2>1. \A g \in Claims : /\ flow'[g].at \in {"new", "end"}
                          /\ g \in cut' \/ flow'[g].at = flow[g].at
    BY <1>0, <1>4 DEF Kill, UnderWay
  <2>2. cut \subseteq cut' /\ claimConf' = claimConf /\ merged' \in {merged, claimConf}
    BY <1>4 DEF Kill
  <2>3. Owned'
    BY <2>1, <2>2 DEF Owned, Keeping, Holding
  <2>4. Prepared'
    BY <2>1 DEF Prepared
  <2>5. plexamp'.run = "open" => plexamp.run = "open"
    BY <1>4 DEF Kill, Off
  <2>6. Evidence'
    BY <1>4, <2>1, <2>5 DEF Kill, Evidence, record
  <2>7. QED
    BY <2>3, <2>4, <2>6
<1>5. QED
  BY <1>1, <1>2, <1>3, <1>4

LEMMA InitIInv == ASSUME Init PROVE IInv
<1>1. Shape
  BY InitShape
<1>2. Owned /\ Prepared
  BY ClaimAssumption DEF Init, Owned, Prepared, NoFlow
<1>3. Evidence
  <2>1. plexamp.run # "open"
    BY DEF Init
  <2>2. QED
    BY <2>1 DEF Init, Evidence, NoFlow
<1>4. QED
  BY <1>1, <1>2, <1>3 DEF IInv

LEMMA StepIInv == ASSUME IInv, [Next]_vars PROVE IInv'
<1>1. Shape'
  BY HostShapeKept, PageShapeKept, FlowShapeKept DEF IInv, Shape
<1>2. Owned' /\ Prepared' /\ Evidence'
  <2>1. CASE Quiet
    BY <2>1, QuietKeeps DEF IInv
  <2>2. CASE \E f \in Claims :
          \/ Stop(f) \/ WriteClaim(f) \/ DaemonReload(f) \/ Start(f) \/ ClaimFails(f)
          \/ (Probed(f) /\ plexamp.run = "open") \/ RecordComplete(f) \/ RemoveConf(f) \/ Unmerge(f)
    BY <2>2, RestartKeeps
  <2>3. CASE MoveUnit \/ Bind \/ GraceEnds \/ Kill
    BY <2>3, UnitKeeps
  <2>4. QED
    BY <2>1, <2>2, <2>3, QuietActions DEF Next, FlowStep, ToggleStep, IInv
<1>3. QED
  BY <1>1, <1>2 DEF IInv

LEMMA Invariance == Spec => []IInv
BY InitIInv, StepIInv, PTL DEF Spec

-----------------------------------------------------------------------------
(* Every variable has its shape, whatever the flows, the switch and the     *)
(* rebuilds of the tab (_plex.py) do in between; and a flow whose browser   *)
(* is gone does not wait for a timer that would never fire.                 *)
THEOREM TypeCorrect == Spec => []TypeOK
<1>1. IInv => TypeOK
  BY DEF IInv, Shape, HostShape, PageShape, FlowShape, Orphans, TypeOK, Browser, Panels, Flows, Tokens,
         UnderWay, Waiting
<1>2. QED
  BY <1>1, Invariance, PTL

(* A claim token is on disk or merged by systemd only while the flow that   *)
(* wrote it is under way, or if that flow was cut short: success and        *)
(* timeout alike take it away (_remove_claim_override), for any number of   *)
(* flows writing and deleting the one drop-in.                              *)
THEOREM OverrideIsOwned == Spec => []OverrideOwned
<1>1. IInv => OverrideOwned
  BY DEF IInv, Shape, HostShape, Owned, OverrideOwned, Keeping, Holding, Tokens
<1>2. QED
  BY <1>1, Invariance, PTL

(* After a restart nothing interfered with, PlexAmp runs with the token its *)
(* flow fetched: the reload between the write of the drop-in and the start  *)
(* has systemd see it (_restart_plexamp_with_claim).                        *)
THEOREM ClaimRunsWithToken == Spec => []ClaimTakesEffect
<1>1. IInv => ClaimTakesEffect
  BY DEF IInv, Prepared, ClaimTakesEffect
<1>2. QED
  BY <1>1, Invariance, PTL

(* set_setup_complete is reached only through a probe that found the port   *)
(* open, and the port opens only on a claimed PlexAmp: what the record says *)
(* for good was true when it was written, and stays true.                   *)
THEOREM RecordIsEvidence == Spec => []RecordedMeansClaimed
<1>1. IInv => RecordedMeansClaimed
  BY DEF IInv, Evidence, RecordedMeansClaimed
<1>2. QED
  BY <1>1, Invariance, PTL
=============================================================================
