-------------------------- MODULE SetupWizardProofs --------------------------
(***************************************************************************)
(* Theorems about the setup wizard, for any phones, networks and bounds.   *)
(***************************************************************************)
EXTENDS SetupWizard, TLAPS

(* ManagerRestored and ServedOverAccessPoint are inductive beside TypeOK.   *)
(* CleanHandover is not: a second Finish must be under way only once the   *)
(* point that the first one took down is really gone.                      *)
HandoverInv ==
  /\ net.apUp => net.apProfile
  /\ \A b \in Phones : finish[b] # "none" => Alive
  /\ \A b \in Phones : finish[b] \in {"interface", "reboot"} => ~net.apUp /\ ~net.apProfile
  /\ CleanHandover

(* Nor is ConnectedIsStored: what an attempt deletes must be another name. *)
KeptInv ==
  /\ ConnectedIsStored
  /\ kept => \A b \in Phones : attempt[b].stage # "idle" => attempt[b].ssid # page.connected

-----------------------------------------------------------------------------
(* The calls of AccessPoint, as the proofs use them: what each leaves of    *)
(* the fields that the invariants speak of.                                *)
LEMMA NetworksClosed ==
  ASSUME net \in Networks
  PROVE  /\ Booted \in Networks /\ ManagerStopped \in Networks
         /\ SupplicantStopped \in Networks /\ ManagerRestarted \in Networks
         /\ InterfaceDeleted \in Networks /\ InterfaceAdded \in Networks
         /\ ProfileAdded \in Networks /\ PointUp \in Networks
         /\ PointDown \in Networks /\ ProfileDeleted \in Networks
         /\ Disassociated \in Networks
         /\ \A s \in Ssids : Forgotten(s) \in Networks /\ Associated(s) \in Networks
         /\ \A s \in Ssids, k \in Keys : Stored(s, k) \in Networks
<1>1. /\ Booted \in Networks /\ ManagerStopped \in Networks
      /\ SupplicantStopped \in Networks /\ ManagerRestarted \in Networks
  BY DEF Networks, Booted, ManagerStopped, SupplicantStopped, ManagerRestarted
<1>2. /\ InterfaceDeleted \in Networks /\ InterfaceAdded \in Networks
      /\ ProfileAdded \in Networks /\ PointUp \in Networks
      /\ PointDown \in Networks /\ ProfileDeleted \in Networks
      /\ Disassociated \in Networks
  BY DEF Networks, InterfaceDeleted, InterfaceAdded, ProfileAdded, PointUp,
         PointDown, ProfileDeleted, Disassociated
<1>3. \A s \in Ssids : Forgotten(s) \in Networks /\ Associated(s) \in Networks
  BY DEF Networks, Forgotten, Associated
<1>4. \A s \in Ssids, k \in Keys : Stored(s, k) \in Networks
  BY DEF Networks, Stored, Keys
<1>5. QED
  BY <1>1, <1>2, <1>3, <1>4

(* What a call leaves of each field. *)
LEMMA CallsOnFields ==
  ASSUME net \in Networks
  PROVE  /\ \A n \in {Booted, ManagerRestarted} : n.manager /\ ~n.apUp
         /\ \A n \in {SupplicantStopped, InterfaceDeleted, InterfaceAdded, ProfileAdded,
                        PointUp, PointDown, ProfileDeleted, Disassociated} :
              n.manager = net.manager
         /\ \A n \in {SupplicantStopped, InterfaceAdded, ProfileAdded, Disassociated} :
              n.apUp = net.apUp
         /\ \A n \in {ManagerStopped, InterfaceDeleted, PointDown, ProfileDeleted} : ~n.apUp
         /\ \A n \in {Booted, ManagerRestarted, ManagerStopped, SupplicantStopped,
                        InterfaceDeleted, InterfaceAdded, PointUp, PointDown, Disassociated} :
              n.apProfile = net.apProfile
         /\ ProfileAdded.apProfile /\ ~ProfileDeleted.apProfile /\ PointUp.apUp
         /\ \A n \in {Booted, ManagerRestarted, ManagerStopped, SupplicantStopped,
                        InterfaceDeleted, InterfaceAdded, ProfileAdded, PointUp, PointDown,
                        ProfileDeleted, Disassociated} :
              n.profiles = net.profiles
BY DEF Networks, Booted, ManagerStopped, SupplicantStopped, ManagerRestarted,
       InterfaceDeleted, InterfaceAdded, ProfileAdded, PointUp, PointDown,
       ProfileDeleted, Disassociated

(* The same for the calls that an attempt to join makes. *)
LEMMA JoiningOnFields ==
  ASSUME net \in Networks, NEW s \in Ssids, NEW k \in Keys
  PROVE  /\ \A n \in {Forgotten(s), Associated(s), Stored(s, k)} :
              n.manager = net.manager /\ n.apUp = net.apUp /\ n.apProfile = net.apProfile
         /\ Associated(s).profiles = net.profiles
         /\ Stored(s, k).profiles = net.profiles \cup {<<s, k>>}
         /\ Forgotten(s).profiles = net.profiles \ ({s} \X Keys)
BY DEF Networks, Forgotten, Associated, Stored, Keys

(* Where a step of the main thread leaves it.                              *)
LEMMA NextStep ==
  ASSUME TypeOK
  PROVE  /\ \A step : Go(step) => proc'.step = step
         /\ Raise => proc'.step \in {"restart", "failed"}
<1>1. ASSUME NEW step, Go(step)
      PROVE  proc'.step = step
  BY <1>1 DEF TypeOK, Processes, Go
<1>2. ASSUME Raise
      PROVE  proc'.step \in {"restart", "failed"}
  BY <1>2 DEF TypeOK, Processes, Raise, Running
<1>3. QED
  BY <1>1, <1>2

(* A profile that is stored has a name that a scan can show. *)
LEMMA StoredNames ==
  ASSUME TypeOK, NEW s
  PROVE  /\ HasProfile(s) => s \in Ssids
         /\ \A k : <<s, k>> \in net.profiles => s \in Ssids
BY DEF TypeOK, Networks, HasProfile

(* An attempt to join a network leaves the access point alone.             *)
LEMMA HandlersKeepThePoint ==
  ASSUME TypeOK, NEW b \in Phones, Connect(b) \/ Handler(b)
  PROVE  /\ net'.manager = net.manager /\ net'.apUp = net.apUp
         /\ net'.apProfile = net.apProfile
<1>1. CASE ForgetProfile(b)
  BY <1>1, JoiningOnFields, StoredNames DEF TypeOK, ForgetProfile, ForgetWorks, Keys
<1>2. CASE StoreProfile(b)
  <2>1. attempt[b].ssid \in Ssids /\ attempt[b].key \in Keys
    BY <1>2 DEF StoreProfile, TypeOK, Attempted
  <2>2. QED
    BY <1>2, <2>1, JoiningOnFields DEF TypeOK, StoreProfile
<1>3. CASE Join(b)
  BY <1>3, JoiningOnFields, CallsOnFields, StoredNames DEF TypeOK, Join, Joined, NotJoined, Keys
<1>4. QED
  BY <1>1, <1>2, <1>3 DEF TypeOK, Connect, Handler, AwaitForgotten, AwaitStored

-----------------------------------------------------------------------------
(* Every failure counts as an upset. *)
LEMMA UpsetsCounted ==
  ASSUME TypeOK, UNCHANGED upsets \/ Upset
  PROVE  upsets' \in 0 .. MaxUpsets
BY WizardAssumption DEF TypeOK, Upset

(* Types, when the main thread steps. *)
LEMMA MainTypes ==
  ASSUME TypeOK, Main
  PROVE  TypeOK'
<1>1. net' \in Networks
  BY NetworksClosed
  DEF TypeOK, Main, Online, Miss, StopUnits, ResetInterface, AddInterface, LinkUp,
      WriteCaptive, RestartManager, AddProfile, AwaitProfile, Up, Return, Respawn, Call
<1>2. proc' \in Processes
  <2>0. 0 \in 0 .. Attempts
    BY WizardAssumption
  <2>1. ASSUME NEW step \in Steps, Go(step)
        PROVE  proc' \in Processes
    BY <2>1 DEF TypeOK, Go, Processes
  <2>5. ASSUME NEW step \in Steps
        PROVE  Running(step) \in Processes
    BY <2>0 DEF Running, Processes
  <2>2. ASSUME Raise
        PROVE  proc' \in Processes
    <3>1. {"restart", "failed"} \subseteq Steps
      BY DEF Steps, Creating
    <3>2. [proc EXCEPT !.step = "restart", !.error = TRUE] \in Processes
      BY <3>1 DEF TypeOK, Processes
    <3>. QED
      BY <2>2, <2>5, <3>1, <3>2 DEF Raise
  <2>3. Miss => proc' \in Processes
    BY WizardAssumption, <2>5 DEF Miss, Missed, TypeOK, Running, Processes, Steps, Creating
  <2>4. QED
    BY <2>1, <2>5, <2>2, <2>3
    DEF Main, Online, StopUnits, ResetInterface, AddInterface, LinkUp, Running,
        WriteCaptive, RestartManager, AddProfile, AwaitProfile, Up, Return, Respawn, Call,
        Steps, Creating
<1>3. cut' \in BOOLEAN
  BY DEF TypeOK, Main, Online, Miss, StopUnits, ResetInterface, AddInterface, LinkUp, Upset,
      WriteCaptive, RestartManager, AddProfile, AwaitProfile, Up, Return, Respawn, Call
<1>8. upsets' \in 0 .. MaxUpsets
  BY WizardAssumption, UpsetsCounted
  DEF TypeOK, Main, Online, Miss, StopUnits, ResetInterface, AddInterface, LinkUp, Upset,
      WriteCaptive, RestartManager, AddProfile, AwaitProfile, Up, Return, Respawn, Call
<1>4. UNCHANGED phoneVars \/ Return
  BY DEF Main, Online, Miss, StopUnits, ResetInterface, AddInterface, LinkUp,
      WriteCaptive, RestartManager, AddProfile, AwaitProfile, Up, Respawn
<1>5. CASE UNCHANGED phoneVars
  BY <1>1, <1>2, <1>3, <1>8, <1>5 DEF TypeOK, phoneVars
<1>6. CASE Return
  BY <1>1, <1>2, <1>3, <1>8, <1>6
  DEF TypeOK, Return, Forget, Blank, Idle, Attempted, AttemptStages, FinishStages, Keys
<1>7. QED
  BY <1>4, <1>5, <1>6

(* An attempt keeps its shape, and its network is one a scan showed. *)
LEMMA AttemptTypes ==
  ASSUME TypeOK, NEW b \in Phones, Connect(b) \/ Handler(b)
  PROVE  attempt' \in [Phones -> Attempted]
<1>1. Idle \in Attempted
  BY DEF Idle, Attempted, AttemptStages, Keys
<1>2. ASSUME NEW stage \in AttemptStages, Set(b, stage), attempt[b].stage # "idle"
      PROVE  attempt' \in [Phones -> Attempted]
  <2>1. [attempt[b] EXCEPT !.stage = stage] \in Attempted
    BY <1>2 DEF TypeOK, Attempted
  <2>2. attempt' = [attempt EXCEPT ![b] = [attempt[b] EXCEPT !.stage = stage]]
    BY <1>2 DEF TypeOK, Set
  <2>3. QED
    BY <2>1, <2>2 DEF TypeOK
<1>3. ASSUME Resolve(b)
      PROVE  attempt' \in [Phones -> Attempted]
  BY <1>1, <1>3 DEF TypeOK, Resolve
<1>4. ASSUME NEW s \in Ssids, NEW k \in Keys, Selected(b, s, k)
      PROVE  attempt' \in [Phones -> Attempted]
  <2>1. [stage |-> IF HasProfile(s) THEN "forget" ELSE "add", ssid |-> s, key |-> k] \in Attempted
    BY DEF Attempted, AttemptStages
  <2>2. QED
    BY <1>4, <2>1 DEF TypeOK, Selected
<1>5. CASE Connect(b)
  BY <1>4, <1>5 DEF Connect
<1>6. CASE ForgetProfile(b)
  BY <1>2, <1>6 DEF ForgetProfile, AttemptStages
<1>7. CASE AwaitForgotten(b)
  BY <1>2, <1>3, <1>7 DEF AwaitForgotten, ForgottenOrNot, AttemptStages
<1>8. CASE StoreProfile(b)
  BY <1>2, <1>8 DEF StoreProfile, AttemptStages
<1>9. CASE AwaitStored(b)
  BY <1>2, <1>3, <1>9 DEF AwaitStored, AttemptStages
<1>10. CASE Join(b)
  BY <1>3, <1>10 DEF Join
<1>11. QED
  BY <1>5, <1>6, <1>7, <1>8, <1>9, <1>10 DEF Handler

(* Types, when a phone tries to join a network. *)
LEMMA HandlerTypes ==
  ASSUME TypeOK, NEW b \in Phones, Connect(b) \/ Handler(b)
  PROVE  TypeOK'
<1>1. net' \in Networks
  <2>1. CASE ForgetProfile(b)
    BY <2>1, NetworksClosed, StoredNames DEF TypeOK, ForgetProfile, ForgetWorks
  <2>2. CASE StoreProfile(b)
    <3>1. attempt[b].ssid \in Ssids /\ attempt[b].key \in Keys
      BY <2>2 DEF StoreProfile, TypeOK, Attempted
    <3>2. QED
      BY <2>2, <3>1, NetworksClosed DEF TypeOK, StoreProfile
  <2>3. CASE Join(b)
    BY <2>3, NetworksClosed, StoredNames DEF TypeOK, Join, Joined, NotJoined
  <2>4. QED
    BY <2>1, <2>2, <2>3 DEF TypeOK, Connect, Handler, AwaitForgotten, AwaitStored
<1>2. attempt' \in [Phones -> Attempted]
  BY AttemptTypes
<1>3. page' \in [connected : Ssids \cup {None}, shutting : BOOLEAN]
  BY StoredNames
  DEF TypeOK, Connect, Handler, ForgetProfile, AwaitForgotten, StoreProfile, AwaitStored, Join,
      Joined, NotJoined
<1>4. kept' \in BOOLEAN
  BY DEF TypeOK, Connect, Handler, ForgetProfile, AwaitForgotten, StoreProfile, AwaitStored,
         Join, Joined, NotJoined
<1>5. upsets' \in 0 .. MaxUpsets
  BY UpsetsCounted
  DEF Connect, Handler, ForgetProfile, AwaitForgotten, StoreProfile, AwaitStored, Join,
      Joined, NotJoined
<1>6. connects' \in 0 .. MaxConnects
  BY WizardAssumption
  DEF TypeOK, Connect, Handler, ForgetProfile, AwaitForgotten, StoreProfile, AwaitStored, Join
<1>7. UNCHANGED <<hostVars, finish, finishes>>
  BY DEF Connect, Handler, ForgetProfile, AwaitForgotten, StoreProfile, AwaitStored, Join
<1>8. QED
  BY <1>1, <1>2, <1>3, <1>4, <1>5, <1>6, <1>7 DEF TypeOK, hostVars

(* Types, when a phone finishes. *)
LEMMA FinishTypes ==
  ASSUME TypeOK, NEW b \in Phones, ClickFinish(b) \/ StopPoint(b)
  PROVE  TypeOK'
<1>1. net' \in Networks
  BY NetworksClosed
  DEF TypeOK, ClickFinish, StopPoint, Look, TakeDown, Delete, Close, StopCall
<1>2. proc' \in Processes
  BY DEF TypeOK, ClickFinish, hostVars, StopPoint, Close, Go, Processes, Steps
<1>3. finish' \in [Phones -> FinishStages]
  BY DEF TypeOK, ClickFinish, StopPoint, Look, TakeDown, Delete, Close, StopCall, Advance,
         FinishStages
<1>4. page' \in [connected : Ssids \cup {None}, shutting : BOOLEAN]
  BY DEF TypeOK, ClickFinish, StopPoint
<1>5. upsets' \in 0 .. MaxUpsets
  BY UpsetsCounted
  DEF ClickFinish, StopPoint, Look, TakeDown, Delete, Close, StopCall
<1>6. finishes' \in 0 .. MaxFinishes
  BY WizardAssumption DEF TypeOK, ClickFinish, StopPoint
<1>7. UNCHANGED <<cut, attempt, connects, kept>>
  BY DEF ClickFinish, StopPoint, hostVars
<1>8. QED
  BY <1>1, <1>2, <1>3, <1>4, <1>5, <1>6, <1>7 DEF TypeOK

(* Whatever ends the process. *)
LEMMA EndTypes ==
  ASSUME TypeOK, Kill \/ PowerCut \/ (\E b \in Phones : Reboot(b))
  PROVE  TypeOK'
<1>1. net' \in Networks
  BY NetworksClosed DEF TypeOK, Kill, PowerCut, Reboot
<1>2. proc' \in Processes /\ cut' \in BOOLEAN
  <2>1. Running("failed") \in Processes /\ Running("gate") \in Processes
    BY WizardAssumption DEF Running, Processes, Steps, Creating
  <2>2. QED
    BY <2>1 DEF TypeOK, Kill, PowerCut, Reboot
<1>3. /\ page' \in [connected : Ssids \cup {None}, shutting : BOOLEAN]
      /\ attempt' \in [Phones -> Attempted] /\ kept' \in BOOLEAN
  <2>1. Forget => page' = Blank /\ attempt' = [b \in Phones |-> Idle] /\ kept' = FALSE
    BY DEF Forget
  <2>2. Blank \in [connected : Ssids \cup {None}, shutting : BOOLEAN]
    BY DEF Blank
  <2>3. Idle \in Attempted
    BY DEF Idle, Attempted, AttemptStages, Keys
  <2>4. Forget \/ UNCHANGED <<page, attempt, kept>>
    BY DEF Kill, PowerCut, Reboot
  <2>5. CASE Forget
    BY <2>1, <2>2, <2>3, <2>5
  <2>6. CASE UNCHANGED <<page, attempt, kept>>
    BY <2>6 DEF TypeOK
  <2>7. QED
    BY <2>4, <2>5, <2>6
<1>4. finish' \in [Phones -> FinishStages]
  BY DEF TypeOK, Kill, PowerCut, Reboot, Forget, Advance, FinishStages
<1>5. upsets' \in 0 .. MaxUpsets
  BY UpsetsCounted DEF Kill, PowerCut, Reboot
<1>6. UNCHANGED <<connects, finishes>>
  BY DEF Kill, PowerCut, Reboot
<1>7. QED
  BY <1>1, <1>2, <1>3, <1>4, <1>5, <1>6 DEF TypeOK

(* Types, in every step. *)
LEMMA TypesPreserved ==
  ASSUME TypeOK, [Next]_vars
  PROVE  TypeOK'
<1>1. CASE Main
  BY <1>1, MainTypes
<1>2. CASE Manager
  <2>1. net' \in Networks
    BY <1>2, NetworksClosed DEF TypeOK, Manager, AutoConnect
  <2>2. QED
    BY <1>2, <2>1 DEF TypeOK, Manager, phoneVars
<1>3. CASE Kill \/ PowerCut
  BY <1>3, EndTypes
<1>4. ASSUME NEW b \in Phones, Connect(b) \/ Handler(b)
      PROVE  TypeOK'
  BY <1>4, HandlerTypes
<1>5. ASSUME NEW b \in Phones, ClickFinish(b) \/ Finisher(b)
      PROVE  TypeOK'
  BY <1>5, FinishTypes, EndTypes DEF Finisher
<1>6. CASE UNCHANGED vars
  BY <1>6 DEF TypeOK, vars
<1>7. QED
  BY <1>1, <1>2, <1>3, <1>4, <1>5, <1>6 DEF Next

(* Every variable keeps its shape, and an attempt under way is at a network *)
(* that a scan can show.                                                    *)
THEOREM TypeCorrect == Spec => []TypeOK
<1>1. Init => TypeOK
  <2>1. Running("gate") \in Processes
    BY WizardAssumption DEF Running, Processes, Steps, Creating
  <2>2. Idle \in Attempted /\ Blank \in [connected : Ssids \cup {None}, shutting : BOOLEAN]
    BY DEF Idle, Blank, Attempted, AttemptStages, Keys
  <2>3. ASSUME Init
        PROVE  net \in Networks
    <3>1. PICK p \in {{}} \cup {{<<s, "right">>} : s \in Ssids} :
            net = [manager |-> TRUE, supplicant |-> TRUE, ap0 |-> FALSE, apProfile |-> FALSE,
                   apUp |-> FALSE, profiles |-> p, wifi |-> None]
      BY <2>3 DEF Init
    <3>2. p \in SUBSET (Ssids \X Keys)
      BY DEF Keys
    <3>3. QED
      BY <3>1, <3>2 DEF Networks
  <2>4. 0 \in 0 .. MaxConnects /\ 0 \in 0 .. MaxFinishes /\ 0 \in 0 .. MaxUpsets
    BY WizardAssumption
  <2>5. QED
    BY <2>1, <2>2, <2>3, <2>4 DEF Init, TypeOK, FinishStages
<1>2. TypeOK /\ [Next]_vars => TypeOK'
  BY TypesPreserved
<1>3. QED
  BY <1>1, <1>2, PTL DEF Spec

-----------------------------------------------------------------------------
(* The access point and NetworkManager.                                    *)

(* Only create() stops NetworkManager, and only inside its try. *)
LEMMA ManagerRestoredPreserved ==
  ASSUME TypeOK, ManagerRestored, [Next]_vars
  PROVE  ManagerRestored'
<1>1. CASE Main
  <2>1. CASE RestartManager
    BY <2>1, CallsOnFields DEF TypeOK, ManagerRestored, RestartManager, Running
  <2>2. CASE StopUnits \/ ResetInterface
    BY <2>2, CallsOnFields
    DEF TypeOK, ManagerRestored, StopUnits, ResetInterface, Go, Processes, Creating
  <2>3. CASE AddInterface \/ LinkUp \/ WriteCaptive
    BY <2>3, CallsOnFields
    DEF TypeOK, ManagerRestored, AddInterface, LinkUp, WriteCaptive, Call, Raise, Go,
        Processes, Creating
  <2>4. CASE AddProfile \/ AwaitProfile \/ Up
    BY <2>4, CallsOnFields
    DEF TypeOK, ManagerRestored, AddProfile, AwaitProfile, Up, Call, Raise, Creating
  <2>5. CASE Online \/ Miss \/ Return \/ Respawn
    BY <2>5 DEF ManagerRestored, Online, Miss, Return, Respawn, Creating
  <2>6. QED
    BY <1>1, <2>1, <2>2, <2>3, <2>4, <2>5 DEF Main
<1>2. CASE Manager
  BY <1>2, JoiningOnFields DEF TypeOK, ManagerRestored, Manager, AutoConnect, Keys
<1>3. CASE Kill \/ PowerCut
  BY <1>3, CallsOnFields DEF TypeOK, ManagerRestored, Kill, PowerCut
<1>4. ASSUME NEW b \in Phones, Connect(b) \/ Handler(b)
      PROVE  ManagerRestored'
  <2>1. net'.manager = net.manager
    BY <1>4, HandlersKeepThePoint
  <2>2. UNCHANGED hostVars
    BY <1>4
    DEF Connect, Handler, ForgetProfile, AwaitForgotten, StoreProfile, AwaitStored, Join
  <2>3. QED
    BY <2>1, <2>2 DEF ManagerRestored, hostVars
<1>5. ASSUME NEW b \in Phones, ClickFinish(b) \/ Finisher(b)
      PROVE  ManagerRestored'
  BY <1>5, CallsOnFields
  DEF TypeOK, ManagerRestored, ClickFinish, Finisher, StopPoint, Look, TakeDown, Delete, Close,
      StopCall, Reboot, hostVars, Alive, Creating
<1>6. CASE UNCHANGED vars
  BY <1>6 DEF ManagerRestored, vars
<1>7. QED
  BY <1>1, <1>2, <1>3, <1>4, <1>5, <1>6 DEF Next

(* create() leaves NetworkManager running on every path, unless it was     *)
(* killed or the restart itself failed, whatever any number of phones do.  *)
THEOREM ManagerIsRestored == Spec => []ManagerRestored
<1>1. Init => ManagerRestored
  BY DEF Init, ManagerRestored
<1>2. TypeOK /\ ManagerRestored /\ [Next]_vars => ManagerRestored'
  BY ManagerRestoredPreserved
<1>3. QED
  BY <1>1, <1>2, TypeCorrect, PTL DEF Spec

(* Only Up enters "serving", and only Finish, a kill or a power cut end the point. *)
LEMMA ServedPreserved ==
  ASSUME TypeOK, ServedOverAccessPoint, [Next]_vars
  PROVE  ServedOverAccessPoint'
<1>1. CASE Main
  <2>1. CASE Up
    BY <2>1, CallsOnFields
    DEF TypeOK, ServedOverAccessPoint, Up, Call, Go, Raise, Running, Creating, Processes
  <2>2. CASE ~Up
    <3>1. proc'.step # "serving"
      <4>1. CASE Online \/ Miss \/ Return \/ Respawn \/ RestartManager
        BY <4>1 DEF TypeOK, Online, Miss, Missed, Return, Respawn, RestartManager, Running, Processes
      <4>2. CASE StopUnits \/ ResetInterface
        BY <4>2, NextStep DEF StopUnits, ResetInterface
      <4>3. CASE AddInterface \/ LinkUp \/ WriteCaptive
        BY <4>3, NextStep DEF AddInterface, LinkUp, WriteCaptive, Call
      <4>4. CASE AddProfile \/ AwaitProfile
        BY <4>4, NextStep DEF AddProfile, AwaitProfile, Call
      <4>5. QED
        BY <1>1, <2>2, <4>1, <4>2, <4>3, <4>4 DEF Main
    <3>2. QED
      BY <3>1 DEF ServedOverAccessPoint
  <2>3. QED
    BY <2>1, <2>2
<1>2. CASE Manager
  BY <1>2, JoiningOnFields
  DEF TypeOK, ServedOverAccessPoint, Manager, AutoConnect, phoneVars, Keys
<1>3. CASE Kill \/ PowerCut
  BY <1>3 DEF ServedOverAccessPoint, Kill, PowerCut, Running
<1>4. ASSUME NEW b \in Phones, Connect(b) \/ Handler(b)
      PROVE  ServedOverAccessPoint'
  <2>1. net'.apUp = net.apUp
    BY <1>4, HandlersKeepThePoint
  <2>2. UNCHANGED <<hostVars, finish>>
    BY <1>4
    DEF Connect, Handler, ForgetProfile, AwaitForgotten, StoreProfile, AwaitStored, Join
  <2>3. QED
    BY <2>1, <2>2 DEF ServedOverAccessPoint, hostVars
<1>5. ASSUME NEW b \in Phones, ClickFinish(b)
      PROVE  ServedOverAccessPoint'
  BY <1>5 DEF TypeOK, ServedOverAccessPoint, ClickFinish, hostVars
<1>6. ASSUME NEW b \in Phones, StopPoint(b)
      PROVE  ServedOverAccessPoint'
  <2>1. finish'[b] \notin {"none", "sleep"}
    BY <1>6 DEF TypeOK, StopPoint, Look, TakeDown, Delete, Close, StopCall, Advance
  <2>2. QED
    BY <2>1 DEF ServedOverAccessPoint
<1>7. ASSUME NEW b \in Phones, Reboot(b)
      PROVE  ServedOverAccessPoint'
  BY <1>7 DEF TypeOK, ServedOverAccessPoint, Reboot, Running, Advance
<1>8. CASE UNCHANGED vars
  BY <1>8 DEF ServedOverAccessPoint, vars
<1>9. QED
  BY <1>1, <1>2, <1>3, <1>4, <1>5, <1>6, <1>7, <1>8 DEF Next, Finisher

(* While the pages are served and nobody finishes, the access point is up, *)
(* whatever was left over from earlier runs and whatever phones join.      *)
THEOREM WizardIsReachable == Spec => []ServedOverAccessPoint
<1>1. Init => ServedOverAccessPoint
  BY DEF Init, ServedOverAccessPoint, Running
<1>2. TypeOK /\ ServedOverAccessPoint /\ [Next]_vars => ServedOverAccessPoint'
  BY ServedPreserved
<1>3. QED
  BY <1>1, <1>2, TypeCorrect, PTL DEF Spec

-----------------------------------------------------------------------------
(* Finish.                                                                 *)

(* Handing over, when the main thread steps: nothing is being finished. *)
LEMMA MainHandsOver ==
  ASSUME TypeOK, HandoverInv, Main
  PROVE  HandoverInv'
<1>1. CASE Return
  BY <1>1 DEF HandoverInv, CleanHandover, Return, Running, Forget
<1>2. CASE ~Return
  <2>1. ~Alive /\ UNCHANGED finish
    BY <1>2
    DEF Main, Alive, phoneVars, Online, Miss, StopUnits, ResetInterface, AddInterface, LinkUp,
        WriteCaptive, RestartManager, AddProfile, AwaitProfile, Up, Respawn
  <2>2. \A b \in Phones : finish'[b] = "none"
    BY <2>1 DEF HandoverInv
  <2>3. proc'.step # "closing"
    <3>1. CASE Online \/ Miss \/ Respawn \/ RestartManager
      BY <3>1 DEF TypeOK, Online, Miss, Missed, Respawn, RestartManager, Running, Processes
    <3>2. CASE StopUnits \/ ResetInterface
      BY <3>2, NextStep DEF StopUnits, ResetInterface
    <3>3. CASE AddInterface \/ LinkUp \/ WriteCaptive
      BY <3>3, NextStep DEF AddInterface, LinkUp, WriteCaptive, Call
    <3>4. CASE AddProfile \/ AwaitProfile \/ Up
      BY <3>4, NextStep DEF AddProfile, AwaitProfile, Up, Call
    <3>5. QED
      BY <1>2, <3>1, <3>2, <3>3, <3>4 DEF Main
  <2>4. net'.apUp => net'.apProfile
    <3>1. CASE Online \/ Miss \/ Respawn \/ RestartManager \/ StopUnits \/ ResetInterface
      BY <3>1, CallsOnFields
      DEF TypeOK, HandoverInv, Online, Miss, Respawn, RestartManager, StopUnits, ResetInterface
    <3>2. CASE AddInterface \/ LinkUp \/ WriteCaptive
      BY <3>2, CallsOnFields
      DEF TypeOK, HandoverInv, AddInterface, LinkUp, WriteCaptive, Call
    <3>3. CASE AddProfile \/ AwaitProfile \/ Up
      BY <3>3, CallsOnFields
      DEF TypeOK, HandoverInv, AddProfile, AwaitProfile, Up, UpWorks, Call
    <3>4. QED
      BY <1>2, <3>1, <3>2, <3>3 DEF Main
  <2>5. QED
    BY <2>2, <2>3, <2>4 DEF HandoverInv, CleanHandover
<1>3. QED
  BY <1>1, <1>2

(* Handing over, when one of several phones that finish takes its next step. *)
LEMMA StopHandsOver ==
  ASSUME TypeOK, HandoverInv, NEW b \in Phones, StopPoint(b)
  PROVE  HandoverInv'
<1>1. Alive /\ Alive' /\ (proc'.step = "closing" => proc.step = "closing" \/ Close(b))
  BY DEF StopPoint, Alive, Go, TypeOK, Processes
<1>2. \A c \in Phones : c # b => finish'[c] = finish[c]
  BY DEF TypeOK, StopPoint, Look, TakeDown, Delete, Close, StopCall, Advance
<1>3. /\ net'.apUp => net.apUp
      /\ net'.apProfile => net.apProfile
      /\ net'.apUp => net'.apProfile
  BY CallsOnFields
  DEF TypeOK, HandoverInv, StopPoint, Look, TakeDown, Delete, Close, StopCall
<1>4. Close(b) => ~net'.apUp /\ ~net'.apProfile
  BY <1>3 DEF HandoverInv, Close
<1>5. finish'[b] \in {"interface", "reboot"} => ~net'.apUp /\ ~net'.apProfile
  BY <1>3, <1>4, CallsOnFields
  DEF TypeOK, HandoverInv, StopPoint, Look, TakeDown, Delete, StopCall, Advance
<1>6. QED
  BY <1>1, <1>2, <1>3, <1>4, <1>5 DEF HandoverInv, CleanHandover

(* Handing over, in every step. *)
LEMMA HandoverPreserved ==
  ASSUME TypeOK, HandoverInv, [Next]_vars
  PROVE  HandoverInv'
<1>1. CASE Main
  BY <1>1, MainHandsOver
<1>2. CASE Manager
  BY <1>2, JoiningOnFields
  DEF TypeOK, HandoverInv, CleanHandover, Alive, Manager, AutoConnect, phoneVars, Keys
<1>3. CASE Kill \/ PowerCut
  BY <1>3, CallsOnFields
  DEF TypeOK, HandoverInv, CleanHandover, Kill, PowerCut, Forget, Running
<1>4. ASSUME NEW b \in Phones, Connect(b) \/ Handler(b)
      PROVE  HandoverInv'
  <2>1. net'.apUp = net.apUp /\ net'.apProfile = net.apProfile
    BY <1>4, HandlersKeepThePoint
  <2>2. UNCHANGED <<hostVars, finish>>
    BY <1>4
    DEF Connect, Handler, ForgetProfile, AwaitForgotten, StoreProfile, AwaitStored, Join
  <2>3. QED
    BY <2>1, <2>2 DEF HandoverInv, CleanHandover, Alive, hostVars
<1>5. ASSUME NEW b \in Phones, ClickFinish(b)
      PROVE  HandoverInv'
  BY <1>5 DEF TypeOK, HandoverInv, CleanHandover, Alive, ClickFinish, hostVars
<1>6. ASSUME NEW b \in Phones, StopPoint(b)
      PROVE  HandoverInv'
  BY <1>6, StopHandsOver
<1>7. ASSUME NEW b \in Phones, Reboot(b)
      PROVE  HandoverInv'
  BY <1>7, CallsOnFields
  DEF TypeOK, HandoverInv, CleanHandover, Alive, Reboot, Forget, Running, Advance
<1>8. CASE UNCHANGED vars
  BY <1>8 DEF HandoverInv, CleanHandover, Alive, vars
<1>9. QED
  BY <1>1, <1>2, <1>3, <1>4, <1>5, <1>6, <1>7, <1>8 DEF Next, Finisher

(* Once Finish has come to stopping the web app, the access point and its  *)
(* connection are gone, however many phones clicked Finish.                *)
THEOREM FinishLeavesNoPoint == Spec => []CleanHandover
<1>1. Init => HandoverInv
  BY DEF Init, HandoverInv, CleanHandover, Running
<1>2. TypeOK /\ HandoverInv /\ [Next]_vars => HandoverInv'
  BY HandoverPreserved
<1>3. HandoverInv => CleanHandover
  BY DEF HandoverInv
<1>4. QED
  BY <1>1, <1>2, <1>3, TypeCorrect, PTL DEF Spec

-----------------------------------------------------------------------------
(* The network that phones are told they joined.                           *)

(* The main thread stores and deletes no network. *)
LEMMA MainKeeps ==
  ASSUME TypeOK, Main
  PROVE  net'.profiles = net.profiles /\ (UNCHANGED phoneVars \/ ~kept')
<1>1. CASE Online \/ Miss \/ Respawn \/ RestartManager \/ StopUnits \/ ResetInterface \/ Return
  BY <1>1, CallsOnFields
  DEF TypeOK, Online, Miss, Respawn, RestartManager, StopUnits, ResetInterface, Return, Forget
<1>2. CASE AddInterface \/ LinkUp \/ WriteCaptive
  BY <1>2, CallsOnFields DEF TypeOK, AddInterface, LinkUp, WriteCaptive, Call
<1>3. CASE AddProfile \/ AwaitProfile \/ Up
  BY <1>3, CallsOnFields DEF TypeOK, AddProfile, AwaitProfile, Up, Call
<1>4. QED
  BY <1>1, <1>2, <1>3 DEF Main

(* While connected_profile is kept, an attempt deletes only other names. *)
LEMMA HandlersKeep ==
  ASSUME TypeOK, KeptInv, NEW b \in Phones, Connect(b) \/ Handler(b)
  PROVE  KeptInv'
<1> USE DEF KeptInv, ConnectedIsStored
<1>1. CASE Connect(b)
  <2>1. PICK s \in Ssids, k \in Keys : Selected(b, s, k) /\ kept' = (kept /\ s # page.connected)
    BY <1>1 DEF Connect
  <2>2. attempt'[b].ssid = s /\ \A c \in Phones : c # b => attempt'[c] = attempt[c]
    BY <2>1 DEF TypeOK, Selected
  <2>3. UNCHANGED <<net, page>>
    BY <1>1 DEF Connect
  <2>4. QED
    BY <2>1, <2>2, <2>3 DEF TypeOK
<1>2. CASE ForgetProfile(b)
  <2>1. ASSUME kept'
        PROVE  /\ kept /\ page' = page /\ attempt[b].ssid # page.connected
               /\ <<page.connected, "right">> \in net'.profiles
    BY <1>2, <2>1, JoiningOnFields, StoredNames
    DEF TypeOK, ForgetProfile, ForgetWorks, Keys
  <2>2. \A c \in Phones : attempt'[c].ssid = attempt[c].ssid
                          /\ (attempt'[c].stage # "idle" => attempt[c].stage # "idle")
    BY <1>2 DEF TypeOK, Attempted, ForgetProfile, Set
  <2>3. QED
    BY <2>1, <2>2
<1>3. CASE AwaitForgotten(b) \/ AwaitStored(b)
  BY <1>3
  DEF TypeOK, Attempted, AwaitForgotten, ForgottenOrNot, AwaitStored, Set, Resolve, Idle
<1>4. CASE StoreProfile(b)
  <2>1. attempt[b].ssid \in Ssids /\ attempt[b].key \in Keys
    BY <1>4 DEF StoreProfile, TypeOK, Attempted
  <2>2. net.profiles \subseteq net'.profiles
    BY <1>4, <2>1, JoiningOnFields DEF TypeOK, StoreProfile
  <2>3. \A c \in Phones : attempt'[c].ssid = attempt[c].ssid
                          /\ (attempt'[c].stage # "idle" => attempt[c].stage # "idle")
    BY <1>4 DEF TypeOK, Attempted, StoreProfile, Set
  <2>4. QED
    BY <1>4, <2>2, <2>3 DEF StoreProfile
<1>5. CASE Join(b)
  <2>1. net'.profiles = net.profiles
    BY <1>5, JoiningOnFields, CallsOnFields, StoredNames
    DEF TypeOK, Join, Joined, NotJoined, Keys
  <2>2. attempt'[b].stage = "idle" /\ \A c \in Phones : c # b => attempt'[c] = attempt[c]
    BY <1>5 DEF TypeOK, Join, Resolve, Idle
  <2>3. CASE Joined(b)
    BY <1>5, <2>1, <2>2, <2>3, StoredNames, WizardAssumption DEF TypeOK, Joined, Others
  <2>4. CASE NotJoined(b)
    BY <2>1, <2>2, <2>4 DEF NotJoined
  <2>5. QED
    BY <1>5, <2>3, <2>4 DEF Join
<1>6. QED
  BY <1>1, <1>2, <1>3, <1>4, <1>5 DEF Handler

(* The kept network stays stored, in every step. *)
LEMMA KeptPreserved ==
  ASSUME TypeOK, KeptInv, [Next]_vars
  PROVE  KeptInv'
<1>1. CASE Main
  BY <1>1, MainKeeps DEF KeptInv, ConnectedIsStored, phoneVars
<1>2. CASE Manager
  BY <1>2, JoiningOnFields
  DEF TypeOK, KeptInv, ConnectedIsStored, Manager, AutoConnect, phoneVars, Keys
<1>3. CASE Kill \/ PowerCut
  BY <1>3 DEF KeptInv, ConnectedIsStored, Kill, PowerCut, Forget
<1>4. ASSUME NEW b \in Phones, Connect(b) \/ Handler(b)
      PROVE  KeptInv'
  BY <1>4, HandlersKeep
<1>5. ASSUME NEW b \in Phones, ClickFinish(b)
      PROVE  KeptInv'
  BY <1>5 DEF TypeOK, KeptInv, ConnectedIsStored, ClickFinish
<1>6. ASSUME NEW b \in Phones, StopPoint(b)
      PROVE  KeptInv'
  <2>1. net'.profiles = net.profiles
    BY <1>6, CallsOnFields DEF TypeOK, StopPoint, Look, TakeDown, Delete, Close, StopCall
  <2>2. QED
    BY <1>6, <2>1 DEF KeptInv, ConnectedIsStored, StopPoint
<1>7. ASSUME NEW b \in Phones, Reboot(b)
      PROVE  KeptInv'
  BY <1>7 DEF KeptInv, ConnectedIsStored, Reboot, Forget
<1>8. CASE UNCHANGED vars
  BY <1>8 DEF KeptInv, ConnectedIsStored, vars
<1>9. QED
  BY <1>1, <1>2, <1>3, <1>4, <1>5, <1>6, <1>7, <1>8 DEF Next, Finisher

(* connected_profile names a profile that joined and is still stored, until *)
(* somebody tries that network again, whatever other networks phones try.  *)
THEOREM ConnectedStaysStored == Spec => []ConnectedIsStored
<1>1. Init => KeptInv
  BY DEF Init, KeptInv, ConnectedIsStored
<1>2. TypeOK /\ KeptInv /\ [Next]_vars => KeptInv'
  BY KeptPreserved
<1>3. KeptInv => ConnectedIsStored
  BY DEF KeptInv
<1>4. QED
  BY <1>1, <1>2, <1>3, TypeCorrect, PTL DEF Spec
=============================================================================
