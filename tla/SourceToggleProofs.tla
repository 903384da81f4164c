------------------------- MODULE SourceToggleProofs -------------------------
(***************************************************************************)
(* Theorems about SourceToggle: for any catalog, any units, any groups,    *)
(* any number of clicks, and any failures, kills and reprovisions.         *)
(***************************************************************************)
EXTENDS SourceToggle, FiniteSetTheorems, SequenceTheorems, WellFoundedInduction, TLAPS

Ids == Sources \cup Retired
Stages == {"new", "ask", "dialog", "queued", "await", "end", "raised"}
Chosen == Sources \cup {None}
Handling == [at : Stages, source : Chosen, enable : BOOLEAN, dest : Chosen, live : SUBSET Sources]
Jobs == [step : Steps, by : Handlers \cup {None}, ids : SUBSET Ids, moved : Nat]

(* A step the write that is under way has recorded its intent for. *)
Applying == {"clear", "write", "units", "restart"}

(* The write that is under way and the two fields of its handler. *)
Busy == job.step # "none"
Source == By.source
Enable == By.enable

(* The shape of the state of the device ... *)
HostShape ==
  /\ recorded = None \/ recorded \subseteq Ids
  /\ claiming \subseteq SetupSources /\ overtaken \subseteq setup /\ setup \subseteq Sources
  /\ conf \subseteq Sources /\ served \subseteq Sources /\ known \subseteq Sources
  /\ unit \in [Units -> BOOLEAN]
  /\ group \in [Groups -> Sources]
  /\ up \in BOOLEAN /\ loaded \in BOOLEAN /\ lastFailed \in BOOLEAN
  /\ unfinished \subseteq Sources

(* ... and of the process: one write for each handler that waits for one.   *)
ProcessShape ==
  /\ handler \in [Handlers -> Handling]
  /\ \A h \in Handlers : handler[h].at \in {"ask", "dialog", "queued"} => handler[h].source \in Sources
  /\ \A h \in Handlers : handler[h].at \in {"ask", "dialog"} => ~ handler[h].enable
  /\ \A h \in Handlers : handler[h].at = "new" \/ handler[h].enable => handler[h].dest = None
  /\ queue \in Seq(Handlers)
  /\ \A i, j \in 1..Len(queue) : queue[i] = queue[j] => i = j
  /\ job \in Jobs
  /\ job.step = "none" => job = NoJob
  /\ Busy => job.by \in Handlers /\ \A i \in 1..Len(queue) : queue[i] # job.by
  /\ \A h \in Handlers : handler[h].at = "queued" <=>
       (\E i \in 1..Len(queue) : queue[i] = h) \/ (Busy /\ job.by = h)
  /\ ~ loaded => \A h \in Handlers : handler[h].at \in {"new", "end"}

(* While nothing is recorded, the device is as it was flashed, upgraded or  *)
(* provisioned: so that what is adopted is what the units and the conf say. *)
Unrecorded ==
  recorded = None =>
    /\ job.step \in {"none", "record"}
    /\ \A h \in Handlers :
         /\ handler[h].at \notin {"ask", "dialog"}
         /\ handler[h].at = "queued" => handler[h].enable /\ handler[h].source # Default
    /\ served = conf /\ setup \subseteq conf \cap {Default} /\ claiming = {}
    /\ \A s \in Sources : \A u \in ToSet(UnitsOf[s]) : unit[u] = (s \in conf)

(* A disable that passed the check inside the queue leaves another source,  *)
(* and nobody else writes the record before it has.                         *)
AnotherStays ==
  /\ EnabledIds # {} /\ conf # {} /\ served # {}
  /\ job.step \in {"check", "move"} => ~ Enable
  /\ job.step = "move" => By.dest # None
  /\ job.step \in {"move", "record"} /\ ~ Enable =>
       Source \in EnabledIds /\ EnabledIds \ {Source} # {}
  /\ job.step \in Applying => job.ids = Enabled /\ (Source \in Enabled <=> Enable)
  /\ job.step = "clear" => ~ Enable

(* ServedMatchesRecord, with how far the write under way has come. *)
ConfInv ==
  /\ job.step \notin Applying /\ ~ lastFailed => conf = EnabledIds /\ served = conf
  /\ job.step \in {"units", "restart"} => conf = EnabledIds

(* UnitsMatchRecord, with the units the write under way has moved. *)
UnitsInv ==
  /\ \A s \in Sources \ unfinished :
       UnitsMatch(s) \/ (job.step \in Applying /\ s = Source)
  /\ job.step \in {"units", "restart"} =>
       \A i \in 1..Len(UnitsOf[Source]) :
         i <= job.moved \/ job.step = "restart" => unit[UnitsOf[Source][i]] = Enable
  /\ job.step \notin {"units", "restart"} => job.moved = 0

(* SetupDiscarded, with the disable that is about to discard a record. *)
SetupInv ==
  /\ \A s \in setup : s \in EnabledIds \cup unfinished \cup overtaken \/ (job.step = "clear" /\ s = Source)
  /\ job.step \in {"write", "units", "restart"} /\ Source \in setup => Enable \/ Source \in overtaken

(* ListenersMovedFirst, with why nobody is put back: Snapserver stays up.   *)
ListenersInv ==
  job.step \in {"record"} \cup Applying /\ By.dest # None
    => up /\ \A g \in Groups : group[g] # Source

IInv ==
  /\ HostShape /\ ProcessShape
  /\ Unrecorded /\ AnotherStays /\ ConfInv /\ UnitsInv /\ SetupInv /\ ListenersInv

-----------------------------------------------------------------------------
(* The catalog and its units. *)

LEMMA Catalogued ==
  /\ Sources = {Catalog[i] : i \in DOMAIN Catalog}
  /\ DOMAIN Catalog \subseteq Nat
  /\ \A s \in Sources : UnitsOf[s] \in Seq(Units)
  /\ None \notin Sources /\ None \notin Retired /\ None \notin SUBSET Ids /\ Retired \cap Sources = {}
  /\ Default \in Sources /\ SetupSources \subseteq Sources \ {Default}
  /\ \A s, t \in Sources : \A u \in ToSet(UnitsOf[s]) : u \in ToSet(UnitsOf[t]) => s = t
<1>1. Catalog \in Seq(Sources)
  BY ToggleAssumption
<1>2. DOMAIN Catalog = 1..Len(Catalog)
  BY <1>1
<1>3. DOMAIN Catalog \subseteq Nat
  BY <1>1, <1>2
<1>4. \A s \in Sources : UnitsOf[s] \in Seq(Units)
  BY ToggleAssumption
<1>5. Sources = {Catalog[i] : i \in DOMAIN Catalog}
  BY DEF Sources, ToSet
<1>6. \A s, t \in Sources : \A u \in ToSet(UnitsOf[s]) : u \in ToSet(UnitsOf[t]) => s = t
  BY ToggleAssumption
<1>7. /\ None \notin Sources /\ None \notin Retired /\ None \notin SUBSET Ids
      /\ Retired \cap Sources = {} /\ Default \in Sources /\ SetupSources \subseteq Sources \ {Default}
  BY ToggleAssumption DEF Ids
<1>8. QED
  BY <1>3, <1>4, <1>5, <1>6, <1>7

LEMMA UnitsInSequence ==
  ASSUME NEW s \in Sources
  PROVE  /\ \A i \in 1..Len(UnitsOf[s]) : UnitsOf[s][i] \in ToSet(UnitsOf[s])
         /\ \A u \in ToSet(UnitsOf[s]) : \E i \in 1..Len(UnitsOf[s]) : u = UnitsOf[s][i]
<1> DEFINE us == UnitsOf[s]
<1>1. us \in Seq(Units)
  BY Catalogued
<1> HIDE DEF us
<1>2. /\ \A i \in 1..Len(us) : us[i] \in ToSet(us)
      /\ \A u \in ToSet(us) : \E i \in 1..Len(us) : u = us[i]
  BY <1>1 DEF ToSet
<1>3. QED
  BY <1>2 DEF us

(* The first catalogued source of a set is one of the set. *)
LEMMA DefaultSourceIn ==
  ASSUME NEW ids, ids \subseteq Sources, ids # {}
  PROVE  DefaultSource(ids) \in ids
<1> DEFINE at == {i \in DOMAIN Catalog : Catalog[i] \in ids}
<1>1. at \subseteq Nat /\ at # {}
  BY Catalogued
<1>2. PICK i \in at : \A j \in at : ~ (<<j, i>> \in OpToRel(<, Nat))
  BY <1>1, WFMin, NatLessThanWellFounded
<1>3. ASSUME NEW j \in at PROVE i <= j
  <2>1. i \in Nat /\ j \in Nat
    BY <1>1
  <2>2. <<j, i>> \notin {ss \in Nat \X Nat : ss[1] < ss[2]}
    BY <1>2 DEF OpToRel
  <2>3. ~ (j < i)
    BY <2>1, <2>2
  <2>4. QED
    BY <2>1, <2>3
<1>4. QED
  BY <1>3 DEF DefaultSource

(* A set that is not a singleton has another member. *)
LEMMA NotAlone ==
  ASSUME NEW S, NEW s \in S, Cardinality(S) # 1
  PROVE  S \ {s} # {}
<1>1. SUFFICES ASSUME S \ {s} = {} PROVE FALSE
  OBVIOUS
<1>2. S = {s}
  BY <1>1
<1>3. QED
  BY <1>2, FS_Singleton

(* The unit that is moved next. *)
LEMMA NextUnit ==
  ASSUME NEW us \in Seq(Units), NEW m \in Nat
  PROVE  /\ SubSeq(us, m + 1, Len(us)) = <<>> <=> Len(us) <= m
         /\ m < Len(us) => /\ Head(SubSeq(us, m + 1, Len(us))) = us[m + 1]
                           /\ m + 1 \in 1..Len(us) /\ us[m + 1] \in Units
<1> DEFINE rest == SubSeq(us, m + 1, Len(us))
<1>0. Len(us) \in Nat
  OBVIOUS
<1>1. CASE Len(us) <= m
  <2>1. rest = <<>>
    BY <1>0, <1>1, SubSeqEmpty
  <2>2. QED
    BY <1>0, <1>1, <2>1
<1>2. CASE m < Len(us)
  <2>1. /\ rest \in Seq(Units) /\ Len(rest) = Len(us) - m
        /\ \A i \in 1..Len(us) - m : rest[i] = us[m + i]
    <3>1. \A i \in (m + 1)..Len(us) : us[i] \in Units
      BY <1>0
    <3>2. m + 1 \in Int /\ Len(us) \in Int /\ m + 1 <= Len(us)
      BY <1>0, <1>2
    <3>3. /\ rest \in Seq(Units) /\ Len(rest) = Len(us) - (m + 1) + 1
          /\ \A i \in 1..Len(us) - (m + 1) + 1 : rest[i] = us[m + 1 + i - 1]
      BY <3>1, <3>2, SubSeqProperties
    <3> HIDE DEF rest
    <3>4. QED
      BY <1>0, <3>3
  <2> HIDE DEF rest
  <2>2. rest # <<>> /\ Head(rest) = us[m + 1]
    BY <1>0, <1>2, <2>1
  <2>3. m + 1 \in 1..Len(us) /\ us[m + 1] \in Units
    BY <1>0, <1>2
  <2>4. QED
    BY <1>0, <1>2, <2>2, <2>3 DEF rest
<1>3. QED
  BY <1>0, <1>1, <1>2

(* What is enabled is among the ids that were ever catalogued. *)
LEMMA EnabledType == ASSUME HostShape PROVE Enabled \subseteq Ids /\ EnabledIds \subseteq Sources
BY Catalogued DEF HostShape, Enabled, EnabledIds, Ids

(* The handler whose write is under way waits for it. *)
LEMMA Served ==
  ASSUME ProcessShape, Busy
  PROVE  /\ job.by \in Handlers /\ By \in Handling
         /\ By.at = "queued" /\ Source \in Sources /\ Enable \in BOOLEAN
BY DEF ProcessShape, By, Source, Enable, Handling

-----------------------------------------------------------------------------
(* The shape of the state. *)

LEMMA InitShape == ASSUME Init PROVE HostShape /\ ProcessShape
<1>1. PICK ids \in Configured :
        /\ conf = ids /\ served = ids
        /\ unit = [u \in Units |-> \E s \in ids : u \in ToSet(UnitsOf[s])]
        /\ recorded \in {None, ids \cup Retired}
        /\ setup \in SUBSET (ids \cap Enabled \cap SetupSources)
        /\ group \in [Groups -> ids]
  BY DEF Init
<1>2. ids \subseteq Sources
  BY ToggleAssumption
<1>3. HostShape
  BY <1>1, <1>2 DEF Init, HostShape, Ids
<1>4. ProcessShape
  BY DEF Init, ProcessShape, Handling, Stages, Chosen, Blank, Jobs, NoJob, Steps, Busy
<1>5. QED
  BY <1>3, <1>4

LEMMA HostShapeKept ==
  ASSUME HostShape, ProcessShape, AnotherStays, [Next]_vars
  PROVE  HostShape'
<1> USE DEF HostShape
<1>1. CASE Load
  BY <1>1 DEF Load, setups, host, history, Ids
<1>2. CASE BrokerRefresh
  BY <1>2 DEF BrokerRefresh, record, host, history
<1>3. ASSUME NEW h \in Handlers,
             \/ \E s \in Sources, enable \in BOOLEAN : Click(h, s, enable)
             \/ HandlerStep(h) \/ Confirm(h) \/ Dismiss(h)
      PROVE  HostShape'
  <2>1. UNCHANGED <<record, host, loaded, history>> /\ known' \in {known, served}
    BY <1>3 DEF Click, HandlerStep, NobodyListens, OpenDialog, Settle, SettleRaises, Reseeded, Confirm,
                Dismiss
  <2>2. QED
    BY <2>1 DEF record, host, history
<1>4. ASSUME NEW g \in Groups, NEW s \in Sources, MoveGroup(g, s) PROVE HostShape'
  BY <1>4 DEF MoveGroup, record, history
<1>5. CASE TakeJob
  BY <1>5 DEF TakeJob, record, host, history
<1>6. CASE Check \/ ReassignRefused
  BY <1>6 DEF Check, ReassignRefused, record, host, history
<1>7. CASE Reassign
  BY <1>7 DEF Reassign, record, history
<1>8. CASE Record \/ ClearSetup
  <2>1. Source \in Sources
    BY <1>8, Served DEF Record, ClearSetup, Busy
  <2>2. Enabled \subseteq Ids /\ setup \ {By.source} \subseteq Sources
    BY EnabledType
  <2>3. Enabled \cup {By.source} \subseteq Ids /\ Enabled \ {By.source} \subseteq Ids
    BY <2>1, <2>2 DEF Source, Ids
  <2>4. UNCHANGED <<host, known, loaded, history>>
    BY <1>8 DEF Record, ClearSetup
  <2>5. /\ recorded' = None \/ recorded' \subseteq Ids
        /\ claiming' \subseteq SetupSources /\ overtaken' \subseteq setup' /\ setup' \subseteq Sources
    BY <1>8, <2>2, <2>3 DEF Record, ClearSetup, setups, Ids
  <2>6. QED
    BY <2>4, <2>5 DEF host, history
<1>9. CASE WriteConf
  BY <1>9 DEF WriteConf, Rendered, record, history
<1>10. CASE MoveUnit
  BY <1>10, Served DEF MoveUnit, MovedUnit, Busy, Enable, record, history
<1>11. CASE Restart
  BY <1>11 DEF Restart, RestartSnapserver, record
<1>12. CASE StepFails
  <2>1. Busy
    BY <1>12 DEF StepFails, Busy
  <2>2. unfinished' \subseteq Sources /\ lastFailed' \in BOOLEAN
    BY <1>12, <2>1, Served DEF StepFails, LeaveUndone, history, Source
  <2>3. unit' \in [Units -> BOOLEAN]
    BY <1>12, <2>1, Served DEF StepFails, MovedUnit, Enable, host
  <2>4. QED
    BY <1>12, <2>2, <2>3 DEF StepFails, RestartSnapserver, record, host
<1>13. CASE SnapserverReady
  <2>1. DefaultSource(served) \in Sources
    BY DefaultSourceIn DEF AnotherStays
  <2>2. QED
    BY <1>13, <2>1 DEF SnapserverReady, record, history
<1>14. CASE Kill
  <2>1. unfinished' \subseteq Sources /\ lastFailed' \in BOOLEAN
    BY <1>14, Served DEF Kill, LeaveUndone, history, Source, Busy
  <2>2. QED
    BY <1>14, <2>1 DEF Kill, ProcessGone, RestartSnapserver, record
<1>15. CASE Reprovision
  BY <1>15 DEF Reprovision, ProcessGone, Rendered, record
<1>16. ASSUME NEW s \in SetupSources, Claim(s) \/ SetSetupComplete(s) PROVE HostShape'
  <2>1. s \in Sources
    BY Catalogued
  <2>2. UNCHANGED <<recorded, host, known, loaded, history>>
    BY <1>16 DEF Claim, SetSetupComplete
  <2>3. claiming' \subseteq SetupSources /\ overtaken' \subseteq setup' /\ setup' \subseteq Sources
    BY <1>16, <2>1 DEF Claim, SetSetupComplete
  <2>4. QED
    BY <2>2, <2>3 DEF host, history
<1>17. CASE UNCHANGED vars
  BY <1>17 DEF vars
<1>18. QED
  BY <1>1, <1>2, <1>3, <1>4, <1>5, <1>6, <1>7, <1>8, <1>9, <1>10, <1>11, <1>12, <1>13, <1>14, <1>15,
     <1>16, <1>17
     DEF Next, WorkerStep

(* A handler that does not wait for its write goes on without one. *)
LEMMA HandlerMoves ==
  ASSUME ProcessShape, loaded, loaded', UNCHANGED <<queue, job>>,
         NEW h \in Handlers, handler[h].at # "queued",
         NEW r \in Handling, r.at # "queued",
         r.at \in {"ask", "dialog"} => r.source \in Sources /\ ~ r.enable,
         r.at = "new" \/ r.enable => r.dest = None,
         handler' = [handler EXCEPT ![h] = r]
  PROVE  ProcessShape'
<1>1. handler' \in [Handlers -> Handling] /\ handler'[h] = r
      /\ \A i \in Handlers \ {h} : handler'[i] = handler[i]
  BY DEF ProcessShape
<1>2. QED
  BY <1>1 DEF ProcessShape, Busy

(* A handler submits its write. *)
LEMMA HandlerSubmits ==
  ASSUME ProcessShape, loaded, loaded', job' = job,
         NEW h \in Handlers, handler[h].at # "queued",
         NEW r \in Handling, r.at = "queued", r.source \in Sources,
         r.enable => r.dest = None,
         handler' = [handler EXCEPT ![h] = r],
         queue' = Append(queue, h)
  PROVE  ProcessShape'
<1>1. handler' \in [Handlers -> Handling] /\ handler'[h] = r
      /\ \A i \in Handlers \ {h} : handler'[i] = handler[i]
  BY DEF ProcessShape
<1>2. /\ queue \in Seq(Handlers) /\ Len(queue) \in Nat
      /\ \A i \in 1..Len(queue) : queue[i] # h
      /\ Busy => job.by # h
  BY DEF ProcessShape
<1>3. /\ queue' \in Seq(Handlers) /\ Len(queue') = Len(queue) + 1
      /\ \A i \in 1..Len(queue) : queue'[i] = queue[i]
      /\ queue'[Len(queue) + 1] = h
  BY <1>2
<1>4. \A i, j \in 1..Len(queue') : queue'[i] = queue'[j] => i = j
  BY <1>2, <1>3 DEF ProcessShape
<1>5. \A g \in Handlers :
        (\E i \in 1..Len(queue') : queue'[i] = g) <=> (\E i \in 1..Len(queue) : queue[i] = g) \/ g = h
  BY <1>2, <1>3
<1>6. \A g \in Handlers : handler'[g].at = "queued" <=>
        (\E i \in 1..Len(queue') : queue'[i] = g) \/ (Busy' /\ job'.by = g)
  BY <1>1, <1>5 DEF ProcessShape, Busy
<1>7. Busy' => job'.by \in Handlers /\ \A i \in 1..Len(queue') : queue'[i] # job'.by
  BY <1>2, <1>3 DEF ProcessShape, Busy
<1>8. \A g \in Handlers :
        /\ handler'[g].at \in {"ask", "dialog", "queued"} => handler'[g].source \in Sources
        /\ handler'[g].at \in {"ask", "dialog"} => ~ handler'[g].enable
        /\ handler'[g].at = "new" \/ handler'[g].enable => handler'[g].dest = None
  BY <1>1 DEF ProcessShape
<1>9. job' \in Jobs /\ (job'.step = "none" => job' = NoJob) /\ loaded'
  BY DEF ProcessShape
<1>10. QED
  BY <1>1, <1>3, <1>4, <1>6, <1>7, <1>8, <1>9 DEF ProcessShape

(* The write under way ends, with its handler. *)
LEMMA ReturnKeeps ==
  ASSUME ProcessShape, Busy, loaded' = loaded, queue' = queue, NEW at \in {"end", "await"}, Return(at)
  PROVE  ProcessShape'
<1>1. /\ job.by \in Handlers /\ Blank(at) \in Handling /\ Blank(at).at = at
      /\ Blank(at).dest = None
  BY Served DEF Blank, Handling, Stages, Chosen
<1>2. job' = NoJob /\ job'.step = "none" /\ job' \in Jobs
  BY DEF Return, NoJob, Jobs, Steps
<1>3. /\ handler' \in [Handlers -> Handling] /\ handler'[job.by] = Blank(at)
      /\ \A i \in Handlers \ {job.by} : handler'[i] = handler[i]
  BY <1>1 DEF Return, ProcessShape
<1>4. loaded
  BY <1>1, Served DEF ProcessShape
<1>5. QED
  BY <1>1, <1>2, <1>3, <1>4 DEF ProcessShape, Busy

(* The write under way goes on to another step. *)
LEMMA JobMoves ==
  ASSUME ProcessShape, Busy, UNCHANGED <<loaded, queue, handler>>,
         job' \in Jobs, job'.step # "none", job'.by = job.by
  PROVE  ProcessShape'
BY DEF ProcessShape, Busy

(* The head of the queue is taken. *)
LEMMA TakeKeeps ==
  ASSUME ProcessShape, TakeJob
  PROVE  ProcessShape' /\ Busy' /\ ~ Busy /\ handler' = handler
         /\ (\E i \in 1..Len(queue) : job'.by = queue[i])
         /\ job'.step \in {"check", "record"} /\ (job'.step = "record" <=> handler[job'.by].enable)
         /\ job'.moved = 0 /\ job'.by \in Handlers
<1>1. queue \in Seq(Handlers) /\ queue # <<>> /\ job = NoJob /\ queue' = Tail(queue)
  BY DEF TakeJob, Idle, ProcessShape
<1>2. /\ Len(queue) \in Nat /\ Len(queue) >= 1 /\ Len(queue') = Len(queue) - 1
      /\ queue' \in Seq(Handlers) /\ Head(queue) = queue[1] /\ queue[1] \in Handlers
      /\ \A i \in 1..Len(queue') : queue'[i] = queue[i + 1] /\ i + 1 \in 1..Len(queue)
  BY <1>1
<1>3. job' = [step |-> IF handler[Head(queue)].enable THEN "record" ELSE "check",
              by |-> Head(queue), ids |-> {}, moved |-> 0]
  BY DEF TakeJob, NoJob
<1>4. /\ job' \in Jobs /\ job'.step \in {"check", "record"} /\ job'.by = queue[1] /\ job'.moved = 0
      /\ job'.step = "record" <=> handler[job'.by].enable
  BY <1>2, <1>3 DEF Jobs, Steps
<1>5. ~ Busy /\ Busy'
  BY <1>1, <1>4 DEF Busy, NoJob
<1>6. \A i, j \in 1..Len(queue') : queue'[i] = queue'[j] => i = j
  BY <1>2 DEF ProcessShape
<1>7. \A i \in 1..Len(queue') : queue'[i] # queue[1]
  BY <1>2 DEF ProcessShape
<1>8. \A g \in Handlers : (\E i \in 1..Len(queue) : queue[i] = g)
                             <=> (\E i \in 1..Len(queue') : queue'[i] = g) \/ g = queue[1]
  <2>1. \A i \in 1..Len(queue) : i = 1 \/ (i - 1 \in 1..Len(queue') /\ queue'[i - 1] = queue[i])
    BY <1>2
  <2>2. ASSUME NEW g \in Handlers, NEW i \in 1..Len(queue), queue[i] = g
        PROVE  (\E k \in 1..Len(queue') : queue'[k] = g) \/ g = queue[1]
    BY <2>1, <2>2
  <2>3. ASSUME NEW g \in Handlers, NEW i \in 1..Len(queue'), queue'[i] = g
        PROVE  \E k \in 1..Len(queue) : queue[k] = g
    BY <1>2, <2>3
  <2>4. 1 \in 1..Len(queue)
    BY <1>2
  <2>5. QED
    BY <2>2, <2>3, <2>4
<1>9. UNCHANGED <<handler, loaded>>
  BY DEF TakeJob
<1>10. \A g \in Handlers : handler'[g].at = "queued" <=>
        (\E i \in 1..Len(queue') : queue'[i] = g) \/ (Busy' /\ job'.by = g)
  BY <1>4, <1>5, <1>8, <1>9 DEF ProcessShape
<1>11. ProcessShape'
  BY <1>2, <1>4, <1>5, <1>6, <1>7, <1>9, <1>10 DEF ProcessShape
<1>12. QED
  BY <1>2, <1>4, <1>5, <1>9, <1>11

(* The process is gone, and with it every handler and the queue. *)
LEMMA GoneKeeps ==
  ASSUME ProcessShape, ProcessGone
  PROVE  ProcessShape' /\ \A h \in Handlers : handler'[h].at \in {"new", "end"}
<1>1. \A at \in {"new", "end"} : Blank(at) \in Handling /\ Blank(at).at = at /\ Blank(at).dest = None
  BY DEF Blank, Handling, Stages, Chosen
<1>2. /\ handler' \in [Handlers -> Handling]
      /\ \A h \in Handlers : handler'[h].at \in {"new", "end"} /\ handler'[h].dest = None
  BY <1>1 DEF ProcessGone
<1>3. queue' = <<>> /\ job' = NoJob /\ job' \in Jobs /\ job'.step = "none"
  BY DEF ProcessGone, NoJob, Jobs, Steps
<1>4. QED
  BY <1>2, <1>3 DEF ProcessShape, Busy

(* What a handler does between its awaits. *)
LEMMA BeginDisableKeeps ==
  ASSUME HostShape, ProcessShape, loaded, loaded', job' = job,
         NEW h \in Handlers, handler[h].at \in {"ask", "dialog"},
         NEW dest \in Chosen, BeginDisable(h, dest)
  PROVE  ProcessShape'
<1> DEFINE r == [handler[h] EXCEPT !.at = "queued", !.dest = dest, !.live = {}]
<1>1. /\ handler[h] \in Handling /\ handler[h].source \in Sources /\ handler[h].at # "queued"
      /\ ~ handler[h].enable
  BY DEF ProcessShape
<1>2. r \in Handling /\ r.at = "queued" /\ r.source = handler[h].source /\ ~ r.enable
  BY <1>1 DEF Handling, Stages
<1>3. Blank("end") \in Handling /\ Blank("end").at = "end" /\ Blank("end").dest = None
  BY DEF Blank, Handling, Stages, Chosen
<1>4. CASE EndHandler(h) /\ UNCHANGED queue
  BY <1>1, <1>3, <1>4, HandlerMoves DEF EndHandler
<1>5. CASE Enqueue(h, dest)
  <2>1. handler' = [handler EXCEPT ![h] = r] /\ queue' = Append(queue, h)
    BY <1>5 DEF Enqueue
  <2> HIDE DEF r
  <2>2. QED
    BY <1>1, <1>2, <2>1, HandlerSubmits
<1>6. QED
  BY <1>4, <1>5 DEF BeginDisable

LEMMA ClickKeeps ==
  ASSUME ProcessShape, NEW h \in Handlers, NEW s \in Sources, NEW enable \in BOOLEAN, Click(h, s, enable)
  PROVE  ProcessShape'
<1> DEFINE c(at) == [handler[h] EXCEPT !.source = s, !.enable = enable, !.at = at]
<1>1. /\ handler[h] \in Handling /\ handler[h].at # "queued" /\ loaded /\ loaded' /\ job' = job
      /\ handler[h].dest = None
  BY DEF Click, ProcessShape
<1>2. ASSUME NEW at \in Stages
      PROVE  /\ c(at) \in Handling /\ c(at).at = at /\ c(at).source = s /\ c(at).enable = enable
             /\ c(at).dest = None
  BY <1>1 DEF Handling, Chosen
<1>3. handler \in [Handlers -> Handling]
  BY DEF ProcessShape
<1>4. ASSUME NEW at \in Stages
      PROVE  [[handler EXCEPT ![h].source = s, ![h].enable = enable] EXCEPT ![h].at = at]
               = [handler EXCEPT ![h] = c(at)]
  BY <1>1, <1>3 DEF Handling
<1>5. \/ handler' = [handler EXCEPT ![h] = c("queued")] /\ queue' = Append(queue, h)
      \/ EndHandler(h) /\ queue' = queue
      \/ ~ enable /\ handler' = [handler EXCEPT ![h] = c("ask")] /\ queue' = queue
  BY <1>4 DEF Click, Stages
<1>6. Blank("end") \in Handling /\ Blank("end").at = "end" /\ Blank("end").dest = None
  BY DEF Blank, Handling, Stages, Chosen
<1> HIDE DEF c
<1>7. "queued" \in Stages /\ "ask" \in Stages
  BY DEF Stages
<1>8. CASE handler' = [handler EXCEPT ![h] = c("queued")] /\ queue' = Append(queue, h)
  BY <1>1, <1>2, <1>7, <1>8, HandlerSubmits
<1>9. CASE EndHandler(h) /\ queue' = queue
  BY <1>1, <1>6, <1>9, HandlerMoves DEF EndHandler
<1>10. CASE ~ enable /\ handler' = [handler EXCEPT ![h] = c("ask")] /\ queue' = queue
  BY <1>1, <1>2, <1>7, <1>10, HandlerMoves
<1>11. QED
  BY <1>5, <1>8, <1>9, <1>10

LEMMA ProcessShapeKept ==
  ASSUME HostShape, ProcessShape, AnotherStays, [Next]_vars
  PROVE  ProcessShape'
<1>0. \A h \in Handlers : handler[h].at \in {"ask", "dialog", "await"} => loaded
  BY DEF ProcessShape
<1>1. CASE Load
  BY <1>1 DEF Load, ProcessShape, Busy
<1>2. CASE BrokerRefresh \/ SnapserverReady \/ UNCHANGED vars
  BY <1>2 DEF BrokerRefresh, SnapserverReady, vars, ProcessShape, Busy
<1>3. ASSUME NEW g \in Groups, NEW s \in Sources, MoveGroup(g, s) PROVE ProcessShape'
  BY <1>3 DEF MoveGroup, ProcessShape, Busy
<1>4. ASSUME NEW h \in Handlers, NEW s \in Sources, NEW enable \in BOOLEAN, Click(h, s, enable)
      PROVE  ProcessShape'
  BY <1>4, ClickKeeps
<1>5. ASSUME NEW h \in Handlers, NobodyListens(h) PROVE ProcessShape'
  <2>1. handler[h].at = "ask" /\ loaded' = loaded /\ job' = job /\ BeginDisable(h, None)
    BY <1>5 DEF NobodyListens
  <2>2. QED
    BY <1>0, <2>1, BeginDisableKeeps DEF Chosen
<1>6. ASSUME NEW h \in Handlers, Confirm(h) PROVE ProcessShape'
  <2>1. handler[h].live \subseteq Sources
    BY DEF ProcessShape, Handling
  <2>2. PICK dest \in Chosen : BeginDisable(h, dest)
    BY <1>6, <2>1 DEF Confirm, Chosen
  <2>3. handler[h].at = "dialog" /\ loaded' = loaded /\ job' = job
    BY <1>6 DEF Confirm
  <2>4. QED
    BY <1>0, <2>2, <2>3, BeginDisableKeeps
<1>7. ASSUME NEW h \in Handlers, OpenDialog(h) PROVE ProcessShape'
  <2> DEFINE r == [handler[h] EXCEPT !.at = "dialog", !.live = Remaining(handler[h].source) \cap known]
  <2>1. handler[h] \in Handling /\ handler[h].source \in Sources /\ ~ handler[h].enable
        /\ handler[h].at = "ask"
    BY <1>7 DEF OpenDialog, ProcessShape
  <2>2. Remaining(handler[h].source) \cap known \subseteq Sources
    BY DEF HostShape
  <2>3. /\ r \in Handling /\ r.at = "dialog" /\ r.source = handler[h].source
        /\ r.enable = handler[h].enable
    BY <2>1, <2>2 DEF Handling, Stages
  <2>4. handler' = [handler EXCEPT ![h] = r] /\ UNCHANGED <<loaded, queue, job>>
    BY <1>7 DEF OpenDialog
  <2> HIDE DEF r
  <2>5. QED
    BY <1>0, <2>1, <2>3, <2>4, HandlerMoves
<1>8. ASSUME NEW h \in Handlers, Settle(h) \/ SettleRaises(h) \/ Dismiss(h) PROVE ProcessShape'
  <2>1. \A at \in {"end", "raised"} :
          Blank(at) \in Handling /\ Blank(at).at = at /\ Blank(at).dest = None /\ ~ Blank(at).enable
    BY DEF Blank, Handling, Stages, Chosen
  <2>2. handler[h].at \in {"dialog", "await"} /\ UNCHANGED <<loaded, queue, job>>
    BY <1>8 DEF Settle, SettleRaises, Dismiss
  <2>3. PICK at \in {"end", "raised"} : handler' = [handler EXCEPT ![h] = Blank(at)]
    BY <1>8 DEF Settle, SettleRaises, Dismiss, EndHandler
  <2>4. QED
    BY <1>0, <2>1, <2>2, <2>3, HandlerMoves
<1>9. CASE TakeJob
  BY <1>9, TakeKeeps
<1>10. CASE WorkerStep /\ ~ TakeJob
  <2>1. Busy /\ UNCHANGED <<loaded, queue>>
    BY <1>10 DEF WorkerStep, Check, Reassign, ReassignRefused, Record, ClearSetup, WriteConf, MoveUnit,
                 Restart, Busy
  <2>2. job \in Jobs /\ Enabled \subseteq Ids /\ Source \in Sources
    BY <2>1, Served, EnabledType DEF ProcessShape
  <2>3. \/ Return("end") \/ Return("await")
        \/ handler' = handler /\ job' = job
        \/ handler' = handler /\ \E step \in Steps \ {"none"} : job' = [job EXCEPT !.step = step]
        \/ handler' = handler /\ job' = [job EXCEPT !.moved = @ + 1]
        \/ handler' = handler /\ \E step \in Steps \ {"none"}, ids \in SUBSET Ids :
             job' = [job EXCEPT !.step = step, !.ids = ids]
    <3>1. CASE Record
      <4>1. Enabled \cup {By.source} \subseteq Ids /\ Enabled \ {By.source} \subseteq Ids
        BY <2>2 DEF Source, Ids
      <4>2. QED
        BY <3>1, <4>1 DEF Record, Steps
    <3>2. CASE ~ Record
      BY <1>10, <3>2 DEF WorkerStep, Check, Reassign, ReassignRefused, ClearSetup, WriteConf, MoveUnit,
                 Restart, Advance, Steps
    <3>3. QED
      BY <3>1, <3>2
  <2>4. CASE Return("end") \/ Return("await")
    BY <2>1, <2>4, ReturnKeeps
  <2>5. CASE handler' = handler /\ ~ Return("end") /\ ~ Return("await")
    <3>1. job' \in Jobs /\ job'.step # "none" /\ job'.by = job.by
      <4>1. CASE job' = job
        BY <2>1, <2>2, <4>1 DEF Busy
      <4>2. CASE \E step \in Steps \ {"none"} : job' = [job EXCEPT !.step = step]
        BY <2>2, <4>2 DEF Jobs
      <4>3. CASE job' = [job EXCEPT !.moved = @ + 1]
        BY <2>1, <2>2, <4>3 DEF Jobs, Busy
      <4>4. CASE \E step \in Steps \ {"none"}, ids \in SUBSET Ids :
                   job' = [job EXCEPT !.step = step, !.ids = ids]
        BY <2>2, <4>4 DEF Jobs
      <4>5. QED
        BY <2>3, <2>5, <4>1, <4>2, <4>3, <4>4
    <3>2. QED
      BY <2>1, <2>5, <3>1, JobMoves
  <2>6. QED
    BY <2>3, <2>4, <2>5
<1>11. CASE StepFails
  BY <1>11, ReturnKeeps DEF StepFails, Busy
<1>12. CASE Kill \/ Reprovision
  BY <1>12, GoneKeeps DEF Kill, Reprovision
<1>13. ASSUME NEW s \in SetupSources, Claim(s) \/ SetSetupComplete(s) PROVE ProcessShape'
  BY <1>13 DEF Claim, SetSetupComplete, ProcessShape, Busy
<1>14. QED
  BY <1>1, <1>2, <1>3, <1>4, <1>5, <1>6, <1>7, <1>8, <1>9, <1>10, <1>11, <1>12, <1>13
     DEF Next, HandlerStep, WorkerStep

-----------------------------------------------------------------------------
(* What is recorded, applied and set up. *)

Content == AnotherStays /\ ConfInv /\ UnitsInv /\ SetupInv /\ ListenersInv

(* Enabled and the units are state functions of the record. *)
LEMMA SameRecord ==
  ASSUME UNCHANGED <<recorded, unit>>
  PROVE  /\ Enabled' = Enabled /\ EnabledIds' = EnabledIds
         /\ \A s \in Sources : UnitsMatch(s)' <=> UnitsMatch(s)
BY DEF Enabled, EnabledIds, UnitsMatch

(* The steps of handlers leave the record, the host and the write alone. *)
LEMMA Framed ==
  ASSUME Content, UNCHANGED <<recorded, setup, overtaken, conf, unit, served, job, history>>,
         Busy => handler'[job.by] = handler[job.by],
         Busy => UNCHANGED <<up, group>>
  PROVE  Content'
<1>1. /\ Enabled' = Enabled /\ EnabledIds' = EnabledIds
      /\ \A s \in Sources : UnitsMatch(s)' <=> UnitsMatch(s)
  BY SameRecord
<1>2. Busy => Source' = Source /\ Enable' = Enable /\ By' = By
  BY DEF By, Source, Enable
<1>3. /\ job' = job /\ setup' = setup /\ unfinished' = unfinished /\ lastFailed' = lastFailed
      /\ overtaken' = overtaken
  BY DEF history
<1>4. AnotherStays'
  BY <1>1, <1>2, <1>3 DEF Content, AnotherStays, Busy, Applying
<1>5. ConfInv'
  BY <1>1, <1>3 DEF Content, ConfInv
<1>6. UnitsInv'
  BY <1>1, <1>2, <1>3 DEF Content, UnitsInv, Busy, Applying
<1>7. SetupInv'
  BY <1>1, <1>2, <1>3 DEF Content, SetupInv, Busy
<1>8. ListenersInv'
  BY <1>2, <1>3 DEF Content, ListenersInv, Busy, Applying
<1>9. QED
  BY <1>4, <1>5, <1>6, <1>7, <1>8 DEF Content

(* A write that ends before it has recorded anything leaves no trace. *)
LEMMA EndedEarly ==
  ASSUME Content, ProcessShape, UNCHANGED <<record, conf, unit, served, history>>,
         job.step \notin Applying, job' = NoJob
  PROVE  Content'
<1>1. /\ Enabled' = Enabled /\ EnabledIds' = EnabledIds
      /\ \A s \in Sources : UnitsMatch(s)' <=> UnitsMatch(s)
  BY SameRecord DEF record
<1>2. /\ job'.step = "none" /\ job'.moved = 0 /\ setup' = setup /\ overtaken' = overtaken
      /\ unfinished' = unfinished /\ lastFailed' = lastFailed
  BY DEF NoJob, record, history
<1>3. AnotherStays' /\ ListenersInv'
  BY <1>1, <1>2 DEF Content, AnotherStays, ListenersInv, Applying
<1>4. ConfInv'
  BY <1>1, <1>2 DEF Content, ConfInv
<1>5. UnitsInv'
  BY <1>1, <1>2 DEF Content, UnitsInv
<1>6. SetupInv'
  BY <1>1, <1>2 DEF Content, SetupInv, Applying
<1>7. QED
  BY <1>3, <1>4, <1>5, <1>6 DEF Content

(* A write that is cut short afterwards is remembered by the history. *)
LEMMA CutShort ==
  ASSUME Content, ProcessShape, UNCHANGED <<recorded, setup, overtaken>>,
         job.step \in Applying, job' = NoJob,
         lastFailed' = TRUE, unfinished' = unfinished \cup {Source},
         conf' = conf, served' \in {served, conf},
         \A u \in Units : (\A s \in Sources : s # Source => u \notin ToSet(UnitsOf[s])) \/ unit'[u] = unit[u]
  PROVE  Content'
<1>1. Enabled' = Enabled /\ EnabledIds' = EnabledIds
  BY DEF Enabled, EnabledIds
<1>2. job'.step = "none" /\ job'.moved = 0 /\ setup' = setup /\ overtaken' = overtaken
  BY DEF NoJob
<1>3. \A s \in Sources : s # Source => (UnitsMatch(s)' <=> UnitsMatch(s))
  <2>1. \A s \in Sources : ToSet(UnitsOf[s]) \subseteq Units
    BY DEF Units
  <2>2. QED
    BY <1>1, <2>1 DEF UnitsMatch
<1>4. AnotherStays' /\ ListenersInv'
  BY <1>1, <1>2 DEF Content, AnotherStays, ListenersInv, Applying
<1>5. ConfInv'
  BY <1>2 DEF ConfInv
<1>6. UnitsInv'
  BY <1>1, <1>2, <1>3 DEF Content, UnitsInv
<1>7. SetupInv'
  BY <1>1, <1>2 DEF Content, SetupInv, Applying
<1>8. QED
  BY <1>4, <1>5, <1>6, <1>7 DEF Content

-----------------------------------------------------------------------------
(* The steps of a write. *)

LEMMA CheckKeeps ==
  ASSUME HostShape, ProcessShape, Content, Check
  PROVE  Content'
<1>1. Busy /\ job.step = "check" /\ job \in Jobs
  BY DEF Check, Busy, ProcessShape
<1>2. UNCHANGED <<record, conf, unit, served, history>> /\ UNCHANGED <<up, group>>
  BY DEF Check, host
<1>3. CASE Return("end")
  BY <1>1, <1>2, <1>3, EndedEarly DEF Return, Applying
<1>4. CASE ~ Return("end")
  <2>1. /\ Source \in EnabledIds /\ Cardinality(EnabledIds) # 1
        /\ Advance(IF By.dest = None THEN "record" ELSE "move") /\ handler' = handler
    BY <1>4 DEF Check, Source
  <2>2. /\ job'.step = IF By.dest = None THEN "record" ELSE "move"
        /\ job'.by = job.by /\ job'.moved = job.moved
    BY <1>1, <2>1 DEF Advance, Jobs
  <2>3. By' = By /\ Source' = Source /\ Enable' = Enable
    BY <2>1, <2>2 DEF By, Source, Enable
  <2>4. /\ Enabled' = Enabled /\ EnabledIds' = EnabledIds
        /\ \A s \in Sources : UnitsMatch(s)' <=> UnitsMatch(s)
    BY <1>2, SameRecord DEF record
  <2>5. EnabledIds \ {Source} # {}
    BY <2>1, NotAlone
  <2>6. /\ conf' = conf /\ served' = served /\ setup' = setup /\ unfinished' = unfinished
        /\ lastFailed' = lastFailed /\ overtaken' = overtaken
    BY <1>2 DEF record, history
  <2>7. AnotherStays'
    BY <1>1, <2>1, <2>2, <2>3, <2>4, <2>5, <2>6 DEF Content, AnotherStays, Applying
  <2>8. ConfInv'
    BY <1>1, <2>2, <2>4, <2>6 DEF Content, ConfInv, Applying
  <2>9. UnitsInv'
    BY <1>1, <2>2, <2>4, <2>6 DEF Content, UnitsInv, Applying
  <2>10. SetupInv'
    BY <1>1, <2>2, <2>4, <2>6 DEF Content, SetupInv
  <2>11. ListenersInv'
    BY <2>2, <2>3 DEF ListenersInv, Applying
  <2>12. QED
    BY <2>7, <2>8, <2>9, <2>10, <2>11 DEF Content
<1>5. QED
  BY <1>3, <1>4

LEMMA ReassignKeeps ==
  ASSUME HostShape, ProcessShape, Content, Reassign
  PROVE  Content'
<1>1. Busy /\ job.step = "move" /\ job \in Jobs /\ up' = up /\ up
  BY DEF Reassign, Busy, ProcessShape
<1>2. UNCHANGED <<record, conf, unit, served, history>> /\ handler' = handler
  BY DEF Reassign
<1>3. \/ job' = job
      \/ /\ job'.step = "record" /\ job'.by = job.by /\ job'.moved = job.moved
         /\ group' = group /\ \A g \in Groups : group[g] # Source
  BY <1>1 DEF Reassign, Advance, Jobs, Source
<1>4. By' = By /\ Source' = Source /\ Enable' = Enable
  BY <1>2, <1>3 DEF By, Source, Enable
<1>5. /\ Enabled' = Enabled /\ EnabledIds' = EnabledIds
      /\ \A s \in Sources : UnitsMatch(s)' <=> UnitsMatch(s)
  BY <1>2, SameRecord DEF record
<1>6. /\ conf' = conf /\ served' = served /\ setup' = setup /\ unfinished' = unfinished
      /\ lastFailed' = lastFailed /\ overtaken' = overtaken
  BY <1>2 DEF record, history
<1>7. AnotherStays'
  BY <1>1, <1>3, <1>4, <1>5, <1>6 DEF Content, AnotherStays, Applying
<1>8. ConfInv'
  BY <1>1, <1>3, <1>5, <1>6 DEF Content, ConfInv, Applying
<1>9. UnitsInv'
  BY <1>1, <1>3, <1>5, <1>6 DEF Content, UnitsInv, Applying
<1>10. SetupInv'
  BY <1>1, <1>3, <1>5, <1>6 DEF Content, SetupInv
<1>11. ListenersInv'
  BY <1>1, <1>3, <1>4 DEF Content, ListenersInv, Applying
<1>12. QED
  BY <1>7, <1>8, <1>9, <1>10, <1>11 DEF Content

(* The record changes in the source of the write alone. *)
LEMMA RecordChanges ==
  ASSUME HostShape, ProcessShape, Unrecorded, Record
  PROVE  /\ recorded' # None
         /\ Enabled' = IF Enable THEN Enabled \cup {Source} ELSE Enabled \ {Source}
<1> DEFINE ids == IF Enable THEN Enabled \cup {Source} ELSE Enabled \ {Source}
<1>1. Busy /\ job.step = "record"
  BY DEF Record, Busy
<1>2. job.by \in Handlers /\ By.at = "queued" /\ Source \in Sources /\ Enable \in BOOLEAN
  BY <1>1, Served
<1>3. recorded' = IF ids = Enabled THEN recorded ELSE ids
  BY DEF Record, Source, Enable
<1>4. recorded = None => Enable /\ Source # Default
  BY <1>2 DEF Unrecorded, By, Source, Enable
<1>5. recorded = None => ids # Enabled
  BY <1>4 DEF Enabled
<1>6. ids \subseteq Ids
  BY <1>2, EnabledType DEF Ids
<1>7. ids # None
  BY <1>6, Catalogued
<1>8. recorded' # None
  BY <1>3, <1>5, <1>7
<1>9. recorded' = ids
  BY <1>3, <1>5 DEF Enabled
<1>10. QED
  BY <1>8, <1>9 DEF Enabled

LEMMA RecordKeeps ==
  ASSUME HostShape, ProcessShape, Unrecorded, Content, Record
  PROVE  Content'
<1>1. Busy /\ job.step = "record" /\ job \in Jobs
  BY DEF Record, Busy, ProcessShape
<1>2. Source \in Sources /\ Enable \in BOOLEAN
  BY <1>1, Served
<1>3. Enabled' = IF Enable THEN Enabled \cup {Source} ELSE Enabled \ {Source}
  BY RecordChanges
<1>4. EnabledIds' = IF Enable THEN EnabledIds \cup {Source} ELSE EnabledIds \ {Source}
  BY <1>2, <1>3 DEF EnabledIds
<1>5. /\ job'.step = IF Enable THEN "write" ELSE "clear"
      /\ job'.by = job.by /\ job'.moved = job.moved
      /\ job'.ids = IF Enable THEN Enabled \cup {Source} ELSE Enabled \ {Source}
  BY <1>1 DEF Record, Jobs, Source, Enable
<1>6. /\ conf' = conf /\ served' = served /\ setup' = setup /\ unfinished' = unfinished
      /\ lastFailed' = lastFailed /\ unit' = unit /\ group' = group /\ up' = up /\ handler' = handler
      /\ overtaken' = overtaken
  BY DEF Record, setups, host, history
<1>7. By' = By /\ Source' = Source /\ Enable' = Enable
  BY <1>5, <1>6 DEF By, Source, Enable
<1>8. \A s \in Sources : s # Source => (UnitsMatch(s)' <=> UnitsMatch(s))
  BY <1>3, <1>6 DEF UnitsMatch
<1>9. AnotherStays'
  BY <1>1, <1>2, <1>3, <1>4, <1>5, <1>6, <1>7 DEF Content, AnotherStays, Applying
<1>10. ConfInv'
  BY <1>5 DEF ConfInv, Applying
<1>11. UnitsInv'
  BY <1>1, <1>5, <1>6, <1>7, <1>8 DEF Content, UnitsInv, Applying
<1>12. SetupInv'
  BY <1>1, <1>4, <1>5, <1>6, <1>7 DEF Content, SetupInv
<1>13. ListenersInv'
  BY <1>1, <1>5, <1>6, <1>7 DEF Content, ListenersInv, Applying
<1>14. QED
  BY <1>9, <1>10, <1>11, <1>12, <1>13 DEF Content

LEMMA ClearSetupKeeps ==
  ASSUME HostShape, ProcessShape, Content, ClearSetup
  PROVE  Content'
<1>1. Busy /\ job.step = "clear" /\ job \in Jobs
  BY DEF ClearSetup, Busy, ProcessShape
<1>2. job' = [job EXCEPT !.step = "write"]
  BY DEF ClearSetup, Advance
<1>3. job'.step = "write" /\ job'.by = job.by /\ job'.moved = job.moved /\ job'.ids = job.ids
  BY <1>1, <1>2 DEF Jobs
<1>4. /\ conf' = conf /\ served' = served /\ setup' = setup \ {Source} /\ unfinished' = unfinished
      /\ lastFailed' = lastFailed /\ unit' = unit /\ group' = group /\ up' = up /\ handler' = handler
      /\ recorded' = recorded /\ overtaken' = overtaken \ {Source}
  BY DEF ClearSetup, host, history, Source
<1>5. By' = By /\ Source' = Source /\ Enable' = Enable
  BY <1>3, <1>4 DEF By, Source, Enable
<1>6. /\ Enabled' = Enabled /\ EnabledIds' = EnabledIds
      /\ \A s \in Sources : UnitsMatch(s)' <=> UnitsMatch(s)
  BY <1>4, SameRecord
<1>7. AnotherStays'
  BY <1>1, <1>3, <1>4, <1>5, <1>6 DEF Content, AnotherStays, Applying
<1>8. ConfInv'
  BY <1>3 DEF ConfInv, Applying
<1>9. UnitsInv'
  BY <1>1, <1>3, <1>4, <1>5, <1>6 DEF Content, UnitsInv, Applying
<1>10. SetupInv'
  BY <1>1, <1>3, <1>4, <1>5, <1>6 DEF Content, SetupInv
<1>11. ListenersInv'
  BY <1>1, <1>3, <1>4, <1>5 DEF Content, ListenersInv, Applying
<1>12. QED
  BY <1>7, <1>8, <1>9, <1>10, <1>11 DEF Content

LEMMA WriteConfKeeps ==
  ASSUME HostShape, ProcessShape, Content, WriteConf
  PROVE  Content'
<1>1. Busy /\ job.step = "write" /\ job \in Jobs
  BY DEF WriteConf, Busy, ProcessShape
<1>2. job' = [job EXCEPT !.step = "units"]
  BY DEF WriteConf, Advance
<1>3. job'.step = "units" /\ job'.by = job.by /\ job'.moved = job.moved /\ job'.ids = job.ids
  BY <1>1, <1>2 DEF Jobs
<1>4. /\ served' = served /\ setup' = setup /\ unfinished' = unfinished
      /\ lastFailed' = lastFailed /\ unit' = unit /\ group' = group /\ up' = up /\ handler' = handler
      /\ recorded' = recorded /\ overtaken' = overtaken
  BY DEF WriteConf, record, history
<1>5. By' = By /\ Source' = Source /\ Enable' = Enable
  BY <1>3, <1>4 DEF By, Source, Enable
<1>6. /\ Enabled' = Enabled /\ EnabledIds' = EnabledIds
      /\ \A s \in Sources : UnitsMatch(s)' <=> UnitsMatch(s)
  BY <1>4, SameRecord
<1>7. job.ids = Enabled
  BY <1>1 DEF Content, AnotherStays, Applying
<1>8. conf' = EnabledIds
  BY <1>7 DEF WriteConf, Rendered, EnabledIds
<1>9. AnotherStays'
  BY <1>1, <1>3, <1>4, <1>5, <1>6, <1>8 DEF Content, AnotherStays, Applying
<1>10. ConfInv'
  BY <1>3, <1>6, <1>8 DEF ConfInv, Applying
<1>11. job'.moved = 0
  BY <1>1, <1>3 DEF Content, UnitsInv
<1>12. \A i \in 1..Len(UnitsOf[Source]) : ~ (i <= 0)
  OBVIOUS
<1>13. UnitsInv'
  BY <1>1, <1>3, <1>4, <1>5, <1>6, <1>11, <1>12 DEF Content, UnitsInv, Applying
<1>14. SetupInv'
  BY <1>1, <1>3, <1>4, <1>5, <1>6 DEF Content, SetupInv
<1>15. ListenersInv'
  BY <1>1, <1>3, <1>4, <1>5 DEF Content, ListenersInv, Applying
<1>16. QED
  BY <1>9, <1>10, <1>13, <1>14, <1>15 DEF Content

(* Only a unit of the source is moved. *)
LEMMA MovedUnitFields ==
  ASSUME HostShape, ProcessShape, Busy, UnitsLeft # <<>>
  PROVE  /\ job.moved + 1 \in 1..Len(UnitsOf[Source])
         /\ UnitsOf[Source][job.moved + 1] \in Units
         /\ MovedUnit = [unit EXCEPT ![UnitsOf[Source][job.moved + 1]] = Enable]
         /\ \A s \in Sources : s # Source => UnitsOf[Source][job.moved + 1] \notin ToSet(UnitsOf[s])
<1>1. Source \in Sources /\ job.moved \in Nat
  BY Served DEF ProcessShape, Jobs
<1>2. UnitsOf[Source] \in Seq(Units)
  BY <1>1, Catalogued
<1>3. job.moved < Len(UnitsOf[Source])
  BY <1>1, <1>2, NextUnit DEF UnitsLeft, Source
<1>4. /\ Head(UnitsLeft) = UnitsOf[Source][job.moved + 1]
      /\ job.moved + 1 \in 1..Len(UnitsOf[Source]) /\ UnitsOf[Source][job.moved + 1] \in Units
  BY <1>1, <1>2, <1>3, NextUnit DEF UnitsLeft, Source
<1>5. UnitsOf[Source][job.moved + 1] \in ToSet(UnitsOf[Source])
  BY <1>1, <1>4, UnitsInSequence
<1>6. QED
  BY <1>1, <1>4, <1>5, Catalogued DEF MovedUnit, Enable

LEMMA MoveUnitKeeps ==
  ASSUME HostShape, ProcessShape, Content, MoveUnit
  PROVE  Content'
<1>1. Busy /\ job.step = "units" /\ job \in Jobs /\ job.moved \in Nat
  BY DEF MoveUnit, Busy, ProcessShape, Jobs
<1>2. Source \in Sources /\ Enable \in BOOLEAN /\ UnitsOf[Source] \in Seq(Units)
  BY <1>1, Served, Catalogued
<1>3. /\ served' = served /\ conf' = conf /\ setup' = setup /\ unfinished' = unfinished
      /\ lastFailed' = lastFailed /\ group' = group /\ up' = up /\ handler' = handler
      /\ recorded' = recorded /\ overtaken' = overtaken
  BY DEF MoveUnit, record, history
<1>4. /\ Enabled' = Enabled /\ EnabledIds' = EnabledIds
  BY <1>3 DEF Enabled, EnabledIds
<1>5. job'.step \in {"units", "restart"} /\ job'.by = job.by /\ job'.ids = job.ids
  BY <1>1 DEF MoveUnit, Advance, Jobs
<1>6. By' = By /\ Source' = Source /\ Enable' = Enable
  BY <1>3, <1>5 DEF By, Source, Enable
<1>7. AnotherStays'
  BY <1>1, <1>3, <1>4, <1>5, <1>6 DEF Content, AnotherStays, Applying
<1>8. ConfInv'
  BY <1>1, <1>3, <1>4, <1>5 DEF Content, ConfInv, Applying
<1>9. SetupInv'
  BY <1>1, <1>3, <1>4, <1>5, <1>6 DEF Content, SetupInv
<1>10. ListenersInv'
  BY <1>1, <1>3, <1>5, <1>6 DEF Content, ListenersInv, Applying
<1>11. UnitsInv'
  <2>1. CASE UnitsLeft = <<>>
    <3>1. unit' = unit /\ job'.step = "restart"
      BY <1>1, <2>1 DEF MoveUnit, Advance, Jobs
    <3>2. Len(UnitsOf[Source]) <= job.moved
      BY <1>1, <1>2, <2>1, NextUnit DEF UnitsLeft, Source
    <3>3. \A i \in 1..Len(UnitsOf[Source]) : unit[UnitsOf[Source][i]] = Enable
      BY <1>1, <1>2, <3>2 DEF Content, UnitsInv
    <3>4. \A s \in Sources : UnitsMatch(s)' <=> UnitsMatch(s)
      BY <1>3, <3>1, SameRecord
    <3>5. QED
      BY <1>1, <1>3, <1>5, <1>6, <3>1, <3>3, <3>4 DEF Content, UnitsInv, Applying
  <2>2. CASE UnitsLeft # <<>>
    <3> DEFINE u == UnitsOf[Source][job.moved + 1]
    <3>1. /\ u \in Units /\ unit' = [unit EXCEPT ![u] = Enable]
          /\ \A s \in Sources : s # Source => u \notin ToSet(UnitsOf[s])
      BY <1>1, <2>2, MovedUnitFields DEF MoveUnit
    <3>2. job'.step = "units" /\ job'.moved = job.moved + 1
      BY <1>1, <2>2 DEF MoveUnit, Jobs
    <3>3. \A s \in Sources : ToSet(UnitsOf[s]) \subseteq Units
      BY DEF Units
    <3>4. \A s \in Sources : s # Source => (UnitsMatch(s)' <=> UnitsMatch(s))
      BY <1>4, <3>1, <3>3 DEF UnitsMatch, HostShape
    <3>5. ASSUME NEW i \in 1..Len(UnitsOf[Source]), i <= job.moved + 1
          PROVE  unit'[UnitsOf[Source][i]] = Enable
      <4>1. UnitsOf[Source][i] \in Units /\ (i <= job.moved \/ i = job.moved + 1)
        BY <1>1, <1>2, <3>5
      <4>2. i <= job.moved => unit[UnitsOf[Source][i]] = Enable
        BY <1>1 DEF Content, UnitsInv
      <4> HIDE DEF u
      <4>3. UnitsOf[Source][i] = u => unit'[UnitsOf[Source][i]] = Enable
        BY <3>1 DEF HostShape
      <4>4. UnitsOf[Source][i] # u => unit'[UnitsOf[Source][i]] = unit[UnitsOf[Source][i]]
        BY <3>1, <4>1 DEF HostShape
      <4>5. i = job.moved + 1 => UnitsOf[Source][i] = u
        BY DEF u
      <4>6. QED
        BY <4>1, <4>2, <4>3, <4>4, <4>5
    <3>6. \A s \in Sources \ unfinished' : UnitsMatch(s)' \/ (job'.step \in Applying /\ s = Source')
      BY <1>1, <1>3, <1>6, <3>2, <3>4 DEF Content, UnitsInv, Applying
    <3> HIDE DEF u
    <3>7. QED
      BY <1>6, <3>2, <3>5, <3>6 DEF UnitsInv
  <2>3. QED
    BY <2>1, <2>2
<1>12. QED
  BY <1>7, <1>8, <1>9, <1>10, <1>11 DEF Content

LEMMA RestartKeeps ==
  ASSUME HostShape, ProcessShape, Content, Restart
  PROVE  Content'
<1>1. Busy /\ job.step = "restart"
  BY DEF Restart, Busy
<1>2. Source \in Sources
  BY <1>1, Served
<1>3. /\ served' = conf /\ conf' = conf /\ setup' = setup /\ unfinished' = unfinished \ {Source}
      /\ recorded' = recorded /\ unit' = unit /\ job' = NoJob /\ overtaken' = overtaken
  BY DEF Restart, RestartSnapserver, Return, record, Source
<1>4. /\ Enabled' = Enabled /\ EnabledIds' = EnabledIds
      /\ \A s \in Sources : UnitsMatch(s)' <=> UnitsMatch(s)
  BY <1>3, SameRecord
<1>5. job'.step = "none" /\ job'.moved = 0
  BY <1>3 DEF NoJob
<1>6. AnotherStays' /\ ListenersInv'
  BY <1>3, <1>4, <1>5 DEF Content, AnotherStays, ListenersInv, Applying
<1>7. conf = EnabledIds
  BY <1>1 DEF Content, ConfInv
<1>8. ConfInv'
  BY <1>3, <1>4, <1>5, <1>7 DEF ConfInv
<1>9. UnitsMatch(Source)
  <2>1. \A i \in 1..Len(UnitsOf[Source]) : unit[UnitsOf[Source][i]] = Enable
    BY <1>1 DEF Content, UnitsInv
  <2>2. (Source \in Enabled) = Enable
    BY <1>1, Served DEF Content, AnotherStays, Applying
  <2>3. \A u \in ToSet(UnitsOf[Source]) : \E i \in 1..Len(UnitsOf[Source]) : u = UnitsOf[Source][i]
    BY <1>2, UnitsInSequence
  <2>4. QED
    BY <2>1, <2>2, <2>3 DEF UnitsMatch
<1>10. UnitsInv'
  BY <1>3, <1>4, <1>5, <1>9 DEF Content, UnitsInv
<1>11. Source \in setup => Source \in EnabledIds \cup overtaken
  BY <1>1, <1>2 DEF Content, AnotherStays, SetupInv, Applying, EnabledIds
<1>12. SetupInv'
  BY <1>1, <1>3, <1>4, <1>5, <1>11 DEF Content, SetupInv
<1>13. QED
  BY <1>6, <1>8, <1>10, <1>12 DEF Content

-----------------------------------------------------------------------------
(* Failures, kills, provisioning, and the start of the process. *)

LEMMA StepFailsKeeps ==
  ASSUME HostShape, ProcessShape, Content, StepFails
  PROVE  Content'
<1>1. Busy /\ job' = NoJob /\ UNCHANGED record
  BY DEF StepFails, Busy, Return
<1>2. CASE job.step \notin Applying
  <2>1. UNCHANGED host /\ UNCHANGED history
    BY <1>2 DEF StepFails, LeaveUndone, Applying
  <2>2. QED
    BY <1>1, <1>2, <2>1, EndedEarly DEF host
<1>3. CASE job.step \in Applying
  <2>1. lastFailed' = TRUE /\ unfinished' = unfinished \cup {Source}
    BY <1>3 DEF StepFails, LeaveUndone, Applying, Source
  <2>2. conf' = conf /\ served' \in {served, conf}
    BY DEF StepFails, RestartSnapserver, host
  <2>3. \A u \in Units : (\A s \in Sources : s # Source => u \notin ToSet(UnitsOf[s])) \/ unit'[u] = unit[u]
    <3>1. CASE unit' = unit
      BY <3>1
    <3>2. CASE unit' = MovedUnit /\ UnitsLeft # <<>>
      <4> DEFINE v == UnitsOf[Source][job.moved + 1]
      <4>1. /\ unit' = [unit EXCEPT ![v] = Enable]
            /\ \A s \in Sources : s # Source => v \notin ToSet(UnitsOf[s])
        BY <1>1, <3>2, MovedUnitFields
      <4> HIDE DEF v
      <4>2. QED
        BY <4>1 DEF HostShape
    <3>3. QED
      BY <3>1, <3>2 DEF StepFails, host
  <2>4. QED
    BY <1>1, <1>3, <2>1, <2>2, <2>3, CutShort DEF record
<1>4. QED
  BY <1>2, <1>3

LEMMA KillKeeps ==
  ASSUME HostShape, ProcessShape, Content, Kill
  PROVE  Content'
<1>1. /\ job' = NoJob /\ UNCHANGED <<recorded, setup, overtaken>>
      /\ conf' = conf /\ unit' = unit /\ served' \in {served, conf}
  BY DEF Kill, ProcessGone, RestartSnapserver
<1>2. CASE job.step \in Applying
  <2>1. lastFailed' = TRUE /\ unfinished' = unfinished \cup {Source}
    BY <1>2 DEF Kill, LeaveUndone, Applying, Source
  <2>2. QED
    BY <1>1, <1>2, <2>1, CutShort
<1>3. CASE job.step \notin Applying
  <2>1. UNCHANGED history
    BY <1>3 DEF Kill, LeaveUndone, Applying
  <2>2. /\ Enabled' = Enabled /\ EnabledIds' = EnabledIds
        /\ \A s \in Sources : UnitsMatch(s)' <=> UnitsMatch(s)
    BY <1>1, SameRecord
  <2>3. /\ job'.step = "none" /\ job'.moved = 0 /\ setup' = setup /\ unfinished' = unfinished
        /\ lastFailed' = lastFailed /\ overtaken' = overtaken
    BY <1>1, <2>1 DEF NoJob, history
  <2>4. AnotherStays' /\ ListenersInv'
    BY <1>1, <2>2, <2>3 DEF Content, AnotherStays, ListenersInv, Applying
  <2>5. ConfInv'
    BY <1>1, <1>3, <2>2, <2>3 DEF Content, ConfInv
  <2>6. UnitsInv'
    BY <1>3, <2>2, <2>3 DEF Content, UnitsInv
  <2>7. SetupInv'
    BY <1>3, <2>2, <2>3 DEF Content, SetupInv, Applying
  <2>8. QED
    BY <2>4, <2>5, <2>6, <2>7 DEF Content
<1>4. QED
  BY <1>2, <1>3

(* Provisioning makes the units what the record says. *)
LEMMA RenderedUnits ==
  ASSUME unit' = [u \in Units |-> \E s \in Enabled \cap Sources : u \in ToSet(UnitsOf[s])],
         NEW s \in Sources, NEW u \in ToSet(UnitsOf[s])
  PROVE  unit'[u] = (s \in Enabled)
<1>1. u \in Units
  BY DEF Units
<1>2. (\E t \in Enabled \cap Sources : u \in ToSet(UnitsOf[t])) <=> s \in Enabled
  BY Catalogued
<1>3. unit'[u] = IF \E t \in Enabled \cap Sources : u \in ToSet(UnitsOf[t]) THEN TRUE ELSE FALSE
  BY <1>1
<1>4. CASE s \in Enabled
  BY <1>2, <1>3, <1>4
<1>5. CASE s \notin Enabled
  <2>1. unit'[u] = FALSE
    BY <1>2, <1>3, <1>5
  <2>2. (s \in Enabled) = FALSE
    BY <1>5
  <2>3. QED
    BY <2>1, <2>2, Zenon
<1>6. QED
  BY <1>4, <1>5

LEMMA ReprovisionKeeps ==
  ASSUME HostShape, ProcessShape, Content, Reprovision
  PROVE  Content'
<1>1. /\ job' = NoJob /\ recorded' = recorded /\ setup' = setup /\ overtaken' = overtaken
      /\ conf' = EnabledIds /\ served' = EnabledIds
      /\ unfinished' = (unfinished \cap setup) \ Enabled
  BY DEF Reprovision, ProcessGone, Rendered, EnabledIds
<1>2. Enabled' = Enabled /\ EnabledIds' = EnabledIds
  BY <1>1 DEF Enabled, EnabledIds
<1>3. job'.step = "none" /\ job'.moved = 0
  BY <1>1 DEF NoJob
<1>4. \A s \in Sources : UnitsMatch(s)'
  BY <1>2, RenderedUnits DEF Reprovision, UnitsMatch
<1>5. AnotherStays' /\ ListenersInv'
  BY <1>1, <1>2, <1>3 DEF Content, AnotherStays, ListenersInv, Applying
<1>6. ConfInv' /\ UnitsInv'
  BY <1>1, <1>2, <1>3, <1>4 DEF ConfInv, UnitsInv
<1>7. SetupInv'
  <2>1. job.step # "clear"
    BY DEF Reprovision, Idle, NoJob
  <2>2. \A s \in setup : s \in EnabledIds \cup unfinished \cup overtaken
    BY <2>1 DEF Content, SetupInv
  <2>3. QED
    BY <1>1, <1>2, <1>3, <2>2 DEF SetupInv, EnabledIds, HostShape
<1>8. QED
  BY <1>5, <1>6, <1>7 DEF Content

LEMMA LoadKeeps ==
  ASSUME HostShape, ProcessShape, Unrecorded, Content, Load
  PROVE  Content'
<1>1. ~ Busy /\ UNCHANGED <<setup, overtaken, host, job, handler>>
  BY Served DEF Load, setups, ProcessShape
<1>2. CASE UNCHANGED <<recorded, history>>
  BY <1>1, <1>2, Framed DEF host
<1>3. CASE recorded = None /\ recorded' = served /\ lastFailed' = FALSE /\ unfinished' = {}
  <2>1. served # None
    BY Catalogued DEF HostShape, Ids
  <2>2. Enabled' = served /\ EnabledIds' = served
    BY <1>3, <2>1 DEF Enabled, EnabledIds, HostShape
  <2>3. /\ job'.step = "none" /\ job'.moved = 0 /\ conf' = conf /\ served' = served /\ unit' = unit
        /\ setup' = setup
    BY <1>1 DEF Busy, ProcessShape, NoJob, host
  <2>4. /\ served = conf /\ setup \subseteq conf
        /\ \A s \in Sources : \A u \in ToSet(UnitsOf[s]) : unit[u] = (s \in conf)
    BY <1>3 DEF Unrecorded
  <2>5. \A s \in Sources : UnitsMatch(s)'
    BY <2>2, <2>3, <2>4 DEF UnitsMatch
  <2>6. AnotherStays' /\ ListenersInv'
    BY <2>2, <2>3 DEF Content, AnotherStays, ListenersInv, Applying
  <2>7. ConfInv' /\ UnitsInv'
    BY <2>2, <2>3, <2>4, <2>5 DEF ConfInv, UnitsInv
  <2>8. SetupInv'
    BY <2>2, <2>3, <2>4 DEF SetupInv
  <2>9. QED
    BY <2>6, <2>7, <2>8 DEF Content
<1>4. QED
  BY <1>2, <1>3 DEF Load

(* A claim and its record leave everything alone that a toggle decides on.  *)
LEMMA ClaimKeeps ==
  ASSUME HostShape, ProcessShape, Content, NEW s \in SetupSources, Claim(s) \/ SetSetupComplete(s)
  PROVE  Content'
<1>1. CASE Claim(s)
  BY <1>1, Framed DEF Claim, host
<1>2. CASE SetSetupComplete(s)
  <2>1. /\ setup' = setup \cup {s} /\ overtaken \subseteq overtaken'
        /\ s \notin Enabled => s \in overtaken'
    BY <1>2 DEF SetSetupComplete
  <2>2. UNCHANGED <<recorded, conf, unit, served, up, group, handler, job, lastFailed, unfinished>>
    BY <1>2 DEF SetSetupComplete, host, history
  <2>3. /\ Enabled' = Enabled /\ EnabledIds' = EnabledIds
        /\ \A r \in Sources : UnitsMatch(r)' <=> UnitsMatch(r)
    BY <2>2, SameRecord
  <2>4. By' = By /\ Source' = Source /\ Enable' = Enable
    BY <2>2 DEF By, Source, Enable
  <2>5. AnotherStays' /\ ConfInv'
    BY <2>2, <2>3, <2>4 DEF Content, AnotherStays, ConfInv
  <2>6. UnitsInv' /\ ListenersInv'
    BY <2>2, <2>3, <2>4 DEF Content, UnitsInv, ListenersInv
  <2>7. \A r \in setup' :
          r \in EnabledIds \cup unfinished \cup overtaken' \/ (job.step = "clear" /\ r = Source)
    <3>1. s \in EnabledIds \cup overtaken'
      BY <2>1, Catalogued DEF EnabledIds
    <3>2. QED
      BY <2>1, <3>1 DEF Content, SetupInv
  <2>8. job.step \in {"write", "units", "restart"} /\ Source \in setup' => Enable \/ Source \in overtaken'
    <3>1. job.step \in {"write", "units", "restart"} => (Source \in Enabled <=> Enable)
      BY DEF Content, AnotherStays, Applying
    <3>2. QED
      BY <2>1, <3>1 DEF Content, SetupInv
  <2>9. SetupInv'
    BY <2>2, <2>3, <2>4, <2>7, <2>8 DEF SetupInv
  <2>10. QED
    BY <2>5, <2>6, <2>9 DEF Content
<1>3. QED
  BY <1>1, <1>2

LEMMA TakeJobKeeps ==
  ASSUME HostShape, ProcessShape, Content, TakeJob
  PROVE  Content'
<1>1. /\ ~ Busy /\ handler' = handler /\ job'.step \in {"check", "record"} /\ job'.moved = 0
      /\ job'.step = "record" <=> handler[job'.by].enable
      /\ job'.by \in Handlers
  BY TakeKeeps
<1>2. UNCHANGED <<record, host, history>>
  BY DEF TakeJob
<1>3. /\ Enabled' = Enabled /\ EnabledIds' = EnabledIds
      /\ \A s \in Sources : UnitsMatch(s)' <=> UnitsMatch(s)
  BY <1>2, SameRecord DEF record, host
<1>4. Enable' <=> job'.step = "record"
  BY <1>1 DEF Enable, By
<1>5. job'.step = "record" => By'.dest = None
  BY <1>1 DEF By, ProcessShape
<1>6. /\ conf' = conf /\ served' = served /\ setup' = setup /\ unfinished' = unfinished
      /\ lastFailed' = lastFailed /\ overtaken' = overtaken
  BY <1>2 DEF record, host, history
<1>7. AnotherStays'
  BY <1>1, <1>3, <1>4, <1>6 DEF Content, AnotherStays, Applying
<1>8. ConfInv'
  BY <1>1, <1>3, <1>6 DEF Content, ConfInv, Busy, Applying
<1>9. UnitsInv'
  BY <1>1, <1>3, <1>6 DEF Content, UnitsInv, Busy, Applying
<1>10. SetupInv'
  BY <1>1, <1>3, <1>6 DEF Content, SetupInv, Busy
<1>11. ListenersInv'
  BY <1>1, <1>5 DEF ListenersInv, Applying
<1>12. QED
  BY <1>7, <1>8, <1>9, <1>10, <1>11 DEF Content

LEMMA InitContent == ASSUME Init PROVE Content /\ Unrecorded
<1>1. PICK ids \in Configured :
        /\ conf = ids /\ served = ids
        /\ unit = [u \in Units |-> \E s \in ids : u \in ToSet(UnitsOf[s])]
        /\ recorded \in {None, ids \cup Retired}
        /\ setup \in SUBSET (ids \cap Enabled \cap SetupSources)
  BY DEF Init
<1>2. ids \subseteq Sources /\ ids # {}
  <2>1. ids \in (SUBSET Sources) \ {{}}
    BY ToggleAssumption
  <2>2. QED
    BY <2>1
<1>3. job.step = "none" /\ job.moved = 0 /\ \A h \in Handlers : handler[h].at = "new"
  BY DEF Init, NoJob, Blank
<1>4. EnabledIds = ids \/ EnabledIds = {Default}
  BY <1>1, <1>2, Catalogued DEF EnabledIds, Enabled
<1>5. AnotherStays /\ ListenersInv
  BY <1>1, <1>2, <1>3, <1>4 DEF AnotherStays, ListenersInv, Applying
<1>6. ConfInv
  BY <1>1, <1>3 DEF Init, ConfInv
<1>7. UnitsInv
  BY <1>3 DEF Init, UnitsInv
<1>8. setup \subseteq EnabledIds
  BY <1>1, <1>2 DEF EnabledIds
<1>9. SetupInv
  BY <1>3, <1>8 DEF SetupInv
<1>10. Unrecorded
  <2>1. ASSUME NEW s \in Sources, NEW u \in ToSet(UnitsOf[s]) PROVE unit[u] = (s \in conf)
    <3>1. u \in Units
      BY DEF Units
    <3>2. (\E t \in ids : u \in ToSet(UnitsOf[t])) <=> s \in conf
      BY <1>1, <1>2, Catalogued
    <3>3. unit[u] = IF \E t \in ids : u \in ToSet(UnitsOf[t]) THEN TRUE ELSE FALSE
      BY <1>1, <3>1
    <3>4. CASE s \in conf
      BY <3>2, <3>3, <3>4
    <3>5. CASE s \notin conf
      <4>1. unit[u] = FALSE
        BY <3>2, <3>3, <3>5
      <4>2. (s \in conf) = FALSE
        BY <3>5
      <4>3. QED
        BY <4>1, <4>2, Zenon
    <3>6. QED
      BY <3>4, <3>5
  <2>2. recorded = None => setup \subseteq conf \cap {Default}
    BY <1>1 DEF Enabled
  <2>3. QED
    BY <1>1, <1>3, <2>1, <2>2 DEF Init, Unrecorded
<1>11. QED
  BY <1>5, <1>6, <1>7, <1>9, <1>10 DEF Content

-----------------------------------------------------------------------------
(* While nothing is recorded. *)

(* Nothing has run that changes what the device serves. *)
LEMMA StillUnrecorded ==
  ASSUME Unrecorded, recorded' = None => recorded = None,
         recorded = None =>
           /\ UNCHANGED <<setup, conf, unit>> /\ served' \in {served, conf} /\ claiming' \subseteq claiming
           /\ job'.step \in {"none", "record"}
           /\ \A h \in Handlers :
                \/ handler'[h] = handler[h]
                \/ /\ handler'[h].at \notin {"ask", "dialog"}
                   /\ handler'[h].at = "queued" => handler'[h].enable /\ handler'[h].source # Default
  PROVE  Unrecorded'
BY DEF Unrecorded

LEMMA HandlersUnrecorded ==
  ASSUME HostShape, ProcessShape, Unrecorded, NEW h \in Handlers,
         \/ \E s \in Sources, enable \in BOOLEAN : Click(h, s, enable)
         \/ HandlerStep(h) \/ Confirm(h) \/ Dismiss(h)
  PROVE  Unrecorded'
<1>1. UNCHANGED <<record, host, job>>
  BY DEF Click, HandlerStep, NobodyListens, OpenDialog, Settle, SettleRaises, Confirm, Dismiss
<1>2. handler \in [Handlers -> Handling]
  BY DEF ProcessShape
<1>3. SUFFICES ASSUME recorded = None
               PROVE  \E r \in Handling :
                        /\ handler' = [handler EXCEPT ![h] = r]
                        /\ r.at \notin {"ask", "dialog"}
                        /\ r.at = "queued" => r.enable /\ r.source # Default
  BY <1>1, <1>2, StillUnrecorded DEF record, host, Unrecorded
<1>4. \A at \in {"end", "raised"} : Blank(at) \in Handling /\ Blank(at).at = at
  BY DEF Blank, Handling, Stages, Chosen
<1>5. handler[h].at \notin {"ask", "dialog"}
  BY <1>3 DEF Unrecorded
<1>6. CASE EndHandler(h) \/ SettleRaises(h)
  BY <1>4, <1>6 DEF EndHandler, SettleRaises
<1>7. ASSUME NEW s \in Sources, NEW enable \in BOOLEAN, Click(h, s, enable), ~ EndHandler(h)
      PROVE  \E r \in Handling :
               /\ handler' = [handler EXCEPT ![h] = r]
               /\ r.at \notin {"ask", "dialog"}
               /\ r.at = "queued" => r.enable /\ r.source # Default
  <2> DEFINE r == [handler[h] EXCEPT !.source = s, !.enable = enable, !.at = "queued"]
  <2>1. handler[h] \in Handling
    BY <1>2
  <2>2. r \in Handling /\ r.at = "queued" /\ r.source = s /\ r.enable = enable
    BY <2>1 DEF Handling, Chosen, Stages
  <2>3. enable = (s # Default)
    BY <1>3, <1>7 DEF Click, Asked, Enabled
  <2>4. enable
    <3>1. Remaining(Default) = {}
      BY <1>3 DEF Remaining, EnabledIds, Enabled
    <3>2. QED
      BY <1>7, <2>3, <3>1 DEF Click
  <2>5. handler' = [handler EXCEPT ![h] = r]
    BY <1>2, <1>7, <2>4 DEF Click, Handling
  <2> HIDE DEF r
  <2>6. QED
    BY <2>2, <2>3, <2>4, <2>5
<1>8. QED
  BY <1>5, <1>6, <1>7 DEF HandlerStep, NobodyListens, OpenDialog, Settle, SettleRaises, Confirm, Dismiss

LEMMA UnrecordedKept ==
  ASSUME IInv, [Next]_vars
  PROVE  Unrecorded'
<1> USE DEF IInv
<1>1. CASE Load
  BY <1>1, StillUnrecorded DEF Load, setups, host, Unrecorded
<1>2. CASE BrokerRefresh
  BY <1>2, StillUnrecorded DEF BrokerRefresh, record, host, Unrecorded
<1>3. ASSUME NEW h \in Handlers,
             \/ \E s \in Sources, enable \in BOOLEAN : Click(h, s, enable)
             \/ HandlerStep(h) \/ Confirm(h) \/ Dismiss(h)
      PROVE  Unrecorded'
  BY <1>3, HandlersUnrecorded
<1>4. ASSUME NEW g \in Groups, NEW s \in Sources, MoveGroup(g, s) PROVE Unrecorded'
  BY <1>4, StillUnrecorded DEF MoveGroup, record, Unrecorded
<1>5. CASE TakeJob
  <2>1. /\ handler' = handler /\ job'.by \in Handlers
        /\ job'.step \in {"check", "record"} /\ (job'.step = "record" <=> handler[job'.by].enable)
        /\ \E i \in 1..Len(queue) : job'.by = queue[i]
    BY <1>5, TakeKeeps
  <2>2. handler[job'.by].at = "queued"
    BY <2>1 DEF ProcessShape
  <2>3. UNCHANGED <<record, host>>
    BY <1>5 DEF TakeJob
  <2>4. recorded = None => job'.step = "record"
    BY <2>1, <2>2 DEF Unrecorded
  <2>5. QED
    BY <2>1, <2>3, <2>4, StillUnrecorded DEF record, host
<1>6. CASE Record
  BY <1>6, RecordChanges DEF Unrecorded
<1>7. CASE WorkerStep /\ ~ TakeJob /\ ~ Record
  <2>1. job.step \notin {"none", "record"} /\ recorded' = recorded
    BY <1>7 DEF WorkerStep, Check, Reassign, ReassignRefused, ClearSetup, WriteConf, MoveUnit, Restart, record
  <2>2. QED
    BY <2>1 DEF Unrecorded
<1>8. CASE StepFails
  <2>1. /\ job'.step = "none" /\ UNCHANGED record
        /\ job.step = "record" => UNCHANGED host
        /\ job.step # "none"
    BY <1>8 DEF StepFails, Return, NoJob
  <2>2. \A h \in Handlers : handler'[h] = handler[h] \/ handler'[h].at = "end"
    BY <1>8 DEF StepFails, Return, Blank, ProcessShape
  <2>3. QED
    BY <2>1, <2>2, StillUnrecorded DEF record, host, Unrecorded
<1>9. CASE SnapserverReady
  BY <1>9, StillUnrecorded DEF SnapserverReady, record, Unrecorded
<1>10. CASE Kill
  <2>1. job'.step = "none" /\ \A h \in Handlers : handler'[h].at \in {"new", "end"}
    BY <1>10, GoneKeeps DEF Kill, ProcessGone, NoJob
  <2>2. /\ UNCHANGED <<recorded, setup>> /\ claiming' = {}
        /\ conf' = conf /\ unit' = unit /\ served' \in {served, conf}
    BY <1>10 DEF Kill, ProcessGone, RestartSnapserver
  <2>3. QED
    BY <2>1, <2>2, StillUnrecorded
<1>11. CASE Reprovision
  <2>1. job'.step = "none" /\ \A h \in Handlers : handler'[h].at \in {"new", "end"}
    BY <1>11, GoneKeeps DEF Reprovision, ProcessGone, NoJob
  <2>2. /\ recorded' = recorded /\ setup' = setup /\ claiming' = {}
        /\ conf' = EnabledIds /\ served' = EnabledIds
    BY <1>11 DEF Reprovision, ProcessGone, Rendered, EnabledIds
  <2>3. recorded = None => EnabledIds = {Default} /\ Enabled = {Default}
    BY Catalogued DEF EnabledIds, Enabled
  <2>4. \A s \in Sources : \A u \in ToSet(UnitsOf[s]) : unit'[u] = (s \in Enabled)
    BY <1>11, RenderedUnits DEF Reprovision
  <2>5. recorded = None => \A s \in Sources : \A u \in ToSet(UnitsOf[s]) : unit'[u] = (s \in conf')
    BY <2>2, <2>3, <2>4
  <2>6. QED
    BY <2>1, <2>2, <2>3, <2>5 DEF Unrecorded
<1>12. ASSUME NEW s \in SetupSources, Claim(s) \/ SetSetupComplete(s) PROVE Unrecorded'
  <2>1. recorded' = recorded
    BY <1>12 DEF Claim, SetSetupComplete
  <2>2. recorded = None => EnabledIds \subseteq {Default} /\ claiming = {}
    BY DEF EnabledIds, Enabled, Unrecorded
  <2>3. recorded # None
    BY <1>12, <2>2, Catalogued DEF Claim, SetSetupComplete
  <2>4. QED
    BY <2>1, <2>3 DEF Unrecorded
<1>13. CASE UNCHANGED vars
  BY <1>13 DEF vars, Unrecorded
<1>14. QED
  BY <1>1, <1>2, <1>3, <1>4, <1>5, <1>6, <1>7, <1>8, <1>9, <1>10, <1>11, <1>12, <1>13
     DEF Next, WorkerStep

LEMMA ContentKept ==
  ASSUME IInv, [Next]_vars
  PROVE  Content'
<1> USE DEF IInv
<1>0. Content
  BY DEF Content
<1>1. CASE Load
  BY <1>0, <1>1, LoadKeeps
<1>2. CASE BrokerRefresh
  BY <1>0, <1>2, Framed DEF BrokerRefresh, record, host
<1>3. ASSUME NEW h \in Handlers,
             \/ \E s \in Sources, enable \in BOOLEAN : Click(h, s, enable)
             \/ HandlerStep(h) \/ Confirm(h) \/ Dismiss(h)
      PROVE  Content'
  <2>1. UNCHANGED <<record, host, job, history>>
    BY <1>3 DEF Click, HandlerStep, NobodyListens, OpenDialog, Settle, SettleRaises, Confirm, Dismiss
  <2>2. handler[h].at # "queued"
    BY <1>3 DEF Click, HandlerStep, NobodyListens, OpenDialog, Settle, SettleRaises, Confirm, Dismiss
  <2> handler \in [Handlers -> Handling]
    BY DEF ProcessShape
  <2>3. \A i \in Handlers \ {h} : handler'[i] = handler[i]
    <3> HIDE DEF IInv
    <3>1. ASSUME NEW dest, BeginDisable(h, dest)
          PROVE  \A i \in Handlers \ {h} : handler'[i] = handler[i]
      BY <3>1 DEF BeginDisable, EndHandler, Enqueue
    <3>2. CASE \E s \in Sources, enable \in BOOLEAN : Click(h, s, enable)
      BY <3>2 DEF Click, EndHandler
    <3>3. CASE NobodyListens(h) \/ Confirm(h)
      BY <3>1, <3>3 DEF NobodyListens, Confirm
    <3>4. CASE OpenDialog(h) \/ Settle(h) \/ SettleRaises(h) \/ Dismiss(h)
      BY <3>4 DEF OpenDialog, Settle, SettleRaises, Dismiss, EndHandler
    <3>5. QED
      BY <1>3, <3>2, <3>3, <3>4 DEF HandlerStep
  <2>4. Busy => handler'[job.by] = handler[job.by]
    BY <2>2, <2>3, Served DEF By
  <2>5. QED
    BY <1>0, <2>1, <2>4, Framed DEF record, host
<1>4. ASSUME NEW g \in Groups, NEW s \in Sources, MoveGroup(g, s) PROVE Content'
  <2>1. ~ Busy
    BY <1>4 DEF MoveGroup, Idle, NoJob, Busy
  <2>2. QED
    BY <1>0, <1>4, <2>1, Framed DEF MoveGroup, record
<1>5. CASE WorkerStep
  <2>1. CASE ReassignRefused
    BY <1>0, <2>1, EndedEarly DEF ReassignRefused, Return, Applying, host
  <2>2. QED
    BY <1>0, <1>5, <2>1, TakeJobKeeps, CheckKeeps, ReassignKeeps, RecordKeeps, ClearSetupKeeps,
       WriteConfKeeps, MoveUnitKeeps, RestartKeeps DEF WorkerStep
<1>6. CASE StepFails \/ Kill \/ Reprovision
  BY <1>0, <1>6, StepFailsKeeps, KillKeeps, ReprovisionKeeps
<1>7. CASE SnapserverReady
  <2>1. UNCHANGED <<record, conf, unit, served, job, handler, history>> /\ ~ up
    BY <1>7 DEF SnapserverReady
  <2>2. /\ Enabled' = Enabled /\ EnabledIds' = EnabledIds
        /\ \A s \in Sources : UnitsMatch(s)' <=> UnitsMatch(s)
    BY <2>1, SameRecord DEF record
  <2>3. By' = By /\ Source' = Source /\ Enable' = Enable
    BY <2>1 DEF By, Source, Enable
  <2>4. AnotherStays' /\ ConfInv'
    BY <1>0, <2>1, <2>2, <2>3 DEF Content, AnotherStays, ConfInv, history, record
  <2>5. UnitsInv' /\ SetupInv'
    BY <1>0, <2>1, <2>2, <2>3 DEF Content, UnitsInv, SetupInv, history, record
  <2>6. ListenersInv'
    BY <1>0, <2>1, <2>3 DEF Content, ListenersInv
  <2>7. QED
    BY <2>4, <2>5, <2>6 DEF Content
<1>8. ASSUME NEW s \in SetupSources, Claim(s) \/ SetSetupComplete(s) PROVE Content'
  BY <1>0, <1>8, ClaimKeeps
<1>9. CASE UNCHANGED vars
  BY <1>0, <1>9, Framed DEF vars, history
<1>10. QED
  BY <1>1, <1>2, <1>3, <1>4, <1>5, <1>6, <1>7, <1>8, <1>9 DEF Next

LEMMA Invariance == Spec => []IInv
<1>1. Init => IInv
  BY InitShape, InitContent DEF IInv, Content
<1>2. IInv /\ [Next]_vars => IInv'
  <2>1. SUFFICES ASSUME IInv, [Next]_vars PROVE IInv'
    OBVIOUS
  <2>2. HostShape' /\ ProcessShape'
    BY <2>1, HostShapeKept, ProcessShapeKept DEF IInv
  <2>3. Unrecorded' /\ Content'
    BY <2>1, UnrecordedKept, ContentKept
  <2>4. QED
    BY <2>2, <2>3 DEF IInv, Content
<1>3. QED
  BY <1>1, <1>2, PTL DEF Spec

-----------------------------------------------------------------------------
(* Every variable has its shape, and exactly the handlers whose write is    *)
(* queued or under way wait for one (_enable_source, _disable_source).      *)
THEOREM TypeCorrect == Spec => []TypeOK
<1>1. IInv => TypeOK
  <2>1. SUFFICES ASSUME IInv PROVE TypeOK
    OBVIOUS
  <2>2. \A h \in Handlers : h \in ToSet(queue) <=> \E i \in 1..Len(queue) : queue[i] = h
    BY <2>1 DEF IInv, ProcessShape, ToSet
  <2>3. Idle <=> ~ Busy
    BY <2>1 DEF IInv, ProcessShape, Idle, Busy, NoJob
  <2>4. \A h \in Handlers :
          handler[h].at = "queued" <=> h \in ToSet(queue) \/ (~ Idle /\ job.by = h)
    BY <2>1, <2>2, <2>3 DEF IInv, ProcessShape
  <2>5. job.step \in Steps
    BY <2>1 DEF IInv, ProcessShape, Jobs
  <2>6. QED
    BY <2>1, <2>4, <2>5 DEF IInv, HostShape, TypeOK, Ids
<1>2. QED
  BY <1>1, Invariance, PTL

(* Whatever is toggled in however many browsers, and whatever fails or is   *)
(* killed on the way, a catalogued source stays enabled, and the conf and   *)
(* Snapserver have a stream: only the check inside the queue decides        *)
(* (_disable_source_write), and no other write comes before it records.     *)
THEOREM OneSourceStays == Spec => []OneSourceStaysEnabled
<1>1. IInv => OneSourceStaysEnabled
  BY DEF IInv, AnotherStays, OneSourceStaysEnabled
<1>2. QED
  BY <1>1, Invariance, PTL

(* Between two writes the conf names exactly the enabled sources and        *)
(* Snapserver runs with it, unless the last write failed after it had       *)
(* recorded its intent (toggle.apply renders from the set just recorded).   *)
THEOREM ServedAsRecorded == Spec => []ServedMatchesRecord
<1>1. IInv => ServedMatchesRecord
  BY DEF IInv, ConfInv, ServedMatchesRecord, Idle, NoJob, Applying
<1>2. QED
  BY <1>1, Invariance, PTL

(* Between two writes the units of every source run exactly when it is      *)
(* enabled, except for sources whose own last toggle failed half-way; an    *)
(* adopted set (adopt_running_sources) is one whose units match.            *)
THEOREM UnitsAsRecorded == Spec => []UnitsMatchRecord
<1>1. IInv => UnitsMatchRecord
  BY DEF IInv, UnitsInv, UnitsMatchRecord, Idle, NoJob, Applying
<1>2. QED
  BY <1>1, Invariance, PTL

(* Whatever fails, is killed or is reprovisioned, and in whatever order     *)
(* claims and toggles write: between two writes a disabled source has a     *)
(* setup record only if its disable was cut short before _record_disabled   *)
(* discarded it, or if a claim that it overtook recorded it anew            *)
(* (set_setup_complete, beside the queue) and no disable has come since.    *)
THEOREM SetupIsDiscarded == Spec => []SetupDiscarded
<1>1. IInv => SetupDiscarded
  BY DEF IInv, SetupInv, SetupDiscarded, Idle, NoJob
<1>2. QED
  BY <1>1, Invariance, PTL

(* From the moment a disable with a destination records its intent, nobody  *)
(* listens to the source: reassignment is the only abort point.             *)
THEOREM ListenersAreMovedFirst == Spec => []ListenersMovedFirst
<1>1. IInv => ListenersMovedFirst
  BY DEF IInv, ListenersInv, ListenersMovedFirst, Source, Applying
<1>2. QED
  BY <1>1, Invariance, PTL
=============================================================================
