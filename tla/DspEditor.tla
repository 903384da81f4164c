------------------------------ MODULE DspEditor ------------------------------
(***************************************************************************)
(* The parametric-EQ of one player: the editor pages any number of browsers*)
(* have open on it (audera/ui/streamer/pages/dsp.py), its saved            *)
(* configuration (audera/dal/dsp.py), the pipeline its CamillaDSP daemon   *)
(* runs, and the re-push after the player reconnects                       *)
(* (audera/ui/streamer/broker.py, _resync_dsp).                            *)
(*                                                                         *)
(* Save submits three commands one after another; commands of all pages    *)
(* and of the broker run one at a time in submission order                 *)
(* (SerialExecutor), in a thread.  A command gets the editor's working copy*)
(* by reference: the thread reads it while the loop goes on editing it.    *)
(*                                                                         *)
(* Data abstraction.  `bands` stands for everything the user edits.        *)
(* auto_preamp_db is a function of the bands, so that `preamp` is the value*)
(* of bands it was computed from: the pipeline is protected against        *)
(* clipping when preamp = bands.                                           *)
(***************************************************************************)
EXTENDS Naturals, Sequences

CONSTANTS
  Pages,        (* the editor pages open on the player, in any browser      *)
  Bands,        (* values of everything the editor edits                    *)
  Invalid,      (* those the daemon's ValidateConfig refuses                *)
  Flat,         (* no bands: the default                                    *)
  Stored,       (* what the configuration file may hold at the start        *)
  None,         (* no file, or no value                                     *)
  Unreadable,   (* a file that does not parse as a DSPConfig                *)
  Empty,        (* the pipeline a provisioned daemon starts with            *)
  MaxSaves,     (* bound on the clicks on Save                              *)
  MaxEdits,     (* bound on the edits and resets                            *)
  MaxConnects,  (* bound on the reconnects of the player                    *)
  MaxUpsets     (* bound on failed calls, files that become unreadable and  *)
                (* kills together                                           *)

Saves == 1..MaxSaves
Configs == [bands : Bands, preamp : Bands]
NoFile == {None, Unreadable}

ASSUME DspAssumption ==
  /\ Flat \in Bands \ Invalid
  /\ Invalid \subseteq Bands
  /\ None # Unreadable
  /\ NoFile \cap Configs = {} /\ Empty \notin Configs
  /\ None \notin Pages
  /\ Stored \subseteq Configs \cup NoFile
  /\ {MaxSaves, MaxEdits, MaxConnects, MaxUpsets} \subseteq Nat

VARIABLES
  disk,         (* dsp/{player_id}.json                                     *)
  live,         (* the pipeline of the daemon                               *)
  page,         (* [open, staged, saved] of each page                       *)
  marking,      (* the page whose handler has changed its bands and has not *)
                (* set the new pre-amp yet: the loop is busy                *)
  save,         (* [at, page, own] of each click on Save                    *)
  queue,        (* the command queue                                        *)
  job,          (* the command in the thread, and what it has read          *)
  announced,    (* a Client.OnConnect the reader has not handled            *)
  left,         (* what is left of each bound                               *)
  disturbed     (* history: what happened while each save was under way     *)

vars == <<disk, live, page, marking, save, queue, job, announced, left, disturbed>>

Protected(b) == [bands |-> b, preamp |-> b]
Closed == [open |-> FALSE, staged |-> Protected(Flat), saved |-> Protected(Flat)]
NotClicked == [at |-> "new", page |-> None, own |-> None]
NoJob == [kind |-> "none", by |-> 0, at |-> "none", conf |-> Protected(Flat)]
Idle == job = NoJob

Init ==
  /\ disk \in Stored
  /\ live \in {Empty} \cup ({disk} \ NoFile)
  /\ live # Empty => live.bands \notin Invalid
  /\ page = [p \in Pages |-> Closed]
  /\ marking = None
  /\ save = [s \in Saves |-> NotClicked]
  /\ queue = <<>>
  /\ job = NoJob
  /\ announced = FALSE
  /\ left = [edits |-> MaxEdits, connects |-> MaxConnects, upsets |-> MaxUpsets]
  /\ disturbed = [s \in Saves |-> {}]

Spend(what) == left[what] > 0 /\ left' = [left EXCEPT ![what] = @ - 1]

(* The loop is free to run another callback.                                *)
LoopFree == marking = None

InFlight(s) == save[s].at \notin {"new", "end"}

Disturb(kind, ss) ==
  disturbed' = [s \in Saves |-> IF s \in ss /\ InFlight(s) THEN disturbed[s] \cup {kind}
                                ELSE disturbed[s]]

Resyncing == job.kind = "resync" \/ \E i \in DOMAIN queue : queue[i].kind = "resync"

-----------------------------------------------------------------------------
(* The pages.                                                               *)

(* render: get_or_create writes the default when there is no file, and      *)
(* returns it without writing when the file is unreadable.  The pre-amp is  *)
(* computed afresh.                                                         *)
Open(p) ==
  LET seed == IF disk \in NoFile THEN Flat ELSE disk.bands IN
  /\ LoopFree
  /\ ~ page[p].open
  /\ disk' = IF disk = None THEN Protected(Flat) ELSE disk
  /\ page' = [page EXCEPT ![p] = [open |-> TRUE, staged |-> Protected(seed),
                                  saved |-> Protected(seed)]]
  /\ UNCHANGED <<live, marking, save, queue, job, announced, left, disturbed>>

SavesOf(p) == {s \in Saves : save[s].page = p}

(* A field, a band, a preset or an import changes the working copy in       *)
(* place ...                                                                *)
Edit(p, b) ==
  /\ LoopFree /\ page[p].open
  /\ page[p].staged.bands # b
  /\ page' = [page EXCEPT ![p].staged.bands = b]
  /\ marking' = p
  /\ Spend("edits")
  /\ Disturb("edit", SavesOf(p))
  /\ UNCHANGED <<disk, live, save, queue, job, announced>>

(* Slip: the pre-amp follows the bands only at the next change.             *)
MarkNothing ==
  /\ marking # None
  /\ marking' = None
  /\ UNCHANGED <<disk, live, page, save, queue, job, announced, left, disturbed>>

(* ... and the same callback goes on to _mark_changed.  auto_preamp_db      *)
(* raises for some bands the daemon would refuse, e.g. for a Q of 0.        *)
MarkChanged ==
  /\ marking # None
  /\ \E preamp \in {page[marking].staged.bands}
                   \cup {page[marking].staged.preamp : b \in {page[marking].staged.bands} \cap Invalid} :
       page' = [page EXCEPT ![marking].staged.preamp = preamp]
  /\ marking' = None
  /\ UNCHANGED <<disk, live, save, queue, job, announced, left, disturbed>>

(* The commands in flight keep the object that is replaced.                 *)
Detached(p) ==
  [s \in Saves |-> IF s \in SavesOf(p) /\ InFlight(s) /\ save[s].own = None
                   THEN [save[s] EXCEPT !.own = page[p].staged] ELSE save[s]]

(* _on_reset makes a new working copy, even of an unchanged one.            *)
Reset(p) ==
  /\ LoopFree /\ page[p].open
  /\ page' = [page EXCEPT ![p].staged = page[p].saved]
  /\ save' = Detached(p)
  /\ Spend("edits")
  /\ Disturb("edit", SavesOf(p))
  /\ UNCHANGED <<disk, live, marking, queue, job, announced>>

(* Slip: a command replaces the queued ones of its kind.                    *)
SubmitReplacing(kind, s) ==
  queue' = Append(SelectSeq(queue, LAMBDA c : c.kind # kind), [kind |-> kind, by |-> s])

Submit(kind, s) == queue' = Append(queue, [kind |-> kind, by |-> s])

(* _on_save, up to its first await.  Nothing keeps another click out.       *)
ClickSave(p) ==
  /\ LoopFree /\ page[p].open
  /\ \E s \in Saves :
       /\ save[s].at = "new"
       /\ \A t \in Saves : t < s => save[t].at # "new"
       /\ save' = [save EXCEPT ![s] = [at |-> "push", page |-> p, own |-> None]]
       /\ disturbed' = [t \in Saves |->
            disturbed[t]
              \cup {k \in {"save"} : t # s /\ InFlight(t)}
              \cup {k \in {"save"} : t = s /\ \E u \in Saves : InFlight(u)}
              \cup {k \in {"resync"} : t = s /\ (announced \/ Resyncing)}
              \cup {k \in {"file"} : t = s /\ disk = Unreadable}]
       /\ Submit("push", s)
  /\ UNCHANGED <<disk, live, page, marking, job, announced, left>>

(* _on_save resumes: the next command takes the working copy of that moment.*)
Resume(s, from, kind) ==
  /\ LoopFree
  /\ save[s].at = from
  /\ save' = [save EXCEPT ![s].at = kind, ![s].own = None]
  /\ Submit(kind, s)
  /\ UNCHANGED <<disk, live, page, marking, job, announced, left, disturbed>>

ResumePushed(s) == Resume(s, "pushed", "persist")
ResumePersisted(s) == Resume(s, "persisted", "clear")

(* The working copy of that moment is taken for saved.                      *)
ReportSaved(s) ==
  /\ LoopFree
  /\ save[s].at = "cleared"
  /\ save' = [save EXCEPT ![s].at = "end"]
  /\ page' = [page EXCEPT ![save[s].page].saved = page[save[s].page].staged]
  /\ UNCHANGED <<disk, live, marking, queue, job, announced, left, disturbed>>

-----------------------------------------------------------------------------
(* The player and the broker.                                               *)

(* The player reconnects, perhaps provisioned afresh.                       *)
Reconnect ==
  /\ live' \in {live, Empty}
  /\ announced' = TRUE
  /\ Spend("connects")
  /\ Disturb("resync", Saves)
  /\ UNCHANGED <<disk, page, marking, save, queue, job>>

(* Slip: the re-push is left out while the queue is busy.                   *)
SubmitResyncWhenIdle ==
  /\ LoopFree
  /\ announced /\ ~ Resyncing
  /\ announced' = FALSE
  /\ queue' = IF Idle THEN Append(queue, [kind |-> "resync", by |-> 0]) ELSE queue
  /\ UNCHANGED <<disk, live, page, marking, save, job, left, disturbed>>

(* The reader handles Client.OnConnect, and waits for the command before it *)
(* handles another: there is never a second one to coalesce.                *)
SubmitResync ==
  /\ LoopFree
  /\ announced /\ ~ Resyncing
  /\ announced' = FALSE
  /\ Submit("resync", 0)
  /\ UNCHANGED <<disk, live, page, marking, save, job, left, disturbed>>

-----------------------------------------------------------------------------
(* The commands, step by step.                                              *)

(* The working copy a command of save s was submitted with.                 *)
Copy(s) == IF save[s].own = None THEN page[save[s].page].staged ELSE save[s].own

FirstStep(kind) ==
  CASE kind = "push" -> "preamp"
    [] kind = "resync" -> "read"
    [] kind \in {"persist", "clear"} -> kind

(* Slip: the command stays in the queue.                                    *)
PeekCommand ==
  /\ Idle /\ queue # <<>>
  /\ job' = [NoJob EXCEPT !.kind = Head(queue).kind, !.by = Head(queue).by,
                          !.at = FirstStep(Head(queue).kind)]
  /\ UNCHANGED <<disk, live, page, marking, save, queue, announced, left, disturbed>>

TakeCommand ==
  /\ Idle /\ queue # <<>>
  /\ queue' = Tail(queue)
  /\ job' = [NoJob EXCEPT !.kind = Head(queue).kind, !.by = Head(queue).by,
                          !.at = FirstStep(Head(queue).kind)]
  /\ UNCHANGED <<disk, live, page, marking, save, announced, left, disturbed>>

(* The command ends and its future is resolved.                             *)
Return(at) ==
  /\ job' = NoJob
  /\ save' = IF job.kind = "resync" THEN save ELSE [save EXCEPT ![job.by].at = at]

(* compile_pipeline reads the pre-amp of the working copy, then its bands.  *)
ReadPreamp ==
  /\ job.at = "preamp"
  /\ job' = [job EXCEPT !.at = "bands", !.conf.preamp = Copy(job.by).preamp]
  /\ UNCHANGED <<disk, live, page, marking, save, queue, announced, left, disturbed>>

ReadBands ==
  /\ job.at = "bands"
  /\ job' = [job EXCEPT !.at = "validate", !.conf.bands = Copy(job.by).bands]
  /\ UNCHANGED <<disk, live, page, marking, save, queue, announced, left, disturbed>>

(* _resync: a missing file is nothing to push, an unreadable one raises.    *)
ReadStored ==
  /\ job.at = "read"
  /\ IF disk \in NoFile THEN Return("end")
     ELSE /\ job' = [job EXCEPT !.at = "validate", !.conf = disk]
          /\ UNCHANGED save
  /\ UNCHANGED <<disk, live, page, marking, queue, announced, left, disturbed>>

(* Slip: the answer to ValidateConfig is ignored.                           *)
ValidateNothing ==
  /\ job.at = "validate"
  /\ job' = [job EXCEPT !.at = "set"]
  /\ UNCHANGED <<disk, live, page, marking, save, queue, announced, left, disturbed>>

Validate ==
  /\ job.at = "validate"
  /\ IF job.conf.bands \in Invalid THEN Return("end")
     ELSE job' = [job EXCEPT !.at = "set"] /\ UNCHANGED save
  /\ UNCHANGED <<disk, live, page, marking, queue, announced, left, disturbed>>

SetConfig ==
  /\ job.at = "set"
  /\ live' = job.conf
  /\ Return("pushed")
  /\ UNCHANGED <<disk, page, marking, queue, announced, left, disturbed>>

(* Slip: an existing file is kept.                                          *)
KeptOnDisk(c) == IF disk = None THEN c ELSE disk

(* dal.update.  get_or_create answers an unreadable file with the new       *)
(* configuration itself, which then compares equal and is not written.      *)
Updated(c) == IF disk = Unreadable THEN disk ELSE c

Persist ==
  /\ job.at = "persist"
  /\ disk' = Updated(Copy(job.by))
  /\ Return("persisted")
  /\ UNCHANGED <<live, page, marking, queue, announced, left, disturbed>>

(* reset_clipped_samples: whether it fails does not matter.                 *)
ClearClips ==
  /\ job.at = "clear"
  /\ Return("cleared")
  /\ UNCHANGED <<disk, live, page, marking, queue, announced, left, disturbed>>

(* A call to the daemon or a write raises; a SetConfigJson whose answer is  *)
(* lost has its effect all the same.                                        *)
CallFails ==
  /\ job.at \notin {"none", "clear", "bands"}
  /\ Spend("upsets")
  /\ live' \in {live} \cup {job.conf : x \in {job.at} \cap {"set"}}
  /\ Return("end")
  /\ UNCHANGED <<disk, page, marking, queue, announced, disturbed>>

(* The file is damaged, or was written by another release.                  *)
Damage ==
  /\ disk # None
  /\ disk' = Unreadable
  /\ Spend("upsets")
  /\ Disturb("file", Saves)
  /\ UNCHANGED <<live, page, marking, save, queue, job, announced>>

(* The process is killed and starts again.  Nothing is pushed then.         *)
Kill ==
  /\ Spend("upsets")
  /\ page' = [p \in Pages |-> Closed]
  /\ marking' = None
  /\ save' = [s \in Saves |-> IF InFlight(s) THEN [save[s] EXCEPT !.at = "end"] ELSE save[s]]
  /\ queue' = <<>>
  /\ job' = NoJob
  /\ announced' = FALSE
  /\ UNCHANGED <<disk, live, disturbed>>

WorkerStep ==
  \/ TakeCommand \/ ReadPreamp \/ ReadBands \/ ReadStored \/ Validate \/ SetConfig
  \/ Persist \/ ClearClips

HandlerStep(s) == ResumePushed(s) \/ ResumePersisted(s) \/ ReportSaved(s)

Next ==
  \/ \E p \in Pages : Open(p) \/ Reset(p) \/ ClickSave(p) \/ \E b \in Bands : Edit(p, b)
  \/ MarkChanged
  \/ \E s \in Saves : HandlerStep(s)
  \/ Reconnect \/ SubmitResync
  \/ WorkerStep
  \/ CallFails \/ Damage \/ Kill

Spec == Init /\ [][Next]_vars

(* Callbacks return, the loop resumes what is ready, and every command ends:*)
(* CamillaDSPClient._call has a deadline.                                   *)
FairSpec ==
  /\ Spec
  /\ WF_vars(MarkChanged) /\ WF_vars(WorkerStep) /\ WF_vars(SubmitResync)
  /\ \A s \in Saves : WF_vars(HandlerStep(s))

-----------------------------------------------------------------------------
(* Properties.                                                              *)

Stages == {"new", "push", "pushed", "persist", "persisted", "clear", "cleared", "end"}

(* Every variable has the shape the code gives it, and the command in the   *)
(* thread is the one its save waits for.                                    *)
TypeOK ==
  /\ disk \in Configs \cup NoFile
  /\ live \in Configs \cup {Empty}
  /\ page \in [Pages -> [open : BOOLEAN, staged : Configs, saved : Configs]]
  /\ marking \in Pages \cup {None}
  /\ save \in [Saves -> [at : Stages, page : Pages \cup {None}, own : Configs \cup {None}]]
  /\ job.conf \in Configs
  /\ job.kind \in {"push", "persist", "clear"} => save[job.by].at = job.kind
  /\ announced \in BOOLEAN
  /\ disturbed \in [Saves -> SUBSET {"edit", "save", "resync", "file"}]

(* "An invalid config never reaches the running graph"                      *)
(* (clients/camilladsp.py): whatever is edited, reset, saved twice or        *)
(* re-pushed while a pipeline is compiled, the daemon runs what it validated.*)
InvalidNeverLive == live # Empty => live.bands \notin Invalid

(* A save that nothing disturbed tells the truth: when it reports Saved the *)
(* daemon runs, the file holds and the page shows the same configuration,   *)
(* and it is protected against clipping.                                    *)
Agree(s) ==
  LET shown == page[save[s].page].staged IN
  live = disk /\ disk = shown /\ shown.preamp = shown.bands

CleanSaveAgrees ==
  \A s \in Saves : save[s].at = "cleared" /\ disturbed[s] = {} => Agree(s)

(* The auto-protected pre-amp is only ever wrong on the daemon because a    *)
(* configuration was edited while it was being saved, or because a file of  *)
(* an older release was pushed again after a reconnect.                     *)
ProtectedUnlessEdited ==
  live # Empty /\ live.preamp # live.bands =>
    live \in Stored \/ \E s \in Saves : "edit" \in disturbed[s]

(* Every click on Save comes to an end.                                     *)
SaveEnds == \A s \in Saves : save[s].at # "new" ~> save[s].at = "end"

Pushable == disk \notin NoFile /\ disk.bands \notin Invalid

(* A player that came back with an empty pipeline gets the saved one again, *)
(* whatever saves and edits are under way, unless a call fails or nothing   *)
(* valid is stored.                                                         *)
ResyncRestores ==
  (live = Empty /\ announced) ~> (live # Empty \/ ~ Pushable \/ left.upsets < MaxUpsets)

(* _resync_dsp (broker.py): the read and the apply run in one command "so   *)
(* the config can't be captured stale ahead of an in-flight Save's persist".*)
(* Then a save that only a re-push disturbed would leave the daemon with    *)
(* the configuration the file holds.                                        *)
ResyncNeverStale ==
  \A s \in Saves :
    (save[s].at = "cleared" /\ disturbed[s] \subseteq {"resync"} /\ ~ announced /\ ~ Resyncing)
      => live = disk

-----------------------------------------------------------------------------
(* The strengthening of InvalidNeverLive and CleanSaveAgrees that every     *)
(* action preserves.                                                        *)
Commands == {"push", "persist", "clear"}
Steps == Commands \cup {"preamp", "bands", "read", "validate", "set", "none"}

(* Each queued command of a save is the one the save waits for, and no save *)
(* has two.                                                                 *)
QueueInv ==
  /\ queue \in Seq([kind : Commands \cup {"resync"}, by : Saves \cup {0}])
  /\ \A i \in DOMAIN queue : queue[i].kind # "resync" =>
       queue[i].by \in Saves /\ save[queue[i].by].at = queue[i].kind
  /\ \A i, j \in DOMAIN queue :
       i # j /\ queue[i].kind # "resync" /\ queue[j].kind # "resync" => queue[i].by # queue[j].by

JobInv ==
  /\ job \in [kind : Commands \cup {"resync", "none"}, by : Saves \cup {0},
              at : Steps \ {"push"}, conf : Configs]
  /\ job.kind = "none" <=> job.at = "none"
  /\ job.kind = "none" => job = NoJob
  /\ job.at \in {"preamp", "bands"} => job.kind = "push"
  /\ job.at \in {"validate", "set"} => job.kind \in {"push", "resync"}
  /\ job.at = "read" => job.kind = "resync"
  /\ job.at \in {"persist", "clear"} => job.kind = job.at
  /\ job.kind \in Commands =>
       /\ job.by \in Saves /\ save[job.by].at = job.kind
       /\ \A i \in DOMAIN queue : queue[i].kind # "resync" => queue[i].by # job.by
  /\ job.at = "set" => job.conf.bands \notin Invalid

Normal(c) == c.preamp = c.bands \/ c.bands \in Invalid

PageInv ==
  /\ \A p \in Pages : Normal(page[p].saved) /\ (p # marking => Normal(page[p].staged))
  /\ \A s \in Saves : InFlight(s) => save[s].page \in Pages /\ page[save[s].page].open

(* While nothing has disturbed a save, it is alone, and what it has read,   *)
(* applied and persisted so far is what its page shows.                     *)
Undisturbed(s) ==
  LET shown == page[save[s].page].staged IN
  /\ \A t \in Saves : InFlight(t) => t = s
  /\ ~ announced /\ ~ Resyncing
  /\ disk # Unreadable
  /\ marking # save[s].page /\ save[s].own = None
  /\ job.at = "bands" => job.conf.preamp = shown.preamp
  /\ job.at \in {"validate", "set"} => job.conf = shown
  /\ save[s].at # "push" => live = shown /\ shown.bands \notin Invalid
  /\ save[s].at \in {"persisted", "clear", "cleared"} => disk = shown

CleanInv == \A s \in Saves : InFlight(s) /\ disturbed[s] = {} => Undisturbed(s)

IInv == TypeOK /\ QueueInv /\ JobInv /\ PageInv /\ InvalidNeverLive /\ CleanInv
=============================================================================
