--------------------------- MODULE DspEditorProofs ---------------------------
(***************************************************************************)
(* Proofs about DspEditor: the daemon never runs what it did not validate, *)
(* nor without its protected pre-amp unless it was edited or filed so, and *)
(* a save that nothing disturbed leaves the daemon, the file and the page  *)
(* in agreement, for any number of pages, saves, edits, reconnects and     *)
(* failures.                                                               *)
(***************************************************************************)
EXTENDS DspEditor, TLAPS

-----------------------------------------------------------------------------
(* Facts about the data.                                                    *)

(* None is neither a page nor a configuration, nor is the unreadable file.  *)
LEMMA DistinctValues ==
  /\ Flat \in Bands /\ Flat \notin Invalid
  /\ None \notin Pages /\ None \notin Configs /\ Unreadable \notin Configs
  /\ Empty \notin Configs /\ None # Unreadable
  /\ \A b \in Bands : Protected(b) \in Configs /\ Normal(Protected(b))
BY DspAssumption DEF NoFile, Protected, Normal, Configs

(* A save waits for one thing at a time.                                    *)
LEMMA CommandsAreStages ==
  /\ Commands \subseteq Stages
  /\ \A k \in Commands : k # "new" /\ k # "end" /\ k # "resync" /\ k # "none"
BY DEF Commands, Stages

(* What a queued command is.                                                *)
LEMMA QueuedCommand ==
  ASSUME IInv, NEW i \in DOMAIN queue
  PROVE  /\ queue[i] \in [kind : Commands \cup {"resync"}, by : Saves \cup {0}]
         /\ queue[i].kind # "resync" =>
              queue[i].kind \in Commands /\ queue[i].by \in Saves
              /\ save[queue[i].by].at = queue[i].kind
<1> DEFINE C == [kind : Commands \cup {"resync"}, by : Saves \cup {0}]
<1>1. queue \in Seq(C)
  BY DEF IInv, QueueInv
<1>2. queue[i] \in C
  <2> HIDE DEF C
  <2> QED
    BY <1>1
<1>3. queue[i].kind # "resync" => queue[i].by \in Saves /\ save[queue[i].by].at = queue[i].kind
  BY DEF IInv, QueueInv
<1> QED
  BY <1>2, <1>3

-----------------------------------------------------------------------------
(* The pages.                                                               *)

(* A page that opens has no save, and shows a pre-amp computed afresh.      *)
LEMMA OpenPreservesIInv ==
  ASSUME IInv, NEW p \in Pages, Open(p)
  PROVE  IInv'
<1> USE DistinctValues DEF IInv
<1> DEFINE seed == IF disk \in NoFile THEN Flat ELSE disk.bands
<1>1. seed \in Bands
  BY DEF TypeOK, Configs
<1>2. /\ page' = [page EXCEPT ![p] = [open |-> TRUE, staged |-> Protected(seed),
                                      saved |-> Protected(seed)]]
      /\ disk' = IF disk = None THEN Protected(Flat) ELSE disk
      /\ ~ page[p].open /\ marking = None
      /\ UNCHANGED <<live, marking, save, queue, job, announced, disturbed>>
  BY DEF Open, LoopFree
<1>3. \A q \in Pages : q # p => page'[q] = page[q]
  BY <1>2 DEF TypeOK
<1>4. page'[p] = [open |-> TRUE, staged |-> Protected(seed), saved |-> Protected(seed)]
  BY <1>2 DEF TypeOK
<1>5. TypeOK'
  BY <1>1, <1>2 DEF TypeOK
<1>6. QueueInv' /\ JobInv' /\ InvalidNeverLive'
  BY <1>2 DEF QueueInv, JobInv, InvalidNeverLive
<1>7. PageInv'
  <2>1. \A q \in Pages : Normal(page'[q].saved) /\ (q # marking => Normal(page'[q].staged))
    BY <1>1, <1>3, <1>4 DEF PageInv
  <2>2. \A q \in Pages : page[q].open => page'[q].open
    BY <1>3, <1>4
  <2>3. \A s \in Saves : InFlight(s) => save[s].page \in Pages /\ page'[save[s].page].open
    BY <2>2 DEF PageInv
  <2> QED
    BY <1>2, <2>1, <2>3 DEF PageInv, InFlight, Normal
<1>8. CleanInv'
  <2> SUFFICES ASSUME NEW s \in Saves, InFlight(s), disturbed[s] = {}
               PROVE  Undisturbed(s)'
    BY <1>2 DEF CleanInv, InFlight
  <2>1. Undisturbed(s) /\ save[s].page \in Pages /\ save[s].page # p
    BY <1>2 DEF CleanInv, PageInv
  <2>2. page'[save[s].page] = page[save[s].page]
    BY <2>1, <1>3
  <2>3. page[save[s].page].staged \in Configs
    BY <2>1 DEF TypeOK
  <2> QED
    BY <1>2, <2>1, <2>2, <2>3 DEF Undisturbed, InFlight, Resyncing
<1> QED
  BY <1>5, <1>6, <1>7, <1>8

(* An edit disturbs every save of its page.                                 *)
LEMMA EditPreservesIInv ==
  ASSUME IInv, NEW p \in Pages, NEW b \in Bands, Edit(p, b)
  PROVE  IInv'
<1> USE DistinctValues DEF IInv
<1>1. /\ page' = [page EXCEPT ![p].staged.bands = b]
      /\ marking = None /\ marking' = p /\ page[p].open
      /\ disturbed' = [s \in Saves |-> IF s \in SavesOf(p) /\ InFlight(s)
                                       THEN disturbed[s] \cup {"edit"} ELSE disturbed[s]]
      /\ UNCHANGED <<disk, live, save, queue, job, announced>>
  BY DEF Edit, LoopFree, Disturb
<1>2. \A q \in Pages : /\ q # p => page'[q] = page[q]
                       /\ page'[q].open = page[q].open /\ page'[q].saved = page[q].saved
  BY <1>1 DEF TypeOK
<1>3. TypeOK'
  BY <1>1 DEF TypeOK, Configs
<1>4. QueueInv' /\ JobInv' /\ InvalidNeverLive'
  BY <1>1 DEF QueueInv, JobInv, InvalidNeverLive
<1>5. PageInv'
  BY <1>1, <1>2 DEF PageInv, InFlight, Normal
<1>6. CleanInv'
  <2> SUFFICES ASSUME NEW s \in Saves, InFlight(s), disturbed'[s] = {}
               PROVE  Undisturbed(s)'
    BY <1>1 DEF CleanInv, InFlight
  <2>1. s \notin SavesOf(p) /\ disturbed[s] = {}
    BY <1>1
  <2>2. Undisturbed(s) /\ save[s].page \in Pages /\ save[s].page # p
    BY <2>1 DEF CleanInv, PageInv, SavesOf
  <2> QED
    BY <1>1, <1>2, <2>2 DEF Undisturbed, InFlight, Resyncing
<1> QED
  BY <1>3, <1>4, <1>5, <1>6

(* The pre-amp follows the bands, or these are refused.                     *)
LEMMA MarkChangedPreservesIInv ==
  ASSUME IInv, MarkChanged
  PROVE  IInv'
<1> USE DistinctValues DEF IInv
<1>1. /\ marking \in Pages /\ marking' = None
      /\ UNCHANGED <<disk, live, save, queue, job, announced, disturbed>>
  BY DEF MarkChanged, TypeOK
<1>2. PICK preamp \in Bands :
        /\ page' = [page EXCEPT ![marking].staged.preamp = preamp]
        /\ preamp = page[marking].staged.bands \/ page[marking].staged.bands \in Invalid
  <2>1. page[marking].staged.bands \in Bands /\ page[marking].staged.preamp \in Bands
    BY <1>1 DEF TypeOK, Configs
  <2>2. PICK preamp \in {page[marking].staged.bands}
                        \cup {page[marking].staged.preamp :
                                b \in {page[marking].staged.bands} \cap Invalid} :
          page' = [page EXCEPT ![marking].staged.preamp = preamp]
    BY DEF MarkChanged
  <2>3. preamp \in Bands
        /\ (preamp = page[marking].staged.bands \/ page[marking].staged.bands \in Invalid)
    BY <2>1, <2>2
  <2> QED
    BY <2>2, <2>3
<1>3. \A q \in Pages : /\ q # marking => page'[q] = page[q]
                       /\ page'[q].open = page[q].open /\ page'[q].saved = page[q].saved
  BY <1>1, <1>2 DEF TypeOK
<1>4. Normal(page'[marking].staged)
  BY <1>1, <1>2 DEF TypeOK, Configs, Normal
<1>5. TypeOK'
  BY <1>1, <1>2 DEF TypeOK, Configs
<1>6. QueueInv' /\ JobInv' /\ InvalidNeverLive'
  BY <1>1 DEF QueueInv, JobInv, InvalidNeverLive
<1>7. PageInv'
  BY <1>1, <1>3, <1>4 DEF PageInv, InFlight, Normal
<1>8. CleanInv'
  <2> SUFFICES ASSUME NEW s \in Saves, InFlight(s), disturbed[s] = {}
               PROVE  Undisturbed(s)'
    BY <1>1 DEF CleanInv, InFlight
  <2>1. Undisturbed(s) /\ save[s].page \in Pages
    BY DEF CleanInv, PageInv
  <2>2. page'[save[s].page] = page[save[s].page]
    BY <1>3, <2>1 DEF Undisturbed
  <2> QED
    BY <1>1, <2>1, <2>2 DEF Undisturbed, InFlight, Resyncing
<1> QED
  BY <1>5, <1>6, <1>7, <1>8

(* A reset disturbs every save of its page.                                 *)
LEMMA ResetPreservesIInv ==
  ASSUME IInv, NEW p \in Pages, Reset(p)
  PROVE  IInv'
<1> USE DistinctValues DEF IInv
<1>1. /\ page' = [page EXCEPT ![p].staged = page[p].saved]
      /\ save' = Detached(p)
      /\ marking = None /\ page[p].open
      /\ disturbed' = [s \in Saves |-> IF s \in SavesOf(p) /\ InFlight(s)
                                       THEN disturbed[s] \cup {"edit"} ELSE disturbed[s]]
      /\ UNCHANGED <<disk, live, marking, queue, job, announced>>
  BY DEF Reset, LoopFree, Disturb
<1>2. \A q \in Pages : /\ q # p => page'[q] = page[q]
                       /\ page'[q].open = page[q].open /\ page'[q].saved = page[q].saved
                       /\ page'[q].staged \in {page[q].staged, page[q].saved}
  BY <1>1 DEF TypeOK
<1>3. \A s \in Saves : /\ save'[s].at = save[s].at /\ save'[s].page = save[s].page
                       /\ s \notin SavesOf(p) => save'[s] = save[s]
  BY <1>1 DEF Detached, TypeOK
<1>4. TypeOK'
  <2>1. \A s \in Saves : save'[s] \in [at : Stages, page : Pages \cup {None}, own : Configs \cup {None}]
    BY <1>1 DEF Detached, TypeOK
  <2>2. save' = [s \in Saves |-> save'[s]]
    BY <1>1 DEF Detached
  <2>3. page' \in [Pages -> [open : BOOLEAN, staged : Configs, saved : Configs]]
    BY <1>1 DEF TypeOK
  <2>4. disturbed' \in [Saves -> SUBSET {"edit", "save", "resync", "file"}]
    BY <1>1 DEF TypeOK
  <2>5. job.kind \in {"push", "persist", "clear"} => save'[job.by].at = job.kind
    BY <1>3 DEF JobInv, Commands, TypeOK
  <2> QED
    BY <1>1, <2>1, <2>2, <2>3, <2>4, <2>5 DEF TypeOK
<1>5. QueueInv' /\ JobInv' /\ InvalidNeverLive'
  BY <1>1, <1>3 DEF QueueInv, JobInv, InvalidNeverLive
<1>6. PageInv'
  BY <1>1, <1>2, <1>3 DEF PageInv, InFlight, Normal
<1>7. CleanInv'
  <2> SUFFICES ASSUME NEW s \in Saves, InFlight(s), disturbed'[s] = {}
               PROVE  Undisturbed(s)'
    BY <1>3 DEF CleanInv, InFlight
  <2>1. s \notin SavesOf(p) /\ disturbed[s] = {}
    BY <1>1
  <2>2. Undisturbed(s) /\ save[s].page \in Pages /\ save[s].page # p
    BY <2>1 DEF CleanInv, PageInv, SavesOf
  <2> QED
    BY <1>1, <1>2, <1>3, <2>1, <2>2 DEF Undisturbed, InFlight, Resyncing
<1> QED
  BY <1>4, <1>5, <1>6, <1>7

(* A click disturbs the saves under way, and they disturb it.               *)
LEMMA ClickSavePreservesIInv ==
  ASSUME IInv, NEW p \in Pages, ClickSave(p)
  PROVE  IInv'
<1> USE DistinctValues, CommandsAreStages DEF IInv
<1>1. PICK s \in Saves :
        /\ save[s].at = "new"
        /\ save' = [save EXCEPT ![s] = [at |-> "push", page |-> p, own |-> None]]
        /\ queue' = Append(queue, [kind |-> "push", by |-> s])
        /\ disturbed' = [t \in Saves |->
             disturbed[t]
               \cup {k \in {"save"} : t # s /\ InFlight(t)}
               \cup {k \in {"save"} : t = s /\ \E u \in Saves : InFlight(u)}
               \cup {k \in {"resync"} : t = s /\ (announced \/ Resyncing)}
               \cup {k \in {"file"} : t = s /\ disk = Unreadable}]
  BY DEF ClickSave, Submit
<1>2. /\ marking = None /\ page[p].open
      /\ UNCHANGED <<disk, live, page, marking, job, announced>>
  BY DEF ClickSave, LoopFree
<1>3. /\ save'[s] = [at |-> "push", page |-> p, own |-> None]
      /\ \A t \in Saves : t # s => save'[t] = save[t]
  BY <1>1 DEF TypeOK
<1>4. \A t \in Saves : /\ disturbed[t] \subseteq disturbed'[t]
                       /\ disturbed'[t] \subseteq {"edit", "save", "resync", "file"}
  BY <1>1 DEF TypeOK
<1>5. TypeOK'
  <2>1. save' \in [Saves -> [at : Stages, page : Pages \cup {None}, own : Configs \cup {None}]]
    BY <1>1 DEF TypeOK, Stages
  <2>2. disturbed' \in [Saves -> SUBSET {"edit", "save", "resync", "file"}]
    BY <1>1, <1>4
  <2>3. job.kind \in {"push", "persist", "clear"} => save'[job.by].at = job.kind
    BY <1>1, <1>3 DEF JobInv, Commands
  <2> QED
    BY <1>2, <2>1, <2>2, <2>3 DEF TypeOK
<1>6. QueueInv' /\ JobInv'
  <2> DEFINE n == Len(queue) + 1
  <2>1. /\ queue \in Seq([kind : Commands \cup {"resync"}, by : Saves \cup {0}])
        /\ queue' \in Seq([kind : Commands \cup {"resync"}, by : Saves \cup {0}])
        /\ DOMAIN queue' = DOMAIN queue \cup {n} /\ n \notin DOMAIN queue
        /\ queue'[n] = [kind |-> "push", by |-> s]
        /\ \A i \in DOMAIN queue : queue'[i] = queue[i]
    BY <1>1 DEF QueueInv, Commands
  <2>2. \A i \in DOMAIN queue : queue[i].kind # "resync" =>
          queue[i].by \in Saves /\ queue[i].by # s /\ save'[queue[i].by].at = queue[i].kind
    BY <1>1, <1>3, QueuedCommand
  <2>3. job.kind \in Commands => job.by \in Saves /\ job.by # s /\ save'[job.by].at = job.kind
    BY <1>1, <1>3 DEF JobInv
  <2>4. QueueInv'
    BY <1>3, <2>1, <2>2 DEF QueueInv
  <2>5. JobInv'
    BY <1>2, <2>1, <2>3 DEF JobInv, NoJob
  <2> QED
    BY <2>4, <2>5
<1>7. PageInv' /\ InvalidNeverLive'
  BY <1>2, <1>3 DEF PageInv, InFlight, Normal, InvalidNeverLive
<1>8. CleanInv'
  <2> SUFFICES ASSUME NEW t \in Saves, InFlight(t)', disturbed'[t] = {}
               PROVE  Undisturbed(t)'
    BY DEF CleanInv
  <2>1. t = s
    BY <1>1, <1>3 DEF InFlight
  <2>2. /\ \A u \in Saves : ~ InFlight(u)
        /\ ~ announced /\ ~ Resyncing /\ disk # Unreadable
    BY <1>1, <2>1
  <2>3. job = NoJob
    BY <2>2 DEF JobInv, InFlight, Resyncing
  <2>4. ~ Resyncing'
    BY <1>1, <1>2, <2>2 DEF Resyncing, QueueInv
  <2> QED
    BY <1>2, <1>3, <2>1, <2>2, <2>3, <2>4 DEF Undisturbed, InFlight, NoJob
<1> QED
  BY <1>5, <1>6, <1>7, <1>8

(* A command of a save that waits for none.                                 *)
LEMMA ResumePreservesIInv ==
  ASSUME IInv, NEW s \in Saves, NEW from, NEW kind \in Commands,
         <<from, kind>> \in {<<"pushed", "persist">>, <<"persisted", "clear">>},
         Resume(s, from, kind)
  PROVE  IInv'
<1> USE DistinctValues, CommandsAreStages DEF IInv
<1>1. /\ marking = None /\ save[s].at = from
      /\ from \notin Commands /\ from # "new" /\ from # "end"
      /\ save' = [save EXCEPT ![s].at = kind, ![s].own = None]
      /\ queue' = Append(queue, [kind |-> kind, by |-> s])
      /\ UNCHANGED <<disk, live, page, marking, job, announced, disturbed>>
  BY DEF Resume, LoopFree, Submit, Commands
<1>2. /\ save'[s].at = kind /\ save'[s].own = None /\ save'[s].page = save[s].page
      /\ \A t \in Saves : t # s => save'[t] = save[t]
  BY <1>1 DEF TypeOK
<1>3. TypeOK'
  <2>1. save' \in [Saves -> [at : Stages, page : Pages \cup {None}, own : Configs \cup {None}]]
    BY <1>1 DEF TypeOK
  <2>2. job.kind \in {"push", "persist", "clear"} => save'[job.by].at = job.kind
    BY <1>1, <1>2 DEF JobInv, Commands
  <2> QED
    BY <1>1, <2>1, <2>2 DEF TypeOK
<1>4. QueueInv' /\ JobInv'
  <2> DEFINE n == Len(queue) + 1
  <2>1. /\ queue \in Seq([kind : Commands \cup {"resync"}, by : Saves \cup {0}])
        /\ queue' \in Seq([kind : Commands \cup {"resync"}, by : Saves \cup {0}])
        /\ DOMAIN queue' = DOMAIN queue \cup {n} /\ n \notin DOMAIN queue
        /\ queue'[n] = [kind |-> kind, by |-> s]
        /\ \A i \in DOMAIN queue : queue'[i] = queue[i]
    BY <1>1 DEF QueueInv, Commands
  <2>2. \A i \in DOMAIN queue : queue[i].kind # "resync" =>
          queue[i].by \in Saves /\ queue[i].by # s /\ save'[queue[i].by].at = queue[i].kind
    BY <1>1, <1>2, QueuedCommand
  <2>3. job.kind \in Commands => job.by \in Saves /\ job.by # s /\ save'[job.by].at = job.kind
    BY <1>1, <1>2 DEF JobInv
  <2>4. QueueInv'
    BY <1>2, <2>1, <2>2 DEF QueueInv
  <2>5. JobInv'
    BY <1>1, <2>1, <2>3 DEF JobInv, NoJob
  <2> QED
    BY <2>4, <2>5
<1>5. PageInv' /\ InvalidNeverLive'
  BY <1>1, <1>2 DEF PageInv, InFlight, Normal, InvalidNeverLive
<1>6. CleanInv'
  <2> SUFFICES ASSUME NEW t \in Saves, InFlight(t)', disturbed[t] = {}
               PROVE  Undisturbed(t)'
    BY <1>1 DEF CleanInv
  <2>1. Undisturbed(t) /\ t = s
    BY <1>1, <1>2 DEF CleanInv, InFlight, Undisturbed
  <2>2. ~ Resyncing'
    BY <1>1, <2>1 DEF Undisturbed, Resyncing, QueueInv
  <2>3. \A u \in Saves : InFlight(u)' => u = s
    BY <1>2, <2>1 DEF InFlight, Undisturbed
  <2>4. job.at \notin {"bands", "validate", "set"}
    BY <1>1, <2>1 DEF JobInv, Undisturbed, InFlight, Resyncing
  <2> QED
    BY <1>1, <1>2, <2>1, <2>2, <2>3, <2>4 DEF Undisturbed
<1> QED
  BY <1>3, <1>4, <1>5, <1>6

(* A save that ends leaves no command behind.                               *)
LEMMA ReportSavedPreservesIInv ==
  ASSUME IInv, NEW s \in Saves, ReportSaved(s)
  PROVE  IInv'
<1> USE DistinctValues, CommandsAreStages DEF IInv
<1> DEFINE p == save[s].page
<1>1. /\ marking = None /\ save[s].at = "cleared"
      /\ save' = [save EXCEPT ![s].at = "end"]
      /\ page' = [page EXCEPT ![p].saved = page[p].staged]
      /\ UNCHANGED <<disk, live, marking, queue, job, announced, disturbed>>
  BY DEF ReportSaved, LoopFree
<1>2. /\ save'[s].at = "end"
      /\ \A t \in Saves : t # s => save'[t] = save[t]
  BY <1>1 DEF TypeOK
<1>3. p \in Pages
  BY <1>1 DEF PageInv, InFlight
<1>4. \A q \in Pages : /\ page'[q].open = page[q].open /\ page'[q].staged = page[q].staged
                       /\ page'[q].saved \in {page[q].saved, page[q].staged}
  BY <1>1 DEF TypeOK
<1>5. TypeOK'
  <2>1. save' \in [Saves -> [at : Stages, page : Pages \cup {None}, own : Configs \cup {None}]]
    BY <1>1 DEF TypeOK, Stages
  <2>2. job.kind \in {"push", "persist", "clear"} => save'[job.by].at = job.kind
    BY <1>1, <1>2 DEF JobInv, Commands
  <2>3. page' \in [Pages -> [open : BOOLEAN, staged : Configs, saved : Configs]]
    BY <1>1, <1>3 DEF TypeOK
  <2> QED
    BY <1>1, <2>1, <2>2, <2>3 DEF TypeOK
<1>6. QueueInv'
  <2>1. \A i \in DOMAIN queue : queue[i].kind # "resync" =>
          queue[i].by \in Saves /\ queue[i].by # s /\ save'[queue[i].by].at = queue[i].kind
    BY <1>1, <1>2, QueuedCommand DEF Commands
  <2> QED
    BY <1>1, <2>1 DEF QueueInv
<1>7. JobInv'
  BY <1>1, <1>2 DEF JobInv, Commands
<1>8. PageInv' /\ InvalidNeverLive'
  BY <1>1, <1>2, <1>4 DEF PageInv, InFlight, Normal, InvalidNeverLive
<1>9. CleanInv'
  <2> SUFFICES ASSUME NEW t \in Saves, InFlight(t)', disturbed[t] = {}
               PROVE  FALSE
    BY <1>1 DEF CleanInv
  <2>1. t # s /\ InFlight(t)
    BY <1>2 DEF InFlight
  <2>2. Undisturbed(t) /\ InFlight(s)
    BY <1>1, <2>1 DEF CleanInv, InFlight
  <2> QED
    BY <2>1, <2>2 DEF Undisturbed
<1> QED
  BY <1>5, <1>6, <1>7, <1>8, <1>9
-----------------------------------------------------------------------------
(* The player, the broker and the failures.                                 *)

(* A reconnect disturbs every save.                                         *)
LEMMA ReconnectPreservesIInv ==
  ASSUME IInv, Reconnect
  PROVE  IInv'
<1> USE DistinctValues DEF IInv
<1>1. /\ live' \in {live, Empty} /\ announced' = TRUE
      /\ disturbed' = [s \in Saves |-> IF InFlight(s) THEN disturbed[s] \cup {"resync"}
                                       ELSE disturbed[s]]
      /\ UNCHANGED <<disk, page, marking, save, queue, job>>
  BY DEF Reconnect, Disturb
<1>2. TypeOK'
  BY <1>1 DEF TypeOK
<1>3. QueueInv' /\ JobInv' /\ PageInv' /\ InvalidNeverLive'
  BY <1>1 DEF QueueInv, JobInv, PageInv, InFlight, Normal, InvalidNeverLive
<1>4. CleanInv'
  BY <1>1 DEF CleanInv, InFlight
<1> QED
  BY <1>2, <1>3, <1>4

(* A reconnect still to be handled has disturbed every save.                *)
LEMMA SubmitResyncPreservesIInv ==
  ASSUME IInv, SubmitResync
  PROVE  IInv'
<1> USE DistinctValues DEF IInv
<1>1. /\ announced /\ announced' = FALSE
      /\ queue' = Append(queue, [kind |-> "resync", by |-> 0])
      /\ UNCHANGED <<disk, live, page, marking, save, job, disturbed>>
  BY DEF SubmitResync, Submit
<1>2. TypeOK'
  BY <1>1 DEF TypeOK
<1>3. QueueInv' /\ JobInv'
  <2> DEFINE n == Len(queue) + 1
  <2>1. /\ queue' \in Seq([kind : Commands \cup {"resync"}, by : Saves \cup {0}])
        /\ DOMAIN queue' = DOMAIN queue \cup {n}
        /\ queue'[n] = [kind |-> "resync", by |-> 0]
        /\ \A i \in DOMAIN queue : queue'[i] = queue[i]
    BY <1>1 DEF QueueInv, Commands
  <2>2. QueueInv'
    BY <1>1, <2>1 DEF QueueInv
  <2>3. JobInv'
    BY <1>1, <2>1 DEF JobInv, NoJob
  <2> QED
    BY <2>2, <2>3
<1>4. PageInv' /\ InvalidNeverLive'
  BY <1>1 DEF PageInv, InFlight, Normal, InvalidNeverLive
<1>5. CleanInv'
  BY <1>1 DEF CleanInv, InFlight, Undisturbed
<1> QED
  BY <1>2, <1>3, <1>4, <1>5

(* A damaged file disturbs every save.                                      *)
LEMMA DamagePreservesIInv ==
  ASSUME IInv, Damage
  PROVE  IInv'
<1> USE DistinctValues DEF IInv
<1>1. /\ disk' = Unreadable
      /\ disturbed' = [s \in Saves |-> IF InFlight(s) THEN disturbed[s] \cup {"file"}
                                       ELSE disturbed[s]]
      /\ UNCHANGED <<live, page, marking, save, queue, job, announced>>
  BY DEF Damage, Disturb
<1>2. TypeOK'
  BY <1>1 DEF TypeOK, NoFile
<1>3. QueueInv' /\ JobInv' /\ PageInv' /\ InvalidNeverLive'
  BY <1>1 DEF QueueInv, JobInv, PageInv, InFlight, Normal, InvalidNeverLive
<1>4. CleanInv'
  BY <1>1 DEF CleanInv, InFlight
<1> QED
  BY <1>2, <1>3, <1>4

(* A kill ends every save.                                                  *)
LEMMA KillPreservesIInv ==
  ASSUME IInv, Kill
  PROVE  IInv'
<1> USE DistinctValues DEF IInv
<1>1. /\ page' = [p \in Pages |-> Closed] /\ marking' = None
      /\ save' = [s \in Saves |-> IF InFlight(s) THEN [save[s] EXCEPT !.at = "end"]
                                  ELSE save[s]]
      /\ queue' = <<>> /\ job' = NoJob /\ announced' = FALSE
      /\ UNCHANGED <<disk, live, disturbed>>
  BY DEF Kill
<1>2. Protected(Flat) \in Configs
  OBVIOUS
<1>3. \A s \in Saves : ~ InFlight(s)'
  BY <1>1 DEF InFlight, TypeOK
<1>4. TypeOK'
  <2>1. save' \in [Saves -> [at : Stages, page : Pages \cup {None}, own : Configs \cup {None}]]
    BY <1>1 DEF TypeOK, Stages
  <2>2. page' \in [Pages -> [open : BOOLEAN, staged : Configs, saved : Configs]]
    BY <1>1, <1>2 DEF Closed
  <2> QED
    BY <1>1, <1>2, <2>1, <2>2 DEF TypeOK, NoJob
<1>5. QueueInv'
  BY <1>1 DEF QueueInv
<1>6. JobInv'
  BY <1>1, <1>2 DEF JobInv, NoJob, Commands, Steps
<1>7. PageInv'
  BY <1>1, <1>2, <1>3 DEF PageInv, Closed, Normal, Protected
<1>8. InvalidNeverLive' /\ CleanInv'
  BY <1>1, <1>3 DEF InvalidNeverLive, CleanInv
<1> QED
  BY <1>4, <1>5, <1>6, <1>7, <1>8

-----------------------------------------------------------------------------
(* The commands.                                                            *)

(* The command taken is the one its save waits for.                         *)
LEMMA TakeCommandPreservesIInv ==
  ASSUME IInv, TakeCommand
  PROVE  IInv'
<1> USE DistinctValues, CommandsAreStages DEF IInv
<1> DEFINE c == queue[1]
<1>1. /\ job = NoJob /\ queue # <<>> /\ queue' = Tail(queue)
      /\ job' = [kind |-> c.kind, by |-> c.by, at |-> FirstStep(c.kind),
                 conf |-> Protected(Flat)]
      /\ UNCHANGED <<disk, live, page, marking, save, announced, disturbed>>
  <2>1. /\ job = NoJob /\ queue # <<>> /\ queue' = Tail(queue)
        /\ job' = [NoJob EXCEPT !.kind = Head(queue).kind, !.by = Head(queue).by,
                                !.at = FirstStep(Head(queue).kind)]
        /\ UNCHANGED <<disk, live, page, marking, save, announced, disturbed>>
    BY DEF TakeCommand, Idle
  <2>2. Head(queue) = c
    BY DEF QueueInv
  <2> HIDE DEF c
  <2>3. job' = [kind |-> c.kind, by |-> c.by, at |-> FirstStep(c.kind), conf |-> Protected(Flat)]
    BY <2>1, <2>2 DEF NoJob
  <2> QED
    BY <2>1, <2>3
<1>2. /\ queue' \in Seq([kind : Commands \cup {"resync"}, by : Saves \cup {0}])
      /\ 1 \in DOMAIN queue
      /\ \A i \in DOMAIN queue' : i + 1 \in DOMAIN queue /\ i + 1 # 1 /\ queue'[i] = queue[i + 1]
  <2> DEFINE C == [kind : Commands \cup {"resync"}, by : Saves \cup {0}]
  <2>1. queue \in Seq(C)
    BY DEF QueueInv
  <2> HIDE DEF C
  <2>2. /\ queue' \in Seq(C) /\ 1 \in DOMAIN queue
        /\ \A i \in DOMAIN queue' : i + 1 \in DOMAIN queue /\ i + 1 # 1 /\ queue'[i] = queue[i + 1]
    BY <1>1, <2>1
  <2> QED
    BY <2>2 DEF C
<1>3. /\ c.kind \in Commands \cup {"resync"} /\ c.by \in Saves \cup {0}
      /\ c.kind \in Commands => c.by \in Saves /\ save[c.by].at = c.kind
  BY <1>2, QueuedCommand
<1>4. /\ c.kind = "push" => FirstStep(c.kind) = "preamp"
      /\ c.kind = "resync" => FirstStep(c.kind) = "read"
      /\ c.kind \in {"persist", "clear"} => FirstStep(c.kind) = c.kind
  BY DEF FirstStep
<1>5. TypeOK'
  BY <1>1, <1>3 DEF TypeOK, Commands
<1>6. QueueInv'
  BY <1>1, <1>2 DEF QueueInv
<1>7. JobInv'
  <2>1. job' \in [kind : Commands \cup {"resync", "none"}, by : Saves \cup {0},
                  at : Steps \ {"push"}, conf : Configs]
    BY <1>1, <1>3, <1>4 DEF Steps, Commands
  <2>2. c.kind \in Commands => \A i \in DOMAIN queue' : queue'[i].kind # "resync" => queue'[i].by # c.by
    BY <1>2 DEF QueueInv
  <2> QED
    BY <1>1, <1>3, <1>4, <2>1, <2>2 DEF JobInv, Commands
<1>8. PageInv' /\ InvalidNeverLive'
  BY <1>1 DEF PageInv, InFlight, Normal, InvalidNeverLive
<1>9. CleanInv'
  <2> SUFFICES ASSUME NEW s \in Saves, InFlight(s), disturbed[s] = {}
               PROVE  Undisturbed(s)'
    BY <1>1 DEF CleanInv, InFlight
  <2>1. Undisturbed(s)
    BY DEF CleanInv
  <2>2. c.kind # "resync" /\ ~ Resyncing'
    BY <1>1, <1>2, <2>1 DEF Undisturbed, Resyncing
  <2>3. job'.at \notin {"bands", "validate", "set"}
    BY <1>1, <1>3, <1>4, <2>2 DEF Commands
  <2> QED
    BY <1>1, <2>1, <2>2, <2>3 DEF Undisturbed, InFlight
<1> QED
  BY <1>5, <1>6, <1>7, <1>8, <1>9

(* The working copy of a save under way is a configuration.                 *)
LEMMA CopyIsConfig ==
  ASSUME IInv, NEW s \in Saves, InFlight(s)
  PROVE  Copy(s) \in Configs
BY DistinctValues DEF IInv, TypeOK, PageInv, Copy
(* A step of the command in the thread that only reads.                     *)
LEMMA ReadingPreserves ==
  ASSUME IInv, job.kind # "none",
         job'.kind = job.kind, job'.by = job.by,
         job' \in [kind : Commands \cup {"resync", "none"}, by : Saves \cup {0},
                   at : Steps \ {"push"}, conf : Configs],
         job'.at \in {"bands", "validate", "set"},
         job'.at = "bands" => job.kind = "push",
         job.kind \in {"push", "resync"},
         job'.at = "set" => job'.conf.bands \notin Invalid,
         \A s \in Saves : InFlight(s) /\ disturbed[s] = {} =>
           /\ job'.at = "bands" => job'.conf.preamp = page[save[s].page].staged.preamp
           /\ job'.at \in {"validate", "set"} => job'.conf = page[save[s].page].staged,
         UNCHANGED <<disk, live, page, marking, save, queue, announced, disturbed>>
  PROVE  IInv'
<1> USE DistinctValues DEF IInv
<1>2. TypeOK'
  BY DEF TypeOK
<1>3. QueueInv' /\ PageInv' /\ InvalidNeverLive'
  BY DEF QueueInv, PageInv, InFlight, Normal, InvalidNeverLive
<1>4. JobInv'
  BY DEF JobInv
<1>5. CleanInv'
  <2> SUFFICES ASSUME NEW s \in Saves, InFlight(s), disturbed[s] = {}
               PROVE  Undisturbed(s)'
    BY DEF CleanInv, InFlight
  <2> QED
    BY DEF CleanInv, Undisturbed, InFlight, Resyncing
<1> QED
  BY <1>2, <1>3, <1>4, <1>5

(* The command in the thread ends: what a save that nothing disturbed goes  *)
(* on with.                                                                 *)
Ended(at) ==
  \A s \in Saves : InFlight(s)' /\ disturbed[s] = {} =>
    /\ job.kind \in Commands /\ s = job.by /\ Undisturbed(s)
    /\ \A t \in Saves : InFlight(t)' => t = s
    /\ at # "end" /\ save'[s] = [save[s] EXCEPT !.at = at]

(* The file and the daemon may change as the command ends.                  *)
LEMMA ReturnPreserves ==
  ASSUME IInv, job.kind # "none", NEW at \in {"pushed", "persisted", "cleared", "end"},
         Return(at),
         disk' \in Configs \cup NoFile, live' \in Configs \cup {Empty}, InvalidNeverLive',
         UNCHANGED <<page, marking, queue, announced, disturbed>>
  PROVE  /\ TypeOK' /\ QueueInv' /\ JobInv' /\ PageInv'
         /\ Ended(at) /\ job' = NoJob
<1> USE DistinctValues, CommandsAreStages DEF IInv
<1>1. /\ job' = NoJob
      /\ job.kind = "resync" => save' = save
      /\ job.kind # "resync" => save' = [save EXCEPT ![job.by].at = at]
  BY DEF Return
<1>2. job.kind = "resync" \/ job.kind \in Commands
  BY DEF JobInv
<1>3. job.kind \in Commands =>
        /\ job.by \in Saves /\ save[job.by].at = job.kind
        /\ save'[job.by] = [save[job.by] EXCEPT !.at = at]
        /\ \A s \in Saves : s # job.by => save'[s] = save[s]
  BY <1>1 DEF JobInv, TypeOK
<1>4. \A s \in Saves : /\ save'[s].page = save[s].page
                       /\ InFlight(s)' => InFlight(s)
  BY <1>1, <1>2, <1>3 DEF InFlight, TypeOK
<1>5. TypeOK'
  <2>1. save' \in [Saves -> [at : Stages, page : Pages \cup {None}, own : Configs \cup {None}]]
    BY <1>1, <1>2, <1>3 DEF TypeOK, Stages
  <2> QED
    BY <1>1, <2>1 DEF TypeOK, NoJob
<1>6. QueueInv'
  <2>1. \A i \in DOMAIN queue : queue[i].kind # "resync" =>
          queue[i].by \in Saves /\ save'[queue[i].by].at = queue[i].kind
    BY <1>1, <1>2, <1>3, QueuedCommand DEF JobInv
  <2> QED
    BY <2>1 DEF QueueInv
<1>7. JobInv'
  BY <1>1 DEF JobInv, NoJob, Steps, Commands
<1>8. PageInv'
  BY <1>4 DEF PageInv, Normal
<1>9. Ended(at)
  <2> SUFFICES ASSUME NEW s \in Saves, InFlight(s)', disturbed[s] = {}
               PROVE  /\ job.kind \in Commands /\ s = job.by /\ Undisturbed(s)
                      /\ \A t \in Saves : InFlight(t)' => t = s
                      /\ at # "end" /\ save'[s] = [save[s] EXCEPT !.at = at]
    BY DEF Ended
  <2>1. InFlight(s) /\ Undisturbed(s)
    BY <1>4 DEF CleanInv
  <2>2. job.kind \in Commands
    BY <1>2, <2>1 DEF Undisturbed, Resyncing
  <2>3. s = job.by
    BY <1>3, <2>1, <2>2 DEF Undisturbed, InFlight
  <2>4. save'[s] = [save[s] EXCEPT !.at = at]
    BY <1>3, <2>2, <2>3
  <2>5. at # "end"
    BY <2>4 DEF InFlight, TypeOK
  <2>6. \A t \in Saves : InFlight(t)' => t = s
    BY <1>4, <2>1 DEF Undisturbed
  <2> QED
    BY <2>1, <2>2, <2>3, <2>4, <2>5, <2>6
<1> QED
  BY <1>1, <1>5, <1>6, <1>7, <1>8, <1>9
(* A push nothing disturbed reads the pre-amp the page shows ...            *)
LEMMA ReadPreampPreservesIInv ==
  ASSUME IInv, ReadPreamp
  PROVE  IInv'
<1> USE CommandsAreStages DEF IInv
<1> DEFINE conf == [job.conf EXCEPT !.preamp = Copy(job.by).preamp]
<1>1. /\ job.at = "preamp" /\ job.kind = "push" /\ job.by \in Saves /\ InFlight(job.by)
      /\ job.conf \in Configs
  BY DEF ReadPreamp, JobInv, InFlight, Commands
<1>2. Copy(job.by) \in Configs
  BY <1>1, CopyIsConfig
<1>3. conf \in Configs /\ conf.preamp = Copy(job.by).preamp
  BY <1>1, <1>2 DEF Configs
<1>4. job' = [job EXCEPT !.at = "bands", !.conf = conf]
      /\ UNCHANGED <<disk, live, page, marking, save, queue, announced, disturbed>>
  BY DEF ReadPreamp, JobInv
<1>5. \A s \in Saves : InFlight(s) /\ disturbed[s] = {} =>
        conf.preamp = page[save[s].page].staged.preamp
  BY <1>1, <1>3 DEF CleanInv, Undisturbed, Copy
<1> QED
  <2>1. /\ job'.kind = job.kind /\ job'.by = job.by /\ job'.at = "bands" /\ job'.conf = conf
        /\ job' \in [kind : Commands \cup {"resync", "none"}, by : Saves \cup {0},
                     at : Steps \ {"push"}, conf : Configs]
    BY <1>3, <1>4 DEF JobInv, Steps
  <2> HIDE DEF conf, IInv
  <2> QED
    BY <1>1, <1>3, <1>4, <1>5, <2>1, ReadingPreserves

(* ... and then the bands it belongs to.                                    *)
LEMMA ReadBandsPreservesIInv ==
  ASSUME IInv, ReadBands
  PROVE  IInv'
<1> USE CommandsAreStages DEF IInv
<1> DEFINE conf == [job.conf EXCEPT !.bands = Copy(job.by).bands]
<1>1. /\ job.at = "bands" /\ job.kind = "push" /\ job.by \in Saves /\ InFlight(job.by)
      /\ job.conf \in Configs
  BY DEF ReadBands, JobInv, InFlight, Commands
<1>2. Copy(job.by) \in Configs
  BY <1>1, CopyIsConfig
<1>3. conf \in Configs /\ conf.bands = Copy(job.by).bands /\ conf.preamp = job.conf.preamp
  BY <1>1, <1>2 DEF Configs
<1>4. job' = [job EXCEPT !.at = "validate", !.conf = conf]
      /\ UNCHANGED <<disk, live, page, marking, save, queue, announced, disturbed>>
  BY DEF ReadBands, JobInv
<1>5. \A s \in Saves : InFlight(s) /\ disturbed[s] = {} => conf = page[save[s].page].staged
  <2> SUFFICES ASSUME NEW s \in Saves, InFlight(s), disturbed[s] = {}
               PROVE  conf = page[save[s].page].staged
    OBVIOUS
  <2>1. Undisturbed(s) /\ s = job.by
    BY <1>1 DEF CleanInv, Undisturbed
  <2>2. Copy(job.by) = page[save[s].page].staged
    BY <2>1 DEF Undisturbed, Copy
  <2>3. job.conf.preamp = page[save[s].page].staged.preamp
    BY <1>1, <2>1 DEF Undisturbed
  <2> HIDE DEF conf
  <2> QED
    BY <1>2, <1>3, <2>2, <2>3 DEF Configs
<1> QED
  <2>1. /\ job'.kind = job.kind /\ job'.by = job.by /\ job'.at = "validate" /\ job'.conf = conf
        /\ job' \in [kind : Commands \cup {"resync", "none"}, by : Saves \cup {0},
                     at : Steps \ {"push"}, conf : Configs]
    BY <1>3, <1>4 DEF JobInv, Steps
  <2> HIDE DEF conf, IInv
  <2> QED
    BY <1>1, <1>3, <1>4, <1>5, <2>1, ReadingPreserves

(* Nothing but a re-push under way means no save is undisturbed.            *)
LEMMA NoCleanSaveDuringResync ==
  ASSUME IInv, job.kind = "resync", NEW s \in Saves, InFlight(s)
  PROVE  disturbed[s] # {}
BY DEF IInv, CleanInv, Undisturbed, Resyncing

(* A command that ends without an effect.                                   *)
LEMMA GivingUpPreservesIInv ==
  ASSUME IInv, job.kind # "none", Return("end"),
         live' \in Configs \cup {Empty}, InvalidNeverLive',
         UNCHANGED <<disk, page, marking, queue, announced, disturbed>>
  PROVE  IInv'
<1>1. disk' \in Configs \cup NoFile
  BY DEF IInv, TypeOK
<1>2. TypeOK' /\ QueueInv' /\ JobInv' /\ PageInv' /\ Ended("end")
  BY <1>1, ReturnPreserves
<1>3. CleanInv'
  BY <1>2 DEF CleanInv, Ended
<1> QED
  BY <1>2, <1>3 DEF IInv

(* The broker's re-push starts, or finds nothing to push.                   *)
LEMMA ReadStoredPreservesIInv ==
  ASSUME IInv, ReadStored
  PROVE  IInv'
<1> USE DEF IInv
<1>1. job.at = "read" /\ job.kind = "resync"
  BY DEF ReadStored, JobInv
<1>2. UNCHANGED <<disk, live, page, marking, queue, announced, disturbed>>
  BY DEF ReadStored
<1>3. CASE disk \in NoFile
  <2>1. Return("end")
    BY <1>3 DEF ReadStored
  <2>2. live' \in Configs \cup {Empty} /\ InvalidNeverLive'
    BY <1>2 DEF TypeOK, InvalidNeverLive
  <2> QED
    BY <1>1, <1>2, <2>1, <2>2, GivingUpPreservesIInv
<1>4. CASE disk \notin NoFile
  <2>1. disk \in Configs
    BY <1>4 DEF TypeOK
  <2>2. job' = [job EXCEPT !.at = "validate", !.conf = disk] /\ UNCHANGED save
    BY <1>4 DEF ReadStored
  <2> QED
    <3>1. /\ job'.kind = job.kind /\ job'.by = job.by /\ job'.at = "validate" /\ job'.conf = disk
          /\ job' \in [kind : Commands \cup {"resync", "none"}, by : Saves \cup {0},
                       at : Steps \ {"push"}, conf : Configs]
      BY <2>1, <2>2 DEF JobInv, Steps
    <3> HIDE DEF IInv
    <3> QED
      BY <1>1, <1>2, <2>1, <2>2, <3>1, ReadingPreserves, NoCleanSaveDuringResync
<1> QED
  BY <1>3, <1>4

(* Only what the daemon accepts goes on.                                    *)
LEMMA ValidatePreservesIInv ==
  ASSUME IInv, Validate
  PROVE  IInv'
<1> USE DEF IInv
<1>1. job.at = "validate" /\ job.kind \in {"push", "resync"} /\ job.conf \in Configs
  BY DEF Validate, JobInv
<1>2. UNCHANGED <<disk, live, page, marking, queue, announced, disturbed>>
  BY DEF Validate
<1>3. CASE job.conf.bands \in Invalid
  <2>1. Return("end")
    BY <1>3 DEF Validate
  <2>2. live' \in Configs \cup {Empty} /\ InvalidNeverLive'
    BY <1>2 DEF TypeOK, InvalidNeverLive
  <2> QED
    BY <1>1, <1>2, <2>1, <2>2, GivingUpPreservesIInv
<1>4. CASE job.conf.bands \notin Invalid
  <2>1. job' = [job EXCEPT !.at = "set", !.conf = job.conf] /\ UNCHANGED save
    BY <1>4 DEF Validate, JobInv
  <2>2. \A s \in Saves : InFlight(s) /\ disturbed[s] = {} => job.conf = page[save[s].page].staged
    BY <1>1 DEF CleanInv, Undisturbed
  <2>3. /\ job'.kind = job.kind /\ job'.by = job.by /\ job'.at = "set" /\ job'.conf = job.conf
        /\ job' \in [kind : Commands \cup {"resync", "none"}, by : Saves \cup {0},
                     at : Steps \ {"push"}, conf : Configs]
    BY <1>1, <2>1 DEF JobInv, Steps
  <2> HIDE DEF IInv
  <2> QED
    BY <1>1, <1>2, <1>4, <2>1, <2>2, <2>3, ReadingPreserves
<1> QED
  BY <1>3, <1>4

(* What is applied was validated, and is what a clean save shows.           *)
LEMMA SetConfigPreservesIInv ==
  ASSUME IInv, SetConfig
  PROVE  IInv'
<1> USE DEF IInv
<1>1. /\ job.at = "set" /\ job.kind # "none" /\ job.conf \in Configs
      /\ job.conf.bands \notin Invalid /\ live' = job.conf /\ Return("pushed")
      /\ UNCHANGED <<disk, page, marking, queue, announced, disturbed>>
  BY DEF SetConfig, JobInv
<1>2. InvalidNeverLive' /\ live' \in Configs \cup {Empty} /\ disk' \in Configs \cup NoFile
  BY <1>1 DEF InvalidNeverLive, TypeOK
<1>3. TypeOK' /\ QueueInv' /\ JobInv' /\ PageInv' /\ Ended("pushed") /\ job' = NoJob
  BY <1>1, <1>2, ReturnPreserves
<1>4. CleanInv'
  <2> SUFFICES ASSUME NEW s \in Saves, InFlight(s)', disturbed[s] = {}
               PROVE  Undisturbed(s)'
    BY <1>1 DEF CleanInv
  <2>1. /\ job.kind \in Commands /\ s = job.by /\ Undisturbed(s)
        /\ \A t \in Saves : InFlight(t)' => t = s
        /\ save'[s] = [save[s] EXCEPT !.at = "pushed"]
    BY <1>3 DEF Ended
  <2>2. save'[s].at = "pushed" /\ save'[s].page = save[s].page /\ save'[s].own = save[s].own
    BY <2>1 DEF TypeOK
  <2> QED
    BY <1>1, <1>3, <2>1, <2>2 DEF Undisturbed, NoJob, Resyncing
<1> QED
  BY <1>2, <1>3, <1>4

(* A clean save's file is readable, and so it is written.                   *)
LEMMA PersistPreservesIInv ==
  ASSUME IInv, Persist
  PROVE  IInv'
<1> USE CommandsAreStages DEF IInv
<1>1. /\ job.at = "persist" /\ job.kind = "persist" /\ job.by \in Saves /\ InFlight(job.by)
      /\ save[job.by].at = "persist"
      /\ disk' = Updated(Copy(job.by)) /\ Return("persisted")
      /\ UNCHANGED <<live, page, marking, queue, announced, disturbed>>
  BY DEF Persist, JobInv, InFlight, Commands
<1>2. Copy(job.by) \in Configs
  BY <1>1, CopyIsConfig
<1>3. InvalidNeverLive' /\ live' \in Configs \cup {Empty} /\ disk' \in Configs \cup NoFile
  BY <1>1, <1>2 DEF InvalidNeverLive, TypeOK, Updated
<1>4. TypeOK' /\ QueueInv' /\ JobInv' /\ PageInv' /\ Ended("persisted") /\ job' = NoJob
  BY <1>1, <1>3, ReturnPreserves
<1>5. CleanInv'
  <2> SUFFICES ASSUME NEW s \in Saves, InFlight(s)', disturbed[s] = {}
               PROVE  Undisturbed(s)'
    BY <1>1 DEF CleanInv
  <2>1. /\ s = job.by /\ Undisturbed(s)
        /\ \A t \in Saves : InFlight(t)' => t = s
        /\ save'[s] = [save[s] EXCEPT !.at = "persisted"]
    BY <1>4 DEF Ended
  <2>2. save'[s].at = "persisted" /\ save'[s].page = save[s].page /\ save'[s].own = save[s].own
    BY <2>1 DEF TypeOK
  <2>3. disk' = page[save[s].page].staged
    BY <1>1, <2>1 DEF Undisturbed, Updated, Copy
  <2>4. disk' # Unreadable
    BY <1>1, <1>2, <2>1, DistinctValues DEF Undisturbed, Updated
  <2> QED
    BY <1>1, <1>4, <2>1, <2>2, <2>3, <2>4 DEF Undisturbed, NoJob, Resyncing
<1> QED
  BY <1>3, <1>4, <1>5

(* Clearing the clip counter changes neither daemon nor file.               *)
LEMMA ClearClipsPreservesIInv ==
  ASSUME IInv, ClearClips
  PROVE  IInv'
<1> USE CommandsAreStages DEF IInv
<1>1. /\ job.kind = "clear" /\ job.by \in Saves /\ save[job.by].at = "clear"
      /\ Return("cleared")
      /\ UNCHANGED <<disk, live, page, marking, queue, announced, disturbed>>
  BY DEF ClearClips, JobInv, Commands
<1>2. InvalidNeverLive' /\ live' \in Configs \cup {Empty} /\ disk' \in Configs \cup NoFile
  BY <1>1 DEF InvalidNeverLive, TypeOK
<1>3. TypeOK' /\ QueueInv' /\ JobInv' /\ PageInv' /\ Ended("cleared") /\ job' = NoJob
  BY <1>1, <1>2, ReturnPreserves
<1>4. CleanInv'
  <2> SUFFICES ASSUME NEW s \in Saves, InFlight(s)', disturbed[s] = {}
               PROVE  Undisturbed(s)'
    BY <1>1 DEF CleanInv
  <2>1. /\ s = job.by /\ Undisturbed(s)
        /\ \A t \in Saves : InFlight(t)' => t = s
        /\ save'[s] = [save[s] EXCEPT !.at = "cleared"]
    BY <1>3 DEF Ended
  <2>2. save'[s].at = "cleared" /\ save'[s].page = save[s].page /\ save'[s].own = save[s].own
    BY <2>1 DEF TypeOK
  <2> QED
    BY <1>1, <1>3, <2>1, <2>2 DEF Undisturbed, NoJob, Resyncing
<1> QED
  BY <1>2, <1>3, <1>4

(* A failed call ends its save, whether or not it had its effect.           *)
LEMMA CallFailsPreservesIInv ==
  ASSUME IInv, CallFails
  PROVE  IInv'
<1> USE DEF IInv
<1>1. /\ job.kind # "none" /\ Return("end")
      /\ live' \in {live} \cup {job.conf : x \in {job.at} \cap {"set"}}
      /\ UNCHANGED <<disk, page, marking, queue, announced, disturbed>>
  BY DEF CallFails, JobInv
<1>2. live' = live \/ (job.at = "set" /\ live' = job.conf)
  BY <1>1
<1>3. InvalidNeverLive' /\ live' \in Configs \cup {Empty}
  BY <1>2 DEF InvalidNeverLive, TypeOK, JobInv
<1> QED
  BY <1>1, <1>3, GivingUpPreservesIInv

-----------------------------------------------------------------------------
(* The specification.                                                       *)

(* What the process starts with.                                            *)
LEMMA InitImpliesIInv == Init => IInv
<1> USE DistinctValues DEF IInv
<1> SUFFICES ASSUME Init PROVE IInv
  OBVIOUS
<1>1. /\ page = [p \in Pages |-> Closed] /\ marking = None
      /\ save = [s \in Saves |-> NotClicked] /\ queue = <<>> /\ job = NoJob
      /\ announced = FALSE /\ disturbed = [s \in Saves |-> {}]
      /\ disk \in Stored /\ live \in {Empty} \cup ({disk} \ NoFile)
  BY DEF Init
<1>2. Protected(Flat) \in Configs /\ Normal(Protected(Flat))
  OBVIOUS
<1>3. \A s \in Saves : ~ InFlight(s)
  BY <1>1 DEF InFlight, NotClicked
<1>4. TypeOK
  <2>1. disk \in Configs \cup NoFile /\ live \in Configs \cup {Empty}
    BY <1>1, DspAssumption
  <2>2. save \in [Saves -> [at : Stages, page : Pages \cup {None}, own : Configs \cup {None}]]
    BY <1>1 DEF NotClicked, Stages
  <2>3. page \in [Pages -> [open : BOOLEAN, staged : Configs, saved : Configs]]
    BY <1>1, <1>2 DEF Closed
  <2> QED
    BY <1>1, <1>2, <2>1, <2>2, <2>3 DEF TypeOK, NoJob
<1>5. QueueInv
  BY <1>1 DEF QueueInv
<1>6. JobInv
  BY <1>1, <1>2 DEF JobInv, NoJob, Steps, Commands
<1>7. PageInv
  BY <1>1, <1>2, <1>3 DEF PageInv, Closed
<1>8. InvalidNeverLive /\ CleanInv
  BY <1>3 DEF Init, InvalidNeverLive, CleanInv
<1> QED
  BY <1>4, <1>5, <1>6, <1>7, <1>8

(* The cases above are all of Next.                                         *)
LEMMA NextPreservesIInv == IInv /\ [Next]_vars => IInv'
<1> SUFFICES ASSUME IInv, [Next]_vars PROVE IInv'
  OBVIOUS
<1>1. ASSUME NEW p \in Pages, Open(p) \/ Reset(p) \/ ClickSave(p) \/ \E b \in Bands : Edit(p, b)
      PROVE  IInv'
  BY <1>1, OpenPreservesIInv, ResetPreservesIInv, ClickSavePreservesIInv, EditPreservesIInv
<1>2. ASSUME NEW s \in Saves, HandlerStep(s)
      PROVE  IInv'
  BY <1>2, ResumePreservesIInv, ReportSavedPreservesIInv
     DEF HandlerStep, ResumePushed, ResumePersisted, Commands
<1>3. CASE WorkerStep
  BY <1>3, TakeCommandPreservesIInv, ReadPreampPreservesIInv, ReadBandsPreservesIInv,
     ReadStoredPreservesIInv, ValidatePreservesIInv, SetConfigPreservesIInv,
     PersistPreservesIInv, ClearClipsPreservesIInv
     DEF WorkerStep
<1>4. CASE MarkChanged \/ Reconnect \/ SubmitResync \/ CallFails \/ Damage \/ Kill
  BY <1>4, MarkChangedPreservesIInv, ReconnectPreservesIInv, SubmitResyncPreservesIInv,
     CallFailsPreservesIInv, DamagePreservesIInv, KillPreservesIInv
<1>5. CASE UNCHANGED vars
  BY <1>5 DEF vars, IInv, TypeOK, QueueInv, JobInv, NoJob, PageInv, Normal, InFlight,
     InvalidNeverLive, CleanInv, Undisturbed, Resyncing
<1> QED
  BY <1>1, <1>2, <1>3, <1>4, <1>5 DEF Next

(* The strengthening is an invariant.                                       *)
THEOREM StrengtheningHolds == Spec => []IInv
<1>1. Init => IInv
  BY InitImpliesIInv
<1>2. IInv /\ [Next]_vars => IInv'
  BY NextPreservesIInv
<1> QED
  BY <1>1, <1>2, PTL DEF Spec

(* Every variable keeps the shape the code gives it, and the command in the *)
(* thread is the one its save waits for.                                    *)
THEOREM TypeCorrect == Spec => []TypeOK
<1>1. IInv => TypeOK
  BY DEF IInv
<1> QED
  BY <1>1, StrengtheningHolds, PTL

(* The daemon never runs a configuration it would refuse.                   *)
THEOREM OnlyValidatedRuns == Spec => []InvalidNeverLive
<1>1. IInv => InvalidNeverLive
  BY DEF IInv
<1> QED
  BY <1>1, StrengtheningHolds, PTL

(* When a save that nothing disturbed reports Saved, the daemon, the file   *)
(* and the page agree on a configuration protected against clipping.        *)
THEOREM CleanSavesTellTheTruth == Spec => []CleanSaveAgrees
<1>1. IInv => CleanSaveAgrees
  <2> SUFFICES ASSUME IInv, NEW s \in Saves, save[s].at = "cleared", disturbed[s] = {}
               PROVE  Agree(s)
    BY DEF CleanSaveAgrees
  <2>1. InFlight(s)
    BY DEF InFlight
  <2>2. Undisturbed(s) /\ save[s].page \in Pages
    BY <2>1 DEF IInv, CleanInv, PageInv
  <2> QED
    BY <2>2 DEF IInv, PageInv, Undisturbed, Normal, Agree
<1> QED
  BY <1>1, StrengtheningHolds, PTL
-----------------------------------------------------------------------------
(* The pre-amp of what reaches the daemon.  While no save has been edited   *)
(* under, its working copy is the one its page shows, complete and its own  *)
(* pre-amp; so is, or was at the start, all that is read, filed or run.     *)
NoEdit == \A s \in Saves : "edit" \notin disturbed[s]
AsSaved(c) == c \in Stored \/ Normal(c)

CopiesRest ==
  \A s \in Saves : InFlight(s) => save[s].own = None /\ marking # save[s].page
ReadSoFar ==
  /\ job.at = "bands" => job.conf.preamp = page[save[job.by].page].staged.preamp
  /\ job.at \in {"validate", "set"} => AsSaved(job.conf)
Kept == /\ disk \notin NoFile => AsSaved(disk)
        /\ live # Empty => AsSaved(live)

EditInv == NoEdit => CopiesRest /\ ReadSoFar /\ Kept

(* What a command in the thread may rely on.                                *)
LEMMA CopyIsNormal ==
  ASSUME IInv, CopiesRest, NEW s \in Saves, InFlight(s)
  PROVE  /\ Copy(s) = page[save[s].page].staged
         /\ Copy(s) \in Configs /\ Normal(Copy(s))
<1>1. save[s].own = None /\ marking # save[s].page /\ save[s].page \in Pages
  BY DEF CopiesRest, IInv, PageInv
<1>2. Copy(s) = page[save[s].page].staged
  BY <1>1 DEF Copy
<1> QED
  BY <1>1, <1>2, CopyIsConfig DEF IInv, PageInv

(* The save whose pipeline is being read is under way.                      *)
LEMMA ReadingSave ==
  ASSUME IInv, job.at \in {"preamp", "bands", "persist"}
  PROVE  job.by \in Saves /\ InFlight(job.by)
BY DEF IInv, JobInv, Commands, InFlight

(* A step that changes neither what the thread has read nor the working     *)
(* copy of a save under way, and keeps what is filed and run in order.      *)
LEMMA CopiesStay ==
  ASSUME IInv, EditInv, NoEdit' => NoEdit, NoEdit' => Kept',
         job' = job \/ job'.at \notin {"bands", "validate", "set"},
         \A s \in Saves :
           /\ InFlight(s)' /\ NoEdit' => save'[s].own = None /\ marking' # save'[s].page
           /\ InFlight(s) /\ NoEdit' /\ job' = job /\ job.by = s =>
                /\ save'[s].page = save[s].page
                /\ page'[save[s].page].staged = page[save[s].page].staged
  PROVE  EditInv'
<1> SUFFICES ASSUME NoEdit' PROVE CopiesRest' /\ ReadSoFar' /\ Kept'
  BY DEF EditInv
<1>1. ReadSoFar
  BY DEF EditInv
<1>2. CopiesRest'
  BY DEF CopiesRest
<1>3. ReadSoFar'
  <2>1. CASE job'.at \notin {"bands", "validate", "set"}
    BY <2>1 DEF ReadSoFar
  <2>2. CASE job' = job /\ job.at = "bands"
    BY <2>2, <1>1, ReadingSave DEF ReadSoFar
  <2>3. CASE job' = job /\ job.at \in {"validate", "set"}
    BY <2>3, <1>1 DEF ReadSoFar, AsSaved, Normal
  <2> QED
    BY <2>1, <2>2, <2>3
<1> QED
  BY <1>2, <1>3

LEMMA KeptStays ==
  ASSUME EditInv, NoEdit' => NoEdit, disk' \in {disk, Unreadable}, live' \in {live, Empty}
  PROVE  NoEdit' => Kept'
BY DEF EditInv, Kept, AsSaved, Normal, NoFile

LEMMA NothingRead ==
  ASSUME IInv, EditInv, disk' \in {disk, Unreadable}, live' \in {live, Empty},
         NoEdit' => NoEdit,
         job' = job \/ job'.at \notin {"bands", "validate", "set"},
         \A s \in Saves :
           /\ InFlight(s)' /\ NoEdit' => save'[s].own = None /\ marking' # save'[s].page
           /\ InFlight(s) /\ NoEdit' /\ job' = job /\ job.by = s =>
                /\ save'[s].page = save[s].page
                /\ page'[save[s].page].staged = page[save[s].page].staged
  PROVE  EditInv'
BY CopiesStay, KeptStays

(* The pages leave the saves alone, or disturb them with an edit.           *)
LEMMA PagesKeepEditInv ==
  ASSUME IInv, EditInv, NEW p \in Pages,
         Reset(p) \/ ClickSave(p) \/ \E b \in Bands : Edit(p, b)
  PROVE  EditInv'
<1> USE DistinctValues
<1>1. ASSUME NEW b \in Bands, Edit(p, b)
      PROVE  EditInv'
  <2>1. /\ page' = [page EXCEPT ![p].staged.bands = b] /\ marking' = p
        /\ disturbed' = [s \in Saves |-> IF s \in SavesOf(p) /\ InFlight(s)
                                         THEN disturbed[s] \cup {"edit"} ELSE disturbed[s]]
        /\ UNCHANGED <<disk, live, save, queue, job>>
    BY <1>1 DEF Edit, Disturb
  <2>2. NoEdit' => NoEdit /\ \A s \in Saves : InFlight(s) => save[s].page # p
    BY <2>1 DEF NoEdit, SavesOf
  <2>3. \A q \in Pages : q # p => page'[q] = page[q]
    BY <2>1 DEF IInv, TypeOK
  <2>4. \A s \in Saves : InFlight(s) => save[s].page \in Pages
    BY DEF IInv, PageInv
  <2>5. \A s \in Saves : InFlight(s)' = InFlight(s)
    BY <2>1 DEF InFlight
  <2>6. NoEdit => CopiesRest
    BY DEF EditInv
  <2> QED
    BY <2>1, <2>2, <2>3, <2>4, <2>5, <2>6, NothingRead DEF CopiesRest
<1>2. CASE Reset(p)
  <2>1. /\ page' = [page EXCEPT ![p].staged = page[p].saved]
        /\ save' = Detached(p)
        /\ disturbed' = [s \in Saves |-> IF s \in SavesOf(p) /\ InFlight(s)
                                         THEN disturbed[s] \cup {"edit"} ELSE disturbed[s]]
        /\ UNCHANGED <<disk, live, marking, queue, job>>
    BY <1>2 DEF Reset, Disturb
  <2>2. NoEdit' => NoEdit /\ \A s \in Saves : InFlight(s) => save[s].page # p
    BY <2>1 DEF NoEdit, SavesOf
  <2>3. \A q \in Pages : q # p => page'[q] = page[q]
    BY <2>1 DEF IInv, TypeOK
  <2>4. \A s \in Saves : InFlight(s) => save[s].page \in Pages
    BY DEF IInv, PageInv
  <2>5. NoEdit' => \A s \in Saves : save'[s] = save[s]
    BY <2>1, <2>2 DEF Detached, SavesOf
  <2>6. NoEdit' => \A s \in Saves : InFlight(s)' = InFlight(s)
    BY <2>5 DEF InFlight
  <2>7. NoEdit => CopiesRest
    BY DEF EditInv
  <2> QED
    BY <2>1, <2>2, <2>3, <2>4, <2>5, <2>6, <2>7, NothingRead DEF CopiesRest
<1>3. CASE ClickSave(p)
  <2>1. PICK s \in Saves :
          /\ save' = [save EXCEPT ![s] = [at |-> "push", page |-> p, own |-> None]]
          /\ save[s].at = "new"
          /\ \A t \in Saves : disturbed[t] \subseteq disturbed'[t]
    BY <1>3 DEF ClickSave
  <2>2. marking = None /\ UNCHANGED <<disk, live, page, marking, job>>
    BY <1>3 DEF ClickSave, LoopFree
  <2>3. NoEdit' => NoEdit
    BY <2>1 DEF NoEdit
  <2>4. /\ save'[s] = [at |-> "push", page |-> p, own |-> None]
        /\ \A t \in Saves : t # s => save'[t] = save[t]
    BY <2>1 DEF IInv, TypeOK
  <2>5. ~ InFlight(s) /\ \A t \in Saves : t # s => InFlight(t)' = InFlight(t)
    BY <2>1, <2>4 DEF InFlight
  <2>6. NoEdit => CopiesRest
    BY DEF EditInv
  <2>7. \A t \in Saves : InFlight(t)' /\ NoEdit' => save'[t].own = None /\ marking' # save'[t].page
    BY <2>2, <2>3, <2>4, <2>5, <2>6 DEF CopiesRest
  <2> QED
    BY <2>2, <2>3, <2>4, <2>5, <2>7, NothingRead
<1> QED
  BY <1>1, <1>2, <1>3
(* A page that opens has no save, and may file the default.                 *)
LEMMA OpenKeepsEditInv ==
  ASSUME IInv, EditInv, NEW p \in Pages, Open(p)
  PROVE  EditInv'
<1> USE DistinctValues
<1>1. /\ ~ page[p].open /\ UNCHANGED <<live, marking, save, job, disturbed>>
      /\ disk' = IF disk = None THEN Protected(Flat) ELSE disk
      /\ \A q \in Pages : q # p => page'[q] = page[q]
  BY DEF Open, IInv, TypeOK
<1>2. NoEdit' => NoEdit
  BY <1>1 DEF NoEdit
<1>3. NoEdit' => Kept'
  <2>1. Normal(Protected(Flat))
    BY DEF Normal, Protected
  <2> QED
    BY <1>1, <1>2, <2>1 DEF EditInv, Kept, AsSaved, Normal
<1>4. \A s \in Saves : InFlight(s) => save[s].page \in Pages /\ save[s].page # p
  BY <1>1 DEF IInv, PageInv
<1>5. \A s \in Saves : InFlight(s)' = InFlight(s)
  BY <1>1 DEF InFlight
<1>6. NoEdit => CopiesRest
  BY DEF EditInv
<1> QED
  BY <1>1, <1>2, <1>3, <1>4, <1>5, <1>6, CopiesStay DEF CopiesRest

(* The page being marked has no save that was not edited.                   *)
LEMMA MarkChangedKeepsEditInv ==
  ASSUME IInv, EditInv, MarkChanged
  PROVE  EditInv'
<1> USE DistinctValues
<1>1. /\ marking' = None /\ UNCHANGED <<disk, live, save, job, disturbed>>
      /\ \A q \in Pages : q # marking => page'[q] = page[q]
  BY DEF MarkChanged, IInv, TypeOK
<1>2. NoEdit' => NoEdit
  BY <1>1 DEF NoEdit
<1>3. \A s \in Saves : InFlight(s) => save[s].page \in Pages
  BY DEF IInv, PageInv
<1>4. \A s \in Saves : InFlight(s)' = InFlight(s)
  BY <1>1 DEF InFlight
<1>5. NoEdit => CopiesRest
  BY DEF EditInv
<1> QED
  BY <1>1, <1>2, <1>3, <1>4, <1>5, NothingRead DEF CopiesRest

(* A handler that goes on submits the working copy of that moment.          *)
LEMMA HandlerKeepsEditInv ==
  ASSUME IInv, EditInv, NEW s \in Saves, HandlerStep(s)
  PROVE  EditInv'
<1> USE DistinctValues
<1>1. /\ marking = None /\ UNCHANGED <<disk, live, marking, job, disturbed>>
      /\ InFlight(s)
  BY DEF HandlerStep, ResumePushed, ResumePersisted, ReportSaved, Resume, LoopFree, InFlight
<1>2. NoEdit' => NoEdit
  BY <1>1 DEF NoEdit
<1>3. \A t \in Saves : InFlight(t) => save[t].page \in Pages
  BY DEF IInv, PageInv
<1>4. NoEdit => CopiesRest
  BY DEF EditInv
<1>5. CASE ReportSaved(s)
  <2>1. /\ save' = [save EXCEPT ![s].at = "end"]
        /\ page' = [page EXCEPT ![save[s].page].saved = page[save[s].page].staged]
    BY <1>5 DEF ReportSaved
  <2>2. \A q \in Pages : page'[q].staged = page[q].staged
    BY <2>1, <1>1, <1>3 DEF IInv, TypeOK
  <2>3. \A t \in Saves : /\ save'[t].own = save[t].own /\ save'[t].page = save[t].page
                         /\ InFlight(t)' => InFlight(t)
    BY <2>1 DEF IInv, TypeOK, InFlight
  <2> QED
    BY <1>1, <1>2, <1>3, <1>4, <2>2, <2>3, NothingRead DEF CopiesRest
<1>6. ASSUME NEW from, NEW kind, Resume(s, from, kind)
      PROVE  EditInv'
  <2>1. save' = [save EXCEPT ![s].at = kind, ![s].own = None] /\ UNCHANGED page
    BY <1>6 DEF Resume
  <2>2. \A t \in Saves : /\ save'[t].own \in {save[t].own, None} /\ save'[t].page = save[t].page
                         /\ InFlight(t)' => InFlight(t)
    BY <2>1, <1>1 DEF IInv, TypeOK, InFlight
  <2> QED
    BY <1>1, <1>2, <1>3, <1>4, <2>1, <2>2, NothingRead DEF CopiesRest
<1> QED
  BY <1>5, <1>6 DEF HandlerStep, ResumePushed, ResumePersisted

(* What happens to the player or to the file edits nothing.                 *)
LEMMA OutsideKeepsEditInv ==
  ASSUME IInv, EditInv, Reconnect \/ SubmitResync \/ Damage
  PROVE  EditInv'
<1>1. /\ disk' \in {disk, Unreadable} /\ live' \in {live, Empty}
      /\ UNCHANGED <<page, marking, save, job>>
      /\ \A s \in Saves : disturbed[s] \subseteq disturbed'[s]
  BY DEF Reconnect, SubmitResync, Damage, Disturb
<1>2. NoEdit' => NoEdit
  BY <1>1 DEF NoEdit
<1>3. NoEdit => CopiesRest
  BY DEF EditInv
<1>4. \A s \in Saves : InFlight(s)' = InFlight(s)
  BY <1>1 DEF InFlight
<1> QED
  BY <1>1, <1>2, <1>3, <1>4, NothingRead DEF CopiesRest

LEMMA KillKeepsEditInv ==
  ASSUME IInv, EditInv, Kill
  PROVE  EditInv'
<1>1. /\ job' = NoJob /\ UNCHANGED <<disk, live, disturbed>>
      /\ save' = [s \in Saves |-> IF InFlight(s) THEN [save[s] EXCEPT !.at = "end"] ELSE save[s]]
  BY DEF Kill
<1>2. \A s \in Saves : ~ InFlight(s)'
  BY <1>1 DEF InFlight, IInv, TypeOK
<1>3. NoEdit' => NoEdit
  BY <1>1 DEF NoEdit
<1>4. job'.at = "none"
  BY <1>1 DEF NoJob
<1>5. NoEdit' => Kept'
  BY <1>1, <1>3, KeptStays
<1>6. CopiesRest' /\ ReadSoFar'
  BY <1>2, <1>4 DEF CopiesRest, ReadSoFar
<1> QED
  BY <1>5, <1>6 DEF EditInv

(* The command in the thread ends, and files or runs what was in order.     *)
LEMMA ReturnKeepsEditInv ==
  ASSUME IInv, EditInv, NEW at \in {"pushed", "persisted", "cleared", "end"}, Return(at),
         UNCHANGED <<page, marking, disturbed>>, NoEdit => Kept'
  PROVE  EditInv'
<1>1. NoEdit' => NoEdit
  BY DEF NoEdit
<1>2. job'.at = "none"
  BY DEF Return, NoJob
<1>3. \A s \in Saves : /\ save'[s].own = save[s].own /\ save'[s].page = save[s].page
                       /\ InFlight(s)' => InFlight(s)
  <2>1. CASE job.kind = "resync"
    BY <2>1 DEF Return, InFlight
  <2>2. CASE job.kind \in Commands
    <3>1. job.by \in Saves /\ InFlight(job.by) /\ save' = [save EXCEPT ![job.by].at = at]
      BY <2>2, CommandsAreStages DEF Return, IInv, JobInv, InFlight
    <3> QED
      BY <3>1 DEF IInv, TypeOK, InFlight
  <2>3. CASE job.kind = "none"
    <3>1. job.by = 0 /\ save' = [save EXCEPT ![job.by].at = at]
      BY <2>3 DEF Return, IInv, JobInv, NoJob
    <3>2. 0 \notin Saves
      BY DEF Saves
    <3> QED
      BY <3>1, <3>2 DEF IInv, TypeOK, InFlight
  <2> QED
    BY <2>1, <2>2, <2>3 DEF IInv, JobInv
<1>4. NoEdit => CopiesRest
  BY DEF EditInv
<1>5. NoEdit' => CopiesRest' /\ ReadSoFar'
  BY <1>1, <1>2, <1>3, <1>4 DEF CopiesRest, ReadSoFar
<1> QED
  BY <1>1, <1>5 DEF EditInv

(* A step of the command in the thread that only reads: it reads what is in *)
(* order.                                                                   *)
LEMMA ReadingKeepsEditInv ==
  ASSUME EditInv, UNCHANGED <<disk, live, page, marking, save, disturbed>>,
         NoEdit => ReadSoFar'
  PROVE  EditInv'
<1>1. NoEdit' = NoEdit
  BY DEF NoEdit
<1>2. CopiesRest' = CopiesRest
  BY DEF CopiesRest, InFlight
<1>3. Kept => Kept'
  BY DEF Kept, AsSaved, Normal
<1> QED
  BY <1>1, <1>2, <1>3 DEF EditInv

LEMMA WorkerKeepsEditInv ==
  ASSUME IInv, EditInv, WorkerStep \/ CallFails
  PROVE  EditInv'
<1> USE DistinctValues
<1>0. /\ NoEdit => CopiesRest /\ ReadSoFar /\ Kept
      /\ job.conf \in Configs
  BY DEF EditInv, IInv, JobInv
<1>1. CASE TakeCommand
  <2>1. /\ UNCHANGED <<disk, live, page, marking, save, disturbed>>
        /\ job'.at = FirstStep(Head(queue).kind)
    BY <1>1 DEF TakeCommand, NoJob
  <2>2. Head(queue).kind \in Commands \cup {"resync"}
    <3>1. Head(queue) = queue[1] /\ 1 \in DOMAIN queue
      <4> DEFINE C == [kind : Commands \cup {"resync"}, by : Saves \cup {0}]
      <4>1. queue \in Seq(C) /\ queue # <<>>
        BY <1>1 DEF TakeCommand, IInv, QueueInv
      <4> HIDE DEF C
      <4> QED
        BY <4>1
    <3> QED
      BY <3>1, QueuedCommand
  <2>3. job'.at \notin {"bands", "validate", "set"}
    BY <2>1, <2>2 DEF FirstStep, Commands
  <2> QED
    BY <2>1, <2>3, ReadingKeepsEditInv DEF ReadSoFar
<1>2. CASE ReadPreamp
  <2>1. /\ UNCHANGED <<disk, live, page, marking, save, disturbed>>
        /\ job.at = "preamp"
        /\ job' = [job EXCEPT !.at = "bands", !.conf.preamp = Copy(job.by).preamp]
    BY <1>2 DEF ReadPreamp
  <2>2. job.by \in Saves /\ InFlight(job.by)
    BY <2>1, ReadingSave
  <2>3. job'.at = "bands" /\ job'.by = job.by /\ job'.conf.preamp = Copy(job.by).preamp
    BY <2>1, <1>0 DEF IInv, JobInv, Configs
  <2>4. NoEdit => Copy(job.by) = page[save[job.by].page].staged
    BY <2>2, <1>0, CopyIsNormal
  <2> QED
    BY <2>1, <2>3, <2>4, ReadingKeepsEditInv DEF ReadSoFar
<1>3. CASE ReadBands
  <2>1. /\ UNCHANGED <<disk, live, page, marking, save, disturbed>>
        /\ job.at = "bands"
        /\ job' = [job EXCEPT !.at = "validate", !.conf.bands = Copy(job.by).bands]
    BY <1>3 DEF ReadBands
  <2>2. job.by \in Saves /\ InFlight(job.by)
    BY <2>1, ReadingSave
  <2>3. /\ job'.at = "validate" /\ job'.conf.bands = Copy(job.by).bands
        /\ job'.conf.preamp = job.conf.preamp
    BY <2>1, <1>0 DEF IInv, JobInv, Configs
  <2>4. NoEdit => Copy(job.by) = page[save[job.by].page].staged /\ Normal(Copy(job.by))
    BY <2>2, <1>0, CopyIsNormal
  <2>5. NoEdit => AsSaved(job'.conf)
    BY <2>1, <2>3, <2>4, <1>0 DEF ReadSoFar, AsSaved, Normal
  <2> QED
    BY <2>1, <2>3, <2>5, ReadingKeepsEditInv DEF ReadSoFar, AsSaved, Normal
<1>4. CASE ReadStored
  <2>1. UNCHANGED <<disk, live, page, marking, disturbed>>
    BY <1>4 DEF ReadStored
  <2>2. CASE disk \in NoFile
    <3>1. Return("end") /\ (NoEdit => Kept')
      BY <1>4, <2>1, <2>2, <1>0 DEF ReadStored, Kept, AsSaved, Normal
    <3> QED
      BY <2>1, <3>1, ReturnKeepsEditInv
  <2>3. CASE disk \notin NoFile
    <3>1. job'.at = "validate" /\ job'.conf = disk /\ UNCHANGED save
      BY <1>4, <2>3 DEF ReadStored, IInv, JobInv
    <3>2. NoEdit => AsSaved(job'.conf)
      BY <3>1, <2>3, <1>0 DEF Kept
    <3> QED
      BY <2>1, <3>1, <3>2, ReadingKeepsEditInv DEF ReadSoFar, AsSaved, Normal
  <2> QED
    BY <2>2, <2>3
<1>5. CASE Validate
  <2>1. job.at = "validate" /\ UNCHANGED <<disk, live, page, marking, disturbed>>
    BY <1>5 DEF Validate
  <2>2. CASE job.conf.bands \in Invalid
    <3>1. Return("end") /\ (NoEdit => Kept')
      BY <1>5, <2>1, <2>2, <1>0 DEF Validate, Kept, AsSaved, Normal
    <3> QED
      BY <2>1, <3>1, ReturnKeepsEditInv
  <2>3. CASE job.conf.bands \notin Invalid
    <3>1. job'.at = "set" /\ job'.conf = job.conf /\ UNCHANGED save
      BY <1>5, <2>3 DEF Validate, IInv, JobInv
    <3>2. NoEdit => AsSaved(job'.conf)
      BY <3>1, <2>1, <1>0 DEF ReadSoFar
    <3> QED
      BY <2>1, <3>1, <3>2, ReadingKeepsEditInv DEF ReadSoFar, AsSaved, Normal
  <2> QED
    BY <2>2, <2>3
<1>6. CASE SetConfig
  <2>1. /\ job.at = "set" /\ live' = job.conf /\ Return("pushed")
        /\ UNCHANGED <<disk, page, marking, disturbed>>
    BY <1>6 DEF SetConfig
  <2>2. NoEdit => Kept'
    BY <2>1, <1>0 DEF ReadSoFar, Kept, AsSaved, Normal
  <2> QED
    BY <2>1, <2>2, ReturnKeepsEditInv
<1>7. CASE Persist
  <2>1. /\ job.at = "persist" /\ disk' = Updated(Copy(job.by)) /\ Return("persisted")
        /\ UNCHANGED <<live, page, marking, disturbed>>
    BY <1>7 DEF Persist
  <2>2. job.by \in Saves /\ InFlight(job.by)
    BY <2>1, ReadingSave
  <2>3. NoEdit => Normal(Copy(job.by))
    BY <2>2, <1>0, CopyIsNormal
  <2>4. NoEdit => Kept'
    BY <2>1, <2>3, <1>0 DEF Kept, AsSaved, Normal, Updated, NoFile
  <2> QED
    BY <2>1, <2>4, ReturnKeepsEditInv
<1>8. CASE ClearClips
  <2>1. Return("cleared") /\ UNCHANGED <<disk, live, page, marking, disturbed>>
    BY <1>8 DEF ClearClips
  <2>2. NoEdit => Kept'
    BY <2>1, <1>0 DEF Kept, AsSaved, Normal
  <2> QED
    BY <2>1, <2>2, ReturnKeepsEditInv
<1>9. CASE CallFails
  <2>1. /\ Return("end") /\ UNCHANGED <<disk, page, marking, disturbed>>
        /\ live' = live \/ (job.at = "set" /\ live' = job.conf)
    BY <1>9 DEF CallFails
  <2>2. NoEdit => Kept'
    BY <2>1, <1>0 DEF ReadSoFar, Kept, AsSaved, Normal
  <2> QED
    BY <2>1, <2>2, ReturnKeepsEditInv
<1> QED
  BY <1>1, <1>2, <1>3, <1>4, <1>5, <1>6, <1>7, <1>8, <1>9 DEF WorkerStep

(* Whatever the daemon runs without its protected pre-amp was filed so      *)
(* before the program started, or was edited while it was being saved.      *)
THEOREM ProtectedPreamp == Spec => []ProtectedUnlessEdited
<1>1. Init => EditInv
  <2> SUFFICES ASSUME Init PROVE CopiesRest /\ ReadSoFar /\ Kept
    BY DEF EditInv
  <2>1. /\ save = [s \in Saves |-> NotClicked] /\ job = NoJob
        /\ disk \in Stored /\ live \in {Empty} \cup ({disk} \ NoFile)
    BY DEF Init
  <2>2. CopiesRest /\ ReadSoFar
    BY <2>1 DEF CopiesRest, ReadSoFar, InFlight, NotClicked, NoJob
  <2>3. Kept
    BY <2>1 DEF Kept, AsSaved
  <2> QED
    BY <2>2, <2>3
<1>2. IInv /\ EditInv /\ [Next]_vars => EditInv'
  <2> SUFFICES ASSUME IInv, EditInv, [Next]_vars PROVE EditInv'
    OBVIOUS
  <2>1. ASSUME NEW p \in Pages, Open(p) \/ Reset(p) \/ ClickSave(p) \/ \E b \in Bands : Edit(p, b)
        PROVE  EditInv'
    BY <2>1, OpenKeepsEditInv, PagesKeepEditInv
  <2>2. ASSUME NEW s \in Saves, HandlerStep(s)
        PROVE  EditInv'
    BY <2>2, HandlerKeepsEditInv
  <2>3. CASE MarkChanged \/ Reconnect \/ SubmitResync \/ Damage \/ Kill
    BY <2>3, MarkChangedKeepsEditInv, OutsideKeepsEditInv, KillKeepsEditInv
  <2>4. CASE WorkerStep \/ CallFails
    BY <2>4, WorkerKeepsEditInv
  <2>5. CASE UNCHANGED vars
    <3>1. UNCHANGED <<disk, live, page, marking, save, disturbed, job>>
      BY <2>5 DEF vars
    <3>2. NoEdit => ReadSoFar'
      BY <3>1 DEF EditInv, ReadSoFar, AsSaved, Normal
    <3> QED
      BY <3>1, <3>2, ReadingKeepsEditInv
  <2> QED
    BY <2>1, <2>2, <2>3, <2>4, <2>5 DEF Next
<1>3. IInv /\ EditInv => ProtectedUnlessEdited
  BY DEF IInv, InvalidNeverLive, EditInv, NoEdit, Kept, AsSaved, Normal, ProtectedUnlessEdited
<1> QED
  BY <1>1, <1>2, <1>3, StrengtheningHolds, PTL DEF Spec
=============================================================================
