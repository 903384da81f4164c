---------------------------- MODULE CommandQueue ----------------------------
(***************************************************************************)
(* audera/ui/streamer/commands.py: the queue every write of the web app    *)
(* goes through.  submit() appends a command and awaits its future; one    *)
(* worker task takes the first command, drains whatever else is queued     *)
(* into a batch, coalesces the batch by key and runs the survivors one     *)
(* after another in a worker thread.                                       *)
(*                                                                         *)
(* All of it runs on one asyncio loop, so the code between two awaits is   *)
(* one action.  Draining and coalescing happen in the same step as the end *)
(* of the previous command, because Queue.get() does not suspend when the  *)
(* queue is not empty.  Commands are numbered in submission order.         *)
(***************************************************************************)
EXTENDS Naturals, Sequences

CONSTANTS
  MaxCommands,  (* bound on the number of submissions                       *)
  Keys,         (* the coalesce keys in use, e.g. ('volume', id)            *)
  NoKey         (* coalesce_key=None                                        *)

ASSUME QueueAssumption == MaxCommands \in Nat /\ NoKey \notin Keys

VARIABLES
  submitted,    (* number of commands submitted so far                      *)
  key,          (* the coalesce_key of each command                         *)
  future,       (* the state of the future each submitter awaits            *)
  queue,        (* asyncio.Queue: submitted, not drained                    *)
  batch,        (* `survivors` of the last drain, replaced ones included    *)
  pos,          (* position in batch of the command the worker is at        *)
  worker,       (* "get": awaiting the queue; "run": awaiting the thread    *)
  thread,       (* the command whose callable a thread is executing, or 0   *)
  started       (* history: the commands whose callable started, in order   *)

vars == <<submitted, key, future, queue, batch, pos, worker, thread, started>>

Commands == 1..MaxCommands
NoCommand == 0

FutureStates == {"unsubmitted", "pending", "returned", "raised", "superseded", "cancelled"}
Outcomes == {"returned", "raised"}

Init ==
  /\ submitted = 0
  /\ key = [c \in Commands |-> NoKey]
  /\ future = [c \in Commands |-> "unsubmitted"]
  /\ queue = <<>>
  /\ batch = <<>>
  /\ pos = 0
  /\ worker = "get"
  /\ thread = NoCommand
  /\ started = <<>>

-----------------------------------------------------------------------------
(* Slip: the first command of a key survives, not the last.                 *)
EarlierWins(b) ==
  {i \in DOMAIN b : key[b[i]] # NoKey
                    /\ \E j \in DOMAIN b : j < i /\ key[b[j]] = key[b[i]]}

(* The positions _coalesce removes: a later command has the same key.       *)
Replaced(b) ==
  {i \in DOMAIN b : key[b[i]] # NoKey
                    /\ \E j \in DOMAIN b : j > i /\ key[b[j]] = key[b[i]]}

(* Slip: replaced commands are removed and their futures left pending.      *)
LeftPending(b, fut) == fut

(* _coalesce resolves the futures it replaces with None, unless done.       *)
Resolved(b, fut) ==
  [c \in Commands |->
     IF fut[c] = "pending" /\ \E i \in Replaced(b) : b[i] = c
     THEN "superseded" ELSE fut[c]]

(* Slip: a replaced command is resolved but stays in the batch.             *)
RunnableReplaced(b, p, fut) == {i \in DOMAIN b : i > p /\ fut[b[i]] # "cancelled"}

(* The positions after p whose callable will still be run.                  *)
Runnable(b, p, fut) ==
  {i \in DOMAIN b : i > p /\ i \notin Replaced(b) /\ fut[b[i]] # "cancelled"}

(* The worker goes to the next live command of batch b after position p.    *)
StartNext(b, p, fut) ==
  \E i \in Runnable(b, p, fut) :
    /\ \A j \in Runnable(b, p, fut) : i <= j
    /\ batch' = b
    /\ pos' = i
    /\ worker' = "run"
    /\ thread' = b[i]
    /\ started' = Append(started, b[i])

(* Slip: the position in the finished batch is kept for the next one.       *)
RestAtPosition ==
  /\ batch' = <<>>
  /\ worker' = "get"
  /\ thread' = NoCommand
  /\ UNCHANGED <<pos, started>>

(* No live command is left and the worker waits in Queue.get().             *)
Rest ==
  /\ batch' = <<>>
  /\ pos' = 0
  /\ worker' = "get"
  /\ thread' = NoCommand
  /\ UNCHANGED started

(* Queue.get(), the drain, _coalesce and the first steps of the batch.      *)
Drain(fut) ==
  LET settled == Resolved(queue, fut) IN
  /\ queue # <<>>
  /\ queue' = <<>>
  /\ future' = settled
  /\ IF Runnable(queue, 0, settled) # {} THEN StartNext(queue, 0, settled) ELSE Rest

-----------------------------------------------------------------------------
(* Slip: a control that coalesces is put ahead of what is queued already.   *)
SubmitAhead(k) ==
  /\ worker # "stopped"
  /\ submitted < MaxCommands
  /\ submitted' = submitted + 1
  /\ key' = [key EXCEPT ![submitted'] = k]
  /\ future' = [future EXCEPT ![submitted'] = "pending"]
  /\ queue' = IF k = NoKey THEN Append(queue, submitted') ELSE <<submitted'>> \o queue
  /\ UNCHANGED <<batch, pos, worker, thread, started>>

(* submit(): enqueue and await the future.  get() asserts the queue is up.  *)
Submit(k) ==
  /\ worker # "stopped"
  /\ submitted < MaxCommands
  /\ LET c == submitted + 1 IN
       /\ submitted' = c
       /\ key' = [key EXCEPT ![c] = k]
       /\ future' = [future EXCEPT ![c] = "pending"]
       /\ queue' = Append(queue, c)
  /\ UNCHANGED <<batch, pos, worker, thread, started>>

(* The submitting task is cancelled, and with it the future it awaits.  A   *)
(* callable already in its thread runs on.                                  *)
Cancel(c) ==
  /\ future[c] = "pending"
  /\ future' = [future EXCEPT ![c] = "cancelled"]
  /\ UNCHANGED <<submitted, key, queue, batch, pos, worker, thread, started>>

(* The worker wakes up in Queue.get().                                      *)
Wake ==
  /\ worker = "get"
  /\ Drain(future)
  /\ UNCHANGED <<submitted, key>>

(* The callable returned or raised; its future takes the outcome unless it  *)
(* is done already.  The worker goes on with the batch, or drains again.    *)
Finish(outcome) ==
  /\ worker = "run"
  /\ UNCHANGED <<submitted, key>>
  /\ LET fut == [future EXCEPT ![thread] = IF @ = "pending" THEN outcome ELSE @] IN
     \/ /\ Runnable(batch, pos, fut) # {}
        /\ StartNext(batch, pos, fut)
        /\ future' = fut
        /\ UNCHANGED queue
     \/ /\ Runnable(batch, pos, fut) = {} /\ queue # <<>>
        /\ Drain(fut)
     \/ /\ Runnable(batch, pos, fut) = {} /\ queue = <<>>
        /\ Rest
        /\ future' = fut
        /\ UNCHANGED queue

(* stop(): the worker task is cancelled wherever it waits.  The callable in *)
(* its thread cannot be interrupted, and nobody resolves its future.        *)
Stop ==
  /\ worker # "stopped"
  /\ worker' = "stopped"
  /\ UNCHANGED <<submitted, key, future, queue, batch, pos, thread, started>>

(* The thread that outlived the worker ends.                                *)
Outlive ==
  /\ worker = "stopped" /\ thread # NoCommand
  /\ thread' = NoCommand
  /\ UNCHANGED <<submitted, key, future, queue, batch, pos, worker, started>>

Next ==
  \/ \E k \in Keys \cup {NoKey} : Submit(k)
  \/ \E c \in Commands : Cancel(c)
  \/ Wake
  \/ \E outcome \in Outcomes : Finish(outcome)
  \/ Stop
  \/ Outlive

Spec == Init /\ [][Next]_vars

(* The loop runs the worker when it is ready, and every callable returns or *)
(* raises: the clients put a deadline on each call they make.  Submitting,  *)
(* cancelling and stopping are up to the environment.                       *)
FairSpec ==
  /\ Spec
  /\ WF_vars(Wake)
  /\ WF_vars(\E outcome \in Outcomes : Finish(outcome))

-----------------------------------------------------------------------------
(* Every variable has the shape the code gives it; the worker's position    *)
(* never leaves the batch it is working on.                                 *)
TypeOK ==
  /\ submitted \in 0..MaxCommands
  /\ key \in [Commands -> Keys \cup {NoKey}]
  /\ future \in [Commands -> FutureStates]
  /\ queue \in Seq(Commands)
  /\ batch \in Seq(Commands)
  /\ pos \in 0..Len(batch)
  /\ worker \in {"get", "run", "stopped"}
  /\ thread \in Commands \cup {NoCommand}
  /\ started \in Seq(Commands)

(* Coalescing, cancellation and errors never reorder the writes: callables  *)
(* start in the order they were submitted, each at most once ("one command  *)
(* at a time reaches the target").                                          *)
RunsInSubmissionOrder ==
  \A i, j \in DOMAIN started : i < j => started[i] < started[j]

(* While the worker lives, a submitter that still waits is waiting for      *)
(* something: its command is queued, is in a thread, or is ahead of the     *)
(* worker in the batch and will not be skipped.                             *)
NothingForgotten ==
  \A c \in Commands : future[c] = "pending" /\ worker # "stopped" =>
    \/ \E i \in DOMAIN queue : queue[i] = c
    \/ thread = c
    \/ \E i \in Runnable(batch, pos, future) : batch[i] = c

(* A command is coalesced away only in favour of a later command with its   *)
(* key that is not itself coalesced away, and it is never run as well ("the *)
(* replaced command's future resolves to None").                            *)
SupersededByLater ==
  \A c \in Commands : future[c] = "superseded" =>
    /\ \A i \in DOMAIN started : started[i] # c
    /\ \E d \in Commands :
         d > c /\ key[d] = key[c] /\ key[d] # NoKey
               /\ future[d] \notin {"unsubmitted", "superseded"}

(* The refinement mapping to the promise made to submitters.                *)
Phase ==
  [c \in Commands |->
     IF c > submitted THEN "new"
     ELSE IF c = thread THEN "running"
     ELSE IF \E i \in DOMAIN started : started[i] = c THEN "ended"
     ELSE IF future[c] = "superseded" THEN "superseded"
     ELSE IF future[c] = "cancelled" THEN "abandoned"
     ELSE "waiting"]

Promise == INSTANCE SerialExecutor WITH phase <- Phase, label <- key

(* The queue implements the serial executor: every step of the worker, the  *)
(* submitters and the threads is one step of it, or none.                   *)
ImplementsSerialExecutor == Promise!Spec

(* submit() returns: as long as the queue is not stopped, every submitter   *)
(* is answered, whatever is submitted, cancelled or raises meanwhile.       *)
EverySubmitterAnswered ==
  \A c \in Commands :
    future[c] = "pending" ~> future[c] # "pending" \/ worker = "stopped"

-----------------------------------------------------------------------------
(* The strengthening of the safety properties that every action preserves.  *)
Increasing(s) == \A i, j \in DOMAIN s : i < j => s[i] < s[j]

(* Started commands precede those ahead of the worker in the batch, which   *)
(* precede the queued ones, which precede those not submitted yet.          *)
OrderInv ==
  /\ Increasing(started) /\ Increasing(batch) /\ Increasing(queue)
  /\ \A i \in DOMAIN started, j \in DOMAIN batch : j > pos => started[i] < batch[j]
  /\ \A i \in DOMAIN started, j \in DOMAIN queue : started[i] < queue[j]
  /\ \A i \in DOMAIN batch, j \in DOMAIN queue : batch[i] < queue[j]
  /\ \A i \in DOMAIN started : started[i] <= submitted
  /\ \A i \in DOMAIN batch : batch[i] <= submitted
  /\ \A i \in DOMAIN queue : queue[i] <= submitted

WorkerInv ==
  /\ worker = "run" => pos \in DOMAIN batch /\ thread = batch[pos]
  /\ worker = "get" => batch = <<>> /\ thread = NoCommand

FutureInv ==
  /\ \A c \in Commands : future[c] = "unsubmitted" <=> c > submitted
  /\ NothingForgotten

(* A replaced command is behind the worker for good, and so is the decision *)
(* about the command it was replaced with.                                  *)
SupersededInv ==
  \A c \in Commands : future[c] = "superseded" =>
    /\ \A i \in DOMAIN started : started[i] # c
    /\ \A i \in DOMAIN queue : queue[i] # c
    /\ \A i \in DOMAIN batch : batch[i] = c => i \in Replaced(batch)
    /\ \E d \in Commands :
         /\ d > c /\ key[d] = key[c] /\ key[d] # NoKey
         /\ future[d] \notin {"unsubmitted", "superseded"}
         /\ \A i \in DOMAIN queue : queue[i] # d

IInv == TypeOK /\ OrderInv /\ WorkerInv /\ FutureInv /\ SupersededInv
=============================================================================
