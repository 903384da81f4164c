-------------------------- MODULE CommandQueueProofs --------------------------
(***************************************************************************)
(* Proofs about CommandQueue, for any number of submissions and any set of *)
(* coalesce keys: the inductive invariant IInv, and the three safety       *)
(* properties it implies.                                                  *)
(*                                                                         *)
(* The step that matters is the hand-over from one command to the next:    *)
(* Finish and Wake both leave the worker with the futures fut and the rest *)
(* of a batch, and go on with the batch, with a fresh drain, or rest.      *)
(* HandOver(fut) is what holds at that point inside the step.              *)
(***************************************************************************)
EXTENDS CommandQueue, WellFoundedInduction, TLAPS

(* A non-empty set of positions has a greatest one: the survivor among the  *)
(* commands that share a key.                                               *)
LEMMA GreatestPosition ==
  ASSUME NEW n \in Nat, NEW T \in SUBSET (1..n), T # {}
  PROVE  \E m \in T : \A k \in T : k <= m
<1> DEFINE U == {n - k : k \in T}
<1>0. \A k \in T : k \in Nat /\ k <= n /\ n - k \in Nat
  OBVIOUS
<1>1. U \subseteq Nat /\ U # {}
  <2>1. U \subseteq Nat
    BY <1>0
  <2>2. PICK k \in T : TRUE
    OBVIOUS
  <2>3. n - k \in U
    BY <2>2
  <2>4. QED
    BY <2>1, <2>3
<1>2. \E x \in U : \A y \in U : ~ (<<y, x>> \in OpToRel(<, Nat))
  BY <1>1, NatLessThanWellFounded, WFMin, Zenon
<1>3. PICK x \in U : \A y \in U : ~ (<<y, x>> \in OpToRel(<, Nat))
  BY <1>2
<1>4. \A y \in U : ~ (y < x)
  BY <1>1, <1>3 DEF OpToRel
<1>5. PICK m \in T : x = n - m
  OBVIOUS
<1>6. \A k \in T : n - k \in U /\ k \in Int /\ n - k \in Int
  BY <1>0
<1>7. \A k \in T : k <= m
  BY <1>4, <1>5, <1>6
<1>8. QED
  BY <1>7

-----------------------------------------------------------------------------
HandOver(fut) ==
  /\ fut \in [Commands -> FutureStates]
  /\ \A c \in Commands : fut[c] = "unsubmitted" <=> c > submitted
  /\ \A c \in Commands : fut[c] = "pending" =>
       \/ \E i \in DOMAIN queue : queue[i] = c
       \/ \E i \in Runnable(batch, pos, fut) : batch[i] = c
  /\ \A c \in Commands : fut[c] = "superseded" =>
       /\ \A i \in DOMAIN started : started[i] # c
       /\ \A i \in DOMAIN queue : queue[i] # c
       /\ \A i \in DOMAIN batch : batch[i] = c => i \in Replaced(batch)
       /\ \E d \in Commands :
            /\ d > c /\ key[d] = key[c] /\ key[d] # NoKey
            /\ fut[d] \notin {"unsubmitted", "superseded"}
            /\ \A i \in DOMAIN queue : queue[i] # d

(* Commands and their futures, as facts the provers can use directly.       *)
LEMMA SequenceFacts ==
  ASSUME TypeOK
  PROVE  /\ Len(queue) \in Nat /\ DOMAIN queue = 1..Len(queue)
         /\ Len(batch) \in Nat /\ DOMAIN batch = 1..Len(batch)
         /\ Len(started) \in Nat /\ DOMAIN started = 1..Len(started)
         /\ \A i \in DOMAIN queue : queue[i] \in Commands
         /\ \A i \in DOMAIN batch : batch[i] \in Commands
         /\ \A i \in DOMAIN started : started[i] \in Commands
         /\ Commands \subseteq Nat /\ submitted \in Nat
BY QueueAssumption DEF TypeOK, Commands

(* Wake hands over the futures as they are.                                 *)
LEMMA WakeHandsOver ==
  ASSUME IInv, worker = "get"
  PROVE  HandOver(future) /\ Runnable(batch, pos, future) = {}
<1>1. batch = <<>> /\ thread = NoCommand
  BY DEF IInv, WorkerInv
<1>2. Runnable(batch, pos, future) = {}
  BY <1>1 DEF Runnable
<1>3. NoCommand \notin Commands
  BY DEF NoCommand, Commands
<1>4. \A c \in Commands : future[c] = "pending" =>
        \E i \in DOMAIN queue : queue[i] = c
  BY <1>1, <1>2, <1>3 DEF IInv, FutureInv, NothingForgotten
<1>5. QED
  BY <1>2, <1>4 DEF HandOver, IInv, TypeOK, FutureInv, SupersededInv

(* Finish hands over with the finished command's future done.               *)
LEMMA FinishHandsOver ==
  ASSUME IInv, worker = "run", NEW outcome \in Outcomes
  PROVE  HandOver([future EXCEPT ![thread] = IF @ = "pending" THEN outcome ELSE @])
<1> DEFINE fut == [future EXCEPT ![thread] = IF @ = "pending" THEN outcome ELSE @]
<1>1. pos \in DOMAIN batch /\ thread = batch[pos] /\ thread \in Commands
  BY SequenceFacts DEF IInv, WorkerInv
<1>2. future \in [Commands -> FutureStates] /\ fut \in [Commands -> FutureStates]
  BY <1>1 DEF IInv, TypeOK, Outcomes, FutureStates
<1>3. \A c \in Commands : /\ c # thread => fut[c] = future[c]
                          /\ fut[c] # "pending" \/ c # thread
                          /\ fut[c] # future[c] =>
                               future[c] = "pending" /\ fut[c] \in Outcomes
  BY <1>1, <1>2 DEF Outcomes
<1>4. \A c \in Commands : fut[c] = "unsubmitted" <=> c > submitted
  BY <1>3 DEF IInv, FutureInv, Outcomes
<1>5. \A i \in Runnable(batch, pos, future) : i \in Runnable(batch, pos, fut)
  BY <1>3, SequenceFacts DEF IInv, Runnable, Outcomes
<1>6. \A c \in Commands : fut[c] = "pending" =>
        \/ \E i \in DOMAIN queue : queue[i] = c
        \/ \E i \in Runnable(batch, pos, fut) : batch[i] = c
  BY <1>3, <1>5 DEF IInv, FutureInv, NothingForgotten
<1>7. \A c \in Commands : fut[c] = "superseded" <=> future[c] = "superseded"
  BY <1>3 DEF Outcomes
<1>8. \A c \in Commands : future[c] \notin {"unsubmitted", "superseded"} =>
                            fut[c] \notin {"unsubmitted", "superseded"}
  BY <1>3 DEF Outcomes
<1>9. ASSUME NEW c \in Commands, fut[c] = "superseded"
      PROVE  /\ \A i \in DOMAIN started : started[i] # c
             /\ \A i \in DOMAIN queue : queue[i] # c
             /\ \A i \in DOMAIN batch : batch[i] = c => i \in Replaced(batch)
             /\ \E d \in Commands :
                  /\ d > c /\ key[d] = key[c] /\ key[d] # NoKey
                  /\ fut[d] \notin {"unsubmitted", "superseded"}
                  /\ \A i \in DOMAIN queue : queue[i] # d
  BY <1>7, <1>8, <1>9 DEF IInv, SupersededInv
<1>10. QED
  BY <1>2, <1>4, <1>6, <1>9 DEF HandOver

-----------------------------------------------------------------------------
(* The worker goes on with the batch it has.                                *)
LEMMA ContinuePreservesIInv ==
  ASSUME IInv, NEW fut, HandOver(fut),
         StartNext(batch, pos, fut),
         future' = fut, UNCHANGED <<queue, submitted, key>>
  PROVE  IInv'
<1> USE DEF IInv
<1>0. /\ Len(batch) \in Nat /\ DOMAIN batch = 1..Len(batch)
      /\ Len(started) \in Nat /\ DOMAIN started = 1..Len(started)
      /\ \A k \in DOMAIN queue : queue[k] \in Nat
      /\ \A k \in DOMAIN batch : batch[k] \in Nat /\ batch[k] \in Commands
      /\ \A k \in DOMAIN started : started[k] \in Nat /\ started[k] \in Commands
      /\ submitted \in Nat /\ pos \in Nat
  BY SequenceFacts DEF TypeOK
<1>1. PICK i \in Runnable(batch, pos, fut) :
        /\ \A j \in Runnable(batch, pos, fut) : i <= j
        /\ batch' = batch /\ pos' = i /\ worker' = "run" /\ thread' = batch[i]
        /\ started' = Append(started, batch[i])
  BY DEF StartNext
<1>2. i \in DOMAIN batch /\ i > pos /\ i \notin Replaced(batch) /\ batch[i] \in Commands
      /\ i \in Nat
  BY <1>0, <1>1 DEF Runnable
<1>3. /\ DOMAIN started' = 1..(Len(started) + 1)
      /\ \A k \in DOMAIN started : started'[k] = started[k]
      /\ started'[Len(started) + 1] = batch[i]
      /\ started' \in Seq(Commands)
  BY <1>0, <1>1, <1>2 DEF TypeOK
<1>4. \A k \in DOMAIN started' :
        \/ k \in DOMAIN started /\ started'[k] = started[k]
        \/ k = Len(started) + 1 /\ started'[k] = batch[i]
  BY <1>0, <1>3
<1>5. TypeOK'
  BY <1>0, <1>1, <1>2, <1>3 DEF TypeOK, HandOver
<1>6. OrderInv'
  <2>1. Increasing(started)'
    <3>1. \A k \in DOMAIN started : started[k] < batch[i]
      BY <1>2 DEF OrderInv
    <3>2. ASSUME NEW k \in DOMAIN started', NEW l \in DOMAIN started', k < l
          PROVE  started'[k] < started'[l]
      BY <3>1, <3>2, <1>0, <1>3, <1>4 DEF OrderInv, Increasing
    <3>3. QED
      BY <3>2 DEF Increasing
  <2>2. ASSUME NEW k \in DOMAIN started', NEW j \in DOMAIN batch, j > i
        PROVE  started'[k] < batch[j]
    <3>1. batch[i] < batch[j] /\ j > pos
      BY <2>2, <1>0, <1>2 DEF OrderInv, Increasing
    <3>2. QED
      BY <3>1, <1>4 DEF OrderInv
  <2>3. \A k \in DOMAIN started', j \in DOMAIN queue : started'[k] < queue[j]
    BY <1>2, <1>4 DEF OrderInv
  <2>4. \A k \in DOMAIN started' : started'[k] <= submitted
    BY <1>2, <1>4 DEF OrderInv
  <2>5. QED
    BY <1>1, <2>1, <2>2, <2>3, <2>4 DEF OrderInv, Increasing
<1>7. WorkerInv'
  BY <1>1, <1>2 DEF WorkerInv
<1>8. FutureInv'
  <2>1. ASSUME NEW c \in Commands, fut[c] = "pending"
        PROVE  \/ \E j \in DOMAIN queue : queue[j] = c
               \/ c = batch[i]
               \/ \E j \in Runnable(batch, i, fut) : batch[j] = c
    <3>1. CASE \E j \in DOMAIN queue : queue[j] = c
      BY <3>1
    <3>2. CASE \E j \in Runnable(batch, pos, fut) : batch[j] = c
      <4>1. PICK j \in Runnable(batch, pos, fut) : batch[j] = c
        BY <3>2
      <4>2. i <= j /\ j \in Nat
        BY <4>1, <1>0, <1>1 DEF Runnable
      <4>3. j = i \/ j \in Runnable(batch, i, fut)
        BY <4>1, <4>2, <1>2 DEF Runnable
      <4>4. QED
        BY <4>1, <4>3
    <3>3. QED
      BY <2>1, <3>1, <3>2 DEF HandOver
  <2>2. Runnable(batch, pos, future)' = Runnable(batch, i, fut)
    BY <1>1 DEF Runnable, Replaced
  <2>3. NothingForgotten'
    BY <1>1, <2>1, <2>2 DEF NothingForgotten
  <2>4. QED
    BY <2>3 DEF FutureInv, HandOver
<1>9. SupersededInv'
  <2>1. Replaced(batch)' = Replaced(batch)
    BY <1>1 DEF Replaced
  <2>2. ASSUME NEW c \in Commands, fut[c] = "superseded", NEW k \in DOMAIN started'
        PROVE  started'[k] # c
    BY <2>2, <1>2, <1>4 DEF HandOver
  <2>3. QED
    BY <1>1, <2>1, <2>2 DEF SupersededInv, HandOver
<1>10. QED
  BY <1>5, <1>6, <1>7, <1>8, <1>9

(* The worker finds nothing left to do.                                     *)
LEMMA RestPreservesIInv ==
  ASSUME IInv, NEW fut, HandOver(fut),
         Runnable(batch, pos, fut) = {}, queue = <<>>,
         Rest, future' = fut, UNCHANGED <<queue, submitted, key>>
  PROVE  IInv'
<1> USE SequenceFacts DEF IInv
<1>1. TypeOK'
  BY DEF TypeOK, HandOver, Rest, NoCommand
<1>2. OrderInv'
  BY DEF OrderInv, Increasing, Rest
<1>3. WorkerInv'
  BY DEF WorkerInv, Rest
<1>4. FutureInv'
  BY DEF FutureInv, NothingForgotten, HandOver
<1>5. SupersededInv'
  BY DEF SupersededInv, HandOver, Rest
<1>6. QED
  BY <1>1, <1>2, <1>3, <1>4, <1>5

-----------------------------------------------------------------------------
(* What coalescing does to the futures of a freshly drained queue: nobody   *)
(* who still waits is skipped, and whoever was replaced has a survivor.     *)
LEMMA CoalesceSettles ==
  ASSUME IInv, NEW fut, HandOver(fut), Runnable(batch, pos, fut) = {}
  PROVE  LET settled == Resolved(queue, fut) IN
         /\ settled \in [Commands -> FutureStates]
         /\ \A c \in Commands : settled[c] = "unsubmitted" <=> c > submitted
         /\ \A c \in Commands : settled[c] = "pending" =>
              \E i \in Runnable(queue, 0, settled) : queue[i] = c
         /\ \A c \in Commands : settled[c] = "superseded" =>
              /\ \A i \in DOMAIN started : started[i] # c
              /\ \A i \in DOMAIN queue : queue[i] = c => i \in Replaced(queue)
              /\ \E d \in Commands :
                   /\ d > c /\ key[d] = key[c] /\ key[d] # NoKey
                   /\ settled[d] \notin {"unsubmitted", "superseded"}
<1> USE DEF IInv
<1> DEFINE settled == Resolved(queue, fut)
<1>0. /\ Len(queue) \in Nat /\ DOMAIN queue = 1..Len(queue)
      /\ \A k \in DOMAIN queue : queue[k] \in Nat /\ queue[k] \in Commands
      /\ \A k \in DOMAIN started : started[k] \in Nat
      /\ submitted \in Nat /\ Commands \subseteq Nat
  BY SequenceFacts
<1>1. fut \in [Commands -> FutureStates]
  BY DEF HandOver
<1>2. \A c \in Commands : settled[c] =
        IF fut[c] = "pending" /\ \E i \in Replaced(queue) : queue[i] = c
        THEN "superseded" ELSE fut[c]
  BY DEF Resolved
<1>3. settled \in [Commands -> FutureStates]
  BY <1>1 DEF Resolved, FutureStates
<1>4. \A i, j \in DOMAIN queue : queue[i] = queue[j] => i = j
  <2>1. \A i, j \in DOMAIN queue : i < j => queue[i] < queue[j]
    BY DEF OrderInv, Increasing
  <2>2. \A i, j \in DOMAIN queue : i \in Int /\ j \in Int
    BY <1>0
  <2>3. QED
    BY <1>0, <2>1, <2>2
<1>5. \A c \in Commands : settled[c] = "unsubmitted" <=> c > submitted
  BY <1>2 DEF HandOver
<1>6. ASSUME NEW c \in Commands, settled[c] = "pending"
      PROVE  \E i \in Runnable(queue, 0, settled) : queue[i] = c
  <2>1. fut[c] = "pending" /\ ~ \E i \in Replaced(queue) : queue[i] = c
    BY <1>2, <1>6
  <2>2. PICK i \in DOMAIN queue : queue[i] = c
    BY <2>1 DEF HandOver
  <2>3. i > 0 /\ i \notin Replaced(queue) /\ settled[queue[i]] # "cancelled"
    BY <1>0, <1>6, <2>1, <2>2
  <2>4. QED
    BY <2>2, <2>3 DEF Runnable
<1>7. ASSUME NEW c \in Commands, settled[c] = "superseded", fut[c] = "superseded"
      PROVE  /\ \A i \in DOMAIN started : started[i] # c
             /\ \A i \in DOMAIN queue : queue[i] = c => i \in Replaced(queue)
             /\ \E d \in Commands :
                  /\ d > c /\ key[d] = key[c] /\ key[d] # NoKey
                  /\ settled[d] \notin {"unsubmitted", "superseded"}
  <2>1. PICK d \in Commands :
          /\ d > c /\ key[d] = key[c] /\ key[d] # NoKey
          /\ fut[d] \notin {"unsubmitted", "superseded"}
          /\ \A i \in DOMAIN queue : queue[i] # d
    BY <1>7 DEF HandOver
  <2>2. settled[d] = fut[d]
    BY <1>2, <2>1 DEF Replaced
  <2>3. QED
    BY <1>7, <2>1, <2>2 DEF HandOver
<1>8. ASSUME NEW c \in Commands, settled[c] = "superseded", fut[c] # "superseded"
      PROVE  /\ \A i \in DOMAIN started : started[i] # c
             /\ \A i \in DOMAIN queue : queue[i] = c => i \in Replaced(queue)
             /\ \E d \in Commands :
                  /\ d > c /\ key[d] = key[c] /\ key[d] # NoKey
                  /\ settled[d] \notin {"unsubmitted", "superseded"}
  <2>1. PICK i \in Replaced(queue) : queue[i] = c
    BY <1>2, <1>8
  <2>2. i \in DOMAIN queue /\ key[c] # NoKey
    BY <2>1 DEF Replaced
  <2> DEFINE T == {j \in 1..Len(queue) : key[queue[j]] = key[c]}
  <2>3. PICK m \in T : \A k \in T : k <= m
    <3>1. i \in T /\ T \in SUBSET (1..Len(queue))
      BY <1>0, <2>1, <2>2
    <3>2. QED
      BY <1>0, <3>1, GreatestPosition
  <2>4. m \in DOMAIN queue /\ key[queue[m]] = key[c] /\ m \in Nat
    BY <1>0, <2>3
  <2>5. i < m
    <3>1. PICK j \in DOMAIN queue : j > i /\ key[queue[j]] = key[queue[i]]
      BY <2>1 DEF Replaced
    <3>2. j \in T /\ j \in Nat /\ i \in Nat
      BY <1>0, <2>1, <2>2, <3>1
    <3>3. QED
      BY <2>3, <2>4, <3>1, <3>2
  <2>6. m \notin Replaced(queue)
    <3>1. SUFFICES ASSUME NEW j \in DOMAIN queue, j > m, key[queue[j]] = key[queue[m]]
                   PROVE  FALSE
      BY DEF Replaced
    <3>2. j \in T /\ j \in Nat
      BY <1>0, <2>4, <3>1
    <3>3. QED
      BY <2>3, <2>4, <3>1, <3>2
  <2>7. queue[m] \in Commands /\ queue[m] > c /\ queue[m] <= submitted
    BY <1>0, <2>1, <2>2, <2>4, <2>5 DEF OrderInv, Increasing
  <2>8. settled[queue[m]] = fut[queue[m]]
    <3>1. ~ \E k \in Replaced(queue) : queue[k] = queue[m]
      BY <1>4, <2>4, <2>6 DEF Replaced
    <3>2. QED
      BY <1>2, <2>7, <3>1
  <2>9. settled[queue[m]] \notin {"unsubmitted", "superseded"}
    BY <1>0, <2>4, <2>7, <2>8 DEF HandOver
  <2>10. \A k \in DOMAIN started : started[k] # c
    BY <1>0, <2>1, <2>2 DEF OrderInv
  <2>11. \A k \in DOMAIN queue : queue[k] = c => k \in Replaced(queue)
    BY <1>4, <2>1, <2>2
  <2>12. QED
    BY <2>2, <2>4, <2>7, <2>9, <2>10, <2>11
<1>9. QED
  BY <1>3, <1>5, <1>6, <1>7, <1>8

(* The worker drains the queue and starts its first survivor, or rests when *)
(* every drained command was cancelled.                                     *)
LEMMA DrainPreservesIInv ==
  ASSUME IInv, NEW fut, HandOver(fut), Runnable(batch, pos, fut) = {},
         Drain(fut), UNCHANGED <<submitted, key>>
  PROVE  IInv'
<1> USE DEF IInv
<1> DEFINE settled == Resolved(queue, fut)
<1>0. /\ Len(queue) \in Nat /\ DOMAIN queue = 1..Len(queue)
      /\ Len(started) \in Nat /\ DOMAIN started = 1..Len(started)
      /\ \A k \in DOMAIN queue : queue[k] \in Nat /\ queue[k] \in Commands
      /\ \A k \in DOMAIN started : started[k] \in Nat /\ started[k] \in Commands
      /\ submitted \in Nat
  BY SequenceFacts
<1>1. queue' = <<>> /\ future' = settled /\ queue # <<>>
  BY DEF Drain
<1>2. /\ settled \in [Commands -> FutureStates]
      /\ \A c \in Commands : settled[c] = "unsubmitted" <=> c > submitted
      /\ \A c \in Commands : settled[c] = "pending" =>
           \E i \in Runnable(queue, 0, settled) : queue[i] = c
      /\ \A c \in Commands : settled[c] = "superseded" =>
           /\ \A i \in DOMAIN started : started[i] # c
           /\ \A i \in DOMAIN queue : queue[i] = c => i \in Replaced(queue)
           /\ \E d \in Commands :
                /\ d > c /\ key[d] = key[c] /\ key[d] # NoKey
                /\ settled[d] \notin {"unsubmitted", "superseded"}
  BY CoalesceSettles
<1> HIDE DEF settled
<1>3. CASE Runnable(queue, 0, settled) # {}
  <2>1. PICK i \in Runnable(queue, 0, settled) :
          /\ \A j \in Runnable(queue, 0, settled) : i <= j
          /\ batch' = queue /\ pos' = i /\ worker' = "run" /\ thread' = queue[i]
          /\ started' = Append(started, queue[i])
    BY <1>3 DEF Drain, StartNext, settled
  <2>2. i \in DOMAIN queue /\ i \in Nat /\ i \notin Replaced(queue) /\ queue[i] \in Commands
    BY <1>0, <2>1 DEF Runnable
  <2>3. /\ DOMAIN started' = 1..(Len(started) + 1)
        /\ \A k \in DOMAIN started : started'[k] = started[k]
        /\ started'[Len(started) + 1] = queue[i]
        /\ started' \in Seq(Commands)
    BY <1>0, <2>1, <2>2 DEF TypeOK
  <2>4. \A k \in DOMAIN started' :
          \/ k \in DOMAIN started /\ started'[k] = started[k]
          \/ k = Len(started) + 1 /\ started'[k] = queue[i]
    BY <1>0, <2>3
  <2>5. TypeOK'
    BY <1>0, <1>1, <1>2, <2>1, <2>2, <2>3 DEF TypeOK
  <2>6. \A k \in DOMAIN started, l \in DOMAIN queue : started[k] < queue[l]
    BY DEF OrderInv
  <2>7. Increasing(started)'
    <3>1. ASSUME NEW k \in DOMAIN started', NEW l \in DOMAIN started', k < l
          PROVE  started'[k] < started'[l]
      BY <3>1, <1>0, <2>2, <2>3, <2>4, <2>6 DEF OrderInv, Increasing
    <3>2. QED
      BY <3>1 DEF Increasing
  <2>8. ASSUME NEW k \in DOMAIN started', NEW j \in DOMAIN queue, j > i
        PROVE  started'[k] < queue[j]
    <3>1. queue[i] < queue[j]
      BY <2>8, <1>0, <2>2 DEF OrderInv, Increasing
    <3>2. QED
      BY <3>1, <2>4, <2>6
  <2>9. \A k \in DOMAIN started' : started'[k] <= submitted
    BY <2>2, <2>4 DEF OrderInv
  <2>10. OrderInv'
    BY <1>1, <2>1, <2>7, <2>8, <2>9 DEF OrderInv, Increasing
  <2>11. WorkerInv'
    BY <2>1, <2>2 DEF WorkerInv
  <2>12. Runnable(batch, pos, future)' = Runnable(queue, i, settled)
    BY <1>1, <2>1 DEF Runnable, Replaced
  <2>13. ASSUME NEW c \in Commands, settled[c] = "pending"
         PROVE  c = queue[i] \/ \E j \in Runnable(queue, i, settled) : queue[j] = c
    <3>1. PICK j \in Runnable(queue, 0, settled) : queue[j] = c
      BY <1>2, <2>13
    <3>2. i <= j /\ j \in Nat
      BY <1>0, <2>1, <3>1 DEF Runnable
    <3>3. j = i \/ j \in Runnable(queue, i, settled)
      BY <2>2, <3>1, <3>2 DEF Runnable
    <3>4. QED
      BY <3>1, <3>3
  <2>14. FutureInv'
    BY <1>1, <1>2, <2>1, <2>12, <2>13 DEF FutureInv, NothingForgotten
  <2>15. Replaced(batch)' = Replaced(queue)
    BY <2>1 DEF Replaced
  <2>16. ASSUME NEW c \in Commands, settled[c] = "superseded", NEW k \in DOMAIN started'
         PROVE  started'[k] # c
    BY <2>16, <1>2, <2>2, <2>4
  <2>17. SupersededInv'
    BY <1>1, <1>2, <2>1, <2>15, <2>16 DEF SupersededInv
  <2>18. QED
    BY <2>5, <2>10, <2>11, <2>14, <2>17
<1>4. CASE Runnable(queue, 0, settled) = {}
  <2>1. Rest
    BY <1>4 DEF Drain, settled
  <2>2. TypeOK'
    BY <1>1, <1>2, <2>1 DEF TypeOK, Rest, NoCommand
  <2>3. OrderInv'
    BY <1>1, <2>1 DEF OrderInv, Increasing, Rest
  <2>4. WorkerInv'
    BY <2>1 DEF WorkerInv, Rest
  <2>5. FutureInv'
    BY <1>1, <1>2, <1>4 DEF FutureInv, NothingForgotten
  <2>6. SupersededInv'
    BY <1>1, <1>2, <2>1 DEF SupersededInv, Rest
  <2>7. QED
    BY <2>2, <2>3, <2>4, <2>5, <2>6
<1>5. QED
  BY <1>3, <1>4

-----------------------------------------------------------------------------
(* submit() appends the newest command behind everything else.              *)
LEMMA SubmitPreservesIInv ==
  ASSUME IInv, NEW k \in Keys \cup {NoKey}, Submit(k)
  PROVE  IInv'
<1> USE DEF IInv
<1> DEFINE c == submitted + 1
<1>0. /\ Len(queue) \in Nat /\ DOMAIN queue = 1..Len(queue)
      /\ \A i \in DOMAIN queue : queue[i] \in Nat /\ queue[i] \in Commands
      /\ \A i \in DOMAIN batch : batch[i] \in Nat /\ batch[i] \in Commands
      /\ \A i \in DOMAIN started : started[i] \in Nat
      /\ submitted \in Nat /\ Commands \subseteq Nat
  BY SequenceFacts
<1>1. c \in Commands /\ c \in Nat /\ submitted' = c
  BY <1>0, QueueAssumption DEF Submit, Commands
<1>2. /\ key' = [key EXCEPT ![c] = k]
      /\ future' = [future EXCEPT ![c] = "pending"]
      /\ queue' = Append(queue, c)
      /\ UNCHANGED <<batch, pos, worker, thread, started>>
  BY DEF Submit
<1>3. /\ \A d \in Commands : d # c => key'[d] = key[d] /\ future'[d] = future[d]
      /\ key'[c] = k /\ future'[c] = "pending"
  BY <1>1, <1>2 DEF TypeOK
<1>4. /\ DOMAIN queue' = 1..(Len(queue) + 1)
      /\ \A i \in DOMAIN queue : queue'[i] = queue[i]
      /\ queue'[Len(queue) + 1] = c
      /\ queue' \in Seq(Commands)
  BY <1>0, <1>1, <1>2 DEF TypeOK
<1>5. \A i \in DOMAIN queue' :
        \/ i \in DOMAIN queue /\ queue'[i] = queue[i]
        \/ i = Len(queue) + 1 /\ queue'[i] = c
  BY <1>0, <1>4
<1>6. TypeOK'
  BY <1>0, <1>1, <1>2, <1>4, QueueAssumption DEF TypeOK, FutureStates, Commands, Submit
<1>7. /\ \A i \in DOMAIN queue : queue[i] < c
      /\ \A i \in DOMAIN batch : batch[i] < c
      /\ \A i \in DOMAIN started : started[i] < c
  BY <1>0 DEF OrderInv
<1>8. OrderInv'
  <2>1. Increasing(queue)'
    <3>1. ASSUME NEW i \in DOMAIN queue', NEW j \in DOMAIN queue', i < j
          PROVE  queue'[i] < queue'[j]
      BY <3>1, <1>0, <1>4, <1>5, <1>7 DEF OrderInv, Increasing
    <3>2. QED
      BY <3>1 DEF Increasing
  <2>2. \A i \in DOMAIN started, j \in DOMAIN queue' : started[i] < queue'[j]
    BY <1>5, <1>7 DEF OrderInv
  <2>3. \A i \in DOMAIN batch, j \in DOMAIN queue' : batch[i] < queue'[j]
    BY <1>5, <1>7 DEF OrderInv
  <2>4. \A i \in DOMAIN queue' : queue'[i] <= c
    BY <1>0, <1>5, <1>7
  <2>5. \A i \in DOMAIN started : started[i] <= c
    BY <1>0, <1>7
  <2>6. \A i \in DOMAIN batch : batch[i] <= c
    BY <1>0, <1>7
  <2>7. QED
    BY <1>1, <1>2, <2>1, <2>2, <2>3, <2>4, <2>5, <2>6 DEF OrderInv, Increasing
<1>9. WorkerInv'
  BY <1>2 DEF WorkerInv
<1>10. /\ Replaced(batch)' = Replaced(batch)
       /\ Runnable(batch, pos, future)' = Runnable(batch, pos, future)
  <2>1. \A i \in DOMAIN batch : key'[batch[i]] = key[batch[i]]
                                /\ future'[batch[i]] = future[batch[i]]
    BY <1>0, <1>1, <1>3, <1>7
  <2>2. Replaced(batch)' = Replaced(batch)
    BY <1>2, <2>1 DEF Replaced
  <2>3. QED
    BY <1>2, <2>1, <2>2 DEF Runnable
<1>11. FutureInv'
  <2>1. \A d \in Commands : future'[d] = "unsubmitted" <=> d > c
    BY <1>0, <1>1, <1>3 DEF FutureInv
  <2>2. ASSUME NEW d \in Commands, future'[d] = "pending", worker # "stopped"
        PROVE  \/ \E i \in DOMAIN queue' : queue'[i] = d
               \/ thread = d
               \/ \E i \in Runnable(batch, pos, future) : batch[i] = d
    <3>1. CASE d = c
      BY <3>1, <1>0, <1>4
    <3>2. CASE d # c
      <4>1. future[d] = "pending"
        BY <2>2, <3>2, <1>3
      <4>2. \/ \E i \in DOMAIN queue : queue[i] = d
            \/ thread = d
            \/ \E i \in Runnable(batch, pos, future) : batch[i] = d
        BY <2>2, <4>1 DEF FutureInv, NothingForgotten
      <4>3. \A i \in DOMAIN queue : i \in DOMAIN queue' /\ queue'[i] = queue[i]
        BY <1>0, <1>4
      <4>4. QED
        BY <4>2, <4>3
    <3>3. QED
      BY <3>1, <3>2
  <2>3. QED
    BY <1>1, <1>2, <1>10, <2>1, <2>2 DEF FutureInv, NothingForgotten
<1>12. SupersededInv'
  <2>1. ASSUME NEW d \in Commands, future'[d] = "superseded"
        PROVE  /\ \A i \in DOMAIN started : started[i] # d
               /\ \A i \in DOMAIN queue' : queue'[i] # d
               /\ \A i \in DOMAIN batch : batch[i] = d => i \in Replaced(batch)
               /\ \E e \in Commands :
                    /\ e > d /\ key'[e] = key'[d] /\ key'[e] # NoKey
                    /\ future'[e] \notin {"unsubmitted", "superseded"}
                    /\ \A i \in DOMAIN queue' : queue'[i] # e
    <3>1. d # c /\ future[d] = "superseded"
      BY <2>1, <1>3
    <3>2. PICK e \in Commands :
            /\ e > d /\ key[e] = key[d] /\ key[e] # NoKey
            /\ future[e] \notin {"unsubmitted", "superseded"}
            /\ \A i \in DOMAIN queue : queue[i] # e
      BY <3>1 DEF SupersededInv
    <3>3. e # c
      BY <1>0, <1>1, <3>2 DEF FutureInv
    <3>4. QED
      BY <1>3, <1>5, <3>1, <3>2, <3>3 DEF SupersededInv
  <2>2. QED
    BY <1>2, <1>10, <2>1 DEF SupersededInv
<1>13. QED
  BY <1>6, <1>8, <1>9, <1>11, <1>12

(* A cancelled submitter is no longer waited for; its command may still be  *)
(* the one an earlier command was coalesced into.                           *)
LEMMA CancelPreservesIInv ==
  ASSUME IInv, NEW c \in Commands, Cancel(c)
  PROVE  IInv'
<1> USE DEF IInv
<1>1. /\ future[c] = "pending" /\ future' = [future EXCEPT ![c] = "cancelled"]
      /\ UNCHANGED <<submitted, key, queue, batch, pos, worker, thread, started>>
  BY DEF Cancel
<1>2. \A d \in Commands : d # c => future'[d] = future[d]
  BY <1>1 DEF TypeOK
<1>3. future'[c] = "cancelled"
  BY <1>1 DEF TypeOK
<1>4. TypeOK'
  BY <1>1 DEF TypeOK, FutureStates
<1>5. OrderInv' /\ WorkerInv'
  BY <1>1 DEF OrderInv, Increasing, WorkerInv
<1>6. FutureInv'
  <2>1. \A d \in Commands : future'[d] = "unsubmitted" <=> d > submitted
    BY <1>1, <1>2, <1>3 DEF FutureInv
  <2>2. ASSUME NEW d \in Commands, d # c, NEW i \in Runnable(batch, pos, future),
               batch[i] = d
        PROVE  i \in Runnable(batch, pos, future)'
    BY <1>1, <1>2, <2>2 DEF Runnable, Replaced
  <2>3. ASSUME NEW d \in Commands, future'[d] = "pending"
        PROVE  d # c /\ future[d] = "pending"
    BY <1>2, <1>3, <2>3
  <2>4. QED
    BY <1>1, <2>1, <2>2, <2>3 DEF FutureInv, NothingForgotten
<1>7. SupersededInv'
  <2>1. Replaced(batch)' = Replaced(batch)
    BY <1>1 DEF Replaced
  <2>2. \A d \in Commands : future'[d] = "superseded" => future[d] = "superseded"
    BY <1>2, <1>3
  <2>3. \A d \in Commands : future[d] \notin {"unsubmitted", "superseded"} =>
                              future'[d] \notin {"unsubmitted", "superseded"}
    BY <1>2, <1>3
  <2>4. QED
    BY <1>1, <2>1, <2>2, <2>3 DEF SupersededInv
<1>8. QED
  BY <1>4, <1>5, <1>6, <1>7

(* Stopping only ends the obligations.                                      *)
LEMMA StopPreservesIInv ==
  ASSUME IInv, Stop \/ Outlive
  PROVE  IInv'
<1> USE DEF IInv
<1>1. UNCHANGED <<submitted, key, future, queue, batch, pos, started>> /\ worker' = "stopped"
  BY DEF Stop, Outlive
<1>2. TypeOK'
  BY <1>1 DEF TypeOK, Stop, Outlive
<1>3. OrderInv' /\ WorkerInv'
  BY <1>1 DEF OrderInv, Increasing, WorkerInv
<1>4. FutureInv'
  BY <1>1 DEF FutureInv, NothingForgotten
<1>5. SupersededInv'
  BY <1>1 DEF SupersededInv, Replaced
<1>6. QED
  BY <1>2, <1>3, <1>4, <1>5

-----------------------------------------------------------------------------
LEMMA InitEstablishesIInv == Init => IInv
<1> SUFFICES ASSUME Init PROVE IInv
  OBVIOUS
<1>1. TypeOK
  BY QueueAssumption DEF Init, TypeOK, Commands, FutureStates, NoCommand
<1>2. OrderInv /\ WorkerInv
  BY DEF Init, OrderInv, Increasing, WorkerInv
<1>3. FutureInv
  BY QueueAssumption DEF Init, FutureInv, NothingForgotten, Commands
<1>4. SupersededInv
  BY DEF Init, SupersededInv
<1>5. QED
  BY <1>1, <1>2, <1>3, <1>4 DEF IInv

LEMMA NextPreservesIInv == IInv /\ [Next]_vars => IInv'
<1> SUFFICES ASSUME IInv, [Next]_vars PROVE IInv'
  OBVIOUS
<1>1. ASSUME NEW k \in Keys \cup {NoKey}, Submit(k) PROVE IInv'
  BY <1>1, SubmitPreservesIInv
<1>2. ASSUME NEW c \in Commands, Cancel(c) PROVE IInv'
  BY <1>2, CancelPreservesIInv
<1>3. CASE Wake
  <2>1. worker = "get" /\ Drain(future) /\ UNCHANGED <<submitted, key>>
    BY <1>3 DEF Wake
  <2>2. HandOver(future) /\ Runnable(batch, pos, future) = {}
    BY <2>1, WakeHandsOver
  <2>3. QED
    BY <2>1, <2>2, DrainPreservesIInv
<1>4. ASSUME NEW outcome \in Outcomes, Finish(outcome) PROVE IInv'
  <2> DEFINE fut == [future EXCEPT ![thread] = IF @ = "pending" THEN outcome ELSE @]
  <2>1. worker = "run" /\ UNCHANGED <<submitted, key>>
    BY <1>4 DEF Finish
  <2>2. HandOver(fut)
    BY <2>1, FinishHandsOver
  <2>3. \/ StartNext(batch, pos, fut) /\ future' = fut /\ UNCHANGED queue
        \/ Runnable(batch, pos, fut) = {} /\ Drain(fut)
        \/ Runnable(batch, pos, fut) = {} /\ queue = <<>> /\ Rest
             /\ future' = fut /\ UNCHANGED queue
    BY <1>4 DEF Finish
  <2> HIDE DEF fut
  <2>4. CASE StartNext(batch, pos, fut) /\ future' = fut /\ UNCHANGED queue
    BY <2>1, <2>2, <2>4, ContinuePreservesIInv
  <2>5. CASE Runnable(batch, pos, fut) = {} /\ Drain(fut)
    BY <2>1, <2>2, <2>5, DrainPreservesIInv
  <2>6. CASE Runnable(batch, pos, fut) = {} /\ queue = <<>> /\ Rest
               /\ future' = fut /\ UNCHANGED queue
    BY <2>1, <2>2, <2>6, RestPreservesIInv
  <2>7. QED
    BY <2>3, <2>4, <2>5, <2>6
<1>5. CASE Stop \/ Outlive
  BY <1>5, StopPreservesIInv
<1>6. CASE UNCHANGED vars
  BY <1>6 DEF vars, IInv, TypeOK, OrderInv, Increasing, WorkerInv, FutureInv,
              NothingForgotten, SupersededInv, Runnable, Replaced
<1>7. QED
  BY <1>1, <1>2, <1>3, <1>4, <1>5, <1>6 DEF Next

(* The inductive invariant holds in every reachable state of the queue.     *)
THEOREM Invariance == Spec => []IInv
<1>1. QED
  BY InitEstablishesIInv, NextPreservesIInv, PTL DEF Spec

(* Every variable keeps its type, whatever is submitted, cancelled, raised  *)
(* or stopped.                                                              *)
THEOREM TypeCorrect == Spec => []TypeOK
<1>1. IInv => TypeOK
  BY DEF IInv
<1>2. QED
  BY <1>1, Invariance, PTL

(* The writes reach their targets in submission order, each at most once.   *)
THEOREM OrderedWrites == Spec => []RunsInSubmissionOrder
<1>1. IInv => RunsInSubmissionOrder
  BY DEF IInv, OrderInv, Increasing, RunsInSubmissionOrder
<1>2. QED
  BY <1>1, Invariance, PTL

(* No submitter is left waiting for a command the worker has dropped.       *)
THEOREM NobodyForgotten == Spec => []NothingForgotten
<1>1. IInv => NothingForgotten
  BY DEF IInv, FutureInv
<1>2. QED
  BY <1>1, Invariance, PTL

(* A coalesced command never runs, and has a later command with its key     *)
(* that was not coalesced away.                                             *)
THEOREM CoalescedForALaterOne == Spec => []SupersededByLater
<1>1. IInv => SupersededByLater
  BY DEF IInv, SupersededInv, SupersededByLater
<1>2. QED
  BY <1>1, Invariance, PTL
=============================================================================
