----------------------- MODULE CommandQueueRefinement -----------------------
(***************************************************************************)
(* CommandQueue implements SerialExecutor, for any number of submissions   *)
(* and any set of coalesce keys.  A step of the worker is one Turn: what   *)
(* ran ends, what it drained and replaced is superseded, and the next      *)
(* command starts.                                                         *)
(***************************************************************************)
EXTENDS CommandQueueProofs

Ran(c) == \E i \in DOMAIN started : started[i] = c

(* What IInv does not say: a future has an outcome only once its callable  *)
(* started, and what is in a thread has started.                           *)
RanInv ==
  /\ thread # NoCommand => Ran(thread)
  /\ \A c \in Commands : future[c] \in Outcomes => Ran(c)

(* Waiting, in the terms of the queue. *)
LEMMA WaitingMeans ==
  ASSUME NEW c \in Commands
  PROVE  Phase[c] = "waiting" <=> /\ ~ (c > submitted) /\ c # thread /\ ~Ran(c)
                                  /\ future[c] \notin {"superseded", "cancelled"}
BY DEF Phase, Ran

(* A step that changes futures only by superseding those of S and by the   *)
(* outcome of what ran, and starts those of N, turns the phases.           *)
LEMMA PhaseTurns ==
  ASSUME NEW S \in SUBSET Commands, NEW N \in SUBSET Commands,
         UNCHANGED submitted,
         \A c \in Commands : c = thread => Ran(c),
         \A c \in Commands : Ran(c)' <=> Ran(c) \/ c \in N,
         \A c \in Commands : c = thread' <=> c \in N,
         \A c \in N : ~ (c > submitted),
         \A c \in S : ~ (c > submitted) /\ c \notin N /\ ~Ran(c) /\ future'[c] = "superseded",
         \A c \in Commands : c \notin S /\ ~Ran(c) => future'[c] = future[c]
  PROVE  Phase' = [c \in Commands |-> IF c \in N THEN "running"
                                      ELSE IF c \in S THEN "superseded"
                                      ELSE IF Phase[c] = "running" THEN "ended"
                                      ELSE Phase[c]]
<1>1. ASSUME NEW c \in Commands
      PROVE  Phase'[c] = IF c \in N THEN "running"
                         ELSE IF c \in S THEN "superseded"
                         ELSE IF Phase[c] = "running" THEN "ended"
                         ELSE Phase[c]
  <2>1. Phase[c] = IF c > submitted THEN "new"
                   ELSE IF c = thread THEN "running"
                   ELSE IF Ran(c) THEN "ended"
                   ELSE IF future[c] = "superseded" THEN "superseded"
                   ELSE IF future[c] = "cancelled" THEN "abandoned"
                   ELSE "waiting"
    BY DEF Phase, Ran
  <2>2. Phase'[c] = IF c > submitted THEN "new"
                    ELSE IF c = thread' THEN "running"
                    ELSE IF Ran(c)' THEN "ended"
                    ELSE IF future'[c] = "superseded" THEN "superseded"
                    ELSE IF future'[c] = "cancelled" THEN "abandoned"
                    ELSE "waiting"
    BY DEF Phase, Ran
  <2>3. /\ c = thread => Ran(c)
        /\ Ran(c)' <=> Ran(c) \/ c \in N
        /\ c = thread' <=> c \in N
        /\ c \in N => ~ (c > submitted)
        /\ c \in S => ~ (c > submitted) /\ c \notin N /\ ~Ran(c) /\ future'[c] = "superseded"
        /\ c \notin S /\ ~Ran(c) => future'[c] = future[c]
    OBVIOUS
  <2>4. QED
    BY <2>1, <2>2, <2>3
<1>2. Phase' = [c \in Commands |-> Phase'[c]]
  BY DEF Phase
<1>3. QED
  BY <1>1, <1>2

-----------------------------------------------------------------------------
(* Appending to what started. *)
LEMMA StartedGrows ==
  ASSUME TypeOK, NEW n \in Commands, started' = Append(started, n)
  PROVE  \A c \in Commands : Ran(c)' <=> Ran(c) \/ c \in {n}
<1>1. /\ Len(started) \in Nat /\ DOMAIN started = 1..Len(started)
      /\ DOMAIN started' = 1..(Len(started) + 1)
      /\ \A k \in DOMAIN started : started'[k] = started[k]
      /\ started'[Len(started) + 1] = n
  BY DEF TypeOK
<1>2. ASSUME NEW c \in Commands, Ran(c) \/ c = n
      PROVE  \E i \in DOMAIN started' : started'[i] = c
  BY <1>1, <1>2 DEF Ran
<1>3. ASSUME NEW c \in Commands, NEW i \in DOMAIN started', started'[i] = c
      PROVE  Ran(c) \/ c = n
  BY <1>1, <1>3 DEF Ran
<1>4. QED
  BY <1>2, <1>3 DEF Ran

(* Queued, and ahead of the worker, means not started. *)
LEMMA NotYet ==
  ASSUME IInv
  PROVE  /\ \A i \in DOMAIN queue : ~Ran(queue[i])
         /\ \A i \in DOMAIN batch : i > pos => ~Ran(batch[i])
<1>1. /\ \A i \in DOMAIN queue : queue[i] \in Nat
      /\ \A i \in DOMAIN batch : batch[i] \in Nat
      /\ \A i \in DOMAIN started : started[i] \in Nat
  BY SequenceFacts DEF IInv
<1>2. \A i \in DOMAIN started, j \in DOMAIN queue : started[i] # queue[j]
  BY <1>1 DEF IInv, OrderInv
<1>3. \A i \in DOMAIN started, j \in DOMAIN batch : j > pos => started[i] # batch[j]
  BY <1>1 DEF IInv, OrderInv
<1>4. QED
  BY <1>2, <1>3 DEF Ran

(* What is handed over, in the terms of the phases: nothing but the        *)
(* outcome of what is in the thread has changed.                           *)
Handed(fut) ==
  /\ HandOver(fut)
  /\ \A c \in Commands : ~Ran(c) => fut[c] = future[c]
  /\ \A c \in Commands : fut[c] \in Outcomes => Ran(c)

(* Wake hands over as it is, and Finish with the outcome of what ran. *)
LEMMA WakeHands ==
  ASSUME IInv, RanInv, worker = "get"
  PROVE  Handed(future)
BY WakeHandsOver DEF Handed, RanInv

(* Only what ran gets an outcome. *)
LEMMA FinishHands ==
  ASSUME IInv, RanInv, worker = "run", NEW outcome \in Outcomes
  PROVE  Handed([future EXCEPT ![thread] = IF @ = "pending" THEN outcome ELSE @])
<1> DEFINE fut == [future EXCEPT ![thread] = IF @ = "pending" THEN outcome ELSE @]
<1>1. HandOver(fut)
  BY FinishHandsOver
<1>2. thread \in Commands /\ thread # NoCommand /\ future \in [Commands -> FutureStates]
  <2>1. thread \in Commands
    BY SequenceFacts DEF IInv, WorkerInv
  <2>2. QED
    BY <2>1 DEF IInv, TypeOK, Commands, NoCommand
<1>3. Ran(thread)
  BY <1>2 DEF RanInv
<1>4. \A c \in Commands : c # thread => fut[c] = future[c]
  BY <1>2
<1>5. QED
  BY <1>1, <1>3, <1>4 DEF Handed, RanInv

(* What waits was not answered: it is queued, or ahead in the batch. *)
LEMMA WaitingIsPending ==
  ASSUME IInv, NEW fut, Handed(fut), NEW c \in Commands, Phase[c] = "waiting"
  PROVE  /\ fut[c] = "pending" /\ ~Ran(c)
         /\ \/ \E i \in DOMAIN queue : queue[i] = c
            \/ \E i \in Runnable(batch, pos, fut) : batch[i] = c
<1>1. ~ (c > submitted) /\ ~Ran(c) /\ future[c] \notin {"superseded", "cancelled"}
  BY WaitingMeans
<1>2. fut[c] \in FutureStates /\ fut[c] # "unsubmitted"
  BY <1>1 DEF Handed, HandOver
<1>3. fut[c] = future[c] /\ fut[c] \notin Outcomes
  BY <1>1 DEF Handed
<1>4. fut[c] = "pending"
  BY <1>1, <1>2, <1>3 DEF FutureStates, Outcomes
<1>5. QED
  BY <1>1, <1>4 DEF Handed, HandOver

-----------------------------------------------------------------------------
(* The worker goes on with its batch: one command starts. *)
LEMMA ContinueTurns ==
  ASSUME IInv, RanInv, NEW fut, Handed(fut),
         StartNext(batch, pos, fut),
         future' = fut, UNCHANGED <<queue, submitted, key>>
  PROVE  (\E n \in Commands : Promise!Turn({}, {n})) /\ RanInv'
<1>1. PICK i \in Runnable(batch, pos, fut) :
        /\ \A j \in Runnable(batch, pos, fut) : i <= j
        /\ thread' = batch[i] /\ started' = Append(started, batch[i])
  BY DEF StartNext
<1>2. i \in DOMAIN batch /\ i > pos /\ i \notin Replaced(batch) /\ fut[batch[i]] # "cancelled"
  BY <1>1 DEF Runnable
<1> DEFINE n == batch[i]
<1>3. n \in Commands /\ ~Ran(n) /\ ~ (n > submitted)
  <2>1. n \in Commands /\ n \in Nat /\ submitted \in Nat /\ n <= submitted
    BY <1>2, SequenceFacts DEF IInv, OrderInv
  <2>2. QED
    BY <1>2, <2>1, NotYet
<1>4. fut[n] = future[n] /\ fut[n] # "superseded"
  BY <1>2, <1>3 DEF Handed, HandOver
<1>5. \A c \in Commands : Ran(c)' <=> Ran(c) \/ c \in {n}
  BY <1>1, <1>3, StartedGrows DEF IInv
<1>6. \A c \in Commands : c = thread => Ran(c)
  BY DEF RanInv, Commands, NoCommand
<1>7. Phase[n] = "waiting"
  BY <1>2, <1>3, <1>4, <1>6, WaitingMeans
<1>8. Phase' = [c \in Commands |-> IF c \in {n} THEN "running"
                                   ELSE IF c \in {} THEN "superseded"
                                   ELSE IF Phase[c] = "running" THEN "ended"
                                   ELSE Phase[c]]
  <2>1. \A c \in Commands : c = thread' <=> c \in {n}
    BY <1>1
  <2>2. \A c \in Commands : c \notin {} /\ ~Ran(c) => future'[c] = future[c]
    BY DEF Handed
  <2>3. {n} \in SUBSET Commands /\ {} \in SUBSET Commands
    BY <1>3
  <2>4. /\ \A c \in {n} : ~ (c > submitted)
        /\ \A c \in {} : ~ (c > submitted) /\ c \notin {n} /\ ~Ran(c) /\ future'[c] = "superseded"
    BY <1>3
  <2> HIDE DEF n
  <2>5. QED
    BY <1>5, <1>6, <2>1, <2>2, <2>3, <2>4, PhaseTurns
<1>9. ASSUME NEW d \in Commands, d < n, Phase[d] = "waiting"
      PROVE  FALSE
  <2>1. \/ \E j \in DOMAIN queue : queue[j] = d
        \/ \E j \in Runnable(batch, pos, fut) : batch[j] = d
    BY <1>9, WaitingIsPending
  <2>2. ASSUME NEW j \in DOMAIN queue, queue[j] = d
        PROVE  FALSE
    BY <1>2, <1>9, <2>2, SequenceFacts DEF IInv, OrderInv
  <2>3. ASSUME NEW j \in Runnable(batch, pos, fut), batch[j] = d
        PROVE  FALSE
    <3>1. j \in DOMAIN batch /\ i <= j
      BY <1>1 DEF Runnable
    <3>2. QED
      BY <1>2, <1>9, <2>3, <3>1, SequenceFacts DEF IInv, OrderInv, Increasing
  <2>4. QED
    BY <2>1, <2>2, <2>3
<1>10. Promise!Turn({}, {n})
  BY <1>7, <1>8, <1>9
  DEF Promise!Turn, Promise!MayStart, Promise!MaySupersede, Promise!Commands, Commands
<1>11. RanInv'
  BY <1>1, <1>3, <1>5 DEF RanInv, Handed, Commands, NoCommand
<1>12. QED
  BY <1>3, <1>10, <1>11

(* The queue is drained: what is replaced is superseded, and the first     *)
(* survivor starts.                                                        *)
LEMMA DrainTurns ==
  ASSUME IInv, RanInv, NEW fut, Handed(fut), Runnable(batch, pos, fut) = {},
         Drain(fut), UNCHANGED <<submitted, key>>
  PROVE  /\ \E S \in SUBSET Commands :
              Promise!Turn(S, {}) \/ \E n \in Commands : Promise!Turn(S, {n})
         /\ RanInv'
<1> DEFINE S == {c \in Commands : fut[c] = "pending" /\ \E i \in Replaced(queue) : queue[i] = c}
<1>1. \A c \in Commands : future'[c] = IF c \in S THEN "superseded" ELSE fut[c]
  BY DEF Drain, Resolved
<1>2. \A c \in Commands : c = thread => Ran(c)
  BY DEF RanInv, Commands, NoCommand
<1>3. \A i \in DOMAIN queue : /\ queue[i] \in Commands /\ ~ (queue[i] > submitted)
                              /\ ~Ran(queue[i]) /\ queue[i] # thread
                              /\ fut[queue[i]] = future[queue[i]]
                              /\ fut[queue[i]] # "superseded"
  <2>1. \A i \in DOMAIN queue : queue[i] \in Commands /\ ~ (queue[i] > submitted)
    BY SequenceFacts DEF IInv, OrderInv
  <2>2. \A i \in DOMAIN queue : ~Ran(queue[i])
    BY NotYet
  <2>3. QED
    BY <1>2, <2>1, <2>2 DEF Handed, HandOver
<1>4. \A c \in S : \E i \in Replaced(queue) : i \in DOMAIN queue /\ queue[i] = c
  BY DEF Replaced
<1>5. \A c \in Commands : c \notin S /\ ~Ran(c) => future'[c] = future[c]
  BY <1>1 DEF Handed
<1>6. ASSUME NEW c \in S
      PROVE  Promise!MaySupersede(c)
  <2>1. PICK i \in DOMAIN queue : i \in Replaced(queue) /\ queue[i] = c
    BY <1>4, <1>6
  <2>2. PICK j \in DOMAIN queue : j > i /\ key[queue[j]] = key[c]
    BY <2>1 DEF Replaced
  <2>3. queue[j] > c /\ key[c] # NoKey
    BY <2>1, <2>2, SequenceFacts DEF IInv, OrderInv, Increasing, Replaced
  <2>4. Phase[queue[j]] \in {"waiting", "abandoned"}
    BY <1>3 DEF Phase, Ran
  <2>5. Phase[c] = "waiting"
    BY <1>3, <2>1, WaitingMeans DEF S
  <2>6. queue[j] \in Commands
    BY <1>3
  <2>7. QED
    BY <2>2, <2>3, <2>4, <2>5, <2>6 DEF Promise!MaySupersede, Promise!Commands, Commands
<1>7. \A c \in S : ~ (c > submitted) /\ ~Ran(c) /\ future'[c] = "superseded"
  BY <1>1, <1>3, <1>4
<1>8. S \in SUBSET Commands
  OBVIOUS
<1>9. ASSUME NEW d \in Commands, Phase[d] = "waiting"
      PROVE  fut[d] = "pending" /\ \E j \in DOMAIN queue : queue[j] = d
  BY <1>9, WaitingIsPending
<1>10. CASE \E i \in Runnable(queue, 0, future') : TRUE
  <2>1. StartNext(queue, 0, future')
    BY <1>10 DEF Drain
  <2>2. PICK i \in Runnable(queue, 0, future') :
          /\ \A j \in Runnable(queue, 0, future') : i <= j
          /\ thread' = queue[i] /\ started' = Append(started, queue[i])
    BY <2>1 DEF StartNext
  <2>3. i \in DOMAIN queue /\ i \notin Replaced(queue) /\ future'[queue[i]] # "cancelled"
    BY <2>2 DEF Runnable
  <2> DEFINE n == queue[i]
  <2>4. n \in Commands /\ ~Ran(n) /\ ~ (n > submitted) /\ n # thread
    BY <1>3, <2>3
  <2>5. n \notin S
    BY <1>4, <2>3, SequenceFacts DEF IInv, OrderInv, Increasing
  <2>6. Phase[n] = "waiting"
    BY <1>1, <1>3, <2>3, <2>4, <2>5, WaitingMeans
  <2>7. \A c \in Commands : Ran(c)' <=> Ran(c) \/ c \in {n}
    BY <2>2, <2>4, StartedGrows DEF IInv
  <2>8. Phase' = [c \in Commands |-> IF c \in {n} THEN "running"
                                     ELSE IF c \in S THEN "superseded"
                                     ELSE IF Phase[c] = "running" THEN "ended"
                                     ELSE Phase[c]]
    <3>1. \A c \in Commands : c = thread' <=> c \in {n}
      BY <2>2
    <3>2. {n} \in SUBSET Commands /\ \A c \in {n} : ~ (c > submitted)
      BY <2>4
    <3>3. \A c \in S : ~ (c > submitted) /\ c \notin {n} /\ ~Ran(c) /\ future'[c] = "superseded"
      BY <1>7, <2>5
    <3> HIDE DEF n, S
    <3>4. QED
      BY <1>2, <1>5, <1>8, <2>7, <3>1, <3>2, <3>3, PhaseTurns
  <2>9. ASSUME NEW d \in Commands, d < n, Phase[d] = "waiting"
        PROVE  d \in S
    <3>1. PICK j \in DOMAIN queue : queue[j] = d /\ fut[d] = "pending"
      BY <1>9, <2>9
    <3>2. ~ (i <= j)
      BY <2>3, <2>9, <3>1, SequenceFacts DEF IInv, OrderInv, Increasing
    <3>3. j \notin Runnable(queue, 0, future') /\ j > 0
      BY <2>2, <3>1, <3>2, SequenceFacts DEF IInv
    <3>4. j \in Replaced(queue) \/ future'[d] = "cancelled"
      BY <3>1, <3>3 DEF Runnable
    <3>5. QED
      BY <1>1, <3>1, <3>4
  <2>10. Promise!Turn(S, {n})
    <3> HIDE DEF S, n
    <3>1. QED
      BY <1>6, <2>5, <2>6, <2>8, <2>9
      DEF Promise!Turn, Promise!MayStart, Promise!Commands, Commands
  <2>11. RanInv'
    BY <1>1, <2>2, <2>4, <2>7 DEF RanInv, Handed, Commands, NoCommand, Outcomes
  <2>12. QED
    BY <1>8, <2>4, <2>10, <2>11
<1>11. CASE ~ \E i \in Runnable(queue, 0, future') : TRUE
  <2>1. Rest
    BY <1>11 DEF Drain
  <2>2. \A c \in Commands : (Ran(c)' <=> Ran(c) \/ c \in {}) /\ (c = thread' <=> c \in {})
    BY <2>1 DEF Rest, Ran, Commands, NoCommand
  <2>3. Phase' = [c \in Commands |-> IF c \in {} THEN "running"
                                     ELSE IF c \in S THEN "superseded"
                                     ELSE IF Phase[c] = "running" THEN "ended"
                                     ELSE Phase[c]]
    <3>1. {} \in SUBSET Commands /\ \A c \in {} : ~ (c > submitted)
      OBVIOUS
    <3>2. \A c \in S : ~ (c > submitted) /\ c \notin {} /\ ~Ran(c) /\ future'[c] = "superseded"
      BY <1>7
    <3> HIDE DEF S
    <3>3. QED
      BY <1>2, <1>5, <1>8, <2>2, <3>1, <3>2, PhaseTurns
  <2>4. Promise!Turn(S, {})
    <3> HIDE DEF S
    <3>1. QED
      BY <1>6, <2>3 DEF Promise!Turn, Promise!Commands, Commands
  <2>5. RanInv'
    BY <1>1, <2>1, <2>2 DEF RanInv, Handed, Rest, Outcomes
  <2>6. QED
    BY <1>8, <2>4, <2>5
<1>12. QED
  BY <1>10, <1>11

(* Nothing is left to run: what ran ends. *)
LEMMA EndTurns ==
  ASSUME RanInv, thread' = NoCommand, UNCHANGED <<started, submitted, key>>,
         \A c \in Commands : ~Ran(c) => future'[c] = future[c],
         \A c \in Commands : future'[c] \in Outcomes => Ran(c)
  PROVE  Promise!Turn({}, {}) /\ RanInv'
<1>1. \A c \in Commands : c = thread => Ran(c)
  BY DEF RanInv, Commands, NoCommand
<1>2. \A c \in Commands : (Ran(c)' <=> Ran(c) \/ c \in {}) /\ (c = thread' <=> c \in {})
  BY DEF Ran, Commands, NoCommand
<1>3. {} \in SUBSET Commands
  OBVIOUS
<1>4. Phase' = [c \in Commands |-> IF c \in {} THEN "running"
                                   ELSE IF c \in {} THEN "superseded"
                                   ELSE IF Phase[c] = "running" THEN "ended"
                                   ELSE Phase[c]]
  <2>1. /\ \A c \in {} : ~ (c > submitted)
        /\ \A c \in {} : ~ (c > submitted) /\ c \notin {} /\ ~Ran(c) /\ future'[c] = "superseded"
    OBVIOUS
  <2>2. \A c \in Commands : c \notin {} /\ ~Ran(c) => future'[c] = future[c]
    OBVIOUS
  <2> DEFINE none == {}
  <2>3. /\ none \in SUBSET Commands
        /\ \A c \in Commands : Ran(c)' <=> Ran(c) \/ c \in none
        /\ \A c \in Commands : c = thread' <=> c \in none
        /\ \A c \in none : ~ (c > submitted)
        /\ \A c \in none : ~ (c > submitted) /\ c \notin none /\ ~Ran(c) /\ future'[c] = "superseded"
        /\ \A c \in Commands : c \notin none /\ ~Ran(c) => future'[c] = future[c]
    BY <1>2, <1>3, <2>1, <2>2
  <2> HIDE DEF none
  <2>4. Phase' = [c \in Commands |-> IF c \in none THEN "running"
                                     ELSE IF c \in none THEN "superseded"
                                     ELSE IF Phase[c] = "running" THEN "ended"
                                     ELSE Phase[c]]
    BY <1>1, <2>3, PhaseTurns
  <2>5. QED
    BY <2>4 DEF none
<1>5. Promise!Turn({}, {})
  BY <1>4 DEF Promise!Turn, Promise!Commands, Commands
<1>6. RanInv'
  BY <1>2 DEF RanInv
<1>7. QED
  BY <1>5, <1>6

-----------------------------------------------------------------------------
(* The submitters. *)
LEMMA SubmitRefines ==
  ASSUME IInv, RanInv, NEW k \in Keys \cup {NoKey}, Submit(k)
  PROVE  (\E c \in Commands : Promise!Submit(c, k)) /\ RanInv'
<1> DEFINE c == submitted + 1
<1>1. /\ c \in Commands /\ submitted \in Nat /\ submitted' = c
      /\ key' = [key EXCEPT ![c] = k] /\ future' = [future EXCEPT ![c] = "pending"]
      /\ UNCHANGED <<thread, started>>
  BY QueueAssumption DEF Submit, IInv, TypeOK, Commands
<1>2. \A d \in Commands : Ran(d)' <=> Ran(d)
  BY <1>1 DEF Ran
<1>3. ~Ran(c) /\ c # thread
  <2>1. ~Ran(c)
    BY <1>1, SequenceFacts DEF IInv, OrderInv, Ran
  <2>2. QED
    BY <1>1, <2>1 DEF RanInv, Commands, NoCommand
<1>4. /\ future \in [Commands -> FutureStates]
      /\ \A d \in Commands : future'[d] = IF d = c THEN "pending" ELSE future[d]
  BY <1>1 DEF IInv, TypeOK
<1>5. \A d \in Commands : d > c <=> d > submitted /\ d # c
  BY <1>1 DEF Commands
<1>6. \A d \in Commands : Phase'[d] = IF d = c THEN "waiting" ELSE Phase[d]
  <2>1. \A d \in Commands : d # c => Phase'[d] = Phase[d]
    BY <1>1, <1>2, <1>4, <1>5 DEF Phase, Ran
  <2>2. Phase'[c] = "waiting"
    BY <1>1, <1>2, <1>3, <1>4 DEF Phase, Ran
  <2>3. QED
    BY <2>1, <2>2
<1>7. Phase' = [Phase EXCEPT ![c] = "waiting"]
  <2>1. Phase = [d \in Commands |-> Phase[d]] /\ Phase' = [d \in Commands |-> Phase'[d]]
    BY DEF Phase
  <2>2. QED
    BY <1>1, <1>6, <2>1
<1>8. Phase[c] = "new" /\ \A d \in Commands : d < c => Phase[d] # "new"
  BY <1>1 DEF Phase, Commands
<1>9. Promise!Submit(c, k)
  BY <1>1, <1>7, <1>8 DEF Promise!Submit, Promise!Commands, Commands
<1>10. RanInv'
  BY <1>1, <1>2, <1>4 DEF RanInv, Outcomes, Ran
<1>11. QED
  BY <1>1, <1>9, <1>10

(* A submitter that is cancelled abandons a command that waits, and nothing *)
(* once its callable started.                                              *)
LEMMA CancelRefines ==
  ASSUME IInv, RanInv, NEW c \in Commands, Cancel(c)
  PROVE  (Promise!Abandon(c) \/ UNCHANGED Promise!vars) /\ RanInv'
<1>1. /\ future[c] = "pending" /\ future \in [Commands -> FutureStates]
      /\ future' = [future EXCEPT ![c] = "cancelled"]
      /\ UNCHANGED <<submitted, key, thread, started>>
  BY DEF Cancel, IInv, TypeOK
<1>2. \A d \in Commands : future'[d] = IF d = c THEN "cancelled" ELSE future[d]
  BY <1>1
<1>3. \A d \in Commands : d # c => Phase'[d] = Phase[d]
  BY <1>1, <1>2 DEF Phase
<1>4. ~ (c > submitted)
  BY <1>1 DEF IInv, FutureInv
<1>5. CASE c = thread \/ Ran(c)
  <2>1. Phase'[c] = Phase[c]
    BY <1>1, <1>5 DEF Phase, Ran
  <2>2. Phase' = Phase
    BY <1>3, <2>1 DEF Phase
  <2>3. QED
    BY <1>1, <1>2, <2>2 DEF Promise!vars, RanInv, Outcomes, Ran
<1>6. CASE c # thread /\ ~Ran(c)
  <2>1. Phase[c] = "waiting" /\ Phase'[c] = "abandoned"
    BY <1>1, <1>2, <1>4, <1>6 DEF Phase, Ran
  <2>2. Phase = [d \in Commands |-> Phase[d]] /\ Phase' = [d \in Commands |-> Phase'[d]]
    BY DEF Phase
  <2>3. Phase' = [Phase EXCEPT ![c] = "abandoned"]
    BY <1>3, <2>1, <2>2
  <2>4. QED
    BY <1>1, <1>2, <2>1, <2>3 DEF Promise!Abandon, RanInv, Outcomes, Ran
<1>7. QED
  BY <1>5, <1>6

-----------------------------------------------------------------------------
(* Every step of the queue is one of the executor, or none. *)
LEMMA StepRefines ==
  ASSUME IInv, RanInv, [Next]_vars
  PROVE  [Promise!Next]_(Promise!vars) /\ RanInv'
<1>1. ASSUME NEW S \in SUBSET Commands,
             Promise!Turn(S, {}) \/ \E n \in Commands : Promise!Turn(S, {n})
      PROVE  Promise!Next
  BY <1>1 DEF Promise!Next, Promise!Commands, Commands
<1>2. {} \in SUBSET Commands
  OBVIOUS
<1>3. ASSUME NEW k \in Keys \cup {NoKey}, Submit(k)
      PROVE  Promise!Next /\ RanInv'
  BY <1>3, SubmitRefines DEF Promise!Next, Promise!Commands, Commands
<1>4. ASSUME NEW c \in Commands, Cancel(c)
      PROVE  [Promise!Next]_(Promise!vars) /\ RanInv'
  BY <1>4, CancelRefines DEF Promise!Next, Promise!Commands, Commands
<1>5. CASE Wake
  <2>1. Handed(future) /\ Runnable(batch, pos, future) = {} /\ Drain(future)
        /\ UNCHANGED <<submitted, key>>
    BY <1>5, WakeHands, WakeHandsOver DEF Wake
  <2>2. QED
    BY <1>1, <2>1, DrainTurns
<1>6. ASSUME NEW outcome \in Outcomes, Finish(outcome)
      PROVE  Promise!Next /\ RanInv'
  <2> DEFINE fut == [future EXCEPT ![thread] = IF @ = "pending" THEN outcome ELSE @]
  <2>1. Handed(fut) /\ UNCHANGED <<submitted, key>>
    BY <1>6, FinishHands DEF Finish
  <2>2. \/ StartNext(batch, pos, fut) /\ future' = fut /\ UNCHANGED queue
        \/ Runnable(batch, pos, fut) = {} /\ Drain(fut)
        \/ Rest /\ future' = fut
    BY <1>6 DEF Finish
  <2> HIDE DEF fut
  <2>3. CASE StartNext(batch, pos, fut) /\ future' = fut /\ UNCHANGED queue
    BY <1>1, <1>2, <2>1, <2>3, ContinueTurns
  <2>4. CASE Runnable(batch, pos, fut) = {} /\ Drain(fut)
    BY <1>1, <2>1, <2>4, DrainTurns
  <2>5. CASE Rest /\ future' = fut
    <3>1. thread' = NoCommand /\ UNCHANGED started
      BY <2>5 DEF Rest
    <3>2. /\ \A c \in Commands : ~Ran(c) => future'[c] = future[c]
          /\ \A c \in Commands : future'[c] \in Outcomes => Ran(c)
      BY <2>1, <2>5 DEF Handed
    <3>3. QED
      BY <1>1, <1>2, <2>1, <3>1, <3>2, EndTurns
  <2>6. QED
    BY <2>2, <2>3, <2>4, <2>5
<1>7. CASE Stop \/ UNCHANGED vars
  <2>1. UNCHANGED <<submitted, key, future, thread, started>>
    BY <1>7 DEF Stop, vars
  <2>2. QED
    BY <2>1 DEF Promise!vars, Phase, RanInv, Ran
<1>8. CASE Outlive
  <2>1. thread' = NoCommand /\ UNCHANGED <<started, submitted, key, future>>
    BY <1>8 DEF Outlive
  <2>2. /\ \A c \in Commands : ~Ran(c) => future'[c] = future[c]
        /\ \A c \in Commands : future'[c] \in Outcomes => Ran(c)
    BY <2>1 DEF RanInv
  <2>3. QED
    BY <1>1, <1>2, <2>1, <2>2, EndTurns
<1>9. QED
  BY <1>3, <1>4, <1>5, <1>6, <1>7, <1>8 DEF Next

(* Whatever is submitted, coalesced, cancelled, raised or stopped, a        *)
(* submitter sees a serial executor.                                       *)
THEOREM QueueIsSerialExecutor == Spec => ImplementsSerialExecutor
<1>1. Init => Promise!Init /\ RanInv
  <2>1. SUFFICES ASSUME Init PROVE Promise!Init /\ RanInv
    OBVIOUS
  <2>2. \A c \in Commands : c > submitted
    BY <2>1 DEF Init, Commands
  <2>3. Phase = [c \in Commands |-> "new"]
    BY <2>2 DEF Phase
  <2>4. QED
    BY <2>1, <2>3 DEF Init, Promise!Init, Promise!Commands, Commands, RanInv, Outcomes
<1>2. IInv /\ RanInv /\ [Next]_vars => [Promise!Next]_(Promise!vars) /\ RanInv'
  BY StepRefines
<1>3. QED
  BY <1>1, <1>2, Invariance, PTL DEF Spec, ImplementsSerialExecutor, Promise!Spec
=============================================================================
