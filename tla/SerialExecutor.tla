--------------------------- MODULE SerialExecutor ---------------------------
(***************************************************************************)
(* What the command queue promises its callers, without queues, batches    *)
(* or threads: every submitted command waits, then either runs (alone, and *)
(* in submission order), is superseded by a later command with the same    *)
(* key, or is abandoned by its submitter before it started.                *)
(*                                                                         *)
(* CommandQueue implements this specification; a reader who only submits   *)
(* commands needs no more than what is written here.                       *)
(***************************************************************************)
EXTENDS Naturals

CONSTANTS
  MaxCommands,  (* bound on the number of submissions                       *)
  Keys,         (* the coalesce keys in use                                 *)
  NoKey         (* a submission without a coalesce key                      *)

VARIABLES
  phase,        (* what became of each command                              *)
  label         (* the coalesce key each command was submitted with         *)

vars == <<phase, label>>

Commands == 1..MaxCommands

Phases == {"new", "waiting", "running", "ended", "superseded", "abandoned"}

Init ==
  /\ phase = [c \in Commands |-> "new"]
  /\ label = [c \in Commands |-> NoKey]

(* Commands are numbered in the order they are submitted. *)
Submit(c, k) ==
  /\ phase[c] = "new"
  /\ \A d \in Commands : d < c => phase[d] # "new"
  /\ phase' = [phase EXCEPT ![c] = "waiting"]
  /\ label' = [label EXCEPT ![c] = k]

Abandon(c) ==
  /\ phase[c] = "waiting"
  /\ phase' = [phase EXCEPT ![c] = "abandoned"]
  /\ UNCHANGED label

(* A waiting command may be superseded by a later one with its key.  The    *)
(* later one may itself have been abandoned: then neither runs.             *)
MaySupersede(c) ==
  /\ phase[c] = "waiting"
  /\ label[c] # NoKey
  /\ \E d \in Commands :
       d > c /\ label[d] = label[c] /\ phase[d] \in {"waiting", "abandoned"}

(* The next command to start, once those in S are superseded: the oldest    *)
(* one still waiting.                                                       *)
MayStart(c, S) ==
  /\ phase[c] = "waiting" /\ c \notin S
  /\ \A d \in Commands : d < c /\ phase[d] = "waiting" => d \in S

(* One turn of the executor: the running command (if any) ends, some        *)
(* waiting ones are superseded, and the commands in Started, at most one,   *)
(* start.                                                                   *)
Turn(S, Started) ==
  /\ \A c \in S : MaySupersede(c)
  /\ \A c \in Started : MayStart(c, S)
  /\ phase' = [c \in Commands |->
                 IF c \in Started THEN "running"
                 ELSE IF c \in S THEN "superseded"
                 ELSE IF phase[c] = "running" THEN "ended"
                 ELSE phase[c]]
  /\ UNCHANGED label

Next ==
  \/ \E c \in Commands, k \in Keys \cup {NoKey} : Submit(c, k)
  \/ \E c \in Commands : Abandon(c)
  \/ \E S \in SUBSET Commands :
       Turn(S, {}) \/ \E c \in Commands : Turn(S, {c})

Spec == Init /\ [][Next]_vars

(***************************************************************************)
(* No two callables are ever in flight together: of two commands that      *)
(* started, at most one is still running.                                  *)
(***************************************************************************)
OneAtATime ==
  \A c, d \in Commands : phase[c] = "running" /\ phase[d] = "running" => c = d
=============================================================================
