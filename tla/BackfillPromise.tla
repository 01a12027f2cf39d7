-------------------------- MODULE BackfillPromise --------------------------
(***************************************************************************)
(* What the gapless backfill promises, with none of its mechanism.  A      *)
(* block is passed once no later run of the job will look at it again.     *)
(* The promise is the sentence of jobs/backfillGapless.ts "never a silent  *)
(* skip": a block is passed only when it is stored or on record as failed, *)
(* and it leaves the record only when it is stored.                        *)
(***************************************************************************)
CONSTANT Blocks

VARIABLES
  stored,   \* blocks whose transactions are all in the database
  queued,   \* blocks on record as failed, to be retried
  passed    \* blocks the job is done with

promiseVars == <<stored, queued, passed>>

Init ==
  /\ stored = {}
  /\ queued = {}
  /\ passed = {}

Store(b) ==
  /\ stored' = stored \cup {b}
  /\ UNCHANGED <<queued, passed>>

Record(b) ==
  /\ queued' = queued \cup {b}
  /\ UNCHANGED <<stored, passed>>

Resolve(b) ==
  /\ b \in stored
  /\ queued' = queued \ {b}
  /\ UNCHANGED <<stored, passed>>

Pass(S) ==
  /\ S \subseteq stored \cup queued
  /\ passed' = passed \cup S
  /\ UNCHANGED <<stored, queued>>

Next ==
  \/ \E b \in Blocks : Store(b) \/ Record(b) \/ Resolve(b)
  \/ \E S \in SUBSET Blocks : Pass(S)

Spec == Init /\ [][Next]_promiseVars
=============================================================================
