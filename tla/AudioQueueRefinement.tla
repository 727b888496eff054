------------------------ MODULE AudioQueueRefinement ------------------------
(* AudioQueue implements SynthesisQueue: the refinement mapping.           *)
EXTENDS AudioQueue

(* From outside, a chunk under synthesis or waiting for its backoff timer  *)
(* is still pending, and one that a late error has hit is in error.        *)
ViewOf(st) == IF st = "generating" THEN "pending" ELSE st

SeenStatus(st, lt) == [i \in Index |-> IF i \in lt THEN "error" ELSE ViewOf(st[i])]

Promise == INSTANCE SynthesisQueue WITH
  queue <- [status |-> SeenStatus(status, late), waiting |-> waiting \ late,
            suspended |-> suspended, disposed |-> disposed],
  lost <- late

(* The queue keeps its promise to the player: in particular a job that     *)
(* comes back from a cancelled run never puts its chunk in error nor       *)
(* leaves a settled chunk with a waiter.                                   *)
KeepsPromise == Promise!Spec
=============================================================================
