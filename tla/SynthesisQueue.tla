--------------------------- MODULE SynthesisQueue ---------------------------
(***************************************************************************)
(* What the player may rely on, whatever AudioQueue does inside: a chunk   *)
(* becomes ready at any time, even after a cancel; it fails only while the *)
(* queue is at work; a wait is answered by the chunk being settled or by a *)
(* cancel; a disposed queue takes no new chunk.  In return, the player     *)
(* writes on no chunk that is still to be synthesised; one that it writes  *)
(* an error on all the same, late, is lost to the promise.                 *)
(***************************************************************************)
EXTENDS QueueOps

VARIABLES
  queue,
  lost    \* chunks hit by a late error, of which nothing is promised

Init == (\E n \in 0 .. MaxChunks : queue = Fresh(n)) /\ lost = {}

(* The error of a load that a Retry overtook.  What becomes of the chunk   *)
(* and of the waits on it is left open: it counts as in error for good.    *)
Loses(i) ==
  /\ queue.status[i] = "pending"
  /\ queue' = Answered(queue, i, "error")
  /\ lost' = lost \cup {i}

Next ==
  \/ Allowed(queue, queue') /\ UNCHANGED lost
  \/ \E i \in Index : Loses(i)

Spec == Init /\ [][Next]_<< queue, lost >>
=============================================================================
