---------------------------- MODULE MCAudioQueue ----------------------------
(* Constant values for the runs of AudioQueue.                             *)
EXTENDS AudioQueueRefinement

(* Every chunk has a sentence of its own.                                  *)
DistinctKeys == [i \in Index |-> i]

(* The first and the third chunk hold the same sentence.                   *)
SharedKeys == [i \in Index |-> i % 2]

(* A session of one sentence.                                              *)
SingleKey == [i \in Index |-> 0]

(* Backoff schedules: the first retry at once, or after the jitter alone   *)
(* (a configuration may do so), and a delay before every retry, as in the  *)
(* default [100, 400].                                                     *)
PromptBackoff == << 0, 400 >>
FullBackoff == << 100, 400 >>
=============================================================================
