------------------------------ MODULE QueueOps ------------------------------
(***************************************************************************)
(* What a synthesis queue looks like from outside: the status of each      *)
(* chunk, the waits that are not answered, and whether the queue works at  *)
(* all.  Jobs, retries, timers, the prefetch window and the cache are      *)
(* hidden, and so is the difference between `pending` and `generating`.    *)
(* Each operator is the effect of one AudioQueue method on that view.      *)
(***************************************************************************)
EXTENDS Integers, FiniteSets

CONSTANT MaxChunks       \* bound: chunks a session ever holds

ASSUME SizeAssumption == MaxChunks \in Nat \ {0}

Index == 0 .. MaxChunks - 1

Settled      == {"ready", "error"}
PlayerStatus == {"playing", "played"}
ViewStatus   == {"absent", "pending"} \cup Settled \cup PlayerStatus

QueueView == [status : [Index -> ViewStatus], waiting : SUBSET Index,
              suspended : BOOLEAN, disposed : BOOLEAN]

Length(q) == Cardinality({i \in Index : q.status[i] # "absent"})

(* The constructor followed by reset(chunks).                              *)
Fresh(n) ==
  [status |-> [i \in Index |-> IF i < n THEN "pending" ELSE "absent"],
   waiting |-> {}, suspended |-> FALSE, disposed |-> FALSE]

(* append(chunks): n more pending chunks.                                  *)
Appended(q, n) ==
  LET len == Length(q)
  IN  [q EXCEPT !.status =
         [i \in Index |-> IF i \in len .. len + n - 1 THEN "pending" ELSE @[i]]]

(* setCursor(index): the queue works (again).                              *)
Resumed(q) == [q EXCEPT !.suspended = FALSE]

(* waitFor(index): parks a waiter, unless the chunk is settled already.    *)
Asked(q, i) ==
  IF q.status[i] = "pending"
  THEN [q EXCEPT !.suspended = FALSE, !.waiting = @ \cup {i}]
  ELSE q

(* cancelAll(): nothing works any more and every wait is answered.         *)
Cancelled(q) == [q EXCEPT !.suspended = TRUE, !.waiting = {}]

(* retry(index): a chunk in error is to be synthesised again.              *)
Rearmed(q, i) ==
  IF q.status[i] = "error"
  THEN [q EXCEPT !.status[i] = "pending", !.waiting = @ \ {i}, !.suspended = FALSE]
  ELSE q

(* dispose(): cancelled for good.                                          *)
Disposed(q) == [Cancelled(q) EXCEPT !.disposed = TRUE]

(* The last job of a chunk returns: its waits are answered.                *)
Answered(q, i, st) == [q EXCEPT !.status[i] = st, !.waiting = @ \ {i}]

(* The player writes the status of a chunk.                                *)
Marked(q, i, st) == [q EXCEPT !.status[i] = st]

-----------------------------------------------------------------------------
(* What may be done to a queue, one thing at a time: by its owner, by its  *)
(* jobs and by the player.                                                 *)

Appends(q, n, r) ==
  /\ ~ q.disposed
  /\ n > 0 /\ Length(q) + n <= MaxChunks
  /\ r = Appended(q, n)

(* A chunk becomes ready at any time, and fails only while the queue is at *)
(* work.                                                                   *)
Settles(q, i, st, r) ==
  /\ q.status[i] = "pending"
  /\ st = "error" => ~ q.suspended /\ ~ q.disposed
  /\ r = Answered(q, i, st)

(* The player leaves a chunk alone that is still to be synthesised.        *)
Marks(q, i, st, r) ==
  /\ q.status[i] \in Settled \cup PlayerStatus
  /\ r = Marked(q, i, st)

Allowed(q, r) ==
  \/ \E n \in 1 .. MaxChunks : Appends(q, n, r)
  \/ r = Resumed(q)
  \/ r = Cancelled(q)
  \/ ~ q.disposed /\ r = Disposed(q)
  \/ \E i \in Index :
       \/ r = Asked(q, i)
       \/ r = Rearmed(q, i)
       \/ \E st \in Settled : Settles(q, i, st, r)
       \/ \E st \in PlayerStatus \cup {"error"} : Marks(q, i, st, r)
=============================================================================
