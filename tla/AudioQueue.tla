----------------------------- MODULE AudioQueue -----------------------------
(***************************************************************************)
(* The synthesis queue behind the player (playback/AudioQueue.ts): one     *)
(* queue of one session, from the `reset(chunks)` that fills it to its     *)
(* `dispose()`.                                                            *)
(*                                                                         *)
(* JavaScript runs one callback at a time, so every public method is one   *)
(* action, and the asynchronous `run()` is cut at its awaits: `get` (the   *)
(* cache lookup), `synth` (the provider call) and `put` (the cache write,  *)
(* followed by `getMeta` on a hit, with no check in between).  Everything  *)
(* `run()` does after its last await, its `finally` block and the pump     *)
(* that block ends with included, belongs to the step that resumes it.     *)
(***************************************************************************)
EXTENDS Integers, FiniteSets, Sequences

CONSTANTS
  MaxChunks,             \* bound: chunks a session ever holds
  Keys,                  \* cache keys
  KeyOf,                 \* computeCacheKey of the chunk at an index
  maxConcurrentTtsJobs,  \* CdC 65, never below 1
  prefetchChunks,        \* chunks synthesised ahead of the cursor
  maxRetries,            \* retries after the first failure
  retryBackoffMs,        \* backoff schedule, a sequence of delays
  retryJitterMs,         \* exclusive bound of the random extra delay
  LateChunks,            \* bound: the chunks that a late error may hit
  EvictedKeys,           \* bound: the keys that eviction may choose
  ClearedKeys            \* bound: the keys that clear() may come to

Index == 0 .. MaxChunks - 1

ASSUME SizeAssumption == MaxChunks \in Nat \ {0}
ASSUME BoundAssumption ==
  LateChunks \subseteq Index /\ EvictedKeys \subseteq Keys /\ ClearedKeys \subseteq Keys
ASSUME KeyAssumption == KeyOf \in [Index -> Keys]
ASSUME OptionAssumption ==
  /\ maxConcurrentTtsJobs \in Nat \ {0}
  /\ prefetchChunks \in Nat
  /\ maxRetries \in Nat
  /\ retryJitterMs \in Nat
  /\ retryBackoffMs \in Seq(Int)

VARIABLES
  status,     \* items[i].status, or "absent" at and beyond items.length
  attempts,   \* jobs.get(i).attempts, 0 when there is no job
  waiting,    \* indices with an unresolved waitFor() promise
  run,        \* the await run(i) is suspended at, "none" when no run is in flight
  aborted,    \* indices whose run was given an aborted signal
  timers,     \* keys of retryTimers
  cursor,
  active,
  suspended,
  disposed,
  chunkKeys,  \* keys of the chunkKeys map (its values are KeyOf)
  pins,       \* keys pinned in the cache
  stored,     \* keys whose audio is in the cache
  evicting,   \* keys whose files are being removed
  overtaken,  \* history: keys pinned too late for their removal, or cleared
  replayed,   \* history: chunks re-armed after their audio failed
  late,       \* history: chunks hit by an error while under a new synthesis
  strays      \* runs in flight of the late chunks, which one job may not own

vars == << status, attempts, waiting, run, aborted, timers, cursor, active,
           suspended, disposed, chunkKeys, pins, stored, evicting, overtaken,
           replayed, late, strays >>

jobVars  == << attempts, waiting, timers >>
flags    == << suspended, disposed >>
cacheVars == << stored, evicting, overtaken >>
errorVars == << replayed, late >>

Phases        == {"get", "synth", "put"}
QueueStatus   == {"pending", "generating", "ready", "error"}
PlayerStatus  == {"playing", "played"}
Settled       == {"ready", "error"}

Present(i) == status[i] # "absent"
Running == {i \in Index : run[i] # "none"}

-----------------------------------------------------------------------------
(* Helpers of the class.                                                   *)

(* computeBackoffDelay: every delay the jitter can give to retry `attempt`. *)
BackoffDelays(attempt) ==
  IF retryBackoffMs = << >> THEN {0}
  ELSE LET last == Len(retryBackoffMs)
           step == retryBackoffMs[IF attempt < last THEN attempt ELSE last]
       IN  {step} \cup {step + jitter : jitter \in 0 .. retryJitterMs - 1}

(* The prefetch window [cursor, min(last, cursor + prefetchChunks)].       *)
Window(st, c) ==
  {i \in Index : c <= i /\ i <= c + prefetchChunks /\ st[i] # "absent"}

KeysOf(S) == {KeyOf[i] : i \in S}

(* Faulty variant: the budget is one slot too large.                       *)
StartableOneTooMany(st, act, c) ==
  LET candidates == {i \in Window(st, c) : st[i] = "pending"}
  IN  {i \in candidates :
         act + Cardinality({j \in candidates : j < i}) <= maxConcurrentTtsJobs}

(* The chunks one pump() starts: the first pending ones of the window, as  *)
(* many as the concurrency budget leaves room for.                         *)
Startable(st, act, c) ==
  LET candidates == {i \in Window(st, c) : st[i] = "pending"}
  IN  {i \in candidates :
         act + Cardinality({j \in candidates : j < i}) < maxConcurrentTtsJobs}

(* Faulty variant: pump() does not look at `suspended`.                    *)
PumpWhenSuspended(st, rn, sy, act, c, ck, pn) ==
  LET started == Startable(st, act, c)
  IN  /\ status' = [i \in Index |-> IF i \in started THEN "generating" ELSE st[i]]
      /\ run' = [i \in Index |-> IF i \in started \ late' THEN "get" ELSE rn[i]]
      /\ strays' = sy + Cardinality(started \cap late')
      /\ active' = act + Cardinality(started)
      /\ chunkKeys' = ck \cup started
      /\ pins' = pn \cup KeysOf(started)
      /\ overtaken' = (overtaken \ KeysOf(started)) \cup (evicting \cap KeysOf(started))

(* pump() and the synchronous part of every start()/run() it makes, from   *)
(* the state the calling method has reached.  A pin set now is in time for *)
(* the removals that have not begun.                                       *)
Pump(st, rn, sy, act, c, ck, pn) ==
  LET started == IF suspended' \/ disposed' THEN {} ELSE Startable(st, act, c)
  IN  /\ status' = [i \in Index |-> IF i \in started THEN "generating" ELSE st[i]]
      /\ run' = [i \in Index |-> IF i \in started \ late' THEN "get" ELSE rn[i]]
      /\ strays' = sy + Cardinality(started \cap late')
      /\ active' = act + Cardinality(started)
      /\ chunkKeys' = ck \cup started
      /\ pins' = pn \cup KeysOf(started)
      /\ overtaken' = (overtaken \ KeysOf(started)) \cup (evicting \cap KeysOf(started))

(* reconcilePins(): what falls out of the window is forgotten and unpinned *)
(* by key.                                                                 *)
OutOfWindow(c) == chunkKeys \ Window(status, c)

-----------------------------------------------------------------------------
(* A fresh queue after the reset(chunks) of PlaybackController.start().    *)
Init ==
  /\ \E n \in 0 .. MaxChunks :
       status = [i \in Index |-> IF i < n THEN "pending" ELSE "absent"]
  /\ attempts = [i \in Index |-> 0]
  /\ run = [i \in Index |-> "none"]
  /\ waiting = {} /\ aborted = {} /\ timers = {}
  /\ cursor = 0 /\ active = 0
  /\ suspended = FALSE /\ disposed = FALSE
  /\ chunkKeys = {} /\ pins = {}
  /\ stored \in SUBSET Keys /\ evicting = {} /\ overtaken = {}
  /\ replayed = {} /\ late = {} /\ strays = 0

(* append(chunks): n more chunks, then a pump.                             *)
AppendChunks(n) ==
  LET len == Cardinality({i \in Index : Present(i)})
  IN  /\ ~ disposed
      /\ n > 0 /\ len + n <= MaxChunks
      /\ UNCHANGED << flags, jobVars, aborted, cursor, stored, evicting, errorVars >>
      /\ Pump([i \in Index |-> IF i \in len .. len + n - 1 THEN "pending" ELSE status[i]],
              run, strays, active, cursor, chunkKeys, pins)

(* Faulty variant: setCursor() without reconcilePins().                    *)
SetCursorKeepingPins(i) ==
  /\ Present(i) \/ i = 0
  /\ cursor' = i
  /\ suspended' = FALSE
  /\ UNCHANGED << disposed, jobVars, aborted, stored, evicting, errorVars >>
  /\ Pump(status, run, strays, active, i, chunkKeys, pins)

(* setCursor(index): moves the window, resumes a cancelled queue, unpins   *)
(* what left the window, pumps.                                            *)
SetCursor(i) ==
  /\ Present(i) \/ i = 0
  /\ cursor' = i
  /\ suspended' = FALSE
  /\ UNCHANGED << disposed, jobVars, aborted, stored, evicting, errorVars >>
  /\ Pump(status, run, strays, active, i,
          chunkKeys \ OutOfWindow(i), pins \ KeysOf(OutOfWindow(i)))

(* waitFor(index) of a chunk that is not settled yet: resumes the queue,   *)
(* pumps, and parks a waiter.  For a settled chunk the promise resolves at *)
(* once and nothing changes.                                               *)
WaitFor(i) ==
  /\ status[i] \in {"pending", "generating"}
  /\ suspended' = FALSE
  /\ waiting' = waiting \cup {i}
  /\ UNCHANGED << disposed, attempts, timers, aborted, cursor, stored, evicting,
                  errorVars >>
  /\ Pump(status, run, strays, active, cursor, chunkKeys, pins)

(* The effects cancelAll() has on the jobs: retry timers are cleared, the  *)
(* signal of every run in flight is aborted, every waiter is resolved.  A  *)
(* late chunk may have timers and runs it no longer knows of.              *)
CancelJobs ==
  /\ suspended' = TRUE
  /\ timers' \in SUBSET (timers \cap late)
  /\ aborted' = Running
  /\ waiting' = {}

(* Faulty variant: cancelAll() frees the slots that run() will free again. *)
CancelAllFreeingSlots ==
  /\ CancelJobs
  /\ active' = active - Cardinality(Running)
  /\ UNCHANGED << disposed, attempts, status, run, strays, cursor, chunkKeys, pins,
                  cacheVars, errorVars >>

CancelAll ==
  /\ CancelJobs
  /\ UNCHANGED << disposed, attempts, status, run, strays, cursor, active, chunkKeys,
                  pins, cacheVars, errorVars >>

(* PlaybackController writes `playing`, `played` and `error` on the very   *)
(* chunk objects the queue holds, while their audio is loaded.  That of a  *)
(* chunk in error may be, when it failed at the surface and not in its     *)
(* jobs, which would have spent their attempts.                            *)
Audible(i) ==
  \/ status[i] \in PlayerStatus \cup {"ready"}
  \/ status[i] = "error" /\ (attempts[i] <= maxRetries \/ i \in late)

(* retry(index): re-arms a chunk in error with a fresh budget.             *)
Retry(i) ==
  /\ status[i] = "error"
  /\ replayed' = IF Audible(i) THEN replayed \cup ({i} \cap LateChunks) ELSE replayed
  /\ attempts' = [attempts EXCEPT ![i] = 0]
  /\ waiting' = waiting \ {i}
  /\ suspended' = FALSE
  /\ UNCHANGED << disposed, timers, aborted, cursor, stored, evicting, late >>
  /\ Pump([status EXCEPT ![i] = "pending"], run, strays, active, cursor, chunkKeys, pins)

(* dispose(): idempotent teardown.                                         *)
Dispose ==
  /\ ~ disposed
  /\ disposed' = TRUE
  /\ CancelJobs
  /\ attempts' = [i \in Index |-> 0]
  /\ pins' = pins \ KeysOf(chunkKeys)
  /\ chunkKeys' = {}
  /\ UNCHANGED << status, run, strays, cursor, active, cacheVars, errorVars >>

-----------------------------------------------------------------------------
(* The asynchronous run().                                                 *)

(* A run resumes at an await and suspends at the next one.                 *)
Proceed(i, from, to) ==
  /\ run[i] = from
  /\ run' = [run EXCEPT ![i] = to]
  /\ UNCHANGED << status, jobVars, aborted, strays, cursor, active, flags, chunkKeys,
                  pins, cacheVars, errorVars >>

(* Faulty variants: the `finally` block does not resolve the waiters, it   *)
(* resolves them whatever the status, it does not pump.                    *)
FinishWithoutAnswer(i, st) ==
  /\ aborted' = aborted \ {i}
  /\ UNCHANGED << flags, cursor, waiting, evicting, errorVars >>
  /\ Pump([status EXCEPT ![i] = st], [run EXCEPT ![i] = "none"], strays, active - 1,
          cursor, chunkKeys, pins)

FinishAnsweringAlways(i, st) ==
  /\ aborted' = aborted \ {i}
  /\ waiting' = waiting \ {i}
  /\ UNCHANGED << flags, cursor, evicting, errorVars >>
  /\ Pump([status EXCEPT ![i] = st], [run EXCEPT ![i] = "none"], strays, active - 1,
          cursor, chunkKeys, pins)

FinishWithoutPump(i, st) ==
  /\ aborted' = aborted \ {i}
  /\ waiting' = IF st \in Settled THEN waiting \ {i} ELSE waiting
  /\ status' = [status EXCEPT ![i] = st]
  /\ run' = [run EXCEPT ![i] = "none"]
  /\ active' = active - 1
  /\ UNCHANGED << flags, strays, cursor, chunkKeys, pins, evicting, overtaken, errorVars >>

(* A run returns leaving its chunk at `st`: the `finally` block frees the  *)
(* slot, resolves the waiters of a settled chunk and pumps.                *)
Finish(i, st) ==
  /\ aborted' = aborted \ {i}
  /\ waiting' = IF st \in Settled THEN waiting \ {i} ELSE waiting
  /\ UNCHANGED << flags, cursor, evicting, errorVars >>
  /\ Pump([status EXCEPT ![i] = st], [run EXCEPT ![i] = "none"], strays, active - 1,
          cursor, chunkKeys, pins)

(* A cancelled run gives its chunk back: revertToPending().                *)
Revert(i) == Finish(i, "pending") /\ UNCHANGED << attempts, timers >>

(* Faulty variant: a hit is synthesised again.                             *)
GetResolvesToSynthesis(i) ==
  /\ i \notin aborted
  /\ Proceed(i, "get", "synth")

(* `await cache.get(key)` resolves: a hit goes to the cache write that     *)
(* refreshes the entry, a miss to the provider.                            *)
GetResolves(i) ==
  /\ i \notin aborted
  /\ Proceed(i, "get", IF KeyOf[i] \in stored THEN "put" ELSE "synth")

(* `await tts.synthesize(...)` resolves.                                   *)
SynthResolves(i) ==
  /\ i \notin aborted
  /\ Proceed(i, "synth", "put")

(* A lookup or a synthesis resolves, or rejects, or a write rejects, under *)
(* an aborted signal.                                                      *)
RunCancelled(i) ==
  /\ i \in aborted
  /\ \/ run[i] \in {"get", "synth"} /\ UNCHANGED stored
     \/ run[i] = "put" /\ stored' \in {stored, stored \cup {KeyOf[i]}}
  /\ Revert(i)

(* `await cache.put(...)` resolves: the chunk is ready, aborted or not.    *)
PutResolves(i) ==
  /\ run[i] = "put"
  /\ stored' = stored \cup {KeyOf[i]}
  /\ Finish(i, "ready")
  /\ UNCHANGED << attempts, timers >>

(* Faulty variants of the catch block: one retry too many, a chunk that is *)
(* pending while it waits for its timer, no look at the signal.            *)
RunFailsOneRetryMore(i) ==
  /\ i \notin aborted
  /\ run[i] \in {"get", "synth"} /\ UNCHANGED stored
  /\ attempts' = [attempts EXCEPT ![i] = @ + 1]
  /\ \/ attempts[i] > maxRetries /\ Finish(i, "error") /\ UNCHANGED timers
     \/ /\ attempts[i] <= maxRetries
        /\ Finish(i, "generating") /\ timers' = timers \cup {i}

RunFailsToPending(i) ==
  /\ i \notin aborted
  /\ run[i] \in {"get", "synth"} /\ UNCHANGED stored
  /\ attempts' = [attempts EXCEPT ![i] = @ + 1]
  /\ \/ attempts[i] >= maxRetries /\ Finish(i, "error") /\ UNCHANGED timers
     \/ attempts[i] < maxRetries /\ Finish(i, "pending") /\ timers' = timers \cup {i}

RunFailsWhenCancelled(i) ==
  /\ run[i] \in {"get", "synth"} /\ UNCHANGED stored
  /\ attempts' = [attempts EXCEPT ![i] = @ + 1]
  /\ \/ attempts[i] >= maxRetries /\ Finish(i, "error") /\ UNCHANGED timers
     \/ attempts[i] < maxRetries /\ Finish(i, "pending") /\ UNCHANGED timers

(* The catch block with a live signal: provider failure, timeout of the    *)
(* derived signal, or cache failure.  Within the budget a retry is         *)
(* scheduled (scheduleRetry), beyond it the chunk ends in error.           *)
RunFails(i) ==
  /\ i \notin aborted
  /\ \/ run[i] \in {"get", "synth"} /\ UNCHANGED stored
     \/ run[i] = "put" /\ stored' \in {stored, stored \cup {KeyOf[i]}}
  /\ attempts' = [attempts EXCEPT ![i] = @ + 1]
  /\ \/ /\ attempts[i] + 1 > maxRetries
        /\ Finish(i, "error")
        /\ UNCHANGED timers
     \/ /\ attempts[i] + 1 <= maxRetries
        /\ \E delay \in BackoffDelays(attempts[i] + 1) :
             IF delay <= 0
             THEN Finish(i, "pending") /\ UNCHANGED timers
             ELSE Finish(i, "generating") /\ timers' = timers \cup {i}

(* The backoff timer of scheduleRetry fires.  A late chunk may have another *)
(* one running, which the first has taken off `retryTimers`.               *)
TimerFires(i) ==
  /\ i \in timers
  /\ \/ timers' = timers \ {i}
     \/ timers' = timers /\ i \in late
  /\ UNCHANGED << flags, attempts, waiting, aborted, cursor, stored, evicting, errorVars >>
  /\ IF suspended \/ disposed
     THEN UNCHANGED << status, run, strays, active, chunkKeys, pins, overtaken >>
     ELSE Pump([status EXCEPT ![i] = "pending"], run, strays, active, cursor, chunkKeys, pins)

-----------------------------------------------------------------------------
(* The player, which shares the chunks with the queue.                     *)

PlayerMarks(i, st) ==
  /\ Audible(i)
  /\ status' = [status EXCEPT ![i] = st]
  /\ UNCHANGED << jobVars, run, strays, aborted, cursor, active, flags, chunkKeys, pins,
                  cacheVars, errorVars >>

(* handleSinkError() looks at no status: the error of a load that a Retry  *)
(* overtook is written on a chunk that is being synthesised again.  From   *)
(* then on one job no longer owns the chunk: a second Retry gives it to    *)
(* another one while the first is still under way.                         *)
LateError(i) ==
  /\ i \in replayed
  /\ status[i] \in {"pending", "generating"}
  /\ status' = [status EXCEPT ![i] = "error"]
  /\ late' = late \cup {i}
  /\ run' = [run EXCEPT ![i] = "none"]
  /\ strays' = IF run[i] = "none" THEN strays ELSE strays + 1
  /\ aborted' = aborted \ {i}
  /\ UNCHANGED << jobVars, cursor, active, flags, chunkKeys, pins, cacheVars, replayed >>

(* A run of a late chunk returns.  It writes what it comes to on a chunk   *)
(* that may be at another job, on the player or in error, arms a timer     *)
(* whatever the status, and frees its slot like any other.                 *)
StrayReturns(i) ==
  /\ i \in late
  /\ strays > 0
  /\ timers' \in {timers, timers \cup {i}}
  /\ stored' \in {stored, stored \cup {KeyOf[i]}}
  /\ UNCHANGED << flags, attempts, aborted, cursor, evicting, errorVars >>
  /\ \E st \in {"pending", "ready", "error", status[i]} :
       /\ waiting' = IF st \in Settled THEN waiting \ {i} ELSE waiting
       /\ Pump([status EXCEPT ![i] = st], run, strays - 1, active - 1, cursor, chunkKeys,
               pins)

-----------------------------------------------------------------------------
(* The cache, which the queue pins keys of.                                *)

NothingButFiles ==
  UNCHANGED << status, jobVars, run, strays, aborted, cursor, active, flags, chunkKeys,
               pins, errorVars >>

(* Faulty variant: eviction does not look at the pins.                     *)
EvictPinned(k) ==
  /\ k \in stored \cap EvictedKeys
  /\ evicting' = evicting \cup {k}
  /\ UNCHANGED << stored, overtaken >> /\ NothingButFiles

(* DiskAudioCache.evict() finds an entry that no queue has pinned and goes *)
(* to remove its files.                                                    *)
EvictBegins(k) ==
  /\ k \in (stored \cap EvictedKeys) \ pins
  /\ evicting' = evicting \cup {k}
  /\ UNCHANGED << stored, overtaken >> /\ NothingButFiles

(* A removal is over: the file is gone, unless the removal failed.         *)
RemovalEnds(k) ==
  /\ k \in evicting
  /\ evicting' = evicting \ {k}
  /\ stored' \in {stored, stored \ {k}}
  /\ overtaken' = overtaken \ (stored' \cap {k})
  /\ NothingButFiles

(* The removal that clear() makes of the whole directory comes to a file,  *)
(* pinned or not.                                                          *)
Clears(k) ==
  /\ k \in stored \cap ClearedKeys
  /\ stored' = stored \ {k}
  /\ overtaken' = overtaken \cup {k}
  /\ UNCHANGED evicting /\ NothingButFiles

-----------------------------------------------------------------------------
Command ==
  \/ \E n \in 1 .. MaxChunks : AppendChunks(n)
  \/ \E i \in Index : SetCursor(i) \/ WaitFor(i) \/ Retry(i)
  \/ CancelAll
  \/ Dispose

RunStep(i) ==
  GetResolves(i) \/ SynthResolves(i) \/ RunCancelled(i) \/ PutResolves(i) \/ RunFails(i)

Player ==
  \E i \in Index :
    LateError(i) \/ \E st \in PlayerStatus \cup {"error"} : PlayerMarks(i, st)

Cache == \E k \in Keys : EvictBegins(k) \/ RemovalEnds(k) \/ Clears(k)

Next ==
  \/ Command
  \/ \E i \in Index : RunStep(i) \/ TimerFires(i) \/ StrayReturns(i)
  \/ Player
  \/ Cache

(* The promises a run awaits settle (the provider call is bounded by       *)
(* llmVoice.tts.timeoutMs) and timers fire; nobody has to press a button.  *)
Fairness ==
  \A i \in Index : WF_vars(RunStep(i)) /\ WF_vars(i \notin late /\ TimerFires(i))

Spec == Init /\ [][Next]_vars
FairSpec == Spec /\ Fairness
-----------------------------------------------------------------------------
(* Properties.  What a late error does to the ownership of its chunk they  *)
(* name as an exception (`late`); the slots are counted whatever happens.  *)

TypeOK ==
  /\ status \in [Index -> QueueStatus \cup PlayerStatus \cup {"absent"}]
  /\ attempts \in [Index -> Nat]
  /\ run \in [Index -> Phases \cup {"none"}]
  /\ waiting \subseteq Index /\ aborted \subseteq Index /\ timers \subseteq Index
  /\ cursor \in Index /\ active \in Nat
  /\ suspended \in BOOLEAN /\ disposed \in BOOLEAN
  /\ chunkKeys \subseteq Index
  /\ pins \subseteq Keys /\ stored \subseteq Keys
  /\ evicting \subseteq Keys /\ overtaken \subseteq Keys
  /\ replayed \subseteq Index /\ late \subseteq Index /\ strays \in Nat

(* The slot counter is the number of runs really in flight, whatever the   *)
(* order of cancels, retries and returns, those of late chunks included,   *)
(* and never exceeds the budget of CdC 65 (`inFlight`).                    *)
JobBudget ==
  active = Cardinality(Running) + strays /\ active <= maxConcurrentTtsJobs

(* A chunk with a run in flight is `generating` from start to return, so   *)
(* that no pump can start a second run on it; a chunk waiting for its      *)
(* backoff timer is `generating` too and has no run, so that the timer     *)
(* never takes a ready or playing chunk back to `pending`.  A late error   *)
(* breaks this for its chunk: the runs it leaves behind are the strays.    *)
OneOwner ==
  /\ \A i \in Running : status[i] = "generating" /\ i \notin late
  /\ \A i \in timers \ late : status[i] = "generating" /\ i \notin Running
  /\ aborted \subseteq Running
  /\ late = {} => strays = 0

(* A failed chunk is tried again at most maxRetries times before it is in  *)
(* error; a pending timer means that budget is not spent.                  *)
RetryBudget ==
  /\ \A i \in Index : attempts[i] <= maxRetries + 1
  /\ \A i \in timers \ late : attempts[i] \in 1 .. maxRetries
  /\ \A i \in Running : attempts[i] <= maxRetries

(* No lost wake-up: nobody waits on a chunk the queue has finished with    *)
(* (waitFor resolves "once index is ready or error").                      *)
NoLostWakeup == \A i \in waiting \ late : status[i] \in {"pending", "generating"}

(* Pins do not leak: what this queue keeps pinned belongs to a chunk of    *)
(* the window, so the cache can always evict the rest.                     *)
PinsInWindow ==
  /\ pins \subseteq KeysOf(chunkKeys)
  /\ chunkKeys \subseteq Window(status, cursor)
  /\ disposed => pins = {}

(* While a chunk stays in the window its audio, once ready, is not evicted *)
(* (when no two chunks share a key): unless the pin came when the removal  *)
(* had begun, or the user cleared the cache.                               *)
TrackedAudioKept ==
  \A i \in chunkKeys \ late :
    status[i] \in PlayerStatus \cup {"ready"} => KeyOf[i] \in stored \cup overtaken

(* Cache first (CdC 37): no run of a chunk it owns is at the provider for  *)
(* a sentence whose audio is already in the cache.                         *)
NoSecondSynthesis == \A i \in Index : run[i] = "synth" => KeyOf[i] \notin stored

(* A cancelled queue must not restart itself: between a cancelAll() and    *)
(* the next command nothing starts, from no returning run, timer or late   *)
(* append; a late error, which moves a run from one count to the other,    *)
(* adds none.                                                              *)
CancelledStaysQuiet ==
  [][suspended /\ suspended' => Running' \subseteq Running /\ active' <= active]_vars

(* A cancelled job is not a failed job: the return of an aborted run spends *)
(* no retry and never puts its chunk in error.                             *)
CancelIsNotFailure ==
  [][\A i \in aborted \ aborted' :
       i \in late' \/ (status'[i] # "error" /\ attempts'[i] = attempts[i])]_vars

(* A wait is answered by a settled chunk or by a cancel, never by a chunk  *)
(* that is still being made.                                               *)
WaitAnswered ==
  [][\A i \in waiting \ waiting' :
       status'[i] \in Settled \/ suspended' \/ i \in late]_vars

(* What cancelAll() leaves behind when it clears a backoff timer: a chunk  *)
(* that is `generating` with nothing generating it.                        *)
Stranded(i) == status[i] = "generating" /\ i \notin Running /\ i \notin timers

Served(i) == i \notin waiting \/ i \notin Window(status, cursor) \/ disposed

(* waitFor(index) resolves: a wait on a chunk of the window is answered.   *)
WaitersAreServed == \A i \in Index : (i \in waiting) ~> Served(i)

(* The same with the known exceptions: unless its chunk is stranded, or a  *)
(* late error has hit a chunk, whose runs may hold the slots for ever.     *)
WaitersAreServedUnlessStranded ==
  \A i \in Index : (i \in waiting) ~> (Served(i) \/ Stranded(i) \/ late # {})

(* The key of a ready chunk inside the window is pinned: its audio is not  *)
(* evicted while it might still be played, but for a removal that had      *)
(* begun before the pin and for clear().                                   *)
PlayableAudioKept ==
  \A i \in Window(status, cursor) \ late :
    status[i] \in PlayerStatus \cup {"ready"} /\ ~ disposed =>
      KeyOf[i] \in stored \cup overtaken
=============================================================================
