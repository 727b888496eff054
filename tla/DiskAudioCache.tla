--------------------------- MODULE DiskAudioCache ---------------------------
(***************************************************************************)
(* The audio cache on disk (playback/DiskAudioCache.ts): one `.wav` file   *)
(* and one JSON side-car per key, an LRU eviction that spares pinned keys, *)
(* and nothing but file names between the calls that overlap.              *)
(*                                                                         *)
(* Time stamps are kept as an order: `cars` lists the keys that have a     *)
(* side-car, the least recently written first.  A key without one is       *)
(* stamped with a file time a thousand times smaller, hence comes first.   *)
(* A listing of the directory is one step, which may miss what the disk    *)
(* does not give; the metadata in the side-car and the temporary files,    *)
(* which no listing counts, are left out.                                  *)
(***************************************************************************)
EXTENDS Integers, FiniteSets, SequencesExt, Sequencing

CONSTANTS
  Keys,          \* cache keys
  Tasks,         \* bound: calls under way at once
  MaxBytes       \* budget, in units of the size of a file

ASSUME CacheAssumption ==
  IsFiniteSet(Keys) /\ Keys # {} /\ Tasks # {} /\ MaxBytes \in Nat

VARIABLES
  wav,           \* keys that have an audio file
  cars,          \* keys that have a side-car, the least recently used first
  pinned,        \* keys pinned, in memory
  task,          \* the calls under way
  spared         \* history: files that the last looks at the cache left where
                 \*   they are: pinned, not removed, or not seen

cacheVars == << wav, cars, pinned, task, spared >>

(* `left` is what remains of the listing an eviction walks through, `total`*)
(* its running sum.  `held` is a history variable: the keys pinned ever    *)
(* since the call made its listing.                                        *)
Idle == [at |-> "idle", key |-> CHOOSE k \in Keys : TRUE, left |-> << >>, total |-> 0, held |-> {}]

CacheInit ==
  /\ wav \in SUBSET Keys /\ cars = SetToSeq(wav)
  /\ pinned = {} /\ spared = {}
  /\ task = [t \in Tasks |-> [Idle EXCEPT !.at = "size"]]

Goes(t, at)     == task' = [task EXCEPT ![t].at = at]
TaskEnds(t)     == task' = [task EXCEPT ![t] = Idle]
Calls(t, k, at) == task' = [task EXCEPT ![t] = [Idle EXCEPT !.at = at, !.key = k]]

(* The rename of a side-car over the previous one, with a newer stamp.     *)
OtherCars(k) == Omitting(cars, {k})
Stamped(k)   == Append(OtherCars(k), k)
-----------------------------------------------------------------------------
(* get(): the file is read, then touched; readFile() may find nothing.     *)
Get(t, k) ==
  /\ task[t].at = "idle" /\ k \in wav
  /\ Calls(t, k, "touch") /\ UNCHANGED << wav, cars, pinned, spared >>

(* put(): a file that is there is only touched.                            *)
Put(t, k) ==
  /\ task[t].at = "idle"
  /\ Calls(t, k, IF k \in wav THEN "touch" ELSE "write")
  /\ UNCHANGED << wav, cars, pinned, spared >>

Touch(t) ==
  /\ task[t].at = "touch"
  /\ cars' = Stamped(task[t].key) /\ TaskEnds(t)
  /\ UNCHANGED << wav, pinned, spared >>

(* The rename of the temporary file, whose directory was made before.      *)
Rename(t) ==
  /\ task[t].at = "write"
  /\ wav' = wav \cup {task[t].key} /\ Goes(t, "stamp")
  /\ spared' = IF task[t].key \in wav THEN spared ELSE spared \ {task[t].key}
  /\ UNCHANGED << cars, pinned >>

(* The side-car; put() then returns, and evictIfOverBudget() goes on.      *)
(* Faulty variant: it is not called.                                       *)
StampOnly(t) ==
  /\ task[t].at = "stamp"
  /\ cars' = Stamped(task[t].key) /\ TaskEnds(t)
  /\ UNCHANGED << wav, pinned, spared >>
Stamp(t) ==
  /\ task[t].at = "stamp"
  /\ cars' = Stamped(task[t].key) /\ Goes(t, "size")
  /\ UNCHANGED << wav, pinned, spared >>

(* A write fails: the disk is full, or clear() has removed the directory.  *)
(* get() or put() throws, after the rename possibly, and evicts nothing.   *)
WriteFails(t) ==
  /\ task[t].at \in {"touch", "write", "stamp"} /\ TaskEnds(t)
  /\ spared' = IF task[t].at = "stamp" THEN spared \cup ({task[t].key} \cap wav) ELSE spared
  /\ UNCHANGED << wav, cars, pinned >>
-----------------------------------------------------------------------------
(* evictIfOverBudget() and evict(): two listings, then one file after the  *)
(* other until the sum is down to nine tenths of the budget.  A shard that *)
(* cannot be read is passed over, and `hidden` is what it has; when the    *)
(* root cannot be read, nobody hears of it, as if all were hidden.         *)
TargetBytes == (9 * MaxBytes) \div 10

Sized(t) ==
  /\ task[t].at = "size"
  /\ \E hidden \in SUBSET wav :
       IF Cardinality(wav \ hidden) > MaxBytes THEN Goes(t, "list") /\ UNCHANGED spared
       ELSE TaskEnds(t) /\ spared' = hidden
  /\ UNCHANGED << wav, cars, pinned >>

OldestFirst(files) == SetToSeq(files \ ToSet(cars)) \o Omitting(cars, Keys \ files)

Listed(t) ==
  /\ task[t].at = "list"
  /\ \E hidden \in SUBSET wav :
       LET files == wav \ hidden IN
       /\ IF Cardinality(files) <= TargetBytes THEN TaskEnds(t)
          ELSE task' = [task EXCEPT ![t] = [Idle EXCEPT !.at = "evict",
                 !.left = OldestFirst(files), !.total = Cardinality(files), !.held = pinned]]
       /\ spared' = hidden
  /\ UNCHANGED << wav, cars, pinned >>

(* Faulty variant: the pins are not looked at.                             *)
VictimPinned(t) ==
  /\ task[t].at = "evict" /\ task[t].left # << >> /\ task[t].total > TargetBytes
  /\ task' = [task EXCEPT ![t].at = "rm", ![t].key = Head(task[t].left), ![t].left = Tail(@)]
  /\ UNCHANGED << wav, cars, pinned, spared >>
Victim(t) ==
  LET k == Head(task[t].left) IN
  /\ task[t].at = "evict" /\ task[t].left # << >> /\ task[t].total > TargetBytes
  /\ IF k \in pinned
     THEN task' = [task EXCEPT ![t].left = Tail(@)] /\ spared' = spared \cup ({k} \cap wav)
     ELSE task' = [task EXCEPT ![t].at = "rm", ![t].key = k, ![t].left = Tail(@)] /\ UNCHANGED spared
  /\ UNCHANGED << wav, cars, pinned >>

(* Both files are removed, or one of them, or none: the sum counts the     *)
(* audio as gone.  A pin set since the choice comes too late.              *)
Removed(t) ==
  LET k == task[t].key IN
  /\ task[t].at = "rm"
  /\ \/ wav' = wav \ {k} /\ spared' = spared \ {k}
     \/ wav' = wav /\ spared' = spared \cup ({k} \cap wav)
  /\ cars' \in {cars, OtherCars(k)}
  /\ task' = [task EXCEPT ![t].at = "evict", ![t].total = @ - 1]
  /\ UNCHANGED pinned

Evicted(t) ==
  /\ task[t].at = "evict" /\ (task[t].left = << >> \/ task[t].total <= TargetBytes)
  /\ TaskEnds(t) /\ UNCHANGED << wav, cars, pinned, spared >>
-----------------------------------------------------------------------------
Pin(k) == pinned' = pinned \cup {k} /\ UNCHANGED << wav, cars, task, spared >>

Unpin(k) ==
  /\ pinned' = pinned \ {k}
  /\ task' = [t \in Tasks |-> [task[t] EXCEPT !.held = @ \ {k}]]
  /\ UNCHANGED << wav, cars, spared >>

(* clear() removes the directory under the feet of the writes under way.   *)
Clear == wav' = {} /\ cars' = << >> /\ spared' = {} /\ UNCHANGED << pinned, task >>

(* The window is reloaded: calls and pins are lost, and the constructor    *)
(* evicts what a previous window may have left over budget.                *)
Reload ==
  /\ pinned' = {}
  /\ task' = [t \in Tasks |-> [Idle EXCEPT !.at = IF t = (CHOOSE u \in Tasks : TRUE) THEN "size" ELSE "idle"]]
  /\ UNCHANGED << wav, cars, spared >>

CacheNext ==
  \/ \E t \in Tasks :
       \/ \E k \in Keys : Get(t, k) \/ Put(t, k)
       \/ Touch(t) \/ Rename(t) \/ Stamp(t) \/ WriteFails(t) \/ Sized(t) \/ Listed(t) \/ Victim(t)
       \/ Removed(t) \/ Evicted(t)
  \/ \E k \in Keys : Pin(k) \/ Unpin(k)
  \/ Clear \/ Reload

CacheSpec == CacheInit /\ [][CacheNext]_cacheVars
-----------------------------------------------------------------------------
CacheTypeOK ==
  /\ wav \subseteq Keys /\ pinned \subseteq Keys /\ spared \subseteq wav
  /\ cars \in Seq(Keys) /\ \A i, j \in DOMAIN cars : cars[i] = cars[j] => i = j
  /\ task \in [Tasks -> [at : {"idle", "touch", "write", "stamp", "size", "list", "evict", "rm"},
                         key : Keys, left : Seq(Keys), total : Int, held : SUBSET Keys]]

(* Once nothing is under way the cache is within its budget, but for files *)
(* that were pinned, could not be removed or were not seen when the cache  *)
(* was last looked at, and the file of a put() that threw without looking: *)
(* no overlap of calls, clear or reload leaves more (evictIfOverBudget,    *)
(* which unpin() does not call).                                           *)
CacheBudgetWhenQuiet ==
  (\A t \in Tasks : task[t].at = "idle") => Cardinality(wav \ spared) <= MaxBytes

(* An eviction removes no audio that has been pinned ever since the        *)
(* eviction listed the files, however long it takes (evict, pin).  Audio   *)
(* pinned while its removal is under way is lost.                          *)
PinnedBeforeSweepKept ==
  [][\A t \in Tasks : task[t].at = "rm" /\ task'[t].at = "evict" => task[t].key \notin task[t].held]_cacheVars
=============================================================================
