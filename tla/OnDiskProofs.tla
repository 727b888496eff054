---------------------------- MODULE OnDiskProofs ----------------------------
(* Proofs about what several calls at once do to directories: the audio    *)
(* cache (DiskAudioCache) and the installed voice (LocalVoice), for any    *)
(* keys, calls, installations and texts.                                   *)
EXTENDS DiskAudioCache, LocalVoice, SequenceFacts

-----------------------------------------------------------------------------
(* The cache.                                                              *)

(* A call is a record of this shape.                                       *)
Shaped(r) ==
  \E A, K, L, N, H : r \in [at : A, key : K, left : L, total : N, held : H]

TasksShaped ==
  task = [t \in Tasks |-> task[t]] /\ \A t \in Tasks : Shaped(task[t])

(* What has been pinned ever since a listing still is, and what is being   *)
(* removed was not pinned when it was chosen, nor ever since.              *)
SweepsFit ==
  \A t \in Tasks :
    /\ task[t].held \subseteq pinned
    /\ task[t].at = "rm" => task[t].key \notin task[t].held

SweepInv == TasksShaped /\ SweepsFit

(* Calls that are at no removal, of a key pinned since or not.             *)
LEMMA TaskSteps ==
  ASSUME TasksShaped, NEW t \in Tasks, NEW r, Shaped(r), task' = [task EXCEPT ![t] = r],
         \A u \in Tasks : task[u].held \subseteq pinned',
         \A u \in Tasks : task[u].at = "rm" => task[u].key \notin task[u].held,
         r.held \subseteq pinned', r.at = "rm" => r.key \notin r.held
  PROVE  SweepInv'
<1>1. task' = [u \in Tasks |-> IF u = t THEN r ELSE task[u]]
  BY DEF TasksShaped
<1>2. task'[t] = r /\ \A u \in Tasks : u # t => task'[u] = task[u]
  BY <1>1
<1>3. TasksShaped'
  BY <1>1 DEF TasksShaped
<1>4. SweepsFit'
  BY <1>2 DEF SweepsFit
<1> QED BY <1>3, <1>4 DEF SweepInv

(* The forms a call takes.                                                 *)
Going(r, at)       == [r EXCEPT !.at = at]
Passing(r, l)      == [r EXCEPT !.left = l]
Choosing(r, k, l)  == [r EXCEPT !.at = "rm", !.key = k, !.left = l]
Counting(r, n)     == [r EXCEPT !.at = "evict", !.total = n]
Making(r, at, k)   == [r EXCEPT !.at = at, !.key = k]
Releasing(r, h)    == [r EXCEPT !.held = h]
Sweeping(r, l, n, h) == [r EXCEPT !.at = "evict", !.left = l, !.total = n, !.held = h]

(* What a call becomes keeps its shape, and the named fields what they are *)
(* given.                                                                  *)
LEMMA Shapes ==
  ASSUME NEW r, Shaped(r), NEW at, NEW k, NEW n, NEW l, NEW h
  PROVE  /\ Shaped(Going(r, at)) /\ Going(r, at).at = at
         /\ Going(r, at).held = r.held /\ Going(r, at).key = r.key
         /\ Shaped(Passing(r, l)) /\ Passing(r, l).at = r.at
         /\ Passing(r, l).held = r.held /\ Passing(r, l).key = r.key
         /\ Shaped(Choosing(r, k, l)) /\ Choosing(r, k, l).at = "rm"
         /\ Choosing(r, k, l).held = r.held /\ Choosing(r, k, l).key = k
         /\ Shaped(Counting(r, n)) /\ Counting(r, n).at = "evict"
         /\ Counting(r, n).held = r.held
         /\ Shaped(Making(r, at, k)) /\ Making(r, at, k).at = at
         /\ Making(r, at, k).held = r.held
         /\ Shaped(Releasing(r, h)) /\ Releasing(r, h).at = r.at
         /\ Releasing(r, h).held = h /\ Releasing(r, h).key = r.key
         /\ Shaped(Sweeping(r, l, n, h)) /\ Sweeping(r, l, n, h).at = "evict"
         /\ Sweeping(r, l, n, h).held = h
<1>1. PICK A, K, L, N, H : r \in [at : A, key : K, left : L, total : N, held : H]
  BY DEF Shaped
<1>2. Going(r, at) \in [at : {at}, key : K, left : L, total : N, held : H]
      /\ Going(r, at).at = at /\ Going(r, at).held = r.held /\ Going(r, at).key = r.key
  BY <1>1 DEF Going
<1>3. Passing(r, l) \in [at : A, key : K, left : {l}, total : N, held : H]
      /\ Passing(r, l).at = r.at /\ Passing(r, l).held = r.held /\ Passing(r, l).key = r.key
  BY <1>1 DEF Passing
<1>4. Choosing(r, k, l) \in [at : {"rm"}, key : {k}, left : {l}, total : N, held : H]
      /\ Choosing(r, k, l).at = "rm" /\ Choosing(r, k, l).held = r.held
      /\ Choosing(r, k, l).key = k
  BY <1>1 DEF Choosing
<1>5. Counting(r, n) \in [at : {"evict"}, key : K, left : L, total : {n}, held : H]
      /\ Counting(r, n).at = "evict" /\ Counting(r, n).held = r.held
  BY <1>1 DEF Counting
<1>6. Making(r, at, k) \in [at : {at}, key : {k}, left : L, total : N, held : H]
      /\ Making(r, at, k).at = at /\ Making(r, at, k).held = r.held
  BY <1>1 DEF Making
<1>7. Releasing(r, h) \in [at : A, key : K, left : L, total : N, held : {h}]
      /\ Releasing(r, h).at = r.at /\ Releasing(r, h).held = h
      /\ Releasing(r, h).key = r.key
  BY <1>1 DEF Releasing
<1>8. Sweeping(r, l, n, h) \in [at : {"evict"}, key : K, left : {l}, total : {n}, held : {h}]
      /\ Sweeping(r, l, n, h).at = "evict" /\ Sweeping(r, l, n, h).held = h
  BY <1>1 DEF Sweeping
<1>9. ASSUME NEW q, NEW A1, NEW K1, NEW L1, NEW N1, NEW H1,
             q \in [at : A1, key : K1, left : L1, total : N1, held : H1]
      PROVE  Shaped(q)
  BY <1>9 DEF Shaped
<1>10. Shaped(Going(r, at))
  BY <1>2, <1>9
<1>11. Shaped(Passing(r, l))
  BY <1>3, <1>9
<1>12. Shaped(Choosing(r, k, l))
  BY <1>4, <1>9
<1>13. Shaped(Counting(r, n))
  BY <1>5, <1>9
<1>14. Shaped(Making(r, at, k))
  BY <1>6, <1>9
<1>15. Shaped(Releasing(r, h))
  BY <1>7, <1>9
<1>16. Shaped(Sweeping(r, l, n, h))
  BY <1>8, <1>9
<1> QED BY <1>2, <1>3, <1>4, <1>5, <1>6, <1>7, <1>8, <1>10, <1>11, <1>12, <1>13, <1>14,
           <1>15, <1>16

(* A call that is not under way has that shape too.                        *)
LEMMA IdleShape == Shaped(Idle) /\ Idle.at = "idle" /\ Idle.held = {}
<1>1. /\ Idle \in [at : {"idle"}, key : {Idle.key}, left : {<< >>}, total : {0}, held : {{}}]
      /\ Idle.at = "idle" /\ Idle.held = {}
  BY DEF Idle
<1> QED BY <1>1 DEF Shaped

(* A call that is made, and a call that goes on to anything but a removal. *)
LEMMA CallKeeps ==
  ASSUME SweepInv, NEW t \in Tasks, NEW k, NEW at, at # "rm", UNCHANGED pinned,
         Calls(t, k, at) \/ Goes(t, at) \/ TaskEnds(t)
  PROVE  SweepInv'
<1>1. /\ TasksShaped /\ Shaped(task[t])
      /\ \A u \in Tasks : /\ task[u].held \subseteq pinned'
                          /\ task[u].at = "rm" => task[u].key \notin task[u].held
  BY DEF SweepInv, SweepsFit, TasksShaped
<1>2. ASSUME Calls(t, k, at) PROVE SweepInv'
  <2> DEFINE r == Making(Idle, at, k)
  <2>1. Shaped(r) /\ r.at = at /\ r.held = {}
    BY IdleShape, Shapes
  <2>2. task' = [task EXCEPT ![t] = r]
    BY <1>2 DEF Calls, Making
  <2> HIDE DEF r
  <2> QED BY <1>1, <2>1, <2>2, TaskSteps
<1>3. ASSUME Goes(t, at) PROVE SweepInv'
  <2> DEFINE r == Going(task[t], at)
  <2>1. Shaped(r) /\ r.at = at /\ r.held = task[t].held
    BY <1>1, Shapes
  <2>2. task' = [task EXCEPT ![t] = r]
    BY <1>1, <1>3 DEF Goes, Going, TasksShaped
  <2> HIDE DEF r
  <2> QED BY <1>1, <2>1, <2>2, TaskSteps
<1>4. ASSUME TaskEnds(t) PROVE SweepInv'
  BY <1>1, <1>4, IdleShape, TaskSteps DEF TaskEnds
<1> QED BY <1>2, <1>3, <1>4

(* The steps of a call.                                                    *)
LEMMA CallStepsKeep ==
  ASSUME SweepInv, NEW t \in Tasks,
         \/ \E k \in Keys : Get(t, k) \/ Put(t, k)
         \/ Touch(t) \/ Rename(t) \/ Stamp(t) \/ WriteFails(t) \/ Sized(t) \/ Evicted(t)
  PROVE  SweepInv'
<1>1. UNCHANGED pinned
  BY DEF Get, Put, Touch, Rename, Stamp, WriteFails, Sized, Evicted
<1>2. \/ \E k \in Keys : Calls(t, k, "touch") \/ Calls(t, k, "write")
      \/ Goes(t, "stamp") \/ Goes(t, "size") \/ Goes(t, "list") \/ TaskEnds(t)
  BY DEF Get, Put, Touch, Rename, Stamp, WriteFails, Sized, Evicted
<1> QED BY <1>1, <1>2, CallKeeps

(* The steps of a sweep.                                                   *)
LEMMA SweepStepsKeep ==
  ASSUME SweepInv, NEW t \in Tasks, Listed(t) \/ Victim(t) \/ Removed(t)
  PROVE  SweepInv'
<1>1. /\ TasksShaped /\ Shaped(task[t]) /\ task[t].held \subseteq pinned
      /\ \A u \in Tasks : /\ task[u].held \subseteq pinned
                          /\ task[u].at = "rm" => task[u].key \notin task[u].held
  BY DEF SweepInv, SweepsFit, TasksShaped
<1>2. pinned' = pinned
  BY DEF Listed, Victim, Removed
<1>3. ASSUME Listed(t) PROVE SweepInv'
  <2>1. CASE TaskEnds(t)
    BY <1>2, <2>1, CallKeeps
  <2>2. CASE ~ TaskEnds(t)
    <3>0. PICK hidden \in SUBSET wav :
            task' = [task EXCEPT ![t] = Sweeping(Idle, OldestFirst(wav \ hidden),
                                                 Cardinality(wav \ hidden), pinned)]
      BY <1>3, <2>2 DEF Listed, Sweeping
    <3> DEFINE r == Sweeping(Idle, OldestFirst(wav \ hidden), Cardinality(wav \ hidden), pinned)
    <3>1. task' = [task EXCEPT ![t] = r]
      BY <3>0
    <3>2. Shaped(r) /\ r.at = "evict" /\ r.held = pinned
      BY IdleShape, Shapes
    <3> HIDE DEF r
    <3> QED BY <1>1, <1>2, <3>1, <3>2, TaskSteps
  <2> QED BY <2>1, <2>2
<1>4. ASSUME Victim(t) PROVE SweepInv'
  <2> DEFINE k == Head(task[t].left)
             l == Tail(task[t].left)
             q == Passing(task[t], l)
             r == Choosing(task[t], k, l)
  <2>1. task[t].at = "evict"
    BY <1>4 DEF Victim
  <2>2. CASE k \in pinned
    <3>1. task' = [task EXCEPT ![t] = q]
      BY <1>1, <1>4, <2>2 DEF Victim, TasksShaped, Passing
    <3>2. Shaped(q) /\ q.at = task[t].at /\ q.held = task[t].held
      BY <1>1, Shapes
    <3> HIDE DEF q
    <3> QED BY <1>1, <1>2, <2>1, <3>1, <3>2, TaskSteps
  <2>3. CASE k \notin pinned
    <3>1. task' = [task EXCEPT ![t] = r]
      BY <1>1, <1>4, <2>3 DEF Victim, TasksShaped, Choosing
    <3>2. Shaped(r) /\ r.key = k /\ r.held = task[t].held
      BY <1>1, Shapes
    <3>3. r.key \notin r.held
      BY <1>1, <2>3, <3>2
    <3> HIDE DEF r
    <3> QED BY <1>1, <1>2, <3>1, <3>2, <3>3, TaskSteps
  <2> QED BY <2>2, <2>3
<1>5. ASSUME Removed(t) PROVE SweepInv'
  <2> DEFINE r == Counting(task[t], task[t].total - 1)
  <2>1. task' = [task EXCEPT ![t] = r]
    BY <1>1, <1>5 DEF Removed, TasksShaped, Counting
  <2>2. Shaped(r) /\ r.at = "evict" /\ r.held = task[t].held
    BY <1>1, Shapes
  <2> HIDE DEF r
  <2> QED BY <1>1, <1>2, <2>1, <2>2, TaskSteps
<1> QED BY <1>3, <1>4, <1>5

(* Pins, and what happens to every call at once.                           *)
LEMMA RestKeepsSweeps ==
  ASSUME SweepInv, (\E k \in Keys : Pin(k) \/ Unpin(k)) \/ Clear \/ Reload
  PROVE  SweepInv'
<1>1. /\ task = [t \in Tasks |-> task[t]] /\ \A t \in Tasks : Shaped(task[t])
      /\ \A u \in Tasks : /\ task[u].held \subseteq pinned
                          /\ task[u].at = "rm" => task[u].key \notin task[u].held
  BY DEF SweepInv, SweepsFit, TasksShaped
<1>2. ASSUME NEW k \in Keys, Pin(k) PROVE SweepInv'
  BY <1>1, <1>2 DEF Pin, SweepInv, TasksShaped, SweepsFit
<1>3. ASSUME NEW k \in Keys, Unpin(k) PROVE SweepInv'
  <2>1. \A t \in Tasks : task'[t] = Releasing(task[t], task[t].held \ {k})
    BY <1>1, <1>3 DEF Unpin, Releasing
  <2>2. ASSUME NEW t \in Tasks
        PROVE  /\ Shaped(task'[t]) /\ task'[t].held = task[t].held \ {k}
               /\ task'[t].at = task[t].at /\ task'[t].key = task[t].key
    <3> DEFINE h == task[t].held \ {k}
    <3>1. task'[t] = Releasing(task[t], h) /\ Shaped(task[t])
      BY <1>1, <2>1
    <3> HIDE DEF h
    <3>2. /\ Shaped(task'[t]) /\ task'[t].held = h
          /\ task'[t].at = task[t].at /\ task'[t].key = task[t].key
      BY <3>1, Shapes
    <3> QED BY <3>2 DEF h
  <2>3. task' = [t \in Tasks |-> task'[t]] /\ pinned' = pinned \ {k}
    BY <1>3 DEF Unpin
  <2> QED BY <1>1, <2>2, <2>3 DEF SweepInv, TasksShaped, SweepsFit
<1>4. ASSUME Clear PROVE SweepInv'
  BY <1>1, <1>4 DEF Clear, SweepInv, TasksShaped, SweepsFit
<1>5. ASSUME Reload PROVE SweepInv'
  <2>1. task' = [t \in Tasks |-> task'[t]] /\ pinned' = {}
    BY <1>5 DEF Reload
  <2>2. ASSUME NEW t \in Tasks
        PROVE  Shaped(task'[t]) /\ task'[t].held = {} /\ task'[t].at # "rm"
    <3> DEFINE at == IF t = (CHOOSE u \in Tasks : TRUE) THEN "size" ELSE "idle"
    <3>1. task'[t] = Going(Idle, at) /\ at # "rm"
      BY <1>5 DEF Reload, Going
    <3> HIDE DEF at
    <3> QED BY <3>1, IdleShape, Shapes
  <2> QED BY <2>1, <2>2 DEF SweepInv, TasksShaped, SweepsFit
<1> QED BY <1>2, <1>3, <1>4, <1>5

(* Nothing is being removed at first.                                      *)
LEMMA InitSweep == CacheInit => SweepInv
<1> SUFFICES ASSUME CacheInit PROVE SweepInv
  OBVIOUS
<1>1. task = [t \in Tasks |-> Going(Idle, "size")] /\ pinned = {}
  BY DEF CacheInit, Going
<1>2. /\ Shaped(Going(Idle, "size")) /\ Going(Idle, "size").held = {}
      /\ Going(Idle, "size").at = "size"
  BY IdleShape, Shapes
<1> QED BY <1>1, <1>2 DEF SweepInv, TasksShaped, SweepsFit

(* Sweeps and pins agree in every reachable state.                         *)
THEOREM SweepInvariant == CacheSpec => []SweepInv
<1>1. SweepInv /\ [CacheNext]_cacheVars => SweepInv'
  <2> SUFFICES ASSUME SweepInv, [CacheNext]_cacheVars PROVE SweepInv'
    OBVIOUS
  <2>1. ASSUME UNCHANGED cacheVars PROVE SweepInv'
    BY <2>1 DEF cacheVars, SweepInv, TasksShaped, SweepsFit
  <2> QED BY <2>1, CallStepsKeep, SweepStepsKeep, RestKeepsSweeps DEF CacheNext
<1> QED BY InitSweep, <1>1, PTL DEF CacheSpec

(* An eviction removes no audio that has been pinned ever since it listed  *)
(* the files.                                                              *)
THEOREM KeepsPinned == CacheSpec => PinnedBeforeSweepKept
<1>1. SweepInv => \A t \in Tasks : task[t].at = "rm" /\ task'[t].at = "evict"
                                   => task[t].key \notin task[t].held
  BY DEF SweepInv, SweepsFit
<1> QED BY <1>1, SweepInvariant, PTL DEF PinnedBeforeSweepKept

(* The records of CacheTypeOK.                                             *)
Sites == {"idle", "touch", "write", "stamp", "size", "list", "evict", "rm"}
CacheCall == [at : Sites, key : Keys, left : Seq(Keys), total : Int, held : SUBSET Keys]

(* What the budget counts: the files that no look has left where they are, *)
(* but for those whose put() has yet to write the side-car.                *)
Unstamped == {task[t].key : t \in {u \in Tasks : task[u].at = "stamp"}}
Considered == (wav \ spared) \ Unstamped

(* A call about to look at the size of the cache, or to list it; and one   *)
(* in a sweep that still has before it every file the budget counts, with  *)
(* a sum that counts them.                                                 *)
Sees(r, files) ==
  \/ r.at \in {"size", "list"}
  \/ r.at = "evict" /\ files \subseteq ToSet(r.left) /\ Len(r.left) <= r.total
  \/ r.at = "rm" /\ files \subseteq ToSet(r.left) \cup {r.key} /\ Len(r.left) < r.total
Covered  == Cardinality(Considered) <= MaxBytes \/ \E t \in Tasks : Sees(task[t], Considered)
CacheInv == CacheTypeOK /\ Covered

(* CacheTypeOK, with these names.                                          *)
LEMMA CacheTypes ==
  CacheTypeOK <=>
    /\ wav \subseteq Keys /\ pinned \subseteq Keys /\ spared \subseteq wav
    /\ cars \in Seq(Keys) /\ Distinct(cars) /\ task \in [Tasks -> CacheCall]
BY DEF CacheTypeOK, Distinct, CacheCall, Sites

(* The side-cars are a sequence of keys without duplicates.                *)
LEMMA OtherCarsFacts ==
  ASSUME cars \in Seq(Keys), Distinct(cars), NEW k \in Keys
  PROVE  /\ OtherCars(k) \in Seq(Keys) /\ Distinct(OtherCars(k))
         /\ ToSet(OtherCars(k)) = ToSet(cars) \ {k}
BY OmittingFacts DEF OtherCars

(* A side-car that is stamped is there once, the youngest.                 *)
LEMMA StampedFacts ==
  ASSUME cars \in Seq(Keys), Distinct(cars), NEW k \in Keys
  PROVE  Stamped(k) \in Seq(Keys) /\ Distinct(Stamped(k))
<1> DEFINE w == OtherCars(k)
           n == Len(w)
           a == Append(w, k)
<1>1. w \in Seq(Keys) /\ Distinct(w) /\ k \notin ToSet(w)
  BY OtherCarsFacts
<1> HIDE DEF w
<1>2. /\ a \in Seq(Keys) /\ Len(a) = n + 1 /\ \A i \in 1 .. n : a[i] = w[i]
      /\ a[n + 1] = k /\ n \in Nat /\ DOMAIN w = 1 .. n
  BY <1>1, AppendProperties, LenProperties
<1>3. DOMAIN a = 1 .. n + 1
  BY <1>2, LenProperties
<1>4. \A i \in 1 .. n : w[i] # k
  BY <1>1, <1>2 DEF ToSet
<1> HIDE DEF a, n
<1>5. ASSUME NEW i \in 1 .. n + 1, NEW j \in 1 .. n + 1, a[i] = a[j] PROVE i = j
  <2>1. CASE i \in 1 .. n /\ j \in 1 .. n
    BY <1>1, <1>2, <1>5, <2>1 DEF Distinct
  <2>2. CASE i = n + 1 \/ j = n + 1
    <3>1. ~ (i \in 1 .. n) \/ ~ (j \in 1 .. n)
      BY <1>2, <2>2
    <3>2. (i \in 1 .. n \/ i = n + 1) /\ (j \in 1 .. n \/ j = n + 1)
      BY <1>2
    <3> QED BY <1>2, <1>4, <1>5, <3>1, <3>2
  <2> QED BY <1>2, <2>1, <2>2
<1>6. Distinct(a)
  BY <1>3, <1>5 DEF Distinct
<1>7. Stamped(k) = a
  BY DEF Stamped, a, w
<1> QED BY <1>2, <1>6, <1>7

(* A listing has every file that it sees, once.                            *)
LEMMA ListingIsWhole ==
  ASSUME CacheTypeOK, NEW files \in SUBSET wav
  PROVE  /\ OldestFirst(files) \in Seq(Keys) /\ files \subseteq ToSet(OldestFirst(files))
         /\ Len(OldestFirst(files)) = Cardinality(files)
<1> DEFINE C == ToSet(cars)
           a == SetToSeq(files \ C)
           b == Omitting(cars, Keys \ files)
<1>1. /\ cars \in Seq(Keys) /\ Distinct(cars) /\ DOMAIN cars = 1 .. Len(cars) /\ files \subseteq Keys
      /\ IsFiniteSet(files) /\ Cardinality(files) \in Nat
  <2>1. files \in SUBSET Keys /\ IsFiniteSet(Keys)
    BY CacheTypes, CacheAssumption
  <2>2. IsFiniteSet(files)
    BY <2>1, FS_Subset
  <2> QED BY <2>2, CacheTypes, LenProperties, FS_CardinalityType
<1>2. /\ IsFiniteSet(files \ C) /\ IsFiniteSet(files \cap C)
      /\ Cardinality(files \ C) = Cardinality(files) - Cardinality(files \cap C)
  BY <1>1, FS_Difference, FS_Intersection
<1>3. b \in Seq(Keys) /\ Distinct(b) /\ ToSet(b) = C \ (Keys \ files)
  BY <1>1, OmittingFacts
<1>4. ToSet(b) = files \cap C
  <2>1. C \subseteq Keys
    BY <1>1, ToSetFacts
  <2> QED BY <1>3, <2>1
<1> HIDE DEF b
<1>5. Cardinality(files \cap C) = Len(b)
  <2> HIDE DEF C
  <2> QED BY <1>3, <1>4, ToSetFacts
<1>6. a \in Seq(Keys) /\ Len(a) = Cardinality(files \ C) /\ ToSet(a) = files \ C
  <2> HIDE DEF C
  <2>1. a \in Seq(files \ C) /\ Len(a) = Cardinality(files \ C) /\ ToSet(a) = files \ C
    BY <1>2, ListingFacts
  <2> QED BY <1>1, <2>1, SeqMonotonic
<1> HIDE DEF a, C
<1>7. a \o b \in Seq(Keys) /\ Len(a \o b) = Len(a) + Len(b) /\ ToSet(a \o b) = ToSet(a) \cup ToSet(b)
  BY <1>3, <1>6, ConcatProperties, ToSetConcat
<1>8. Cardinality(files \ C) \in Nat /\ Cardinality(files \cap C) \in Nat
  BY <1>2, FS_CardinalityType
<1>9. OldestFirst(files) = a \o b
  BY DEF OldestFirst, a, b, C
<1> QED BY <1>1, <1>2, <1>4, <1>5, <1>6, <1>7, <1>8, <1>9

(* What the forms a call takes have for fields, when they are calls.       *)
LEMMA CallTypes ==
  ASSUME NEW r \in CacheCall
  PROVE  /\ \A at \in Sites : Going(r, at) \in CacheCall /\ Going(r, at).at = at
         /\ \A l \in Seq(Keys) :
              /\ Passing(r, l) \in CacheCall /\ Passing(r, l).at = r.at
              /\ Passing(r, l).left = l /\ Passing(r, l).total = r.total
         /\ \A k \in Keys, l \in Seq(Keys) :
              /\ Choosing(r, k, l) \in CacheCall /\ Choosing(r, k, l).at = "rm"
              /\ Choosing(r, k, l).key = k /\ Choosing(r, k, l).left = l
              /\ Choosing(r, k, l).total = r.total
         /\ \A n \in Int :
              /\ Counting(r, n) \in CacheCall /\ Counting(r, n).at = "evict"
              /\ Counting(r, n).left = r.left /\ Counting(r, n).total = n
         /\ \A at \in Sites, k \in Keys : Making(r, at, k) \in CacheCall
         /\ \A h \in SUBSET Keys :
              /\ Releasing(r, h) \in CacheCall /\ Releasing(r, h).at = r.at
              /\ Releasing(r, h).left = r.left /\ Releasing(r, h).total = r.total
              /\ Releasing(r, h).key = r.key
         /\ \A l \in Seq(Keys), n \in Int, h \in SUBSET Keys :
              /\ Sweeping(r, l, n, h) \in CacheCall /\ Sweeping(r, l, n, h).at = "evict"
              /\ Sweeping(r, l, n, h).left = l /\ Sweeping(r, l, n, h).total = n
<1> USE DEF CacheCall
<1>1. ASSUME NEW at \in Sites PROVE Going(r, at) \in CacheCall /\ Going(r, at).at = at
  BY DEF Going
<1>2. ASSUME NEW l \in Seq(Keys)
      PROVE  /\ Passing(r, l) \in CacheCall /\ Passing(r, l).at = r.at
             /\ Passing(r, l).left = l /\ Passing(r, l).total = r.total
  BY DEF Passing
<1>3. ASSUME NEW k \in Keys, NEW l \in Seq(Keys)
      PROVE  /\ Choosing(r, k, l) \in CacheCall /\ Choosing(r, k, l).at = "rm"
             /\ Choosing(r, k, l).key = k /\ Choosing(r, k, l).left = l
             /\ Choosing(r, k, l).total = r.total
  BY DEF Choosing, Sites
<1>4. ASSUME NEW n \in Int
      PROVE  /\ Counting(r, n) \in CacheCall /\ Counting(r, n).at = "evict"
             /\ Counting(r, n).left = r.left /\ Counting(r, n).total = n
  BY DEF Counting, Sites
<1>5. ASSUME NEW at \in Sites, NEW k \in Keys PROVE Making(r, at, k) \in CacheCall
  BY DEF Making
<1>6. ASSUME NEW h \in SUBSET Keys
      PROVE  /\ Releasing(r, h) \in CacheCall /\ Releasing(r, h).at = r.at
             /\ Releasing(r, h).left = r.left /\ Releasing(r, h).total = r.total
             /\ Releasing(r, h).key = r.key
  BY DEF Releasing
<1>7. ASSUME NEW l \in Seq(Keys), NEW n \in Int, NEW h \in SUBSET Keys
      PROVE  /\ Sweeping(r, l, n, h) \in CacheCall /\ Sweeping(r, l, n, h).at = "evict"
             /\ Sweeping(r, l, n, h).left = l /\ Sweeping(r, l, n, h).total = n
  BY DEF Sweeping, Sites
<1> HIDE DEF CacheCall
<1> QED BY <1>1, <1>2, <1>3, <1>4, <1>5, <1>6, <1>7

(* The call that is none.                                                  *)
LEMMA IdleType == Idle \in CacheCall /\ Idle.at = "idle"
<1>1. (CHOOSE k \in Keys : TRUE) \in Keys
  BY CacheAssumption
<1>2. << >> \in Seq(Keys)
  BY EmptySeq
<1> QED BY <1>1, <1>2 DEF Idle, CacheCall, Sites

(* What CacheInv says of the files.                                        *)
LEMMA FilesFinite ==
  ASSUME CacheTypeOK, NEW S, S \subseteq wav
  PROVE  /\ IsFiniteSet(S) /\ Cardinality(S) \in Nat
         /\ \A T \in SUBSET S : Cardinality(T) <= Cardinality(S)
<1>1. S \in SUBSET Keys /\ IsFiniteSet(Keys)
  BY CacheTypes, CacheAssumption
<1>2. IsFiniteSet(S)
  BY <1>1, FS_Subset
<1> QED BY <1>2, FS_CardinalityType, FS_Subset

(* The files whose side-cars are awaited, after a step of one call.        *)
LEMMA UnstampedStep ==
  ASSUME task \in [Tasks -> CacheCall], NEW t \in Tasks, NEW r, task' = [task EXCEPT ![t] = r]
  PROVE  /\ Unstamped \ {task[t].key} \subseteq Unstamped'
         /\ task[t].at # "stamp" => Unstamped \subseteq Unstamped'
         /\ r.at = "stamp" => r.key \in Unstamped'
<1>1. task'[t] = r /\ \A u \in Tasks : u # t => task'[u] = task[u]
  OBVIOUS
<1>2. ASSUME NEW u \in Tasks, task'[u].at = "stamp" PROVE task'[u].key \in Unstamped'
  BY <1>2 DEF Unstamped
<1>3. ASSUME NEW k \in Unstamped, k # task[t].key \/ task[t].at # "stamp" PROVE k \in Unstamped'
  <2>1. PICK u \in Tasks : task[u].at = "stamp" /\ k = task[u].key
    BY DEF Unstamped
  <2> QED BY <1>1, <1>2, <1>3, <2>1
<1> QED BY <1>1, <1>2, <1>3

(* A step of one call: it still sees what the budget counts, or lets go of *)
(* it for a reason.                                                        *)
LEMMA CacheStep ==
  ASSUME CacheInv, NEW t \in Tasks, NEW r \in CacheCall, task' = [task EXCEPT ![t] = r],
         wav' \subseteq Keys, spared' \subseteq wav', cars' \in Seq(Keys), Distinct(cars'),
         UNCHANGED pinned,
         \/ Sees(r, Considered')
         \/ Cardinality(Considered') <= MaxBytes
         \/ Considered' \subseteq Considered /\ (Sees(task[t], Considered) => Sees(r, Considered'))
  PROVE  CacheInv'
<1>1. /\ task \in [Tasks -> CacheCall] /\ pinned \subseteq Keys /\ CacheTypeOK /\ Covered
  BY CacheTypes DEF CacheInv
<1>2. /\ task' \in [Tasks -> CacheCall] /\ task'[t] = r
      /\ \A u \in Tasks : u # t => task'[u] = task[u]
  BY <1>1
<1>3. CacheTypeOK'
  BY <1>1, <1>2 DEF CacheTypeOK, Distinct, CacheCall, Sites
<1>4. CASE Sees(r, Considered') \/ Cardinality(Considered') <= MaxBytes
  BY <1>2, <1>3, <1>4 DEF CacheInv, Covered
<1>5. CASE Considered' \subseteq Considered /\ (Sees(task[t], Considered) => Sees(r, Considered'))
  <2>1. CASE Cardinality(Considered) <= MaxBytes
    <3>1. Considered \subseteq wav
      BY DEF Considered
    <3>2. /\ Cardinality(Considered) \in Nat /\ Cardinality(Considered') <= Cardinality(Considered)
      BY <1>1, <1>5, <3>1, FilesFinite
    <3>3. Considered' \subseteq wav
      BY <1>5, <3>1
    <3>4. Cardinality(Considered') \in Nat /\ MaxBytes \in Nat
      BY <1>1, <3>3, FilesFinite, CacheAssumption
    <3>5. Cardinality(Considered') <= MaxBytes
      BY <2>1, <3>2, <3>4
    <3> QED BY <1>3, <3>5 DEF CacheInv, Covered
  <2>2. ASSUME NEW u \in Tasks, Sees(task[u], Considered) PROVE Covered'
    <3>1. CASE u = t
      BY <1>2, <1>5, <2>2, <3>1 DEF Covered
    <3>2. CASE u # t
      <4>1. Sees(task[u], Considered')
        BY <1>5, <2>2 DEF Sees
      <4> QED BY <1>2, <3>2, <4>1 DEF Covered
    <3> QED BY <3>1, <3>2
  <2> QED BY <1>1, <1>3, <2>1, <2>2 DEF CacheInv, Covered
<1> QED BY <1>4, <1>5

(* Fewer files than a few.                                                 *)
LEMMA FewFiles ==
  ASSUME CacheTypeOK, NEW S \in SUBSET wav, NEW T \in SUBSET S,
         ~ Cardinality(S) > MaxBytes \/ Cardinality(S) <= MaxBytes
  PROVE  Cardinality(T) <= MaxBytes
<1>1. S \subseteq wav /\ T \subseteq wav
  OBVIOUS
<1>2. /\ Cardinality(S) \in Nat /\ Cardinality(T) \in Nat
      /\ Cardinality(T) <= Cardinality(S)
  BY <1>1, FilesFinite
<1> QED BY <1>2, CacheAssumption

(* The steps of a call outside of a sweep: a write, a touch, and the look  *)
(* at the size of the cache.                                               *)
LEMMA CallsKeepBudget ==
  ASSUME CacheInv, NEW t \in Tasks,
         \/ \E k \in Keys : Get(t, k) \/ Put(t, k)
         \/ Touch(t) \/ Rename(t) \/ Stamp(t) \/ WriteFails(t) \/ Sized(t) \/ Evicted(t)
  PROVE  CacheInv'
<1>1. /\ task \in [Tasks -> CacheCall] /\ task[t] \in CacheCall /\ task[t].key \in Keys
      /\ wav \subseteq Keys /\ spared \subseteq wav /\ cars \in Seq(Keys) /\ Distinct(cars)
      /\ pinned \subseteq Keys /\ CacheTypeOK
  BY CacheTypes DEF CacheInv, CacheCall
<1>2. \A at \in Sites : Going(task[t], at) \in CacheCall /\ Going(task[t], at).at = at
  BY <1>1, CallTypes
<1>3. ASSUME NEW k \in Keys, NEW at \in {"touch", "write"}, task[t].at = "idle", Calls(t, k, at),
             UNCHANGED << wav, cars, pinned, spared >>
      PROVE  CacheInv'
  <2> DEFINE r == Making(Idle, at, k)
  <2>1. at \in Sites
    BY DEF Sites
  <2>2. r \in CacheCall
    BY <1>1, <2>1, IdleType, CallTypes
  <2>3. task' = [task EXCEPT ![t] = r]
    BY <1>3 DEF Calls, Making
  <2>4. Considered' \subseteq Considered /\ ~ Sees(task[t], Considered)
    BY <1>1, <1>3, <2>3, UnstampedStep DEF Considered, Sees
  <2> HIDE DEF r
  <2> QED BY <1>1, <1>3, <2>2, <2>3, <2>4, CacheStep
<1>4. ASSUME Touch(t) PROVE CacheInv'
  <2>1. task' = [task EXCEPT ![t] = Idle] /\ task[t].at = "touch"
    BY <1>4 DEF Touch, TaskEnds
  <2>2. cars' \in Seq(Keys) /\ Distinct(cars') /\ UNCHANGED << wav, pinned, spared >>
    BY <1>1, <1>4, StampedFacts DEF Touch
  <2>3. Considered' \subseteq Considered /\ ~ Sees(task[t], Considered)
    BY <1>1, <2>1, <2>2, UnstampedStep DEF Considered, Sees
  <2> QED BY <1>1, <2>1, <2>2, <2>3, IdleType, CacheStep
<1>5. ASSUME Rename(t) PROVE CacheInv'
  <2> DEFINE r == Going(task[t], "stamp")
  <2>1. r \in CacheCall /\ r.at = "stamp" /\ r.key = task[t].key
    BY <1>1, <1>2 DEF Sites, Going, CacheCall
  <2>2. task' = [task EXCEPT ![t] = r]
    BY <1>1, <1>5 DEF Rename, Goes, Going
  <2>3. ~ Sees(task[t], Considered) /\ task[t].at = "write"
    BY <1>5 DEF Sees, Rename
  <2>4. /\ wav' = wav \cup {task[t].key} /\ wav' \subseteq Keys /\ spared' \subseteq wav'
        /\ spared \subseteq spared' \cup {task[t].key} /\ UNCHANGED << cars, pinned >>
    BY <1>1, <1>5 DEF Rename
  <2> HIDE DEF r
  <2>5. Considered' \subseteq Considered
    BY <1>1, <2>1, <2>2, <2>3, <2>4, UnstampedStep DEF Considered
  <2> QED BY <1>1, <2>1, <2>2, <2>3, <2>4, <2>5, CacheStep
<1>6. ASSUME Stamp(t) PROVE CacheInv'
  <2> DEFINE r == Going(task[t], "size")
  <2>1. r \in CacheCall /\ r.at = "size"
    BY <1>2 DEF Sites
  <2>2. task' = [task EXCEPT ![t] = r]
    BY <1>1, <1>6 DEF Stamp, Goes, Going
  <2>3. Sees(r, Considered')
    BY <2>1 DEF Sees
  <2>4. cars' \in Seq(Keys) /\ Distinct(cars') /\ UNCHANGED << wav, pinned, spared >>
    BY <1>1, <1>6, StampedFacts DEF Stamp
  <2> HIDE DEF r
  <2> QED BY <1>1, <2>1, <2>2, <2>3, <2>4, CacheStep
<1>7. ASSUME Sized(t) PROVE CacheInv'
  <2>0. UNCHANGED << wav, cars, pinned >>
    BY <1>7 DEF Sized
  <2>1. CASE Goes(t, "list") /\ UNCHANGED spared
    <3> DEFINE r == Going(task[t], "list")
    <3>1. r \in CacheCall /\ r.at = "list"
      BY <1>2 DEF Sites
    <3>2. task' = [task EXCEPT ![t] = r]
      BY <1>1, <2>1 DEF Goes, Going
    <3>3. Sees(r, Considered')
      BY <3>1 DEF Sees
    <3> HIDE DEF r
    <3> QED BY <1>1, <2>0, <2>1, <3>1, <3>2, <3>3, CacheStep
  <2>2. CASE ~ (Goes(t, "list") /\ UNCHANGED spared)
    <3>1. PICK hidden \in SUBSET wav :
            /\ ~ Cardinality(wav \ hidden) > MaxBytes
            /\ TaskEnds(t) /\ spared' = hidden
      BY <1>7, <2>2 DEF Sized
    <3>2. task' = [task EXCEPT ![t] = Idle]
      BY <3>1 DEF TaskEnds
    <3>3. Cardinality(Considered') <= MaxBytes
      <4>1. Considered' \in SUBSET (wav \ hidden)
        BY <2>0, <3>1 DEF Considered
      <4> QED BY <1>1, <3>1, <4>1, FewFiles
    <3> QED BY <1>1, <2>0, <3>1, <3>2, <3>3, IdleType, CacheStep
  <2> QED BY <2>1, <2>2
<1>8. ASSUME Evicted(t) PROVE CacheInv'
  <2> DEFINE r == task[t]
  <2>1. /\ r.at = "evict" /\ task' = [task EXCEPT ![t] = Idle]
        /\ UNCHANGED << wav, cars, pinned, spared >>
        /\ r.left = << >> \/ r.total <= TargetBytes
    BY <1>8 DEF Evicted, TaskEnds
  <2>2. r.left \in Seq(Keys) /\ r.total \in Int /\ Len(r.left) \in Nat
    <3>1. r.left \in Seq(Keys) /\ r.total \in Int
      BY <1>1 DEF CacheCall
    <3> HIDE DEF r
    <3> QED BY <3>1, LenProperties
  <2>6. Considered' \subseteq Considered
    BY <1>1, <2>1, UnstampedStep DEF Considered
  <2> HIDE DEF r
  <2>3. ASSUME Sees(r, Considered) PROVE Cardinality(Considered) <= MaxBytes
    <3>1. Considered \subseteq ToSet(r.left) /\ Len(r.left) <= r.total
      BY <2>1, <2>3 DEF Sees
    <3>2. /\ IsFiniteSet(ToSet(r.left)) /\ Cardinality(ToSet(r.left)) <= Len(r.left)
          /\ Cardinality(ToSet(r.left)) \in Nat
      BY <2>2, ToSetFacts, FS_CardinalityType
    <3>3. Cardinality(Considered) <= Cardinality(ToSet(r.left)) /\ Cardinality(Considered) \in Nat
      <4>1. IsFiniteSet(Considered) /\ Cardinality(Considered) <= Cardinality(ToSet(r.left))
        BY <3>1, <3>2, FS_Subset
      <4> QED BY <4>1, FS_CardinalityType
    <3>4. TargetBytes <= MaxBytes /\ TargetBytes \in Int /\ MaxBytes \in Nat
      BY CacheAssumption DEF TargetBytes
    <3>5. CASE r.left = << >>
      <4>1. Len(r.left) = 0
        BY <3>5
      <4> QED BY <3>2, <3>3, <3>4, <4>1
    <3>6. CASE r.total <= TargetBytes
      BY <2>2, <3>1, <3>2, <3>3, <3>4, <3>6
    <3> QED BY <2>1, <3>5, <3>6
  <2>4. CASE Sees(r, Considered)
    <3>1. Cardinality(Considered') <= MaxBytes
      <4>1. Cardinality(Considered) <= MaxBytes /\ Considered \in SUBSET wav
        BY <2>3, <2>4 DEF Considered
      <4> QED BY <1>1, <2>6, <4>1, FewFiles
    <3> QED BY <1>1, <2>1, <3>1, IdleType, CacheStep
  <2>5. CASE ~ Sees(r, Considered)
    BY <1>1, <2>1, <2>5, <2>6, IdleType, CacheStep DEF r
  <2> QED BY <2>4, <2>5
<1>9. ASSUME NEW k \in Keys, Get(t, k) PROVE CacheInv'
  BY <1>3, <1>9 DEF Get
<1>10. ASSUME NEW k \in Keys, Put(t, k) PROVE CacheInv'
  BY <1>3, <1>10 DEF Put
<1>11. ASSUME WriteFails(t) PROVE CacheInv'
  <2>1. /\ task' = [task EXCEPT ![t] = Idle] /\ task[t].at \in {"touch", "write", "stamp"}
        /\ spared' = IF task[t].at = "stamp" THEN spared \cup ({task[t].key} \cap wav) ELSE spared
        /\ UNCHANGED << wav, cars, pinned >>
    BY <1>11 DEF WriteFails, TaskEnds
  <2>2. Considered' \subseteq Considered /\ ~ Sees(task[t], Considered) /\ spared' \subseteq wav'
    BY <1>1, <2>1, UnstampedStep DEF Considered, Sees
  <2> QED BY <1>1, <2>1, <2>2, IdleType, CacheStep
<1> QED BY <1>4, <1>5, <1>6, <1>7, <1>8, <1>9, <1>10, <1>11

(* The steps of a sweep: what it has before it or counts is what is there. *)
LEMMA SweepKeepsBudget ==
  ASSUME CacheInv, NEW t \in Tasks, Listed(t) \/ Victim(t) \/ Removed(t)
  PROVE  CacheInv'
<1> DEFINE r == task[t]
<1>1. /\ task \in [Tasks -> CacheCall] /\ r \in CacheCall /\ r.key \in Keys
      /\ r.left \in Seq(Keys) /\ r.total \in Int
      /\ wav \subseteq Keys /\ spared \subseteq wav /\ cars \in Seq(Keys) /\ Distinct(cars)
      /\ pinned \subseteq Keys /\ CacheTypeOK
  BY CacheTypes DEF CacheInv, CacheCall
<1>2. ASSUME Listed(t) PROVE CacheInv'
  <2>0. UNCHANGED << wav, cars, pinned >>
    BY <1>2 DEF Listed
  <2>1. PICK hidden \in SUBSET wav :
          LET files == wav \ hidden IN
          /\ IF Cardinality(files) <= TargetBytes THEN TaskEnds(t)
             ELSE task' = [task EXCEPT ![t] =
                             Sweeping(Idle, OldestFirst(files), Cardinality(files), pinned)]
          /\ spared' = hidden
    BY <1>2 DEF Listed, Sweeping
  <2> DEFINE files == wav \ hidden
  <2>2. files \in SUBSET wav /\ Considered' \in SUBSET files /\ spared' \subseteq wav'
    BY <2>0, <2>1 DEF Considered
  <2>3. Cardinality(files) \in Nat
    BY <1>1, <2>2, FilesFinite
  <2>4. CASE Cardinality(files) <= TargetBytes
    <3>1. task' = [task EXCEPT ![t] = Idle]
      BY <2>1, <2>4 DEF TaskEnds
    <3>2. TargetBytes <= MaxBytes /\ TargetBytes \in Int /\ MaxBytes \in Nat
      BY CacheAssumption DEF TargetBytes
    <3>3. Cardinality(files) <= MaxBytes
      BY <2>3, <2>4, <3>2
    <3>4. Cardinality(Considered') <= MaxBytes
      BY <1>1, <2>2, <3>3, FewFiles
    <3> QED BY <1>1, <2>0, <2>2, <3>1, <3>4, IdleType, CacheStep
  <2>5. CASE ~ Cardinality(files) <= TargetBytes
    <3> DEFINE l == OldestFirst(files)
               n == Cardinality(files)
               q == Sweeping(Idle, l, n, pinned)
    <3>1. task' = [task EXCEPT ![t] = q]
      BY <2>1, <2>5
    <3>2. l \in Seq(Keys) /\ files \subseteq ToSet(l) /\ Len(l) = n
      BY <1>1, <2>2, ListingIsWhole
    <3>3. n \in Int /\ pinned \in SUBSET Keys
      BY <1>1, <2>3
    <3> HIDE DEF files, l, n
    <3>4. q \in CacheCall /\ q.at = "evict" /\ q.left = l /\ q.total = n
      BY <3>2, <3>3, IdleType, CallTypes
    <3> HIDE DEF q
    <3>5. Sees(q, Considered')
      BY <2>2, <3>2, <3>3, <3>4 DEF Sees
    <3> QED BY <1>1, <2>0, <2>2, <3>1, <3>4, <3>5, CacheStep
  <2> QED BY <2>4, <2>5
<1>3. ASSUME Victim(t) PROVE CacheInv'
  <2> DEFINE k == Head(r.left)
             l == Tail(r.left)
  <2>1. /\ r.at = "evict" /\ r.left # << >> /\ UNCHANGED << wav, cars, pinned >>
    BY <1>3 DEF Victim
  <2> HIDE DEF r
  <2>2. /\ k \in Keys /\ l \in Seq(Keys) /\ Len(l) = Len(r.left) - 1
        /\ ToSet(r.left) = {k} \cup ToSet(l) /\ Len(r.left) \in Nat /\ Len(l) \in Nat
    BY <1>1, <2>1, HeadTailProperties, LenProperties, ToSetTail
  <2> HIDE DEF k, l
  <2>3. CASE k \in pinned
    <3> DEFINE q == Passing(r, l)
    <3>1. task' = [task EXCEPT ![t] = q] /\ spared' = spared \cup ({k} \cap wav)
      BY <1>1, <1>3, <2>3 DEF Victim, Passing, k, l, r
    <3>2. q \in CacheCall /\ q.at = "evict" /\ q.left = l /\ q.total = r.total
      <4>1. r \in CacheCall /\ l \in Seq(Keys)
        BY <1>1, <2>2
      <4>2. q \in CacheCall /\ q.at = r.at /\ q.left = l /\ q.total = r.total
        BY <4>1, CallTypes
      <4> QED BY <2>1, <4>2
    <3> HIDE DEF q
    <3>3. Considered' \subseteq Considered \ {k} /\ spared' \subseteq wav'
      BY <1>1, <2>1, <3>1, UnstampedStep DEF Considered, r
    <3>4. Sees(r, Considered) => Sees(q, Considered')
      BY <1>1, <2>1, <2>2, <3>2, <3>3 DEF Sees
    <3> QED BY <1>1, <2>1, <3>1, <3>2, <3>3, <3>4, CacheStep DEF r
  <2>4. CASE k \notin pinned
    <3> DEFINE q == Choosing(r, k, l)
    <3>1. task' = [task EXCEPT ![t] = q] /\ spared' = spared
      BY <1>1, <1>3, <2>4 DEF Victim, Choosing, k, l, r
    <3>2. q \in CacheCall /\ q.at = "rm" /\ q.key = k /\ q.left = l /\ q.total = r.total
      <4>1. r \in CacheCall /\ k \in Keys /\ l \in Seq(Keys)
        BY <1>1, <2>2
      <4> QED BY <4>1, CallTypes
    <3> HIDE DEF q
    <3>3. Considered' \subseteq Considered
      BY <1>1, <2>1, <3>1, UnstampedStep DEF Considered, r
    <3>4. Sees(r, Considered) => Sees(q, Considered')
      BY <1>1, <2>1, <2>2, <3>2, <3>3 DEF Sees
    <3> QED BY <1>1, <2>1, <3>1, <3>2, <3>3, <3>4, CacheStep DEF r
  <2> QED BY <2>3, <2>4
<1>4. ASSUME Removed(t) PROVE CacheInv'
  <2> DEFINE q == Counting(r, r.total - 1)
             k == r.key
  <2>1. /\ r.at = "rm" /\ cars' \in {cars, OtherCars(k)} /\ pinned' = pinned
        /\ \/ wav' = wav \ {k} /\ spared' = spared \ {k}
           \/ wav' = wav /\ spared' = spared \cup ({k} \cap wav)
    BY <1>4 DEF Removed
  <2>2. task' = [task EXCEPT ![t] = q]
    BY <1>1, <1>4 DEF Removed, Counting
  <2>3. cars' \in Seq(Keys) /\ Distinct(cars')
    BY <1>1, <2>1, OtherCarsFacts
  <2> HIDE DEF r
  <2>4. /\ q \in CacheCall /\ q.at = "evict" /\ q.left = r.left /\ q.total = r.total - 1
        /\ Len(r.left) \in Nat
    <3> DEFINE n == r.total - 1
    <3>1. n \in Int /\ Len(r.left) \in Nat /\ r \in CacheCall
      BY <1>1, LenProperties
    <3> HIDE DEF n
    <3>2. LET s == Counting(r, n) IN
          s \in CacheCall /\ s.at = "evict" /\ s.left = r.left /\ s.total = n
      BY <3>1, CallTypes
    <3> QED BY <3>1, <3>2 DEF n
  <2> HIDE DEF q
  <2>5. Considered' \subseteq Considered \ {k} /\ wav' \subseteq Keys /\ spared' \subseteq wav'
    BY <1>1, <2>1, <2>2, UnstampedStep DEF Considered, r
  <2>6. Sees(r, Considered) => Sees(q, Considered')
    BY <1>1, <2>1, <2>4, <2>5 DEF Sees
  <2> QED BY <1>1, <2>1, <2>2, <2>3, <2>4, <2>5, <2>6, CacheStep DEF r
<1> QED BY <1>2, <1>3, <1>4

(* Pins, clear() and a new window.                                         *)
LEMMA OthersKeepBudget ==
  ASSUME CacheInv, (\E k \in Keys : Pin(k) \/ Unpin(k)) \/ Clear \/ Reload
  PROVE  CacheInv'
<1>1. /\ task \in [Tasks -> CacheCall] /\ wav \subseteq Keys /\ spared \subseteq wav
      /\ cars \in Seq(Keys) /\ Distinct(cars) /\ pinned \subseteq Keys /\ CacheTypeOK /\ Covered
  BY CacheTypes DEF CacheInv
<1>2. ASSUME NEW k \in Keys, Pin(k) PROVE CacheInv'
  BY <1>1, <1>2 DEF Pin, CacheInv, CacheTypeOK, Covered, Considered, Unstamped, Sees
<1>3. ASSUME NEW k \in Keys, Unpin(k) PROVE CacheInv'
  <2>1. ASSUME NEW t \in Tasks
        PROVE  /\ task'[t] \in CacheCall
               /\ task'[t].at = task[t].at /\ task'[t].key = task[t].key
               /\ Sees(task[t], Considered) => Sees(task'[t], Considered)
    <3> DEFINE h == task[t].held \ {k}
               r == task[t]
    <3>1. task'[t] = Releasing(r, h) /\ r \in CacheCall
      BY <1>1, <1>3 DEF Unpin, Releasing
    <3>2. h \in SUBSET Keys
      BY <1>1 DEF CacheCall
    <3> HIDE DEF h, r
    <3>3. /\ task'[t] \in CacheCall /\ task'[t].at = r.at /\ task'[t].left = r.left
          /\ task'[t].total = r.total /\ task'[t].key = r.key
      BY <3>1, <3>2, CallTypes
    <3> QED BY <3>3 DEF Sees, r
  <2>2. /\ task' = [t \in Tasks |-> task'[t]] /\ pinned' \subseteq Keys
        /\ UNCHANGED << wav, cars, spared >>
    BY <1>1, <1>3 DEF Unpin
  <2>6. Considered' = Considered
    BY <2>1, <2>2 DEF Considered, Unstamped
  <2>3. task' \in [Tasks -> CacheCall]
    BY <2>1, <2>2
  <2>4. CacheTypeOK'
    BY <1>1, <2>2, <2>3 DEF CacheTypeOK, Distinct, CacheCall, Sites
  <2>5. Covered'
    BY <1>1, <2>1, <2>2, <2>6 DEF Covered
  <2> QED BY <2>4, <2>5 DEF CacheInv
<1>4. ASSUME Clear PROVE CacheInv'
  <2>1. UNCHANGED << task, pinned >> /\ wav' = {} /\ spared' = {} /\ cars' = << >>
    BY <1>4 DEF Clear
  <2>2. cars' \in Seq(Keys) /\ \A i, j \in DOMAIN cars' : cars'[i] = cars'[j] => i = j
    BY <2>1, EmptySeq
  <2>3. CacheTypeOK'
    BY <1>1, <2>1, <2>2 DEF CacheTypeOK
  <2>4. Cardinality(Considered') <= MaxBytes
    <3>1. Considered' = {}
      BY <2>1 DEF Considered
    <3> QED BY <3>1, FS_EmptySet, CacheAssumption
  <2> QED BY <2>3, <2>4 DEF CacheInv, Covered
<1>5. ASSUME Reload PROVE CacheInv'
  <2> DEFINE u == CHOOSE v \in Tasks : TRUE
  <2>1. u \in Tasks
    BY CacheAssumption
  <2> HIDE DEF u
  <2>2. /\ task' = [t \in Tasks |-> task'[t]] /\ pinned' = {} /\ UNCHANGED << wav, cars, spared >>
        /\ \A t \in Tasks : task'[t] = Going(Idle, IF t = u THEN "size" ELSE "idle")
    BY <1>5 DEF Reload, Going, u
  <2>3. \A t \in Tasks : task'[t] = Going(Idle, "size") \/ task'[t] = Going(Idle, "idle")
    BY <2>2
  <2>4. /\ Going(Idle, "size") \in CacheCall /\ Going(Idle, "idle") \in CacheCall
        /\ Going(Idle, "size").at = "size"
    BY IdleType, CallTypes DEF Sites
  <2>5. task' \in [Tasks -> CacheCall] /\ task'[u].at = "size"
    BY <2>1, <2>2, <2>3, <2>4
  <2>6. CacheTypeOK'
    BY <1>1, <2>2, <2>5 DEF CacheTypeOK, Distinct, CacheCall, Sites
  <2>7. Covered'
    BY <2>1, <2>5 DEF Covered, Sees
  <2> QED BY <2>6, <2>7 DEF CacheInv
<1> QED BY <1>2, <1>3, <1>4, <1>5

(* The window looks at the size of the cache as soon as it opens.          *)
LEMMA InitBudget == CacheInit => CacheInv
<1> SUFFICES ASSUME CacheInit PROVE CacheInv
  OBVIOUS
<1>1. /\ wav \in SUBSET Keys /\ cars = SetToSeq(wav) /\ pinned = {} /\ spared = {}
      /\ task = [t \in Tasks |-> Going(Idle, "size")]
  BY DEF CacheInit, Going
<1>2. Going(Idle, "size") \in CacheCall /\ Going(Idle, "size").at = "size"
  BY IdleType, CallTypes DEF Sites
<1>3. task \in [Tasks -> CacheCall] /\ \E t \in Tasks : task[t].at = "size"
  BY <1>1, <1>2, CacheAssumption
<1>4. cars \in Seq(Keys) /\ Distinct(cars)
  <2>1. IsFiniteSet(wav)
    BY <1>1, CacheAssumption, FS_Subset
  <2>2. cars \in Seq(wav) /\ Distinct(cars)
    BY <1>1, <2>1, ListingFacts
  <2> QED BY <1>1, <2>2, SeqMonotonic
<1> QED BY <1>1, <1>3, <1>4, CacheTypes DEF CacheInv, Covered, Sees

(* Whatever was spared, either the files the budget counts are few enough  *)
(* or a call is about to look at them, in every reachable state.           *)
THEOREM CacheInvariant == CacheSpec => []CacheInv
<1>1. CacheInv /\ [CacheNext]_cacheVars => CacheInv'
  <2> SUFFICES ASSUME CacheInv, [CacheNext]_cacheVars PROVE CacheInv'
    OBVIOUS
  <2>1. ASSUME UNCHANGED cacheVars PROVE CacheInv'
    BY <2>1 DEF cacheVars, CacheInv, CacheTypeOK, Covered, Considered, Unstamped, Sees
  <2> QED BY <2>1, CallsKeepBudget, SweepKeepsBudget, OthersKeepBudget DEF CacheNext
<1> QED BY InitBudget, <1>1, PTL DEF CacheSpec

(* The records of the cache keep their types: above all, a key has one     *)
(* side-car at most, whatever the calls (DiskAudioCache).                  *)
THEOREM CacheTypesHold == CacheSpec => []CacheTypeOK
<1>1. CacheInv => CacheTypeOK
  BY DEF CacheInv
<1> QED BY <1>1, CacheInvariant, PTL

(* When no call is under way, the cache is within its budget but for what  *)
(* was pinned, not removed or not seen at the last look, and what a put()  *)
(* that threw has left (evictIfOverBudget), for any number of keys, calls  *)
(* and bytes.                                                              *)
THEOREM WithinBudget == CacheSpec => []CacheBudgetWhenQuiet
<1>1. CacheInv => CacheBudgetWhenQuiet
  <2> SUFFICES ASSUME CacheInv, \A t \in Tasks : task[t].at = "idle"
               PROVE  Cardinality(wav \ spared) <= MaxBytes
    BY DEF CacheBudgetWhenQuiet
  <2>1. Considered = wav \ spared
    BY DEF Considered, Unstamped
  <2> QED BY <2>1 DEF CacheInv, Covered, Sees
<1> QED BY <1>1, CacheInvariant, PTL

-----------------------------------------------------------------------------
(* The voice.                                                              *)

(* What was staged has the digest the manifest gives.                      *)
StagedFits == \A i \in Installers : installer[i].staged = "new"

InstallTypes ==
  /\ bin \in Content /\ voices \in Content /\ installer \in [Installers -> Installer]
  /\ rough \in BOOLEAN

InstallInv == InstallTypes /\ StagedFits /\ InstallWhole

(* An installation that has not begun has nothing else in its staging      *)
(* directory.                                                              *)
LEMMA NoInstallerType ==
  /\ NoInstaller \in Installer /\ NoInstaller.staged = "new" /\ NoInstaller.at = "idle"
BY LocalVoiceAssumption DEF NoInstaller, Installer, Assets

(* A step of an installation that swaps nothing.                           *)
LEMMA InstallerKeeps ==
  ASSUME InstallInv, NEW i \in Installers, NEW r \in Installer, PutBack(i, r),
         r.staged = "new", UNCHANGED << bin, voices, rough >>,
         \/ rough
         \/ ~ Swapping(i)
  PROVE  InstallInv'
<1>1. /\ installer \in [Installers -> Installer] /\ installer'[i] = r
      /\ \A j \in Installers : j # i => installer'[j] = installer[j]
      /\ installer' \in [Installers -> Installer]
  BY DEF InstallInv, InstallTypes, PutBack
<1>2. InstallTypes' /\ StagedFits'
  BY <1>1 DEF InstallInv, InstallTypes, StagedFits
<1>3. InstallWhole'
  BY <1>1 DEF InstallInv, InstallWhole, Swapping
<1> QED BY <1>2, <1>3 DEF InstallInv

(* Consent, the three downloads and their failures.                        *)
LEMMA DownloadsKeep ==
  ASSUME InstallInv, NEW i \in Installers,
         \/ Consents(i) \/ Redirected(i) \/ Refused(i)
         \/ \E body \in {"new", "bad"} : Received(i, body)
  PROVE  InstallInv'
<1>1. /\ installer[i] \in Installer /\ installer[i].staged = "new"
      /\ MaxRedirects \in Nat
  BY LocalVoiceAssumption DEF InstallInv, InstallTypes, StagedFits
<1>2. UNCHANGED << bin, voices, rough >> /\ ~ Swapping(i)
  BY DEF Consents, Redirected, Refused, Received, Swapping
<1>3. ASSUME NEW r \in Installer, PutBack(i, r), r.staged = "new" PROVE InstallInv'
  BY <1>2, <1>3, InstallerKeeps
<1>4. ASSUME Consents(i) PROVE InstallInv'
  <2> DEFINE r == [NoInstaller EXCEPT !.at = "get"]
  <2>1. r \in Installer /\ r.staged = "new" /\ PutBack(i, r)
    BY <1>4, NoInstallerType DEF Consents, Installer
  <2> HIDE DEF r
  <2> QED BY <1>3, <2>1
<1>5. ASSUME Redirected(i) PROVE InstallInv'
  <2> DEFINE h == installer[i].hop + 1
             r == [installer[i] EXCEPT !.hop = h]
  <2>1. h \in 0 .. MaxRedirects /\ PutBack(i, r)
    BY <1>1, <1>5 DEF Redirected, Installer
  <2> HIDE DEF h
  <2>2. r \in Installer /\ r.staged = "new"
    BY <1>1, <2>1 DEF Installer
  <2> HIDE DEF r
  <2> QED BY <1>3, <2>1, <2>2
<1>6. ASSUME Refused(i) PROVE InstallInv'
  BY <1>3, <1>6, NoInstallerType DEF Refused, Fails
<1>7. ASSUME NEW body \in {"new", "bad"}, Received(i, body) PROVE InstallInv'
  <2> DEFINE r == [installer[i] EXCEPT !.at = "check", !.body = body]
  <2>1. r \in Installer /\ r.staged = "new" /\ PutBack(i, r)
    BY <1>1, <1>7 DEF Received, Installer
  <2> HIDE DEF r
  <2> QED BY <1>3, <2>1
<1> QED BY <1>4, <1>5, <1>6, <1>7

(* A step of an installation that swaps.                                   *)
LEMMA SwapKeeps ==
  ASSUME InstallInv, NEW i \in Installers, NEW r \in Installer, PutBack(i, r),
         r.staged = "new", bin' \in Content \ {"bad"}, voices' \in Content \ {"bad"},
         rough' \in BOOLEAN,
         \/ r.at \in {"rmBin", "rmVoices", "mvBin", "mvVoices"}
         \/ rough'
         \/ bin' = "new" /\ voices' = "new"
  PROVE  InstallInv'
<1>1. /\ installer \in [Installers -> Installer] /\ installer'[i] = r
      /\ \A j \in Installers : j # i => installer'[j] = installer[j]
      /\ installer' \in [Installers -> Installer]
  BY DEF InstallInv, InstallTypes, PutBack
<1>2. InstallTypes' /\ StagedFits'
  BY <1>1 DEF InstallInv, InstallTypes, StagedFits
<1>3. InstallWhole'
  BY <1>1 DEF InstallWhole, Swapping
<1> QED BY <1>2, <1>3 DEF InstallInv

(* The digest of an asset: only what the manifest asks for is staged, and  *)
(* the swap begins with the last one.                                      *)
LEMMA VerifiedKeeps ==
  ASSUME InstallInv, NEW i \in Installers, PiperVerified(i)
  PROVE  InstallInv'
<1> DEFINE r == Staged(i)
<1>1. /\ installer \in [Installers -> Installer] /\ installer[i] \in Installer
      /\ installer[i].staged = "new" /\ installer[i].body = "new" /\ MaxRedirects \in Nat
      /\ installer[i].at = "check" /\ UNCHANGED << bin, voices, rough >>
  BY LocalVoiceAssumption
  DEF InstallInv, InstallTypes, StagedFits, PiperVerified, Accepted
<1>2. r \in Installer /\ r.staged = "new" /\ r.at \in {"get", "rmBin"}
  <2> DEFINE q == [installer[i] EXCEPT !.hop = 0,
                     !.staged = IF installer[i].body = "bad" THEN "bad" ELSE @]
  <2>1. q \in Installer /\ q.staged = "new" /\ q.asset \in 1 .. 3
    <3>1. q = [installer[i] EXCEPT !.hop = 0, !.staged = "new"]
      BY <1>1 DEF Installer
    <3>2. 0 \in 0 .. MaxRedirects
      BY <1>1
    <3> HIDE DEF q
    <3> QED BY <1>1, <3>1, <3>2 DEF Installer, Assets
  <2>2. r = IF q.asset < 3 THEN [q EXCEPT !.at = "get", !.asset = @ + 1]
            ELSE [q EXCEPT !.at = "rmBin"]
    BY DEF Staged
  <2> HIDE DEF q, r
  <2>3. q.asset < 3 => q.asset + 1 \in Assets
    BY <2>1 DEF Assets
  <2>4. CASE q.asset < 3
    BY <2>1, <2>2, <2>3, <2>4 DEF Installer
  <2>5. CASE ~ q.asset < 3
    BY <2>1, <2>2, <2>5 DEF Installer
  <2> QED BY <2>4, <2>5
<1>3. IF r.at # "rmBin" THEN PutBack(i, r)
      ELSE installer' = [j \in Installers |->
             IF j = i THEN [r EXCEPT !.alone = ~ \E k \in Installers \ {i} : Swapping(k)]
             ELSE [installer[j] EXCEPT !.alone = @ /\ ~ Swapping(j)]]
  BY Zenon DEF PiperVerified
<1> HIDE DEF r
<1>4. CASE r.at # "rmBin"
  <2>1. ~ Swapping(i)
    BY <1>1 DEF Swapping
  <2> QED BY <1>1, <1>2, <1>3, <1>4, <2>1, InstallerKeeps
<1>5. CASE r.at = "rmBin"
  <2>1. ASSUME NEW q \in Installer, NEW b \in BOOLEAN
        PROVE  LET a == [q EXCEPT !.alone = b] IN
               a \in Installer /\ a.staged = q.staged /\ a.at = q.at
    BY DEF Installer
  <2>2. installer' = [j \in Installers |-> installer'[j]]
    BY <1>3, <1>5
  <2>3. ASSUME NEW j \in Installers
        PROVE  /\ installer'[j] \in Installer /\ installer'[j].staged = "new"
               /\ j = i => installer'[j].at = "rmBin"
    <3>1. installer[j] \in Installer /\ installer[j].staged = "new"
          /\ installer[j].alone \in BOOLEAN
      BY <1>1 DEF InstallInv, StagedFits, Installer
    <3>2. CASE j = i
      <4> DEFINE b == ~ \E k \in Installers \ {i} : Swapping(k)
      <4>1. installer'[j] = [r EXCEPT !.alone = b] /\ b \in BOOLEAN
        BY <1>3, <1>5, <3>2, Zenon
      <4> HIDE DEF b
      <4> QED BY <1>2, <1>5, <2>1, <4>1
    <3>3. CASE j # i
      <4> DEFINE b == installer[j].alone /\ ~ Swapping(j)
      <4>1. installer'[j] = [installer[j] EXCEPT !.alone = b] /\ b \in BOOLEAN
        BY <1>3, <1>5, <3>3, Zenon
      <4> HIDE DEF b
      <4> QED BY <3>1, <3>3, <2>1, <4>1
    <3> QED BY <3>2, <3>3
  <2>4. InstallTypes' /\ StagedFits'
    BY <1>1, <2>2, <2>3 DEF InstallInv, InstallTypes, StagedFits
  <2>5. Swapping(i)'
    BY <2>3 DEF Swapping
  <2>6. InstallWhole'
    BY <1>1, <2>5 DEF InstallInv, InstallWhole
  <2> QED BY <2>4, <2>6 DEF InstallInv
<1> QED BY <1>4, <1>5

(* The four steps of the swap, and the end of one that did not work.       *)
LEMMA SwapsKeep ==
  ASSUME InstallInv, NEW i \in Installers,
         \/ RemovedBin(i) \/ RemovedVoices(i) \/ RenamedBin(i) \/ RenamedVoices(i)
         \/ SwapFails(i)
  PROVE  InstallInv'
<1>1. /\ installer[i] \in Installer /\ installer[i].staged = "new"
      /\ bin \in Content \ {"bad"} /\ voices \in Content \ {"bad"} /\ rough \in BOOLEAN
  BY DEF InstallInv, InstallTypes, StagedFits, InstallWhole
<1>2. \A at \in {"rmVoices", "mvBin", "mvVoices"} :
        LET r == [installer[i] EXCEPT !.at = at] IN
        r \in Installer /\ r.staged = "new" /\ r.at = at
  BY <1>1 DEF Installer
<1>3. ASSUME RemovedBin(i) PROVE InstallInv'
  <2> DEFINE r == [installer[i] EXCEPT !.at = "rmVoices"]
  <2>1. /\ PutBack(i, r) /\ r \in Installer /\ r.staged = "new" /\ r.at = "rmVoices"
        /\ bin' \in Content \ {"bad"} /\ rough' \in BOOLEAN /\ voices' = voices
    BY <1>1, <1>2, <1>3 DEF RemovedBin, Content
  <2> HIDE DEF r
  <2> QED BY <1>1, <2>1, SwapKeeps
<1>4. ASSUME RemovedVoices(i) PROVE InstallInv'
  <2> DEFINE r == [installer[i] EXCEPT !.at = "mvBin"]
  <2>1. /\ PutBack(i, r) /\ r \in Installer /\ r.staged = "new" /\ r.at = "mvBin"
        /\ voices' \in Content \ {"bad"} /\ rough' \in BOOLEAN /\ bin' = bin
    BY <1>1, <1>2, <1>4 DEF RemovedVoices, Content
  <2> HIDE DEF r
  <2> QED BY <1>1, <2>1, SwapKeeps
<1>5. ASSUME RenamedBin(i) PROVE InstallInv'
  <2> DEFINE r == [installer[i] EXCEPT !.at = "mvVoices"]
  <2>1. /\ PutBack(i, r) /\ r \in Installer /\ r.staged = "new" /\ r.at = "mvVoices"
        /\ bin' = "new" /\ voices' = voices /\ rough' = rough
    BY <1>1, <1>2, <1>5 DEF RenamedBin
  <2> HIDE DEF r
  <2> QED BY <1>1, <2>1, SwapKeeps DEF Content
<1>6. ASSUME RenamedVoices(i) PROVE InstallInv'
  <2>1. /\ PutBack(i, NoInstaller) /\ voices' = "new" /\ bin' = bin
        /\ rough' \in BOOLEAN /\ (rough' \/ bin = "new")
    BY <1>1, <1>6 DEF RenamedVoices
  <2> QED BY <1>1, <2>1, SwapKeeps, NoInstallerType DEF Content
<1>7. ASSUME SwapFails(i) PROVE InstallInv'
  BY <1>1, <1>7, SwapKeeps, NoInstallerType DEF SwapFails, Fails
<1> QED BY <1>3, <1>4, <1>5, <1>6, <1>7

(* Installations, in every reachable state.                                *)
THEOREM InstallInvariant == LocalVoiceSpec => []InstallInv
<1>1. LocalVoiceInit => InstallInv
  BY NoInstallerType
  DEF LocalVoiceInit, InstallInv, InstallTypes, StagedFits, InstallWhole, Content
<1>2. InstallInv /\ [LocalVoiceNext]_localVoiceVars => InstallInv'
  <2> SUFFICES ASSUME InstallInv, [LocalVoiceNext]_localVoiceVars PROVE InstallInv'
    OBVIOUS
  <2>1. ASSUME UNCHANGED << bin, voices, installer, rough >> PROVE InstallInv'
    BY <2>1 DEF InstallInv, InstallTypes, StagedFits, InstallWhole, Swapping
  <2>2. ASSUME NEW s \in Speakers,
               \/ PieceSpoken(s) \/ SpeechFails(s)
               \/ \E e \in Detected, text \in Speeches : Speak(s, e, text)
        PROVE  InstallInv'
    <3>1. CASE PieceSpoken(s)
      BY <2>1, <3>1, Zenon DEF PieceSpoken
    <3>2. CASE SpeechFails(s)
      BY <2>1, <3>2 DEF SpeechFails
    <3>3. ASSUME NEW e \in Detected, NEW text \in Speeches, Speak(s, e, text)
          PROVE  UNCHANGED << bin, voices, installer, rough >>
      BY <3>3, Zenon DEF Speak
    <3> QED BY <2>1, <2>2, <3>1, <3>2, <3>3
  <2>3. ASSUME UNCHANGED localVoiceVars PROVE InstallInv'
    BY <2>1, <2>3 DEF localVoiceVars
  <2> QED BY <2>2, <2>3, DownloadsKeep, VerifiedKeeps, SwapsKeep DEF LocalVoiceNext
<1> QED BY <1>1, <1>2, PTL DEF LocalVoiceSpec

(* An installation stages and swaps in only what the manifest asks for, in *)
(* every reachable state, and one that was let alone leaves both           *)
(* directories or neither as it found them (installPiperVoice), whatever   *)
(* the number of installations.                                            *)
THEOREM InstallsWhole == LocalVoiceSpec => []InstallWhole
<1>1. InstallInv => InstallWhole
  BY DEF InstallInv
<1> QED BY <1>1, InstallInvariant, PTL

(* The pieces done with and the one under way.                             *)
Pieced == [pieces : Seq(1 .. MaxWords), current : Nat]
Fits  == [pieces : Seq(1 .. MaxWords), current : 0 .. MaxWords]

(* Pieces are sequences of numbers, and the words of numbers a number.     *)
LEMMA WordsFacts ==
  /\ Seq(1 .. MaxWords) \subseteq Seq(Int)
  /\ \A s \in Seq(Int) : WordsOf(s) \in Int
  /\ WordsOf(<< >>) = 0
  /\ \A s \in Seq(1 .. MaxWords) : WordsOf(s) \in Int
<1>1. Seq(1 .. MaxWords) \subseteq Seq(Int)
  BY LocalVoiceAssumption, SeqMonotonic
<1>2. \A s \in Seq(Int) : WordsOf(s) \in Int
  <2> SUFFICES ASSUME NEW s \in Seq(Int) PROVE WordsOf(s) \in Int
    OBVIOUS
  <2> DEFINE n == Len(s)
  <2>1. n \in Nat /\ \A i \in 1 .. n : s[i] \in Int
    BY LenProperties, ElementOfSeq
  <2>2. n \in 0 .. n
    BY <2>1
  <2> HIDE DEF n
  <2>3. Total(s, n) \in Int
    BY <2>1, <2>2, TotalFacts
  <2> QED BY <2>3 DEF WordsOf, n
<1>3. WordsOf(<< >>) = 0
  <2> DEFINE s == << >>
  <2>1. Len(s) = 0 /\ 0 \in Nat /\ \A i \in 1 .. 0 : s[i] \in Int
    OBVIOUS
  <2> HIDE DEF s
  <2>2. Total(s, 0) = 0
    BY <2>1, TotalFacts
  <2> QED BY <2>1, <2>2 DEF WordsOf, s
<1> QED BY <1>1, <1>2, <1>3

(* splitTextForSynthesis() cuts what is too long and loses no word of it.  *)
LEMMA HardSplitFacts ==
  ASSUME NEW r \in Pieced, r.current # 0
  PROVE  /\ HardSplit(r) \in Pieced /\ HardSplit(r).current \in 1 .. MaxWords
         /\ WordsOf(HardSplit(r).pieces) + HardSplit(r).current = WordsOf(r.pieces) + r.current
<1> DEFINE c == r.current
           p == r.pieces
           full == (c - 1) \div MaxWords
           more == [k \in 1 .. full |-> MaxWords]
<1>1. c \in Nat \ {0} /\ p \in Seq(1 .. MaxWords) /\ MaxWords \in Nat \ {0}
  BY LocalVoiceAssumption DEF Pieced
<1>2. HardSplit(r) = [pieces |-> p \o more, current |-> c - full * MaxWords]
  BY DEF HardSplit
<1> HIDE DEF c, p
<1>3. full \in Nat /\ c - full * MaxWords \in 1 .. MaxWords
  <2>1. c - 1 \in Nat
    BY <1>1
  <2>2. full \in Int /\ full >= 0 /\ full * MaxWords <= c - 1 /\ c - 1 < full * MaxWords + MaxWords
    BY <1>1, <2>1, SMT
  <2> HIDE DEF full
  <2> DEFINE t == full * MaxWords
  <2>3. t \in Int
    BY <1>1, <2>2
  <2> HIDE DEF t
  <2>4. c - t \in 1 .. MaxWords
    BY <1>1, <2>2, <2>3 DEF t
  <2> QED BY <2>2, <2>4 DEF t
<1> HIDE DEF full
<1>4. more \in Seq(1 .. MaxWords) /\ Len(more) = full
  <2> DEFINE W == 1 .. MaxWords
  <2>1. more \in [1 .. full -> W]
    BY <1>1
  <2> HIDE DEF more, W
  <2>2. more \in Seq(W)
    BY <1>3, <2>1, SeqDef
  <2>3. Len(more) = full
    BY <1>3, <2>1, <2>2, LenProperties
  <2> QED BY <2>2, <2>3 DEF W
<1>5. WordsOf(more) = full * MaxWords
  BY <1>1, <1>3, <1>4, TotalConstant DEF WordsOf
<1> HIDE DEF more
<1>6. p \o more \in Seq(1 .. MaxWords) /\ WordsOf(p \o more) = WordsOf(p) + WordsOf(more)
  <2>1. p \in Seq(Int) /\ more \in Seq(Int)
    BY <1>1, <1>4, WordsFacts
  <2> QED BY <1>1, <1>4, <2>1, TotalConcat, ConcatProperties DEF WordsOf
<1> DEFINE t == full * MaxWords
<1>7. t \in Int /\ WordsOf(p) \in Int
  BY <1>1, <1>3, WordsFacts
<1> HIDE DEF t
<1>8. /\ HardSplit(r).pieces = p \o more /\ HardSplit(r).current = c - t
      /\ HardSplit(r) = [pieces |-> p \o more, current |-> c - t]
  BY <1>2 DEF t
<1>9. c - t \in 1 .. MaxWords /\ WordsOf(p \o more) = WordsOf(p) + t
  BY <1>3, <1>5, <1>6 DEF t
<1>10. HardSplit(r) \in Pieced
  BY <1>6, <1>8, <1>9 DEF Pieced
<1>11. WordsOf(p \o more) + (c - t) = WordsOf(p) + c
  BY <1>1, <1>7, <1>9
<1> QED BY <1>8, <1>9, <1>10, <1>11 DEF c, p

(* A sentence more: no word is lost, and something is under way.           *)
LEMMA JoinedFacts ==
  ASSUME NEW r \in Fits, NEW n \in Nat \ {0}
  PROVE  /\ Joined(r, n) \in Fits /\ Joined(r, n).current # 0
         /\ WordsOf(Joined(r, n).pieces) + Joined(r, n).current
              = WordsOf(r.pieces) + r.current + n
<1> DEFINE q == IF r.current > 0 /\ r.current + n > MaxWords
                THEN [pieces |-> Append(r.pieces, r.current), current |-> n]
                ELSE [r EXCEPT !.current = @ + n]
<1>1. r.pieces \in Seq(1 .. MaxWords) /\ r.current \in 0 .. MaxWords /\ MaxWords \in Nat
  BY LocalVoiceAssumption DEF Fits
<1>2. WordsOf(r.pieces) \in Int
  BY <1>1, WordsFacts
<1>3. /\ q \in Pieced /\ q.current # 0
      /\ WordsOf(q.pieces) + q.current = WordsOf(r.pieces) + r.current + n
  <2>1. CASE r.current > 0 /\ r.current + n > MaxWords
    <3>1. q = [pieces |-> Append(r.pieces, r.current), current |-> n]
      BY <2>1
    <3>2. r.current \in 1 .. MaxWords
      BY <1>1, <2>1
    <3>3. Append(r.pieces, r.current) \in Seq(1 .. MaxWords)
      BY <1>1, <3>2, AppendProperties
    <3>4. r.pieces \in Seq(Int) /\ r.current \in Int
      BY <1>1, WordsFacts
    <3>5. WordsOf(Append(r.pieces, r.current)) = WordsOf(r.pieces) + r.current
      BY <3>4, TotalAppend DEF WordsOf
    <3> QED BY <1>2, <3>1, <3>3, <3>4, <3>5 DEF Pieced
  <2>2. CASE ~ (r.current > 0 /\ r.current + n > MaxWords)
    <3>1. q = [r EXCEPT !.current = @ + n]
      BY <2>2
    <3>2. r.current + n \in Nat /\ r.current + n # 0
      BY <1>1
    <3>3. q = [pieces |-> r.pieces, current |-> r.current + n]
      BY <3>1 DEF Fits
    <3> QED BY <1>1, <1>2, <3>2, <3>3 DEF Pieced
  <2> QED BY <2>1, <2>2
<1>4. Joined(r, n) = HardSplit(q)
  BY DEF Joined
<1> HIDE DEF q
<1>5. HardSplit(q) \in Pieced /\ HardSplit(q).current \in 1 .. MaxWords
      /\ WordsOf(HardSplit(q).pieces) + HardSplit(q).current = WordsOf(q.pieces) + q.current
  BY <1>3, HardSplitFacts
<1>6. HardSplit(q) \in Fits /\ HardSplit(q).current # 0
  BY <1>5 DEF Pieced, Fits
<1> QED BY <1>3, <1>4, <1>5, <1>6

(* A text is cut into pieces the engine accepts, at least one, that have   *)
(* all its words.                                                          *)
LEMMA PiecesFacts ==
  ASSUME NEW text \in Seq(Nat \ {0}), text # << >>
  PROVE  /\ Pieces(text) \in Seq(1 .. MaxWords) /\ Pieces(text) # << >>
         /\ WordsOf(Pieces(text)) = WordsOf(text)
<1> DEFINE n == Len(text)
           b == [pieces |-> << >>, current |-> 0]
           F == [p \in (1 .. n) \X Fits |-> Joined(p[2], text[p[1]])]
           g == CHOOSE after : after = [i \in 0 .. n |->
                  IF i = 0 THEN b ELSE Joined(after[i - 1], text[i])]
<1>1. n \in Nat /\ n # 0 /\ \A i \in 1 .. n : text[i] \in Nat \ {0}
  BY LenProperties, EmptySeq, ElementOfSeq
<1>2. b \in Fits
  BY LocalVoiceAssumption DEF Fits
<1>3. Pieces(text) = Append(g[n].pieces, g[n].current)
  BY DEF Pieces
<1>4. F \in Steps(n, Fits)
  <2>1. \A p \in (1 .. n) \X Fits : Joined(p[2], text[p[1]]) \in Fits
    <3> HIDE DEF n
    <3>1. ASSUME NEW p \in (1 .. n) \X Fits PROVE Joined(p[2], text[p[1]]) \in Fits
      <4>1. p[1] \in 1 .. n /\ p[2] \in Fits
        OBVIOUS
      <4>2. text[p[1]] \in Nat \ {0}
        BY <1>1, <4>1
      <4> QED BY <4>1, <4>2, JoinedFacts
    <3> QED BY <3>1
  <2> QED BY <2>1 DEF Steps
<1>5. \A i \in 1 .. n, r \in Fits : F[<< i, r >>] = Joined(r, text[i])
  OBVIOUS
<1> HIDE DEF n, b, F
<1>6. \E h : RunsFrom(h, n, Fits, b, F)
  BY <1>1, <1>2, <1>4, RecursionExists, Zenon
<1>7. PICK h \in [0 .. n -> Fits] : h[0] = b /\ \A i \in 1 .. n : h[i] = F[<< i, h[i - 1] >>]
  BY <1>6 DEF RunsFrom
<1>8. h = [i \in 0 .. n |-> IF i = 0 THEN b ELSE Joined(h[i - 1], text[i])]
  <2>1. h = [i \in 0 .. n |-> h[i]]
    OBVIOUS
  <2>2. ASSUME NEW i \in 1 .. n PROVE h[i] = Joined(h[i - 1], text[i])
    <3>1. i - 1 \in 0 .. n
      BY <1>1
    <3>2. h[i - 1] \in Fits
      BY <3>1
    <3> QED BY <1>5, <1>7, <3>2
  <2>3. \A i \in 0 .. n : h[i] = IF i = 0 THEN b ELSE Joined(h[i - 1], text[i])
    BY <1>7, <2>2
  <2> QED BY <2>1, <2>3
<1>9. g = [i \in 0 .. n |-> IF i = 0 THEN b ELSE Joined(g[i - 1], text[i])]
  BY <1>8
<1> HIDE DEF g
<1>10. g[0] = b /\ \A i \in 1 .. n : g[i] = Joined(g[i - 1], text[i])
  <2>1. 0 \in 0 .. n /\ \A i \in 1 .. n : i \in 0 .. n /\ i # 0
    BY <1>1
  <2> QED BY <1>9, <2>1
<1>11. /\ Total(text, 0) = 0 /\ \A i \in 0 .. n : Total(text, i) \in Int
       /\ \A i \in 1 .. n : Total(text, i) = Total(text, i - 1) + text[i]
  <2>1. \A i \in 1 .. n : text[i] \in Int
    BY <1>1
  <2> QED BY <1>1, <2>1, TotalFacts
<1> DEFINE Done(i) == /\ g[i] \in Fits /\ (i # 0 => g[i].current # 0)
                      /\ WordsOf(g[i].pieces) + g[i].current = Total(text, i)
           P == {i \in Nat : i <= n => Done(i)}
<1>12. 0 \in P
  <2>1. b.pieces = << >> /\ b.current = 0
    BY DEF b
  <2> QED BY <1>2, <1>10, <1>11, <2>1, WordsFacts
<1>13. ASSUME NEW i \in Nat, i \in P PROVE i + 1 \in P
  <2> SUFFICES ASSUME i + 1 <= n PROVE Done(i + 1)
    OBVIOUS
  <2>1. i + 1 \in 1 .. n /\ (i + 1) - 1 = i /\ i + 1 # 0 /\ Done(i)
    BY <1>1, <1>13
  <2>2. g[i + 1] = Joined(g[i], text[i + 1]) /\ text[i + 1] \in Nat \ {0}
    BY <1>1, <1>10, <2>1
  <2>3. Total(text, i + 1) = Total(text, i) + text[i + 1]
    BY <1>11, <2>1
  <2> QED BY <2>1, <2>2, <2>3, JoinedFacts
<1> HIDE DEF P
<1>14. Nat \subseteq P
  BY <1>12, <1>13, Induction
<1>15. n \in P
  BY <1>1, <1>14
<1>16. Done(n)
  BY <1>1, <1>15 DEF P
<1>17. g[n].pieces \in Seq(1 .. MaxWords) /\ g[n].current \in 1 .. MaxWords
  BY <1>1, <1>16, LocalVoiceAssumption DEF Fits
<1>18. g[n].pieces \in Seq(Int) /\ g[n].current \in Int
  BY <1>17, WordsFacts
<1>19. WordsOf(Pieces(text)) = WordsOf(g[n].pieces) + g[n].current
  BY <1>3, <1>18, TotalAppend DEF WordsOf
<1>20. WordsOf(text) = Total(text, n)
  BY DEF WordsOf, n
<1>21. Pieces(text) \in Seq(1 .. MaxWords) /\ Pieces(text) # << >>
  <2> DEFINE p == g[n].pieces
             c == g[n].current
  <2>1. p \in Seq(1 .. MaxWords) /\ c \in 1 .. MaxWords
    BY <1>17
  <2> HIDE DEF p, c
  <2>2. Append(p, c) \in Seq(1 .. MaxWords) /\ Append(p, c) # << >>
    BY <2>1, AppendProperties
  <2> QED BY <1>3, <2>2 DEF p, c
<1> QED BY <1>16, <1>19, <1>20, <1>21

(* A call of synthesize(): its pieces are its text, all of one engine.     *)
Speaks(r) ==
  /\ r \in Speaker /\ WordsOf(r.pieces) = WordsOf(r.text) /\ r.at # "mixed"
  /\ \A p \in DOMAIN r.said : r.said[p] = r.engine
  /\ r.at = "run" => Len(r.said) < Len(r.pieces)
  /\ r.at = "done" => Len(r.said) = Len(r.pieces) /\ ~ r.temp

SpeakersFit == speaker \in [Speakers -> Speaker] /\ \A s \in Speakers : Speaks(speaker[s])

(* A call that has not begun, or that failed.                              *)
LEMMA NoSpeakerSpeaks == Speaks(NoSpeaker)
<1>1. NoSpeaker \in Speaker
  BY DEF NoSpeaker, Speaker, Engines
<1> QED BY <1>1 DEF Speaks, NoSpeaker

(* A step of one call.                                                     *)
LEMMA SpeakerKeeps ==
  ASSUME SpeakersFit, NEW s \in Speakers, NEW r, Speaks(r),
         speaker' = [speaker EXCEPT ![s] = r]
  PROVE  SpeakersFit'
<1>1. r \in Speaker
  BY DEF Speaks
<1>2. speaker' \in [Speakers -> Speaker]
  BY <1>1 DEF SpeakersFit
<1>3. ASSUME NEW t \in Speakers PROVE Speaks(speaker'[t])
  <2>1. speaker'[t] = IF t = s THEN r ELSE speaker[t]
    BY DEF SpeakersFit
  <2> QED BY <2>1 DEF SpeakersFit
<1> QED BY <1>2, <1>3 DEF SpeakersFit, Speaks

(* synthesize() begins: the engine is chosen once, for all the pieces.     *)
LEMMA SpeakKeeps ==
  ASSUME SpeakersFit, NEW s \in Speakers, NEW e \in Engines, NEW text \in Speeches,
         Speak(s, e, text)
  PROVE  SpeakersFit'
<1> DEFINE p == Pieces(text)
           r == [NoSpeaker EXCEPT !.at = "run", !.engine = e, !.text = text, !.pieces = p,
                                  !.temp = TRUE]
<1>1. p \in Seq(1 .. MaxWords) /\ p # << >> /\ WordsOf(p) = WordsOf(text)
  BY LocalVoiceAssumption, PiecesFacts
<1>2. speaker' = [speaker EXCEPT ![s] = r]
  BY Zenon DEF Speak
<1> HIDE DEF p
<1>3. NoSpeaker \in Speaker /\ NoSpeaker.said = << >>
  BY NoSpeakerSpeaks DEF Speaks, NoSpeaker
<1>4. /\ r \in Speaker /\ r.said = NoSpeaker.said /\ r.at = "run"
      /\ r.pieces = p /\ r.text = text
  BY <1>1, <1>3 DEF Speaker
<1>5. Len(p) \in Nat /\ Len(p) # 0
  BY <1>1, LenProperties, EmptySeq
<1>6. r.said = << >> /\ r.at = "run" /\ r.pieces = p /\ r.text = text
  BY <1>3, <1>4
<1> HIDE DEF r
<1>7. DOMAIN r.said = {} /\ Len(r.said) = 0
  BY <1>6
<1>8. Speaks(r)
  BY <1>1, <1>4, <1>5, <1>6, <1>7 DEF Speaks
<1> QED BY <1>2, <1>8, SpeakerKeeps

(* A piece is spoken, by that engine.                                      *)
LEMMA SpokenKeeps ==
  ASSUME SpeakersFit, NEW s \in Speakers, PieceSpoken(s)
  PROVE  SpeakersFit'
<1> DEFINE r == speaker[s]
           said == Append(r.said, r.engine)
           last == Len(said) = Len(r.pieces)
           at == IF ~ last THEN "run" ELSE IF Joins(said) THEN "done" ELSE "mixed"
           q == [r EXCEPT !.said = said, !.temp = ~ last, !.at = at]
<1>1. r.at = "run" /\ speaker' = [speaker EXCEPT ![s] = q]
  BY Zenon DEF PieceSpoken, EngineOf
<1>2. Speaks(r) /\ r \in Speaker
  BY DEF SpeakersFit, Speaks
<1>3. r.said \in Seq(Engines) /\ r.engine \in Engines /\ r.pieces \in Seq(1 .. MaxWords)
  BY <1>2 DEF Speaker
<1>4. /\ said \in Seq(Engines) /\ Len(said) = Len(r.said) + 1 /\ DOMAIN said = 1 .. Len(said)
      /\ \A p \in DOMAIN said : said[p] = r.engine
  <2> DEFINE t == r.said
             e == r.engine
             n == Len(t)
             u == Append(t, e)
  <2>1. t \in Seq(Engines) /\ e \in Engines /\ n \in Nat /\ DOMAIN t = 1 .. n
        /\ \A p \in DOMAIN t : t[p] = e
    BY <1>2, <1>3, LenProperties DEF Speaks
  <2> HIDE DEF t, e
  <2>2. /\ u \in Seq(Engines) /\ Len(u) = n + 1 /\ \A p \in 1 .. n : u[p] = t[p]
        /\ u[n + 1] = e
    BY <2>1, AppendProperties
  <2>3. DOMAIN u = 1 .. n + 1
    BY <2>2, LenProperties
  <2> HIDE DEF n, u
  <2>4. ASSUME NEW p \in 1 .. n + 1 PROVE u[p] = e
    <3>1. p \in 1 .. n \/ p = n + 1
      BY <2>1
    <3> QED BY <2>1, <2>2, <3>1
  <2>5. \A p \in DOMAIN u : u[p] = e
    BY <2>3, <2>4
  <2> QED BY <2>2, <2>3, <2>5 DEF t, e, n, u
<1>5. Len(r.said) \in Nat /\ Len(r.pieces) \in Nat /\ Len(r.said) < Len(r.pieces)
  BY <1>1, <1>2, <1>3, LenProperties DEF Speaks
<1>6. last \in BOOLEAN /\ (~ last => Len(said) < Len(r.pieces))
  BY <1>4, <1>5
<1>7. Joins(said)
  <2> HIDE DEF said
  <2>1. 1 \in DOMAIN said
    BY <1>4, <1>5
  <2> QED BY <1>4, <2>1 DEF Joins
<1>8. at \in {"run", "done"} /\ (at = "run" <=> ~ last)
  BY <1>7
<1> HIDE DEF r, said, last, at
<1>9. q \in Speaker /\ q.said = said /\ q.temp = ~ last /\ q.at = at
      /\ q.engine = r.engine /\ q.pieces = r.pieces /\ q.text = r.text
  BY <1>2, <1>4, <1>6, <1>8 DEF Speaker
<1>10. (~ last => Len(said) < Len(r.pieces)) /\ (last => Len(said) = Len(r.pieces))
  BY <1>6 DEF last
<1> HIDE DEF q
<1>11. Speaks(q)
  BY <1>2, <1>4, <1>8, <1>9, <1>10 DEF Speaks
<1> QED BY <1>1, <1>11, SpeakerKeeps DEF r

(* The voice and those who speak, in every reachable state.                *)
LocalVoiceInv == InstallInv /\ onPath \subseteq Engines /\ SpeakersFit

(* The voice: an installation in place is whole, and what a speaker has    *)
(* left to say is what was asked of it.                                    *)
THEOREM LocalVoiceInvariant == LocalVoiceSpec => []LocalVoiceInv
<1> DEFINE SpeakInv == onPath \subseteq Engines /\ SpeakersFit
<1>1. LocalVoiceInit => SpeakInv
  BY NoSpeakerSpeaks DEF LocalVoiceInit, SpeakersFit, Speaks
<1>2. SpeakInv /\ [LocalVoiceNext]_localVoiceVars => SpeakInv'
  <2> SUFFICES ASSUME SpeakInv, [LocalVoiceNext]_localVoiceVars PROVE SpeakInv'
    OBVIOUS
  <2>1. ASSUME UNCHANGED << onPath, speaker >> PROVE SpeakInv'
    BY <2>1 DEF SpeakersFit, Speaks
  <2>2. ASSUME NEW i \in Installers,
               \/ Consents(i) \/ Redirected(i) \/ Refused(i) \/ PiperVerified(i)
               \/ RemovedBin(i) \/ RemovedVoices(i) \/ RenamedBin(i) \/ RenamedVoices(i)
               \/ SwapFails(i)
               \/ \E body \in {"new", "bad"} : Received(i, body)
        PROVE  SpeakInv'
    <3>1. UNCHANGED << onPath, speaker >>
      BY <2>2, Zenon DEF Consents, Redirected, Refused, PiperVerified, RemovedBin, RemovedVoices,
         RenamedBin, RenamedVoices, SwapFails, Received
    <3> QED BY <2>1, <3>1
  <2>3. ASSUME NEW s \in Speakers, NEW e \in Detected, NEW text \in Speeches, Speak(s, e, text)
        PROVE  SpeakInv'
    <3>1. e \in Engines /\ onPath' = onPath
      BY <2>3, Zenon DEF Detected, Speak
    <3> QED BY <2>3, <3>1, SpeakKeeps
  <2>4. ASSUME NEW s \in Speakers, PieceSpoken(s) PROVE SpeakInv'
    <3>1. onPath' = onPath
      BY <2>4, Zenon DEF PieceSpoken
    <3> QED BY <2>4, <3>1, SpokenKeeps
  <2>5. ASSUME NEW s \in Speakers, SpeechFails(s) PROVE SpeakInv'
    BY <2>5, NoSpeakerSpeaks, SpeakerKeeps DEF SpeechFails
  <2>6. ASSUME UNCHANGED localVoiceVars PROVE SpeakInv'
    BY <2>1, <2>6 DEF localVoiceVars
  <2> HIDE DEF SpeakInv
  <2> QED BY <2>2, <2>3, <2>4, <2>5, <2>6 DEF LocalVoiceNext
<1>3. LocalVoiceInv <=> InstallInv /\ SpeakInv
  BY DEF LocalVoiceInv
<1> QED BY <1>1, <1>2, <1>3, InstallInvariant, PTL DEF LocalVoiceSpec

(* The directories, installations and calls keep their types: above all,   *)
(* no piece is longer than the engine accepts (MAX_CHARS_PER_CHUNK).       *)
THEOREM LocalVoiceTypesHold == LocalVoiceSpec => []LocalVoiceTypeOK
<1>1. LocalVoiceInv => LocalVoiceTypeOK
  BY DEF LocalVoiceInv, InstallInv, InstallTypes, SpeakersFit, LocalVoiceTypeOK
<1> QED BY <1>1, LocalVoiceInvariant, PTL

(* The same of the voice and of those who speak with it: whatever is       *)
(* installed meanwhile, a text of any length is spoken by one engine, with *)
(* all its words and no file left behind (synthesize).                     *)
THEOREM SpeaksWhole == LocalVoiceSpec => []LocalVoiceWhole
<1>1. LocalVoiceInv => LocalVoiceWhole
  BY DEF LocalVoiceInv, InstallInv, SpeakersFit, Speaks, LocalVoiceWhole, SpokenWhole
<1> QED BY <1>1, LocalVoiceInvariant, PTL
=============================================================================
