-------------------------- MODULE AudioQueueProofs --------------------------
(* Proofs about AudioQueue, for any number of chunks, any keys and any     *)
(* options: its invariants, its action properties, and that it implements  *)
(* SynthesisQueue.                                                         *)
EXTENDS AudioQueueRefinement, FiniteSetTheorems, TLAPS

(* What a call of pump() comes down to for every property below: it starts *)
(* some pending chunks of the window, none when the queue is suspended or  *)
(* disposed, and no more than the budget leaves room for.                  *)
Candidates(st, c) == {i \in Window(st, c) : st[i] = "pending"}

Starts(S, st, rn, sy, act, c, ck, pn) ==
  /\ S \subseteq Candidates(st, c)
  /\ suspended' \/ disposed' => S = {}
  /\ status' = [i \in Index |-> IF i \in S THEN "generating" ELSE st[i]]
  /\ run' = [i \in Index |-> IF i \in S \ late' THEN "get" ELSE rn[i]]
  /\ strays' = sy + Cardinality(S \cap late')
  /\ active' = act + Cardinality(S)
  /\ chunkKeys' = ck \cup S
  /\ pins' = pn \cup KeysOf(S)
  /\ overtaken' = (overtaken \ KeysOf(S)) \cup (evicting \cap KeysOf(S))
  /\ IsFiniteSet(S)
  /\ Cardinality(S) \in Nat
  /\ act <= maxConcurrentTtsJobs => act + Cardinality(S) <= maxConcurrentTtsJobs

(* The chunks a session can hold are finitely many.                        *)
LEMMA IndexFinite == IsFiniteSet(Index)
  BY FS_Interval, SizeAssumption DEF Index

(* The chunks below two different candidates differ in number.             *)
LEMMA RankMonotone ==
  ASSUME NEW C \in SUBSET Index, NEW i \in C, NEW j \in C, i < j
  PROVE  /\ Cardinality({x \in C : x < i}) \in Nat
         /\ Cardinality({x \in C : x < j}) \in Nat
         /\ Cardinality({x \in C : x < i}) < Cardinality({x \in C : x < j})
<1> DEFINE A == {x \in C : x < i}
           B == {x \in C : x < j}
<1>0. \A x \in C : x \in Int
  BY SizeAssumption DEF Index
<1>1. IsFiniteSet(C)
  BY IndexFinite, FS_Subset
<1>2. IsFiniteSet(A) /\ IsFiniteSet(B)
  <2>1. A \in SUBSET C /\ B \in SUBSET C
    OBVIOUS
  <2> QED BY <1>1, <2>1, FS_Subset
<1>3. i \notin A /\ A \cup {i} \in SUBSET B
  BY <1>0
<1>4. Cardinality(A \cup {i}) = Cardinality(A) + 1
  BY <1>2, <1>3, FS_AddElement
<1>5. Cardinality(A \cup {i}) <= Cardinality(B)
  BY <1>2, <1>3, FS_Subset
<1>6. Cardinality(A) \in Nat /\ Cardinality(B) \in Nat
  BY <1>2, FS_CardinalityType
<1>7. Cardinality(A) < Cardinality(B)
  BY <1>4, <1>5, <1>6
<1>8. QED
  BY <1>6, <1>7

(* The loop of pump() stops at the budget.                                 *)
LEMMA StartableFits ==
  ASSUME NEW st, NEW act \in Nat, NEW c, act <= maxConcurrentTtsJobs
  PROVE  act + Cardinality(Startable(st, act, c)) <= maxConcurrentTtsJobs
<1> DEFINE C == Candidates(st, c)
           S == Startable(st, act, c)
           room == maxConcurrentTtsJobs - act
           rank == [i \in S |-> Cardinality({j \in C : j < i})]
<1>1. C \in SUBSET Index /\ S \in SUBSET C
  BY DEF Candidates, Window, Startable
<1>2. room \in Nat
  BY OptionAssumption
<1>3. \A i \in S : Cardinality({j \in C : j < i}) \in 0 .. room - 1
  <2> TAKE i \in S
  <2>1. IsFiniteSet({j \in C : j < i})
    BY <1>1, IndexFinite, FS_Subset
  <2>2. Cardinality({j \in C : j < i}) \in Nat
    BY <2>1, FS_CardinalityType
  <2>3. act + Cardinality({j \in C : j < i}) < maxConcurrentTtsJobs
    BY DEF Startable, Candidates
  <2>4. QED
    BY <2>2, <2>3, OptionAssumption
<1>4. \A i, j \in S : i # j => rank[i] # rank[j]
  <2> SUFFICES ASSUME NEW i \in S, NEW j \in S, i # j
               PROVE  rank[i] # rank[j]
    OBVIOUS
  <2>0. i \in C /\ j \in C
    BY <1>1
  <2> HIDE DEF C, S
  <2>1. CASE i < j
    <3>1. Cardinality({x \in C : x < i}) < Cardinality({x \in C : x < j})
      BY <2>0, <2>1, <1>1, RankMonotone
    <3>2. Cardinality({x \in C : x < i}) \in Nat /\ Cardinality({x \in C : x < j}) \in Nat
      BY <2>0, <2>1, <1>1, RankMonotone
    <3> QED BY <3>1, <3>2
  <2>2. CASE j < i
    <3>1. Cardinality({x \in C : x < j}) < Cardinality({x \in C : x < i})
      BY <2>0, <2>2, <1>1, RankMonotone
    <3>2. Cardinality({x \in C : x < i}) \in Nat /\ Cardinality({x \in C : x < j}) \in Nat
      BY <2>0, <2>2, <1>1, RankMonotone
    <3> QED BY <3>1, <3>2
  <2>3. i \in Int /\ j \in Int
    BY <1>1, SizeAssumption DEF Index
  <2>4. QED
    BY <2>1, <2>2, <2>3
<1>5. rank \in Injection(S, 0 .. room - 1)
  <2>1. rank \in [S -> 0 .. room - 1]
    BY <1>3
  <2> QED
    BY <2>1, <1>4 DEF Injection, IsInjective
<1>6. IsFiniteSet(0 .. room - 1) /\ Cardinality(0 .. room - 1) = room
  <2> HIDE DEF room
  <2>1. 0 \in Int /\ room - 1 \in Int
    BY <1>2
  <2>2. /\ IsFiniteSet(0 .. room - 1)
        /\ Cardinality(0 .. room - 1) = IF 0 > room - 1 THEN 0 ELSE (room - 1) - 0 + 1
    BY <2>1, FS_Interval
  <2> QED BY <1>2, <2>2
<1>7. Cardinality(S) <= room
  <2>1. IsFiniteSet(S) /\ Cardinality(S) <= Cardinality(0 .. room - 1)
    BY <1>5, <1>6, FS_Injection
  <2> QED BY <2>1, <1>6
<1>8. Cardinality(S) \in Nat
  <2>1. IsFiniteSet(S)
    BY <1>1, IndexFinite, FS_Subset
  <2> QED BY <2>1, FS_CardinalityType
<1>9. QED
  BY <1>2, <1>7, <1>8, OptionAssumption

(* pump() starts such a set of chunks, from any well-formed state.         *)
LEMMA PumpStarts ==
  ASSUME NEW st, NEW rn, NEW sy \in Nat, NEW act \in Nat, NEW c, NEW ck, NEW pn,
         Pump(st, rn, sy, act, c, ck, pn)
  PROVE  \E S : Starts(S, st, rn, sy, act, c, ck, pn)
<1> DEFINE S == IF suspended' \/ disposed' THEN {} ELSE Startable(st, act, c)
<1>1. S \subseteq Candidates(st, c)
  BY DEF Startable, Candidates
<1>2. S \in SUBSET Index
  BY <1>1 DEF Candidates, Window
<1>3. IsFiniteSet(S) /\ Cardinality(S) \in Nat
  BY <1>2, IndexFinite, FS_Subset, FS_CardinalityType
<1>4. act <= maxConcurrentTtsJobs => act + Cardinality(S) <= maxConcurrentTtsJobs
  <2>1. CASE suspended' \/ disposed'
    BY <2>1, FS_EmptySet
  <2>2. CASE ~ (suspended' \/ disposed')
    BY <2>2, StartableFits
  <2> QED BY <2>1, <2>2
<1>5. Starts(S, st, rn, sy, act, c, ck, pn)
  <2> HIDE DEF S
  <2>1. /\ status' = [i \in Index |-> IF i \in S THEN "generating" ELSE st[i]]
        /\ run' = [i \in Index |-> IF i \in S \ late' THEN "get" ELSE rn[i]]
        /\ strays' = sy + Cardinality(S \cap late')
        /\ active' = act + Cardinality(S)
        /\ chunkKeys' = ck \cup S
        /\ pins' = pn \cup KeysOf(S)
        /\ overtaken' = (overtaken \ KeysOf(S)) \cup (evicting \cap KeysOf(S))
    BY DEF Pump, S
  <2>2. suspended' \/ disposed' => S = {}
    BY DEF S
  <2> QED BY <1>1, <1>3, <1>4, <2>1, <2>2 DEF Starts
<1> QED BY <1>5
-----------------------------------------------------------------------------
(* How a run can leave an await: it goes on to the next one, or it returns *)
(* with its chunk at `st`.                                                 *)
Returns(i, st) ==
  /\ run[i] # "none"
  /\ Finish(i, st)
  /\ \/ st \in {"pending", "ready"} /\ UNCHANGED << attempts, timers >>
     \/ /\ i \notin aborted
        /\ attempts' = [attempts EXCEPT ![i] = @ + 1]
        /\ \/ st = "error" /\ attempts[i] + 1 > maxRetries /\ UNCHANGED timers
           \/ st = "pending" /\ attempts[i] + 1 <= maxRetries /\ UNCHANGED timers
           \/ /\ st = "generating" /\ attempts[i] + 1 <= maxRetries
              /\ timers' = timers \cup {i}

(* A step of run() either moves on to the next await or returns.           *)
LEMMA RunStepCases ==
  ASSUME NEW i \in Index, RunStep(i)
  PROVE  \/ \E from, to \in Phases : Proceed(i, from, to)
         \/ \E st \in QueueStatus : Returns(i, st)
<1>1. CASE GetResolves(i)
  BY <1>1 DEF GetResolves, Phases
<1>2. CASE SynthResolves(i)
  BY <1>2 DEF SynthResolves, Phases
<1>3. CASE RunCancelled(i)
  BY <1>3 DEF RunCancelled, Revert, Returns, QueueStatus
<1>4. CASE PutResolves(i)
  BY <1>4 DEF PutResolves, Returns, QueueStatus
<1>5. CASE RunFails(i)
  BY <1>5 DEF RunFails, Returns, QueueStatus
<1> QED
  BY <1>1, <1>2, <1>3, <1>4, <1>5, RunStep(i) DEF RunStep

-----------------------------------------------------------------------------
(* The inductive invariant, as a predicate of the state so that it can be  *)
(* asserted of the intermediate states a method reaches before it pumps.   *)
(* Beside the invariants of the module it says that a chunk a pump may     *)
(* start has retries left.                                                 *)
Typed(st, at, wt, rn, ab, tm, c, act, ck, pn) ==
  /\ st \in [Index -> QueueStatus \cup PlayerStatus \cup {"absent"}]
  /\ at \in [Index -> Nat]
  /\ rn \in [Index -> Phases \cup {"none"}]
  /\ wt \subseteq Index /\ ab \subseteq Index /\ tm \subseteq Index
  /\ c \in Index /\ act \in Nat
  /\ ck \subseteq Index /\ pn \subseteq Keys

(* The chunks of the session are a prefix of the indices.                  *)
Prefix(st) == \E n \in 0 .. MaxChunks : \A i \in Index : st[i] = "absent" <=> n <= i

InFlight(rn) == {i \in Index : rn[i] # "none"}

Slots(rn, sy, act) ==
  act = Cardinality(InFlight(rn)) + sy /\ act <= maxConcurrentTtsJobs

(* lt are the chunks hit by a late error, of which nothing is said but     *)
(* that the queue has them and that none of the runs accounted for is on   *)
(* them.                                                                   *)
Owned(st, at, wt, rn, ab, tm, lt) ==
  /\ \A i \in Index :
       rn[i] # "none" => i \notin lt /\ st[i] = "generating" /\ at[i] <= maxRetries
  /\ \A i \in tm \ lt :
       st[i] = "generating" /\ rn[i] = "none" /\ at[i] \in 1 .. maxRetries
  /\ \A i \in ab : rn[i] # "none"
  /\ \A i \in Index : at[i] <= maxRetries + 1
  /\ \A i \in Index \ lt : st[i] \in {"pending", "absent"} => at[i] <= maxRetries
  /\ \A i \in wt \ lt : st[i] \in {"pending", "generating"}
  /\ \A i \in Index : i \in lt => st[i] # "absent"

Pinned(st, c, di, ck, pn) ==
  /\ pn \subseteq KeysOf(ck)
  /\ ck \subseteq Window(st, c)
  /\ di => pn = {}

(* The queue loses track of a run by a late error alone.                   *)
Strayed(lt, sy, rp) ==
  /\ lt \subseteq Index /\ rp \subseteq Index /\ sy \in Nat
  /\ lt = {} => sy = 0

IInv ==
  /\ Typed(status, attempts, waiting, run, aborted, timers, cursor, active, chunkKeys, pins)
  /\ suspended \in BOOLEAN /\ disposed \in BOOLEAN /\ stored \subseteq Keys
  /\ Prefix(status)
  /\ Slots(run, strays, active)
  /\ Owned(status, attempts, waiting, run, aborted, timers, late)
  /\ Pinned(status, cursor, disposed, chunkKeys, pins)
  /\ Strayed(late, strays, replayed)
  /\ evicting \subseteq Keys /\ overtaken \subseteq Keys

(* A pump keeps the types.                                                 *)
LEMMA PumpKeepsTyped ==
  ASSUME NEW st, NEW at, NEW wt, NEW rn, NEW ab, NEW tm, NEW sy \in Nat, NEW c, NEW act, NEW ck, NEW pn,
         Typed(st, at, wt, rn, ab, tm, c, act, ck, pn),
         NEW S, Starts(S, st, rn, sy, act, c, ck, pn)
  PROVE  Typed(status', at, wt, run', ab, tm, c, active', chunkKeys', pins')
<1>1. S \subseteq Index
  BY DEF Starts, Candidates, Window
<1>2. status' \in [Index -> QueueStatus \cup PlayerStatus \cup {"absent"}]
  BY <1>1 DEF Starts, QueueStatus, Typed
<1>3. run' \in [Index -> Phases \cup {"none"}]
  BY <1>1 DEF Starts, Phases, Typed
<1>4. active' \in Nat
  BY DEF Starts, Typed
<1>5. chunkKeys' \subseteq Index /\ pins' \subseteq Keys
  BY <1>1, KeyAssumption DEF Starts, KeysOf, Typed
<1> QED BY <1>2, <1>3, <1>4, <1>5 DEF Typed

(* The members of two sets that have none in common.                       *)
LEMMA DisjointUnion ==
  ASSUME NEW A, NEW B, IsFiniteSet(A), IsFiniteSet(B), A \cap B = {}
  PROVE  Cardinality(A \cup B) = Cardinality(A) + Cardinality(B)
<1>1. Cardinality(A \cap B) = 0
  BY FS_EmptySet
<1>2. Cardinality(A) \in Nat /\ Cardinality(B) \in Nat
  BY FS_CardinalityType
<1>3. Cardinality(A \cup B) = Cardinality(A) + Cardinality(B) - Cardinality(A \cap B)
  BY FS_Union
<1> QED BY <1>1, <1>2, <1>3

(* A pump takes slots for chunks that have no run, and counts those of the *)
(* late chunks apart.                                                      *)
LEMMA PumpKeepsSlots ==
  ASSUME NEW st, NEW at, NEW wt, NEW rn, NEW ab, NEW tm, NEW sy \in Nat, NEW c,
         NEW act \in Nat, NEW ck, NEW pn,
         Slots(rn, sy, act), Owned(st, at, wt, rn, ab, tm, late'),
         NEW S, Starts(S, st, rn, sy, act, c, ck, pn)
  PROVE  Slots(run', strays', active') /\ strays' \in Nat
<1> DEFINE F == S \ late'
           L == S \cap late'
<1>1. S \subseteq Index /\ (\A i \in Index : i \in S => st[i] = "pending")
  BY DEF Starts, Candidates, Window
<1>2. F \cap InFlight(rn) = {}
  BY <1>1 DEF InFlight, Owned
<1>3. InFlight(run') = InFlight(rn) \cup F
  BY <1>1 DEF Starts, InFlight
<1>4. IsFiniteSet(InFlight(rn)) /\ IsFiniteSet(S) /\ IsFiniteSet(F) /\ IsFiniteSet(L)
  <2>1. InFlight(rn) \in SUBSET Index /\ F \in SUBSET S /\ L \in SUBSET S
    BY DEF InFlight
  <2>2. IsFiniteSet(S)
    BY DEF Starts
  <2> QED BY <2>1, <2>2, IndexFinite, FS_Subset
<1>5. /\ Cardinality(InFlight(rn)) \in Nat /\ Cardinality(F) \in Nat
      /\ Cardinality(L) \in Nat /\ Cardinality(S) \in Nat
  BY <1>4, FS_CardinalityType
<1>6. Cardinality(InFlight(rn) \cup F) = Cardinality(InFlight(rn)) + Cardinality(F)
  <2>1. InFlight(rn) \cap F = {}
    BY <1>2
  <2> HIDE DEF F, L
  <2> QED BY <1>4, <2>1, DisjointUnion
<1>7. Cardinality(S) = Cardinality(F) + Cardinality(L)
  <2>1. F \cap L = {} /\ S = F \cup L
    OBVIOUS
  <2>2. Cardinality(F \cup L) = Cardinality(F) + Cardinality(L)
    <3> HIDE DEF F, L
    <3> QED BY <1>4, <2>1, DisjointUnion
  <2> HIDE DEF F, L
  <2> QED BY <2>1, <2>2
<1>8. strays' = sy + Cardinality(L) /\ active' = act + Cardinality(S)
  BY DEF Starts
<1> HIDE DEF F, L
<1>9. active' = Cardinality(InFlight(run')) + strays'
  BY <1>3, <1>5, <1>6, <1>7, <1>8 DEF Slots
<1>10. active' <= maxConcurrentTtsJobs /\ strays' \in Nat
  BY <1>5, <1>8 DEF Slots, Starts
<1> QED BY <1>9, <1>10 DEF Slots

(* No run of a pump goes astray when no late error has hit a chunk.        *)
LEMMA PumpKeepsStrayed ==
  ASSUME NEW st, NEW rn, NEW sy \in Nat, NEW act, NEW c, NEW ck, NEW pn,
         late' = {} => sy = 0, NEW S, Starts(S, st, rn, sy, act, c, ck, pn), late' = {}
  PROVE  strays' = 0
<1>1. Cardinality(S \cap late') = 0
  <2>1. S \cap late' = {}
    OBVIOUS
  <2> QED BY <2>1, FS_EmptySet
<1> QED BY <1>1 DEF Starts

(* A pump gives a run only to chunks that had neither run nor timer.       *)
LEMMA PumpKeepsOwned ==
  ASSUME NEW st, NEW at, NEW wt, NEW rn, NEW ab, NEW tm, NEW sy \in Nat, NEW c, NEW act, NEW ck, NEW pn,
         Typed(st, at, wt, rn, ab, tm, c, act, ck, pn),
         Owned(st, at, wt, rn, ab, tm, late'),
         NEW S, Starts(S, st, rn, sy, act, c, ck, pn)
  PROVE  Owned(status', at, wt, run', ab, tm, late')
<1>1. \A i \in S : i \in Index /\ st[i] = "pending"
  BY DEF Starts, Candidates, Window
<1>2. \A i \in Index : /\ status'[i] = IF i \in S THEN "generating" ELSE st[i]
                       /\ run'[i] = IF i \in S \ late' THEN "get" ELSE rn[i]
  BY DEF Starts
<1> QED BY <1>1, <1>2 DEF Owned, Typed

(* A pump pins and tracks only chunks of the window.                       *)
LEMMA PumpKeepsPinned ==
  ASSUME NEW st, NEW rn, NEW sy \in Nat, NEW act, NEW c, NEW ck, NEW pn,
         Pinned(st, c, disposed', ck, pn),
         NEW S, Starts(S, st, rn, sy, act, c, ck, pn)
  PROVE  Pinned(status', c, disposed', chunkKeys', pins')
<1>1. S \subseteq Window(st, c)
  BY DEF Starts, Candidates
<1>2. Window(status', c) = Window(st, c)
  <2>1. \A i \in Index : status'[i] = "absent" <=> st[i] = "absent"
    BY DEF Starts, Candidates, Window
  <2> QED BY <2>1 DEF Window
<1>3. chunkKeys' = ck \cup S /\ pins' = pn \cup KeysOf(S)
  BY DEF Starts
<1>4. disposed' => S = {}
  BY DEF Starts
<1> QED BY <1>1, <1>2, <1>3, <1>4 DEF Pinned, KeysOf

(* A method that pumps keeps the invariant when the state it pumps from    *)
(* satisfies it.                                                           *)
LEMMA PumpKeepsIInv ==
  ASSUME NEW st, NEW rn, NEW sy, NEW act, NEW c, NEW ck, NEW pn,
         Pump(st, rn, sy, act, c, ck, pn), cursor' = c,
         Typed(st, attempts', waiting', rn, aborted', timers', c, act, ck, pn),
         suspended' \in BOOLEAN, disposed' \in BOOLEAN, stored' \subseteq Keys,
         evicting \subseteq Keys, evicting' = evicting, overtaken \subseteq Keys,
         Prefix(st), Slots(rn, sy, act), Strayed(late', sy, replayed'),
         Owned(st, attempts', waiting', rn, aborted', timers', late'),
         Pinned(st, c, disposed', ck, pn)
  PROVE  IInv'
<1>1. act \in Nat /\ sy \in Nat
  BY DEF Typed, Strayed
<1>2. PICK S : Starts(S, st, rn, sy, act, c, ck, pn)
  BY <1>1, PumpStarts
<1>3. Typed(status', attempts', waiting', run', aborted', timers', cursor', active',
            chunkKeys', pins')
  BY <1>1, <1>2, PumpKeepsTyped
<1>4. Slots(run', strays', active') /\ strays' \in Nat
  BY <1>1, <1>2, PumpKeepsSlots
<1>8. Strayed(late', strays', replayed')
  BY <1>1, <1>2, <1>4, PumpKeepsStrayed DEF Strayed
<1>9. overtaken' \subseteq Keys
  BY <1>2 DEF Starts
<1>5. Owned(status', attempts', waiting', run', aborted', timers', late')
  BY <1>1, <1>2, PumpKeepsOwned
<1>6. Pinned(status', cursor', disposed', chunkKeys', pins')
  BY <1>1, <1>2, PumpKeepsPinned
<1>7. Prefix(status')
  <2>1. \A i \in Index : status'[i] = "absent" <=> st[i] = "absent"
    BY <1>2 DEF Starts, Candidates, Window
  <2> QED BY <2>1 DEF Prefix
<1> QED BY <1>3, <1>4, <1>5, <1>6, <1>7, <1>8, <1>9 DEF IInv

-----------------------------------------------------------------------------
(* One lemma per action: it keeps the inductive invariant.                 *)

(* A fresh queue satisfies the invariant.                                  *)
LEMMA InitIInv == Init => IInv
<1> SUFFICES ASSUME Init PROVE IInv
  OBVIOUS
<1>1. Typed(status, attempts, waiting, run, aborted, timers, cursor, active, chunkKeys, pins)
  BY SizeAssumption DEF Init, Typed, QueueStatus, Index
<1>2. Slots(run, strays, active)
  <2>1. InFlight(run) = {}
    BY DEF Init, InFlight
  <2>2. Cardinality(InFlight(run)) = 0
    BY <2>1, FS_EmptySet
  <2>3. active = 0 /\ strays = 0 /\ 0 <= maxConcurrentTtsJobs
    BY OptionAssumption DEF Init
  <2> QED BY <2>2, <2>3 DEF Slots
<1>3. Owned(status, attempts, waiting, run, aborted, timers, late)
  BY OptionAssumption DEF Init, Owned
<1>4. Pinned(status, cursor, disposed, chunkKeys, pins)
  BY DEF Init, Pinned
<1>5. Prefix(status)
  <2>1. PICK n \in 0 .. MaxChunks :
              status = [i \in Index |-> IF i < n THEN "pending" ELSE "absent"]
    BY DEF Init
  <2>2. \A i \in Index : status[i] = "absent" <=> n <= i
    BY <2>1, SizeAssumption DEF Index
  <2> QED BY <2>2 DEF Prefix
<1>6. Strayed(late, strays, replayed)
  BY DEF Init, Strayed
<1> QED BY <1>1, <1>2, <1>3, <1>4, <1>5, <1>6 DEF Init, IInv

(* items.length is where the prefix ends.                                  *)
LEMMA PrefixLength ==
  ASSUME NEW st, Prefix(st), NEW len, len = Cardinality({i \in Index : st[i] # "absent"})
  PROVE  len \in 0 .. MaxChunks /\ \A i \in Index : st[i] = "absent" <=> len <= i
<1>1. PICK n \in 0 .. MaxChunks : \A i \in Index : st[i] = "absent" <=> n <= i
  BY DEF Prefix
<1>2. {i \in Index : st[i] # "absent"} = 0 .. n - 1
  BY <1>1, SizeAssumption DEF Index
<1>3. Cardinality(0 .. n - 1) = n
  <2>1. 0 \in Int /\ n - 1 \in Int
    OBVIOUS
  <2>2. Cardinality(0 .. n - 1) = IF 0 > n - 1 THEN 0 ELSE (n - 1) - 0 + 1
    BY <2>1, FS_Interval
  <2> QED BY <2>2
<1> QED BY <1>1, <1>2, <1>3

(* append() adds pending chunks after the last one.                        *)
LEMMA AppendIInv ==
  ASSUME IInv, NEW n \in 1 .. MaxChunks, AppendChunks(n)
  PROVE  IInv'
<1> DEFINE len == Cardinality({i \in Index : Present(i)})
           st == [i \in Index |-> IF i \in len .. len + n - 1 THEN "pending" ELSE status[i]]
<1>1. Pump(st, run, strays, active, cursor, chunkKeys, pins) /\ len + n <= MaxChunks
  BY DEF AppendChunks
<1>2. UNCHANGED << suspended, disposed, attempts, waiting, timers, aborted, cursor, stored,
                  evicting, replayed, late >>
  BY DEF AppendChunks, flags, jobVars, errorVars
<1>3. len \in 0 .. MaxChunks /\ \A i \in Index : status[i] = "absent" <=> len <= i
  BY PrefixLength DEF IInv, Present
<1> HIDE DEF len
<1>4. \A i \in Index : /\ i \in len .. len + n - 1 => status[i] = "absent"
                      /\ st[i] = IF i \in len .. len + n - 1 THEN "pending" ELSE status[i]
  BY <1>3
<1>5. Typed(st, attempts, waiting, run, aborted, timers, cursor, active, chunkKeys, pins)
  BY DEF IInv, Typed, QueueStatus
<1>6. Owned(st, attempts, waiting, run, aborted, timers, late)
  BY <1>4 DEF IInv, Owned, Typed
<1>7. Pinned(st, cursor, disposed, chunkKeys, pins)
  BY <1>4 DEF IInv, Pinned, Window
<1>8. Prefix(st)
  <2>1. len + n \in 0 .. MaxChunks
    BY <1>1, <1>3, SizeAssumption
  <2>2. \A i \in Index : st[i] = "absent" <=> len + n <= i
    BY <1>3, <1>4, SizeAssumption DEF Index
  <2> QED BY <2>1, <2>2 DEF Prefix
<1> HIDE DEF st
<1> QED BY <1>1, <1>2, <1>5, <1>6, <1>7, <1>8, PumpKeepsIInv DEF IInv

(* setCursor() drops the pins of what leaves the window.                   *)
LEMMA SetCursorIInv ==
  ASSUME IInv, NEW i \in Index, SetCursor(i)
  PROVE  IInv'
<1> DEFINE ck == chunkKeys \ OutOfWindow(i)
           pn == pins \ KeysOf(OutOfWindow(i))
<1>1. Pump(status, run, strays, active, i, ck, pn) /\ cursor' = i /\ suspended' = FALSE
  BY DEF SetCursor
<1>2. UNCHANGED << disposed, attempts, waiting, timers, aborted, stored, evicting,
                  replayed, late >>
  BY DEF SetCursor, jobVars, errorVars
<1>3. Typed(status, attempts, waiting, run, aborted, timers, i, active, ck, pn)
  BY DEF IInv, Typed
<1>4. Pinned(status, i, disposed, ck, pn)
  BY DEF IInv, Pinned, OutOfWindow, KeysOf
<1> HIDE DEF ck, pn
<1> QED BY <1>1, <1>2, <1>3, <1>4, PumpKeepsIInv DEF IInv

(* waitFor() parks its waiter on a chunk that is not settled.              *)
LEMMA WaitForIInv ==
  ASSUME IInv, NEW i \in Index, WaitFor(i)
  PROVE  IInv'
<1>1. /\ Pump(status, run, strays, active, cursor, chunkKeys, pins)
      /\ suspended' = FALSE /\ waiting' = waiting \cup {i}
      /\ UNCHANGED << disposed, attempts, timers, aborted, cursor, stored, evicting,
                      replayed, late >>
  BY DEF WaitFor, errorVars
<1>2. Typed(status, attempts, waiting', run, aborted, timers, cursor, active, chunkKeys, pins)
  BY <1>1 DEF IInv, Typed
<1>3. Owned(status, attempts, waiting', run, aborted, timers, late)
  BY <1>1 DEF WaitFor, IInv, Owned
<1> QED BY <1>1, <1>2, <1>3, PumpKeepsIInv DEF IInv

(* retry() re-arms a chunk that has neither run nor timer.                 *)
LEMMA RetryIInv ==
  ASSUME IInv, NEW i \in Index, Retry(i)
  PROVE  IInv'
<1> DEFINE st == [status EXCEPT ![i] = "pending"]
<1>1. /\ Pump(st, run, strays, active, cursor, chunkKeys, pins)
      /\ attempts' = [attempts EXCEPT ![i] = 0] /\ suspended' = FALSE
      /\ waiting' = waiting \ {i}
      /\ UNCHANGED << disposed, timers, aborted, cursor, stored, evicting, late >>
      /\ replayed' \subseteq replayed \cup {i}
  BY DEF Retry
<1>2. /\ \A j \in Index : st[j] = IF j = i THEN "pending" ELSE status[j]
      /\ status[i] = "error"
  BY DEF Retry, IInv, Typed
<1>3. Typed(st, attempts', waiting', run, aborted, timers, cursor, active, chunkKeys, pins)
  BY <1>1 DEF IInv, Typed, QueueStatus
<1>4. Owned(st, attempts', waiting', run, aborted, timers, late)
  <2>1. \A j \in Index : attempts'[j] = IF j = i THEN 0 ELSE attempts[j]
    BY <1>1 DEF IInv, Typed
  <2> HIDE DEF st
  <2> QED BY <1>1, <1>2, <2>1, OptionAssumption DEF IInv, Owned, Typed
<1>5. Pinned(st, cursor, disposed, chunkKeys, pins) /\ Prefix(st)
  BY <1>2 DEF IInv, Pinned, Window, Prefix
<1>6. Strayed(late', strays, replayed')
  BY <1>1 DEF IInv, Strayed
<1> HIDE DEF st
<1> QED BY <1>1, <1>3, <1>4, <1>5, <1>6, PumpKeepsIInv DEF IInv

(* cancelAll() and dispose() leave no waiter and no timer.                 *)
LEMMA CancelIInv ==
  ASSUME IInv, CancelAll \/ Dispose
  PROVE  IInv'
<1>1. /\ timers' \subseteq timers \cap late
      /\ waiting' = {} /\ aborted' = Running /\ suspended' = TRUE
      /\ UNCHANGED << status, run, cursor, active, strays, stored, evicting, overtaken,
                      replayed, late >>
      /\ \/ UNCHANGED << attempts, disposed, chunkKeys, pins >>
         \/ /\ attempts' = [j \in Index |-> 0] /\ disposed' = TRUE
            /\ chunkKeys' = {} /\ pins' = pins \ KeysOf(chunkKeys)
  BY DEF CancelAll, Dispose, CancelJobs, cacheVars, errorVars
<1>2. Typed(status, attempts, waiting, run, aborted, timers, cursor, active, chunkKeys, pins)'
  BY <1>1 DEF IInv, Typed, Running
<1>3. Owned(status, attempts, waiting, run, aborted, timers, late)'
  BY <1>1, OptionAssumption DEF IInv, Owned, Running
<1>4. Pinned(status, cursor, disposed, chunkKeys, pins)'
  BY <1>1 DEF IInv, Pinned, Window
<1>5. Slots(run, strays, active)' /\ Prefix(status)' /\ (stored \subseteq Keys)'
      /\ Strayed(late, strays, replayed)'
  BY <1>1 DEF IInv, Slots, InFlight, Prefix, Strayed
<1> QED BY <1>1, <1>2, <1>3, <1>4, <1>5 DEF IInv

(* A run that moves on to its next await keeps its slot and its chunk.     *)
LEMMA ProceedIInv ==
  ASSUME IInv, NEW i \in Index, NEW from \in Phases, NEW to \in Phases,
         Proceed(i, from, to), stored' \subseteq Keys
  PROVE  IInv'
<1>1. /\ run[i] = from /\ run' = [run EXCEPT ![i] = to]
      /\ UNCHANGED << status, attempts, waiting, timers, aborted, cursor, active,
                      suspended, disposed, chunkKeys, pins, strays, evicting, overtaken,
                      replayed, late >>
  BY DEF Proceed, jobVars, flags, cacheVars, errorVars
<1>2. \A j \in Index : run'[j] # "none" <=> run[j] # "none"
  BY <1>1 DEF IInv, Typed, Phases
<1>3. InFlight(run') = InFlight(run)
  BY <1>2 DEF InFlight
<1>4. Typed(status, attempts, waiting, run', aborted, timers, cursor, active, chunkKeys, pins)
  BY <1>1 DEF IInv, Typed
<1>5. Owned(status, attempts, waiting, run', aborted, timers, late)
  <2>1. timers \subseteq Index /\ aborted \subseteq Index
    BY DEF IInv, Typed
  <2> QED BY <1>2, <2>1 DEF IInv, Owned
<1> QED BY <1>1, <1>3, <1>4, <1>5 DEF IInv, Slots

(* A return frees exactly the slot its run held.                           *)
LEMMA ReturnFreesSlot ==
  ASSUME IInv, NEW i \in Index, run[i] # "none"
  PROVE  Slots([run EXCEPT ![i] = "none"], strays, active - 1) /\ active - 1 \in Nat
<1> DEFINE rn == [run EXCEPT ![i] = "none"]
<1>1. InFlight(rn) = InFlight(run) \ {i} /\ i \in InFlight(run)
  BY DEF InFlight, IInv, Typed
<1>2. InFlight(run) \in SUBSET Index
  BY DEF InFlight
<1>3. IsFiniteSet(InFlight(run))
  BY <1>2, IndexFinite, FS_Subset
<1>4. Cardinality(InFlight(run) \ {i}) = Cardinality(InFlight(run)) - 1
  BY <1>1, <1>3, FS_RemoveElement
<1>5. Cardinality(InFlight(run) \ {i}) \in Nat
  BY <1>3, FS_RemoveElement, FS_CardinalityType
<1>6. /\ active = Cardinality(InFlight(run)) + strays /\ strays \in Nat
      /\ active <= maxConcurrentTtsJobs /\ active \in Nat
      /\ Cardinality(InFlight(run)) \in Nat
  BY <1>3, FS_CardinalityType DEF IInv, Slots, Typed, Strayed
<1>7. active - 1 = Cardinality(InFlight(rn)) + strays /\ active - 1 \in Nat
  <2>1. Cardinality(InFlight(rn)) = Cardinality(InFlight(run)) - 1
    BY <1>1, <1>4
  <2>2. Cardinality(InFlight(run)) - 1 \in Nat
    BY <1>4, <1>5
  <2> HIDE DEF rn
  <2> QED BY <1>6, <2>1, <2>2
<1>8. active - 1 <= maxConcurrentTtsJobs
  BY <1>6, OptionAssumption
<1> QED BY <1>7, <1>8 DEF Slots

(* A run that returns frees its slot and settles or releases its chunk.    *)
LEMMA ReturnsIInv ==
  ASSUME IInv, NEW i \in Index, NEW st \in QueueStatus, Returns(i, st),
         stored' \subseteq Keys
  PROVE  IInv'
<1> DEFINE base == [status EXCEPT ![i] = st]
           rn == [run EXCEPT ![i] = "none"]
<1>1. /\ run[i] # "none"
      /\ Pump(base, rn, strays, active - 1, cursor, chunkKeys, pins)
      /\ aborted' = aborted \ {i}
      /\ waiting' = IF st \in Settled THEN waiting \ {i} ELSE waiting
      /\ UNCHANGED << suspended, disposed, cursor, evicting, replayed, late >>
  BY DEF Returns, Finish, flags, errorVars
<1>2. \A j \in Index : /\ base[j] = IF j = i THEN st ELSE status[j]
                      /\ rn[j] = IF j = i THEN "none" ELSE run[j]
  BY DEF IInv, Typed
<1>3. /\ status[i] = "generating" /\ i \notin timers /\ i \notin late
      /\ attempts[i] \in Nat /\ attempts[i] <= maxRetries
  BY <1>1 DEF IInv, Owned, Typed
<1>4. Typed(base, attempts', waiting', rn, aborted', timers', cursor, active - 1, chunkKeys, pins)
  <2>1. active - 1 \in Nat
    BY <1>1, ReturnFreesSlot
  <2>2. attempts' \in [Index -> Nat] /\ timers' \subseteq Index
    BY DEF IInv, Typed, Returns
  <2> QED BY <1>1, <2>1, <2>2 DEF IInv, Typed, Settled
<1>5. Owned(base, attempts', waiting', rn, aborted', timers', late')
  <2> HIDE DEF base, rn
  <2>1. /\ waiting \subseteq Index /\ timers \subseteq Index /\ aborted \subseteq Index
        /\ attempts \in [Index -> Nat] /\ maxRetries \in Nat /\ late' = late
    BY <1>1, OptionAssumption DEF IInv, Typed
  <2>2. Owned(status, attempts, waiting, run, aborted, timers, late)
    BY DEF IInv
  <2>3. \A j \in waiting' \ late : base[j] \in {"pending", "generating"}
    BY <1>1, <1>2, <2>1, <2>2 DEF Owned, Settled, QueueStatus
  <2>4. CASE st \in {"pending", "ready"} /\ UNCHANGED << attempts, timers >>
    BY <1>1, <1>2, <1>3, <2>1, <2>2, <2>3, <2>4 DEF Owned
  <2>5. CASE attempts' = [attempts EXCEPT ![i] = @ + 1]
    <3>1. \A j \in Index : attempts'[j] = IF j = i THEN attempts[i] + 1 ELSE attempts[j]
      BY <2>1, <2>5
    <3>2. CASE st = "error" /\ UNCHANGED timers
      BY <1>1, <1>2, <1>3, <2>1, <2>2, <2>3, <3>1, <3>2 DEF Owned
    <3>3. CASE st = "pending" /\ attempts[i] + 1 <= maxRetries /\ UNCHANGED timers
      BY <1>1, <1>2, <1>3, <2>1, <2>2, <2>3, <3>1, <3>3 DEF Owned
    <3>4. CASE st = "generating" /\ attempts[i] + 1 <= maxRetries /\ timers' = timers \cup {i}
      BY <1>1, <1>2, <1>3, <2>1, <2>2, <2>3, <3>1, <3>4 DEF Owned
    <3> QED BY <2>4, <3>2, <3>3, <3>4 DEF Returns
  <2> QED BY <2>4, <2>5 DEF Returns
<1>6. Pinned(base, cursor, disposed, chunkKeys, pins) /\ Prefix(base)
  <2>1. \A j \in Index : base[j] = "absent" <=> status[j] = "absent"
    BY <1>2, <1>3 DEF QueueStatus
  <2>2. Window(base, cursor) = Window(status, cursor)
    BY <2>1 DEF Window
  <2> HIDE DEF base
  <2> QED BY <2>1, <2>2 DEF IInv, Pinned, Prefix
<1>7. Slots(rn, strays, active - 1)
  BY <1>1, ReturnFreesSlot
<1> HIDE DEF base, rn
<1> QED BY <1>1, <1>4, <1>5, <1>6, <1>7, PumpKeepsIInv DEF IInv

(* A timer that fires gives its chunk back or, cancelled, does nothing.    *)
LEMMA TimerIInv ==
  ASSUME IInv, NEW i \in Index, TimerFires(i)
  PROVE  IInv'
<1> DEFINE st == [status EXCEPT ![i] = "pending"]
<1>1. /\ i \in timers /\ timers' \subseteq timers /\ (i \notin late => i \notin timers')
      /\ UNCHANGED << suspended, disposed, attempts, waiting, aborted, cursor, stored,
                      evicting, replayed, late >>
  BY DEF TimerFires, flags, errorVars
<1>2. CASE UNCHANGED << status, run, strays, active, chunkKeys, pins, overtaken >>
  <2>1. Owned(status, attempts, waiting, run, aborted, timers, late)'
    BY <1>1, <1>2 DEF IInv, Typed, Owned
  <2> QED
    BY <1>1, <1>2, <2>1 DEF IInv, Typed, Slots, Pinned, Prefix, InFlight, Window, Strayed
<1>3. CASE Pump(st, run, strays, active, cursor, chunkKeys, pins)
  <2>1. \A j \in Index : st[j] = IF j = i THEN "pending" ELSE status[j]
    BY DEF IInv, Typed
  <2>2. Typed(st, attempts', waiting', run, aborted', timers', cursor, active, chunkKeys, pins)
    BY <1>1 DEF IInv, Typed, QueueStatus
  <2>3. /\ status[i] # "absent" /\ run[i] = "none"
        /\ i \notin late => attempts[i] <= maxRetries
    BY <1>1, OptionAssumption DEF IInv, Typed, Owned
  <2>4. Window(st, cursor) = Window(status, cursor)
    BY <2>1, <2>3 DEF Window
  <2> HIDE DEF st
  <2>5. Owned(st, attempts', waiting', run, aborted', timers', late')
    BY <1>1, <2>1, <2>3 DEF IInv, Owned, Typed
  <2>6. Pinned(st, cursor, disposed, chunkKeys, pins) /\ Prefix(st)
    BY <2>1, <2>3, <2>4 DEF IInv, Pinned, Prefix
  <2> QED BY <1>1, <1>3, <2>2, <2>5, <2>6, PumpKeepsIInv DEF IInv
<1> QED BY <1>2, <1>3 DEF TimerFires

(* The player's writes touch settled chunks only, and settle them.         *)
LEMMA PlayerIInv ==
  ASSUME IInv, NEW i \in Index, NEW st \in PlayerStatus \cup {"error"}, PlayerMarks(i, st)
  PROVE  IInv'
<1>1. /\ status' = [status EXCEPT ![i] = st]
      /\ status[i] \in {"playing", "played", "ready", "error"}
      /\ st \in {"playing", "played", "error"}
      /\ UNCHANGED << attempts, waiting, timers, run, aborted, cursor, active,
                      suspended, disposed, chunkKeys, pins, stored, evicting, overtaken,
                      strays, replayed, late >>
  BY DEF PlayerMarks, Audible, PlayerStatus, jobVars, flags, cacheVars, errorVars
<1>2. \A j \in Index : status'[j] = IF j = i THEN st ELSE status[j]
  BY <1>1 DEF IInv, Typed
<1>3. Typed(status', attempts, waiting, run, aborted, timers, cursor, active, chunkKeys, pins)
  BY <1>1 DEF IInv, Typed, PlayerStatus, QueueStatus
<1>4. Owned(status', attempts, waiting, run, aborted, timers, late)
  BY <1>1, <1>2 DEF IInv, Owned, Typed
<1>5. Window(status', cursor) = Window(status, cursor) /\ Prefix(status')
  BY <1>1, <1>2 DEF Window, IInv, Prefix
<1> QED BY <1>1, <1>3, <1>4, <1>5 DEF IInv, Pinned

(* A late error leaves its chunk to nobody: its run, if it has one, is     *)
(* counted with the strays.                                                *)
LEMMA LateErrorIInv ==
  ASSUME IInv, NEW i \in Index, LateError(i)
  PROVE  IInv'
<1>1. /\ status' = [status EXCEPT ![i] = "error"]
      /\ status[i] \in {"pending", "generating"}
      /\ late' = late \cup {i} /\ run' = [run EXCEPT ![i] = "none"]
      /\ strays' = IF run[i] = "none" THEN strays ELSE strays + 1
      /\ aborted' = aborted \ {i}
      /\ UNCHANGED << attempts, waiting, timers, cursor, active, suspended, disposed,
                      chunkKeys, pins, stored, evicting, overtaken, replayed >>
  BY DEF LateError, jobVars, flags, cacheVars
<1>2. \A j \in Index : /\ status'[j] = IF j = i THEN "error" ELSE status[j]
                      /\ run'[j] = IF j = i THEN "none" ELSE run[j]
  BY <1>1 DEF IInv, Typed
<1>3. Typed(status, attempts, waiting, run, aborted, timers, cursor, active, chunkKeys, pins)'
  BY <1>1 DEF IInv, Typed, QueueStatus
<1>4. Owned(status, attempts, waiting, run, aborted, timers, late)'
  BY <1>1, <1>2 DEF IInv, Owned, Typed
<1>5. Window(status', cursor) = Window(status, cursor) /\ Prefix(status')
  BY <1>1, <1>2 DEF Window, IInv, Prefix
<1>6. Slots(run', strays', active')
  <2>1. CASE run[i] = "none"
    <3>1. InFlight(run') = InFlight(run)
      BY <1>2, <2>1 DEF InFlight
    <3> QED BY <1>1, <2>1, <3>1 DEF IInv, Slots
  <2>2. CASE run[i] # "none"
    <3>1. Slots([run EXCEPT ![i] = "none"], strays, active - 1)
      BY <2>2, ReturnFreesSlot
    <3>2. active - 1 = Cardinality(InFlight(run')) + strays
      BY <1>1, <3>1 DEF Slots
    <3>3. active - 1 \in Nat /\ active \in Nat /\ strays \in Nat
      BY <2>2, ReturnFreesSlot DEF IInv, Typed, Strayed
    <3>4. Cardinality(InFlight(run')) \in Int
      <4>1. InFlight(run') \in SUBSET Index
        BY DEF InFlight
      <4> QED BY <4>1, IndexFinite, FS_Subset, FS_CardinalityType
    <3>5. active' = Cardinality(InFlight(run')) + strays'
      <4>1. active' = active /\ strays' = strays + 1
        BY <1>1, <2>2
      <4> QED BY <4>1, <3>2, <3>3, <3>4
    <3> QED BY <1>1, <3>5 DEF IInv, Slots
  <2> QED BY <2>1, <2>2
<1>7. Strayed(late', strays', replayed')
  BY <1>1 DEF IInv, Strayed
<1>8. Pinned(status', cursor', disposed', chunkKeys', pins')
  BY <1>1, <1>5 DEF IInv, Pinned
<1>9. disposed' \in BOOLEAN /\ suspended' \in BOOLEAN /\ stored' \subseteq Keys
      /\ evicting' \subseteq Keys /\ overtaken' \subseteq Keys
  BY <1>1 DEF IInv
<1> QED BY <1>3, <1>4, <1>5, <1>6, <1>7, <1>8, <1>9 DEF IInv

(* A stray run holds one slot.                                             *)
LEMMA StrayHoldsSlot ==
  ASSUME IInv, NEW i \in Index, StrayReturns(i)
  PROVE  active - 1 \in Nat /\ strays - 1 \in Nat /\ Slots(run, strays - 1, active - 1)
<1>1. InFlight(run) \in SUBSET Index
  BY DEF InFlight
<1>2. Cardinality(InFlight(run)) \in Nat
  BY <1>1, IndexFinite, FS_Subset, FS_CardinalityType
<1>3. strays > 0 /\ strays \in Nat /\ active \in Nat
  BY DEF StrayReturns, IInv, Strayed, Typed
<1> QED BY <1>2, <1>3, OptionAssumption DEF IInv, Slots

(* A stray run frees the slot it still holds, and says nothing of a chunk  *)
(* but its own.                                                            *)
LEMMA StrayIInv ==
  ASSUME IInv, NEW i \in Index, StrayReturns(i)
  PROVE  IInv'
<1>1. PICK st \in {"pending", "ready", "error", status[i]} :
        /\ waiting' = IF st \in Settled THEN waiting \ {i} ELSE waiting
        /\ Pump([status EXCEPT ![i] = st], run, strays - 1, active - 1, cursor, chunkKeys, pins)
  BY DEF StrayReturns
<1> DEFINE base == [status EXCEPT ![i] = st]
<1>10. Pump(base, run, strays - 1, active - 1, cursor, chunkKeys, pins)
  BY <1>1
<1>2. /\ i \in late /\ strays > 0 /\ timers' \in {timers, timers \cup {i}}
      /\ stored' \subseteq Keys
      /\ UNCHANGED << suspended, disposed, attempts, aborted, cursor, evicting, replayed, late >>
  BY KeyAssumption DEF StrayReturns, flags, errorVars, IInv
<1>3. active - 1 \in Nat /\ strays - 1 \in Nat /\ Slots(run, strays - 1, active - 1)
  BY StrayHoldsSlot
<1>4. \A j \in Index : base[j] = IF j = i THEN st ELSE status[j]
  BY DEF IInv, Typed
<1>5. Typed(base, attempts', waiting', run, aborted', timers', cursor, active - 1, chunkKeys, pins)
  BY <1>1, <1>2, <1>3 DEF IInv, Typed, QueueStatus
<1>6. \A j \in Index : base[j] = "absent" <=> status[j] = "absent"
  BY <1>4, <1>2 DEF IInv, Owned
<1>7. Pinned(base, cursor, disposed, chunkKeys, pins) /\ Prefix(base)
  <2>1. Window(base, cursor) = Window(status, cursor)
    BY <1>6 DEF Window
  <2> HIDE DEF base
  <2> QED BY <1>6, <2>1 DEF IInv, Pinned, Prefix
<1>8. Owned(base, attempts', waiting', run, aborted', timers', late')
  <2> HIDE DEF base
  <2> QED BY <1>1, <1>2, <1>4 DEF IInv, Owned, Typed
<1>9. Strayed(late', strays - 1, replayed')
  BY <1>2, <1>3 DEF IInv, Strayed
<1> HIDE DEF base
<1> QED BY <1>2, <1>3, <1>5, <1>7, <1>8, <1>9, <1>10, PumpKeepsIInv DEF IInv

(* The cache's own steps touch the files only.                             *)
LEMMA CacheIInv ==
  ASSUME IInv, Cache
  PROVE  IInv'
<1>1. /\ UNCHANGED << status, attempts, waiting, timers, run, strays, aborted, cursor,
                      active, suspended, disposed, chunkKeys, pins, replayed, late >>
      /\ stored' \subseteq Keys /\ evicting' \subseteq Keys /\ overtaken' \subseteq Keys
  BY DEF Cache, EvictBegins, RemovalEnds, Clears, NothingButFiles, jobVars, flags,
         errorVars, IInv
<1> QED BY <1>1 DEF IInv, Typed, Owned, Slots, Pinned, Prefix, InFlight, Window, Strayed

(* The only writes to the cache are of this queue's own keys.              *)
LEMMA RunStepStored ==
  ASSUME stored \subseteq Keys, NEW i \in Index, RunStep(i)
  PROVE  stored' \subseteq Keys
  BY KeyAssumption DEF RunStep, GetResolves, SynthResolves, RunCancelled, PutResolves, RunFails,
                       Proceed, cacheVars

(* Every step keeps the invariant.                                         *)
LEMMA NextIInv == IInv /\ [Next]_vars => IInv'
<1> SUFFICES ASSUME IInv, [Next]_vars PROVE IInv'
  OBVIOUS
<1>1. ASSUME NEW n \in 1 .. MaxChunks, AppendChunks(n) PROVE IInv'
  BY <1>1, AppendIInv
<1>2. ASSUME NEW i \in Index, SetCursor(i) \/ WaitFor(i) \/ Retry(i) PROVE IInv'
  BY <1>2, SetCursorIInv, WaitForIInv, RetryIInv
<1>3. CASE CancelAll \/ Dispose
  BY <1>3, CancelIInv
<1>4. ASSUME NEW i \in Index, RunStep(i) PROVE IInv'
  <2>1. stored' \subseteq Keys
    BY <1>4, RunStepStored DEF IInv
  <2>2. CASE \E from, to \in Phases : Proceed(i, from, to)
    BY <2>1, <2>2, ProceedIInv
  <2>3. CASE \E st \in QueueStatus : Returns(i, st)
    BY <2>1, <2>3, ReturnsIInv
  <2> QED BY <1>4, <2>2, <2>3, RunStepCases
<1>5. ASSUME NEW i \in Index, TimerFires(i) PROVE IInv'
  BY <1>5, TimerIInv
<1>6. CASE Player
  BY <1>6, PlayerIInv, LateErrorIInv DEF Player
<1>7. CASE Cache
  BY <1>7, CacheIInv
<1>8. CASE UNCHANGED vars
  BY <1>8 DEF vars, IInv, Typed, Owned, Slots, Pinned, Prefix, InFlight, Window, Strayed
<1>9. ASSUME NEW i \in Index, StrayReturns(i) PROVE IInv'
  BY <1>9, StrayIInv
<1> QED BY <1>1, <1>2, <1>3, <1>4, <1>5, <1>6, <1>7, <1>8, <1>9 DEF Next, Command

(* The invariant holds in every reachable state of the queue.              *)
THEOREM InductiveInvariant == Spec => []IInv
  BY InitIInv, NextIInv, PTL DEF Spec

-----------------------------------------------------------------------------
(* The theorems.                                                           *)

(* What the invariant says in terms of the properties of AudioQueue.       *)
LEMMA IInvImplies ==
  IInv => TypeOK /\ JobBudget /\ OneOwner /\ RetryBudget /\ NoLostWakeup /\ PinsInWindow
<1> SUFFICES ASSUME IInv
             PROVE  TypeOK /\ JobBudget /\ OneOwner /\ RetryBudget /\ NoLostWakeup /\ PinsInWindow
  OBVIOUS
<1>1. TypeOK
  BY DEF IInv, Typed, TypeOK, Strayed
<1>2. JobBudget
  BY DEF IInv, Slots, InFlight, JobBudget, Running
<1>3. OneOwner
  BY DEF IInv, Typed, Owned, OneOwner, Running, Strayed
<1>4. RetryBudget
  BY DEF IInv, Owned, RetryBudget, Running
<1>5. NoLostWakeup
  BY DEF IInv, Owned, NoLostWakeup
<1>6. PinsInWindow
  BY DEF IInv, Pinned, PinsInWindow
<1> QED BY <1>1, <1>2, <1>3, <1>4, <1>5, <1>6

(* The state of the queue is well formed whatever the interleaving.        *)
THEOREM TypeCorrect == Spec => []TypeOK
  BY InductiveInvariant, IInvImplies, PTL

(* Never more jobs in flight than maxConcurrentTtsJobs, and the counter    *)
(* that enforces it is exact.                                              *)
THEOREM JobBudgetHolds == Spec => []JobBudget
  BY InductiveInvariant, IInvImplies, PTL

(* A chunk never has two runs, nor a run and a backoff timer, and no timer *)
(* is armed on a chunk the queue is not generating.                        *)
THEOREM OneOwnerHolds == Spec => []OneOwner
  BY InductiveInvariant, IInvImplies, PTL

(* No chunk is attempted more than maxRetries + 1 times.                   *)
THEOREM RetryBudgetHolds == Spec => []RetryBudget
  BY InductiveInvariant, IInvImplies, PTL

(* Nobody waits on a chunk the queue has finished with.                    *)
THEOREM NoLostWakeupHolds == Spec => []NoLostWakeup
  BY InductiveInvariant, IInvImplies, PTL

(* No pin outlives the window or the queue.                                *)
THEOREM PinsInWindowHolds == Spec => []PinsInWindow
  BY InductiveInvariant, IInvImplies, PTL

(* What a suspended pump can do: nothing.                                  *)
LEMMA SuspendedPump ==
  ASSUME NEW st, NEW rn, NEW sy \in Nat, NEW act \in Nat, NEW c, NEW ck, NEW pn,
         Pump(st, rn, sy, act, c, ck, pn), suspended'
  PROVE  run' = [i \in Index |-> rn[i]] /\ active' = act
<1>1. PICK S : Starts(S, st, rn, sy, act, c, ck, pn)
  BY PumpStarts
<1>2. S = {} /\ Cardinality(S) = 0
  BY <1>1, FS_EmptySet DEF Starts
<1> QED BY <1>1, <1>2 DEF Starts

(* A step that leaves the queue suspended starts no run.                   *)
LEMMA SuspendedStep ==
  ASSUME IInv, [Next]_vars, suspended, suspended'
  PROVE  Running' \subseteq Running /\ active' <= active
<1>0. /\ TypeOK /\ active \in Nat /\ strays \in Nat
      /\ run = [i \in Index |-> run[i]]
  BY IInvImplies DEF TypeOK
<1>1. SUFFICES /\ \A j \in Index : run'[j] # "none" => run[j] # "none"
               /\ active' <= active
  BY DEF Running
<1> DEFINE Quiet == /\ \A j \in Index : run'[j] # "none" => run[j] # "none"
                    /\ active' <= active
<1>2. ASSUME NEW n \in 1 .. MaxChunks, AppendChunks(n) PROVE Quiet
  <2>1. \E st : Pump(st, run, strays, active, cursor, chunkKeys, pins)
    BY <1>2 DEF AppendChunks
  <2> QED BY <1>0, <2>1, SuspendedPump
<1>3. ASSUME NEW i \in Index, SetCursor(i) \/ WaitFor(i) \/ Retry(i) PROVE FALSE
  BY <1>3 DEF SetCursor, WaitFor, Retry
<1>4. CASE CancelAll \/ Dispose \/ Cache \/ UNCHANGED vars
  BY <1>0, <1>4 DEF CancelAll, Dispose, Cache, EvictBegins, RemovalEnds, Clears,
                    NothingButFiles, vars
<1>5. ASSUME NEW i \in Index, RunStep(i) PROVE Quiet
  <2>1. CASE \E from, to \in Phases : Proceed(i, from, to)
    BY <1>0, <2>1 DEF Proceed, Phases, TypeOK
  <2>2. CASE \E st \in QueueStatus : Returns(i, st)
    <3>1. PICK st : Pump(st, [run EXCEPT ![i] = "none"], strays, active - 1, cursor,
                         chunkKeys, pins)
      BY <2>2 DEF Returns, Finish
    <3>2. active - 1 \in Nat
      BY <2>2, ReturnFreesSlot DEF Returns
    <3>3. run' = [m \in Index |-> [run EXCEPT ![i] = "none"][m]] /\ active' = active - 1
      BY <1>0, <3>1, <3>2, SuspendedPump
    <3> QED BY <1>0, <3>3
  <2> QED BY <1>5, <2>1, <2>2, RunStepCases
<1>6. ASSUME NEW i \in Index, TimerFires(i) PROVE Quiet
  BY <1>0, <1>6 DEF TimerFires
<1>7. CASE Player
  BY <1>0, <1>7 DEF Player, PlayerMarks, LateError, TypeOK
<1>8. ASSUME NEW i \in Index, StrayReturns(i) PROVE Quiet
  <2>1. PICK st : Pump(st, run, strays - 1, active - 1, cursor, chunkKeys, pins)
    BY <1>8 DEF StrayReturns
  <2>2. active - 1 \in Nat /\ strays - 1 \in Nat
    BY <1>8, StrayHoldsSlot
  <2>3. run' = [m \in Index |-> run[m]] /\ active' = active - 1
    BY <2>1, <2>2, SuspendedPump
  <2> QED BY <1>0, <2>3
<1> QED BY <1>2, <1>3, <1>4, <1>5, <1>6, <1>7, <1>8 DEF Next, Command

(* After Stop nothing starts by itself, for any number of chunks.          *)
THEOREM CancelledStaysQuietHolds == Spec => CancelledStaysQuiet
<1>1. IInv /\ [Next]_vars =>
        [suspended /\ suspended' => Running' \subseteq Running /\ active' <= active]_vars
  BY SuspendedStep
<1> QED BY <1>1, InductiveInvariant, PTL DEF Spec, CancelledStaysQuiet

(* What a return shows of its chunk, whatever the pump that follows.       *)
LEMMA ReturnedStatus ==
  ASSUME TypeOK, NEW i \in Index, NEW st \in QueueStatus, Finish(i, st)
  PROVE  /\ aborted' = aborted \ {i}
         /\ waiting' = IF st \in Settled THEN waiting \ {i} ELSE waiting
         /\ st = "pending" => status'[i] \in {"pending", "generating"}
         /\ st # "pending" => status'[i] = st
<1> DEFINE base == [status EXCEPT ![i] = st]
           rn == [run EXCEPT ![i] = "none"]
           started == IF suspended' \/ disposed' THEN {} ELSE Startable(base, active - 1, cursor)
<1>1. base[i] = st
  BY DEF TypeOK
<1>2. i \in started => st = "pending"
  BY <1>1 DEF Startable
<1>3. status'[i] = IF i \in started THEN "generating" ELSE st
  BY <1>1 DEF Finish, Pump
<1>4. aborted' = aborted \ {i} /\ waiting' = IF st \in Settled THEN waiting \ {i} ELSE waiting
  BY DEF Finish
<1> HIDE DEF started
<1> QED BY <1>2, <1>3, <1>4

(* The return of an aborted run, seen from its chunk.                      *)
LEMMA CancelStep ==
  ASSUME TypeOK, OneOwner, [Next]_vars, NEW i \in aborted \ aborted'
  PROVE  i \in late' \/ (status'[i] # "error" /\ attempts'[i] = attempts[i])
<1>1. ASSUME NEW j \in Index, RunStep(j)
      PROVE  status'[i] # "error" /\ attempts'[i] = attempts[i]
  <2>1. CASE RunCancelled(j)
    <3>1. Finish(j, "pending") /\ attempts' = attempts
      BY <2>1 DEF RunCancelled, Revert
    <3>2. aborted' = aborted \ {j} /\ status'[j] \in {"pending", "generating"}
      BY <3>1, ReturnedStatus DEF QueueStatus
    <3> QED BY <3>1, <3>2
  <2>2. CASE PutResolves(j)
    <3>1. Finish(j, "ready") /\ attempts' = attempts
      BY <2>2 DEF PutResolves
    <3>2. aborted' = aborted \ {j} /\ status'[j] = "ready"
      BY <3>1, ReturnedStatus DEF QueueStatus
    <3> QED BY <3>1, <3>2
  <2>3. CASE RunFails(j)
    <3>1. j \notin aborted /\ \E st \in QueueStatus : Finish(j, st)
      BY <2>3 DEF RunFails, QueueStatus
    <3>2. aborted' = aborted \ {j}
      BY <3>1, ReturnedStatus
    <3> QED BY <3>1, <3>2
  <2>4. CASE GetResolves(j) \/ SynthResolves(j)
    BY <2>4 DEF GetResolves, SynthResolves, Proceed
  <2> QED BY <1>1, <2>1, <2>2, <2>3, <2>4 DEF RunStep
<1>2. CASE CancelAll \/ Dispose
  BY <1>2 DEF CancelAll, Dispose, CancelJobs, OneOwner
<1>3. CASE \/ \E n \in 1 .. MaxChunks : AppendChunks(n)
           \/ \E j \in Index : \/ SetCursor(j) \/ WaitFor(j) \/ Retry(j)
                               \/ TimerFires(j) \/ StrayReturns(j)
           \/ Cache \/ UNCHANGED vars
  <2>1. aborted' = aborted
    BY <1>3 DEF AppendChunks, SetCursor, WaitFor, Retry, TimerFires, StrayReturns,
                Cache, EvictBegins, RemovalEnds, Clears, NothingButFiles, vars
  <2> QED BY <2>1
<1>4. CASE Player
  BY <1>4 DEF Player, PlayerMarks, LateError
<1> QED BY <1>1, <1>2, <1>3, <1>4 DEF Next, Command

(* A cancel is never charged as a failure.                                 *)
THEOREM CancelIsNotFailureHolds == Spec => CancelIsNotFailure
<1>1. TypeOK /\ OneOwner /\ [Next]_vars =>
        [\A i \in aborted \ aborted' :
           i \in late' \/ (status'[i] # "error" /\ attempts'[i] = attempts[i])]_vars
  BY CancelStep
<1> QED BY <1>1, TypeCorrect, OneOwnerHolds, PTL DEF Spec, CancelIsNotFailure

(* What takes a waiter away is a cancel, a retry or a settled chunk.       *)
LEMMA AnswerStep ==
  ASSUME TypeOK, NoLostWakeup, [Next]_vars, NEW i \in waiting \ waiting'
  PROVE  status'[i] \in Settled \/ suspended' \/ i \in late
<1>1. ASSUME NEW j \in Index, RunStep(j)
      PROVE  status'[i] \in Settled
  <2>1. CASE \E from, to \in Phases : Proceed(j, from, to)
    BY <2>1 DEF Proceed, jobVars
  <2>2. CASE \E st \in QueueStatus : Returns(j, st)
    <3>1. PICK st \in QueueStatus : Finish(j, st)
      BY <2>2 DEF Returns
    <3>2. /\ waiting' = IF st \in Settled THEN waiting \ {j} ELSE waiting
          /\ st # "pending" => status'[j] = st
      BY <3>1, ReturnedStatus
    <3> QED BY <3>2 DEF Settled
  <2> QED BY <1>1, <2>1, <2>2, RunStepCases
<1>2. CASE CancelAll \/ Dispose
  BY <1>2 DEF CancelAll, Dispose, CancelJobs
<1>3. ASSUME NEW j \in Index, Retry(j)
      PROVE  i \in late
  BY <1>3 DEF Retry, NoLostWakeup
<1>4. CASE \/ \E n \in 1 .. MaxChunks : AppendChunks(n)
           \/ \E j \in Index : SetCursor(j) \/ WaitFor(j) \/ TimerFires(j)
           \/ Player \/ Cache \/ UNCHANGED vars
  BY <1>4 DEF AppendChunks, SetCursor, WaitFor, TimerFires, Player, PlayerMarks, LateError,
              Cache, EvictBegins, RemovalEnds, Clears, NothingButFiles, vars, jobVars
<1>5. ASSUME NEW j \in Index, StrayReturns(j)
      PROVE  i \in late
  BY <1>5 DEF StrayReturns
<1> QED BY <1>1, <1>2, <1>3, <1>4, <1>5 DEF Next, Command

(* A promise of waitFor() resolves with a settled chunk or a cancel.       *)
THEOREM WaitAnsweredHolds == Spec => WaitAnswered
<1>1. TypeOK /\ NoLostWakeup /\ [Next]_vars =>
        [\A i \in waiting \ waiting' :
           status'[i] \in Settled \/ suspended' \/ i \in late]_vars
  BY AnswerStep
<1> QED BY <1>1, TypeCorrect, NoLostWakeupHolds, PTL DEF Spec, WaitAnswered

-----------------------------------------------------------------------------
(* Pinning, when every chunk has a key of its own.                         *)

OwnKeys == \A i, j \in Index : KeyOf[i] = KeyOf[j] => i = j

Playable == PlayerStatus \cup {"ready"}

(* What the player may still play, or play again.                          *)
Heard(x, tries) == x \in Playable \/ (x = "error" /\ tries <= maxRetries)

(* A key that is pinned while its file is being removed was pinned late.   *)
Kept ==
  /\ pins = KeysOf(chunkKeys)
  /\ evicting \cap pins \subseteq overtaken
  /\ \A i \in chunkKeys \ late :
       Heard(status[i], attempts[i]) => KeyOf[i] \in stored \cup overtaken

(* A pump tracks no settled chunk, and notes the removals it is too late   *)
(* for.                                                                    *)
LEMMA PumpKeepsKept ==
  ASSUME OwnKeys, NEW st, NEW rn, NEW sy \in Nat, NEW act \in Nat, NEW c,
         NEW ck \in SUBSET Index, NEW pn,
         Pump(st, rn, sy, act, c, ck, pn), pn = KeysOf(ck),
         evicting' = evicting, evicting \cap pn \subseteq overtaken,
         \A i \in ck \ late' : Heard(st[i], attempts'[i]) => KeyOf[i] \in stored' \cup overtaken
  PROVE  Kept'
<1>1. PICK S : Starts(S, st, rn, sy, act, c, ck, pn)
  BY PumpStarts
<1>2. pins' = KeysOf(chunkKeys') /\ pins' = pn \cup KeysOf(S) /\ S \subseteq Index
  BY <1>1 DEF Starts, KeysOf, Candidates, Window
<1>3. ASSUME NEW i \in chunkKeys' \ late', Heard(status'[i], attempts'[i])
      PROVE  KeyOf[i] \in stored' \cup overtaken'
  <2>1. i \notin S
    BY <1>1, <1>3 DEF Starts, Candidates, Window, Heard, Playable, PlayerStatus
  <2>2. i \in ck /\ status'[i] = st[i]
    BY <1>1, <2>1 DEF Starts
  <2>3. KeyOf[i] \notin KeysOf(S)
    BY <1>2, <2>1, <2>2 DEF OwnKeys, KeysOf
  <2>4. KeyOf[i] \in overtaken => KeyOf[i] \in overtaken'
    BY <1>1, <2>3 DEF Starts
  <2> QED BY <1>3, <2>2, <2>4
<1>4. evicting' \cap pins' \subseteq overtaken'
  BY <1>1, <1>2 DEF Starts
<1> QED BY <1>2, <1>3, <1>4 DEF Kept

(* Every step keeps the audio of the tracked chunks that are ready.        *)
LEMMA KeptStep ==
  ASSUME OwnKeys, IInv, Kept, [Next]_vars
  PROVE  Kept'
<1>0. /\ TypeOK /\ active \in Nat /\ strays \in Nat /\ chunkKeys \in SUBSET Index
      /\ pins = KeysOf(chunkKeys) /\ evicting \cap pins \subseteq overtaken
      /\ \A i \in chunkKeys \ late :
           Heard(status[i], attempts[i]) => KeyOf[i] \in stored \cup overtaken
  BY IInvImplies DEF Kept, TypeOK
<1>1. ASSUME NEW n \in 1 .. MaxChunks, AppendChunks(n) PROVE Kept'
  <2> DEFINE len == Cardinality({i \in Index : Present(i)})
             st == [i \in Index |-> IF i \in len .. len + n - 1 THEN "pending" ELSE status[i]]
  <2>1. /\ Pump(st, run, strays, active, cursor, chunkKeys, pins)
        /\ UNCHANGED << stored, attempts, evicting, late >>
    BY <1>1 DEF AppendChunks, jobVars, errorVars
  <2>2. \A i \in chunkKeys \ late' :
          Heard(st[i], attempts'[i]) => KeyOf[i] \in stored' \cup overtaken
    BY <1>0, <2>1 DEF Heard, Playable, PlayerStatus
  <2> HIDE DEF st
  <2> QED BY <1>0, <2>1, <2>2, PumpKeepsKept
<1>2. ASSUME NEW i \in Index, SetCursor(i) PROVE Kept'
  <2> DEFINE ck == chunkKeys \ OutOfWindow(i)
             pn == pins \ KeysOf(OutOfWindow(i))
  <2>1. /\ Pump(status, run, strays, active, i, ck, pn)
        /\ UNCHANGED << stored, attempts, evicting, late >>
    BY <1>2 DEF SetCursor, jobVars, errorVars
  <2>2. pn = KeysOf(ck) /\ pn \subseteq pins
    BY <1>0 DEF KeysOf, OutOfWindow, OwnKeys
  <2>3. /\ ck \in SUBSET Index
        /\ \A j \in ck \ late' :
             Heard(status[j], attempts'[j]) => KeyOf[j] \in stored' \cup overtaken
    BY <1>0, <2>1
  <2> HIDE DEF ck, pn
  <2> QED BY <1>0, <2>1, <2>2, <2>3, PumpKeepsKept
<1>3. ASSUME NEW i \in Index, WaitFor(i) PROVE Kept'
  <2>1. /\ Pump(status, run, strays, active, cursor, chunkKeys, pins)
        /\ UNCHANGED << stored, attempts, evicting, late >>
    BY <1>3 DEF WaitFor, errorVars
  <2> QED BY <1>0, <2>1, PumpKeepsKept
<1>4. ASSUME NEW i \in Index, Retry(i) \/ TimerFires(i) PROVE Kept'
  <2> DEFINE st == [status EXCEPT ![i] = "pending"]
  <2>1. /\ UNCHANGED << stored, evicting, late >>
        /\ \A j \in Index : j # i => attempts'[j] = attempts[j]
    BY <1>0, <1>4 DEF Retry, TimerFires, TypeOK, errorVars
  <2>2. CASE UNCHANGED << status, attempts, chunkKeys, pins, overtaken >>
    BY <1>0, <2>1, <2>2 DEF Kept, KeysOf
  <2>3. CASE Pump(st, run, strays, active, cursor, chunkKeys, pins)
    <3>1. \A j \in chunkKeys \ late' :
            Heard(st[j], attempts'[j]) => KeyOf[j] \in stored' \cup overtaken
      BY <1>0, <2>1 DEF Heard, Playable, PlayerStatus, TypeOK
    <3> HIDE DEF st
    <3> QED BY <1>0, <2>1, <2>3, <3>1, PumpKeepsKept
  <2> QED BY <1>4, <2>2, <2>3 DEF Retry, TimerFires
<1>5. CASE CancelAll \/ Dispose
  BY <1>0, <1>5 DEF CancelAll, Dispose, Kept, KeysOf, cacheVars, errorVars
<1>6. ASSUME NEW i \in Index, RunStep(i) PROVE Kept'
  <2>1. stored \subseteq stored'
    BY <1>6 DEF RunStep, GetResolves, SynthResolves, RunCancelled, PutResolves, RunFails,
                Proceed, cacheVars
  <2>2. CASE \E from, to \in Phases : Proceed(i, from, to)
    BY <1>0, <2>1, <2>2 DEF Proceed, jobVars, cacheVars, errorVars, Kept, KeysOf
  <2>3. ASSUME NEW st \in QueueStatus, Returns(i, st), st = "ready" => KeyOf[i] \in stored'
        PROVE  Kept'
    <3> DEFINE base == [status EXCEPT ![i] = st]
               rn == [run EXCEPT ![i] = "none"]
    <3>1. /\ Pump(base, rn, strays, active - 1, cursor, chunkKeys, pins) /\ run[i] # "none"
          /\ UNCHANGED << evicting, late >>
      BY <2>3 DEF Returns, Finish, errorVars
    <3>2. active - 1 \in Nat
      BY <3>1, ReturnFreesSlot
    <3>3. /\ \A j \in Index : j # i => attempts'[j] = attempts[j]
          /\ st = "error" => attempts'[i] > maxRetries
      BY <1>0, <2>3, OptionAssumption DEF Returns, TypeOK
    <3>4. \A j \in chunkKeys \ late' :
            Heard(base[j], attempts'[j]) => KeyOf[j] \in stored' \cup overtaken
      <4> SUFFICES ASSUME NEW j \in chunkKeys \ late', Heard(base[j], attempts'[j])
                   PROVE  KeyOf[j] \in stored' \cup overtaken
        OBVIOUS
      <4>1. CASE j = i
        <5>1. base[j] = st
          BY <1>0, <4>1 DEF TypeOK
        <5>2. st \notin PlayerStatus /\ st # "error"
          <6>1. st = "error" => attempts'[j] > maxRetries /\ attempts'[j] \in Int
            BY <1>0, <2>3, <3>3, <4>1 DEF Returns, TypeOK
          <6> QED BY <2>3, <5>1, <6>1, OptionAssumption DEF Heard, Playable, PlayerStatus, QueueStatus
        <5> QED BY <2>3, <4>1, <5>1, <5>2 DEF Heard, Playable
      <4>2. CASE j # i
        BY <1>0, <2>1, <3>1, <3>3, <4>2 DEF TypeOK
      <4> QED BY <4>1, <4>2
    <3> HIDE DEF base, rn
    <3> QED BY <1>0, <3>1, <3>2, <3>4, PumpKeepsKept
  <2>4. ASSUME NEW st \in QueueStatus, Returns(i, st), KeyOf[i] \notin stored'
        PROVE  st # "ready"
    <3>1. ~ PutResolves(i)
      BY <2>4 DEF PutResolves
    <3>2. CASE RunCancelled(i)
      <4>1. Finish(i, "pending")
        BY <3>2 DEF RunCancelled, Revert
      <4> QED BY <2>4, <4>1, ReturnedStatus, <1>0 DEF Returns, QueueStatus
    <3>3. CASE RunFails(i)
      <4>1. PICK sf \in {"error", "pending", "generating"} : Finish(i, sf)
        BY <3>3 DEF RunFails
      <4> QED BY <2>4, <4>1, ReturnedStatus, <1>0 DEF Returns, QueueStatus
    <3>4. CASE GetResolves(i) \/ SynthResolves(i)
      <4>1. UNCHANGED status
        BY <3>4 DEF GetResolves, SynthResolves, Proceed
      <4>2. ASSUME st = "ready" PROVE FALSE
        <5>1. status'[i] = "ready"
          BY <2>4, <4>2, ReturnedStatus, <1>0 DEF Returns, QueueStatus
        <5>2. status[i] = "generating"
          BY <2>4 DEF Returns, IInv, Owned
        <5> QED BY <4>1, <5>1, <5>2
      <4> QED BY <4>2
    <3> QED BY <1>6, <3>1, <3>2, <3>3, <3>4 DEF RunStep
  <2> QED BY <1>6, <2>2, <2>3, <2>4, RunStepCases
<1>7. ASSUME NEW i \in Index, NEW st \in PlayerStatus \cup {"error"}, PlayerMarks(i, st)
      PROVE  Kept'
  <2>1. /\ i \in late \/ Heard(status[i], attempts[i])
        /\ UNCHANGED << attempts, chunkKeys, pins, stored, evicting, overtaken, late >>
        /\ \A j \in Index : j # i => status'[j] = status[j]
    BY <1>0, <1>7 DEF PlayerMarks, Audible, jobVars, cacheVars, errorVars, Heard, Playable,
                      TypeOK
  <2> QED BY <1>0, <2>1 DEF Kept, KeysOf
<1>8. ASSUME NEW i \in Index, LateError(i) PROVE Kept'
  <2>1. /\ UNCHANGED << attempts, chunkKeys, pins, stored, evicting, overtaken >>
        /\ late' = late \cup {i} /\ \A j \in Index : j # i => status'[j] = status[j]
    BY <1>0, <1>8 DEF LateError, jobVars, cacheVars, TypeOK
  <2> QED BY <1>0, <2>1 DEF Kept, KeysOf
<1>9. ASSUME NEW i \in Index, StrayReturns(i) PROVE Kept'
  <2>1. PICK st : Pump([status EXCEPT ![i] = st], run, strays - 1, active - 1, cursor,
                       chunkKeys, pins)
    BY <1>9 DEF StrayReturns
  <2> DEFINE base == [status EXCEPT ![i] = st]
  <2>2. /\ UNCHANGED << attempts, evicting, late >> /\ stored \subseteq stored' /\ i \in late
        /\ Pump(base, run, strays - 1, active - 1, cursor, chunkKeys, pins)
    BY <1>9, <2>1 DEF StrayReturns, errorVars
  <2>3. active - 1 \in Nat /\ strays - 1 \in Nat
    BY <1>9, StrayHoldsSlot
  <2>4. \A j \in chunkKeys \ late' :
          Heard(base[j], attempts'[j]) => KeyOf[j] \in stored' \cup overtaken
    BY <1>0, <2>2 DEF TypeOK
  <2> HIDE DEF base
  <2> QED BY <1>0, <2>2, <2>3, <2>4, PumpKeepsKept
<1>10. ASSUME NEW k \in Keys, EvictBegins(k) \/ RemovalEnds(k) \/ Clears(k) PROVE Kept'
  <2>1. UNCHANGED << status, attempts, chunkKeys, pins, late >>
    BY <1>10 DEF EvictBegins, RemovalEnds, Clears, NothingButFiles, jobVars, errorVars
  <2>2. \A i \in chunkKeys : KeyOf[i] \in pins
    BY <1>0 DEF KeysOf
  <2>3. CASE EvictBegins(k)
    BY <1>0, <2>1, <2>3 DEF EvictBegins, Kept, KeysOf
  <2>4. CASE RemovalEnds(k)
    BY <1>0, <2>1, <2>2, <2>4 DEF RemovalEnds, Kept, KeysOf
  <2>5. CASE Clears(k)
    BY <1>0, <2>1, <2>5 DEF Clears, Kept, KeysOf
  <2> QED BY <1>10, <2>3, <2>4, <2>5
<1>11. CASE UNCHANGED vars
  BY <1>0, <1>11 DEF vars, Kept, KeysOf
<1> QED BY <1>1, <1>2, <1>3, <1>4, <1>5, <1>6, <1>7, <1>8, <1>9, <1>10, <1>11
        DEF Next, Command, Player, Cache

(* The audio of a chunk that has not left the window since its run started *)
(* survives every eviction that had not begun before its pin, provided no  *)
(* two chunks share a key, no late error hit it and the cache is not       *)
(* cleared.                                                                *)
THEOREM TrackedAudioKeptHolds ==
  ASSUME OwnKeys
  PROVE  Spec => []TrackedAudioKept
<1>1. Init => Kept
  BY DEF Init, Kept, KeysOf
<1>2. IInv /\ Kept /\ [Next]_vars => Kept'
  BY KeptStep
<1>3. Kept => TrackedAudioKept
  BY DEF Kept, TrackedAudioKept, Heard, Playable
<1> QED BY <1>1, <1>2, <1>3, InductiveInvariant, PTL DEF Spec

(* A pump sends nobody to the provider, nor does a return.                 *)
LEMMA PumpNoSynth ==
  ASSUME NEW st, NEW rn, NEW sy, NEW act, NEW c, NEW ck, NEW pn, Pump(st, rn, sy, act, c, ck, pn),
         NEW j \in Index, run'[j] = "synth"
  PROVE  rn[j] = "synth"
BY DEF Pump

(* A run is at the provider since before the step, or just missed the      *)
(* cache.                                                                  *)
LEMMA SynthSince ==
  ASSUME IInv, [Next]_vars, NEW j \in Index, run'[j] = "synth"
  PROVE  run[j] = "synth" \/ (GetResolves(j) /\ KeyOf[j] \notin stored)
<1>0. run \in [Index -> Phases \cup {"none"}]
  BY DEF IInv, Typed
<1>1. ASSUME NEW n \in 1 .. MaxChunks, AppendChunks(n) PROVE run[j] = "synth"
  BY <1>1, PumpNoSynth DEF AppendChunks
<1>2. ASSUME NEW i \in Index, SetCursor(i) \/ WaitFor(i) \/ Retry(i) PROVE run[j] = "synth"
  BY <1>2, PumpNoSynth DEF SetCursor, WaitFor, Retry
<1>3. ASSUME NEW i \in Index, TimerFires(i) PROVE run[j] = "synth"
  <2>1. CASE suspended \/ disposed
    BY <1>3, <2>1 DEF TimerFires
  <2>2. CASE ~ (suspended \/ disposed)
    BY <1>3, <2>2, PumpNoSynth DEF TimerFires
  <2> QED BY <2>1, <2>2
<1>4. ASSUME NEW i \in Index, RunStep(i)
      PROVE  run[j] = "synth" \/ (GetResolves(j) /\ KeyOf[j] \notin stored)
  <2>1. CASE GetResolves(i)
    <3>1. run' = [run EXCEPT ![i] = IF KeyOf[i] \in stored THEN "put" ELSE "synth"]
      BY <2>1 DEF GetResolves, Proceed
    <3>2. j # i => run[j] = "synth"
      BY <1>0, <3>1
    <3>3. j = i => KeyOf[j] \notin stored
      BY <1>0, <3>1
    <3> QED BY <2>1, <3>2, <3>3
  <2>2. CASE SynthResolves(i)
    BY <1>0, <2>2 DEF SynthResolves, Proceed
  <2>3. CASE RunCancelled(i) \/ PutResolves(i) \/ RunFails(i)
    <3>1. \E st \in QueueStatus : Finish(i, st)
      BY <2>3 DEF RunCancelled, Revert, PutResolves, RunFails, QueueStatus
    <3>2. [run EXCEPT ![i] = "none"][j] = "synth"
      BY <3>1, PumpNoSynth DEF Finish
    <3> QED BY <1>0, <3>2
  <2> QED BY <1>4, <2>1, <2>2, <2>3 DEF RunStep
<1>5. CASE CancelAll \/ Dispose \/ Player \/ Cache \/ UNCHANGED vars
  BY <1>0, <1>5 DEF CancelAll, Dispose, Player, PlayerMarks, LateError, Cache, EvictBegins, RemovalEnds, Clears, NothingButFiles, vars
<1>6. ASSUME NEW i \in Index, StrayReturns(i) PROVE run[j] = "synth"
  BY <1>6, PumpNoSynth DEF StrayReturns
<1> QED BY <1>1, <1>2, <1>3, <1>4, <1>5, <1>6 DEF Next, Command

(* What a step adds to the cache was being written, by a run of its chunk  *)
(* or by a stray one.                                                      *)
LEMMA StoredSince ==
  ASSUME [Next]_vars, NEW k \in stored', k \notin stored
  PROVE  \E i \in Index : /\ k = KeyOf[i]
                         /\ \/ run[i] = "put" /\ RunStep(i)
                            \/ StrayReturns(i)
<1>1. CASE Command \/ Player \/ UNCHANGED vars \/ \E i \in Index : TimerFires(i)
  BY <1>1 DEF Command, AppendChunks, SetCursor, WaitFor, Retry, CancelAll, Dispose, Player,
              PlayerMarks, LateError, TimerFires, cacheVars, vars
<1>2. ASSUME NEW i \in Index, RunStep(i) PROVE run[i] = "put" /\ k = KeyOf[i]
  BY <1>2 DEF RunStep, GetResolves, SynthResolves, RunCancelled, PutResolves, RunFails,
              Proceed, cacheVars
<1>3. ASSUME NEW i \in Index, StrayReturns(i) PROVE k = KeyOf[i]
  BY <1>3 DEF StrayReturns
<1>4. CASE Cache
  BY <1>4 DEF Cache, EvictBegins, RemovalEnds, Clears
<1> QED BY <1>1, <1>2, <1>3, <1>4 DEF Next

(* With a budget of one job, at most one run is in flight.                 *)
LEMMA OneRun ==
  ASSUME IInv, maxConcurrentTtsJobs = 1, NEW i \in Running, NEW j \in Running
  PROVE  i = j
<1>1. IsFiniteSet(Index)
  BY FS_Interval, SizeAssumption DEF Index
<1>2. IsFiniteSet(Running) /\ Cardinality(Running) \in Nat
  BY <1>1, FS_Subset, FS_CardinalityType DEF Running
<1>3. Cardinality(Running) <= 1
  BY <1>2 DEF IInv, Slots, Strayed, InFlight, Running
<1> SUFFICES ASSUME i # j PROVE FALSE
  OBVIOUS
<1>4. {i} \cup {j} \subseteq Running
  OBVIOUS
<1>5. Cardinality({i} \cup {j}) = 2
  <2>1. IsFiniteSet({i}) /\ Cardinality({i}) = 1
    BY FS_Singleton
  <2>2. j \notin {i}
    OBVIOUS
  <2> QED BY <2>1, <2>2, FS_AddElement
<1>6. Cardinality({i} \cup {j}) <= Cardinality(Running)
  BY <1>2, <1>4, FS_Subset
<1> QED BY <1>2, <1>3, <1>5, <1>6

(* ... and none while another is astray.                                   *)
LEMMA NoRunBesideAStray ==
  ASSUME IInv, maxConcurrentTtsJobs = 1, strays > 0
  PROVE  Running = {}
<1>1. Running \in SUBSET Index
  BY DEF Running
<1>2. IsFiniteSet(Running) /\ Cardinality(Running) \in Nat
  BY <1>1, IndexFinite, FS_Subset, FS_CardinalityType
<1>3. Cardinality(Running) = 0
  BY <1>2 DEF IInv, Slots, Strayed, InFlight, Running
<1> QED BY <1>2, <1>3, FS_EmptySet

(* Cache first: however runs, retries and evictions interleave, nothing is *)
(* synthesised whose audio is there already, provided no two chunks share  *)
(* a key or there is one job at a time, as by default (AudioQueue.run).    *)
THEOREM NoSecondSynthesisHolds ==
  ASSUME OwnKeys \/ maxConcurrentTtsJobs = 1
  PROVE  Spec => []NoSecondSynthesis
<1>1. Init => NoSecondSynthesis
  BY DEF Init, NoSecondSynthesis
<1>2. ASSUME IInv, NoSecondSynthesis, [Next]_vars PROVE NoSecondSynthesis'
  <2> SUFFICES ASSUME NEW j \in Index, run'[j] = "synth", KeyOf[j] \in stored' PROVE FALSE
    BY DEF NoSecondSynthesis
  <2>1. run[j] = "synth" \/ (GetResolves(j) /\ KeyOf[j] \notin stored)
    BY <1>2, SynthSince
  <2>2. KeyOf[j] \notin stored
    BY <1>2, <2>1 DEF NoSecondSynthesis
  <2>3. PICK i \in Index : /\ KeyOf[j] = KeyOf[i]
                          /\ \/ run[i] = "put" /\ RunStep(i)
                             \/ StrayReturns(i)
    BY <1>2, <2>2, StoredSince
  <2>4. run[j] = "get" \/ run[j] = "synth"
    BY <2>1 DEF GetResolves, Proceed
  <2>5. i = j
    <3>1. CASE OwnKeys
      <4>1. KeyOf[j] = KeyOf[i]
        BY <2>3
      <4> QED BY <3>1, <4>1 DEF OwnKeys
    <3>2. CASE maxConcurrentTtsJobs = 1
      <4>1. j \in Running
        BY <2>4 DEF Running
      <4>2. strays > 0 => FALSE
        BY <1>2, <3>2, <4>1, NoRunBesideAStray
      <4>3. i \in Running
        BY <2>3, <4>2 DEF Running, StrayReturns
      <4> QED BY <1>2, <3>2, <4>1, <4>3, OneRun
    <3> QED BY <3>1, <3>2
  <2>6. ~ StrayReturns(i)
    BY <1>2, <2>4, <2>5 DEF StrayReturns, IInv, Owned
  <2> QED BY <2>3, <2>4, <2>5, <2>6
<1>3. IInv /\ NoSecondSynthesis /\ [Next]_vars => NoSecondSynthesis'
  BY <1>2
<1> QED BY <1>1, <1>3, InductiveInvariant, PTL DEF Spec

-----------------------------------------------------------------------------
(* AudioQueue implements SynthesisQueue.                                   *)

(* A queue that does not work has aborted every run still in flight: what  *)
(* comes back to it cannot fail.                                           *)
QuietRuns == suspended \/ disposed => \A i \in Index : run[i] # "none" => i \in aborted

(* A pump starts no run on a queue that does not work.                     *)
LEMMA QuietPump ==
  ASSUME NEW st, NEW rn, NEW sy \in Nat, NEW act \in Nat, NEW c, NEW ck, NEW pn,
         Pump(st, rn, sy, act, c, ck, pn),
         suspended' \/ disposed' => \A i \in Index : rn[i] # "none" => i \in aborted'
  PROVE  QuietRuns'
<1>1. PICK S : Starts(S, st, rn, sy, act, c, ck, pn)
  BY PumpStarts
<1>2. suspended' \/ disposed' => run' = [i \in Index |-> rn[i]]
  BY <1>1 DEF Starts
<1> QED
  BY <1>2 DEF QuietRuns

(* An aborted run stays aborted until it returns, and no run starts while  *)
(* the queue does not work.                                                *)
LEMMA QuietStep == IInv /\ QuietRuns /\ [Next]_vars => QuietRuns'
<1> SUFFICES ASSUME IInv, QuietRuns, [Next]_vars PROVE QuietRuns'
  OBVIOUS
<1>0. active \in Nat /\ strays \in Nat /\ run \in [Index -> Phases \cup {"none"}]
  BY DEF IInv, Typed, Strayed
<1>1. CASE UNCHANGED vars
  BY <1>1 DEF vars, QuietRuns
<1>2. ASSUME NEW n \in 1 .. MaxChunks, AppendChunks(n) PROVE QuietRuns'
  <2>1. UNCHANGED << suspended, disposed, aborted >>
    BY <1>2 DEF AppendChunks, flags
  <2> QED BY <1>0, <1>2, <2>1, QuietPump DEF AppendChunks, QuietRuns
<1>3. ASSUME NEW i \in Index, SetCursor(i) \/ WaitFor(i) \/ Retry(i) PROVE QuietRuns'
  <2>1. ~ suspended' /\ UNCHANGED << disposed, aborted >>
    BY <1>3 DEF SetCursor, WaitFor, Retry
  <2>2. PICK st, c, ck, pn : Pump(st, run, strays, active, c, ck, pn)
    BY <1>3 DEF SetCursor, WaitFor, Retry
  <2> QED BY <1>0, <2>1, <2>2, QuietPump DEF QuietRuns
<1>4. CASE CancelAll \/ Dispose
  BY <1>4 DEF CancelAll, Dispose, CancelJobs, QuietRuns, Running
<1>5. ASSUME NEW i \in Index, RunStep(i) PROVE QuietRuns'
  <2>1. CASE \E from, to \in Phases : Proceed(i, from, to)
    BY <1>0, <2>1 DEF Proceed, flags, QuietRuns, Phases
  <2>2. CASE \E st \in QueueStatus : Returns(i, st)
    <3>1. PICK st \in QueueStatus : Returns(i, st)
      BY <2>2
    <3>2. /\ UNCHANGED << suspended, disposed >> /\ aborted' = aborted \ {i}
          /\ Pump([status EXCEPT ![i] = st], [run EXCEPT ![i] = "none"], strays, active - 1,
                  cursor, chunkKeys, pins)
      BY <3>1 DEF Returns, Finish, flags
    <3>3. active - 1 \in Nat
      BY <3>1, ReturnFreesSlot DEF Returns
    <3>4. \A j \in Index : [run EXCEPT ![i] = "none"][j] # "none" => run[j] # "none" /\ j # i
      BY <1>0
    <3>5. suspended' \/ disposed' =>
            \A j \in Index : [run EXCEPT ![i] = "none"][j] # "none" => j \in aborted'
      BY <3>2, <3>4 DEF QuietRuns
    <3> HIDE DEF QuietRuns
    <3> QED BY <1>0, <3>2, <3>3, <3>5, QuietPump
  <2> QED BY <1>5, <2>1, <2>2, RunStepCases
<1>6. ASSUME NEW i \in Index, TimerFires(i) PROVE QuietRuns'
  <2>1. UNCHANGED << suspended, disposed, aborted >>
    BY <1>6 DEF TimerFires, flags
  <2>2. CASE UNCHANGED run
    BY <2>1, <2>2 DEF QuietRuns
  <2>3. CASE \E st : Pump(st, run, strays, active, cursor, chunkKeys, pins)
    BY <1>0, <2>1, <2>3, QuietPump DEF QuietRuns
  <2> QED BY <1>6, <2>2, <2>3 DEF TimerFires
<1>7. CASE Player
  BY <1>0, <1>7 DEF Player, PlayerMarks, LateError, flags, QuietRuns
<1>8. CASE Cache
  BY <1>8 DEF Cache, EvictBegins, RemovalEnds, Clears, NothingButFiles, flags, QuietRuns
<1>9. ASSUME NEW i \in Index, StrayReturns(i) PROVE QuietRuns'
  <2>1. UNCHANGED << suspended, disposed, aborted >>
    BY <1>9 DEF StrayReturns, flags
  <2>2. PICK st : Pump(st, run, strays - 1, active - 1, cursor, chunkKeys, pins)
    BY <1>9 DEF StrayReturns
  <2>3. active - 1 \in Nat /\ strays - 1 \in Nat
    BY <1>9, StrayHoldsSlot
  <2> QED BY <2>1, <2>2, <2>3, QuietPump DEF QuietRuns
<1> QED BY <1>1, <1>2, <1>3, <1>4, <1>5, <1>6, <1>7, <1>8, <1>9 DEF Next, Command

-----------------------------------------------------------------------------
(* The view of the state and of the next one.                              *)

Seen == [status |-> SeenStatus(status, late), waiting |-> waiting \ late,
         suspended |-> suspended, disposed |-> disposed]

(* A pump cannot be seen from outside.                                     *)
LEMMA PumpUnseen ==
  ASSUME NEW st, NEW rn, NEW sy \in Nat, NEW act \in Nat, NEW c, NEW ck, NEW pn,
         Pump(st, rn, sy, act, c, ck, pn)
  PROVE  SeenStatus(status', late') = SeenStatus(st, late')
<1>1. PICK S : Starts(S, st, rn, sy, act, c, ck, pn)
  BY PumpStarts
<1>2. \A i \in Index : ViewOf(status'[i]) = ViewOf(st[i])
  BY <1>1 DEF Starts, Candidates, Window, ViewOf
<1> QED BY <1>2 DEF SeenStatus

(* The view counts the chunks the queue has.                               *)
LEMMA SeenLength ==
  ASSUME IInv
  PROVE  Promise!Length(Seen) = Cardinality({i \in Index : Present(i)})
<1>1. \A i \in Index : Seen.status[i] # "absent" <=> Present(i)
  BY DEF Seen, SeenStatus, ViewOf, Present, IInv, Owned
<1>2. Promise!Index = Index
  BY DEF Promise!Index, Index
<1>3. {i \in Promise!Index : Seen.status[i] # "absent"} = {i \in Index : Present(i)}
  BY <1>1, <1>2
<1>4. \A S : Promise!Cardinality(S) = Cardinality(S)
  BY DEF Promise!Cardinality, Cardinality
<1> QED BY <1>3, <1>4 DEF Promise!Length

(* A fresh queue is a fresh view.                                          *)
LEMMA InitMaps == Init => \E n \in 0 .. MaxChunks : Seen = Promise!Fresh(n)
<1> SUFFICES ASSUME Init PROVE \E n \in 0 .. MaxChunks : Seen = Promise!Fresh(n)
  OBVIOUS
<1>1. PICK n \in 0 .. MaxChunks :
        status = [i \in Index |-> IF i < n THEN "pending" ELSE "absent"]
  BY DEF Init
<1>2. SeenStatus(status, late) = [i \in Index |-> IF i < n THEN "pending" ELSE "absent"]
  BY <1>1 DEF Init, SeenStatus, ViewOf
<1>3. Seen = Promise!Fresh(n)
  BY <1>2 DEF Init, Seen, Promise!Fresh, Promise!Index, Index
<1> QED BY <1>3

(* q is the view with these four parts.                                    *)
ViewIs(q, st, wt, su, di) ==
  /\ q = [f \in {"status", "waiting", "suspended", "disposed"} |-> q[f]]
  /\ q.status = st /\ q.waiting = wt /\ q.suspended = su /\ q.disposed = di

(* A view is its four parts.                                               *)
LEMMA SameView ==
  ASSUME NEW p, NEW q, NEW st, NEW wt, NEW su, NEW di,
         ViewIs(p, st, wt, su, di), ViewIs(q, st, wt, su, di)
  PROVE  p = q
  BY DEF ViewIs

(* The four parts of the view of the queue.                                *)
LEMMA SeenIs ==
  /\ ViewIs(Seen, SeenStatus(status, late), waiting \ late, suspended, disposed)
  /\ ViewIs(Seen', SeenStatus(status', late'), waiting' \ late', suspended', disposed')
  BY DEF ViewIs, Seen, SeenStatus

(* What a method that pumps shows.                                         *)
LEMMA SeenAfterPump ==
  ASSUME NEW st, NEW rn, NEW sy \in Nat, NEW act \in Nat, NEW c, NEW ck, NEW pn,
         Pump(st, rn, sy, act, c, ck, pn)
  PROVE  ViewIs(Seen', SeenStatus(st, late'), waiting' \ late', suspended', disposed')
  BY PumpUnseen, SeenIs

(* append() is an abstract append.                                         *)
LEMMA AppendMaps ==
  ASSUME IInv, NEW n \in 1 .. MaxChunks, AppendChunks(n)
  PROVE  ~ Seen.disposed /\ Promise!Length(Seen) + n <= MaxChunks
           /\ Seen' = Promise!Appended(Seen, n) /\ late' = late
<1> DEFINE len == Cardinality({i \in Index : Present(i)})
           st == [i \in Index |-> IF i \in len .. len + n - 1 THEN "pending" ELSE status[i]]
           q == Promise!Appended(Seen, n)
<1>1. /\ ~ disposed /\ len + n <= MaxChunks
      /\ UNCHANGED << suspended, disposed, waiting, late >>
      /\ Pump(st, run, strays, active, cursor, chunkKeys, pins)
  BY DEF AppendChunks, flags, jobVars, errorVars
<1>2. active \in Nat /\ strays \in Nat
  BY DEF IInv, Typed, Strayed
<1>3. Promise!Length(Seen) = len
  BY SeenLength
<1>4. SeenStatus(st, late) = [i \in Index |-> IF i \in len .. len + n - 1 THEN "pending"
                                             ELSE Seen.status[i]]
  <2>1. \A i \in Index : status[i] = "absent" <=> len <= i
    BY PrefixLength DEF IInv, Present
  <2>2. \A i \in Index : i \in len .. len + n - 1 => i \notin late
    BY <2>1 DEF IInv, Owned
  <2> HIDE DEF len
  <2> QED BY <2>2 DEF SeenStatus, ViewOf, Seen
<1> HIDE DEF len
<1>5. ViewIs(q, SeenStatus(st, late), waiting \ late, suspended, disposed)
  BY <1>3, <1>4, SeenIs DEF Promise!Appended, Promise!Index, Index, ViewIs
<1>6. ViewIs(Seen', SeenStatus(st, late), waiting \ late, suspended, disposed)
  <2>1. ViewIs(Seen', SeenStatus(st, late'), waiting' \ late', suspended', disposed')
    <3> HIDE DEF st
    <3> QED BY <1>1, <1>2, SeenAfterPump
  <2> QED BY <1>1, <2>1
<1>7. Seen' = q
  <2> HIDE DEF st, q
  <2> QED BY <1>5, <1>6, SameView
<1> QED BY <1>1, <1>3, <1>7, SeenIs DEF ViewIs

(* setCursor() resumes the queue.                                          *)
LEMMA SetCursorMaps ==
  ASSUME IInv, NEW i \in Index, SetCursor(i)
  PROVE  Seen' = Promise!Resumed(Seen) /\ late' = late
<1>1. late' = late
  BY DEF SetCursor, errorVars
<1>2. ViewIs(Seen', SeenStatus(status, late), waiting \ late, FALSE, disposed)
  BY <1>1, SeenAfterPump DEF SetCursor, jobVars, IInv, Typed, Strayed
<1>3. ViewIs(Promise!Resumed(Seen), SeenStatus(status, late), waiting \ late, FALSE, disposed)
  BY SeenIs DEF Promise!Resumed, ViewIs
<1> QED BY <1>1, <1>2, <1>3, SameView

(* waitFor() resumes the queue and parks a waiter, of which nothing is     *)
(* promised when a late error has hit the chunk.                           *)
LEMMA WaitForMaps ==
  ASSUME IInv, NEW i \in Index, WaitFor(i)
  PROVE  /\ Seen' = Promise!Asked(Seen, i) \/ Seen' = Promise!Resumed(Seen)
         /\ late' = late
<1>1. late' = late
  BY DEF WaitFor, errorVars
<1>2. ViewIs(Seen', SeenStatus(status, late), (waiting \cup {i}) \ late, FALSE, disposed)
  BY <1>1, SeenAfterPump DEF WaitFor, IInv, Typed, Strayed
<1>3. CASE i \notin late
  <2>1. Seen.status[i] = "pending"
    BY <1>3 DEF WaitFor, Seen, SeenStatus, ViewOf
  <2>2. (waiting \cup {i}) \ late = (waiting \ late) \cup {i}
    BY <1>3
  <2>3. ViewIs(Promise!Asked(Seen, i), SeenStatus(status, late), (waiting \cup {i}) \ late,
               FALSE, disposed)
    BY <2>1, <2>2, SeenIs DEF Promise!Asked, ViewIs
  <2> QED BY <1>1, <1>2, <2>3, SameView
<1>4. CASE i \in late
  <2>1. (waiting \cup {i}) \ late = waiting \ late
    BY <1>4
  <2>2. ViewIs(Promise!Resumed(Seen), SeenStatus(status, late), (waiting \cup {i}) \ late,
               FALSE, disposed)
    BY <2>1, SeenIs DEF Promise!Resumed, ViewIs
  <2> QED BY <1>1, <1>2, <2>2, SameView
<1> QED BY <1>3, <1>4

(* cancelAll() is an abstract cancel.                                      *)
LEMMA CancelMaps ==
  ASSUME CancelAll
  PROVE  Seen' = Promise!Cancelled(Seen) /\ late' = late
<1>0. late' = late /\ waiting' = {}
  BY DEF CancelAll, CancelJobs, errorVars
<1>1. ViewIs(Seen', SeenStatus(status, late), {}, TRUE, disposed)
  <2>1. {} \ late = {}
    OBVIOUS
  <2> QED BY <1>0, <2>1, SeenIs DEF CancelAll, CancelJobs
<1>2. ViewIs(Promise!Cancelled(Seen), SeenStatus(status, late), {}, TRUE, disposed)
  BY SeenIs DEF Promise!Cancelled, ViewIs
<1> QED BY <1>0, <1>1, <1>2, SameView

(* dispose() is an abstract dispose.                                       *)
LEMMA DisposeMaps ==
  ASSUME Dispose
  PROVE  ~ Seen.disposed /\ Seen' = Promise!Disposed(Seen) /\ late' = late
<1>0. late' = late /\ waiting' = {}
  BY DEF Dispose, CancelJobs, errorVars
<1>1. ViewIs(Seen', SeenStatus(status, late), {}, TRUE, TRUE)
  <2>1. {} \ late = {}
    OBVIOUS
  <2> QED BY <1>0, <2>1, SeenIs DEF Dispose, CancelJobs
<1>2. ViewIs(Promise!Cancelled(Seen), SeenStatus(status, late), {}, TRUE, disposed)
  BY SeenIs DEF Promise!Cancelled, ViewIs
<1>3. ViewIs(Promise!Disposed(Seen), SeenStatus(status, late), {}, TRUE, TRUE)
  BY <1>2 DEF Promise!Disposed, ViewIs
<1>4. Seen' = Promise!Disposed(Seen)
  BY <1>1, <1>3, SameView
<1> QED BY <1>0, <1>4, SeenIs DEF Dispose, ViewIs

(* retry() re-arms the chunk; of one that a late error has hit only the    *)
(* resumption of the queue is seen.                                        *)
LEMMA RetryMaps ==
  ASSUME IInv, NEW i \in Index, Retry(i)
  PROVE  /\ Seen' = Promise!Rearmed(Seen, i) \/ Seen' = Promise!Resumed(Seen)
         /\ late' = late
<1> DEFINE st == [status EXCEPT ![i] = "pending"]
<1>1. late' = late
  BY DEF Retry
<1>2. ViewIs(Seen', SeenStatus(st, late), (waiting \ {i}) \ late, FALSE, disposed)
  BY <1>1, SeenAfterPump DEF Retry, IInv, Typed, Strayed
<1>3. \A j \in Index : st[j] = IF j = i THEN "pending" ELSE status[j]
  BY DEF IInv, Typed
<1> HIDE DEF st
<1>4. CASE i \notin late
  <2>1. SeenStatus(st, late) = [SeenStatus(status, late) EXCEPT ![i] = "pending"]
    BY <1>3, <1>4 DEF SeenStatus, ViewOf
  <2>2. Seen.status[i] = "error"
    BY <1>4 DEF Retry, Seen, SeenStatus, ViewOf
  <2>3. (waiting \ {i}) \ late = (waiting \ late) \ {i}
    OBVIOUS
  <2>4. ViewIs(Promise!Rearmed(Seen, i), SeenStatus(st, late), (waiting \ {i}) \ late, FALSE,
               disposed)
    BY <2>1, <2>2, <2>3, SeenIs DEF Promise!Rearmed, ViewIs
  <2> QED BY <1>1, <1>2, <2>4, SameView
<1>5. CASE i \in late
  <2>1. SeenStatus(st, late) = SeenStatus(status, late)
    BY <1>3, <1>5 DEF SeenStatus
  <2>2. (waiting \ {i}) \ late = waiting \ late
    BY <1>5
  <2>3. ViewIs(Promise!Resumed(Seen), SeenStatus(st, late), (waiting \ {i}) \ late, FALSE,
               disposed)
    BY <2>1, <2>2, SeenIs DEF Promise!Resumed, ViewIs
  <2> QED BY <1>1, <1>2, <2>3, SameView
<1> QED BY <1>4, <1>5

(* A return settles the chunk, in error only if the queue works, or shows  *)
(* nothing.                                                                *)
LEMMA ReturnMaps ==
  ASSUME IInv, QuietRuns, NEW i \in Index, NEW st \in QueueStatus, Returns(i, st)
  PROVE  /\ late' = late
         /\ \/ Seen' = Seen
            \/ /\ st \in Settled /\ Seen.status[i] = "pending"
               /\ st = "error" => ~ Seen.suspended /\ ~ Seen.disposed
               /\ Seen' = Promise!Answered(Seen, i, st)
<1> DEFINE base == [status EXCEPT ![i] = st]
<1>1. /\ run[i] # "none" /\ UNCHANGED << suspended, disposed, late >>
      /\ waiting' = IF st \in Settled THEN waiting \ {i} ELSE waiting
      /\ Pump(base, [run EXCEPT ![i] = "none"], strays, active - 1, cursor, chunkKeys, pins)
      /\ st = "error" => i \notin aborted
  BY DEF Returns, Finish, flags, errorVars
<1>2. status[i] = "generating" /\ i \notin late /\ Seen.status[i] = "pending"
  BY <1>1 DEF IInv, Owned, Seen, SeenStatus, ViewOf
<1>3. active - 1 \in Nat /\ strays \in Nat
  BY <1>1, ReturnFreesSlot DEF IInv, Strayed
<1>4. ViewIs(Seen', SeenStatus(base, late), waiting' \ late, suspended, disposed)
  <2>1. ViewIs(Seen', SeenStatus(base, late'), waiting' \ late', suspended', disposed')
    <3> HIDE DEF base
    <3> QED BY <1>1, <1>3, SeenAfterPump
  <2> QED BY <1>1, <2>1
<1>5. st = "error" => ~ Seen.suspended /\ ~ Seen.disposed
  BY <1>1 DEF QuietRuns, Seen
<1>6. SeenStatus(base, late) = [SeenStatus(status, late) EXCEPT ![i] = ViewOf(st)]
  BY <1>2 DEF SeenStatus, ViewOf, IInv, Typed
<1> HIDE DEF base
<1>7. CASE st \in Settled
  <2>1. ViewOf(st) = st /\ waiting' \ late = (waiting \ late) \ {i}
    BY <1>1, <1>7 DEF ViewOf, Settled
  <2>2. ViewIs(Promise!Answered(Seen, i, st), SeenStatus(base, late), waiting' \ late,
               suspended, disposed)
    BY <1>6, <1>7, <2>1, SeenIs DEF Promise!Answered, ViewIs
  <2>3. Seen' = Promise!Answered(Seen, i, st)
    BY <1>4, <2>2, SameView
  <2> QED BY <1>1, <1>2, <1>5, <1>7, <2>3
<1>8. CASE st \notin Settled
  <2>1. ViewOf(st) = "pending" /\ SeenStatus(status, late)[i] = "pending"
    BY <1>2, <1>8 DEF ViewOf, SeenStatus, Settled, QueueStatus
  <2>2. SeenStatus(base, late) = SeenStatus(status, late)
    BY <1>6, <2>1 DEF SeenStatus
  <2> QED BY <1>1, <1>4, <1>8, <2>2, SeenIs, SameView
<1> QED BY <1>7, <1>8

(* A timer cannot be seen from outside.                                    *)
LEMMA TimerMaps ==
  ASSUME IInv, NEW i \in Index, TimerFires(i)
  PROVE  Seen' = Seen /\ late' = late
<1> DEFINE st == [status EXCEPT ![i] = "pending"]
<1>1. /\ UNCHANGED << suspended, disposed, waiting, late >>
      /\ i \in late \/ status[i] = "generating"
  BY DEF TimerFires, flags, errorVars, IInv, Owned
<1>2. CASE UNCHANGED status
  BY <1>1, <1>2 DEF Seen, SeenStatus
<1>3. CASE Pump(st, run, strays, active, cursor, chunkKeys, pins)
  <2>1. SeenStatus(st, late) = SeenStatus(status, late)
    BY <1>1 DEF SeenStatus, ViewOf, IInv, Typed
  <2>2. ViewIs(Seen', SeenStatus(st, late'), waiting' \ late', suspended', disposed')
    BY <1>3, SeenAfterPump DEF IInv, Typed, Strayed
  <2> HIDE DEF st
  <2> QED BY <1>1, <2>1, <2>2, SeenIs, SameView
<1> QED BY <1>1, <1>2, <1>3 DEF TimerFires

(* Nor can the return of a stray run.                                      *)
LEMMA StrayMaps ==
  ASSUME IInv, NEW i \in Index, StrayReturns(i)
  PROVE  Seen' = Seen /\ late' = late
<1>1. PICK st : /\ Pump([status EXCEPT ![i] = st], run, strays - 1, active - 1, cursor,
                        chunkKeys, pins)
                /\ waiting' \in {waiting, waiting \ {i}}
  BY DEF StrayReturns
<1> DEFINE base == [status EXCEPT ![i] = st]
<1>2. /\ UNCHANGED << suspended, disposed, late >> /\ i \in late
      /\ waiting' \ late = waiting \ late
      /\ Pump(base, run, strays - 1, active - 1, cursor, chunkKeys, pins)
  BY <1>1 DEF StrayReturns, flags, errorVars
<1>3. SeenStatus(base, late) = SeenStatus(status, late)
  BY <1>2 DEF SeenStatus, IInv, Typed
<1> HIDE DEF base
<1>4. ViewIs(Seen', SeenStatus(base, late'), waiting' \ late', suspended', disposed')
  BY <1>2, StrayHoldsSlot, SeenAfterPump
<1> QED BY <1>2, <1>3, <1>4, SeenIs, SameView

(* The player's writes are abstract marks, but on a chunk that a late      *)
(* error has hit.                                                          *)
LEMMA PlayerMaps ==
  ASSUME IInv, NEW i \in Index, NEW st \in PlayerStatus \cup {"error"}, PlayerMarks(i, st)
  PROVE  /\ late' = late
         /\ \/ Seen' = Seen
            \/ /\ Seen.status[i] \in Settled \cup PlayerStatus
               /\ Seen' = Promise!Marked(Seen, i, st)
<1>1. /\ status[i] \in {"ready", "playing", "played", "error"}
      /\ status' = [status EXCEPT ![i] = st]
      /\ UNCHANGED << waiting, suspended, disposed, late >>
  BY DEF PlayerMarks, Audible, PlayerStatus, jobVars, flags, errorVars
<1>2. CASE i \in late
  <2>1. SeenStatus(status', late) = SeenStatus(status, late)
    BY <1>1, <1>2 DEF SeenStatus, IInv, Typed
  <2> QED BY <1>1, <2>1 DEF Seen
<1>3. CASE i \notin late
  <2>1. SeenStatus(status', late) = [SeenStatus(status, late) EXCEPT ![i] = st]
    BY <1>1, <1>3 DEF SeenStatus, ViewOf, IInv, Typed, PlayerStatus
  <2>2. Seen.status[i] = status[i]
    BY <1>1, <1>3 DEF Seen, SeenStatus, ViewOf
  <2>3. ViewIs(Promise!Marked(Seen, i, st), SeenStatus(status', late'), waiting' \ late',
               suspended', disposed')
    BY <1>1, <2>1, SeenIs DEF Promise!Marked, ViewIs
  <2>4. Seen' = Promise!Marked(Seen, i, st)
    BY <2>3, SeenIs, SameView
  <2> QED BY <1>1, <2>2, <2>4 DEF Settled, PlayerStatus
<1> QED BY <1>2, <1>3

(* A late error takes its chunk out of the promise, once.                  *)
LEMMA LateErrorMaps ==
  ASSUME IInv, NEW i \in Index, LateError(i)
  PROVE  \/ Seen' = Seen /\ late' = late
         \/ /\ Seen.status[i] = "pending" /\ late' = late \cup {i}
            /\ Seen' = Promise!Answered(Seen, i, "error")
<1>1. /\ status[i] \in {"pending", "generating"} /\ late' = late \cup {i}
      /\ status' = [status EXCEPT ![i] = "error"]
      /\ UNCHANGED << waiting, suspended, disposed >>
  BY DEF LateError, jobVars, flags
<1>2. SeenStatus(status', late') = [SeenStatus(status, late) EXCEPT ![i] = "error"]
  BY <1>1 DEF SeenStatus, ViewOf, IInv, Typed
<1>3. CASE i \in late
  <2>1. late' = late
    BY <1>1, <1>3
  <2>2. SeenStatus(status', late') = SeenStatus(status, late)
    BY <1>2, <1>3 DEF SeenStatus
  <2> QED BY <1>1, <2>1, <2>2 DEF Seen
<1>4. CASE i \notin late
  <2>1. Seen.status[i] = "pending"
    BY <1>1, <1>4 DEF Seen, SeenStatus, ViewOf
  <2>2. waiting' \ late' = (waiting \ late) \ {i}
    BY <1>1
  <2>3. ViewIs(Promise!Answered(Seen, i, "error"), SeenStatus(status', late'),
               waiting' \ late', suspended', disposed')
    BY <1>1, <1>2, <2>2, SeenIs DEF Promise!Answered, ViewIs
  <2>4. Seen' = Promise!Answered(Seen, i, "error")
    BY <2>3, SeenIs, SameView
  <2> QED BY <1>1, <2>1, <2>4
<1> QED BY <1>3, <1>4

-----------------------------------------------------------------------------
(* Every step of the queue is a step of the abstract queue or a stutter.   *)
LEMMA StepMaps ==
  ASSUME IInv, QuietRuns, [Next]_vars
  PROVE  Promise!Next \/ (Seen' = Seen /\ late' = late)
<1> DEFINE Unseen == Seen' = Seen /\ late' = late
<1>0. /\ Promise!Index = Index /\ Promise!Settled = Settled
      /\ Promise!PlayerStatus = PlayerStatus
  BY DEF Promise!Index, Index, Promise!Settled, Settled, Promise!PlayerStatus, PlayerStatus
<1>a. Promise!Allowed(Seen, Seen') /\ late' = late => Promise!Next
  BY DEF Promise!Next, Seen
<1>1. CASE UNCHANGED vars
  BY <1>1 DEF vars, Seen, SeenStatus
<1>2. ASSUME NEW n \in 1 .. MaxChunks, AppendChunks(n) PROVE Promise!Next
  BY <1>2, <1>a, AppendMaps DEF Promise!Allowed, Promise!Appends
<1>3. ASSUME NEW i \in Index, SetCursor(i) PROVE Promise!Next
  BY <1>3, <1>a, SetCursorMaps DEF Promise!Allowed
<1>4. ASSUME NEW i \in Index, WaitFor(i) PROVE Promise!Next
  BY <1>0, <1>4, <1>a, WaitForMaps DEF Promise!Allowed
<1>5. ASSUME NEW i \in Index, Retry(i) PROVE Promise!Next
  BY <1>0, <1>5, <1>a, RetryMaps DEF Promise!Allowed
<1>6. CASE CancelAll \/ Dispose
  BY <1>6, <1>a, CancelMaps, DisposeMaps DEF Promise!Allowed
<1>7. ASSUME NEW i \in Index, RunStep(i) PROVE Promise!Next \/ Unseen
  <2>1. CASE \E from, to \in Phases : Proceed(i, from, to)
    BY <2>1 DEF Proceed, jobVars, flags, errorVars, Seen, SeenStatus
  <2>2. ASSUME NEW st \in QueueStatus, Returns(i, st) PROVE Promise!Next \/ Unseen
    BY <1>0, <1>a, <2>2, ReturnMaps DEF Promise!Allowed, Promise!Settles
  <2> QED BY <1>7, <2>1, <2>2, RunStepCases
<1>8. ASSUME NEW i \in Index, TimerFires(i) \/ StrayReturns(i) PROVE Unseen
  BY <1>8, TimerMaps, StrayMaps
<1>9. ASSUME NEW i \in Index, NEW st \in PlayerStatus \cup {"error"}, PlayerMarks(i, st)
      PROVE Promise!Next \/ Unseen
  BY <1>0, <1>a, <1>9, PlayerMaps DEF Promise!Allowed, Promise!Marks
<1>10. ASSUME NEW i \in Index, LateError(i) PROVE Promise!Next \/ Unseen
  BY <1>0, <1>10, LateErrorMaps DEF Promise!Next, Promise!Loses, Seen
<1>11. CASE Cache
  BY <1>11 DEF Cache, EvictBegins, RemovalEnds, Clears, NothingButFiles, jobVars, flags,
               errorVars, Seen, SeenStatus
<1> HIDE DEF Unseen
<1>12. Promise!Next \/ Unseen
  <2>1. CASE UNCHANGED vars
    BY <1>1, <2>1 DEF Unseen, vars
  <2> QED
    BY <1>2, <1>3, <1>4, <1>5, <1>6, <1>7, <1>8, <1>9, <1>10, <1>11, <2>1
    DEF Next, Command, Player, Unseen
<1> QED BY <1>12 DEF Unseen

(* No run comes back unaborted to a queue that does not work.              *)
LEMMA QuietRunsHold == Spec => []QuietRuns
<1>1. Init => QuietRuns
  BY DEF Init, QuietRuns
<1> QED BY <1>1, QuietStep, InductiveInvariant, PTL DEF Spec

(* The queue keeps its promise to the player, for any number of chunks,    *)
(* jobs and retries: what the player is checked against is what AudioQueue *)
(* does.                                                                   *)
THEOREM KeepsPromiseHolds == Spec => KeepsPromise
<1>1. Init => Promise!Init
  BY InitMaps DEF Init, Promise!Init, Seen, SeenStatus
<1>2. IInv /\ QuietRuns /\ [Next]_vars => [Promise!Next]_<< Seen, late >>
  BY StepMaps
<1>3. [][Promise!Next]_<< Seen, late >> =>
        [][Promise!Next]_<< [status |-> SeenStatus(status, late), waiting |-> waiting \ late,
                             suspended |-> suspended, disposed |-> disposed], late >>
  BY PTL DEF Seen
<1> QED
  BY <1>1, <1>2, <1>3, InductiveInvariant, QuietRunsHold, PTL DEF Spec, KeepsPromise, Promise!Spec
=============================================================================
