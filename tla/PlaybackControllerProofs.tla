---------------------- MODULE PlaybackControllerProofs ----------------------
(* Proofs about PlaybackController, for any number of chunks, sessions,    *)
(* commands and events in flight.                                          *)
EXTENDS PlaybackController, FiniteSetTheorems, TLAPS

(* The chunks of a queue are a prefix of the indices.                      *)
Prefix(q) == \E n \in 0 .. MaxChunks : \A i \in Index : q.status[i] = "absent" <=> n <= i

(* The calls of S that will go on with a play.                             *)
PlaysOf(S) == {c \in S : c.at \in {"wait", "load"} /\ c.fresh}

-----------------------------------------------------------------------------
(* The operators on queues and calls.                                      *)

(* The length of a queue is within the bound.                              *)
LEMMA LengthType ==
  ASSUME NEW q \in QueueView
  PROVE  Length(q) \in 0 .. MaxChunks
<1> DEFINE P == {i \in Index : q.status[i] # "absent"}
<1>1. IsFiniteSet(Index) /\ Cardinality(Index) = MaxChunks
  BY FS_Interval, SizeAssumption DEF Index
<1>2. P \in SUBSET Index
  OBVIOUS
<1>3. Cardinality(P) \in Nat /\ Cardinality(P) <= MaxChunks
  BY <1>1, <1>2, FS_Subset, FS_CardinalityType
<1> QED BY <1>3, SizeAssumption DEF Length

(* The length of a queue is where its prefix ends.                         *)
LEMMA PrefixLength ==
  ASSUME NEW q \in QueueView, Prefix(q)
  PROVE  \A i \in Index : q.status[i] = "absent" <=> Length(q) <= i
<1>1. PICK n \in 0 .. MaxChunks : \A i \in Index : q.status[i] = "absent" <=> n <= i
  BY DEF Prefix
<1>2. {i \in Index : q.status[i] # "absent"} = 0 .. n - 1
  BY <1>1, SizeAssumption DEF Index
<1>3. Cardinality(0 .. n - 1) = n
  BY <1>1, FS_Interval
<1> QED BY <1>1, <1>2, <1>3 DEF Length

(* The chunks of a new queue are a prefix.                                 *)
LEMMA FreshType ==
  ASSUME NEW n \in 0 .. MaxChunks
  PROVE  Fresh(n) \in QueueView /\ Prefix(Fresh(n))
<1>1. Fresh(n) \in QueueView
  BY DEF Fresh, QueueView, ViewStatus
<1>2. \A i \in Index : Fresh(n).status[i] = "absent" <=> n <= i
  BY DEF Fresh, Index
<1> QED BY <1>1, <1>2 DEF Prefix

(* append() keeps the chunks there are and the waits for them.             *)
LEMMA AppendedType ==
  ASSUME NEW q \in QueueView, NEW n \in 1 .. MaxChunks, Length(q) + n <= MaxChunks
  PROVE  /\ Appended(q, n) \in QueueView
         /\ Appended(q, n).waiting = q.waiting
         /\ Prefix(q) => /\ Prefix(Appended(q, n))
                         /\ \A i \in Index : q.status[i] # "absent" =>
                              Appended(q, n).status[i] = q.status[i]
<1>1. Appended(q, n) \in QueueView
  BY DEF Appended, QueueView, ViewStatus
<1>2. Appended(q, n).waiting = q.waiting
  BY DEF Appended, QueueView
<1>3. \A i \in Index : Appended(q, n).status[i] =
        IF i \in Length(q) .. Length(q) + n - 1 THEN "pending" ELSE q.status[i]
  BY DEF Appended, QueueView
<1>4. Length(q) \in 0 .. MaxChunks
  BY LengthType
<1>5. ASSUME Prefix(q)
      PROVE  \A i \in Index : Appended(q, n).status[i] = "absent" <=> Length(q) + n <= i
  BY <1>3, <1>4, <1>5, PrefixLength DEF Index
<1>6. ASSUME Prefix(q), NEW i \in Index, q.status[i] # "absent"
      PROVE  Appended(q, n).status[i] = q.status[i]
  BY <1>3, <1>4, <1>6, PrefixLength DEF Index
<1> QED BY <1>1, <1>2, <1>4, <1>5, <1>6 DEF Prefix

(* setCursor() leaves the chunks and the waits alone.                      *)
LEMMA ResumedType ==
  ASSUME NEW q \in QueueView
  PROVE  /\ Resumed(q) \in QueueView
         /\ Resumed(q).status = q.status /\ Resumed(q).waiting = q.waiting
  BY DEF Resumed, QueueView

(* waitFor() leaves the chunks alone, and a chunk that is not settled is   *)
(* waited for afterwards.                                                  *)
LEMMA AskedType ==
  ASSUME NEW q \in QueueView, NEW i \in Index
  PROVE  /\ Asked(q, i) \in QueueView
         /\ Asked(q, i).status = q.status
         /\ q.status[i] = "pending" => i \in Asked(q, i).waiting
  BY DEF Asked, QueueView

(* cancelAll() leaves the chunks alone.                                    *)
LEMMA CancelledType ==
  ASSUME NEW q \in QueueView
  PROVE  Cancelled(q) \in QueueView /\ Cancelled(q).status = q.status
  BY DEF Cancelled, QueueView

(* So does dispose().                                                      *)
LEMMA DisposedType ==
  ASSUME NEW q \in QueueView
  PROVE  Disposed(q) \in QueueView /\ Disposed(q).status = q.status
  BY CancelledType DEF Disposed, QueueView

(* retry() neither adds nor removes a chunk.                               *)
LEMMA RearmedType ==
  ASSUME NEW q \in QueueView, NEW i \in Index
  PROVE  /\ Rearmed(q, i) \in QueueView
         /\ \A j \in Index : Rearmed(q, i).status[j] = "absent" <=> q.status[j] = "absent"
  BY DEF Rearmed, QueueView, ViewStatus

(* What the player writes touches one chunk and no wait.                   *)
LEMMA MarkedType ==
  ASSUME NEW q \in QueueView, NEW i \in Index, NEW st \in PlayerStatus \cup {"error"}
  PROVE  /\ Marked(q, i, st) \in QueueView
         /\ Marked(q, i, st).waiting = q.waiting
         /\ \A j \in Index : Marked(q, i, st).status[j] = IF j = i THEN st ELSE q.status[j]
  BY DEF Marked, QueueView, ViewStatus, Settled

(* A settled chunk touches one chunk and the wait for it.                  *)
LEMMA AnsweredType ==
  ASSUME NEW q \in QueueView, NEW i \in Index, NEW st \in Settled
  PROVE  /\ Answered(q, i, st) \in QueueView
         /\ Answered(q, i, st).waiting = q.waiting \ {i}
         /\ \A j \in Index : Answered(q, i, st).status[j] = IF j = i THEN st ELSE q.status[j]
  BY DEF Answered, QueueView, ViewStatus

(* A call that was overtaken does not go on with its play.                 *)
LEMMA OutdatedType ==
  ASSUME NEW S \in SUBSET Call
  PROVE  Outdated(S) \subseteq Call /\ PlaysOf(Outdated(S)) = {}
<1>1. \A c \in Outdated(S) : c \in Call /\ ~ c.fresh
  BY DEF Outdated, Call
<1> QED BY <1>1 DEF PlaysOf

(* A suspended call is one, and records what it is suspended at.           *)
LEMMA SuspendedType ==
  ASSUME NEW at \in {"wait", "load", "decide"}, NEW s \in Sessions, NEW i \in Index
  PROVE  /\ Suspended(at, s, i) \in Call
         /\ Suspended(at, s, i).at = at /\ Suspended(at, s, i).fresh
         /\ Suspended(at, s, i).session = s /\ Suspended(at, s, i).index = i
  BY DEF Suspended, Call

-----------------------------------------------------------------------------
(* Type correctness.                                                       *)

(* playIndex() keeps the types of what it assigns.                         *)
LEMMA PlayIndexType ==
  ASSUME TypeOK, NEW s \in Sessions, NEW i \in Index, NEW S \in SUBSET Call,
         NEW q \in QueueView, NEW st \in States, PlayIndex(s, i, S, q, st)
  PROVE  /\ currentIndex' \in Index /\ position' \in {"head", "deep"}
         /\ awaiting' = NoIndex /\ state' \in States
         /\ queue' \in [Sessions -> QueueView] /\ calls' \subseteq Call
<1>1. Asked(Resumed(q), i) \in QueueView
  BY ResumedType, AskedType
<1>2. queue' \in [Sessions -> QueueView]
  BY <1>1 DEF PlayIndex, TypeOK
<1>3. state' \in States
  BY DEF PlayIndex, States
<1>4. calls' \subseteq Call
  BY OutdatedType, SuspendedType DEF PlayIndex
<1> QED BY <1>2, <1>3, <1>4 DEF PlayIndex

(* complete() and handleChunkFailure() keep the types of what they assign. *)
LEMMA FinishType ==
  ASSUME TypeOK, NEW S \in SUBSET Call, NEW q \in QueueView, NEW st \in States,
         Finish(S, q, st)
  PROVE  /\ state' \in States /\ queue' \in [Sessions -> QueueView]
         /\ calls' \subseteq Call /\ view' \in [chunk : Chunk, mode : Modes]
<1>1. Cancelled(q) \in QueueView
  BY CancelledType
<1>2. queue' \in [Sessions -> QueueView]
  BY <1>1 DEF Finish, TypeOK
<1> QED BY <1>2, OutdatedType DEF Finish, Unloaded, Chunk, Modes

(* next() keeps the types of what it assigns.                              *)
LEMMA AdvanceType ==
  ASSUME TypeOK, Active, NEW S \in SUBSET Call, NEW q \in QueueView, NEW c \in Index,
         Advance(S, q, c)
  PROVE  /\ currentIndex' \in Index /\ position' \in {"head", "deep"}
         /\ awaiting' \in {NoIndex} \cup 0 .. MaxChunks /\ state' \in States
         /\ queue' \in [Sessions -> QueueView] /\ calls' \subseteq Call
         /\ view' \in [chunk : Chunk, mode : Modes]
<1>0. session \in Sessions /\ state \in States /\ view \in [chunk : Chunk, mode : Modes]
  BY BoundAssumption DEF TypeOK, Active, Sessions
<1>1. CASE c + 1 < Length(q) /\ PlayIndex(session, c + 1, S, q, state) /\ UNCHANGED view
  <2>1. c + 1 \in Index
    BY <1>1, LengthType, SizeAssumption DEF Index
  <2> QED BY <1>0, <1>1, <2>1, PlayIndexType
<1>2. CASE /\ currentIndex' = c /\ UNCHANGED position
           /\ Finish(S, q, "completed") /\ UNCHANGED awaiting
  BY <1>2, FinishType DEF TypeOK, States
<1>3. CASE /\ currentIndex' = c /\ UNCHANGED position
           /\ calls' = Outdated(S) /\ awaiting' = c + 1 /\ view' = Unloaded
           /\ state' = "preparing" /\ queue' = [queue EXCEPT ![session] = q]
  <2>1. c + 1 \in 0 .. MaxChunks
    BY SizeAssumption DEF Index
  <2> QED BY <1>3, <2>1, OutdatedType DEF TypeOK, States, Unloaded, Chunk, Modes
<1> QED BY <1>1, <1>2, <1>3 DEF Advance

(* start() keeps the types.                                                *)
LEMMA StartType ==
  ASSUME TypeOK, NEW n \in MinChunks .. MaxChunks, NEW seal \in BOOLEAN, Start(n, seal)
  PROVE  TypeOK'
<1> DEFINE s    == session + 1
           torn == [t \in Sessions |-> IF t = session THEN Disposed(queue[t]) ELSE queue[t]]
           new  == IF n > 0 THEN Asked(Fresh(n), 0) ELSE Fresh(0)
<1>1. s \in Sessions /\ n \in 0 .. MaxChunks /\ 0 \in Index
  BY BoundAssumption, SizeAssumption DEF Start, Index
<1>2. torn \in [Sessions -> QueueView]
  BY DisposedType DEF TypeOK
<1>3. new \in QueueView
  BY <1>1, FreshType, AskedType
<1>4. queue' \in [Sessions -> QueueView]
  <2>1. queue' = [torn EXCEPT ![s] = new]
    BY DEF Start
  <2> QED BY <1>1, <1>2, <1>3, <2>1
<1>5. calls' \subseteq Call
  <2>1. calls' = Outdated(calls) \cup {Suspended("wait", s, i) : i \in {j \in {0} : n > 0}}
    BY DEF Start
  <2> QED BY <1>1, <2>1, OutdatedType, SuspendedType DEF TypeOK
<1>6. session' \in 0 .. MaxSessions
  BY <1>1, BoundAssumption DEF Start, Sessions
<1>7. view' \in [chunk : Chunk, mode : Modes]
  BY DEF Start, Unloaded, Chunk, Modes
<1>8. commands' \in 0 .. MaxCommands
  BY BoundAssumption DEF Start, Counted, TypeOK
<1>9. /\ state' \in States /\ sealed' \in BOOLEAN /\ disposed' \in BOOLEAN
      /\ currentIndex' \in Index /\ position' \in {"head", "deep"}
      /\ awaiting' \in {NoIndex} \cup 0 .. MaxChunks
      /\ inbox' \in Seq(Event) /\ Len(inbox') <= MaxEvents
  BY <1>1, SizeAssumption DEF Start, TypeOK, States
<1> QED BY <1>4, <1>5, <1>6, <1>7, <1>8, <1>9 DEF TypeOK

(* A command of the user keeps the types.                                  *)
LEMMA UserCommandType ==
  ASSUME TypeOK, UserCommand
  PROVE  TypeOK'
<1>0. Counted => commands' \in 0 .. MaxCommands
  BY BoundAssumption DEF Counted, TypeOK
<1>1. Active => /\ session \in Sessions /\ queue[session] \in QueueView
                /\ 0 \in Index /\ calls \in SUBSET Call
  BY BoundAssumption, SizeAssumption DEF TypeOK, Active, Sessions, Index
<1>2. ASSUME NEW n \in MinChunks .. MaxChunks, NEW seal \in BOOLEAN, Start(n, seal)
      PROVE  TypeOK'
  BY <1>2, StartType
<1>3. CASE Pause
  BY <1>0, <1>3 DEF Pause, Paused, TypeOK, States, Modes
<1>4. CASE Resume
  BY <1>0, <1>4 DEF Resume, Played, TypeOK, States, Modes
<1>5. CASE Stop
  <2>1. "stopped" \in States
    BY DEF States
  <2>2. /\ state' \in States /\ queue' \in [Sessions -> QueueView]
        /\ calls' \subseteq Call /\ view' \in [chunk : Chunk, mode : Modes]
    BY <1>1, <1>5, <2>1, FinishType DEF Stop
  <2> QED BY <1>0, <1>1, <1>5, <2>2 DEF Stop, TypeOK
<1>6. CASE Skip
  <2>1. currentIndex \in Index
    BY DEF TypeOK
  <2>2. /\ currentIndex' \in Index /\ position' \in {"head", "deep"}
        /\ awaiting' \in {NoIndex} \cup 0 .. MaxChunks /\ state' \in States
        /\ queue' \in [Sessions -> QueueView] /\ calls' \subseteq Call
        /\ view' \in [chunk : Chunk, mode : Modes]
    BY <1>1, <1>6, <2>1, AdvanceType DEF Skip
  <2> QED BY <1>0, <1>6, <2>2 DEF Skip, TypeOK
<1>7. CASE Previous
  <2> DEFINE i == IF position = "head" /\ currentIndex > 0
                  THEN currentIndex - 1 ELSE currentIndex
  <2>1. i \in Index /\ state \in States
    BY SizeAssumption DEF TypeOK, Index
  <2>2. PlayIndex(session, i, calls, queue[session], state)
    BY <1>7 DEF Previous
  <2>3. /\ currentIndex' \in Index /\ position' \in {"head", "deep"}
        /\ awaiting' = NoIndex /\ state' \in States
        /\ queue' \in [Sessions -> QueueView] /\ calls' \subseteq Call
    <3> HIDE DEF i
    <3> QED BY <1>1, <1>7, <2>1, <2>2, PlayIndexType DEF Previous
  <2> QED BY <1>0, <1>7, <2>3 DEF Previous, TypeOK
<1>8. CASE RetryCurrentChunk
  <2>1. Rearmed(queue[session], currentIndex) \in QueueView
    BY <1>1, <1>8, RearmedType DEF RetryCurrentChunk, TypeOK
  <2>2. /\ currentIndex' \in Index /\ position' \in {"head", "deep"}
        /\ awaiting' = NoIndex /\ state' \in States
        /\ queue' \in [Sessions -> QueueView] /\ calls' \subseteq Call
    BY <1>1, <1>8, <2>1, PlayIndexType DEF RetryCurrentChunk, TypeOK
  <2> QED BY <1>0, <1>8, <2>2 DEF RetryCurrentChunk, TypeOK
<1>9. CASE Dispose
  <2>1. queue' \in [Sessions -> QueueView]
    BY <1>9, DisposedType DEF Dispose, TypeOK
  <2>2. calls' \subseteq Call
    BY <1>9, OutdatedType DEF Dispose, TypeOK
  <2>3. session' \in 0 .. MaxSessions
    BY <1>9, BoundAssumption DEF Dispose
  <2>4. view' \in [chunk : Chunk, mode : Modes]
    BY <1>9 DEF Dispose, Unloaded, Chunk, Modes
  <2> QED BY <1>0, <1>9, <2>1, <2>2, <2>3, <2>4 DEF Dispose, TypeOK
<1> QED BY <1>2, <1>3, <1>4, <1>5, <1>6, <1>7, <1>8, <1>9 DEF UserCommand

(* A command of the narrator keeps the types.                              *)
LEMMA NarratorType ==
  ASSUME TypeOK, Narrator
  PROVE  TypeOK'
<1>0. Counted => commands' \in 0 .. MaxCommands
  BY BoundAssumption DEF Counted, TypeOK
<1>1. Active => /\ session \in Sessions /\ queue[session] \in QueueView
                /\ calls \in SUBSET Call
  BY BoundAssumption DEF TypeOK, Active, Sessions
<1>2. CASE SealSegments
  <2>1. "completed" \in States
    BY DEF States
  <2>2. /\ state' \in States /\ queue' \in [Sessions -> QueueView]
        /\ calls' \subseteq Call /\ view' \in [chunk : Chunk, mode : Modes]
    BY <1>1, <1>2, <2>1, FinishType DEF SealSegments, TypeOK
  <2> QED BY <1>0, <1>2, <2>2 DEF SealSegments, TypeOK
<1>3. ASSUME NEW n \in 1 .. MaxChunks, AppendSegments(n)
      PROVE  TypeOK'
  <2> DEFINE q == Appended(queue[session], n)
  <2>1. q \in QueueView
    BY <1>1, <1>3, AppendedType DEF AppendSegments
  <2>2. CASE awaiting # NoIndex /\ awaiting < Length(q)
    <3>1. PlayIndex(session, awaiting, calls, q, state)
      <4> ~ (awaiting = NoIndex \/ awaiting >= Length(q))
        BY <2>1, <2>2, LengthType DEF TypeOK
      <4> QED BY <1>3 DEF AppendSegments
    <3>2. awaiting \in Index
      BY <2>1, <2>2, LengthType, SizeAssumption DEF TypeOK, Index
    <3>3. /\ currentIndex' \in Index /\ position' \in {"head", "deep"}
          /\ awaiting' = NoIndex /\ state' \in States
          /\ queue' \in [Sessions -> QueueView] /\ calls' \subseteq Call
      <4> HIDE DEF q
      <4> QED BY <1>1, <1>3, <2>1, <3>1, <3>2, PlayIndexType DEF AppendSegments, TypeOK
    <3> QED BY <1>0, <1>3, <3>3 DEF AppendSegments, TypeOK
  <2>3. CASE awaiting = NoIndex \/ awaiting >= Length(q)
    <3>1. /\ queue' = [queue EXCEPT ![session] = q]
          /\ UNCHANGED << state, currentIndex, position, awaiting, calls >>
      <4> awaiting = NoIndex \/ ~ (awaiting < Length(q))
        BY <2>1, <2>3, LengthType DEF TypeOK
      <4> QED BY <1>3 DEF AppendSegments
    <3>2. queue' \in [Sessions -> QueueView]
      <4> HIDE DEF q
      <4> QED BY <1>1, <2>1, <3>1 DEF TypeOK
    <3> QED BY <1>0, <1>3, <3>1, <3>2 DEF AppendSegments, TypeOK
  <2>4. awaiting = NoIndex \/ awaiting < Length(q) \/ awaiting >= Length(q)
    BY <2>1, LengthType DEF TypeOK
  <2> QED BY <2>2, <2>3, <2>4
<1> QED BY <1>2, <1>3 DEF Narrator

(* A call that returns keeps the types.                                    *)
LEMMA ResolvesType ==
  ASSUME TypeOK, NEW c \in calls, Resolves(c)
  PROVE  TypeOK'
<1>1. /\ c \in Call /\ c.session \in Sessions /\ c.index \in Index
      /\ calls \ {c} \in SUBSET Call
  BY DEF TypeOK, Call
<1>2. CASE Drop(c) /\ UNCHANGED << session, sealed, disposed, inbox, commands >>
  BY <1>2 DEF Drop, TypeOK
<1>3. CASE WaitResolves(c) /\ ~ Drop(c)
  <2>1. UNCHANGED << state, session, sealed, currentIndex, position, awaiting, disposed,
                     queue, inbox, commands >>
    BY <1>3 DEF WaitResolves
  <2>2. calls' \subseteq Call
    BY <1>1, <1>3, SuspendedType DEF WaitResolves
  <2>3. view' \in [chunk : Chunk, mode : Modes]
    BY <1>1, <1>3 DEF WaitResolves, Loaded, Chunk, Modes, TypeOK
  <2> QED BY <2>1, <2>2, <2>3 DEF TypeOK
<1>4. CASE LoadResolves(c) /\ ~ Drop(c)
  <2>1. Marked(queue[c.session], c.index, "playing") \in QueueView
    BY <1>1, MarkedType DEF TypeOK, PlayerStatus
  <2>2. Resumed(Marked(queue[c.session], c.index, "playing")) \in QueueView
    BY <2>1, ResumedType
  <2>3. queue' = [queue EXCEPT ![c.session] =
                    Resumed(Marked(queue[c.session], c.index, "playing"))]
    BY <1>4 DEF LoadResolves
  <2>4. queue' \in [Sessions -> QueueView]
    BY <1>1, <2>2, <2>3 DEF TypeOK
  <2>5. view' \in [chunk : Chunk, mode : Modes]
    BY <1>4 DEF LoadResolves, Played, Modes, TypeOK
  <2> QED BY <1>1, <1>4, <2>4, <2>5 DEF LoadResolves, TypeOK, States
<1>5. ASSUME NEW d \in {"skip", "stop"}, DecisionMade(c, d), ~ Drop(c)
      PROVE  TypeOK'
  <2>1. Active /\ UNCHANGED << session, sealed, disposed, inbox, commands >>
    BY <1>5 DEF DecisionMade
  <2>2. session \in Sessions /\ queue[session] \in QueueView
    BY <2>1, BoundAssumption DEF TypeOK, Active, Sessions
  <2>3. CASE /\ Finish(calls \ {c}, queue[session], "error")
             /\ UNCHANGED << currentIndex, position, awaiting >>
    <3>1. "error" \in States
      BY DEF States
    <3>2. /\ state' \in States /\ queue' \in [Sessions -> QueueView]
          /\ calls' \subseteq Call /\ view' \in [chunk : Chunk, mode : Modes]
      BY <1>1, <2>2, <2>3, <3>1, FinishType
    <3> QED BY <2>1, <2>3, <3>2 DEF TypeOK
  <2>4. CASE Advance(calls \ {c}, queue[session], c.index)
    <3>1. /\ currentIndex' \in Index /\ position' \in {"head", "deep"}
          /\ awaiting' \in {NoIndex} \cup 0 .. MaxChunks /\ state' \in States
          /\ queue' \in [Sessions -> QueueView] /\ calls' \subseteq Call
          /\ view' \in [chunk : Chunk, mode : Modes]
      BY <1>1, <2>1, <2>2, <2>4, AdvanceType
    <3> QED BY <2>1, <3>1 DEF TypeOK
  <2> QED BY <1>5, <2>3, <2>4 DEF DecisionMade
<1>6. WaitResolves(c) \/ LoadResolves(c) \/ (\E d \in {"skip", "stop"} : DecisionMade(c, d))
  BY DEF Resolves
<1>7. ASSUME Drop(c) PROVE TypeOK'
  <2>1. UNCHANGED << session, sealed, disposed, inbox, commands >>
    BY <1>6 DEF WaitResolves, LoadResolves, DecisionMade
  <2> QED BY <1>2, <1>7, <2>1
<1> QED BY <1>3, <1>4, <1>5, <1>6, <1>7

(* Receiving an event leaves events in the inbox.                          *)
LEMMA ReceiveType ==
  ASSUME TypeOK, NEW type, NEW chunk, Receive(type, chunk)
  PROVE  /\ inbox' \in Seq(Event) /\ Len(inbox') <= MaxEvents
         /\ Len(inbox) \in Nat \ {0} /\ Len(inbox') = Len(inbox) - 1
         /\ \A j \in 1 .. Len(inbox') : inbox'[j] = inbox[j + 1]
         /\ inbox[1].chunk = chunk
<1>1. inbox \in Seq(Event) /\ inbox # << >> /\ inbox' = Tail(inbox) /\ Len(inbox) <= MaxEvents
      /\ Head(inbox).chunk = chunk
  BY DEF TypeOK, Receive
<1>2. Len(inbox) \in Nat \ {0} /\ Len(Tail(inbox)) = Len(inbox) - 1
  BY <1>1
<1>3. Tail(inbox) \in Seq(Event)
  BY <1>1
<1>4. \A j \in 1 .. Len(Tail(inbox)) : Tail(inbox)[j] = inbox[j + 1]
  BY <1>1
<1>5. Head(inbox) = inbox[1]
  BY <1>1
<1> QED BY <1>1, <1>2, <1>3, <1>4, <1>5, BoundAssumption

(* The handler of an event keeps the types.                                *)
LEMMA HandlesType ==
  ASSUME TypeOK, NEW chunk \in Chunk, Handles(chunk)
  PROVE  TypeOK'
<1>0. inbox' \in Seq(Event) /\ Len(inbox') <= MaxEvents
  BY ReceiveType DEF Handles, HandleTimeUpdate, HandleEnded, HandleSinkError
<1>1. Active => /\ session \in Sessions /\ queue[session] \in QueueView
                /\ calls \in SUBSET Call /\ currentIndex \in Index
  BY BoundAssumption DEF TypeOK, Active, Sessions
<1>2. CASE HandleTimeUpdate(chunk)
  BY <1>0, <1>2 DEF HandleTimeUpdate, TypeOK
<1>3. CASE HandleEnded(chunk)
  <2>1. CASE Active /\ chunk = Current /\ state = "playing"
    <3> DEFINE q == Marked(queue[session], currentIndex, "played")
    <3>1. Advance(calls, q, currentIndex)
      BY <1>3, <2>1 DEF HandleEnded
    <3>2. q \in QueueView
      BY <1>1, <2>1, MarkedType DEF PlayerStatus
    <3> HIDE DEF q
    <3>3. /\ currentIndex' \in Index /\ position' \in {"head", "deep"}
          /\ awaiting' \in {NoIndex} \cup 0 .. MaxChunks /\ state' \in States
          /\ queue' \in [Sessions -> QueueView] /\ calls' \subseteq Call
          /\ view' \in [chunk : Chunk, mode : Modes]
      BY <1>1, <2>1, <3>1, <3>2, AdvanceType
    <3> QED BY <1>0, <1>3, <3>3 DEF HandleEnded, TypeOK
  <2>2. CASE ~ (Active /\ chunk = Current /\ state = "playing")
    BY <1>0, <1>3, <2>2 DEF HandleEnded, TypeOK
  <2> QED BY <2>1, <2>2
<1>4. CASE HandleSinkError(chunk)
  <2>1. CASE Active /\ chunk = Current
    <3> DEFINE q == Marked(queue[session], currentIndex, "error")
    <3>1. queue' = [queue EXCEPT ![session] = q]
      BY <1>4, <2>1 DEF HandleSinkError
    <3>2. q \in QueueView
      BY <1>1, <2>1, MarkedType
    <3> HIDE DEF q
    <3>3. queue' \in [Sessions -> QueueView]
      BY <1>1, <2>1, <3>1, <3>2 DEF TypeOK
    <3>4. calls' \subseteq Call
      BY <1>1, <1>4, <2>1, SuspendedType DEF HandleSinkError
    <3> QED BY <1>0, <1>4, <3>3, <3>4 DEF HandleSinkError, TypeOK
  <2>2. CASE ~ (Active /\ chunk = Current)
    BY <1>0, <1>4, <2>2 DEF HandleSinkError, TypeOK
  <2> QED BY <2>1, <2>2
<1> QED BY <1>2, <1>3, <1>4 DEF Handles

(* A posted event is the last of the inbox.                                *)
LEMMA PostedType ==
  ASSUME TypeOK, NEW type, NEW mode, Post(type, mode),
         [type |-> type, chunk |-> view.chunk] \in Event
  PROVE  /\ inbox' \in Seq(Event) /\ Len(inbox') <= MaxEvents
         /\ Len(inbox) \in Nat /\ Len(inbox') = Len(inbox) + 1
         /\ \A j \in 1 .. Len(inbox) : inbox'[j] = inbox[j]
         /\ inbox'[Len(inbox) + 1].chunk = view.chunk
<1> DEFINE e == [type |-> type, chunk |-> view.chunk]
<1>1. /\ e \in Event /\ e.chunk = view.chunk
      /\ inbox \in Seq(Event) /\ inbox' = Append(inbox, e) /\ Len(inbox) < MaxEvents
  BY DEF TypeOK, Post
<1> HIDE DEF e
<1>2. Append(inbox, e) \in Seq(Event) /\ Len(Append(inbox, e)) = Len(inbox) + 1
  BY <1>1
<1>3. /\ \A j \in 1 .. Len(inbox) : Append(inbox, e)[j] = inbox[j]
      /\ Append(inbox, e)[Len(inbox) + 1] = e
  BY <1>1
<1> QED BY <1>1, <1>2, <1>3, BoundAssumption

(* What the audio surface does keeps the types.                            *)
LEMMA SurfaceType ==
  ASSUME TypeOK, ViewTicks \/ ViewEnds \/ ViewFails
  PROVE  TypeOK'
<1>1. PICK type \in {"timeupdate", "ended", "error"}, mode \in Modes : Post(type, mode)
  BY DEF ViewTicks, ViewEnds, ViewFails, Modes
<1>2. [type |-> type, chunk |-> view.chunk] \in Event
  BY DEF Event, TypeOK
<1>3. inbox' \in Seq(Event) /\ Len(inbox') <= MaxEvents
  BY <1>1, <1>2, PostedType
<1>4. view' \in [chunk : Chunk, mode : Modes]
  BY <1>1 DEF Post, TypeOK
<1> QED BY <1>1, <1>3, <1>4 DEF Post, TypeOK

(* A settled chunk keeps the types.                                        *)
LEMMA SettlesType ==
  ASSUME TypeOK, NEW s \in Sessions, NEW i \in Index, NEW st \in Settled,
         QueueSettles(s, i, st)
  PROVE  TypeOK'
<1>1. Answered(queue[s], i, st) \in QueueView
  BY AnsweredType DEF TypeOK
<1>2. queue' \in [Sessions -> QueueView]
  BY <1>1 DEF QueueSettles, TypeOK
<1> QED BY <1>2 DEF QueueSettles, TypeOK

(* The types hold at first.                                                *)
LEMMA InitType == Init => TypeOK
<1>1. Fresh(0) \in QueueView
  BY FreshType, SizeAssumption
<1>2. << >> \in Seq(Event) /\ Len(<< >>) = 0
  OBVIOUS
<1> SUFFICES ASSUME Init PROVE TypeOK
  OBVIOUS
<1>3. queue \in [Sessions -> QueueView]
  BY <1>1 DEF Init
<1>4. inbox \in Seq(Event) /\ Len(inbox) <= MaxEvents
  BY <1>2, BoundAssumption DEF Init
<1>5. view \in [chunk : Chunk, mode : Modes]
  BY DEF Init, Unloaded, Chunk, Modes
<1>6. /\ state \in States /\ session \in 0 .. MaxSessions /\ calls \subseteq Call
      /\ currentIndex \in Index /\ commands \in 0 .. MaxCommands
  BY SizeAssumption, BoundAssumption DEF Init, States, Index
<1>7. position \in {"head", "deep"} /\ awaiting \in {NoIndex} \cup 0 .. MaxChunks
  BY DEF Init
<1>8. sealed \in BOOLEAN /\ disposed \in BOOLEAN
  BY DEF Init
<1> QED BY <1>3, <1>4, <1>5, <1>6, <1>7, <1>8 DEF TypeOK

(* Every step keeps the types.                                             *)
LEMMA NextType == TypeOK /\ [Next]_vars => TypeOK'
<1> SUFFICES ASSUME TypeOK, [Next]_vars PROVE TypeOK'
  OBVIOUS
<1>1. CASE Next
  BY <1>1, UserCommandType, NarratorType, ResolvesType, HandlesType, SurfaceType, SettlesType
  DEF Next
<1>2. CASE UNCHANGED vars
  BY <1>2 DEF vars, TypeOK
<1> QED BY <1>1, <1>2

(* Type correctness of the player.                                         *)
THEOREM TypesHold == Spec => []TypeOK
BY InitType, NextType, PTL DEF Spec
-----------------------------------------------------------------------------
(* The inductive invariant.                                                *)

(* A chunk the player or the audio surface speaks of, in a session there   *)
(* has been, is in the queue of that session.                              *)
Exists(k) ==
  \/ k = << 0, 0 >>
  \/ queue[k[1]].status[k[2]] # "absent" /\ (disposed \/ k[1] <= session)

ChunksExist ==
  /\ \A s \in Sessions : Prefix(queue[s])
  /\ Exists(view.chunk)
  /\ \A j \in 1 .. Len(inbox) : Exists(inbox[j].chunk)
  /\ \A c \in Plays : Exists(<< c.session, c.index >>)

(* A play waits for an answer that is to come, or for the surface to load  *)
(* its chunk.                                                              *)
PlaysBacked ==
  /\ NoOrphanedPlay
  /\ \A c \in Plays : c.at = "load" => view.chunk = << c.session, c.index >>

(* What the surface does while nobody is about to tell it otherwise.       *)
SurfaceFollows ==
  /\ disposed => session = 0
  /\ session = 0 => view.mode = "unloaded"
  /\ SilentWhenQuiet
  /\ Active /\ state \in {"playing", "paused"} /\ Plays = {} /\ ~ Deciding
       => view.chunk = Current

(* Only an unsealed session is waited for.                                 *)
ParkIsOpen == Active /\ awaiting # NoIndex => ~ sealed /\ state \in {"preparing", "error"}

IInv ==
  /\ TypeOK /\ ChunksExist /\ OnePlayInFlight /\ PlaysBacked /\ SurfaceFollows
  /\ ParkIsOpen

(* All of it but the types.                                                *)
Rest == ChunksExist /\ OnePlayInFlight /\ PlaysBacked /\ SurfaceFollows /\ ParkIsOpen

(* What every step but a new session does to the chunks there are, and     *)
(* what every step but one of the surface does to the inbox.               *)
StatusesKept ==
  \A s \in Sessions, i \in Index :
    (disposed \/ s <= session) /\ queue[s].status[i] # "absent"
      => queue'[s].status[i] # "absent"

GoesOn    == disposed' \/ (~ disposed /\ session <= session')
InboxKept == \A j \in 1 .. Len(inbox') : \E l \in 1 .. Len(inbox) : inbox'[j] = inbox[l]

-----------------------------------------------------------------------------
(* What the internal methods do to the invariant.                          *)

(* A chunk that exists goes on existing.                                   *)
LEMMA ExistsKept ==
  ASSUME TypeOK, StatusesKept, GoesOn, session' \in Int
  PROVE  \A k \in Chunk : Exists(k) => Exists(k)'
<1> SUFFICES ASSUME NEW k \in Chunk, Exists(k), k # << 0, 0 >>
             PROVE  Exists(k)'
  BY DEF Exists
<1>1. PICK s \in Sessions, i \in Index : k = << s, i >>
  BY DEF Chunk
<1>2. queue[s].status[i] # "absent" /\ (disposed \/ s <= session)
  BY <1>1 DEF Exists
<1>3. queue'[s].status[i] # "absent"
  BY <1>2 DEF StatusesKept
<1>4. disposed' \/ s <= session'
  BY <1>2 DEF GoesOn, Sessions, TypeOK
<1> QED BY <1>1, <1>3, <1>4 DEF Exists

(* So do the chunks of the events.                                         *)
LEMMA InboxExists ==
  ASSUME TypeOK, ChunksExist, StatusesKept, GoesOn, session' \in Int, InboxKept
  PROVE  (\A j \in 1 .. Len(inbox) : Exists(inbox[j].chunk))'
<1> SUFFICES ASSUME NEW j \in 1 .. Len(inbox')
             PROVE  Exists(inbox[j].chunk)'
  OBVIOUS
<1>1. PICK l \in 1 .. Len(inbox) : inbox'[j] = inbox[l]
  BY DEF InboxKept
<1>2. inbox[l] \in Event
  BY DEF TypeOK
<1>3. Exists(inbox[l].chunk) /\ inbox[l].chunk \in Chunk
  BY <1>2 DEF ChunksExist, Event
<1> QED BY <1>1, <1>3, ExistsKept

(* The calls an overtaking method leaves: its own, if its chunk exists.    *)
LEMMA PlayIndexPlays ==
  ASSUME NEW s \in Sessions, NEW i \in Index, NEW S \in SUBSET Call,
         NEW q \in QueueView, NEW st \in States, PlayIndex(s, i, S, q, st)
  PROVE  Plays' = IF q.status[i] = "absent" THEN {} ELSE {Suspended("wait", s, i)}
<1>1. calls' = Outdated(S) \cup
               {Suspended("wait", s, j) : j \in {k \in {i} : q.status[k] # "absent"}}
  BY DEF PlayIndex
<1>2. Plays' = PlaysOf(calls')
  BY DEF Plays, PlaysOf
<1>3. PlaysOf(Outdated(S)) = {}
  BY OutdatedType
<1>4. Suspended("wait", s, i).at = "wait" /\ Suspended("wait", s, i).fresh
  BY SuspendedType
<1>5. CASE q.status[i] = "absent"
  <2>1. calls' = Outdated(S)
    BY <1>1, <1>5
  <2> QED BY <1>2, <1>3, <1>5, <2>1
<1>6. CASE q.status[i] # "absent"
  <2>1. calls' = Outdated(S) \cup {Suspended("wait", s, i)}
    BY <1>1, <1>6
  <2>2. PlaysOf(calls') = PlaysOf(Outdated(S)) \cup PlaysOf({Suspended("wait", s, i)})
    BY <2>1 DEF PlaysOf
  <2>3. PlaysOf({Suspended("wait", s, i)}) = {Suspended("wait", s, i)}
    BY <1>4 DEF PlaysOf
  <2> QED BY <1>2, <1>3, <1>6, <2>2, <2>3
<1> QED BY <1>5, <1>6

(* playIndex() in the active session, of a queue `q` that has at least the *)
(* chunks there were.                                                      *)
LEMMA PlayIndexRest ==
  ASSUME TypeOK, TypeOK', ChunksExist, SurfaceFollows, Active, InboxKept,
         NEW i \in Index, NEW S \in SUBSET Call,
         NEW q \in QueueView, NEW st \in States, Prefix(q),
         \A j \in Index : queue[session].status[j] # "absent" => q.status[j] # "absent",
         PlayIndex(session, i, S, q, st), UNCHANGED << session, disposed, view >>
  PROVE  Rest'
<1> DEFINE r == Asked(Resumed(q), i)
           c == Suspended("wait", session, i)
<1>1. session \in Sessions /\ session' \in Int
  BY BoundAssumption DEF TypeOK, Active, Sessions
<1>2. /\ r \in QueueView /\ r.status = q.status
      /\ q.status[i] = "pending" => i \in r.waiting
  BY ResumedType, AskedType
<1>3. queue' = [queue EXCEPT ![session] = r]
  BY DEF PlayIndex
<1> HIDE DEF r
<1>4. queue'[session] = r /\ \A s \in Sessions : s # session => queue'[s] = queue[s]
  BY <1>1, <1>3 DEF TypeOK
<1>5. Plays' = IF q.status[i] = "absent" THEN {} ELSE {c}
  BY <1>1, PlayIndexPlays
<1>6. c.at = "wait" /\ c.session = session /\ c.index = i
  BY <1>1, SuspendedType
<1> HIDE DEF c
<1>7. StatusesKept /\ GoesOn
  BY <1>1, <1>2, <1>4 DEF StatusesKept, GoesOn, Active
<1>8. ChunksExist'
  <2>1. \A s \in Sessions : Prefix(queue'[s])
    BY <1>2, <1>4 DEF Prefix, ChunksExist
  <2>2. Exists(view.chunk)'
    BY <1>1, <1>7, ExistsKept DEF ChunksExist, TypeOK
  <2>3. (\A j \in 1 .. Len(inbox) : Exists(inbox[j].chunk))'
    BY <1>1, <1>7, InboxExists
  <2>4. ASSUME NEW d \in Plays' PROVE Exists(<< d.session, d.index >>)'
    <3>1. d = c /\ q.status[i] # "absent"
      BY <1>5, <2>4
    <3>2. queue'[session].status[i] # "absent"
      BY <1>2, <1>4, <3>1
    <3> QED BY <1>1, <1>6, <3>1, <3>2 DEF Exists, Sessions
  <2> QED BY <2>1, <2>2, <2>3, <2>4 DEF ChunksExist
<1>9. OnePlayInFlight'
  BY <1>5, <1>6 DEF OnePlayInFlight, Current, PlayIndex
<1>10. PlaysBacked'
  <2>1. ASSUME NEW d \in Plays'
        PROVE  /\ d.at = "wait"
               /\ d.index \notin queue'[d.session].waiting
                    => queue'[d.session].status[d.index] # "pending"
    BY <1>2, <1>4, <1>5, <1>6, <2>1
  <2> QED BY <2>1 DEF PlaysBacked, NoOrphanedPlay
<1>11. Plays' = {} => state' \in {"preparing", "buffering"}
  BY <1>5 DEF PlayIndex
<1>12. SurfaceFollows'
  BY <1>11 DEF SurfaceFollows, SilentWhenQuiet, Active
<1>13. ParkIsOpen'
  BY DEF ParkIsOpen, PlayIndex
<1> QED BY <1>8, <1>9, <1>10, <1>12, <1>13 DEF Rest

(* Everything that overtakes the plays and stops the sink.                 *)
LEMMA HaltRest ==
  ASSUME TypeOK, TypeOK', ChunksExist, Active, InboxKept,
         NEW S \in SUBSET Call, NEW q \in QueueView, Prefix(q),
         \A j \in Index : queue[session].status[j] # "absent" => q.status[j] # "absent",
         calls' = Outdated(S), view' = Unloaded,
         queue' = [queue EXCEPT ![session] = q],
         UNCHANGED << session, disposed >>,
         state' \notin {"playing", "paused"}, ParkIsOpen'
  PROVE  Rest'
<1>1. session \in Sessions /\ session' \in Int
  BY BoundAssumption DEF TypeOK, Active, Sessions
<1>2. queue'[session] = q /\ \A s \in Sessions : s # session => queue'[s] = queue[s]
  BY <1>1 DEF TypeOK
<1>3. Plays' = {}
  BY OutdatedType DEF Plays, PlaysOf
<1>4. StatusesKept /\ GoesOn
  BY <1>1, <1>2 DEF StatusesKept, GoesOn, Active
<1>5. ChunksExist'
  <2>1. \A s \in Sessions : Prefix(queue'[s])
    BY <1>2 DEF ChunksExist
  <2>2. Exists(view.chunk)'
    BY DEF Exists, Unloaded
  <2>3. (\A j \in 1 .. Len(inbox) : Exists(inbox[j].chunk))'
    BY <1>1, <1>4, InboxExists
  <2> QED BY <1>3, <2>1, <2>2, <2>3 DEF ChunksExist
<1>6. OnePlayInFlight' /\ PlaysBacked'
  BY <1>3 DEF OnePlayInFlight, PlaysBacked, NoOrphanedPlay
<1>7. SurfaceFollows'
  BY DEF SurfaceFollows, SilentWhenQuiet, Active, Unloaded
<1> QED BY <1>5, <1>6, <1>7 DEF Rest

(* next(): the following chunk, the end of the session, or the park.       *)
LEMMA AdvanceRest ==
  ASSUME TypeOK, TypeOK', Rest, Active, InboxKept,
         NEW S \in SUBSET Call, NEW q \in QueueView, Prefix(q), NEW c \in Index,
         \A j \in Index : queue[session].status[j] # "absent" => q.status[j] # "absent",
         Advance(S, q, c), UNCHANGED << session, sealed, disposed >>
  PROVE  Rest'
<1>1. CASE c + 1 < Length(q) /\ PlayIndex(session, c + 1, S, q, state) /\ UNCHANGED view
  <2>1. c + 1 \in Index /\ state \in States
    BY <1>1, LengthType, SizeAssumption DEF Index, TypeOK
  <2> QED BY <1>1, <2>1, PlayIndexRest DEF Rest
<1>2. CASE sealed /\ Finish(S, q, "completed") /\ UNCHANGED awaiting
  <2>1. Cancelled(q) \in QueueView /\ Cancelled(q).status = q.status
    BY CancelledType
  <2>2. Prefix(Cancelled(q))
    BY <2>1 DEF Prefix
  <2>3. ParkIsOpen'
    BY <1>2 DEF Rest, ParkIsOpen, Active
  <2>4. /\ calls' = Outdated(S) /\ view' = Unloaded /\ state' = "completed"
        /\ queue' = [queue EXCEPT ![session] = Cancelled(q)]
    BY <1>2 DEF Finish
  <2> QED BY <2>1, <2>2, <2>3, <2>4, HaltRest DEF Rest
<1>3. CASE /\ ~ sealed /\ calls' = Outdated(S) /\ view' = Unloaded
           /\ state' = "preparing" /\ queue' = [queue EXCEPT ![session] = q]
  <2>1. ParkIsOpen'
    BY <1>3 DEF ParkIsOpen
  <2> QED BY <1>3, <2>1, HaltRest DEF Rest
<1> QED BY <1>1, <1>2, <1>3 DEF Advance

-----------------------------------------------------------------------------
(* Every action keeps the invariant.                                       *)

(* start(): a new session begins with its first chunk asked for, or none.  *)
LEMMA StartRest ==
  ASSUME TypeOK, TypeOK', Rest, NEW n \in MinChunks .. MaxChunks, NEW seal \in BOOLEAN,
         Start(n, seal)
  PROVE  Rest'
<1> DEFINE s    == session + 1
           torn == [t \in Sessions |-> IF t = session THEN Disposed(queue[t]) ELSE queue[t]]
           new  == IF n > 0 THEN Asked(Fresh(n), 0) ELSE Fresh(0)
           c    == Suspended("wait", s, 0)
<1>1. /\ s \in Sessions /\ n \in 0 .. MaxChunks /\ 0 \in Index
      /\ session' = s /\ ~ disposed /\ ~ disposed' /\ session \in Nat
  BY BoundAssumption, SizeAssumption DEF Start, Index, TypeOK
<1>2. new \in QueueView /\ Prefix(new)
  <2>1. 0 \in 0 .. MaxChunks
    BY SizeAssumption
  <2>2. \A m \in 0 .. MaxChunks : Fresh(m) \in QueueView /\ Prefix(Fresh(m))
    BY FreshType
  <2>3. Asked(Fresh(n), 0) \in QueueView /\ Asked(Fresh(n), 0).status = Fresh(n).status
    BY <1>1, <2>2, AskedType
  <2>4. Prefix(Asked(Fresh(n), 0))
    BY <1>1, <2>2, <2>3 DEF Prefix
  <2> QED BY <2>1, <2>2, <2>3, <2>4
<1>3. n > 0 => new.status[0] = "pending" /\ 0 \in new.waiting
  BY <1>1, FreshType, AskedType DEF Fresh
<1>4. torn \in [Sessions -> QueueView] /\ \A t \in Sessions : torn[t].status = queue[t].status
  BY DisposedType DEF TypeOK
<1>5. queue' = [torn EXCEPT ![s] = new]
  BY DEF Start
<1> HIDE DEF new, torn
<1>6. queue'[s] = new /\ \A t \in Sessions : t # s => queue'[t].status = queue[t].status
  BY <1>1, <1>4, <1>5
<1>7. Plays' = IF n > 0 THEN {c} ELSE {}
  <2>1. calls' = Outdated(calls) \cup {Suspended("wait", s, i) : i \in {j \in {0} : n > 0}}
    BY DEF Start
  <2>2. calls' = Outdated(calls) \cup (IF n > 0 THEN {c} ELSE {})
    BY <2>1
  <2>3. Plays' = PlaysOf(Outdated(calls)) \cup PlaysOf(IF n > 0 THEN {c} ELSE {})
    BY <2>2 DEF Plays, PlaysOf
  <2>4. PlaysOf(Outdated(calls)) = {}
    BY OutdatedType DEF TypeOK
  <2>5. PlaysOf({c}) = {c} /\ PlaysOf({}) = {}
    BY <1>1, SuspendedType DEF PlaysOf
  <2> QED BY <2>3, <2>4, <2>5
<1>8. c.at = "wait" /\ c.session = s /\ c.index = 0
  BY <1>1, SuspendedType
<1> HIDE DEF c
<1>9. StatusesKept /\ GoesOn /\ InboxKept
  BY <1>1, <1>6 DEF StatusesKept, GoesOn, InboxKept, Start
<1>10. ChunksExist'
  <2>1. \A t \in Sessions : Prefix(queue'[t])
    BY <1>2, <1>6 DEF Prefix, ChunksExist, Rest
  <2>2. Exists(view.chunk)'
    BY DEF Exists, Unloaded, Start
  <2>3. (\A j \in 1 .. Len(inbox) : Exists(inbox[j].chunk))'
    BY <1>1, <1>9, InboxExists DEF Rest
  <2>4. ASSUME NEW d \in Plays' PROVE Exists(<< d.session, d.index >>)'
    <3>1. d = c /\ n > 0
      BY <1>7, <2>4
    <3>2. queue'[s].status[0] # "absent"
      BY <1>3, <1>6, <3>1
    <3> QED BY <1>1, <1>8, <3>1, <3>2 DEF Exists
  <2> QED BY <2>1, <2>2, <2>3, <2>4 DEF ChunksExist
<1>11. OnePlayInFlight'
  BY <1>1, <1>7, <1>8 DEF OnePlayInFlight, Current, Start
<1>12. PlaysBacked'
  BY <1>3, <1>6, <1>7, <1>8 DEF PlaysBacked, NoOrphanedPlay
<1>13. SurfaceFollows' /\ ParkIsOpen'
  BY <1>1 DEF SurfaceFollows, SilentWhenQuiet, ParkIsOpen, Start, Unloaded, Active
<1> QED BY <1>10, <1>11, <1>12, <1>13 DEF Rest

(* pause() and resume() leave the chunk, the queue and the calls alone.    *)
LEMMA PauseRest ==
  ASSUME TypeOK, TypeOK', Rest, Pause \/ Resume
  PROVE  Rest'
<1>1. /\ UNCHANGED << session, sealed, currentIndex, position, awaiting, calls, disposed,
                      queue, inbox >>
      /\ Active /\ view'.chunk = view.chunk
      /\ state \in {"playing", "paused"} /\ state' \in {"playing", "paused"}
      /\ state' = "paused" => view'.mode # "playing"
  BY DEF Pause, Resume, Paused, Played, TypeOK
<1>2. Plays' = Plays /\ Deciding' = Deciding
  BY <1>1 DEF Plays, Deciding
<1>3. ChunksExist'
  BY <1>1, <1>2 DEF ChunksExist, Exists, Rest
<1>4. OnePlayInFlight' /\ PlaysBacked'
  BY <1>1, <1>2 DEF OnePlayInFlight, PlaysBacked, NoOrphanedPlay, Current, Rest
<1>5. SurfaceFollows'
  BY <1>1, <1>2 DEF SurfaceFollows, SilentWhenQuiet, Active, Current, Rest
<1>6. ParkIsOpen'
  BY <1>1 DEF ParkIsOpen, Active, Rest
<1> QED BY <1>3, <1>4, <1>5, <1>6 DEF Rest

(* dispose(): nothing goes on, nothing is heard.                           *)
LEMMA DisposeRest ==
  ASSUME TypeOK, TypeOK', Rest, Dispose
  PROVE  Rest'
<1>1. \A t \in Sessions : queue'[t].status = queue[t].status
  BY DisposedType DEF Dispose, TypeOK
<1>2. Plays' = {}
  BY OutdatedType DEF Dispose, Plays, PlaysOf, TypeOK
<1>3. StatusesKept /\ GoesOn /\ InboxKept /\ session' \in Int
  <2>1. StatusesKept
    BY <1>1 DEF StatusesKept
  <2>2. GoesOn
    BY DEF Dispose, GoesOn
  <2>3. InboxKept
    <3>1. inbox' = inbox
      BY DEF Dispose
    <3> QED BY <3>1 DEF InboxKept
  <2>4. session' \in Int
    BY DEF Dispose
  <2> QED BY <2>1, <2>2, <2>3, <2>4
<1>4. ChunksExist'
  <2>1. \A t \in Sessions : Prefix(queue'[t])
    BY <1>1 DEF Prefix, ChunksExist, Rest
  <2>2. Exists(view.chunk)'
    BY DEF Exists, Unloaded, Dispose
  <2>3. (\A j \in 1 .. Len(inbox) : Exists(inbox[j].chunk))'
    BY <1>3, InboxExists DEF Rest
  <2> QED BY <1>2, <2>1, <2>2, <2>3 DEF ChunksExist
<1>5. OnePlayInFlight' /\ PlaysBacked'
  BY <1>2 DEF OnePlayInFlight, PlaysBacked, NoOrphanedPlay
<1>6. SurfaceFollows' /\ ParkIsOpen'
  BY DEF SurfaceFollows, SilentWhenQuiet, ParkIsOpen, Active, Dispose, Unloaded
<1> QED BY <1>4, <1>5, <1>6 DEF Rest

(* A command of the user keeps the invariant.                              *)
LEMMA UserCommandRest ==
  ASSUME TypeOK, TypeOK', Rest, UserCommand
  PROVE  Rest'
<1>1. Active => /\ session \in Sessions /\ queue[session] \in QueueView
                /\ calls \in SUBSET Call /\ currentIndex \in Index /\ state \in States
                /\ Prefix(queue[session])
  BY BoundAssumption DEF TypeOK, Active, Sessions, Rest, ChunksExist
<1>2. UNCHANGED inbox => InboxKept
  BY DEF InboxKept
<1>3. ASSUME NEW n \in MinChunks .. MaxChunks, NEW seal \in BOOLEAN, Start(n, seal)
      PROVE  Rest'
  BY <1>3, StartRest
<1>4. CASE Pause \/ Resume
  BY <1>4, PauseRest
<1>5. CASE Stop
  <2> DEFINE q == Cancelled(queue[session])
  <2>1. /\ Active /\ calls' = Outdated(calls) /\ view' = Unloaded /\ state' = "stopped"
        /\ queue' = [queue EXCEPT ![session] = q]
        /\ UNCHANGED << session, sealed, disposed, inbox >> /\ awaiting' = NoIndex
    BY <1>5 DEF Stop, Finish
  <2>2. q \in QueueView /\ q.status = queue[session].status
    BY <1>1, <2>1, CancelledType
  <2>3. Prefix(q)
    BY <1>1, <2>1, <2>2 DEF Prefix
  <2>4. ParkIsOpen'
    BY <2>1 DEF ParkIsOpen
  <2> HIDE DEF q
  <2> QED BY <1>1, <1>2, <2>1, <2>2, <2>3, <2>4, HaltRest DEF Rest
<1>6. CASE Skip
  BY <1>1, <1>2, <1>6, AdvanceRest DEF Skip
<1>7. CASE Previous
  <2> DEFINE i == IF position = "head" /\ currentIndex > 0
                  THEN currentIndex - 1 ELSE currentIndex
  <2>1. i \in Index /\ Active
    BY <1>7, SizeAssumption DEF TypeOK, Index, Previous
  <2>2. /\ PlayIndex(session, i, calls, queue[session], state)
        /\ UNCHANGED << session, disposed, view, inbox >>
    BY <1>7 DEF Previous
  <2> HIDE DEF i
  <2> QED BY <1>1, <1>2, <2>1, <2>2, PlayIndexRest DEF Rest
<1>8. CASE RetryCurrentChunk
  <2> DEFINE q == Rearmed(queue[session], currentIndex)
  <2>1. /\ Active /\ PlayIndex(session, currentIndex, calls, q, state)
        /\ UNCHANGED << session, disposed, view, inbox >>
    BY <1>8 DEF RetryCurrentChunk
  <2>2. /\ q \in QueueView
        /\ \A j \in Index : q.status[j] = "absent" <=> queue[session].status[j] = "absent"
    BY <1>1, <2>1, RearmedType
  <2>3. Prefix(q)
    BY <1>1, <2>1, <2>2 DEF Prefix
  <2> HIDE DEF q
  <2> QED BY <1>1, <1>2, <2>1, <2>2, <2>3, PlayIndexRest DEF Rest
<1>9. CASE Dispose
  BY <1>9, DisposeRest
<1> QED BY <1>3, <1>4, <1>5, <1>6, <1>7, <1>8, <1>9 DEF UserCommand

(* appendSegments() adds chunks the calls under way are not about.         *)
LEMMA AppendRest ==
  ASSUME TypeOK, TypeOK', Rest, NEW n \in 1 .. MaxChunks, AppendSegments(n)
  PROVE  Rest'
<1> DEFINE q == Appended(queue[session], n)
<1>1. /\ Active /\ session \in Sessions /\ session' \in Int /\ state \in States
      /\ queue[session] \in QueueView /\ Prefix(queue[session])
      /\ calls \in SUBSET Call
      /\ Length(queue[session]) + n <= MaxChunks
      /\ UNCHANGED << session, sealed, disposed, view, inbox >>
  BY BoundAssumption DEF TypeOK, Active, Sessions, Rest, ChunksExist, AppendSegments
<1>2. /\ q \in QueueView /\ q.waiting = queue[session].waiting /\ Prefix(q)
      /\ \A i \in Index : queue[session].status[i] # "absent"
                          => q.status[i] = queue[session].status[i]
  BY <1>1, AppendedType
<1>3. awaiting \in {NoIndex} \cup 0 .. MaxChunks /\ Length(q) \in 0 .. MaxChunks
  BY <1>2, LengthType DEF TypeOK
<1>4. InboxKept
  BY <1>1 DEF InboxKept
<1>5. CASE awaiting # NoIndex /\ awaiting < Length(q)
  <2>1. awaiting \in Index
    BY <1>3, <1>5, SizeAssumption DEF Index
  <2>2. ~ (awaiting = NoIndex \/ awaiting >= Length(q))
    BY <1>3, <1>5
  <2>3. PlayIndex(session, awaiting, calls, q, state)
    BY <2>2 DEF AppendSegments
  <2> HIDE DEF q
  <2> QED BY <1>1, <1>2, <1>4, <2>1, <2>3, PlayIndexRest DEF Rest
<1>6. CASE ~ (awaiting # NoIndex /\ awaiting < Length(q))
  <2>1. /\ queue' = [queue EXCEPT ![session] = q]
        /\ UNCHANGED << state, currentIndex, position, awaiting, calls >>
    BY <1>6 DEF AppendSegments
  <2> HIDE DEF q
  <2>2. queue'[session] = q /\ \A s \in Sessions : s # session => queue'[s] = queue[s]
    BY <1>1, <2>1 DEF TypeOK
  <2>3. Plays' = Plays /\ Deciding' = Deciding
    BY <2>1 DEF Plays, Deciding
  <2>4. StatusesKept /\ GoesOn
    BY <1>1, <1>2, <2>2 DEF StatusesKept, GoesOn, Active
  <2>5. \A c \in Plays : << c.session, c.index >> \in Chunk /\ c.session = session
                        /\ c.index \in Index
    BY DEF Plays, TypeOK, Call, Chunk, Rest, OnePlayInFlight, Current
  <2>6. ChunksExist'
    <3>1. \A s \in Sessions : Prefix(queue'[s])
      BY <1>2, <2>2 DEF ChunksExist, Rest
    <3>2. Exists(view.chunk)'
      BY <1>1, <2>4, ExistsKept DEF ChunksExist, Rest, TypeOK
    <3>3. (\A j \in 1 .. Len(inbox) : Exists(inbox[j].chunk))'
      BY <1>1, <1>4, <2>4, InboxExists DEF Rest
    <3>4. \A c \in Plays : Exists(<< c.session, c.index >>)'
      BY <1>1, <2>4, <2>5, ExistsKept DEF ChunksExist, Rest
    <3> QED BY <2>3, <3>1, <3>2, <3>3, <3>4 DEF ChunksExist
  <2>7. OnePlayInFlight'
    BY <1>1, <2>1, <2>3 DEF OnePlayInFlight, Current, Rest
  <2>8. PlaysBacked'
    <3>1. ASSUME NEW c \in Plays, c.at = "wait",
                 c.index \notin queue'[c.session].waiting
          PROVE  queue'[c.session].status[c.index] # "pending"
      <4>1. Exists(<< c.session, c.index >>)
        BY DEF Rest, ChunksExist
      <4>2. queue[session].status[c.index] # "absent"
        <5>1. c.session = session /\ session # 0
          BY <1>1, <2>5 DEF Active
        <5>2. << c.session, c.index >> # << 0, 0 >>
          BY <5>1
        <5> QED BY <4>1, <5>1, <5>2 DEF Exists
      <4>3. queue[session].status[c.index] # "pending"
        BY <1>2, <2>2, <2>5, <3>1 DEF Rest, PlaysBacked, NoOrphanedPlay
      <4> QED BY <1>2, <2>2, <2>5, <4>2, <4>3
    <3> QED BY <1>1, <2>3, <3>1 DEF PlaysBacked, NoOrphanedPlay, Rest
  <2>9. SurfaceFollows' /\ ParkIsOpen'
    BY <1>1, <2>1, <2>3
    DEF SurfaceFollows, SilentWhenQuiet, ParkIsOpen, Active, Current, Rest
  <2> QED BY <2>6, <2>7, <2>8, <2>9 DEF Rest
<1> QED BY <1>5, <1>6

(* sealSegments() ends a session that waits for a segment.                 *)
LEMMA SealRest ==
  ASSUME TypeOK, TypeOK', Rest, SealSegments
  PROVE  Rest'
<1>1. /\ Active /\ session \in Sessions /\ queue[session] \in QueueView
      /\ Prefix(queue[session]) /\ calls \in SUBSET Call
      /\ awaiting' = NoIndex
      /\ UNCHANGED << session, currentIndex, position, disposed, inbox >>
  BY BoundAssumption DEF TypeOK, Active, Sessions, Rest, ChunksExist, SealSegments
<1>2. InboxKept
  <2>1. inbox' = inbox
    BY <1>1
  <2> QED BY <2>1 DEF InboxKept
<1>3. ParkIsOpen'
  BY <1>1 DEF ParkIsOpen
<1>4. CASE awaiting # NoIndex
  <2> DEFINE q == Cancelled(queue[session])
  <2>1. /\ calls' = Outdated(calls) /\ view' = Unloaded /\ state' = "completed"
        /\ queue' = [queue EXCEPT ![session] = q]
    BY <1>4 DEF SealSegments, Finish
  <2>2. q \in QueueView /\ q.status = queue[session].status
    BY <1>1, CancelledType
  <2>3. Prefix(q)
    BY <1>1, <2>2 DEF Prefix
  <2> HIDE DEF q
  <2> QED BY <1>1, <1>2, <1>3, <2>1, <2>2, <2>3, HaltRest DEF Rest
<1>5. CASE awaiting = NoIndex
  <2>1. UNCHANGED << state, calls, queue, view >>
    BY <1>5 DEF SealSegments
  <2>2. Plays' = Plays /\ Deciding' = Deciding
    BY <2>1 DEF Plays, Deciding
  <2>3. ChunksExist'
    BY <1>1, <2>1, <2>2 DEF ChunksExist, Exists, Rest
  <2>4. OnePlayInFlight' /\ PlaysBacked' /\ SurfaceFollows'
    BY <1>1, <2>1, <2>2
    DEF OnePlayInFlight, PlaysBacked, NoOrphanedPlay, SurfaceFollows, SilentWhenQuiet,
        Active, Current, Rest
  <2> QED BY <1>3, <2>3, <2>4 DEF Rest
<1> QED BY <1>4, <1>5

(* A call that finds itself overtaken, or the player gone, leaves no trace *)
(* but that it is no longer suspended.                                     *)
LEMMA DropRest ==
  ASSUME TypeOK, TypeOK', Rest, NEW c \in calls, Drop(c),
         UNCHANGED << session, sealed, disposed, inbox, commands >>,
         c \notin Plays, c.at = "decide" => ~ Active
  PROVE  Rest'
<1>1. UNCHANGED << state, currentIndex, position, awaiting, queue, view >>
  BY DEF Drop
<1>2. Plays' = Plays
  BY DEF Drop, Plays
<1>3. Active => Deciding' = Deciding
  BY DEF Drop, Deciding
<1>4. ChunksExist'
  BY <1>1, <1>2 DEF ChunksExist, Exists, Rest
<1>5. OnePlayInFlight' /\ PlaysBacked'
  BY <1>1, <1>2 DEF OnePlayInFlight, PlaysBacked, NoOrphanedPlay, Current, Rest
<1>6. SurfaceFollows'
  <2>1. SilentWhenQuiet'
    BY <1>1, <1>2, <1>3 DEF SurfaceFollows, SilentWhenQuiet, Active, Rest
  <2> QED BY <1>1, <1>2, <1>3, <2>1 DEF SurfaceFollows, Active, Current, Rest
<1>7. ParkIsOpen'
  BY <1>1 DEF ParkIsOpen, Active, Rest
<1> QED BY <1>4, <1>5, <1>6, <1>7 DEF Rest

(* A play under way is the only one, of the current chunk, and not stale.  *)
LEMMA PlayIsCurrent ==
  ASSUME TypeOK, Rest, NEW c \in Plays
  PROVE  /\ Plays = {c} /\ c.session = session /\ c.index = currentIndex
         /\ Active /\ awaiting = NoIndex /\ ~ Stale(c)
         /\ session \in Sessions /\ currentIndex \in Index /\ c \in Call
         /\ queue[session].status[currentIndex] # "absent"
<1>1. c \in Call /\ c.fresh /\ c.session \in Sessions /\ c.index \in Index
  BY DEF Plays, TypeOK, Call
<1>2. Plays = {c} /\ c.session = session /\ c.index = currentIndex /\ awaiting = NoIndex
  BY DEF Rest, OnePlayInFlight, Current
<1>3. session # 0
  BY <1>1, <1>2 DEF Sessions
<1>4. Active /\ ~ Stale(c)
  BY <1>1, <1>3 DEF Rest, SurfaceFollows, Active, Stale
<1>5. queue[session].status[currentIndex] # "absent"
  <2>1. Exists(<< c.session, c.index >>)
    BY DEF Rest, ChunksExist
  <2>2. << c.session, c.index >> # << 0, 0 >>
    BY <1>2, <1>3
  <2> QED BY <1>2, <2>1, <2>2 DEF Exists
<1> QED BY <1>1, <1>2, <1>4, <1>5

(* `await queue.waitFor(index)` resolves.                                  *)
LEMMA WaitResolvesRest ==
  ASSUME TypeOK, TypeOK', Rest, NEW c \in calls, WaitResolves(c)
  PROVE  Rest'
<1>0. /\ c.at = "wait" /\ c.index \notin queue[c.session].waiting
      /\ UNCHANGED << session, sealed, disposed, inbox, commands >>
  BY DEF WaitResolves
<1>1. CASE c \notin Plays
  <2>1. Stale(c)
    BY <1>0, <1>1 DEF Plays, Stale
  <2>2. Drop(c)
    BY <2>1 DEF WaitResolves
  <2> QED BY <1>0, <1>1, <2>2, DropRest
<1>2. CASE c \in Plays
  <2>1. /\ Plays = {c} /\ c.session = session /\ c.index = currentIndex
        /\ Active /\ awaiting = NoIndex /\ ~ Stale(c)
        /\ session \in Sessions /\ currentIndex \in Index /\ c \in Call
        /\ queue[session].status[currentIndex] # "absent"
    BY <1>2, PlayIsCurrent
  <2>2. queue[c.session].status[c.index] # "pending"
    BY <1>0, <1>2 DEF Rest, PlaysBacked, NoOrphanedPlay
  <2>3. UNCHANGED << state, currentIndex, position, awaiting, queue >>
    BY <2>1, <2>2 DEF WaitResolves
  <2>4. (\A s \in Sessions : Prefix(queue[s]))'
        /\ (\A j \in 1 .. Len(inbox) : Exists(inbox[j].chunk))'
    BY <1>0, <2>3 DEF Rest, ChunksExist, Exists
  <2>5. ParkIsOpen'
    BY <1>0, <2>3 DEF Rest, ParkIsOpen, Active
  <2>6. CASE /\ calls' = (calls \ {c}) \cup {Suspended("decide", c.session, c.index)}
             /\ UNCHANGED view
    <3> DEFINE d == Suspended("decide", c.session, c.index)
    <3>1. d.at = "decide"
      BY <2>1, SuspendedType
    <3> HIDE DEF d
    <3>2. Plays' = {} /\ Deciding'
      BY <2>1, <2>6, <3>1 DEF Plays, Deciding, d
    <3>3. ChunksExist'
      BY <1>0, <2>3, <2>4, <2>6, <3>2 DEF Rest, ChunksExist, Exists
    <3>4. OnePlayInFlight' /\ PlaysBacked' /\ SurfaceFollows'
      BY <1>0, <2>1, <2>3, <2>6, <3>2
      DEF OnePlayInFlight, PlaysBacked, NoOrphanedPlay, SurfaceFollows, SilentWhenQuiet,
          Active, Rest
    <3> QED BY <2>5, <3>3, <3>4 DEF Rest
  <2>7. CASE /\ calls' = (calls \ {c}) \cup {Suspended("load", c.session, c.index)}
             /\ view' = Loaded(c.session, c.index)
    <3> DEFINE d == Suspended("load", c.session, c.index)
    <3>1. d.at = "load" /\ d.fresh /\ d.session = session /\ d.index = currentIndex
      BY <2>1, SuspendedType
    <3> HIDE DEF d
    <3>2. Plays' = {d}
      BY <2>1, <2>7, <3>1 DEF Plays, d
    <3>3. view'.chunk = << session, currentIndex >>
      BY <2>1, <2>7 DEF Loaded
    <3>4. Exists(<< session, currentIndex >>)'
      BY <1>0, <2>1, <2>3 DEF Exists, Sessions
    <3>5. ChunksExist'
      <4>1. Exists(view.chunk)'
        BY <1>0, <2>3, <3>3, <3>4
      <4>2. ASSUME NEW e \in Plays' PROVE Exists(<< e.session, e.index >>)'
        <5>1. e.session = session /\ e.index = currentIndex
          BY <3>1, <3>2, <4>2
        <5> QED BY <1>0, <2>3, <3>4, <5>1
      <4> QED BY <2>4, <4>1, <4>2 DEF ChunksExist
    <3>6. OnePlayInFlight' /\ PlaysBacked'
      BY <1>0, <2>1, <2>3, <3>1, <3>2, <3>3
      DEF OnePlayInFlight, PlaysBacked, NoOrphanedPlay, Current
    <3>7. SurfaceFollows'
      BY <1>0, <2>1, <3>2 DEF SurfaceFollows, SilentWhenQuiet, Active
    <3> QED BY <2>5, <3>5, <3>6, <3>7 DEF Rest
  <2> QED BY <2>1, <2>2, <2>6, <2>7 DEF WaitResolves
<1> QED BY <1>1, <1>2

(* `await sink.load(...)` resolves.                                        *)
LEMMA LoadResolvesRest ==
  ASSUME TypeOK, TypeOK', Rest, NEW c \in calls, LoadResolves(c)
  PROVE  Rest'
<1>0. c.at = "load" /\ UNCHANGED << session, sealed, disposed, inbox, commands >>
  BY DEF LoadResolves
<1>1. CASE c \notin Plays
  <2>1. Stale(c)
    BY <1>0, <1>1 DEF Plays, Stale
  <2>2. Drop(c)
    BY <2>1 DEF LoadResolves
  <2> QED BY <1>0, <1>1, <2>2, DropRest
<1>2. CASE c \in Plays
  <2> DEFINE m == Marked(queue[session], currentIndex, "playing")
             q == Resumed(m)
  <2>1. /\ Plays = {c} /\ c.session = session /\ c.index = currentIndex
        /\ Active /\ awaiting = NoIndex /\ ~ Stale(c)
        /\ session \in Sessions /\ currentIndex \in Index /\ c \in Call
        /\ queue[session].status[currentIndex] # "absent"
    BY <1>2, PlayIsCurrent
  <2>2. /\ calls' = calls \ {c} /\ queue' = [queue EXCEPT ![session] = q]
        /\ view' = Played(view) /\ state' = "playing"
        /\ UNCHANGED << currentIndex, position, awaiting >>
    BY <2>1 DEF LoadResolves
  <2>3. queue[session] \in QueueView /\ Prefix(queue[session])
    BY <2>1 DEF TypeOK, Rest, ChunksExist
  <2>4. /\ m \in QueueView
        /\ \A j \in Index : m.status[j] = IF j = currentIndex THEN "playing"
                                         ELSE queue[session].status[j]
    <3>1. "playing" \in PlayerStatus \cup {"error"}
      BY DEF PlayerStatus
    <3> QED BY <2>1, <2>3, <3>1, MarkedType
  <2> HIDE DEF m
  <2>5. q \in QueueView /\ q.status = m.status
    BY <2>4, ResumedType
  <2> HIDE DEF q
  <2>6. /\ queue'[session] = q
        /\ \A s \in Sessions : s # session => queue'[s] = queue[s]
    BY <2>1, <2>2 DEF TypeOK
  <2>7. \A j \in Index : q.status[j] = "absent" <=> queue[session].status[j] = "absent"
    BY <2>1, <2>4, <2>5
  <2>8. StatusesKept /\ GoesOn /\ session' \in Int
    BY <1>0, <2>1, <2>6, <2>7 DEF StatusesKept, GoesOn, Active, Sessions
  <2>9. InboxKept
    BY <1>0 DEF InboxKept
  <2>10. Plays' = {}
    BY <2>1, <2>2 DEF Plays
  <2>11. view'.chunk = view.chunk /\ view.chunk = Current
    BY <1>0, <1>2, <2>1, <2>2 DEF Played, TypeOK, Rest, PlaysBacked, Current
  <2>12. ChunksExist'
    <3>1. \A s \in Sessions : Prefix(queue'[s])
      BY <2>3, <2>6, <2>7 DEF Prefix, Rest, ChunksExist
    <3>2. Exists(view.chunk)'
      BY <2>8, <2>11, ExistsKept DEF Rest, ChunksExist, TypeOK
    <3>3. (\A j \in 1 .. Len(inbox) : Exists(inbox[j].chunk))'
      BY <2>8, <2>9, InboxExists DEF Rest
    <3> QED BY <2>10, <3>1, <3>2, <3>3 DEF ChunksExist
  <2>13. OnePlayInFlight' /\ PlaysBacked'
    BY <2>10 DEF OnePlayInFlight, PlaysBacked, NoOrphanedPlay
  <2>14. SurfaceFollows' /\ ParkIsOpen'
    BY <1>0, <2>1, <2>2, <2>11
    DEF SurfaceFollows, SilentWhenQuiet, ParkIsOpen, Active, Current
  <2> QED BY <2>12, <2>13, <2>14 DEF Rest
<1> QED BY <1>1, <1>2

(* `await onChunkError(info)` resolves.                                    *)
LEMMA DecisionRest ==
  ASSUME TypeOK, TypeOK', Rest, NEW c \in calls, NEW d \in {"skip", "stop"},
         DecisionMade(c, d)
  PROVE  Rest'
<1>0. c.at = "decide" /\ UNCHANGED << session, sealed, disposed, inbox, commands >>
  BY DEF DecisionMade
<1>1. CASE ~ Active
  <2>1. c \notin Plays
    BY <1>0 DEF Plays
  <2>2. Drop(c)
    BY <1>1 DEF DecisionMade
  <2> QED BY <1>0, <1>1, <2>1, <2>2, DropRest
<1>2. CASE Active
  <2>1. /\ session \in Sessions /\ queue[session] \in QueueView
        /\ Prefix(queue[session]) /\ calls \ {c} \in SUBSET Call /\ c.index \in Index
    BY <1>2, BoundAssumption DEF TypeOK, Active, Sessions, Rest, ChunksExist, Call
  <2>2. InboxKept
    BY <1>0 DEF InboxKept
  <2>3. CASE /\ Finish(calls \ {c}, queue[session], "error")
             /\ UNCHANGED << currentIndex, position, awaiting >>
    <3> DEFINE q == Cancelled(queue[session])
    <3>1. /\ calls' = Outdated(calls \ {c}) /\ view' = Unloaded /\ state' = "error"
          /\ queue' = [queue EXCEPT ![session] = q]
      BY <2>3 DEF Finish
    <3>2. q \in QueueView /\ q.status = queue[session].status
      BY <2>1, CancelledType
    <3>3. Prefix(q)
      BY <2>1, <3>2 DEF Prefix
    <3>4. ParkIsOpen'
      BY <1>0, <1>2, <2>3, <3>1 DEF Rest, ParkIsOpen, Active
    <3> HIDE DEF q
    <3> QED BY <1>0, <1>2, <2>1, <2>2, <3>1, <3>2, <3>3, <3>4, HaltRest DEF Rest
  <2>4. CASE Advance(calls \ {c}, queue[session], c.index)
    BY <1>0, <1>2, <2>1, <2>2, <2>4, AdvanceRest
  <2> QED BY <1>2, <2>3, <2>4 DEF DecisionMade
<1> QED BY <1>1, <1>2

(* An event of the current chunk is of a chunk the queue has.              *)
LEMMA EventOfCurrent ==
  ASSUME TypeOK, Rest, Active, NEW type, NEW chunk, Receive(type, chunk), chunk = Current
  PROVE  /\ session \in Sessions /\ currentIndex \in Index /\ queue[session] \in QueueView
         /\ Prefix(queue[session]) /\ calls \in SUBSET Call
         /\ queue[session].status[currentIndex] # "absent"
<1>1. /\ session \in Sessions /\ currentIndex \in Index /\ queue[session] \in QueueView
      /\ Prefix(queue[session]) /\ calls \in SUBSET Call /\ session # 0
  BY BoundAssumption DEF TypeOK, Active, Sessions, Rest, ChunksExist
<1>2. Len(inbox) \in Nat \ {0} /\ inbox[1].chunk = chunk
  BY ReceiveType
<1>3. Exists(<< session, currentIndex >>)
  BY <1>2 DEF Rest, ChunksExist, Current
<1>4. << session, currentIndex >> # << 0, 0 >>
  BY <1>1
<1> QED BY <1>1, <1>3, <1>4 DEF Exists

(* A chunk the queue has gets another status that is not `pending`.        *)
LEMMA MarkedPrefix ==
  ASSUME NEW q \in QueueView, NEW i \in Index, NEW st \in PlayerStatus \cup {"error"},
         Prefix(q), q.status[i] # "absent"
  PROVE  /\ Marked(q, i, st) \in QueueView /\ Prefix(Marked(q, i, st))
         /\ Marked(q, i, st).waiting = q.waiting
         /\ Marked(q, i, st).status[i] = st
         /\ \A j \in Index : /\ j # i => Marked(q, i, st).status[j] = q.status[j]
                             /\ Marked(q, i, st).status[j] = "absent"
                                 <=> q.status[j] = "absent"
<1> DEFINE m == Marked(q, i, st)
<1>1. m \in QueueView /\ m.waiting = q.waiting
      /\ \A j \in Index : m.status[j] = IF j = i THEN st ELSE q.status[j]
  BY MarkedType
<1> HIDE DEF m
<1>2. st # "absent"
  BY DEF PlayerStatus
<1>3. \A j \in Index : m.status[j] = "absent" <=> q.status[j] = "absent"
  BY <1>1, <1>2
<1>4. Prefix(m)
  BY <1>3 DEF Prefix
<1> QED BY <1>1, <1>3, <1>4 DEF m

(* A step that leaves the player, the plays and the surface's chunk alone, *)
(* and gives the chunks of a queue another status or answers their waits.  *)
LEMMA QueueOnlyRest ==
  ASSUME TypeOK, TypeOK', Rest, InboxKept, NEW s \in Sessions,
         NEW q \in QueueView, queue' = [queue EXCEPT ![s] = q],
         \A j \in Index : q.status[j] = "absent" <=> queue[s].status[j] = "absent",
         \A j \in Index : q.status[j] = "pending"
                           => queue[s].status[j] = "pending"
                              /\ (j \in queue[s].waiting => j \in q.waiting),
         UNCHANGED << state, session, sealed, currentIndex, awaiting, disposed, view >>,
         Plays' = Plays, Deciding => Deciding'
  PROVE  Rest'
<1>1. queue'[s] = q /\ \A t \in Sessions : t # s => queue'[t] = queue[t]
  BY DEF TypeOK
<1>2. StatusesKept /\ GoesOn /\ session' \in Int
  BY <1>1 DEF StatusesKept, GoesOn, TypeOK
<1>3. \A c \in Plays : << c.session, c.index >> \in Chunk /\ c.session \in Sessions
                      /\ c.index \in Index
  BY DEF Plays, TypeOK, Call, Chunk
<1>4. ChunksExist'
  <2>1. \A t \in Sessions : Prefix(queue'[t])
    BY <1>1 DEF Prefix, Rest, ChunksExist
  <2>2. Exists(view.chunk)'
    BY <1>2, ExistsKept DEF Rest, ChunksExist, TypeOK
  <2>3. (\A j \in 1 .. Len(inbox) : Exists(inbox[j].chunk))'
    BY <1>2, InboxExists DEF Rest
  <2>4. \A c \in Plays : Exists(<< c.session, c.index >>)'
    BY <1>2, <1>3, ExistsKept DEF Rest, ChunksExist
  <2> QED BY <2>1, <2>2, <2>3, <2>4 DEF ChunksExist
<1>5. OnePlayInFlight'
  BY DEF Rest, OnePlayInFlight, Current
<1>6. PlaysBacked'
  <2>1. ASSUME NEW c \in Plays, c.at = "wait",
               c.index \notin queue'[c.session].waiting
        PROVE  queue'[c.session].status[c.index] # "pending"
    BY <1>1, <1>3, <2>1 DEF Rest, PlaysBacked, NoOrphanedPlay
  <2> QED BY <2>1 DEF Rest, PlaysBacked, NoOrphanedPlay
<1>7. SurfaceFollows' /\ ParkIsOpen'
  BY DEF Rest, SurfaceFollows, SilentWhenQuiet, ParkIsOpen, Active, Current
<1> QED BY <1>4, <1>5, <1>6, <1>7 DEF Rest

(* The handler of an event.                                                *)
LEMMA HandlesRest ==
  ASSUME TypeOK, TypeOK', Rest, NEW chunk \in Chunk, Handles(chunk)
  PROVE  Rest'
<1>0. PICK type : Receive(type, chunk)
  BY DEF Handles, HandleTimeUpdate, HandleEnded, HandleSinkError
<1>1. InboxKept
  BY <1>0, ReceiveType DEF InboxKept
<1>2. ASSUME UNCHANGED << state, session, sealed, currentIndex, awaiting, calls, disposed,
                          queue, view >>
      PROVE  Rest'
  <2>1. Plays' = Plays /\ Deciding' = Deciding
    BY <1>2 DEF Plays, Deciding
  <2>2. StatusesKept /\ GoesOn /\ session' \in Int
    BY <1>2 DEF StatusesKept, GoesOn, TypeOK
  <2>3. (\A j \in 1 .. Len(inbox) : Exists(inbox[j].chunk))'
    BY <1>1, <2>2, InboxExists DEF Rest
  <2>4. ChunksExist'
    BY <1>2, <2>1, <2>3 DEF ChunksExist, Exists, Rest
  <2>5. OnePlayInFlight' /\ PlaysBacked' /\ SurfaceFollows' /\ ParkIsOpen'
    BY <1>2, <2>1
    DEF OnePlayInFlight, PlaysBacked, NoOrphanedPlay, SurfaceFollows, SilentWhenQuiet,
        ParkIsOpen, Active, Current, Rest
  <2> QED BY <2>4, <2>5 DEF Rest
<1>3. CASE HandleTimeUpdate(chunk)
  BY <1>2, <1>3 DEF HandleTimeUpdate
<1>4. CASE HandleEnded(chunk)
  <2>1. CASE Active /\ chunk = Current /\ state = "playing"
    <3> DEFINE q == Marked(queue[session], currentIndex, "played")
    <3>1. /\ session \in Sessions /\ currentIndex \in Index /\ calls \in SUBSET Call
          /\ queue[session] \in QueueView /\ Prefix(queue[session])
          /\ queue[session].status[currentIndex] # "absent"
      BY <1>0, <2>1, EventOfCurrent
    <3>2. "played" \in PlayerStatus \cup {"error"}
      BY DEF PlayerStatus
    <3>3. /\ q \in QueueView /\ Prefix(q)
          /\ \A j \in Index : q.status[j] = "absent" <=> queue[session].status[j] = "absent"
      BY <3>1, <3>2, MarkedPrefix
    <3>4. /\ Advance(calls, q, currentIndex)
          /\ UNCHANGED << session, sealed, disposed >>
      BY <1>4, <2>1 DEF HandleEnded
    <3> HIDE DEF q
    <3> QED BY <1>1, <2>1, <3>1, <3>3, <3>4, AdvanceRest
  <2>2. CASE ~ (Active /\ chunk = Current /\ state = "playing")
    BY <1>2, <1>4, <2>2 DEF HandleEnded
  <2> QED BY <2>1, <2>2
<1>5. CASE HandleSinkError(chunk)
  <2>1. CASE Active /\ chunk = Current
    <3> DEFINE q == Marked(queue[session], currentIndex, "error")
               d == Suspended("decide", session, currentIndex)
    <3>1. /\ session \in Sessions /\ currentIndex \in Index /\ calls \in SUBSET Call
          /\ queue[session] \in QueueView /\ Prefix(queue[session])
          /\ queue[session].status[currentIndex] # "absent"
      BY <1>0, <2>1, EventOfCurrent
    <3>2. /\ q \in QueueView /\ q.waiting = queue[session].waiting
          /\ q.status[currentIndex] = "error"
          /\ \A j \in Index : /\ j # currentIndex => q.status[j] = queue[session].status[j]
                              /\ q.status[j] = "absent"
                                  <=> queue[session].status[j] = "absent"
      BY <3>1, MarkedPrefix
    <3>3. /\ queue' = [queue EXCEPT ![session] = q] /\ calls' = calls \cup {d}
          /\ UNCHANGED << state, session, sealed, currentIndex, awaiting, disposed, view >>
      BY <1>5, <2>1 DEF HandleSinkError
    <3>4. d.at = "decide"
      BY <3>1, SuspendedType
    <3> HIDE DEF q, d
    <3>5. Plays' = Plays /\ (Deciding => Deciding')
      BY <3>3, <3>4 DEF Plays, Deciding
    <3>6. \A j \in Index : q.status[j] = "pending"
                           => queue[session].status[j] = "pending"
                              /\ (j \in queue[session].waiting => j \in q.waiting)
      BY <3>2
    <3> QED BY <1>1, <3>1, <3>2, <3>3, <3>5, <3>6, QueueOnlyRest
  <2>2. CASE ~ (Active /\ chunk = Current)
    BY <1>2, <1>5, <2>2 DEF HandleSinkError
  <2> QED BY <2>1, <2>2
<1> QED BY <1>3, <1>4, <1>5 DEF Handles

(* A chunk is settled: whoever waits for it is answered.                   *)
LEMMA SettlesRest ==
  ASSUME TypeOK, TypeOK', Rest, NEW s \in Sessions, NEW i \in Index, NEW st \in Settled,
         QueueSettles(s, i, st)
  PROVE  Rest'
<1> DEFINE q == Answered(queue[s], i, st)
<1>1. /\ queue[s].status[i] = "pending" /\ queue' = [queue EXCEPT ![s] = q]
      /\ UNCHANGED << state, session, sealed, currentIndex, position, awaiting, calls,
                      disposed, view, inbox, commands >>
  BY DEF QueueSettles
<1>2. /\ q \in QueueView /\ q.waiting = queue[s].waiting \ {i}
      /\ \A j \in Index : q.status[j] = IF j = i THEN st ELSE queue[s].status[j]
  BY AnsweredType DEF TypeOK
<1> HIDE DEF q
<1>3. st # "absent" /\ st # "pending"
  BY DEF Settled
<1>4. \A j \in Index : q.status[j] = "absent" <=> queue[s].status[j] = "absent"
  BY <1>1, <1>2, <1>3
<1>5. \A j \in Index : q.status[j] = "pending"
                       => queue[s].status[j] = "pending"
                          /\ (j \in queue[s].waiting => j \in q.waiting)
  BY <1>2, <1>3
<1>6. Plays' = Plays /\ (Deciding => Deciding')
  BY <1>1 DEF Plays, Deciding
<1>7. InboxKept
  <2>1. inbox' = inbox
    BY <1>1
  <2> QED BY <2>1 DEF InboxKept
<1> QED BY <1>1, <1>2, <1>4, <1>5, <1>6, <1>7, QueueOnlyRest

(* The surface reports on the chunk it has, and starts none by itself.     *)
LEMMA SurfaceRest ==
  ASSUME TypeOK, TypeOK', Rest, ViewTicks \/ ViewEnds \/ ViewFails
  PROVE  Rest'
<1>1. PICK type \in {"timeupdate", "ended", "error"}, mode \in Modes :
        /\ Post(type, mode)
        /\ view.mode \in {"playing", "paused"}
        /\ mode = "playing" => view.mode = "playing"
  BY DEF ViewTicks, ViewEnds, ViewFails, Modes
<1>2. /\ UNCHANGED << state, session, sealed, currentIndex, position, awaiting, calls,
                      disposed, queue, commands >>
      /\ view'.chunk = view.chunk /\ view'.mode = mode
  BY <1>1 DEF Post, TypeOK
<1>3. Plays' = Plays /\ Deciding' = Deciding
  BY <1>2 DEF Plays, Deciding
<1>4. [type |-> type, chunk |-> view.chunk] \in Event
  BY DEF Event, TypeOK
<1>5. /\ Len(inbox) \in Nat /\ Len(inbox') = Len(inbox) + 1
      /\ \A j \in 1 .. Len(inbox) : inbox'[j] = inbox[j]
      /\ inbox'[Len(inbox) + 1].chunk = view.chunk
  BY <1>1, <1>4, PostedType
<1>6. ChunksExist'
  <2>1. ASSUME NEW j \in 1 .. Len(inbox') PROVE Exists(inbox'[j].chunk)
    BY <1>5, <2>1 DEF Rest, ChunksExist
  <2> QED BY <1>2, <1>3, <2>1 DEF Rest, ChunksExist, Exists
<1>7. OnePlayInFlight' /\ PlaysBacked'
  BY <1>2, <1>3 DEF OnePlayInFlight, PlaysBacked, NoOrphanedPlay, Current, Rest
<1>8. SurfaceFollows'
  BY <1>1, <1>2, <1>3 DEF SurfaceFollows, SilentWhenQuiet, Active, Current, Rest
<1>9. ParkIsOpen'
  BY <1>2 DEF ParkIsOpen, Active, Rest
<1> QED BY <1>6, <1>7, <1>8, <1>9 DEF Rest
-----------------------------------------------------------------------------
(* The theorems.                                                           *)

(* The invariant holds at first.                                           *)
LEMMA InitIInv == Init => IInv
<1> SUFFICES ASSUME Init PROVE IInv
  OBVIOUS
<1>1. TypeOK
  BY InitType
<1>2. Plays = {} /\ session = 0 /\ ~ disposed /\ view = Unloaded /\ state = "idle"
      /\ awaiting = NoIndex
  BY DEF Init, Plays
<1>3. ChunksExist
  <2>1. \A s \in Sessions : Prefix(queue[s])
    BY FreshType, SizeAssumption DEF Init
  <2>2. Len(inbox) = 0
    BY DEF Init
  <2>3. Exists(view.chunk)
    BY <1>2 DEF Exists, Unloaded
  <2> QED BY <1>2, <2>1, <2>2, <2>3 DEF ChunksExist
<1>4. OnePlayInFlight /\ PlaysBacked
  BY <1>2 DEF OnePlayInFlight, PlaysBacked, NoOrphanedPlay
<1>5. SurfaceFollows /\ ParkIsOpen
  BY <1>2 DEF SurfaceFollows, SilentWhenQuiet, ParkIsOpen, Active, Unloaded
<1> QED BY <1>1, <1>3, <1>4, <1>5 DEF IInv

(* Every step keeps the invariant: one lemma per action.                   *)
LEMMA NextIInv == IInv /\ [Next]_vars => IInv'
<1> SUFFICES ASSUME IInv, [Next]_vars PROVE IInv'
  OBVIOUS
<1>1. TypeOK /\ Rest
  BY DEF IInv, Rest
<1>2. TypeOK'
  BY <1>1, NextType
<1>3. CASE UNCHANGED vars
  BY <1>1, <1>3
  DEF vars, Rest, ChunksExist, Exists, Plays, OnePlayInFlight, PlaysBacked, NoOrphanedPlay,
      SurfaceFollows, SilentWhenQuiet, Deciding, ParkIsOpen, Active, Current, IInv, TypeOK
<1>4. CASE UserCommand
  BY <1>1, <1>2, <1>4, UserCommandRest DEF IInv, Rest
<1>5. CASE Narrator
  BY <1>1, <1>2, <1>5, SealRest, AppendRest DEF Narrator, IInv, Rest
<1>6. ASSUME NEW c \in calls, Resolves(c) PROVE IInv'
  BY <1>1, <1>2, <1>6, WaitResolvesRest, LoadResolvesRest, DecisionRest
  DEF Resolves, IInv, Rest
<1>7. ASSUME NEW chunk \in Chunk, Handles(chunk) PROVE IInv'
  BY <1>1, <1>2, <1>7, HandlesRest DEF IInv, Rest
<1>8. ASSUME NEW s \in Sessions, NEW i \in Index, NEW st \in Settled, QueueSettles(s, i, st)
      PROVE  IInv'
  BY <1>1, <1>2, <1>8, SettlesRest DEF IInv, Rest
<1>9. CASE ViewTicks \/ ViewEnds \/ ViewFails
  BY <1>1, <1>2, <1>9, SurfaceRest DEF IInv, Rest
<1> QED BY <1>3, <1>4, <1>5, <1>6, <1>7, <1>8, <1>9 DEF Next

(* The strengthened invariant.                                             *)
THEOREM InvariantHolds == Spec => []IInv
BY InitIInv, NextIInv, PTL DEF Spec

(* One play at a time: of the suspended playIndex() calls at most one goes *)
(* on, for the current chunk, and not while the player is parked.          *)
THEOREM OnePlayHolds == Spec => []OnePlayInFlight
<1>1. IInv => OnePlayInFlight
  BY DEF IInv
<1> QED BY <1>1, InvariantHolds, PTL

(* No play that goes on finds its wait cancelled.                          *)
THEOREM NoOrphanHolds == Spec => []NoOrphanedPlay
<1>1. IInv => NoOrphanedPlay
  BY DEF IInv, PlaysBacked
<1> QED BY <1>1, InvariantHolds, PTL

(* No ghost audio: with no play on its way and no failure to decide on, a  *)
(* player that shows itself quiet, or is disposed, is silent.              *)
THEOREM SilenceHolds == Spec => []SilentWhenQuiet
<1>1. IInv => SilentWhenQuiet
  BY DEF IInv, SurfaceFollows
<1> QED BY <1>1, InvariantHolds, PTL

(* In `playing`, with no play on its way and no failure to decide on, the  *)
(* audio surface has the chunk the player stands on.                       *)
THEOREM HighlightHolds == Spec => []HighlightMatchesAudio
<1>1. IInv => HighlightMatchesAudio
  BY DEF IInv, SurfaceFollows, HighlightMatchesAudio
<1> QED BY <1>1, InvariantHolds, PTL

(* Stopped or completed, with no play on its way and no failure to decide  *)
(* on, the player is moved by the user alone: every step of the narrator,  *)
(* of a call that returns, of a queue or of the audio surface leaves the   *)
(* state and starts no play.                                               *)
THEOREM StopHolds == Spec => StopIsFinalUnlessDeciding
<1>1. ASSUME IInv, Next, state \in {"stopped", "completed"}, Plays = {}, ~ Deciding,
             ~ UserCommand
      PROVE  state' = state /\ Plays' = {}
  <2>1. ASSUME UNCHANGED << state, calls >> PROVE state' = state /\ Plays' = {}
    BY <1>1, <2>1 DEF Plays
  <2>2. CASE Narrator
    <3>1. Active => awaiting = NoIndex
      BY <1>1 DEF IInv, ParkIsOpen
    <3>2. UNCHANGED << state, calls >>
      BY <2>2, <3>1 DEF Narrator, SealSegments, AppendSegments
    <3> QED BY <2>1, <3>2
  <2>3. ASSUME NEW c \in calls, Resolves(c) PROVE state' = state /\ Plays' = {}
    <3>1. c.at # "decide" /\ (c.at \in {"wait", "load"} => ~ c.fresh)
      BY <1>1 DEF Deciding, Plays
    <3>2. Drop(c)
      BY <2>3, <3>1 DEF Resolves, WaitResolves, LoadResolves, DecisionMade, Stale
    <3> QED BY <1>1, <3>2 DEF Drop, Plays
  <2>4. ASSUME NEW chunk \in Chunk, Handles(chunk) PROVE state' = state /\ Plays' = {}
    <3>1. CASE HandleTimeUpdate(chunk)
      BY <2>1, <3>1 DEF HandleTimeUpdate
    <3>2. CASE HandleEnded(chunk)
      BY <1>1, <2>1, <3>2 DEF HandleEnded
    <3>3. CASE HandleSinkError(chunk)
      <4>1. CASE Active /\ chunk = Current
        <5>1. session \in Sessions /\ currentIndex \in Index
          BY <1>1, <4>1, BoundAssumption DEF IInv, TypeOK, Active, Sessions
        <5>2. Suspended("decide", session, currentIndex).at = "decide"
          BY <5>1, SuspendedType
        <5> QED BY <1>1, <3>3, <4>1, <5>2 DEF HandleSinkError, Plays
      <4>2. CASE ~ (Active /\ chunk = Current)
        BY <2>1, <3>3, <4>2 DEF HandleSinkError
      <4> QED BY <4>1, <4>2
    <3> QED BY <2>4, <3>1, <3>2, <3>3 DEF Handles
  <2>5. ASSUME NEW s \in Sessions, NEW i \in Index, NEW st \in Settled,
               QueueSettles(s, i, st)
        PROVE  state' = state /\ Plays' = {}
    BY <2>1, <2>5 DEF QueueSettles
  <2>6. CASE ViewTicks \/ ViewEnds \/ ViewFails
    BY <2>1, <2>6 DEF ViewTicks, ViewEnds, ViewFails, Post
  <2> QED BY <1>1, <2>2, <2>3, <2>4, <2>5, <2>6 DEF Next
<1>2. ASSUME IInv, [Next]_vars
      PROVE  [(state \in {"stopped", "completed"} /\ Plays = {} /\ ~ Deciding
                 /\ ~ UserCommand)
                => (state' = state /\ Plays' = {})]_vars
  BY <1>1, <1>2
<1> QED BY <1>2, InvariantHolds, PTL DEF Spec, StopIsFinalUnlessDeciding
-----------------------------------------------------------------------------
(* Never parked for good.  The player stands on a chunk the queue has, and *)
(* so is every suspended call about one: a playIndex() beyond the end,     *)
(* which would leave nobody to move the player on, does not happen.        *)

Stands == Active => queue[session].status[currentIndex] # "absent"

SomebodyMoves ==
  Active /\ state \in {"preparing", "buffering"}
    => Plays # {} \/ awaiting # NoIndex \/ Deciding

ParkInv ==
  /\ Stands /\ SomebodyMoves
  /\ \A c \in calls : Exists(<< c.session, c.index >>)

(* A suspended call after the step was there before it, or is about the    *)
(* chunk the player now stands on.                                         *)
CallsSince ==
  \A c \in calls' :
    \/ \E b \in calls : b.session = c.session /\ b.index = c.index
    \/ Active' /\ c.session = session' /\ c.index = currentIndex'

(* What a step has to do to keep ParkInv.                                  *)
Moves == Stands' /\ SomebodyMoves' /\ CallsSince /\ StatusesKept /\ GoesOn

(* A queue that gets other statuses, but no fewer chunks.                  *)
LEMMA QueueKept ==
  ASSUME TypeOK, NEW s \in Sessions, NEW q \in QueueView,
         queue' = [queue EXCEPT ![s] = q], UNCHANGED << session, disposed >>,
         \A j \in Index : queue[s].status[j] # "absent" => q.status[j] # "absent"
  PROVE  StatusesKept /\ GoesOn
<1>1. queue'[s] = q /\ \A t \in Sessions : t # s => queue'[t] = queue[t]
  BY DEF TypeOK
<1> QED BY <1>1 DEF StatusesKept, GoesOn, TypeOK

(* An overtaken call is about the chunk it was about.                      *)
LEMMA OutdatedSince ==
  ASSUME NEW S \in SUBSET Call, NEW c \in Outdated(S)
  PROVE  /\ \E b \in S : b.session = c.session /\ b.index = c.index
         /\ \E b \in S : b.at = c.at
<1>1. PICK b \in S : c = [b EXCEPT !.fresh = FALSE]
  BY DEF Outdated
<1>2. b.session = c.session /\ b.index = c.index /\ b.at = c.at
  BY <1>1 DEF Call
<1> QED BY <1>2

(* playIndex() of a chunk the queue has.                                   *)
LEMMA PlayIndexMoves ==
  ASSUME TypeOK, Active, NEW i \in Index, NEW S \in SUBSET calls, NEW q \in QueueView,
         NEW st \in States, q.status[i] # "absent",
         \A j \in Index : queue[session].status[j] # "absent" => q.status[j] # "absent",
         PlayIndex(session, i, S, q, st), UNCHANGED << session, disposed >>
  PROVE  Moves
<1> DEFINE r == Asked(Resumed(q), i)
           c == Suspended("wait", session, i)
<1>1. session \in Sessions /\ S \in SUBSET Call
  BY BoundAssumption DEF TypeOK, Active, Sessions
<1>2. r \in QueueView /\ r.status = q.status
  BY ResumedType, AskedType
<1>3. queue' = [queue EXCEPT ![session] = r] /\ currentIndex' = i
  BY DEF PlayIndex
<1>4. c.session = session /\ c.index = i
  BY <1>1, SuspendedType
<1>5. Plays' = {c}
  BY <1>1, PlayIndexPlays
<1>6. calls' = Outdated(S) \cup {c}
  BY DEF PlayIndex
<1> HIDE DEF r, c
<1>7. queue'[session] = r /\ \A t \in Sessions : t # session => queue'[t] = queue[t]
  BY <1>1, <1>3 DEF TypeOK
<1>8. Stands'
  BY <1>2, <1>3, <1>7 DEF Stands
<1>9. CallsSince
  <2>1. ASSUME NEW d \in Outdated(S)
        PROVE  \E b \in calls : b.session = d.session /\ b.index = d.index
    BY <1>1, <2>1, OutdatedSince
  <2> QED BY <1>3, <1>4, <1>6, <2>1 DEF CallsSince, Active
<1>10. SomebodyMoves'
  BY <1>5 DEF SomebodyMoves
<1>11. StatusesKept /\ GoesOn
  BY <1>1, <1>2, <1>7 DEF StatusesKept, GoesOn, Active, Sessions
<1> QED BY <1>8, <1>9, <1>10, <1>11 DEF Moves

(* Everything that overtakes the calls and either parks the player or      *)
(* brings it to rest, on a chunk the queue has.                            *)
LEMMA HaltMoves ==
  ASSUME TypeOK, Active, NEW S \in SUBSET calls, NEW q \in QueueView,
         calls' = Outdated(S), queue' = [queue EXCEPT ![session] = q],
         UNCHANGED << session, disposed >>,
         q.status[currentIndex'] # "absent",
         \A j \in Index : queue[session].status[j] # "absent" => q.status[j] # "absent",
         state' \in {"preparing", "buffering"} => awaiting' # NoIndex
  PROVE  Moves
<1>1. session \in Sessions /\ S \in SUBSET Call
  BY BoundAssumption DEF TypeOK, Active, Sessions
<1>2. queue'[session] = q
  BY <1>1 DEF TypeOK
<1>3. CallsSince
  BY <1>1, OutdatedSince DEF CallsSince
<1>4. StatusesKept /\ GoesOn
  BY <1>1, QueueKept
<1> QED BY <1>2, <1>3, <1>4 DEF Moves, Stands, SomebodyMoves

(* next() from a chunk the queue has.                                      *)
LEMMA AdvanceMoves ==
  ASSUME TypeOK, Active, NEW S \in SUBSET calls, NEW q \in QueueView, Prefix(q),
         NEW c \in Index, q.status[c] # "absent",
         \A j \in Index : queue[session].status[j] # "absent" => q.status[j] # "absent",
         Advance(S, q, c), UNCHANGED << session, disposed >>
  PROVE  Moves
<1>1. CASE c + 1 < Length(q) /\ PlayIndex(session, c + 1, S, q, state)
  <2>1. c + 1 \in Index /\ state \in States
    BY <1>1, LengthType, SizeAssumption DEF Index, TypeOK
  <2>2. q.status[c + 1] # "absent"
    BY <1>1, <2>1, PrefixLength, LengthType DEF Index
  <2> QED BY <1>1, <2>1, <2>2, PlayIndexMoves
<1>2. CASE currentIndex' = c /\ Finish(S, q, "completed")
  <2>1. Cancelled(q) \in QueueView /\ Cancelled(q).status = q.status
    BY CancelledType
  <2>2. /\ calls' = Outdated(S) /\ state' = "completed"
        /\ queue' = [queue EXCEPT ![session] = Cancelled(q)]
    BY <1>2 DEF Finish
  <2> QED BY <1>2, <2>1, <2>2, HaltMoves
<1>3. CASE /\ currentIndex' = c /\ calls' = Outdated(S) /\ awaiting' = c + 1
           /\ queue' = [queue EXCEPT ![session] = q]
  <2>1. awaiting' # NoIndex
    BY <1>3 DEF Index, NoIndex
  <2> QED BY <1>3, <2>1, HaltMoves
<1> QED BY <1>1, <1>2, <1>3 DEF Advance

(* A step that leaves the player where it is.                              *)
LEMMA StayMoves ==
  ASSUME ParkInv, StatusesKept, TypeOK,
         UNCHANGED << state, session, disposed, currentIndex, awaiting >>,
         CallsSince, Active => (Plays # {} \/ Deciding => Plays' # {} \/ Deciding')
  PROVE  Moves
<1>1. Active => session \in Sessions /\ currentIndex \in Index
  BY BoundAssumption DEF TypeOK, Active, Sessions
<1>2. Active => queue'[session].status[currentIndex] # "absent"
  BY <1>1 DEF ParkInv, Stands, StatusesKept, Sessions, TypeOK
<1>3. Active' => Active
  BY DEF Active
<1>4. Stands'
  BY <1>2 DEF Stands, Active
<1>5. SomebodyMoves'
  BY <1>3 DEF ParkInv, SomebodyMoves
<1>6. GoesOn
  BY DEF GoesOn, TypeOK
<1> QED BY <1>4, <1>5, <1>6 DEF Moves

(* A command of the user, which starts no session without a chunk.         *)
LEMMA UserCommandMoves ==
  ASSUME TypeOK, TypeOK', Rest, ParkInv, MinChunks # 0, UserCommand
  PROVE  Moves
<1>1. Active => /\ session \in Sessions /\ queue[session] \in QueueView
                /\ calls \in SUBSET Call /\ currentIndex \in Index /\ state \in States
                /\ Prefix(queue[session])
                /\ queue[session].status[currentIndex] # "absent"
  BY BoundAssumption DEF TypeOK, Active, Sessions, Rest, ChunksExist, ParkInv, Stands
<1>2. ASSUME NEW n \in MinChunks .. MaxChunks, NEW seal \in BOOLEAN, Start(n, seal)
      PROVE  Moves
  <2> DEFINE s    == session + 1
             torn == [t \in Sessions |->
                        IF t = session THEN Disposed(queue[t]) ELSE queue[t]]
             new  == IF n > 0 THEN Asked(Fresh(n), 0) ELSE Fresh(0)
             c    == Suspended("wait", s, 0)
  <2>1. /\ s \in Sessions /\ n \in 1 .. MaxChunks /\ 0 \in Index /\ calls \in SUBSET Call
        /\ session' = s /\ currentIndex' = 0 /\ ~ disposed /\ ~ disposed' /\ session \in Nat
    BY <1>2, BoundAssumption, SizeAssumption DEF Start, Index, TypeOK
  <2>2. new \in QueueView /\ new.status[0] = "pending"
    <3>1. n > 0 /\ n \in 0 .. MaxChunks /\ new = Asked(Fresh(n), 0)
      BY <2>1, SizeAssumption
    <3>2. Fresh(n) \in QueueView /\ Fresh(n).status[0] = "pending"
      BY <2>1, <3>1, FreshType DEF Fresh
    <3> QED BY <2>1, <3>1, <3>2, AskedType
  <2>3. torn \in [Sessions -> QueueView] /\ \A t \in Sessions : torn[t].status = queue[t].status
    BY DisposedType DEF TypeOK
  <2>4. queue' = [torn EXCEPT ![s] = new]
    BY <1>2 DEF Start
  <2>5. c \in Call /\ c.at = "wait" /\ c.fresh /\ c.session = s /\ c.index = 0
    BY <2>1, SuspendedType
  <2>6. calls' = Outdated(calls) \cup {c}
    BY <1>2, <2>1 DEF Start
  <2> HIDE DEF new, torn, c
  <2>7. queue'[s] = new /\ \A t \in Sessions : t # s => queue'[t].status = queue[t].status
    BY <2>1, <2>3, <2>4
  <2>8. Stands' /\ StatusesKept /\ GoesOn
    BY <2>1, <2>2, <2>7 DEF Stands, StatusesKept, GoesOn
  <2>9. SomebodyMoves'
    BY <2>5, <2>6 DEF SomebodyMoves, Plays
  <2>10. CallsSince
    <3>1. ASSUME NEW d \in Outdated(calls)
          PROVE  \E b \in calls : b.session = d.session /\ b.index = d.index
      BY <2>1, <3>1, OutdatedSince
    <3>2. Active'
      BY <2>1 DEF Active
    <3> QED BY <2>1, <2>5, <2>6, <3>1, <3>2 DEF CallsSince
  <2> QED BY <2>8, <2>9, <2>10 DEF Moves
<1>3. CASE Pause \/ Resume
  <2>1. /\ UNCHANGED << session, disposed, currentIndex, awaiting, calls, queue >>
        /\ state' \in {"playing", "paused"}
    BY <1>3 DEF Pause, Resume
  <2>2. Stands' /\ SomebodyMoves' /\ StatusesKept /\ GoesOn
    BY <2>1 DEF ParkInv, Stands, SomebodyMoves, StatusesKept, GoesOn, Active, TypeOK
  <2> QED BY <2>1, <2>2 DEF Moves, CallsSince
<1>4. CASE Stop
  <2> DEFINE q == Cancelled(queue[session])
  <2>1. /\ Active /\ calls' = Outdated(calls) /\ state' = "stopped" /\ currentIndex' = 0
        /\ queue' = [queue EXCEPT ![session] = q] /\ UNCHANGED << session, disposed >>
    BY <1>4 DEF Stop, Finish
  <2>2. q \in QueueView /\ q.status = queue[session].status
    BY <1>1, <2>1, CancelledType
  <2>3. q.status[0] # "absent"
    <3>1. 0 \in Index
      BY SizeAssumption DEF Index
    <3> QED BY <1>1, <2>1, <2>2, <3>1 DEF Prefix, Index
  <2> HIDE DEF q
  <2> QED BY <1>1, <2>1, <2>2, <2>3, HaltMoves
<1>5. CASE Skip
  BY <1>1, <1>5, AdvanceMoves DEF Skip
<1>6. CASE Previous
  <2> DEFINE i == IF position = "head" /\ currentIndex > 0
                  THEN currentIndex - 1 ELSE currentIndex
  <2>1. i \in Index /\ Active
    BY <1>6, SizeAssumption DEF TypeOK, Index, Previous
  <2>2. PlayIndex(session, i, calls, queue[session], state)
        /\ UNCHANGED << session, disposed >>
    BY <1>6 DEF Previous
  <2>3. queue[session].status[i] # "absent"
    BY <1>1, <2>1 DEF Prefix, Index
  <2> HIDE DEF i
  <2> QED BY <1>1, <2>1, <2>2, <2>3, PlayIndexMoves
<1>7. CASE RetryCurrentChunk
  <2> DEFINE q == Rearmed(queue[session], currentIndex)
  <2>1. Active /\ PlayIndex(session, currentIndex, calls, q, state)
        /\ UNCHANGED << session, disposed >>
    BY <1>7 DEF RetryCurrentChunk
  <2>2. /\ q \in QueueView
        /\ \A j \in Index : q.status[j] = "absent" <=> queue[session].status[j] = "absent"
    BY <1>1, <2>1, RearmedType
  <2> HIDE DEF q
  <2> QED BY <1>1, <2>1, <2>2, PlayIndexMoves
<1>8. CASE Dispose
  <2>1. \A t \in Sessions : queue'[t].status = queue[t].status
    BY <1>8, DisposedType DEF Dispose, TypeOK
  <2>2. disposed' /\ calls' = Outdated(calls) /\ calls \in SUBSET Call
    BY <1>8 DEF Dispose, TypeOK
  <2>3. CallsSince
    BY <2>2, OutdatedSince DEF CallsSince
  <2> QED BY <2>1, <2>2, <2>3
          DEF Moves, Stands, SomebodyMoves, StatusesKept, GoesOn, Active
<1> QED BY <1>2, <1>3, <1>4, <1>5, <1>6, <1>7, <1>8 DEF UserCommand

(* The narrator unparks the player with the chunk it waits for, or ends    *)
(* the session.                                                            *)
LEMMA NarratorMoves ==
  ASSUME TypeOK, TypeOK', Rest, ParkInv, Narrator
  PROVE  Moves
<1>1. /\ Active /\ session \in Sessions /\ queue[session] \in QueueView
      /\ calls \in SUBSET Call /\ currentIndex \in Index /\ state \in States
      /\ Prefix(queue[session]) /\ queue[session].status[currentIndex] # "absent"
      /\ UNCHANGED << session, disposed >>
  BY BoundAssumption
  DEF TypeOK, Active, Sessions, Rest, ChunksExist, ParkInv, Stands, Narrator, SealSegments,
      AppendSegments
<1>2. CASE SealSegments
  <2>1. CASE awaiting # NoIndex
    <3> DEFINE q == Cancelled(queue[session])
    <3>1. /\ calls' = Outdated(calls) /\ state' = "completed"
          /\ queue' = [queue EXCEPT ![session] = q] /\ UNCHANGED currentIndex
      BY <1>2, <2>1 DEF SealSegments, Finish
    <3>2. q \in QueueView /\ q.status = queue[session].status
      BY <1>1, CancelledType
    <3> HIDE DEF q
    <3> QED BY <1>1, <3>1, <3>2, HaltMoves
  <2>2. CASE awaiting = NoIndex
    <3>1. UNCHANGED << state, calls, queue, currentIndex, awaiting >>
      BY <1>2, <2>2 DEF SealSegments
    <3>2. StatusesKept /\ CallsSince /\ Plays' = Plays /\ Deciding' = Deciding
      BY <3>1 DEF StatusesKept, CallsSince, Plays, Deciding
    <3> QED BY <1>1, <3>1, <3>2, StayMoves
  <2> QED BY <2>1, <2>2
<1>3. ASSUME NEW n \in 1 .. MaxChunks, AppendSegments(n) PROVE Moves
  <2> DEFINE q == Appended(queue[session], n)
  <2>1. Length(queue[session]) + n <= MaxChunks
    BY <1>3 DEF AppendSegments
  <2>2. /\ q \in QueueView /\ Prefix(q)
        /\ \A i \in Index : queue[session].status[i] # "absent"
                            => q.status[i] = queue[session].status[i]
    BY <1>1, <2>1, AppendedType
  <2>3. awaiting \in {NoIndex} \cup 0 .. MaxChunks /\ Length(q) \in 0 .. MaxChunks
    BY <2>2, LengthType DEF TypeOK
  <2>4. CASE awaiting # NoIndex /\ awaiting < Length(q)
    <3>1. awaiting \in Index
      BY <2>3, <2>4, SizeAssumption DEF Index
    <3>2. q.status[awaiting] # "absent"
      BY <2>2, <2>3, <2>4, <3>1, PrefixLength DEF Index
    <3>3. ~ (awaiting = NoIndex \/ awaiting >= Length(q))
      BY <2>3, <2>4
    <3>4. PlayIndex(session, awaiting, calls, q, state)
      BY <1>3, <3>3 DEF AppendSegments
    <3> HIDE DEF q
    <3> QED BY <1>1, <2>2, <3>1, <3>2, <3>4, PlayIndexMoves
  <2>5. CASE ~ (awaiting # NoIndex /\ awaiting < Length(q))
    <3>1. /\ queue' = [queue EXCEPT ![session] = q]
          /\ UNCHANGED << state, currentIndex, awaiting, calls >>
      BY <1>3, <2>5 DEF AppendSegments
    <3> HIDE DEF q
    <3>2. StatusesKept
      BY <1>1, <2>2, <3>1, QueueKept
    <3>3. CallsSince /\ Plays' = Plays /\ Deciding' = Deciding
      BY <3>1 DEF CallsSince, Plays, Deciding
    <3> QED BY <1>1, <3>1, <3>2, <3>3, StayMoves
  <2> QED BY <2>4, <2>5
<1> QED BY <1>2, <1>3 DEF Narrator

(* A wait or a load that ends goes on to the next await, or plays.         *)
LEMMA PlayResolvesMoves ==
  ASSUME TypeOK, TypeOK', Rest, ParkInv, NEW c \in calls, WaitResolves(c) \/ LoadResolves(c)
  PROVE  Moves
<1>0. UNCHANGED << session, disposed, currentIndex, awaiting >>
  BY DEF WaitResolves, LoadResolves, Drop
<1>1. CASE c \notin Plays
  <2>1. Stale(c) /\ c.at # "decide"
    BY <1>1 DEF Plays, Stale, WaitResolves, LoadResolves
  <2>2. Drop(c)
    BY <2>1 DEF WaitResolves, LoadResolves
  <2>3. Plays' = Plays /\ (Deciding => Deciding') /\ CallsSince
    BY <1>1, <2>1, <2>2 DEF Drop, Plays, Deciding, CallsSince
  <2>4. StatusesKept /\ UNCHANGED state
    BY <2>2 DEF Drop, StatusesKept
  <2> QED BY <1>0, <2>3, <2>4, StayMoves
<1>2. CASE c \in Plays
  <2>1. /\ c.session = session /\ c.index = currentIndex /\ Active /\ ~ Stale(c)
        /\ session \in Sessions /\ currentIndex \in Index /\ c \in Call
        /\ queue[session] \in QueueView
    BY <1>2, PlayIsCurrent DEF TypeOK
  <2>2. CASE WaitResolves(c)
    <3>1. queue[c.session].status[c.index] # "pending"
      BY <1>2, <2>2 DEF Rest, PlaysBacked, NoOrphanedPlay, WaitResolves
    <3>2. UNCHANGED << state, queue >>
      BY <2>1, <2>2, <3>1 DEF WaitResolves
    <3>3. PICK at \in {"decide", "load"} :
            calls' = (calls \ {c}) \cup {Suspended(at, c.session, c.index)}
      BY <2>1, <2>2, <3>1 DEF WaitResolves
    <3> DEFINE d == Suspended(at, c.session, c.index)
    <3>4. /\ d.at = at /\ d.fresh /\ d.session = c.session /\ d.index = c.index
      BY <2>1, SuspendedType
    <3> HIDE DEF d
    <3>5. calls' = (calls \ {c}) \cup {d}
      BY <3>3 DEF d
    <3>6. CallsSince
      BY <3>4, <3>5 DEF CallsSince
    <3>7. Plays' # {} \/ Deciding'
      BY <3>4, <3>5 DEF Plays, Deciding
    <3>8. StatusesKept
      BY <3>2 DEF StatusesKept
    <3> QED BY <1>0, <3>2, <3>6, <3>7, <3>8, StayMoves
  <2>3. CASE LoadResolves(c)
    <3> DEFINE m == Marked(queue[session], currentIndex, "playing")
               q == Resumed(m)
    <3>1. /\ calls' = calls \ {c} /\ state' = "playing"
          /\ queue' = [queue EXCEPT ![session] = q]
      BY <2>1, <2>3 DEF LoadResolves
    <3>2. "playing" \in PlayerStatus /\ queue[session].status[currentIndex] # "absent"
      BY <2>1 DEF PlayerStatus, ParkInv, Stands
    <3>3. /\ m \in QueueView
          /\ \A j \in Index : m.status[j] = IF j = currentIndex THEN "playing"
                                            ELSE queue[session].status[j]
      BY <2>1, <3>2, MarkedType
    <3> HIDE DEF m
    <3>4. q \in QueueView /\ q.status = m.status
      BY <3>3, ResumedType
    <3> HIDE DEF q
    <3>5. \A j \in Index : queue[session].status[j] # "absent" => q.status[j] # "absent"
      BY <3>3, <3>4
    <3>6. StatusesKept /\ GoesOn
      BY <1>0, <2>1, <3>1, <3>4, <3>5, QueueKept
    <3>7. Stands'
      BY <1>0, <2>1, <3>2, <3>6 DEF Stands, StatusesKept, Sessions
    <3>8. SomebodyMoves' /\ CallsSince
      BY <3>1 DEF SomebodyMoves, CallsSince
    <3> QED BY <3>6, <3>7, <3>8 DEF Moves
  <2> QED BY <2>2, <2>3
<1> QED BY <1>1, <1>2

(* A decision is about a chunk of the session it was asked in, which is    *)
(* the only one there is.                                                  *)
LEMMA DecisionMoves ==
  ASSUME TypeOK, TypeOK', Rest, ParkInv, MaxSessions = 1,
         NEW c \in calls, NEW d \in {"skip", "stop"}, DecisionMade(c, d)
  PROVE  Moves
<1>0. UNCHANGED << session, disposed >>
  BY DEF DecisionMade
<1>1. CASE ~ Active
  <2>1. Drop(c)
    BY <1>1 DEF DecisionMade
  <2> QED BY <1>0, <1>1, <2>1, StayMoves DEF Drop, StatusesKept, CallsSince
<1>2. CASE Active
  <2>1. /\ session \in Sessions /\ queue[session] \in QueueView
        /\ Prefix(queue[session]) /\ calls \ {c} \in SUBSET calls
        /\ c.index \in Index /\ currentIndex \in Index /\ c.session = session
    BY <1>2 DEF TypeOK, Active, Sessions, Rest, ChunksExist, Call
  <2>2. queue[session].status[c.index] # "absent"
    <3>1. << c.session, c.index >> # << 0, 0 >>
      BY <2>1 DEF Sessions
    <3> QED BY <2>1, <3>1 DEF ParkInv, Exists
  <2>3. CASE Finish(calls \ {c}, queue[session], "error") /\ UNCHANGED currentIndex
    <3> DEFINE q == Cancelled(queue[session])
    <3>1. /\ calls' = Outdated(calls \ {c}) /\ state' = "error"
          /\ queue' = [queue EXCEPT ![session] = q]
      BY <2>3 DEF Finish
    <3>2. q \in QueueView /\ q.status = queue[session].status
      BY <2>1, CancelledType
    <3>3. q.status[currentIndex'] # "absent"
      BY <1>2, <2>3, <3>2 DEF ParkInv, Stands
    <3> HIDE DEF q
    <3> QED BY <1>0, <1>2, <2>1, <3>1, <3>2, <3>3, HaltMoves
  <2>4. CASE Advance(calls \ {c}, queue[session], c.index)
    BY <1>0, <1>2, <2>1, <2>2, <2>4, AdvanceMoves
  <2> QED BY <1>2, <2>3, <2>4 DEF DecisionMade
<1> QED BY <1>1, <1>2

(* An event moves the player on from the chunk it stands on, asks for a    *)
(* decision on it, or leaves the player where it is.                       *)
LEMMA HandlesMoves ==
  ASSUME TypeOK, TypeOK', Rest, ParkInv, NEW chunk \in Chunk, Handles(chunk)
  PROVE  Moves
<1>1. ASSUME UNCHANGED << state, session, currentIndex, awaiting, calls, disposed, queue >>
      PROVE  Moves
  <2>1. StatusesKept /\ CallsSince /\ Plays' = Plays /\ Deciding' = Deciding
    BY <1>1 DEF StatusesKept, CallsSince, Plays, Deciding
  <2> QED BY <1>1, <2>1, StayMoves
<1>2. ASSUME Active, NEW type, Receive(type, chunk), chunk = Current
      PROVE  /\ session \in Sessions /\ currentIndex \in Index
             /\ queue[session] \in QueueView /\ Prefix(queue[session])
             /\ queue[session].status[currentIndex] # "absent"
  BY <1>2, EventOfCurrent
<1>3. CASE HandleTimeUpdate(chunk)
  BY <1>1, <1>3 DEF HandleTimeUpdate
<1>4. CASE HandleEnded(chunk)
  <2>1. CASE Active /\ chunk = Current /\ state = "playing"
    <3> DEFINE q == Marked(queue[session], currentIndex, "played")
    <3>1. /\ session \in Sessions /\ currentIndex \in Index
          /\ queue[session] \in QueueView /\ Prefix(queue[session])
          /\ queue[session].status[currentIndex] # "absent"
      BY <1>2, <1>4, <2>1 DEF HandleEnded
    <3>2. "played" \in PlayerStatus \cup {"error"}
      BY DEF PlayerStatus
    <3>3. /\ q \in QueueView /\ Prefix(q)
          /\ \A j \in Index : q.status[j] = "absent" <=> queue[session].status[j] = "absent"
      BY <3>1, <3>2, MarkedPrefix
    <3>4. Advance(calls, q, currentIndex) /\ UNCHANGED << session, disposed >>
      BY <1>4, <2>1 DEF HandleEnded
    <3> HIDE DEF q
    <3> QED BY <2>1, <3>1, <3>3, <3>4, AdvanceMoves
  <2>2. CASE ~ (Active /\ chunk = Current /\ state = "playing")
    BY <1>1, <1>4, <2>2 DEF HandleEnded
  <2> QED BY <2>1, <2>2
<1>5. CASE HandleSinkError(chunk)
  <2>1. CASE Active /\ chunk = Current
    <3> DEFINE q == Marked(queue[session], currentIndex, "error")
               d == Suspended("decide", session, currentIndex)
    <3>1. /\ session \in Sessions /\ currentIndex \in Index
          /\ queue[session] \in QueueView /\ Prefix(queue[session])
          /\ queue[session].status[currentIndex] # "absent"
      BY <1>2, <1>5, <2>1 DEF HandleSinkError
    <3>2. /\ q \in QueueView
          /\ \A j \in Index : q.status[j] = "absent" <=> queue[session].status[j] = "absent"
      BY <3>1, MarkedPrefix
    <3>3. /\ queue' = [queue EXCEPT ![session] = q] /\ calls' = calls \cup {d}
          /\ UNCHANGED << state, session, currentIndex, awaiting, disposed >>
      BY <1>5, <2>1 DEF HandleSinkError
    <3>4. d.at = "decide" /\ d.session = session /\ d.index = currentIndex
      BY <3>1, SuspendedType
    <3> HIDE DEF q, d
    <3>5. Plays' = Plays /\ Deciding'
      BY <3>3, <3>4 DEF Plays, Deciding
    <3>6. CallsSince
      BY <2>1, <3>3, <3>4 DEF CallsSince, Active
    <3>7. StatusesKept
      BY <3>1, <3>2, <3>3, QueueKept
    <3> QED BY <3>3, <3>5, <3>6, <3>7, StayMoves
  <2>2. CASE ~ (Active /\ chunk = Current)
    BY <1>1, <1>5, <2>2 DEF HandleSinkError
  <2> QED BY <2>1, <2>2
<1> QED BY <1>3, <1>4, <1>5 DEF Handles

(* A settled chunk and the audio element leave the player where it is.     *)
LEMMA EnvironmentMoves ==
  ASSUME TypeOK, ParkInv,
         \/ \E s \in Sessions, i \in Index, st \in Settled : QueueSettles(s, i, st)
         \/ ViewTicks \/ ViewEnds \/ ViewFails \/ UNCHANGED vars
  PROVE  Moves
<1>1. UNCHANGED << state, session, currentIndex, awaiting, calls, disposed >>
  BY DEF QueueSettles, ViewTicks, ViewEnds, ViewFails, Post, vars
<1>2. CallsSince /\ Plays' = Plays /\ Deciding' = Deciding
  BY <1>1 DEF CallsSince, Plays, Deciding
<1>3. ASSUME NEW s \in Sessions, NEW i \in Index, NEW st \in Settled, QueueSettles(s, i, st)
      PROVE  StatusesKept
  <2> DEFINE q == Answered(queue[s], i, st)
  <2>1. queue' = [queue EXCEPT ![s] = q] /\ queue[s] \in QueueView
    BY <1>3 DEF QueueSettles, TypeOK
  <2>2. /\ q \in QueueView
        /\ \A j \in Index : q.status[j] = IF j = i THEN st ELSE queue[s].status[j]
    BY <2>1, AnsweredType
  <2>3. st # "absent"
    BY DEF Settled, PlayerStatus
  <2> HIDE DEF q
  <2>4. \A j \in Index : queue[s].status[j] # "absent" => q.status[j] # "absent"
    BY <2>2, <2>3
  <2>5. UNCHANGED << session, disposed >>
    BY <1>1
  <2> QED BY <2>1, <2>2, <2>4, <2>5, QueueKept
<1>4. ASSUME UNCHANGED queue PROVE StatusesKept
  BY <1>4 DEF StatusesKept
<1>5. StatusesKept
  BY <1>3, <1>4 DEF ViewTicks, ViewEnds, ViewFails, Post, vars
<1> QED BY <1>1, <1>2, <1>5, StayMoves

(* Where no session is without a chunk, and none follows another, every    *)
(* step keeps the player from being parked.                                *)
LEMMA NextParkInv ==
  ASSUME MaxSessions = 1, MinChunks # 0, IInv, IInv', ParkInv, [Next]_vars
  PROVE  ParkInv'
<1>1. TypeOK /\ TypeOK' /\ Rest
  BY DEF IInv, Rest
<1>2. Moves
  <2>1. CASE UserCommand
    BY <1>1, <2>1, UserCommandMoves
  <2>2. CASE Narrator
    BY <1>1, <2>2, NarratorMoves
  <2>3. ASSUME NEW c \in calls, Resolves(c) PROVE Moves
    BY <1>1, <2>3, PlayResolvesMoves, DecisionMoves DEF Resolves
  <2>4. ASSUME NEW chunk \in Chunk, Handles(chunk) PROVE Moves
    BY <1>1, <2>4, HandlesMoves
  <2>5. CASE \/ \E s \in Sessions, i \in Index, st \in Settled : QueueSettles(s, i, st)
             \/ ViewTicks \/ ViewEnds \/ ViewFails \/ UNCHANGED vars
    BY <1>1, <2>5, EnvironmentMoves
  <2> QED BY <2>1, <2>2, <2>3, <2>4, <2>5 DEF Next
<1>3. ASSUME NEW c \in calls' PROVE Exists(<< c.session, c.index >>)'
  <2>1. CASE \E b \in calls : b.session = c.session /\ b.index = c.index
    <3>1. PICK b \in calls : b.session = c.session /\ b.index = c.index
      BY <2>1
    <3>2. << b.session, b.index >> \in Chunk /\ Exists(<< b.session, b.index >>)
      BY <1>1 DEF ParkInv, TypeOK, Call, Chunk
    <3>3. session' \in Int
      BY <1>1 DEF TypeOK
    <3> QED BY <1>1, <1>2, <3>1, <3>2, <3>3, ExistsKept DEF Moves
  <2>2. CASE Active' /\ c.session = session' /\ c.index = currentIndex'
    <3>1. queue'[session'].status[currentIndex'] # "absent" /\ session' \in Int
      BY <1>1, <1>2, <2>2 DEF Moves, Stands, TypeOK
    <3> QED BY <2>2, <3>1 DEF Exists
  <2> QED BY <1>2, <2>1, <2>2 DEF Moves, CallsSince
<1> QED BY <1>2, <1>3 DEF ParkInv, Moves

(* A player that prepares or buffers has somebody to move it on: a play    *)
(* under way, the narrator or a decision.  It holds for sessions that      *)
(* start with a chunk (Pipeline.startInternal) and for one session; with   *)
(* more, a decision of an earlier one breaks it (handleChunkFailure).      *)
THEOREM NeverParkedHolds ==
  ASSUME MaxSessions = 1, MinChunks # 0
  PROVE  Spec => []NeverParkedForGood
<1>1. Init => ParkInv
  BY DEF Init, ParkInv, Stands, SomebodyMoves, Active
<1>2. IInv /\ ParkInv /\ [Next]_vars => ParkInv'
  BY NextIInv, NextParkInv
<1>3. ParkInv => NeverParkedForGood
  BY DEF ParkInv, SomebodyMoves, NeverParkedForGood
<1> QED BY <1>1, <1>2, <1>3, InvariantHolds, PTL DEF Spec
-----------------------------------------------------------------------------
(* The player does to a queue what SynthesisQueue allows.                  *)

(* One handler does up to three things to a queue: it marks a chunk, moves *)
(* the cursor and asks for the next.                                       *)
Does(q, r) == q = r \/ Allowed(q, r)
Uses(q, r) == \E a, b \in QueueView : Does(q, a) /\ Does(a, b) /\ Does(b, r)

UsesQueues == \A s \in Sessions : Uses(queue[s], queue'[s])

(* The error of a load that was overtaken by a Retry: it is handled though *)
(* its chunk is under synthesis again.                                     *)
LateError ==
  /\ Active /\ queue[session].status[currentIndex] = "pending"
  /\ HandleSinkError(Current)

(* The current chunk has been settled, and not armed again since.          *)
Sounds == queue[session].status[currentIndex] \in Settled \cup PlayerStatus

(* No chunk is added to a queue that is disposed, and what is loaded or    *)
(* plays has been settled.                                                 *)
QueuesFit ==
  /\ ~ disposed => \A s \in Sessions : session < s => queue[s] = Fresh(0)
  /\ Active => ~ queue[session].disposed
  /\ Active /\ (state \in {"playing", "paused"} \/ \E c \in Plays : c.at = "load") => Sounds

(* The queue of one session is used, the others are left alone.            *)
LEMMA OneQueueUsed ==
  ASSUME TypeOK, NEW s \in Sessions, Uses(queue[s], queue'[s]),
         \A t \in Sessions : t # s => queue'[t] = queue[t]
  PROVE  UsesQueues
<1>1. \A q \in QueueView : Uses(q, q)
  BY DEF Uses, Does
<1>2. \A t \in Sessions : queue[t] \in QueueView
  BY DEF TypeOK
<1> QED BY <1>1, <1>2 DEF UsesQueues

(* One thing done, or two of them, is a use.                               *)
LEMMA UsedOnce ==
  ASSUME NEW q \in QueueView, NEW a \in QueueView, NEW r \in QueueView, Does(q, a), Does(a, r)
  PROVE  Uses(q, r)
BY DEF Uses, Does

(* playIndex() on a queue that was left `q`.                               *)
LEMMA PlayIndexUses ==
  ASSUME TypeOK, QueuesFit, Active, NEW i \in Index, NEW S \in SUBSET Call,
         NEW q \in QueueView, NEW st \in States, ~ q.disposed, Does(queue[session], q),
         PlayIndex(session, i, S, q, st), UNCHANGED << session, disposed >>
  PROVE  QueuesFit' /\ UsesQueues
<1> DEFINE a == Resumed(q)
           r == Asked(a, i)
<1>1. session \in Sessions /\ session \in Int
  BY BoundAssumption DEF TypeOK, Active, Sessions
<1>2. /\ a \in QueueView /\ r \in QueueView /\ r.status = q.status
      /\ Does(q, a) /\ Does(a, r)
  BY ResumedType, AskedType DEF Does, Allowed
<1>3. ~ r.disposed
  BY DEF Asked, Resumed, QueueView
<1>4. queue' = [queue EXCEPT ![session] = r]
  BY DEF PlayIndex
<1> HIDE DEF a, r
<1>5. queue'[session] = r /\ \A t \in Sessions : t # session => queue'[t] = queue[t]
  BY <1>1, <1>4 DEF TypeOK
<1>6. UsesQueues
  <2>1. Uses(queue[session], r)
    BY <1>2 DEF Uses
  <2> QED BY <1>1, <1>5, <2>1, OneQueueUsed
<1>7. \A c \in Plays' : c.at # "load"
  BY <1>1, PlayIndexPlays, SuspendedType
<1>8. state' \in {"playing", "paused"} => q.status[i] = "ready"
  BY DEF PlayIndex
<1>9. Sounds' \/ state' \notin {"playing", "paused"}
  BY <1>2, <1>5, <1>8 DEF Sounds, Settled, PlayIndex
<1> QED BY <1>1, <1>3, <1>5, <1>6, <1>7, <1>9 DEF QueuesFit, Active

(* The plays are overtaken and the queue is left `r`.                      *)
LEMMA HaltUses ==
  ASSUME TypeOK, QueuesFit, Active, NEW S \in SUBSET Call, NEW q \in QueueView,
         NEW r \in {q, Cancelled(q)}, ~ q.disposed, Does(queue[session], q),
         queue' = [queue EXCEPT ![session] = r], calls' = Outdated(S),
         state' \notin {"playing", "paused"}, UNCHANGED << session, disposed >>
  PROVE  QueuesFit' /\ UsesQueues
<1>1. session \in Sessions /\ session \in Int /\ queue[session] \in QueueView
  BY BoundAssumption DEF TypeOK, Active, Sessions
<1>2. r \in QueueView /\ Does(q, r)
  BY CancelledType DEF Does, Allowed
<1>3. ~ r.disposed
  BY DEF Cancelled, QueueView
<1>4. queue'[session] = r /\ \A t \in Sessions : t # session => queue'[t] = queue[t]
  BY <1>1 DEF TypeOK
<1>5. UsesQueues
  BY <1>1, <1>2, <1>4, UsedOnce, OneQueueUsed
<1>6. Plays' = {}
  BY OutdatedType DEF Plays, PlaysOf
<1> QED BY <1>1, <1>3, <1>4, <1>5, <1>6 DEF QueuesFit, Active

(* next() on a queue that was left `q`.                                    *)
LEMMA AdvanceUses ==
  ASSUME TypeOK, QueuesFit, Active, NEW S \in SUBSET Call, NEW q \in QueueView,
         NEW c \in Index, ~ q.disposed, Does(queue[session], q), Advance(S, q, c),
         UNCHANGED << session, disposed >>
  PROVE  QueuesFit' /\ UsesQueues
<1>1. CASE c + 1 < Length(q) /\ PlayIndex(session, c + 1, S, q, state)
  <2>1. c + 1 \in Index /\ state \in States
    BY <1>1, LengthType, SizeAssumption DEF Index, TypeOK
  <2> QED BY <1>1, <2>1, PlayIndexUses
<1>2. CASE Finish(S, q, "completed")
  BY <1>2, HaltUses DEF Finish
<1>3. CASE /\ calls' = Outdated(S) /\ state' = "preparing"
           /\ queue' = [queue EXCEPT ![session] = q]
  BY <1>3, HaltUses
<1> QED BY <1>1, <1>2, <1>3 DEF Advance

(* A step that leaves the queues alone, and starts neither to play nor to  *)
(* load.                                                                   *)
LEMMA StayUses ==
  ASSUME TypeOK, QueuesFit, UNCHANGED << session, currentIndex, disposed, queue >>,
         state' \in {"playing", "paused"} => state \in {"playing", "paused"},
         \A c \in Plays' : c.at = "load" => c \in Plays
  PROVE  QueuesFit' /\ UsesQueues
<1>1. QueuesFit'
  BY DEF QueuesFit, Active, Sounds
<1>2. \A s \in Sessions : queue[s] \in QueueView /\ queue'[s] = queue[s]
  BY DEF TypeOK
<1>3. UsesQueues
  BY <1>2, UsedOnce DEF UsesQueues, Does
<1> QED BY <1>1, <1>3

(* A step that does one thing to a queue and leaves settled what was.      *)
LEMMA QueueUses ==
  ASSUME TypeOK, QueuesFit, NEW s \in Sessions, NEW q \in QueueView, Does(queue[s], q),
         queue' = [queue EXCEPT ![s] = q], q.disposed = queue[s].disposed,
         queue[s] = Fresh(0) => q = Fresh(0) \/ s <= session,
         \A j \in Index : queue[s].status[j] \in Settled \cup PlayerStatus
                            => q.status[j] \in Settled \cup PlayerStatus,
         UNCHANGED << session, currentIndex, disposed >>,
         state' \in {"playing", "paused"}
           => state \in {"playing", "paused"} \/ \E c \in Plays : c.at = "load",
         \A c \in Plays' : c.at = "load" => c \in Plays
  PROVE  QueuesFit' /\ UsesQueues
<1>1. queue'[s] = q /\ \A t \in Sessions : t # s => queue'[t] = queue[t]
  BY DEF TypeOK
<1>2. queue[s] \in QueueView /\ session \in Int /\ s \in Int /\ currentIndex \in Index
  BY DEF TypeOK, Sessions
<1>3. UsesQueues
  <2>1. Uses(queue[s], q)
    BY <1>2, UsedOnce DEF Does
  <2> QED BY <1>1, <2>1, OneQueueUsed
<1>4. Active => session \in Sessions
  BY BoundAssumption DEF TypeOK, Active, Sessions
<1>5. \A t \in Sessions : ~ disposed /\ session < t => queue'[t] = Fresh(0)
  BY <1>1, <1>2 DEF QueuesFit
<1>6. Active => ~ queue'[session].disposed
  BY <1>1, <1>4 DEF QueuesFit
<1>7. Active /\ Sounds => Sounds'
  BY <1>1, <1>2, <1>4 DEF Sounds
<1> QED BY <1>3, <1>5, <1>6, <1>7 DEF QueuesFit, Active

(* start() disposes the queue there is and gives the new one its chunks.   *)
LEMMA StartUses ==
  ASSUME TypeOK, QueuesFit, NEW n \in MinChunks .. MaxChunks, NEW seal \in BOOLEAN,
         Start(n, seal)
  PROVE  QueuesFit' /\ UsesQueues
<1> DEFINE s    == session + 1
           torn == [t \in Sessions |-> IF t = session THEN Disposed(queue[t]) ELSE queue[t]]
           new  == IF n > 0 THEN Asked(Fresh(n), 0) ELSE Fresh(0)
<1>1. /\ s \in Sessions /\ n \in 0 .. MaxChunks /\ 0 \in Index
      /\ session' = s /\ ~ disposed /\ ~ disposed' /\ session \in Nat
  BY BoundAssumption, SizeAssumption DEF Start, Index, TypeOK
<1>2. queue' = [torn EXCEPT ![s] = new]
  BY DEF Start
<1>3. /\ queue'[s] = new /\ (session \in Sessions => queue'[session] = Disposed(queue[session]))
      /\ \A t \in Sessions : t # s /\ t # session => queue'[t] = queue[t]
  BY <1>1, <1>2
<1>4. queue[s] = Fresh(0)
  BY <1>1 DEF QueuesFit
<1>5. Fresh(0) \in QueueView /\ Fresh(n) \in QueueView /\ new \in QueueView
  BY <1>1, FreshType, AskedType, SizeAssumption
<1>6. ~ new.disposed
  BY <1>5 DEF Asked, Fresh, QueueView
<1>7. Does(Fresh(0), Fresh(n))
  <2>1. CASE n = 0
    BY <2>1 DEF Does
  <2>2. CASE n # 0
    <3>1. Length(Fresh(0)) = 0
      <4>1. {i \in Index : Fresh(0).status[i] # "absent"} = {}
        BY DEF Fresh, Index
      <4> QED BY <4>1, FS_EmptySet DEF Length
    <3>2. Fresh(n) = Appended(Fresh(0), n)
      <4>1. \A i \in Index : i \in 0 .. n - 1 <=> i < n
        BY <1>1, SizeAssumption DEF Index
      <4>2. \A i \in Index : Fresh(0).status[i] = "absent"
        BY SizeAssumption DEF Fresh, Index
      <4>3. Fresh(n).status = [i \in Index |-> IF i \in 0 .. n - 1 THEN "pending"
                                             ELSE Fresh(0).status[i]]
        BY <4>1, <4>2 DEF Fresh
      <4>4. 0 + n - 1 = n - 1
        BY <1>1
      <4>5. Appended(Fresh(0), n).status = Fresh(n).status
        BY <1>5, <3>1, <4>3, <4>4 DEF Appended, QueueView
      <4>6. /\ Appended(Fresh(0), n).waiting = Fresh(n).waiting
            /\ Appended(Fresh(0), n).suspended = Fresh(n).suspended
            /\ Appended(Fresh(0), n).disposed = Fresh(n).disposed
        BY DEF Appended, Fresh
      <4>7. Appended(Fresh(0), n) \in QueueView
        BY <1>1, <1>5, <2>2, <3>1, AppendedType
      <4> QED BY <1>5, <4>5, <4>6, <4>7 DEF QueueView
    <3>3. Appends(Fresh(0), n, Fresh(n))
      BY <1>1, <2>2, <3>1, <3>2 DEF Appends, Fresh
    <3> QED BY <1>1, <2>2, <3>3 DEF Does, Allowed
  <2> QED BY <2>1, <2>2
<1>8. Does(Fresh(n), new)
  <2>1. CASE n > 0
    BY <1>1, <2>1 DEF Does, Allowed
  <2>2. CASE ~ n > 0
    BY <1>1, <2>2 DEF Does
  <2> QED BY <2>1, <2>2
<1>9. ASSUME session \in Sessions PROVE Uses(queue[session], Disposed(queue[session]))
  <2>1. queue[session] \in QueueView /\ Disposed(queue[session]) \in QueueView
    BY <1>9, DisposedType DEF TypeOK
  <2>2. ~ queue[session].disposed
    BY <1>1, <1>9 DEF QueuesFit, Active, Sessions
  <2>3. Does(queue[session], Disposed(queue[session]))
    BY <2>2 DEF Does, Allowed
  <2> QED BY <2>1, <2>3, UsedOnce DEF Does
<1>10. Uses(queue[s], new)
  BY <1>4, <1>5, <1>7, <1>8, UsedOnce
<1> HIDE DEF new, torn
<1>11. UsesQueues
  <2>1. \A t \in Sessions : queue[t] \in QueueView /\ Uses(queue[t], queue[t])
    BY UsedOnce DEF TypeOK, Does
  <2> QED BY <1>3, <1>9, <1>10, <2>1 DEF UsesQueues
<1>12. \A t \in Sessions : s < t => queue'[t] = Fresh(0)
  BY <1>1, <1>3 DEF QueuesFit, Sessions
<1>13. state' \notin {"playing", "paused"} /\ \A c \in Plays' : c.at # "load"
  <2>1. calls' = Outdated(calls) \cup {Suspended("wait", s, i) : i \in {j \in {0} : n > 0}}
    BY DEF Start
  <2>2. \A c \in Outdated(calls) : ~ c.fresh
    BY DEF Outdated, TypeOK, Call
  <2>3. \A i \in {0} : Suspended("wait", s, i).at = "wait"
    BY DEF Suspended
  <2> QED BY <2>1, <2>2, <2>3 DEF Plays, Start
<1> QED BY <1>1, <1>3, <1>6, <1>11, <1>12, <1>13 DEF QueuesFit

(* A command of the user.                                                  *)
LEMMA UserCommandUses ==
  ASSUME TypeOK, QueuesFit, UserCommand
  PROVE  QueuesFit' /\ UsesQueues
<1>1. Active => /\ session \in Sessions /\ queue[session] \in QueueView
                /\ ~ queue[session].disposed /\ Does(queue[session], queue[session])
                /\ calls \in SUBSET Call /\ currentIndex \in Index /\ state \in States
  BY BoundAssumption DEF TypeOK, Active, Sessions, QueuesFit, Does
<1>2. ASSUME NEW n \in MinChunks .. MaxChunks, NEW seal \in BOOLEAN, Start(n, seal)
      PROVE  QueuesFit' /\ UsesQueues
  BY <1>2, StartUses
<1>3. CASE Pause \/ Resume
  <2>1. /\ UNCHANGED << session, currentIndex, disposed, queue, calls >>
        /\ state \in {"playing", "paused"}
    BY <1>3 DEF Pause, Resume
  <2> QED BY <2>1, StayUses DEF Plays
<1>4. CASE Stop
  BY <1>1, <1>4, HaltUses DEF Stop, Finish
<1>5. CASE Skip
  BY <1>1, <1>5, AdvanceUses DEF Skip
<1>6. CASE Previous
  <2> DEFINE i == IF position = "head" /\ currentIndex > 0
                  THEN currentIndex - 1 ELSE currentIndex
  <2>1. i \in Index /\ Active
    BY <1>6, SizeAssumption DEF TypeOK, Index, Previous
  <2>2. /\ PlayIndex(session, i, calls, queue[session], state)
        /\ UNCHANGED << session, disposed >>
    BY <1>6 DEF Previous
  <2> HIDE DEF i
  <2> QED BY <1>1, <2>1, <2>2, PlayIndexUses
<1>7. CASE RetryCurrentChunk
  <2> DEFINE q == Rearmed(queue[session], currentIndex)
  <2>1. /\ Active /\ PlayIndex(session, currentIndex, calls, q, state)
        /\ UNCHANGED << session, disposed >>
    BY <1>7 DEF RetryCurrentChunk
  <2>2. q \in QueueView
    BY <1>1, <2>1, RearmedType
  <2>3. ~ q.disposed
    BY <1>1, <2>1 DEF Rearmed, QueueView
  <2>4. Does(queue[session], q)
    BY <1>1, <2>1 DEF Does, Allowed
  <2> HIDE DEF q
  <2> QED BY <1>1, <2>1, <2>2, <2>3, <2>4, PlayIndexUses
<1>8. CASE Dispose
  <2>1. disposed' /\ queue' =
          [t \in Sessions |-> IF t = session THEN Disposed(queue[t]) ELSE queue[t]]
    BY <1>8 DEF Dispose
  <2>2. ASSUME NEW t \in Sessions PROVE Uses(queue[t], queue'[t])
    <3>1. queue[t] \in QueueView /\ Disposed(queue[t]) \in QueueView
      BY DisposedType DEF TypeOK
    <3>2. t = session => ~ queue[t].disposed
      BY <1>8 DEF QueuesFit, Active, Dispose, Sessions
    <3>3. Does(queue[t], queue'[t])
      BY <2>1, <3>2 DEF Does, Allowed
    <3> QED BY <2>1, <3>1, <3>3, UsedOnce DEF Does
  <2> QED BY <2>1, <2>2 DEF UsesQueues, QueuesFit, Active
<1> QED BY <1>2, <1>3, <1>4, <1>5, <1>6, <1>7, <1>8 DEF UserCommand

(* The narrator.                                                           *)
LEMMA NarratorUses ==
  ASSUME TypeOK, Rest, QueuesFit, Narrator
  PROVE  QueuesFit' /\ UsesQueues
<1>1. /\ Active /\ session \in Sessions /\ queue[session] \in QueueView
      /\ Prefix(queue[session])
      /\ ~ queue[session].disposed /\ Does(queue[session], queue[session])
      /\ calls \in SUBSET Call /\ state \in States /\ UNCHANGED << session, disposed >>
  BY BoundAssumption
  DEF TypeOK, Active, Sessions, QueuesFit, Does, Rest, ChunksExist, Narrator, SealSegments,
      AppendSegments
<1>2. CASE SealSegments
  <2>1. CASE awaiting # NoIndex
    BY <1>1, <1>2, <2>1, HaltUses DEF SealSegments, Finish
  <2>2. CASE awaiting = NoIndex
    <3>1. UNCHANGED << session, currentIndex, disposed, queue, calls, state >>
      BY <1>2, <2>2 DEF SealSegments
    <3> QED BY <3>1, StayUses DEF Plays
  <2> QED BY <2>1, <2>2
<1>3. ASSUME NEW n \in 1 .. MaxChunks, AppendSegments(n) PROVE QueuesFit' /\ UsesQueues
  <2> DEFINE q == Appended(queue[session], n)
  <2>1. Length(queue[session]) + n <= MaxChunks
    BY <1>3 DEF AppendSegments
  <2>2. /\ q \in QueueView
        /\ \A i \in Index : queue[session].status[i] # "absent"
                            => q.status[i] = queue[session].status[i]
    BY <1>1, <2>1, AppendedType
  <2>3. q.disposed = queue[session].disposed
    BY <1>1 DEF Appended, QueueView
  <2>4. Does(queue[session], q)
    BY <1>1, <2>1 DEF Does, Allowed, Appends
  <2>5. CASE awaiting # NoIndex /\ awaiting < Length(q)
    <3>1. Length(q) \in 0 .. MaxChunks
      BY <2>2, LengthType
    <3>2. awaiting \in Index /\ ~ awaiting >= Length(q)
      BY <2>5, <3>1, SizeAssumption DEF Index, TypeOK
    <3>3. PlayIndex(session, awaiting, calls, q, state)
      BY <1>3, <2>5, <3>2 DEF AppendSegments
    <3> HIDE DEF q
    <3> QED BY <1>1, <2>2, <2>3, <2>4, <3>2, <3>3, PlayIndexUses
  <2>6. CASE ~ (awaiting # NoIndex /\ awaiting < Length(q))
    <3>1. /\ queue' = [queue EXCEPT ![session] = q]
          /\ UNCHANGED << state, currentIndex, calls >>
      BY <1>3, <2>6 DEF AppendSegments
    <3>2. session <= session
      BY DEF TypeOK
    <3> HIDE DEF q
    <3>3. \A j \in Index : queue[session].status[j] \in Settled \cup PlayerStatus
                             => q.status[j] \in Settled \cup PlayerStatus
      BY <2>2 DEF Settled, PlayerStatus
    <3>4. Plays' = Plays
      BY <3>1 DEF Plays
    <3> QED BY <1>1, <2>2, <2>3, <2>4, <3>1, <3>2, <3>3, <3>4, QueueUses
  <2> QED BY <2>5, <2>6
<1> QED BY <1>2, <1>3 DEF Narrator

(* A suspended call resumes.                                               *)
LEMMA ResolvesUses ==
  ASSUME TypeOK, Rest, QueuesFit, NEW c \in calls, Resolves(c)
  PROVE  QueuesFit' /\ UsesQueues
<1>1. UNCHANGED << session, disposed >> /\ c \in Call
  BY DEF Resolves, WaitResolves, LoadResolves, DecisionMade, TypeOK
<1>2. CASE Drop(c)
  <2>1. UNCHANGED << state, currentIndex, queue >> /\ Plays' \subseteq Plays
    BY <1>2 DEF Drop, Plays
  <2> QED BY <1>1, <2>1, StayUses
<1>3. CASE WaitResolves(c) /\ ~ Drop(c)
  <2>1. /\ c \in Plays /\ c.index \notin queue[c.session].waiting
        /\ UNCHANGED << state, currentIndex, queue >>
    BY <1>1, <1>3 DEF WaitResolves, Stale, Plays, Call
  <2>2. c.session = session /\ c.index = currentIndex
    BY <2>1, PlayIsCurrent
  <2>3. CASE calls' = (calls \ {c}) \cup {Suspended("decide", c.session, c.index)}
    <3>1. Plays' \subseteq Plays
      BY <2>3 DEF Plays, Suspended
    <3> QED BY <1>1, <2>1, <3>1, StayUses
  <2>4. CASE queue[c.session].status[c.index] \in {"ready"} \cup PlayerStatus
    <3>1. Sounds'
      BY <1>1, <2>1, <2>2, <2>4 DEF Sounds, Settled
    <3>2. UsesQueues
      BY <2>1, UsedOnce DEF UsesQueues, Does, TypeOK
    <3> QED BY <1>1, <2>1, <3>1, <3>2 DEF QueuesFit, Active
  <2> QED BY <1>3, <2>3, <2>4 DEF WaitResolves
<1>4. CASE LoadResolves(c) /\ ~ Drop(c)
  <2>1. c \in Plays /\ c.at = "load" /\ ~ Stale(c)
    BY <1>1, <1>4 DEF LoadResolves, Stale, Plays
  <2>2. /\ c.session = session /\ c.index = currentIndex /\ Active /\ Plays = {c}
        /\ session \in Sessions /\ currentIndex \in Index
    BY <2>1, PlayIsCurrent
  <2> DEFINE q == queue[session]
             m == Marked(q, currentIndex, "playing")
             r == Resumed(m)
  <2>3. /\ queue' = [queue EXCEPT ![session] = r] /\ UNCHANGED currentIndex
        /\ Plays' \subseteq Plays
    BY <1>4, <2>1, <2>2 DEF LoadResolves, Plays
  <2>4. q \in QueueView /\ "playing" \in PlayerStatus /\ Sounds /\ ~ q.disposed
    BY <2>1, <2>2 DEF TypeOK, PlayerStatus, QueuesFit
  <2>5. /\ m \in QueueView
        /\ \A j \in Index : m.status[j] = IF j = currentIndex THEN "playing" ELSE q.status[j]
    BY <2>2, <2>4, MarkedType
  <2>6. Does(q, m)
    BY <2>2, <2>4 DEF Does, Allowed, Marks, Sounds
  <2>7. r \in QueueView /\ r.status = m.status /\ Does(m, r)
    BY <2>5, ResumedType DEF Does, Allowed
  <2>8. ~ r.disposed
    BY <2>4 DEF Resumed, Marked, QueueView
  <2> HIDE DEF m, r
  <2>9. queue'[session] = r /\ \A t \in Sessions : t # session => queue'[t] = queue[t]
    BY <2>2, <2>3 DEF TypeOK
  <2>10. UsesQueues
    BY <2>2, <2>4, <2>5, <2>6, <2>7, <2>9, UsedOnce, OneQueueUsed
  <2>11. Sounds'
    BY <1>1, <2>2, <2>3, <2>4, <2>5, <2>7, <2>9 DEF Sounds
  <2> QED BY <1>1, <2>2, <2>8, <2>9, <2>10, <2>11 DEF QueuesFit, Active, TypeOK
<1>5. ASSUME NEW d \in {"skip", "stop"}, DecisionMade(c, d), ~ Drop(c)
      PROVE  QueuesFit' /\ UsesQueues
  <2>1. /\ Active /\ queue[session] \in QueueView /\ ~ queue[session].disposed
        /\ Does(queue[session], queue[session]) /\ calls \ {c} \in SUBSET Call
        /\ c.index \in Index
    BY <1>1, <1>5, BoundAssumption
    DEF DecisionMade, TypeOK, Active, Sessions, QueuesFit, Does, Call
  <2>2. CASE Finish(calls \ {c}, queue[session], "error")
    BY <1>1, <2>1, <2>2, HaltUses DEF Finish
  <2>3. CASE Advance(calls \ {c}, queue[session], c.index)
    BY <1>1, <2>1, <2>3, AdvanceUses
  <2> QED BY <1>5, <2>2, <2>3 DEF DecisionMade
<1> QED BY <1>2, <1>3, <1>4, <1>5 DEF Resolves

(* An event of the surface is handled.  A late error does what the queue   *)
(* does not allow, and keeps the invariant.                                *)
LEMMA HandlesUses ==
  ASSUME TypeOK, Rest, QueuesFit, NEW chunk \in Chunk, Handles(chunk)
  PROVE  QueuesFit' /\ (UsesQueues \/ LateError)
<1>1. PICK type : Receive(type, chunk)
  BY DEF Handles, HandleTimeUpdate, HandleEnded, HandleSinkError
<1>2. UNCHANGED << session, disposed >>
  BY DEF Handles, HandleTimeUpdate, HandleEnded, HandleSinkError
<1>3. ASSUME UNCHANGED << state, currentIndex, calls, queue >>
      PROVE  QueuesFit' /\ UsesQueues
  BY <1>2, <1>3, StayUses DEF Plays
<1>4. CASE ~ (Active /\ chunk = Current) \/ HandleTimeUpdate(chunk)
  BY <1>3, <1>4 DEF Handles, HandleTimeUpdate, HandleEnded, HandleSinkError
<1>5. CASE Active /\ chunk = Current
  <2>1. /\ session \in Sessions /\ currentIndex \in Index /\ queue[session] \in QueueView
        /\ calls \in SUBSET Call /\ queue[session].status[currentIndex] # "absent"
    BY <1>1, <1>5, EventOfCurrent
  <2>2. ~ queue[session].disposed
    BY <1>5 DEF QueuesFit
  <2>3. ASSUME NEW st \in PlayerStatus \cup {"error"}
        PROVE  /\ Marked(queue[session], currentIndex, st) \in QueueView
               /\ \A j \in Index : Marked(queue[session], currentIndex, st).status[j]
                                   = IF j = currentIndex THEN st ELSE queue[session].status[j]
               /\ ~ Marked(queue[session], currentIndex, st).disposed
               /\ Sounds => Does(queue[session], Marked(queue[session], currentIndex, st))
    <3>1. ~ Marked(queue[session], currentIndex, st).disposed
      BY <2>1, <2>2 DEF Marked, QueueView
    <3>2. Sounds => Does(queue[session], Marked(queue[session], currentIndex, st))
      BY <2>1 DEF Does, Allowed, Marks, Sounds
    <3> QED BY <2>1, <3>1, <3>2, MarkedType
  <2>4. CASE HandleEnded(chunk)
    <3> DEFINE q == Marked(queue[session], currentIndex, "played")
    <3>1. CASE state = "playing"
      <4>1. Advance(calls, q, currentIndex) /\ Sounds
        BY <1>5, <2>4, <3>1 DEF HandleEnded, QueuesFit
      <4>2. q \in QueueView /\ ~ q.disposed /\ Does(queue[session], q)
        <5>1. "played" \in PlayerStatus \cup {"error"}
          BY DEF PlayerStatus
        <5> QED BY <2>3, <4>1, <5>1
      <4> HIDE DEF q
      <4> QED BY <1>2, <1>5, <2>1, <4>1, <4>2, AdvanceUses
    <3>2. CASE state # "playing"
      BY <1>3, <2>4, <3>2 DEF HandleEnded
    <3> QED BY <3>1, <3>2
  <2>5. CASE HandleSinkError(chunk)
    <3> DEFINE q == Marked(queue[session], currentIndex, "error")
    <3>1. /\ queue' = [queue EXCEPT ![session] = q]
          /\ calls' = calls \cup {Suspended("decide", session, currentIndex)}
          /\ UNCHANGED << state, currentIndex >>
      BY <1>5, <2>5 DEF HandleSinkError
    <3>2. \A c \in Plays' : c \in Plays
      BY <3>1 DEF Plays, Suspended
    <3>3. /\ q \in QueueView /\ ~ q.disposed /\ (Sounds => Does(queue[session], q))
          /\ \A j \in Index : q.status[j] = IF j = currentIndex THEN "error"
                                            ELSE queue[session].status[j]
      BY <2>3
    <3> HIDE DEF q
    <3>4. /\ queue'[session] = q /\ \A t \in Sessions : t # session => queue'[t] = queue[t]
          /\ session \in Int
      BY <2>1, <3>1 DEF TypeOK, Sessions
    <3>5. Sounds'
      BY <1>2, <2>1, <3>1, <3>3, <3>4 DEF Sounds, Settled
    <3>6. QueuesFit'
      BY <1>2, <1>5, <3>1, <3>3, <3>4, <3>5 DEF QueuesFit, Active
    <3>7. CASE Sounds
      <4>1. Uses(queue[session], q)
        BY <2>1, <3>3, <3>7, UsedOnce DEF Does
      <4> QED BY <2>1, <3>4, <3>6, <4>1, OneQueueUsed
    <3>8. CASE ~ Sounds
      <4>1. queue[session].status[currentIndex] = "pending"
        BY <2>1, <3>8 DEF Sounds, QueueView, ViewStatus
      <4> QED BY <1>5, <2>5, <3>6, <4>1 DEF LateError
    <3> QED BY <3>7, <3>8
  <2> QED BY <1>4, <2>4, <2>5 DEF Handles
<1> QED BY <1>4, <1>5

(* A chunk is settled, by a queue that has it.                             *)
LEMMA SettlesUses ==
  ASSUME TypeOK, QueuesFit, NEW s \in Sessions, NEW i \in Index, NEW st \in Settled,
         QueueSettles(s, i, st)
  PROVE  QueuesFit' /\ UsesQueues
<1> DEFINE q == Answered(queue[s], i, st)
<1>1. /\ queue[s].status[i] = "pending" /\ queue' = [queue EXCEPT ![s] = q]
      /\ UNCHANGED << state, session, currentIndex, calls, disposed >>
  BY DEF QueueSettles
<1>2. /\ q \in QueueView
      /\ \A j \in Index : q.status[j] = IF j = i THEN st ELSE queue[s].status[j]
  BY AnsweredType DEF TypeOK
<1>3. q.disposed = queue[s].disposed
  BY DEF Answered, QueueView, TypeOK
<1>4. Does(queue[s], q)
  BY DEF Does, Allowed, Settles, QueueSettles
<1>5. queue[s] # Fresh(0)
  <2>1. Fresh(0).status[i] = "absent"
    BY SizeAssumption DEF Fresh, Index
  <2> QED BY <1>1, <2>1
<1> HIDE DEF q
<1>6. Plays' = Plays
  BY <1>1 DEF Plays
<1>7. \A j \in Index : queue[s].status[j] \in Settled \cup PlayerStatus
                         => q.status[j] \in Settled \cup PlayerStatus
  BY <1>2
<1>8. queue[s] = Fresh(0) => q = Fresh(0) \/ s <= session
  BY <1>5
<1> QED BY <1>1, <1>2, <1>3, <1>4, <1>6, <1>7, <1>8, QueueUses

(* Every step uses the queues as they allow, or is a late error.           *)
LEMMA NextUses ==
  ASSUME IInv, QueuesFit, [Next]_vars
  PROVE  QueuesFit' /\ (UsesQueues \/ LateError)
<1>1. TypeOK /\ Rest
  BY DEF IInv, Rest
<1>2. CASE UserCommand
  BY <1>1, <1>2, UserCommandUses
<1>3. CASE Narrator
  BY <1>1, <1>3, NarratorUses
<1>4. ASSUME NEW c \in calls, Resolves(c) PROVE QueuesFit' /\ UsesQueues
  BY <1>1, <1>4, ResolvesUses
<1>5. ASSUME NEW chunk \in Chunk, Handles(chunk)
      PROVE  QueuesFit' /\ (UsesQueues \/ LateError)
  BY <1>1, <1>5, HandlesUses
<1>6. ASSUME NEW s \in Sessions, NEW i \in Index, NEW st \in Settled, QueueSettles(s, i, st)
      PROVE  QueuesFit' /\ UsesQueues
  BY <1>1, <1>6, SettlesUses
<1>7. CASE ViewTicks \/ ViewEnds \/ ViewFails \/ UNCHANGED vars
  <2>1. UNCHANGED << state, session, currentIndex, disposed, queue, calls >>
    BY <1>7 DEF ViewTicks, ViewEnds, ViewFails, Post, vars
  <2> QED BY <1>1, <2>1, StayUses DEF Plays
<1> QED BY <1>2, <1>3, <1>4, <1>5, <1>6, <1>7 DEF Next

(* What is loaded or plays has been settled and not armed again since, and *)
(* the queue of the session is not disposed.                               *)
THEOREM QueuesFitHolds == Spec => []QueuesFit
<1>1. Init => QueuesFit
  BY DEF Init, QueuesFit, Active
<1>2. IInv /\ QueuesFit /\ [Next]_vars => QueuesFit'
  BY NextUses
<1> QED BY <1>1, <1>2, InvariantHolds, PTL DEF Spec

(* The player and the queue fit: whatever a handler of PlaybackController  *)
(* does to a queue is what SynthesisQueue allows, and so what AudioQueue   *)
(* is proved to keep its promise under.  The exception is the error of a   *)
(* load overtaken by a Retry (handleSinkError).                            *)
THEOREM UsesQueuesAsAllowed == Spec => [][UsesQueues \/ LateError]_vars
<1>1. IInv /\ QueuesFit /\ [Next]_vars => [UsesQueues \/ LateError]_vars
  BY NextUses
<1> QED BY <1>1, InvariantHolds, QueuesFitHolds, PTL DEF Spec
=============================================================================
