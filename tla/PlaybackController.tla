------------------------- MODULE PlaybackController -------------------------
(***************************************************************************)
(* The player (playback/PlaybackController.ts) with what it drives: the    *)
(* synthesis queue of each session, seen through QueueOps, and the audio   *)
(* surface (playback/WebviewAudioSink.ts and media/player/player.js).      *)
(*                                                                         *)
(* A public method, an event handler or the part of an asynchronous method *)
(* between two awaits is one action.  A suspended call is a record of      *)
(* `calls`.  The code compares the generation a call captured with the     *)
(* current one; since generations only grow, a call needs no more than a   *)
(* flag `fresh`, cleared by every increment.                               *)
(***************************************************************************)
EXTENDS QueueOps, Sequences

CONSTANTS
  MaxSessions,    \* bound: start() calls
  MaxCommands,    \* bound: calls the user and the narrator make in all
  MaxEvents,      \* bound: sink events on their way to the host
  MinChunks       \* fewest segments start() is called with

ASSUME BoundAssumption ==
  /\ MaxSessions \in Nat \ {0} /\ MaxCommands \in Nat /\ MaxEvents \in Nat \ {0}
  /\ MinChunks \in 0 .. MaxChunks

Sessions == 1 .. MaxSessions

VARIABLES
  state,         \* CdC 34
  session,       \* number of the active session, 0 when there is none
  sealed,        \* session.sealed
  currentIndex,
  position,      \* positionMs: "head" below previousThresholdMs, else "deep"
  awaiting,      \* awaitingIndex, NoIndex when undefined
  calls,         \* suspended asynchronous calls
  disposed,
  queue,         \* queue of each session
  view,          \* the audio element: what is loaded, and what it does
  inbox,         \* events posted by the webview, not yet received
  commands       \* number of commands given

vars == << state, session, sealed, currentIndex, position, awaiting, calls, disposed,
           queue, view, inbox, commands >>

States  == {"idle", "preparing", "buffering", "playing", "paused", "stopped",
            "completed", "error"}
NoIndex == -1
Chunk   == {<< 0, 0 >>} \cup (Sessions \X Index)
Modes   == {"playing", "paused", "ended", "failed", "unloaded"}

(* `wait` and `load` are the two awaits of playIndex(), `decide` the one   *)
(* of handleChunkFailure().                                                *)
Call    == [at : {"wait", "load", "decide"}, session : Sessions, index : Index,
            fresh : BOOLEAN]
Event   == [type : {"timeupdate", "ended", "error"}, chunk : Chunk]

Suspended(at, s, i) == [at |-> at, session |-> s, index |-> i, fresh |-> TRUE]
Outdated(S) == {[c EXCEPT !.fresh = FALSE] : c \in S}

Active  == ~ disposed /\ session # 0
Current == << session, currentIndex >>

(* sink.load() (which posts autoplay), play(), pause() and stop().  The    *)
(* stop of player.js forgets the chunk and keeps the source: a play()      *)
(* would be heard, and no event of it reported.                            *)
Loaded(s, i) == [chunk |-> << s, i >>, mode |-> "playing"]
Played(v)    == IF v.mode = "failed" THEN v ELSE [v EXCEPT !.mode = "playing"]
Paused(v)    == IF v.mode = "playing" THEN [v EXCEPT !.mode = "paused"] ELSE v
Unloaded     == [chunk |-> << 0, 0 >>, mode |-> "unloaded"]

-----------------------------------------------------------------------------
(* Internal methods.  Each is given the calls `S` that stay suspended and  *)
(* the queue `q` the calling method leaves it.                             *)

(* Faulty variant: playIndex() does not bump the generation.               *)
PlayIndexInSameGeneration(s, i, S, q, st) ==
  /\ currentIndex' = i
  /\ position' = "head"
  /\ awaiting' = NoIndex
  /\ state' = IF q.status[i] = "ready" THEN st ELSE "preparing"
  /\ queue' = [queue EXCEPT ![s] = Asked(Resumed(q), i)]
  /\ calls' = S \cup
              {Suspended("wait", s, j) : j \in {k \in {i} : q.status[k] # "absent"}}

(* playIndex(index) up to its first await.  Beyond the end of the session  *)
(* waitFor() rejects and nothing stays suspended.                          *)
PlayIndex(s, i, S, q, st) ==
  /\ currentIndex' = i
  /\ position' = "head"
  /\ awaiting' = NoIndex
  /\ state' = CASE q.status[i] = "ready" -> st
                [] q.status[i] # "ready" /\ st = "playing" -> "buffering"
                [] OTHER -> IF st = "buffering" THEN st ELSE "preparing"
  /\ queue' = [queue EXCEPT ![s] = Asked(Resumed(q), i)]
  /\ calls' = Outdated(S) \cup
              {Suspended("wait", s, j) : j \in {k \in {i} : q.status[k] # "absent"}}

(* complete(), and the end of handleChunkFailure() on "stop".              *)
Finish(S, q, st) ==
  /\ calls' = Outdated(S)
  /\ queue' = [queue EXCEPT ![session] = Cancelled(q)]
  /\ view' = Unloaded
  /\ state' = st

(* next() with `c` as the current index.                                   *)
Advance(S, q, c) ==
  \/ /\ c + 1 < Length(q)
     /\ PlayIndex(session, c + 1, S, q, state)
     /\ UNCHANGED view
  \/ /\ c + 1 >= Length(q)
     /\ currentIndex' = c
     /\ UNCHANGED position
     /\ \/ sealed /\ Finish(S, q, "completed") /\ UNCHANGED awaiting
        \/ /\ ~ sealed
           /\ calls' = Outdated(S)
           /\ awaiting' = c + 1
           /\ view' = Unloaded
           /\ state' = "preparing"
           /\ queue' = [queue EXCEPT ![session] = q]

-----------------------------------------------------------------------------
Init ==
  /\ state = "idle" /\ session = 0 /\ sealed = TRUE
  /\ currentIndex = 0 /\ position = "head" /\ awaiting = NoIndex
  /\ calls = {} /\ disposed = FALSE
  /\ queue = [s \in Sessions |-> Fresh(0)]
  /\ view = Unloaded /\ inbox = << >> /\ commands = 0

Counted == commands < MaxCommands /\ commands' = commands + 1

(* start(request): teardownSession() disposes the previous queue and stops *)
(* the sink, then the first chunk is played, if there is one.              *)
Start(n, seal) ==
  LET s    == session + 1
      torn == [t \in Sessions |-> IF t = session THEN Disposed(queue[t]) ELSE queue[t]]
  IN  /\ Counted
      /\ ~ disposed /\ s \in Sessions
      /\ session' = s
      /\ sealed' = seal
      /\ view' = Unloaded
      /\ currentIndex' = 0 /\ position' = "head"
      /\ UNCHANGED << disposed, inbox >>
      /\ calls' = Outdated(calls) \cup
                  {Suspended("wait", s, i) : i \in {j \in {0} : n > 0}}
      /\ queue' = [torn EXCEPT ![s] = IF n > 0 THEN Asked(Fresh(n), 0) ELSE Fresh(0)]
      /\ state' = IF n = 0 /\ seal THEN "completed" ELSE "preparing"
      /\ awaiting' = IF n = 0 /\ ~ seal THEN 0 ELSE NoIndex

Pause ==
  /\ Counted /\ Active /\ state = "playing"
  /\ view' = Paused(view)
  /\ state' = "paused"
  /\ UNCHANGED << session, sealed, currentIndex, position, awaiting, calls, disposed,
                  queue, inbox >>

Resume ==
  /\ Counted /\ Active /\ state = "paused"
  /\ view' = Played(view)
  /\ state' = "playing"
  /\ UNCHANGED << session, sealed, currentIndex, position, awaiting, calls, disposed,
                  queue, inbox >>

(* Faulty variants of stop(): it rewinds to before the first chunk, it     *)
(* leaves the sink alone, it keeps the generation.                         *)
StopBeforeTheHead ==
  /\ Counted /\ Active
  /\ Finish(calls, queue[session], "stopped")
  /\ currentIndex' = NoIndex /\ position' = "head" /\ awaiting' = NoIndex
  /\ UNCHANGED << session, sealed, disposed, inbox >>

StopKeepingSink ==
  /\ Counted /\ Active
  /\ calls' = Outdated(calls)
  /\ queue' = [queue EXCEPT ![session] = Cancelled(@)]
  /\ state' = "stopped"
  /\ currentIndex' = 0 /\ position' = "head" /\ awaiting' = NoIndex
  /\ UNCHANGED << session, sealed, disposed, view, inbox >>

StopInSameGeneration ==
  /\ Counted /\ Active
  /\ queue' = [queue EXCEPT ![session] = Cancelled(@)]
  /\ view' = Unloaded
  /\ state' = "stopped"
  /\ currentIndex' = 0 /\ position' = "head" /\ awaiting' = NoIndex
  /\ UNCHANGED << session, sealed, calls, disposed, inbox >>

Stop ==
  /\ Counted /\ Active
  /\ Finish(calls, queue[session], "stopped")
  /\ currentIndex' = 0 /\ position' = "head" /\ awaiting' = NoIndex
  /\ UNCHANGED << session, sealed, disposed, inbox >>

Skip ==
  /\ Counted /\ Active
  /\ Advance(calls, queue[session], currentIndex)
  /\ UNCHANGED << session, sealed, disposed, inbox >>

Previous ==
  LET goBack == position = "head" /\ currentIndex > 0
  IN  /\ Counted /\ Active
      /\ PlayIndex(session, IF goBack THEN currentIndex - 1 ELSE currentIndex,
                   calls, queue[session], state)
      /\ UNCHANGED << session, sealed, disposed, view, inbox >>

RetryCurrentChunk ==
  /\ Counted /\ Active
  /\ queue[session].status[currentIndex] = "error"
  /\ PlayIndex(session, currentIndex, calls, Rearmed(queue[session], currentIndex), state)
  /\ UNCHANGED << session, sealed, disposed, view, inbox >>

(* appendSegments(segments): unparks a player waiting for the narrator.    *)
AppendSegments(n) ==
  LET q == Appended(queue[session], n)
  IN  /\ Counted /\ Active
      /\ n > 0 /\ Length(queue[session]) + n <= MaxChunks
      /\ UNCHANGED << session, sealed, disposed, view, inbox >>
      /\ \/ /\ awaiting # NoIndex /\ awaiting < Length(q)
            /\ PlayIndex(session, awaiting, calls, q, state)
         \/ /\ awaiting = NoIndex \/ awaiting >= Length(q)
            /\ queue' = [queue EXCEPT ![session] = q]
            /\ UNCHANGED << state, currentIndex, position, awaiting, calls >>

(* Faulty variant: sealing forgets the player that waits for a segment.    *)
SealForgettingThePark ==
  /\ Counted /\ Active
  /\ sealed' = TRUE
  /\ awaiting' = NoIndex
  /\ UNCHANGED << state, session, currentIndex, position, calls, disposed, queue, view,
                  inbox >>

(* sealSegments(): a parked player has reached the end.                    *)
SealSegments ==
  /\ Counted /\ Active
  /\ sealed' = TRUE
  /\ awaiting' = NoIndex
  /\ UNCHANGED << session, currentIndex, position, disposed, inbox >>
  /\ IF awaiting # NoIndex
     THEN Finish(calls, queue[session], "completed")
     ELSE UNCHANGED << state, calls, queue, view >>

Dispose ==
  /\ Counted /\ ~ disposed
  /\ disposed' = TRUE
  /\ session' = 0
  /\ calls' = Outdated(calls)
  /\ awaiting' = NoIndex
  /\ queue' = [t \in Sessions |-> IF t = session THEN Disposed(queue[t]) ELSE queue[t]]
  /\ view' = Unloaded
  /\ UNCHANGED << state, sealed, currentIndex, position, inbox >>

-----------------------------------------------------------------------------
(* Suspended calls resume.                                                 *)

Stale(c) == disposed \/ session = 0 \/ ~ c.fresh

Drop(c) ==
  /\ calls' = calls \ {c}
  /\ UNCHANGED << state, currentIndex, position, awaiting, queue, view >>

(* Faulty variant: playIndex() returns when the chunk is in error.         *)
WaitResolvesDroppingErrors(c) ==
  LET st == queue[c.session].status[c.index]
  IN  /\ c \in calls /\ c.at = "wait"
      /\ c.index \notin queue[c.session].waiting
      /\ UNCHANGED << session, sealed, disposed, inbox, commands >>
      /\ \/ (Stale(c) \/ st \in {"pending", "error"}) /\ Drop(c)
         \/ /\ ~ Stale(c) /\ st \in {"ready"} \cup PlayerStatus
            /\ calls' = (calls \ {c}) \cup {Suspended("load", c.session, c.index)}
            /\ view' = Loaded(c.session, c.index)
            /\ UNCHANGED << state, currentIndex, position, awaiting, queue >>

(* `await queue.waitFor(index)` resolves: nothing if the call is stale,    *)
(* handleChunkFailure() up to its await if the chunk is in error, the load *)
(* if it has audio.                                                        *)
WaitResolves(c) ==
  LET st == queue[c.session].status[c.index]
  IN  /\ c \in calls /\ c.at = "wait"
      /\ c.index \notin queue[c.session].waiting
      /\ UNCHANGED << session, sealed, disposed, inbox, commands >>
      /\ \/ (Stale(c) \/ st = "pending") /\ Drop(c)
         \/ /\ ~ Stale(c) /\ st = "error"
            /\ calls' = (calls \ {c}) \cup {Suspended("decide", c.session, c.index)}
            /\ UNCHANGED << state, currentIndex, position, awaiting, queue, view >>
         \/ /\ ~ Stale(c) /\ st \in {"ready"} \cup PlayerStatus
            /\ calls' = (calls \ {c}) \cup {Suspended("load", c.session, c.index)}
            /\ view' = Loaded(c.session, c.index)
            /\ UNCHANGED << state, currentIndex, position, awaiting, queue >>

(* Faulty variant: no generation check after the load.                     *)
LoadResolvesUnguarded(c) ==
  /\ c \in calls /\ c.at = "load" /\ Active
  /\ UNCHANGED << session, sealed, disposed, inbox, commands >>
  /\ calls' = calls \ {c}
  /\ queue' = [queue EXCEPT ![c.session] = Resumed(Marked(@, c.index, "playing"))]
  /\ view' = Played(view)
  /\ state' = "playing"
  /\ UNCHANGED << currentIndex, position, awaiting >>

(* `await sink.load(...)` resolves: the chunk plays.                       *)
LoadResolves(c) ==
  /\ c \in calls /\ c.at = "load"
  /\ UNCHANGED << session, sealed, disposed, inbox, commands >>
  /\ \/ Stale(c) /\ Drop(c)
     \/ /\ ~ Stale(c)
        /\ calls' = calls \ {c}
        /\ queue' = [queue EXCEPT ![c.session] = Resumed(Marked(@, c.index, "playing"))]
        /\ view' = Played(view)
        /\ state' = "playing"
        /\ UNCHANGED << currentIndex, position, awaiting >>

(* `await onChunkError(info)` resolves in handleChunkFailure().            *)
DecisionMade(c, decision) ==
  /\ c \in calls /\ c.at = "decide"
  /\ UNCHANGED << session, sealed, disposed, inbox, commands >>
  /\ \/ ~ Active /\ Drop(c)
     \/ /\ Active /\ decision = "stop"
        /\ Finish(calls \ {c}, queue[session], "error")
        /\ UNCHANGED << currentIndex, position, awaiting >>
     \/ /\ Active /\ decision = "skip"
        /\ Advance(calls \ {c}, queue[session], c.index)

-----------------------------------------------------------------------------
(* Events of the sink.                                                     *)

Receive(type, chunk) ==
  /\ inbox # << >>
  /\ Head(inbox) = [type |-> type, chunk |-> chunk]
  /\ inbox' = Tail(inbox)

HandleTimeUpdate(chunk) ==
  /\ Receive("timeupdate", chunk)
  /\ position' = IF Active /\ chunk = Current THEN "deep" ELSE position
  /\ UNCHANGED << state, session, sealed, currentIndex, awaiting, calls, disposed, queue,
                  view, commands >>

(* Faulty variant: `ended` counts in every state.                          *)
HandleEndedInAnyState(chunk) ==
  /\ Receive("ended", chunk)
  /\ UNCHANGED << session, sealed, disposed, commands >>
  /\ IF Active /\ chunk = Current
     THEN Advance(calls, Marked(queue[session], currentIndex, "played"), currentIndex)
     ELSE UNCHANGED << state, currentIndex, position, awaiting, calls, queue, view >>

HandleEnded(chunk) ==
  /\ Receive("ended", chunk)
  /\ UNCHANGED << session, sealed, disposed, commands >>
  /\ IF Active /\ chunk = Current /\ state = "playing"
     THEN Advance(calls, Marked(queue[session], currentIndex, "played"), currentIndex)
     ELSE UNCHANGED << state, currentIndex, position, awaiting, calls, queue, view >>

HandleSinkError(chunk) ==
  /\ Receive("error", chunk)
  /\ UNCHANGED << state, session, sealed, currentIndex, position, awaiting, disposed,
                  view, commands >>
  /\ IF Active /\ chunk = Current
     THEN /\ queue' = [queue EXCEPT ![session] = Marked(@, currentIndex, "error")]
          /\ calls' = calls \cup {Suspended("decide", session, currentIndex)}
     ELSE UNCHANGED << calls, queue >>

-----------------------------------------------------------------------------
(* The environment: the queues and the audio element.                      *)

QueueSettles(s, i, st) ==
  /\ queue[s].status[i] = "pending"
  /\ st = "error" => ~ queue[s].suspended /\ ~ queue[s].disposed
  /\ queue' = [queue EXCEPT ![s] = Answered(@, i, st)]
  /\ UNCHANGED << state, session, sealed, currentIndex, position, awaiting, calls,
                  disposed, view, inbox, commands >>

Post(type, mode) ==
  /\ view.chunk # << 0, 0 >>
  /\ Len(inbox) < MaxEvents
  /\ inbox' = Append(inbox, [type |-> type, chunk |-> view.chunk])
  /\ view' = [view EXCEPT !.mode = mode]
  /\ UNCHANGED << state, session, sealed, currentIndex, position, awaiting, calls,
                  disposed, queue, commands >>

ViewTicks == view.mode = "playing" /\ inbox = << >> /\ Post("timeupdate", "playing")
ViewEnds  == view.mode = "playing" /\ Post("ended", "ended")
ViewFails == view.mode \in {"playing", "paused"} /\ Post("error", "failed")

-----------------------------------------------------------------------------
UserCommand ==
  \/ \E n \in MinChunks .. MaxChunks, seal \in BOOLEAN : Start(n, seal)
  \/ Pause \/ Resume \/ Stop \/ Skip \/ Previous \/ RetryCurrentChunk \/ Dispose

Narrator == SealSegments \/ \E n \in 1 .. MaxChunks : AppendSegments(n)

Resolves(c) ==
  WaitResolves(c) \/ LoadResolves(c) \/ \E d \in {"skip", "stop"} : DecisionMade(c, d)

Handles(chunk) ==
  HandleTimeUpdate(chunk) \/ HandleEnded(chunk) \/ HandleSinkError(chunk)

Next ==
  \/ UserCommand
  \/ Narrator
  \/ \E c \in calls : Resolves(c)
  \/ \E chunk \in Chunk : Handles(chunk)
  \/ \E s \in Sessions, i \in Index, st \in Settled : QueueSettles(s, i, st)
  \/ ViewTicks \/ ViewEnds \/ ViewFails

(* A settled promise resumes its caller and a message the page has posted  *)
(* is delivered.  Nothing else can be relied on: a chunk may never settle  *)
(* (a stranded one), a page may never play or say so (there is none, or    *)
(* the rejection of audio.play() is dropped), nobody has to answer an      *)
(* error dialog or to give a command.                                      *)
Fairness ==
  /\ WF_vars(\E c \in calls : c.fresh /\ (WaitResolves(c) \/ LoadResolves(c)))
  /\ WF_vars(\E chunk \in Chunk : Handles(chunk))

Spec == Init /\ [][Next]_vars
FairSpec == Spec /\ Fairness
-----------------------------------------------------------------------------
(* Properties.                                                             *)

TypeOK ==
  /\ state \in States
  /\ session \in 0 .. MaxSessions
  /\ sealed \in BOOLEAN /\ disposed \in BOOLEAN
  /\ currentIndex \in Index /\ position \in {"head", "deep"}
  /\ awaiting \in {NoIndex} \cup 0 .. MaxChunks
  /\ calls \subseteq Call
  /\ queue \in [Sessions -> QueueView]
  /\ view \in [chunk : Chunk, mode : Modes]
  /\ inbox \in Seq(Event) /\ Len(inbox) <= MaxEvents
  /\ commands \in 0 .. MaxCommands

Plays   == {c \in calls : c.at \in {"wait", "load"} /\ c.fresh}
Deciding == \E c \in calls : c.at = "decide"

(* One play at a time: of all the playIndex() calls suspended at an await, *)
(* at most one will go on, it is for the chunk the player stands on, and   *)
(* while there is one the player does not also wait for the narrator.      *)
OnePlayInFlight ==
  /\ \A c, d \in Plays : c = d
  /\ \A c \in Plays : << c.session, c.index >> = Current /\ awaiting = NoIndex

(* What is highlighted is what is heard: in `playing`, with no play on its *)
(* way and no failure to decide on, the sink has the current chunk.        *)
HighlightMatchesAudio ==
  state = "playing" /\ Active /\ Plays = {} /\ ~ Deciding => view.chunk = Current

(* No ghost audio: paused, stopped, completed, failed, disposed or never   *)
(* started, with no play on its way and no failure to decide on, the       *)
(* player is silent.                                                       *)
SilentWhenQuiet ==
  (state \in {"idle", "paused", "stopped", "completed", "error"} \/ disposed)
    /\ Plays = {} /\ ~ Deciding => view.mode # "playing"

(* A play that goes on never finds its chunk unsettled: a cancelled wait   *)
(* always belongs to a play "another transition already took over".        *)
NoOrphanedPlay ==
  \A c \in Plays : c.at = "wait" /\ c.index \notin queue[c.session].waiting
                      => queue[c.session].status[c.index] # "pending"

(* Stopped stays stopped, the one exception aside: while no decision on a  *)
(* failed chunk is outstanding, a stopped or completed player is only      *)
(* moved by the user, never by a late event, a returning call or the       *)
(* narrator.                                                               *)
StopIsFinalUnlessDeciding ==
  [][(state \in {"stopped", "completed"} /\ Plays = {} /\ ~ Deciding
       /\ ~ UserCommand)
       => (state' = state /\ Plays' = {})]_vars

(* Stopped stays stopped: nothing but the user makes it play again.        *)
StopIsFinal ==
  [][(state = "stopped" /\ Plays = {} /\ ~ UserCommand) => (Plays' = {})]_vars

(* Pause keeps the place: nothing but the user moves a paused player off   *)
(* its chunk.                                                              *)
PauseKeepsIndex ==
  [][(state = "paused" /\ Plays = {} /\ ~ UserCommand) => (currentIndex' = currentIndex)]_vars

(* Nothing is audible while the player shows `buffering` for a chunk that  *)
(* is still to be synthesised.                                             *)
BufferingIsSilent ==
  state = "buffering" /\ Active /\ queue[session].status[currentIndex] = "pending"
    => view.mode # "playing"

(* A player that shows `preparing` or `buffering` in a session with chunks *)
(* has somebody to move it on: a play under way, the narrator (which       *)
(* appendSegments() turns into one) or a decision on a failed chunk.       *)
NeverParkedForGood ==
  Active /\ state \in {"preparing", "buffering"} /\ Length(queue[session]) > 0
    => Plays # {} \/ awaiting # NoIndex \/ Deciding

(* The player is at rest when it needs the user or the narrator.           *)
AtRest ==
  \/ disposed \/ state \in {"idle", "paused", "stopped", "completed", "error"}
  \/ awaiting # NoIndex
  \/ \E c \in calls : c.at = "decide" /\ c.fresh

(* The player has asked for the synthesis of the chunk it stands on.       *)
AwaitsSynthesis ==
  /\ \E c \in Plays : c.at = "wait" /\ << c.session, c.index >> = Current
  /\ currentIndex \in queue[session].waiting

(* The surface has been given that chunk and been told to play it.         *)
AwaitsSurface ==
  state = "playing" /\ Active /\ view = [chunk |-> Current, mode |-> "playing"]

(* The player does not hang by itself: whatever the order of late calls,   *)
(* events and commands, left alone it comes to rest, or waits for one of   *)
(* two things it has asked for: a synthesis, or the end of a chunk that    *)
(* the surface was told to play.                                           *)
NeverHangsByItself == <>[](AtRest \/ AwaitsSynthesis \/ AwaitsSurface)
=============================================================================
