--------------------------- MODULE PipelineProofs ---------------------------
(* Proofs about Pipeline, for any documents, any number of groups, of      *)
(* overlapping starts and of polls.                                        *)
EXTENDS Pipeline, SequenceTheorems, TLAPS

(* The groups of a document from its beginning, without a hole.            *)
InOrder(s) ==
  /\ s \in Seq(1 .. Groups) /\ Len(s) <= Groups
  /\ \A g \in DOMAIN s : s[g] = g

(* The narrator is at work on the group after those that are built, which  *)
(* are none before buildSession() and some from then on.  Nobody narrates  *)
(* for a reading begun after "Read without narration".                     *)
CallFits(r) ==
  /\ InOrder(r.built)
  /\ r.turn > 0 => Len(r.built) = r.turn - 1
  /\ r.at \in {"none", "capture", "voice", "install", "segments"} =>
       r.built = << >> /\ r.turn = 0
  /\ r.at = "first" => r.turn > 0
  /\ r.at = "tts" => Len(r.built) > 0
  /\ r.off => r.turn = 0

PlayerStates ==
  {"idle", "preparing", "playing", "paused", "stopped", "completed", "error"}

Askings == [1 .. Groups -> Nat]

Player == [session : {0} \cup Starts, chunks : Seq(1 .. Groups), index : 0 .. Groups,
           state : PlayerStates, failed : BOOLEAN, asked : Askings]

(* A player that is not idle has the reading of a call, and if it plays or *)
(* reports a failed chunk, it stands on one of its chunks.                 *)
Standing(p) ==
  p.state \in {"playing", "paused"} \/ p.failed => p.index \in 1 .. Len(p.chunks)

PlayerFits ==
  /\ player \in Player /\ InOrder(player.chunks) /\ Standing(player)
  /\ player.state = "idle" => player = NoPlayer
  /\ player.state # "idle" => /\ player.index \in 1 .. Groups
                              /\ Len(player.chunks) > 0
                              /\ player.session \in Starts
                              /\ calls[player.session].at # "none"
  /\ QuietOnceDisposed

(* While the notice is disarmed, every reading begun has been told of.     *)
NoticeFits ==
  "ttsUnavailable" \in gate =>
    \A c \in Starts : calls[c].at # "none" /\ ~ calls[c].test => c \in told

(* The choice a call was begun under still stands.                         *)
ChoiceFits == \A c \in Starts : calls[c].off => narrationOff

PipelineTypes ==
  /\ calls \in [Starts -> Call]
  /\ captureAbort \in {0} \cup Starts /\ build \in {0} \cup Starts
  /\ lastContext \in Docs /\ told \subseteq Starts
  /\ gate \subseteq Kinds \cup {"chunkInvalid"} /\ open \in [Kinds -> Nat]
  /\ narrationOff \in BOOLEAN /\ declined \in BOOLEAN /\ voice \in BOOLEAN
  /\ closed \in BOOLEAN

PipelineInv ==
  /\ PipelineTypes /\ PlayerFits /\ NoticeFits /\ ChoiceFits /\ OneLiveCapture
  /\ \A c \in Starts : CallFits(calls[c])

-----------------------------------------------------------------------------
(* Groups in order.                                                        *)

(* Nothing is in order.                                                    *)
LEMMA EmptyInOrder == InOrder(<< >>) /\ Len(<< >>) = 0
BY PipelineAssumption DEF InOrder

(* A group built after those before it.                                    *)
LEMMA AppendInOrder ==
  ASSUME NEW s, InOrder(s), NEW g \in 1 .. Groups, Len(s) = g - 1
  PROVE  InOrder(Append(s, g)) /\ Len(Append(s, g)) = g
<1>1. s \in Seq(1 .. Groups) /\ g \in Nat /\ Groups \in Nat
  BY PipelineAssumption DEF InOrder
<1>2. Append(s, g) \in Seq(1 .. Groups) /\ Len(Append(s, g)) = g
  BY <1>1
<1>3. ASSUME NEW j \in 1 .. g PROVE Append(s, g)[j] = j
  <2>1. CASE j = g
    BY <1>1, <2>1
  <2>2. CASE j # g
    <3>1. j \in 1 .. Len(s)
      BY <1>1, <2>2
    <3>2. Append(s, g)[j] = s[j]
      BY <1>1, <3>1
    <3> QED BY <1>1, <3>1, <3>2 DEF InOrder
  <2> QED BY <2>1, <2>2
<1> QED BY <1>1, <1>2, <1>3 DEF InOrder

(* The rest of a document.                                                 *)
LEMMA RestType ==
  ASSUME NEW g \in 1 .. Groups
  PROVE  /\ RestFrom(g) \in Seq(1 .. Groups) /\ Len(RestFrom(g)) = Groups + 1 - g
         /\ \A i \in 1 .. Groups + 1 - g : RestFrom(g)[i] = g + i - 1
<1>1. Groups \in Nat /\ g \in Nat
  BY PipelineAssumption
<1>2. \A i \in 1 .. Groups + 1 - g : g + i - 1 \in 1 .. Groups
  BY <1>1
<1>3. RestFrom(g) \in [1 .. Groups + 1 - g -> 1 .. Groups]
  BY <1>2 DEF RestFrom
<1> DEFINE n == Groups + 1 - g
<1>4. n \in Nat
  BY <1>1
<1>5. \A i \in 1 .. n : RestFrom(g)[i] = g + i - 1
  BY DEF RestFrom
<1>6. RestFrom(g) \in [1 .. n -> 1 .. Groups]
  BY <1>3
<1> HIDE DEF n
<1>7. RestFrom(g) \in Seq(1 .. Groups)
  BY <1>4, <1>6, SeqDef
<1>8. DOMAIN RestFrom(g) = 1 .. n /\ DOMAIN RestFrom(g) = 1 .. Len(RestFrom(g))
  BY <1>6, <1>7, LenProperties
<1>9. Len(RestFrom(g)) = n
  BY <1>4, <1>7, <1>8, LenProperties
<1> QED BY <1>5, <1>7, <1>9 DEF n

(* The whole document.                                                     *)
LEMMA WholeInOrder == InOrder(RestFrom(1)) /\ Len(RestFrom(1)) = Groups
<1>1. 1 \in 1 .. Groups /\ Groups \in Nat
  BY PipelineAssumption
<1>2. /\ RestFrom(1) \in Seq(1 .. Groups) /\ Len(RestFrom(1)) = Groups + 1 - 1
      /\ \A i \in 1 .. Groups + 1 - 1 : RestFrom(1)[i] = 1 + i - 1
  BY <1>1, RestType
<1> QED BY <1>1, <1>2 DEF InOrder

(* What is built, and the rest.                                            *)
LEMMA RestInOrder ==
  ASSUME NEW s, InOrder(s), NEW g \in 1 .. Groups, Len(s) = g - 1
  PROVE  InOrder(s \o RestFrom(g)) /\ Len(s \o RestFrom(g)) = Groups
<1> DEFINE t == RestFrom(g)
<1>1. /\ t \in Seq(1 .. Groups) /\ Len(t) = Groups + 1 - g
      /\ \A i \in 1 .. Groups + 1 - g : t[i] = g + i - 1
  BY RestType
<1>2. s \in Seq(1 .. Groups) /\ Groups \in Nat /\ g \in Nat /\ Len(s) \in Nat
  BY PipelineAssumption DEF InOrder
<1> HIDE DEF t
<1>3. /\ s \o t \in Seq(1 .. Groups) /\ Len(s \o t) = Len(s) + Len(t)
      /\ \A i \in 1 .. Len(s) + Len(t) :
           (s \o t)[i] = IF i <= Len(s) THEN s[i] ELSE t[i - Len(s)]
  BY <1>1, <1>2, ConcatProperties
<1>4. ASSUME NEW j \in 1 .. Groups PROVE (s \o t)[j] = j
  <2>1. CASE j <= Len(s)
    <3>1. (s \o t)[j] = s[j]
      BY <1>1, <1>2, <1>3, <1>4, <2>1
    <3> QED BY <1>2, <1>4, <2>1, <3>1 DEF InOrder
  <2>2. CASE j > Len(s)
    <3>1. (s \o t)[j] = t[j - Len(s)]
      BY <1>1, <1>2, <1>3, <1>4, <2>2
    <3>2. j - Len(s) \in 1 .. Groups + 1 - g
      BY <1>1, <1>2, <1>4, <2>2
    <3> QED BY <1>1, <1>2, <1>4, <3>1, <3>2
  <2>3. j <= Len(s) \/ j > Len(s)
    BY <1>2
  <2> QED BY <2>1, <2>2, <2>3, Zenon
<1>5. Len(s \o t) = Groups
  BY <1>1, <1>2, <1>3
<1>6. DOMAIN (s \o t) = 1 .. Groups
  BY <1>3, <1>5, LenProperties
<1>7. InOrder(s \o t)
  BY <1>2, <1>3, <1>4, <1>5, <1>6 DEF InOrder
<1> QED BY <1>5, <1>7 DEF t

-----------------------------------------------------------------------------
(* The calls.                                                              *)

(* What only a new start changes of a call.                                *)
Same(q, r) == q.doc = r.doc /\ q.live = r.live /\ q.off = r.off /\ q.test = r.test

Places == {"none", "capture", "voice", "install", "segments", "first", "tts", "done"}

(* A call that was not made is one.                                        *)
LEMMA NoCallType ==
  /\ NoCall \in Call /\ NoCall.at = "none" /\ ~ NoCall.test /\ ~ NoCall.live
  /\ ~ NoCall.off /\ NoCall.built = << >> /\ NoCall.turn = 0 /\ NoCall.polls = 0
<1>1. (CHOOSE d \in Docs : TRUE) \in Docs
  BY PipelineAssumption
<1>2. << >> \in Seq(1 .. Groups)
  BY EmptyInOrder DEF InOrder
<1> QED BY <1>1, <1>2, PipelineAssumption DEF NoCall, Call

(* A call moves on to another await, or has built something else.          *)
Placed(r, at) == [r EXCEPT !.at = at, !.polls = 0]
Having(r, s)  == [r EXCEPT !.built = s]

(* A call that moved on is one.                                            *)
LEMMA AtType ==
  ASSUME NEW r \in Call, NEW at \in Places
  PROVE  /\ Placed(r, at) \in Call /\ Same(Placed(r, at), r) /\ Placed(r, at).at = at
         /\ Placed(r, at).built = r.built /\ Placed(r, at).turn = r.turn
<1> DEFINE q == Placed(r, at)
<1>1. 0 \in 0 .. ReadyPolls
  BY PipelineAssumption
<1>2. q \in Call
  BY <1>1 DEF Call, Places, Placed
<1>3. q.at = at /\ q.built = r.built /\ q.turn = r.turn
  BY DEF Call, Placed
<1>4. q.doc = r.doc /\ q.live = r.live /\ q.off = r.off /\ q.test = r.test
  BY DEF Call, Placed
<1> QED BY <1>2, <1>3, <1>4 DEF Same

(* So is one that has built something else.                                *)
LEMMA BuiltType ==
  ASSUME NEW r \in Call, NEW s \in Seq(1 .. Groups)
  PROVE  /\ Having(r, s) \in Call /\ Same(Having(r, s), r) /\ Having(r, s).at = r.at
         /\ Having(r, s).built = s /\ Having(r, s).turn = r.turn
BY DEF Call, Same, Having

(* A step of one call that keeps what it was begun with.                   *)
LEMMA OneCall ==
  ASSUME PipelineInv, NEW c \in Starts, NEW q \in Call, calls' = [calls EXCEPT ![c] = q],
         CallFits(q), Same(q, calls[c]), calls[c].at # "none", q.at # "none",
         UNCHANGED << captureAbort, lastContext, told, narrationOff, voice, closed >>,
         declined' \in BOOLEAN, build' \in {0} \cup Starts,
         gate' \subseteq Kinds \cup {"chunkInvalid"}, open' \in [Kinds -> Nat],
         "ttsUnavailable" \in gate' => "ttsUnavailable" \in gate,
         player' = player \/ PlayerFits'
  PROVE  PipelineInv'
<1>1. calls \in [Starts -> Call]
  BY DEF PipelineInv, PipelineTypes
<1>2. calls'[c] = q /\ \A b \in Starts : b # c => calls'[b] = calls[b]
  BY <1>1
<1>3. /\ calls' \in [Starts -> Call]
      /\ \A b \in Starts : /\ Same(calls'[b], calls[b])
                           /\ calls'[b].at # "none" <=> calls[b].at # "none"
  BY <1>1, <1>2 DEF Same
<1>4. PipelineTypes'
  BY <1>3 DEF PipelineInv, PipelineTypes
<1>5. NoticeFits'
  BY <1>3 DEF PipelineInv, NoticeFits, Same
<1>6. ChoiceFits' /\ OneLiveCapture'
  BY <1>3 DEF PipelineInv, ChoiceFits, OneLiveCapture, Same
<1>7. ASSUME player' = player PROVE PlayerFits'
  BY <1>3, <1>7 DEF PipelineInv, PlayerFits, QuietOnceDisposed, Standing
<1>8. \A b \in Starts : CallFits(calls'[b])
  BY <1>2 DEF PipelineInv
<1> QED BY <1>4, <1>5, <1>6, <1>7, <1>8 DEF PipelineInv

(* The same, for a step that moves a call to another await.                *)
LEMMA AtKeeps ==
  ASSUME PipelineInv, NEW c \in Starts, NEW at \in Places, At(c, at),
         calls[c].at # "none", at # "none", CallFits([calls[c] EXCEPT !.at = at]),
         UNCHANGED << captureAbort, lastContext, build, told, gate, open, narrationOff,
                      voice, closed >>,
         declined' \in BOOLEAN, player' = player \/ PlayerFits'
  PROVE  PipelineInv'
<1> DEFINE r == calls[c]
           q == Placed(r, at)
<1>1. r \in Call
  BY DEF PipelineInv, PipelineTypes
<1>2. calls' = [calls EXCEPT ![c] = q]
  BY DEF At, With, Placed
<1>3. q \in Call /\ Same(q, r) /\ q.at = at /\ q.built = r.built /\ q.turn = r.turn
  BY <1>1, AtType
<1>4. CallFits(q)
  BY <1>1, <1>3 DEF CallFits, Same, Call
<1>5. /\ build \in {0} \cup Starts /\ open \in [Kinds -> Nat]
      /\ gate \subseteq Kinds \cup {"chunkInvalid"}
  BY DEF PipelineInv, PipelineTypes
<1> HIDE DEF q
<1> QED BY <1>2, <1>3, <1>4, <1>5, OneCall

(* The loop goes on with the next group, with the rest at once, or ends.   *)
LEMMA ContinuedType ==
  ASSUME NEW q \in Call, InOrder(q.built), q.turn \in 1 .. Groups, Len(q.built) = q.turn
  PROVE  /\ Continued(q) \in Call /\ Same(Continued(q), q) /\ Continued(q).at = q.at
         /\ InOrder(Continued(q).built) /\ Len(Continued(q).built) > 0
         /\ Continued(q).turn > 0 => Len(Continued(q).built) = Continued(q).turn - 1
<1> DEFINE k == Continued(q)
<1>0. Groups \in Nat /\ 0 \in 0 .. Groups
  BY PipelineAssumption
<1>1. CASE q.turn = Groups \/ ~ q.live
  <2>1. k = [q EXCEPT !.turn = 0]
    BY <1>1 DEF Continued
  <2>2. k \in Call /\ Same(k, q) /\ k.at = q.at /\ k.built = q.built /\ k.turn = 0
    BY <1>0, <2>1 DEF Call, Same
  <2> QED BY <2>2
<1>2. CASE q.turn # Groups /\ q.live /\ q.forced
  <2> DEFINE g == q.turn + 1
             t == q.built \o RestFrom(g)
  <2>1. k = [q EXCEPT !.turn = 0, !.built = t]
    BY <1>2 DEF Continued
  <2>2. g \in 1 .. Groups /\ Len(q.built) = g - 1
    BY <1>0, <1>2
  <2> HIDE DEF g
  <2>3. InOrder(t) /\ Len(t) = Groups
    BY <2>2, RestInOrder
  <2> HIDE DEF t
  <2>4. t \in Seq(1 .. Groups) /\ Groups > 0
    BY <2>3, PipelineAssumption DEF InOrder
  <2>5. k \in Call /\ Same(k, q) /\ k.at = q.at /\ k.built = t /\ k.turn = 0
    BY <1>0, <2>1, <2>4 DEF Call, Same
  <2> QED BY <2>3, <2>4, <2>5
<1>3. CASE q.turn # Groups /\ q.live /\ ~ q.forced
  <2>1. k = [q EXCEPT !.turn = q.turn + 1]
    BY <1>3 DEF Continued, Call
  <2>2. q.turn + 1 \in 0 .. Groups
    BY <1>0, <1>3
  <2>3. k \in Call /\ Same(k, q) /\ k.at = q.at /\ k.built = q.built /\ k.turn = q.turn + 1
    BY <2>1, <2>2 DEF Call, Same
  <2> QED BY <1>0, <2>3
<1> QED BY <1>1, <1>2, <1>3

(* A warning arms nothing but its own kind.                                *)
LEMMA WarnType ==
  ASSUME PipelineTypes, Warn
  PROVE  /\ gate' \subseteq Kinds \cup {"chunkInvalid"} /\ open' \in [Kinds -> Nat]
         /\ "ttsUnavailable" \in gate' => "ttsUnavailable" \in gate
<1>1. "narratorUnavailable" \in Kinds
  BY DEF Kinds
<1> QED BY <1>1 DEF PipelineTypes, Warn

(* A group that was built, the first of which buildSession() returns with. *)
LEMMA HandedKeeps ==
  ASSUME PipelineInv, NEW c \in Starts, NEW q \in Call, Handed(c, q),
         Same(q, calls[c]), q.at = calls[c].at,
         q.at \in {"segments", "first", "tts", "done"},
         InOrder(q.built), Len(q.built) > 0, q.turn > 0 => Len(q.built) = q.turn - 1,
         q.off => q.turn = 0,
         Warn \/ UNCHANGED << gate, open >>,
         UNCHANGED << captureAbort, lastContext, told, choices, playing >>
  PROVE  PipelineInv'
<1> DEFINE at == IF q.at \in {"segments", "first"} THEN "tts" ELSE q.at
           k  == [q EXCEPT !.at = at]
<1>1. /\ PipelineTypes
      /\ "ttsUnavailable" \in gate' => "ttsUnavailable" \in gate
      /\ gate' \subseteq Kinds \cup {"chunkInvalid"} /\ open' \in [Kinds -> Nat]
  BY WarnType DEF PipelineInv, PipelineTypes
<1>2. at \in {"tts", "done"}
  OBVIOUS
<1>3. k = [q EXCEPT !.at = IF @ \in {"segments", "first"} THEN "tts" ELSE @]
  OBVIOUS
<1> HIDE DEF at
<1>4. calls' = [calls EXCEPT ![c] = k]
  BY <1>3 DEF Handed, With
<1>5. k \in Call /\ Same(k, q) /\ k.at = at /\ k.built = q.built /\ k.turn = q.turn
  BY <1>2 DEF Call, Same
<1> HIDE DEF k
<1>6. CallFits(k) /\ Same(k, calls[c])
  BY <1>2, <1>5 DEF CallFits, Same
<1>7. build' \in {0} \cup Starts
  BY <1>1 DEF Handed, PipelineTypes
<1>8. /\ UNCHANGED << captureAbort, lastContext, told, narrationOff, voice, closed >>
      /\ declined' = declined /\ player' = player
  BY DEF choices, playing
<1>10. declined' \in BOOLEAN
  BY <1>1, <1>8 DEF PipelineTypes
<1>9. calls[c].at # "none" /\ k.at # "none"
  BY <1>2, <1>5
<1> QED BY <1>1, <1>4, <1>5, <1>6, <1>7, <1>8, <1>9, <1>10, OneCall

-----------------------------------------------------------------------------
(* The steps of a call.                                                    *)

(* controller.start() begins at the first group, unless it is disposed.    *)
LEMMA LaunchKeeps ==
  ASSUME PipelineInv, NEW c \in Starts, Launch(c)
  PROVE  PipelineInv'
<1> DEFINE r == calls[c]
<1>1. /\ r \in Call /\ CallFits(r) /\ r.at = "tts" /\ calls \in [Starts -> Call]
      /\ PlayerFits /\ declined \in BOOLEAN
  BY DEF PipelineInv, PipelineTypes, Launch
<1>2. CallFits([r EXCEPT !.at = "done"])
  BY <1>1 DEF CallFits, Call
<1>3. At(c, "done") /\ player' = Started(c) /\ UNCHANGED << closed, declined >>
  BY DEF Launch, choices
<1>4. \A b \in Starts : calls[b].at # "none" => calls'[b].at # "none"
  <2>1. calls' = [calls EXCEPT ![c] = Placed(r, "done")] /\ "done" \in Places
    BY <1>3 DEF At, With, Placed, Places
  <2>2. Placed(r, "done").at = "done"
    BY <1>1, <2>1, AtType
  <2> QED BY <1>1, <2>1, <2>2
<1>5. ASSUME closed PROVE PlayerFits'
  <2>1. player' = player
    BY <1>3, <1>5 DEF Started
  <2> QED BY <1>1, <1>3, <1>4, <2>1 DEF PlayerFits, QuietOnceDisposed, Standing
<1>6. ASSUME ~ closed PROVE PlayerFits'
  <2> DEFINE p == Session(c)
  <2>1. player' = p
    BY <1>3, <1>6 DEF Started
  <2>2. InOrder(r.built) /\ Len(r.built) > 0 /\ r.built # << >>
    BY <1>1, EmptyInOrder DEF CallFits
  <2>3. /\ p.session = c /\ p.chunks = r.built /\ p.index = 1 /\ p.state = "preparing"
        /\ ~ p.failed /\ p \in Player
    <3>1. (r.built = << >>) = FALSE
      BY <2>2
    <3>2. player.asked \in Askings /\ 1 \in 0 .. Groups
      BY <1>1, PipelineAssumption DEF PlayerFits, Player
    <3>3. /\ c \in {0} \cup Starts /\ r.built \in Seq(1 .. Groups)
          /\ "preparing" \in PlayerStates
      BY <2>2 DEF InOrder, PlayerStates
    <3>4. p = [session |-> c, chunks |-> r.built, index |-> 1, state |-> "preparing",
               failed |-> FALSE, asked |-> player.asked]
      BY <3>1 DEF Session
    <3> HIDE DEF p
    <3> QED BY <3>2, <3>3, <3>4 DEF Player
  <2> HIDE DEF p
  <2>4. 1 \in 1 .. Groups /\ calls'[c].at # "none" /\ ~ closed'
    BY <1>1, <1>3, <1>4, <1>6, PipelineAssumption
  <2> QED BY <2>1, <2>2, <2>3, <2>4 DEF PlayerFits, QuietOnceDisposed, Standing
<1>7. PlayerFits'
  BY <1>5, <1>6
<1>8. declined' \in BOOLEAN /\ "done" \in Places
  BY <1>1, <1>3 DEF Places
<1>9. UNCHANGED << captureAbort, lastContext, build, told, gate, open, narrationOff, voice,
                   closed >>
  BY DEF Launch, notices, choices
<1> QED BY <1>1, <1>2, <1>3, <1>7, <1>8, <1>9, AtKeeps

(* The capture, the offer of a voice and its refusal, and a provider that  *)
(* throws or is loading move one call on.                                  *)
LEMMA WaitsKeep ==
  ASSUME PipelineInv, NEW c \in Starts,
         Capture(c) \/ Voice(c) \/ NotInstalled(c) \/ TtsFails(c)
  PROVE  PipelineInv'
<1> DEFINE r == calls[c]
<1>1. r \in Call /\ CallFits(r) /\ declined \in BOOLEAN
  BY DEF PipelineInv, PipelineTypes
<1>2. /\ UNCHANGED << captureAbort, lastContext, build, told, gate, open, narrationOff,
                      voice, closed, player >>
      /\ declined' \in BOOLEAN
  BY <1>1 DEF Capture, Voice, NotInstalled, TtsFails, notices, choices, playing
<1>3. ASSUME NEW at \in {"voice", "segments", "install", "done"}, At(c, at),
             r.at \in {"capture", "voice", "install"} \/ (r.at = "tts" /\ at = "done")
      PROVE  PipelineInv'
  <2>1. CallFits([r EXCEPT !.at = at])
    BY <1>1, <1>3 DEF CallFits, Call
  <2> QED BY <1>2, <1>3, <2>1, AtKeeps DEF Places
<1> QED BY <1>3 DEF Capture, Voice, NotInstalled, TtsFails

(* So does a poll.                                                         *)
LEMMA PollKeeps ==
  ASSUME PipelineInv, NEW c \in Starts, TtsLoading(c)
  PROVE  PipelineInv'
<1> DEFINE r == calls[c]
           n == Polled(r.polls)
           q == [r EXCEPT !.polls = n]
<1>1. r \in Call /\ CallFits(r) /\ PipelineTypes
  BY DEF PipelineInv, PipelineTypes
<1>2. n \in 0 .. ReadyPolls
  BY <1>1, PipelineAssumption DEF TtsLoading, Polled, Call
<1>3. q = [r EXCEPT !.polls = Polled(@)]
  BY <1>1 DEF Call
<1>4. calls' = [calls EXCEPT ![c] = q]
  BY <1>3 DEF TtsLoading, With
<1> HIDE DEF n
<1>5. /\ q \in Call /\ Same(q, r) /\ q.at = r.at /\ q.built = r.built /\ q.turn = r.turn
  BY <1>1, <1>2 DEF Call, Same
<1> HIDE DEF q
<1>6. CallFits(q) /\ r.at = "tts"
  BY <1>1, <1>5 DEF CallFits, Same, TtsLoading
<1>7. /\ UNCHANGED << captureAbort, lastContext, told, narrationOff, voice, closed >>
      /\ UNCHANGED << build, gate, open, declined, player >>
  BY DEF TtsLoading, notices, choices, playing
<1>8. /\ declined' \in BOOLEAN /\ build' \in {0} \cup Starts
      /\ gate' \subseteq Kinds \cup {"chunkInvalid"} /\ open' \in [Kinds -> Nat]
  BY <1>1, <1>7 DEF PipelineTypes
<1> QED BY <1>4, <1>5, <1>6, <1>7, <1>8, OneCall

(* What the narrator made of a group, or the group verbatim.               *)
LEMMA NarratedKeeps ==
  ASSUME PipelineInv, NEW c \in Starts, Narrated(c)
  PROVE  PipelineInv'
<1> DEFINE r == calls[c]
           g == r.turn
           s == Append(r.built, g)
           q == Having(r, s)
           k == Continued(q)
<1>1. r \in Call /\ CallFits(r) /\ g > 0
  BY DEF PipelineInv, PipelineTypes, Narrated
<1>2. g \in 1 .. Groups /\ Len(r.built) = g - 1 /\ InOrder(r.built) /\ ~ r.off
  BY <1>1, PipelineAssumption DEF CallFits, Call
<1>3. r.at \in {"first", "tts", "done"}
  BY <1>1 DEF CallFits, Call
<1>4. Handed(c, k) /\ (Warn \/ UNCHANGED << gate, open >>)
  BY DEF Narrated, Verbatim, Having
<1> HIDE DEF g
<1>5. InOrder(s) /\ Len(s) = g
  BY <1>2, AppendInOrder
<1> HIDE DEF s
<1>6. /\ q \in Call /\ Same(q, r) /\ q.at = r.at /\ q.built = s /\ q.turn = r.turn
  BY <1>1, <1>5, BuiltType DEF InOrder
<1> HIDE DEF q
<1>7. q.turn \in 1 .. Groups /\ Len(q.built) = q.turn /\ InOrder(q.built)
  BY <1>2, <1>5, <1>6 DEF g
<1>8. /\ k \in Call /\ Same(k, q) /\ k.at = q.at /\ InOrder(k.built) /\ Len(k.built) > 0
      /\ k.turn > 0 => Len(k.built) = k.turn - 1
  BY <1>6, <1>7, ContinuedType
<1> HIDE DEF k
<1>9. /\ Same(k, r) /\ k.at = r.at /\ k.at \in {"segments", "first", "tts", "done"}
      /\ ~ k.off
  BY <1>2, <1>3, <1>6, <1>8 DEF Same
<1>10. UNCHANGED << captureAbort, lastContext, told, choices, playing >>
  BY DEF Narrated
<1> QED BY <1>4, <1>8, <1>9, <1>10, HandedKeeps

(* Nothing to read, all of it verbatim, or its first group narrated.       *)
LEMMA SegmentsKeep ==
  ASSUME PipelineInv, NEW c \in Starts, Segments(c)
  PROVE  PipelineInv'
<1> DEFINE r == calls[c]
<1>1. /\ r \in Call /\ CallFits(r) /\ PipelineTypes /\ ChoiceFits /\ r.at = "segments"
      /\ r.built = << >> /\ r.turn = 0
  BY DEF PipelineInv, PipelineTypes, CallFits, Segments
<1>2. UNCHANGED << captureAbort, lastContext, told, choices, playing >>
  BY DEF Segments
<1>3. /\ declined' \in BOOLEAN /\ build \in {0} \cup Starts
      /\ UNCHANGED << narrationOff, voice, closed, player >>
      /\ gate \subseteq Kinds \cup {"chunkInvalid"} /\ open \in [Kinds -> Nat]
  BY <1>1, <1>2 DEF PipelineTypes, choices, playing
<1>4. MayNarrate => ~ r.off
  BY <1>1 DEF MayNarrate, ChoiceFits
<1>5. 1 \in 1 .. Groups /\ Groups \in Nat /\ Groups > 0
  BY PipelineAssumption
<1>6. ASSUME At(c, "done"), UNCHANGED << build, gate, open >> PROVE PipelineInv'
  <2>1. CallFits([r EXCEPT !.at = "done"])
    BY <1>1 DEF CallFits, Call
  <2> QED BY <1>1, <1>2, <1>3, <1>6, <2>1, AtKeeps DEF Places
<1>7. ASSUME Handed(c, Having(r, RestFrom(1))), UNCHANGED << gate, open >> PROVE PipelineInv'
  <2> DEFINE q == Having(r, RestFrom(1))
  <2>1. InOrder(RestFrom(1)) /\ Len(RestFrom(1)) = Groups
    BY WholeInOrder
  <2>2. /\ q \in Call /\ Same(q, r) /\ q.at = r.at /\ q.built = RestFrom(1)
        /\ q.turn = r.turn
    BY <1>1, <2>1, BuiltType DEF InOrder
  <2> HIDE DEF q
  <2>3. /\ InOrder(q.built) /\ Len(q.built) > 0 /\ q.turn = 0
        /\ q.at \in {"segments", "first", "tts", "done"}
    BY <1>1, <1>5, <2>1, <2>2
  <2> QED BY <1>2, <1>7, <2>2, <2>3, HandedKeeps DEF q
<1>8. ASSUME MayNarrate, With(c, [r EXCEPT !.at = "first", !.turn = 1]),
             UNCHANGED << build, gate, open >>
      PROVE  PipelineInv'
  <2> DEFINE q == [r EXCEPT !.at = "first", !.turn = 1]
  <2>0. calls' = [calls EXCEPT ![c] = q]
    BY <1>8 DEF With
  <2>1. 1 \in 0 .. Groups
    BY <1>5
  <2>2. /\ q \in Call /\ Same(q, r) /\ q.at = "first" /\ q.built = r.built
        /\ q.turn = 1
    BY <1>1, <2>1 DEF Call, Same
  <2> HIDE DEF q
  <2>3. CallFits(q)
    BY <1>1, <1>4, <1>8, <2>2, EmptyInOrder DEF CallFits, Same
  <2>4. /\ UNCHANGED << captureAbort, lastContext, told, narrationOff, voice, closed >>
        /\ UNCHANGED << player, build, gate, open >>
    BY <1>2, <1>3, <1>8
  <2>5. /\ build' \in {0} \cup Starts /\ r.at # "none" /\ q.at # "none"
        /\ gate' \subseteq Kinds \cup {"chunkInvalid"} /\ open' \in [Kinds -> Nat]
        /\ "ttsUnavailable" \in gate' => "ttsUnavailable" \in gate
    BY <1>1, <1>3, <2>2, <2>4
  <2> QED BY <1>3, <2>0, <2>2, <2>3, <2>4, <2>5, OneCall
<1>9. ASSUME MayNarrate, Handed(c, Having(r, Append(r.built, 1))), Warn PROVE PipelineInv'
  <2> DEFINE s == Append(r.built, 1)
             q == Having(r, s)
  <2>0. InOrder(r.built) /\ Len(r.built) = 1 - 1
    BY <1>1, EmptyInOrder
  <2>1. InOrder(s) /\ Len(s) = 1
    BY <1>5, <2>0, AppendInOrder
  <2>2. /\ q \in Call /\ Same(q, r) /\ q.at = r.at /\ q.built = s
        /\ q.turn = r.turn
    BY <1>1, <2>1, BuiltType DEF InOrder
  <2> HIDE DEF q, s
  <2>3. InOrder(q.built) /\ Len(q.built) > 0
    <3>1. InOrder(q.built) /\ Len(q.built) = 1
      BY <2>1, <2>2, Zenon
    <3> QED BY <3>1
  <2>4. q.turn = 0 /\ q.at \in {"segments", "first", "tts", "done"}
    BY <1>1, <2>2
  <2> QED BY <1>2, <1>9, <2>2, <2>3, <2>4, HandedKeeps DEF q, s
<1> QED BY <1>6, <1>7, <1>8, <1>9 DEF Segments, Verbatim, Having

-----------------------------------------------------------------------------
(* New starts, and what they end.                                          *)

(* A call whose signal may have gone up, or whose choice is void.          *)
Kept(q, r) ==
  /\ q.at = r.at /\ q.test = r.test /\ q.doc = r.doc /\ q.built = r.built
  /\ q.turn = r.turn
  /\ q.off => r.off
  /\ q.live => r.live

Signalled(r, x) == [r EXCEPT !.live = x]
Unbound(r)      == [r EXCEPT !.off = FALSE]
Bound(r, x)     == [r EXCEPT !.forced = x]

(* It fits as it did.                                                      *)
LEMMA KeptFits ==
  ASSUME NEW r, NEW q, CallFits(r), Kept(q, r) PROVE CallFits(q)
<1>1. q.at = r.at /\ q.built = r.built /\ q.turn = r.turn /\ (q.off => r.off)
  BY Zenon DEF Kept
<1>2. q.off => q.turn = 0
  BY <1>1, Zenon DEF CallFits
<1>3. /\ InOrder(q.built)
      /\ q.turn > 0 => Len(q.built) = q.turn - 1
      /\ q.at \in {"none", "capture", "voice", "install", "segments"} =>
           q.built = << >> /\ q.turn = 0
      /\ q.at = "first" => q.turn > 0
      /\ q.at = "tts" => Len(q.built) > 0
  BY <1>1, Zenon DEF CallFits
<1> QED BY <1>2, <1>3, Zenon DEF CallFits

(* Such calls are calls.                                                   *)
LEMMA SignalledType ==
  ASSUME NEW r \in Call, NEW x \in BOOLEAN, x => r.live
  PROVE  Signalled(r, x) \in Call /\ Kept(Signalled(r, x), r) /\ Signalled(r, x).live = x
<1> DEFINE q == Signalled(r, x)
<1>1. q \in Call
  BY DEF Signalled, Call
<1>2. q.at = r.at /\ q.doc = r.doc /\ q.built = r.built /\ q.turn = r.turn
  BY DEF Signalled, Call
<1>3. q.test = r.test /\ q.off = r.off /\ q.live = x
  BY DEF Signalled, Call
<1> QED BY <1>1, <1>2, <1>3 DEF Kept

LEMMA UnboundType ==
  ASSUME NEW r \in Call
  PROVE  Unbound(r) \in Call /\ Kept(Unbound(r), r) /\ Unbound(r).live = r.live
         /\ ~ Unbound(r).off
<1> DEFINE q == Unbound(r)
<1>1. q \in Call
  BY DEF Unbound, Call
<1>2. q.at = r.at /\ q.doc = r.doc /\ q.built = r.built /\ q.turn = r.turn
  BY DEF Unbound, Call
<1>3. q.test = r.test /\ q.live = r.live /\ q.off = FALSE
  BY DEF Unbound, Call
<1> QED BY <1>1, <1>2, <1>3 DEF Kept

LEMMA BoundType ==
  ASSUME NEW r \in Call, NEW x \in BOOLEAN
  PROVE  Bound(r, x) \in Call /\ Kept(Bound(r, x), r)
<1> DEFINE q == Bound(r, x)
<1>1. q \in Call
  BY DEF Bound, Call
<1>2. q.at = r.at /\ q.doc = r.doc /\ q.built = r.built /\ q.turn = r.turn
  BY DEF Bound, Call
<1>3. q.test = r.test /\ q.live = r.live /\ q.off = r.off
  BY DEF Bound, Call
<1> QED BY <1>1, <1>2, <1>3 DEF Kept

(* A call that begins has built nothing.                                   *)
LEMMA BegunType ==
  ASSUME NEW d \in Docs, narrationOff \in BOOLEAN
  PROVE  /\ Begun(d) \in Call /\ Begun(d).at = "capture" /\ Begun(d).doc = d
         /\ Begun(d).built = << >> /\ Begun(d).turn = 0
         /\ ~ Begun(d).test /\ Begun(d).off = narrationOff
<1> DEFINE q == Begun(d)
<1>1. /\ NoCall \in Call /\ ~ NoCall.test
      /\ NoCall.built = << >> /\ NoCall.turn = 0
  BY NoCallType
<1>2. q \in Call
  BY <1>1 DEF Begun, Call
<1>3. q.at = "capture" /\ q.doc = d /\ q.built = << >> /\ q.turn = 0
  BY <1>1 DEF Begun, Call
<1>4. q.test = NoCall.test /\ q.off = narrationOff
  BY <1>1 DEF Begun, Call
<1> QED BY <1>1, <1>2, <1>3, <1>4

(* What the calls are after a start.                                       *)
LEMMA Superseded ==
  ASSUME PipelineTypes, NEW c \in Starts, NEW d \in Docs
  PROVE  /\ Supersede(c, d) \in [Starts -> Call] /\ Supersede(c, d)[c] = Begun(d)
         /\ \A b \in Starts : b # c => /\ Kept(Supersede(c, d)[b], calls[b])
                                       /\ Supersede(c, d)[b].live => b # captureAbort
<1>1. ASSUME NEW b \in Starts, b # c
      PROVE  /\ Supersede(c, d)[b] \in Call /\ Kept(Supersede(c, d)[b], calls[b])
             /\ Supersede(c, d)[b].live => b # captureAbort
  <2> DEFINE x == calls[b].live /\ b # captureAbort
  <2>1. calls[b] \in Call /\ calls[b].live \in BOOLEAN
    BY DEF PipelineTypes, Call
  <2>2. x \in BOOLEAN /\ (x => calls[b].live) /\ (x => b # captureAbort)
    OBVIOUS
  <2>3. Supersede(c, d)[b] = Signalled(calls[b], x)
    BY <1>1 DEF Supersede, Signalled
  <2> HIDE DEF x
  <2> QED BY <2>1, <2>2, <2>3, SignalledType
<1>2. Supersede(c, d)[c] = Begun(d) /\ Begun(d) \in Call
  BY BegunType DEF Supersede, PipelineTypes
<1>3. \A b \in Starts : Supersede(c, d)[b] \in Call
  BY <1>1, <1>2
<1>4. Supersede(c, d) = [b \in Starts |-> Supersede(c, d)[b]]
  BY DEF Supersede
<1> QED BY <1>1, <1>2, <1>3, <1>4

(* A dialog that was answered is closed.                                   *)
LEMMA AnsweredType ==
  ASSUME PipelineTypes, NEW k \in Kinds, Answered(k)
  PROVE  open' \in [Kinds -> Nat]
<1>1. open \in [Kinds -> Nat] /\ open[k] - 1 \in Nat
  BY DEF PipelineTypes, Answered
<1>2. open' = [open EXCEPT ![k] = open[k] - 1]
  BY DEF Answered
<1> QED BY <1>1, <1>2

(* Whoever is superseded has been signalled, and every notice is armed.    *)
LEMMA RestartKeeps ==
  ASSUME PipelineInv, NEW c \in Starts, NEW d \in Docs,
         calls' \in [Starts -> Call], calls'[c].at = "capture", calls'[c].doc = d,
         calls'[c].built = << >>, calls'[c].turn = 0,
         \A b \in Starts : b # c => /\ Kept(calls'[b], calls[b])
                                    /\ calls'[b].live => b # captureAbort,
         \A b \in Starts : calls'[b].off => narrationOff',
         captureAbort' = c, lastContext' = d, gate' = {}, told' \subseteq Starts,
         UNCHANGED << build, declined, player, closed >>,
         open' \in [Kinds -> Nat], voice' \in BOOLEAN, narrationOff' \in BOOLEAN
  PROVE  PipelineInv'
<1>1. PipelineTypes /\ PlayerFits /\ OneLiveCapture /\ \A b \in Starts : CallFits(calls[b])
  BY DEF PipelineInv
<1>2. PipelineTypes'
  BY <1>1 DEF PipelineTypes
<1>3. \A b \in Starts : calls[b].at # "none" => calls'[b].at # "none"
  <2>1. ASSUME NEW b \in Starts, calls[b].at # "none" PROVE calls'[b].at # "none"
    <3>1. CASE b = c
      BY <3>1
    <3>2. CASE b # c
      BY <2>1, <3>2, Zenon DEF Kept
    <3> QED BY <3>1, <3>2
  <2> QED BY <2>1
<1>4. PlayerFits'
  BY <1>1, <1>3 DEF PlayerFits, QuietOnceDisposed, Standing
<1>5. NoticeFits' /\ ChoiceFits'
  BY DEF NoticeFits, ChoiceFits
<1>6. OneLiveCapture'
  <2>1. ASSUME NEW b \in Starts, ~ calls'[b].test, calls'[b].live
        PROVE  b = c
    <3>1. CASE b # c
      <4>1. calls'[b].test = calls[b].test /\ (calls'[b].live => calls[b].live)
        BY <3>1, Zenon DEF Kept
      <4>2. captureAbort = b
        BY <1>1, <2>1, <4>1, Zenon DEF OneLiveCapture
      <4> QED BY <2>1, <3>1, <4>2
    <3> QED BY <3>1
  <2> QED BY <2>1 DEF OneLiveCapture
<1>7. ASSUME NEW b \in Starts PROVE CallFits(calls'[b])
  <2>1. CASE b = c
    BY <2>1, EmptyInOrder DEF CallFits
  <2>2. CASE b # c
    BY <1>1, <2>2, KeptFits
  <2> QED BY <2>1, <2>2
<1> QED BY <1>2, <1>4, <1>5, <1>6, <1>7 DEF PipelineInv

(* A start, and the second run of a call that had a voice installed.       *)
LEMMA BeginKeeps ==
  ASSUME PipelineInv, NEW c \in Starts, NEW d \in Docs, Begin(c, d),
         UNCHANGED << build, open, narrationOff, declined, playing >>, voice' \in BOOLEAN
  PROVE  PipelineInv'
<1>1. PipelineTypes /\ ChoiceFits /\ narrationOff \in BOOLEAN
  BY DEF PipelineInv, PipelineTypes
<1>2. /\ calls' = Supersede(c, d) /\ captureAbort' = c /\ lastContext' = d
      /\ gate' = {} /\ told' = told \ {c}
  BY DEF Begin
<1>3. /\ calls' \in [Starts -> Call] /\ calls'[c] = Begun(d)
      /\ \A b \in Starts : b # c => /\ Kept(calls'[b], calls[b])
                                    /\ calls'[b].live => b # captureAbort
  BY <1>1, <1>2, Superseded
<1>4. \A b \in Starts : calls'[b].off => narrationOff
  <2>1. ASSUME NEW b \in Starts, calls'[b].off PROVE narrationOff
    <3>1. CASE b = c
      BY <1>1, <1>3, <2>1, <3>1, BegunType
    <3>2. CASE b # c
      BY <1>1, <1>3, <2>1, <3>2, Zenon DEF ChoiceFits, Kept
    <3> QED BY <3>1, <3>2
  <2> QED BY <2>1
<1>5. /\ calls'[c].at = "capture" /\ calls'[c].doc = d /\ calls'[c].built = << >>
      /\ calls'[c].turn = 0
  BY <1>1, <1>3, BegunType
<1>6. /\ told' \subseteq Starts /\ open' \in [Kinds -> Nat] /\ narrationOff' = narrationOff
      /\ UNCHANGED << build, declined, player, closed >>
  BY <1>1, <1>2 DEF PipelineTypes, playing
<1> QED BY <1>1, <1>2, <1>3, <1>4, <1>5, <1>6, RestartKeeps

(* Retry: the choice is void, for every call.                              *)
LEMMA NarratorRetryKeeps ==
  ASSUME PipelineInv, NEW c \in Starts, NarratorRetry(c)
  PROVE  PipelineInv'
<1> DEFINE S == Supersede(c, lastContext)
<1>1. PipelineTypes /\ lastContext \in Docs
  BY DEF PipelineInv, PipelineTypes
<1>2. /\ S \in [Starts -> Call] /\ S[c] = Begun(lastContext)
      /\ \A b \in Starts : b # c => /\ Kept(S[b], calls[b])
                                    /\ S[b].live => b # captureAbort
  BY <1>1, Superseded
<1>3. calls' = [b \in Starts |-> Unbound(S[b])]
  BY DEF NarratorRetry, Unbound
<1> HIDE DEF S
<1>4. \A b \in Starts : /\ Unbound(S[b]) \in Call /\ Kept(Unbound(S[b]), S[b])
                        /\ Unbound(S[b]).live = S[b].live /\ ~ Unbound(S[b]).off
  BY <1>2, UnboundType
<1>5. calls' \in [Starts -> Call] /\ \A b \in Starts : calls'[b] = Unbound(S[b])
  BY <1>3, <1>4
<1>6. \A b \in Starts : b # c => /\ Kept(calls'[b], calls[b])
                                 /\ calls'[b].live => b # captureAbort
  <2>1. ASSUME NEW b \in Starts, b # c
        PROVE  Kept(calls'[b], calls[b]) /\ (calls'[b].live => b # captureAbort)
    <3>1. /\ Kept(S[b], calls[b]) /\ (S[b].live => b # captureAbort)
          /\ Kept(calls'[b], S[b]) /\ calls'[b].live = S[b].live
      BY <1>2, <1>4, <1>5, <2>1
    <3> QED BY <3>1, Zenon DEF Kept
  <2> QED BY <2>1
<1>7. /\ calls'[c].at = "capture" /\ calls'[c].doc = lastContext
      /\ calls'[c].built = << >> /\ calls'[c].turn = 0
  BY <1>1, <1>2, <1>4, <1>5, BegunType DEF Kept, PipelineTypes
<1>8. \A b \in Starts : calls'[b].off => FALSE
  BY <1>4, <1>5
<1>9. /\ narrationOff' = FALSE /\ captureAbort' = c /\ gate' = {} /\ told' \subseteq Starts
      /\ lastContext' = lastContext /\ voice' = voice
      /\ UNCHANGED << build, declined, player, closed >>
  BY <1>1 DEF NarratorRetry, PipelineTypes, playing
<1>10. open' \in [Kinds -> Nat]
  BY <1>1, AnsweredType DEF NarratorRetry, Kinds
<1> QED BY <1>1, <1>5, <1>6, <1>7, <1>8, <1>9, <1>10, RestartKeeps DEF PipelineTypes

(* A start.                                                                *)
LEMMA SpeakKeeps ==
  ASSUME PipelineInv, NEW c \in Starts, NEW d \in Docs, Speak(c, d)
  PROVE  PipelineInv'
<1>1. /\ Begin(c, d) /\ voice' \in BOOLEAN
      /\ UNCHANGED << build, open, narrationOff, declined, playing >>
  BY DEF Speak, choices, PipelineInv, PipelineTypes
<1> QED BY <1>1, BeginKeeps

(* The second run, of the document of the call.                            *)
LEMMA InstalledKeeps ==
  ASSUME PipelineInv, NEW c \in Starts, Installed(c)
  PROVE  PipelineInv'
<1>1. calls[c].doc \in Docs
  BY DEF PipelineInv, PipelineTypes, Call
<1>2. /\ Begin(c, calls[c].doc) /\ voice' \in BOOLEAN
      /\ UNCHANGED << build, open, narrationOff, declined, playing >>
  BY DEF Installed
<1> QED BY <1>1, <1>2, BeginKeeps

(* A test reading has its one segment, and is told of nothing.             *)
LEMMA TestVoiceKeeps ==
  ASSUME PipelineInv, NEW c \in Starts, TestVoice(c)
  PROVE  PipelineInv'
<1> DEFINE q == [NoCall EXCEPT !.at = "tts", !.test = TRUE, !.live = TRUE, !.built = << 1 >>]
<1>1. /\ PipelineTypes /\ PlayerFits /\ NoticeFits /\ ChoiceFits /\ OneLiveCapture
      /\ \A b \in Starts : CallFits(calls[b])
  BY DEF PipelineInv
<1>2. 1 \in 1 .. Groups /\ Len(<< >>) = 1 - 1
  BY PipelineAssumption
<1>3. InOrder(<< 1 >>) /\ Len(<< 1 >>) = 1
  <2>1. << 1 >> = Append(<< >>, 1)
    OBVIOUS
  <2> QED BY <1>2, <2>1, EmptyInOrder, AppendInOrder
<1>4. q \in Call /\ q.at = "tts" /\ q.built = << 1 >> /\ q.turn = 0
  BY <1>3, NoCallType DEF Call, InOrder
<1>5. q.test /\ q.off = NoCall.off /\ ~ NoCall.off
  BY NoCallType DEF Call
<1>6. calls' = [calls EXCEPT ![c] = q]
  BY DEF TestVoice, With
<1> HIDE DEF q
<1>7. CallFits(q)
  <2>1. Len(q.built) > 0 /\ InOrder(q.built)
    BY <1>3, <1>4
  <2> QED BY <1>4, <1>5, <2>1 DEF CallFits
<1>8. /\ calls' \in [Starts -> Call] /\ calls'[c] = q
      /\ \A b \in Starts : b # c => calls'[b] = calls[b]
  BY <1>1, <1>4, <1>6 DEF PipelineTypes
<1>9. /\ told' = told \ {c}
      /\ UNCHANGED << captureAbort, lastContext, build, gate, open, choices, playing >>
  BY DEF TestVoice
<1>10. PipelineTypes' /\ player' = player /\ closed' = closed /\ narrationOff' = narrationOff
  BY <1>1, <1>8, <1>9 DEF PipelineTypes, choices, playing
<1>11. \A b \in Starts : calls[b].at # "none" => calls'[b].at # "none"
  BY <1>4, <1>8
<1>12. PlayerFits'
  BY <1>1, <1>10, <1>11 DEF PlayerFits, QuietOnceDisposed, Standing
<1>13. NoticeFits'
  BY <1>1, <1>5, <1>8, <1>9 DEF NoticeFits
<1>14. ChoiceFits'
  BY <1>1, <1>5, <1>8, <1>10 DEF ChoiceFits
<1>15. OneLiveCapture'
  BY <1>1, <1>5, <1>8, <1>9 DEF OneLiveCapture
<1>16. \A b \in Starts : CallFits(calls'[b])
  BY <1>1, <1>7, <1>8
<1> QED BY <1>10, <1>12, <1>13, <1>14, <1>15, <1>16 DEF PipelineInv

(* A step that ends or binds calls, and starts none.                       *)
LEMMA AllKept ==
  ASSUME PipelineInv, calls' \in [Starts -> Call],
         \A b \in Starts : Kept(calls'[b], calls[b]),
         UNCHANGED << captureAbort, lastContext, build, gate, told >>,
         open' \in [Kinds -> Nat], closed' \in BOOLEAN,
         UNCHANGED << declined, voice >>, narrationOff' \in BOOLEAN,
         narrationOff => narrationOff',
         PlayerFits'
  PROVE  PipelineInv'
<1>1. /\ PipelineTypes /\ NoticeFits /\ ChoiceFits /\ OneLiveCapture
      /\ \A b \in Starts : CallFits(calls[b])
  BY DEF PipelineInv
<1>2. PipelineTypes'
  BY <1>1 DEF PipelineTypes
<1>3. ASSUME NEW b \in Starts
      PROVE  /\ calls'[b].at = calls[b].at /\ calls'[b].test = calls[b].test
             /\ calls'[b].doc = calls[b].doc
             /\ calls'[b].off => calls[b].off
             /\ calls'[b].live => calls[b].live
  BY Zenon DEF Kept
<1>4. NoticeFits'
  BY <1>1, <1>3, Zenon DEF NoticeFits
<1>5. ChoiceFits'
  BY <1>1, <1>3, Zenon DEF ChoiceFits
<1>6. OneLiveCapture'
  BY <1>1, <1>3, Zenon DEF OneLiveCapture
<1>7. \A b \in Starts : CallFits(calls'[b])
  BY <1>1, KeptFits
<1> QED BY <1>2, <1>4, <1>5, <1>6, <1>7 DEF PipelineInv

(* The player is where it was while no call is forgotten.                  *)
LEMMA PlayerKept ==
  ASSUME PlayerFits, UNCHANGED playing, \A b \in Starts : Kept(calls'[b], calls[b])
  PROVE  PlayerFits'
<1>1. \A b \in Starts : calls'[b].at = calls[b].at
  BY Zenon DEF Kept
<1> QED BY <1>1 DEF PlayerFits, QuietOnceDisposed, Standing, playing

(* The choice, which binds the reading that is being built.                *)
LEMMA ReadWithoutNarrationKeeps ==
  ASSUME PipelineInv, ReadWithoutNarration
  PROVE  PipelineInv'
<1>1. PipelineTypes /\ PlayerFits /\ narrationOff' = TRUE
  BY DEF PipelineInv, ReadWithoutNarration
<1>2. ASSUME NEW b \in Starts
      PROVE  calls'[b] \in Call /\ Kept(calls'[b], calls[b])
  <2> DEFINE x == calls[b].forced \/ b = build
  <2>1. calls'[b] = Bound(calls[b], x)
    BY DEF ReadWithoutNarration, Bound
  <2>2. x \in BOOLEAN /\ calls[b] \in Call
    BY <1>1 DEF PipelineTypes
  <2> HIDE DEF x
  <2> QED BY <2>1, <2>2, BoundType
<1>3. calls' \in [Starts -> Call]
  BY <1>2 DEF ReadWithoutNarration
<1>4. open' \in [Kinds -> Nat]
  BY <1>1, AnsweredType DEF ReadWithoutNarration, Kinds
<1>5. /\ UNCHANGED << captureAbort, lastContext, build, gate, told, declined, voice >>
      /\ UNCHANGED playing /\ closed' = closed
  BY DEF ReadWithoutNarration, playing
<1>6. PlayerFits'
  BY <1>1, <1>2, <1>5, PlayerKept
<1>7. closed' \in BOOLEAN /\ narrationOff' \in BOOLEAN
  BY <1>1, <1>5 DEF PipelineTypes
<1> QED BY <1>1, <1>2, <1>3, <1>4, <1>5, <1>6, <1>7, AllKept

(* The end of the extension.                                               *)
LEMMA DisposeKeeps ==
  ASSUME PipelineInv, Dispose
  PROVE  PipelineInv'
<1>1. PipelineTypes /\ PlayerFits
  BY DEF PipelineInv
<1>2. ASSUME NEW b \in Starts
      PROVE  calls'[b] \in Call /\ Kept(calls'[b], calls[b])
  <2> DEFINE x == calls[b].live /\ b # captureAbort
  <2>1. calls'[b] = Signalled(calls[b], x)
    BY DEF Dispose, Signalled
  <2>2. x \in BOOLEAN /\ (x => calls[b].live) /\ calls[b] \in Call
    BY <1>1 DEF PipelineTypes
  <2> HIDE DEF x
  <2> QED BY <2>1, <2>2, SignalledType
<1>3. calls' \in [Starts -> Call]
  BY <1>2 DEF Dispose
<1>4. /\ UNCHANGED << captureAbort, lastContext, build, gate, told, declined, voice >>
      /\ UNCHANGED << open, narrationOff >> /\ closed' = TRUE
  BY DEF Dispose, notices, choices
<1>5. player' = NoPlayer
  BY DEF Dispose
<1>6. NoPlayer \in Player /\ NoPlayer.state = "idle" /\ InOrder(NoPlayer.chunks)
      /\ ~ NoPlayer.failed
  <2>1. << >> \in Seq(1 .. Groups) /\ 0 \in 0 .. Groups
    BY EmptyInOrder, PipelineAssumption DEF InOrder
  <2> QED BY <2>1, EmptyInOrder DEF NoPlayer, Player, PlayerStates, Askings
<1>7. PlayerFits'
  BY <1>5, <1>6 DEF PlayerFits, QuietOnceDisposed, Standing
<1>8. closed' \in BOOLEAN /\ narrationOff' \in BOOLEAN /\ open' \in [Kinds -> Nat]
  BY <1>1, <1>4 DEF PipelineTypes
<1> QED BY <1>2, <1>3, <1>4, <1>7, <1>8, AllKept

-----------------------------------------------------------------------------
(* The player.                                                             *)

(* A player of a reading, and the same reading later.                      *)
OnReading(p) ==
  /\ p \in Player /\ p.state # "idle" /\ InOrder(p.chunks) /\ Len(p.chunks) > 0
  /\ p.index \in 1 .. Groups /\ p.session \in Starts

OnChunk(p) == OnReading(p) /\ Standing(p)

Later(p, q) == OnChunk(p) /\ p.session = q.session

(* A player that is not idle is on one.                                    *)
LEMMA StandsOnChunk ==
  ASSUME PlayerFits, player.state # "idle"
  PROVE  OnChunk(player)
BY DEF PlayerFits, OnChunk, OnReading

(* A reading has no more chunks than its document has groups.              *)
LEMMA ChunksBound ==
  ASSUME NEW p, OnReading(p)
  PROVE  /\ Len(p.chunks) \in Nat /\ Len(p.chunks) <= Groups /\ Groups \in Nat
         /\ 1 .. Len(p.chunks) \subseteq 1 .. Groups
<1>1. Len(p.chunks) \in Nat /\ Len(p.chunks) <= Groups /\ Groups \in Nat
  BY LenProperties, PipelineAssumption DEF OnReading, InOrder
<1> QED BY <1>1

(* Changes of the state, of the place and of the marks of a player.        *)
Set(p, st, i, f, a) == [p EXCEPT !.state = st, !.index = i, !.failed = f, !.asked = a]

LEMMA SetType ==
  ASSUME NEW p, OnReading(p), NEW st \in PlayerStates, st # "idle", NEW i \in 1 .. Groups,
         NEW f \in BOOLEAN, NEW a \in Askings
  PROVE  /\ OnReading(Set(p, st, i, f, a)) /\ Set(p, st, i, f, a).session = p.session
         /\ Set(p, st, i, f, a).state = st /\ Set(p, st, i, f, a).index = i
         /\ Set(p, st, i, f, a).failed = f /\ Set(p, st, i, f, a).asked = a
         /\ Set(p, st, i, f, a).chunks = p.chunks
<1> DEFINE q == Set(p, st, i, f, a)
<1>1. i \in 0 .. Groups
  BY PipelineAssumption
<1>2. q \in Player
  BY <1>1 DEF Set, OnReading, Player
<1>3. /\ q.state = st /\ q.chunks = p.chunks /\ q.index = i /\ q.session = p.session
      /\ q.failed = f /\ q.asked = a
  BY DEF Set, OnReading, Player
<1> QED BY <1>2, <1>3 DEF OnReading

(* The player is asked for another chunk, which the session may not have.  *)
LEMMA PlayedType ==
  ASSUME NEW p, OnReading(p), NEW i \in 1 .. Groups
  PROVE  Later(Played(p, i), p) /\ Played(p, i).state = "preparing"
<1> DEFINE f == FALSE
           q == Set(p, "preparing", i, f, p.asked)
<1>1. Played(p, i) = q
  BY DEF Played, Set, OnReading, Player
<1>2. p.asked \in Askings /\ "preparing" \in PlayerStates /\ f \in BOOLEAN /\ ~ f
  BY DEF OnReading, Player, PlayerStates
<1> HIDE DEF f, q
<1>3. /\ OnReading(q) /\ q.session = p.session /\ q.state = "preparing" /\ ~ q.failed
  BY <1>2, SetType DEF q
<1> QED BY <1>1, <1>3 DEF Later, OnChunk, Standing

(* The reading goes on, or ends.                                           *)
LEMMA AdvancedType ==
  ASSUME NEW p, OnReading(p), p.failed => p.index <= Len(p.chunks)
  PROVE  Later(Advanced(p), p) /\ Advanced(p).state \in {"completed", "preparing"}
<1>1. Len(p.chunks) \in Nat /\ Len(p.chunks) <= Groups /\ Groups \in Nat
  BY ChunksBound
<1>2. p.index \in 1 .. Groups /\ p.failed \in BOOLEAN /\ p.asked \in Askings
  BY DEF OnReading, Player
<1>3. CASE p.index >= Len(p.chunks)
  <2> DEFINE q == Set(p, "completed", p.index, p.failed, p.asked)
  <2>1. Advanced(p) = q
    BY <1>3 DEF Advanced, Set, OnReading, Player
  <2>2. "completed" \in PlayerStates
    BY DEF PlayerStates
  <2> HIDE DEF q
  <2>3. /\ OnReading(q) /\ q.session = p.session /\ q.state = "completed"
        /\ q.index = p.index /\ q.failed = p.failed /\ q.chunks = p.chunks
    BY <1>2, <2>2, SetType DEF q
  <2>4. Standing(q)
    BY <1>1, <1>2, <2>3 DEF Standing
  <2> QED BY <2>1, <2>3, <2>4 DEF Later, OnChunk
<1>4. CASE ~ (p.index >= Len(p.chunks))
  <2>1. Advanced(p) = Played(p, p.index + 1)
    BY <1>4 DEF Advanced
  <2>2. p.index + 1 \in 1 .. Groups
    BY <1>1, <1>2, <1>4
  <2> QED BY <2>1, <2>2, PlayedType
<1> QED BY <1>3, <1>4

LEMMA RewoundType ==
  ASSUME OnChunk(player)
  PROVE  Later(Rewound, player) /\ Rewound.state = "stopped"
<1> DEFINE f == player.failed /\ player.index = 1
           q == Set(player, "stopped", 1, f, player.asked)
<1>1. Rewound = q
  BY DEF Rewound, In, Set, OnChunk, OnReading, Player
<1>2. f \in BOOLEAN /\ player.asked \in Askings /\ "stopped" \in PlayerStates
  BY DEF OnChunk, OnReading, Player, PlayerStates
<1>3. OnReading(player) /\ 1 \in 1 .. Groups /\ 1 \in 1 .. Len(player.chunks)
  BY ChunksBound, PipelineAssumption DEF OnChunk, OnReading
<1> HIDE DEF f, q
<1>4. /\ OnReading(q) /\ q.session = player.session /\ q.state = "stopped"
      /\ q.index = 1 /\ q.chunks = player.chunks
  BY <1>2, <1>3, SetType DEF q
<1> QED BY <1>1, <1>3, <1>4 DEF Later, OnChunk, Standing

LEMMA InType ==
  ASSUME OnChunk(player), NEW st \in PlayerStates, st # "idle",
         st \in {"playing", "paused"} => player.index \in 1 .. Len(player.chunks)
  PROVE  Later(In(st), player) /\ In(st).state = st
<1> DEFINE q == Set(player, st, player.index, player.failed, player.asked)
<1>1. In(st) = q
  BY DEF In, Set, OnChunk, OnReading, Player
<1>2. /\ player.failed \in BOOLEAN /\ player.asked \in Askings /\ OnReading(player)
      /\ player.index \in 1 .. Groups
  BY DEF OnChunk, OnReading, Player
<1> HIDE DEF q
<1>3. /\ OnReading(q) /\ q.session = player.session /\ q.state = st
      /\ q.index = player.index /\ q.failed = player.failed /\ q.chunks = player.chunks
  BY <1>2, SetType DEF q
<1> QED BY <1>1, <1>3 DEF Later, OnChunk, Standing

(* The chunk the player stands on was given up, or a dialog is open for it.*)
LEMMA FailedType ==
  ASSUME OnChunk(player), player.index \in 1 .. Len(player.chunks),
         NEW st \in PlayerStates, st # "idle", NEW a \in Askings
  PROVE  Later(Set(player, st, player.index, TRUE, a), player)
<1> DEFINE f == TRUE
           q == Set(player, st, player.index, f, a)
<1>1. OnReading(player) /\ player.index \in 1 .. Groups /\ f \in BOOLEAN
  BY DEF OnChunk, OnReading
<1> HIDE DEF f, q
<1>2. /\ OnReading(q) /\ q.session = player.session /\ q.index = player.index
      /\ q.chunks = player.chunks
  BY <1>1, SetType DEF q
<1>3. Later(q, player)
  BY <1>2 DEF Later, OnChunk, Standing
<1> QED BY <1>3 DEF f, q

(* A step of the player within a reading.                                  *)
LEMMA PlayerSteps ==
  ASSUME PipelineInv, player.state # "idle", Later(player', player),
         UNCHANGED << starting, choices, closed >>,
         gate' \subseteq Kinds \cup {"chunkInvalid"}, open' \in [Kinds -> Nat],
         told' \subseteq Starts, NoticeFits'
  PROVE  PipelineInv'
<1>1. /\ PipelineTypes /\ PlayerFits /\ ChoiceFits /\ OneLiveCapture
      /\ \A b \in Starts : CallFits(calls[b])
  BY DEF PipelineInv
<1>2. /\ UNCHANGED << calls, captureAbort, lastContext, build, closed >>
      /\ UNCHANGED << narrationOff, declined, voice >>
  BY DEF starting, choices
<1>3. PipelineTypes' /\ ChoiceFits' /\ OneLiveCapture'
  BY <1>1, <1>2 DEF PipelineTypes, ChoiceFits, OneLiveCapture
<1>4. PlayerFits'
  BY <1>1, <1>2 DEF PlayerFits, QuietOnceDisposed, Standing, Later, OnChunk, OnReading
<1> QED BY <1>1, <1>2, <1>3, <1>4 DEF PipelineInv

(* One that shows nothing.                                                 *)
LEMMA QuietSteps ==
  ASSUME PipelineInv, player.state # "idle", Later(player', player),
         UNCHANGED << starting, notices, choices, closed >>
  PROVE  PipelineInv'
<1>1. PipelineTypes /\ NoticeFits
  BY DEF PipelineInv
<1>2. UNCHANGED << calls, gate, open, told >>
  BY DEF starting, notices
<1> QED BY <1>1, <1>2, PlayerSteps DEF PipelineTypes, NoticeFits

(* The answer about a chunk: the reading stops, or goes on from there.     *)
LEMMA DecidedType ==
  ASSUME OnChunk(player), NEW i \in 1 .. Groups, player.asked[i] > 0
  PROVE  /\ Later([Decided(i) EXCEPT !.state = "error"], player)
         /\ [Decided(i) EXCEPT !.state = "error"].asked # player.asked
         /\ \A f \in BOOLEAN : (f => i <= Len(player.chunks)) =>
              LET q == Advanced([Decided(i) EXCEPT !.index = i, !.failed = f]) IN
              Later(q, player) /\ q.state # "error"
<1> DEFINE a == [player.asked EXCEPT ![i] = player.asked[i] - 1]
<1>1. /\ player \in Player /\ OnReading(player) /\ player.asked \in Askings
      /\ player.index \in 1 .. Groups /\ player.failed \in BOOLEAN /\ Standing(player)
  BY DEF OnChunk, OnReading, Player
<1>2. a \in Askings /\ a[i] = player.asked[i] - 1 /\ player.asked[i] \in Nat
  <2>1. player.asked \in [1 .. Groups -> Nat]
    BY <1>1 DEF Askings
  <2> DEFINE n == player.asked[i]
  <2>2. n \in Nat /\ n > 0
    BY <2>1
  <2> HIDE DEF n
  <2>3. n - 1 \in Nat
    BY <2>2
  <2>4. player.asked[i] \in Nat /\ player.asked[i] - 1 \in Nat
    BY <2>2, <2>3 DEF n
  <2> QED BY <2>1, <2>4 DEF Askings
<1>3. a # player.asked
  BY <1>2
<1>4. Decided(i) = [player EXCEPT !.asked = a]
  BY <1>1 DEF Decided, Player
<1> HIDE DEF a
<1>5. /\ [Decided(i) EXCEPT !.state = "error"]
           = Set(player, "error", player.index, player.failed, a)
      /\ \A f \in BOOLEAN : [Decided(i) EXCEPT !.index = i, !.failed = f]
           = Set(player, player.state, i, f, a)
  BY <1>1, <1>4 DEF Set, Player
<1>6. "error" \in PlayerStates /\ player.state \in PlayerStates /\ player.state # "idle"
  BY <1>1 DEF OnReading, Player, PlayerStates
<1>7. /\ Later(Set(player, "error", player.index, player.failed, a), player)
      /\ Set(player, "error", player.index, player.failed, a).asked = a
  <2> DEFINE q == Set(player, "error", player.index, player.failed, a)
  <2> HIDE DEF q
  <2>1. /\ OnReading(q) /\ q.session = player.session /\ q.state = "error" /\ q.asked = a
        /\ q.index = player.index /\ q.failed = player.failed /\ q.chunks = player.chunks
    BY <1>1, <1>2, <1>6, SetType DEF q
  <2> QED BY <1>1, <2>1 DEF Later, OnChunk, Standing, q
<1>8. ASSUME NEW f \in BOOLEAN, f => i <= Len(player.chunks)
      PROVE  /\ Later(Advanced(Set(player, player.state, i, f, a)), player)
             /\ Advanced(Set(player, player.state, i, f, a)).state # "error"
  <2> DEFINE q == Set(player, player.state, i, f, a)
  <2> HIDE DEF q
  <2>1. /\ OnReading(q) /\ q.session = player.session /\ q.index = i /\ q.failed = f
        /\ q.chunks = player.chunks
    BY <1>1, <1>2, <1>6, SetType DEF q
  <2>2. Later(Advanced(q), q) /\ Advanced(q).state \in {"completed", "preparing"}
    BY <1>8, <2>1, AdvancedType
  <2> QED BY <2>1, <2>2 DEF Later, q
<1> QED BY <1>3, <1>5, <1>7, <1>8

LEMMA ChunkKeeps ==
  ASSUME PipelineInv, ChunkPlays \/ ChunkEnds \/ ChunkDecided
  PROVE  PipelineInv'
<1>1. PlayerFits
  BY DEF PipelineInv
<1>2. player.state # "idle"
  <2>1. \A i \in 1 .. Groups : ~ (NoPlayer.asked[i] > 0)
    BY DEF NoPlayer
  <2> QED BY <1>1, <2>1 DEF ChunkPlays, ChunkEnds, ChunkDecided, PlayerFits
<1>3. OnChunk(player)
  BY <1>1, <1>2, StandsOnChunk
<1>4. UNCHANGED << starting, notices, choices, closed >>
  BY DEF ChunkPlays, ChunkEnds, ChunkDecided
<1>5. ASSUME ChunkPlays PROVE Later(player', player)
  <2>1. player.index \in 1 .. Len(player.chunks)
    BY <1>3, <1>5, ChunksBound DEF ChunkPlays, ChunkThere, OnChunk, OnReading
  <2> QED BY <1>3, <1>5, <2>1, InType DEF ChunkPlays, PlayerStates
<1>6. ASSUME ChunkEnds PROVE Later(player', player)
  BY <1>3, <1>6, AdvancedType DEF ChunkEnds, OnChunk, Standing
<1>7. ASSUME ChunkDecided PROVE Later(player', player)
  <2>1. PICK i \in 1 .. Groups :
          /\ player.asked[i] > 0
          /\ \/ player' = [Decided(i) EXCEPT !.state = "error"]
             \/ \E f \in BOOLEAN :
                  /\ f => i <= Len(player.chunks)
                  /\ player' = Advanced([Decided(i) EXCEPT !.index = i, !.failed = f])
    BY <1>7 DEF ChunkDecided
  <2> QED BY <1>3, <2>1, DecidedType
<1> QED BY <1>2, <1>4, <1>5, <1>6, <1>7, QuietSteps

LEMMA TransportKeeps ==
  ASSUME PipelineInv, NEW p, Transport(p), OnChunk(player) => Later(p, player)
  PROVE  PipelineInv'
<1>1. PlayerFits /\ player.state # "idle" /\ player' = p
  BY DEF PipelineInv, Transport
<1>2. Later(player', player)
  BY <1>1, StandsOnChunk
<1> QED BY <1>1, <1>2, QuietSteps DEF Transport

LEMMA ButtonsKeep ==
  ASSUME PipelineInv, Stop \/ NextSegment \/ PreviousSegment
  PROVE  PipelineInv'
<1>1. OnChunk(player) => Later(Rewound, player)
  BY RewoundType
<1>2. OnChunk(player) => Later(Advanced(player), player)
  BY AdvancedType DEF OnChunk, Standing
<1>3. ASSUME NEW i \in {player.index, player.index - 1} \ {0}, OnChunk(player)
      PROVE  Later(Played(player, i), player)
  <2>1. i \in 1 .. Groups
    BY <1>3, PipelineAssumption DEF OnChunk, OnReading
  <2> QED BY <1>3, <2>1, PlayedType DEF OnChunk
<1>4. ASSUME Stop PROVE PipelineInv'
  BY <1>1, <1>4, TransportKeeps DEF Stop
<1>5. ASSUME NextSegment PROVE PipelineInv'
  BY <1>2, <1>5, TransportKeeps DEF NextSegment
<1>6. ASSUME PreviousSegment PROVE PipelineInv'
  BY <1>3, <1>6, TransportKeeps DEF PreviousSegment
<1> QED BY <1>4, <1>5, <1>6

LEMMA PlayKeeps ==
  ASSUME PipelineInv, NEW toggle \in BOOLEAN, Play(toggle)
  PROVE  PipelineInv'
<1>1. ASSUME NEW st \in {"playing", "paused"}, OnChunk(player),
             player.state \in {"playing", "paused"}
      PROVE  Later(In(st), player)
  BY <1>1, InType DEF PlayerStates, OnChunk, Standing
<1>2. ASSUME player.state = "paused", Transport(In("playing")) PROVE PipelineInv'
  BY <1>1, <1>2, TransportKeeps
<1>3. ASSUME player.state = "playing", Transport(In("paused")) PROVE PipelineInv'
  BY <1>1, <1>3, TransportKeeps
<1>4. ASSUME NEW c \in Starts, NEW d \in Docs, Speak(c, d) PROVE PipelineInv'
  BY <1>4, SpeakKeeps
<1>5. /\ PlayDecision(player.state, toggle) = "resume" => player.state = "paused"
      /\ PlayDecision(player.state, toggle) = "pause" => player.state = "playing"
  BY DEF PlayDecision
<1> QED BY <1>2, <1>3, <1>4, <1>5 DEF Play

(* The first chunk: everyone who has begun is told.                        *)
LEMMA FirstChunkFailsKeeps ==
  ASSUME PipelineInv, FirstChunkFails
  PROVE  PipelineInv'
<1>1. PipelineTypes /\ PlayerFits /\ NoticeFits /\ player.state # "idle"
  BY DEF PipelineInv, FirstChunkFails
<1>2. OnChunk(player)
  BY <1>1, StandsOnChunk
<1>3. /\ player.asked \in Askings /\ "error" \in PlayerStates
      /\ player' = Set(player, "error", player.index, TRUE, player.asked)
  BY <1>2 DEF FirstChunkFails, In, Set, OnChunk, OnReading, Player, PlayerStates
<1>4. Later(player', player)
  <2>1. player.index \in 1 .. Len(player.chunks)
    BY <1>2, ChunksBound DEF FirstChunkFails, OnChunk, OnReading
  <2> QED BY <1>2, <1>3, <2>1, FailedType
<1>5. gate' = gate \cup {"ttsUnavailable"} /\ UNCHANGED << starting, choices, closed >>
  BY DEF FirstChunkFails
<1>6. \/ "ttsUnavailable" \in gate /\ UNCHANGED << open, told >>
      \/ /\ open' = [open EXCEPT !["ttsUnavailable"] = open["ttsUnavailable"] + 1]
         /\ told' = {c \in Starts : calls[c].at # "none"}
  BY DEF FirstChunkFails
<1>7. open' \in [Kinds -> Nat] /\ told' \subseteq Starts
  BY <1>1, <1>6 DEF PipelineTypes, Kinds
<1>8. gate' \subseteq Kinds \cup {"chunkInvalid"}
  BY <1>1, <1>5 DEF PipelineTypes, Kinds
<1>9. NoticeFits'
  BY <1>1, <1>5, <1>6 DEF NoticeFits, starting
<1> QED BY <1>1, <1>4, <1>5, <1>7, <1>8, <1>9, PlayerSteps

LEMMA LaterChunkFailsKeeps ==
  ASSUME PipelineInv, LaterChunkFails
  PROVE  PipelineInv'
<1>1. PipelineTypes /\ PlayerFits /\ NoticeFits /\ player.state # "idle"
  BY DEF PipelineInv, LaterChunkFails
<1>2. OnChunk(player)
  BY <1>1, StandsOnChunk
<1> DEFINE a == [player.asked EXCEPT ![player.index] = player.asked[player.index] + 1]
<1>3. player.index \in 1 .. Len(player.chunks) /\ player.index \in 1 .. Groups
  BY <1>2, ChunksBound DEF LaterChunkFails, ChunkThere, OnChunk, OnReading
<1>4. a \in Askings /\ player.asked \in Askings
  <2>1. player.asked \in [1 .. Groups -> Nat]
    BY <1>2 DEF OnChunk, OnReading, Player, Askings
  <2> DEFINE i == player.index
             n == player.asked[i]
  <2>2. i \in 1 .. Groups
    BY <1>3
  <2> HIDE DEF i
  <2>3. n \in Nat
    BY <2>1, <2>2
  <2> HIDE DEF n
  <2>4. n + 1 \in Nat
    BY <2>3
  <2>5. player.asked[player.index] + 1 \in Nat
    BY <2>4 DEF i, n
  <2> QED BY <2>1, <2>5 DEF Askings
<1>5. player.state \in PlayerStates /\ "error" \in PlayerStates
  BY <1>2 DEF OnChunk, OnReading, Player, PlayerStates
<1>6. \/ player' = [In("error") EXCEPT !.failed = TRUE]
      \/ player' = [player EXCEPT !.asked = a, !.failed = TRUE]
  BY <1>2 DEF LaterChunkFails, OnChunk, OnReading, Player
<1> HIDE DEF a
<1>7. /\ [In("error") EXCEPT !.failed = TRUE]
           = Set(player, "error", player.index, TRUE, player.asked)
      /\ [player EXCEPT !.asked = a, !.failed = TRUE]
           = Set(player, player.state, player.index, TRUE, a)
  BY <1>2 DEF In, Set, OnChunk, OnReading, Player
<1>8. Later(player', player)
  <2>1. Later(Set(player, "error", player.index, TRUE, player.asked), player)
    BY <1>2, <1>3, <1>4, <1>5, FailedType
  <2>2. Later(Set(player, player.state, player.index, TRUE, a), player)
    BY <1>1, <1>2, <1>3, <1>4, <1>5, FailedType
  <2> QED BY <1>6, <1>7, <2>1, <2>2, Zenon
<1>9. /\ gate' = gate \cup {"chunkInvalid"}
      /\ UNCHANGED << starting, open, told, choices, closed >>
  BY DEF LaterChunkFails
<1>10. NoticeFits'
  BY <1>1, <1>9 DEF NoticeFits, starting
<1>11. /\ gate' \subseteq Kinds \cup {"chunkInvalid"} /\ open' \in [Kinds -> Nat]
       /\ told' \subseteq Starts
  BY <1>1, <1>9 DEF PipelineTypes
<1> QED BY <1>1, <1>8, <1>9, <1>10, <1>11, PlayerSteps

-----------------------------------------------------------------------------
(* The answers to the dialogs.                                             *)

(* A step that leaves the player and the calls alone.                      *)
LEMMA DialogsKeep ==
  ASSUME PipelineInv, UNCHANGED << starting, choices, playing >>,
         gate' \subseteq gate, told' \subseteq Starts, open' \in [Kinds -> Nat],
         "ttsUnavailable" \in gate' => told' = told
  PROVE  PipelineInv'
<1>1. /\ PipelineTypes /\ PlayerFits /\ NoticeFits /\ ChoiceFits /\ OneLiveCapture
      /\ \A b \in Starts : CallFits(calls[b])
  BY DEF PipelineInv
<1>2. /\ UNCHANGED << calls, captureAbort, lastContext, build, player, closed >>
      /\ UNCHANGED << narrationOff, declined, voice >>
  BY DEF starting, choices, playing
<1>3. PipelineTypes' /\ ChoiceFits' /\ OneLiveCapture'
  BY <1>1, <1>2 DEF PipelineTypes, ChoiceFits, OneLiveCapture
<1>4. PlayerFits'
  BY <1>1, <1>2 DEF PlayerFits, QuietOnceDisposed, Standing
<1>5. NoticeFits'
  BY <1>1, <1>2 DEF NoticeFits
<1> QED BY <1>1, <1>2, <1>3, <1>4, <1>5 DEF PipelineInv

LEMMA AnswersKeep ==
  ASSUME PipelineInv, TtsRetry \/ NarratorCancel \/ \E k \in Kinds : Dismiss(k)
  PROVE  PipelineInv'
<1>1. PipelineTypes /\ PlayerFits /\ NoticeFits
  BY DEF PipelineInv
<1>2. open' \in [Kinds -> Nat]
  BY <1>1, AnsweredType DEF TtsRetry, NarratorCancel, Dismiss, Kinds
<1>3. ASSUME NEW k \in Kinds, Dismiss(k) PROVE PipelineInv'
  <2>1. UNCHANGED << starting, choices, playing >> /\ gate' = gate /\ told' = told
    BY <1>3 DEF Dismiss
  <2> QED BY <1>1, <1>2, <2>1, DialogsKeep DEF PipelineTypes
<1>4. ASSUME NarratorCancel PROVE PipelineInv'
  <2>1. UNCHANGED << starting, choices, closed >> /\ gate' = gate /\ told' = told
    BY <1>4 DEF NarratorCancel
  <2>2. CASE player.state = "idle"
    <3>1. UNCHANGED playing
      BY <1>4, <2>1, <2>2 DEF NarratorCancel, playing
    <3> QED BY <1>1, <1>2, <2>1, <3>1, DialogsKeep DEF PipelineTypes
  <2>3. CASE player.state # "idle"
    <3>1. Later(player', player)
      BY <1>1, <1>4, <2>3, StandsOnChunk, RewoundType DEF NarratorCancel
    <3>2. NoticeFits' /\ gate' \subseteq Kinds \cup {"chunkInvalid"} /\ told' \subseteq Starts
      BY <1>1, <2>1 DEF NoticeFits, PipelineTypes, starting
    <3> QED BY <1>2, <2>1, <2>3, <3>1, <3>2, PlayerSteps
  <2> QED BY <2>2, <2>3
<1>5. ASSUME TtsRetry PROVE PipelineInv'
  <2>1. /\ UNCHANGED << starting, choices, closed >> /\ gate' = gate \ {"ttsUnavailable"}
        /\ told' = told \ {player.session}
    BY <1>5 DEF TtsRetry, Rearmed
  <2>2. CASE ~ player.failed
    <3>1. UNCHANGED playing
      BY <1>5, <2>1, <2>2 DEF TtsRetry, playing
    <3>2. gate' \subseteq gate /\ told' \subseteq Starts /\ "ttsUnavailable" \notin gate'
      BY <1>1, <2>1 DEF PipelineTypes
    <3> QED BY <1>2, <2>1, <3>1, <3>2, DialogsKeep
  <2>3. CASE player.failed
    <3>1. player.state # "idle"
      BY <1>1, <2>3 DEF PlayerFits, NoPlayer
    <3>2. OnChunk(player)
      BY <1>1, <3>1, StandsOnChunk
    <3>3. player.index \in 1 .. Groups /\ OnReading(player)
      BY <3>2 DEF OnChunk, OnReading
    <3>4. Later(player', player)
      BY <1>5, <2>3, <3>3, PlayedType DEF TtsRetry
    <3>5. NoticeFits' /\ gate' \subseteq Kinds \cup {"chunkInvalid"} /\ told' \subseteq Starts
      BY <1>1, <2>1 DEF NoticeFits, PipelineTypes
    <3> QED BY <1>2, <2>1, <3>1, <3>4, <3>5, PlayerSteps
  <2> QED BY <2>2, <2>3
<1> QED BY <1>3, <1>4, <1>5

-----------------------------------------------------------------------------
(* The invariant, and what follows from it.                                *)

LEMMA InitInv == PipelineInit => PipelineInv
<1> SUFFICES ASSUME PipelineInit PROVE PipelineInv
  OBVIOUS
<1>1. /\ calls = [c \in Starts |-> NoCall] /\ captureAbort = 0 /\ build = 0
      /\ lastContext = NoCall.doc /\ gate = {} /\ open = [k \in Kinds |-> 0] /\ told = {}
      /\ narrationOff = FALSE /\ declined = FALSE /\ voice = FALSE
      /\ player = NoPlayer /\ closed = FALSE
  BY DEF PipelineInit
<1>2. /\ NoCall \in Call /\ NoCall.at = "none" /\ ~ NoCall.live /\ ~ NoCall.off
      /\ NoCall.built = << >> /\ NoCall.turn = 0
  BY NoCallType
<1>3. NoCall.doc \in Docs
  BY <1>2 DEF Call
<1>4. PipelineTypes
  BY <1>1, <1>2, <1>3 DEF PipelineTypes
<1>5. NoPlayer \in Player /\ NoPlayer.state = "idle" /\ InOrder(NoPlayer.chunks)
      /\ ~ NoPlayer.failed
  <2>1. << >> \in Seq(1 .. Groups) /\ 0 \in 0 .. Groups
    BY EmptyInOrder, PipelineAssumption DEF InOrder
  <2> QED BY <2>1, EmptyInOrder DEF NoPlayer, Player, PlayerStates, Askings
<1>6. PlayerFits
  BY <1>1, <1>5 DEF PlayerFits, QuietOnceDisposed, Standing
<1>7. NoticeFits /\ ChoiceFits
  BY <1>1, <1>2 DEF NoticeFits, ChoiceFits
<1>8. OneLiveCapture
  BY <1>1, <1>2 DEF OneLiveCapture
<1>9. CallFits(NoCall)
  BY <1>2, EmptyInOrder DEF CallFits
<1> QED BY <1>1, <1>4, <1>6, <1>7, <1>8, <1>9 DEF PipelineInv

LEMMA StutterInv == PipelineInv /\ UNCHANGED pipelineVars => PipelineInv'
<1> SUFFICES ASSUME PipelineInv, UNCHANGED pipelineVars PROVE PipelineInv'
  OBVIOUS
<1>1. /\ UNCHANGED << calls, captureAbort, lastContext, build, gate, open, told >>
      /\ UNCHANGED << narrationOff, declined, voice, player, closed >>
  BY DEF pipelineVars, starting, notices, choices, playing
<1> QED BY <1>1 DEF PipelineInv, PipelineTypes, PlayerFits, QuietOnceDisposed, NoticeFits,
               ChoiceFits, OneLiveCapture

LEMMA NextInv == PipelineInv /\ PipelineNext => PipelineInv'
<1> SUFFICES ASSUME PipelineInv, PipelineNext PROVE PipelineInv'
  OBVIOUS
<1>1. ASSUME NEW c \in Starts, StartStep(c) PROVE PipelineInv'
  BY <1>1, WaitsKeep, PollKeeps, SegmentsKeep, NarratedKeeps, LaunchKeeps DEF StartStep
<1>2. ASSUME NEW c \in Starts, TestVoice(c) \/ Installed(c) \/ NotInstalled(c)
             \/ NarratorRetry(c) \/ \E d \in Docs : Speak(c, d)
      PROVE  PipelineInv'
  BY <1>2, TestVoiceKeeps, InstalledKeeps, WaitsKeep, NarratorRetryKeeps, SpeakKeeps
<1>3. ASSUME ChunkPlays \/ ChunkEnds \/ FirstChunkFails \/ LaterChunkFails \/ ChunkDecided
      PROVE  PipelineInv'
  BY <1>3, ChunkKeeps, FirstChunkFailsKeeps, LaterChunkFailsKeeps
<1>4. ASSUME Stop \/ NextSegment \/ PreviousSegment \/ \E toggle \in BOOLEAN : Play(toggle)
      PROVE  PipelineInv'
  BY <1>4, ButtonsKeep, PlayKeeps
<1>5. ASSUME \/ TtsRetry \/ ReadWithoutNarration \/ NarratorCancel
             \/ \E k \in Kinds : Dismiss(k)
             \/ Dispose
      PROVE  PipelineInv'
  BY <1>5, AnswersKeep, ReadWithoutNarrationKeeps, DisposeKeeps
<1> QED BY <1>1, <1>2, <1>3, <1>4, <1>5 DEF PipelineNext

(* Calls, player and notices fit in every reachable state.                 *)
THEOREM PipelineInvariant == PipelineSpec => []PipelineInv
<1>1. PipelineInv /\ [PipelineNext]_pipelineVars => PipelineInv'
  BY StutterInv, NextInv
<1> QED BY InitInv, <1>1, PTL DEF PipelineSpec

(* Every variable has its type in every reachable state.                   *)
THEOREM PipelineTypeOKHolds == PipelineSpec => []PipelineTypeOK
<1>1. PipelineInv => PipelineTypeOK
  <2> SUFFICES ASSUME PipelineInv PROVE PipelineTypeOK
    OBVIOUS
  <2>1. PipelineTypes /\ PlayerFits
    BY DEF PipelineInv
  <2>2. /\ player.session \in {0} \cup Starts /\ player.chunks \in Seq(1 .. Groups)
        /\ player.index \in 0 .. Groups /\ player.asked \in [1 .. Groups -> Nat]
        /\ player.state \in PlayerStates /\ Standing(player)
    BY <2>1 DEF PlayerFits, Player, Askings
  <2> QED BY <2>1, <2>2 DEF PipelineTypes, PipelineTypeOK, PlayerStates, Standing
<1> QED BY <1>1, PipelineInvariant, PTL

(* At most one of the captures under way has a live signal: the last one,  *)
(* which is the one a Retry reads again.                                   *)
THEOREM OneLiveCaptureHolds == PipelineSpec => []OneLiveCapture
<1>1. PipelineInv => OneLiveCapture
  BY DEF PipelineInv
<1> QED BY <1>1, PipelineInvariant, PTL

(* What is built and played is the document from its beginning, without a  *)
(* hole or a repetition.                                                   *)
THEOREM ReadInOrderHolds == PipelineSpec => []ReadInOrder
<1>1. PipelineInv => ReadInOrder
  BY DEF PipelineInv, PlayerFits, CallFits, InOrder, ReadInOrder
<1> QED BY <1>1, PipelineInvariant, PTL

(* A reading begun after "Read without narration" is never narrated.       *)
THEOREM FaithfulOnceChosenHolds == PipelineSpec => []FaithfulOnceChosen
<1>1. PipelineInv => FaithfulOnceChosen
  BY DEF PipelineInv, CallFits, FaithfulOnceChosen
<1> QED BY <1>1, PipelineInvariant, PTL

(* After dispose() nothing is read.                                        *)
THEOREM QuietOnceDisposedHolds == PipelineSpec => []QuietOnceDisposed
<1>1. PipelineInv => QuietOnceDisposed
  BY DEF PipelineInv, PlayerFits
<1> QED BY <1>1, PipelineInvariant, PTL

-----------------------------------------------------------------------------
(* Only a chunk that fails, or the answer about one, ends a reading that   *)
(* is being prepared.                                                      *)
LEMMA WhatEndsAReading ==
  ASSUME PipelineInv, [PipelineNext]_pipelineVars, player.state = "preparing",
         player'.state = "error", player'.asked = player.asked
  PROVE  FirstChunkFails \/ LaterChunkFails
<1>1. OnChunk(player) /\ player' # player
  BY StandsOnChunk DEF PipelineInv
<1>2. UNCHANGED playing => player' = player
  BY DEF playing
<1>3. OnReading(player) /\ player.index \in 1 .. Groups
  BY <1>1 DEF OnChunk, OnReading
<1>4. /\ \A i \in 1 .. Groups : Played(player, i).state # "error"
      /\ Advanced(player).state # "error"
  BY <1>1, <1>3, PlayedType, AdvancedType DEF OnChunk, Standing
<1>5. Rewound.state # "error" /\ \A st \in {"playing", "paused"} : In(st).state = st
  BY <1>1, RewoundType DEF In, OnChunk, OnReading, Player
<1>6. ~ UNCHANGED pipelineVars
  BY <1>1, <1>2 DEF pipelineVars
<1>7. ASSUME NEW c \in Starts, StartStep(c) PROVE FALSE
  <2>1. CASE Launch(c)
    <3>1. Session(c).state # "error"
      BY DEF Session
    <3> QED BY <1>1, <2>1, <3>1 DEF Launch, Started
  <2>2. CASE ~ Launch(c)
    <3>1. UNCHANGED playing
      BY <1>7, <2>2 DEF StartStep, Capture, Voice, Segments, Narrated, TtsFails, TtsLoading
    <3> QED BY <1>1, <1>2, <3>1
  <2> QED BY <2>1, <2>2
<1>8. ASSUME NEW c \in Starts, TestVoice(c) \/ Installed(c) \/ NotInstalled(c)
             \/ NarratorRetry(c) \/ \E d \in Docs : Speak(c, d)
      PROVE  FALSE
  <2>1. UNCHANGED playing
    BY <1>8 DEF TestVoice, Installed, NotInstalled, NarratorRetry, Speak
  <2> QED BY <1>1, <1>2, <2>1
<1>9. ASSUME ChunkPlays \/ ChunkEnds PROVE FALSE
  BY <1>4, <1>5, <1>9 DEF ChunkPlays, ChunkEnds
<1>10. ASSUME ChunkDecided PROVE FALSE
  <2>1. PICK i \in 1 .. Groups :
          /\ player.asked[i] > 0
          /\ \/ player' = [Decided(i) EXCEPT !.state = "error"]
             \/ \E f \in BOOLEAN :
                  /\ f => i <= Len(player.chunks)
                  /\ player' = Advanced([Decided(i) EXCEPT !.index = i, !.failed = f])
    BY <1>10 DEF ChunkDecided
  <2> QED BY <1>1, <2>1, DecidedType
<1>11. ASSUME Stop \/ NextSegment \/ PreviousSegment PROVE FALSE
  <2>1. {player.index, player.index - 1} \ {0} \subseteq 1 .. Groups
    BY <1>3, PipelineAssumption
  <2>2. \/ player' = Rewound
        \/ player' = Advanced(player)
        \/ \E i \in {player.index, player.index - 1} \ {0} : player' = Played(player, i)
    BY <1>11 DEF Stop, NextSegment, PreviousSegment, Transport
  <2> QED BY <1>4, <1>5, <2>1, <2>2
<1>12. ASSUME NEW toggle \in BOOLEAN, Play(toggle) PROVE FALSE
  <2>1. player' = In("playing") \/ player' = In("paused") \/ UNCHANGED playing
    BY <1>12 DEF Play, Transport, Speak
  <2> QED BY <1>1, <1>2, <1>5, <2>1
<1>13. ASSUME TtsRetry \/ NarratorCancel PROVE FALSE
  <2>1. player' \in {player, Rewound, Played(player, player.index)}
    BY <1>13 DEF TtsRetry, NarratorCancel
  <2> QED BY <1>1, <1>3, <1>4, <1>5, <2>1
<1>14. ASSUME ReadWithoutNarration \/ Dispose \/ \E k \in Kinds : Dismiss(k) PROVE FALSE
  <2>1. UNCHANGED playing \/ player' = NoPlayer
    BY <1>14 DEF ReadWithoutNarration, Dispose, Dismiss
  <2> QED BY <1>1, <1>2, <2>1 DEF NoPlayer
<1> QED BY <1>6, <1>7, <1>8, <1>9, <1>10, <1>11, <1>12, <1>13, <1>14 DEF PipelineNext

(* A reading that ends on its first chunk does not end without a word.     *)
THEOREM FailureIsToldHolds == PipelineSpec => FailureIsTold
<1> DEFINE Told == player.state = "preparing" /\ player'.state = "error" /\ player.index = 1
                   /\ player.asked = player'.asked /\ ~ calls[player.session].test
                   => player.session \in told'
<1>1. ASSUME PipelineInv, [PipelineNext]_pipelineVars PROVE [Told]_pipelineVars
  <2> SUFFICES ASSUME player.state = "preparing", player'.state = "error", player.index = 1,
                      player.asked = player'.asked, ~ calls[player.session].test
               PROVE  player.session \in told'
    OBVIOUS
  <2>1. FirstChunkFails
    BY <1>1, WhatEndsAReading DEF LaterChunkFails
  <2>2. player.session \in Starts /\ calls[player.session].at # "none" /\ NoticeFits
    BY <1>1 DEF PipelineInv, PlayerFits
  <2> QED BY <2>1, <2>2 DEF FirstChunkFails, NoticeFits
<1> QED BY <1>1, PipelineInvariant, PTL DEF PipelineSpec, FailureIsTold
=============================================================================
