------------------------------ MODULE Pipeline ------------------------------
(***************************************************************************)
(* From a command to a reading: Pipeline.startInternal() cut at the awaits *)
(* where another call can make a difference, with several calls under way, *)
(* the narration of the groups of a document (playback/SessionFactory.ts), *)
(* the dialogs that are answered minutes later (ui/notifications.ts), and  *)
(* the player as far as a reading depends on it: PlaybackController.tla    *)
(* has its detail.                                                         *)
(*                                                                         *)
(* A document is cut into `Groups` groups of segments, and a group is one  *)
(* chunk.  The profile decides whether a reading is narrated and whether a *)
(* voice has to be offered; its label, the document the highlight is put   *)
(* in, the provider a dialog names and the performance counters are left   *)
(* out.                                                                    *)
(***************************************************************************)
EXTENDS Integers, Sequences

CONSTANTS
  Docs,          \* capture contexts
  Groups,        \* groups of segments in a document
  MaxStarts,     \* bound: calls of startInternal() and speakTestText()
  ReadyPolls     \* polls of a loading provider within readyTimeoutMs

ASSUME PipelineAssumption ==
  /\ Docs # {} /\ Groups \in Nat \ {0} /\ MaxStarts \in Nat \ {0}
  /\ ReadyPolls \in Nat \ {0}

VARIABLES
  calls,         \* the calls of startInternal() and speakTestText()
  captureAbort,  \* the call whose AbortController is the current one
  lastContext,   \* lastCaptureContext
  build,         \* the call whose SessionBuild is currentSessionBuild
  gate,          \* NotificationGate.shown
  open,          \* number of open dialogs of each kind
  told,          \* history: calls begun before a "TTS unavailable" dialog
  narrationOff,  \* narrationDisabledForSession
  declined,      \* voiceInstallDeclinedThisSession
  voice,         \* Piper is installed
  player,
  closed         \* dispose() has run

starting == << calls, captureAbort, lastContext, build >>
notices  == << gate, open, told >>
choices  == << narrationOff, declined, voice >>
playing  == << player, closed >>
pipelineVars == << starting, notices, choices, playing >>

Starts == 1 .. MaxStarts
Kinds  == {"ttsUnavailable", "narratorUnavailable"}

(* `at` tells what a call waits for.  `turn` is the group the narrator is  *)
(* at work on, 0 when it is not; from the second group on this goes on in  *)
(* the background.  `off` is a history variable: the user had chosen to    *)
(* read without narration when the call began, and has not retried since.  *)
Call == [at : {"none", "capture", "voice", "install", "segments", "first", "tts", "done"},
         test : BOOLEAN, doc : Docs, live : BOOLEAN, off : BOOLEAN, forced : BOOLEAN,
         built : Seq(1 .. Groups), turn : 0 .. Groups, polls : 0 .. ReadyPolls]

NoCall == [at |-> "none", test |-> FALSE, doc |-> CHOOSE d \in Docs : TRUE, live |-> FALSE,
           off |-> FALSE, forced |-> FALSE, built |-> << >>, turn |-> 0, polls |-> 0]

NoPlayer == [session |-> 0, chunks |-> << >>, index |-> 0, state |-> "idle",
             failed |-> FALSE, asked |-> [i \in 1 .. Groups |-> 0]]

With(c, r) == calls' = [calls EXCEPT ![c] = r]
At(c, at)  == With(c, [calls[c] EXCEPT !.at = at, !.polls = 0])

PipelineInit ==
  /\ calls = [c \in Starts |-> NoCall]
  /\ captureAbort = 0 /\ build = 0 /\ lastContext = NoCall.doc
  /\ gate = {} /\ open = [k \in Kinds |-> 0] /\ told = {}
  /\ narrationOff = FALSE /\ declined = FALSE /\ voice = FALSE
  /\ player = NoPlayer /\ closed = FALSE
-----------------------------------------------------------------------------
(* startInternal() up to its first await: the previous controller is       *)
(* aborted, whoever owns it, and the notifications are armed again.  The   *)
(* retry after an installation runs it again for a call under way.         *)
Begun(d) == [NoCall EXCEPT !.at = "capture", !.doc = d, !.live = TRUE, !.off = narrationOff]

(* Faulty variant: the previous capture is not aborted.                    *)
SupersedeNothing(c, d) == [calls EXCEPT ![c] = Begun(d)]
Supersede(c, d) ==
  [b \in Starts |-> IF b = c THEN Begun(d)
                    ELSE [calls[b] EXCEPT !.live = @ /\ b # captureAbort]]

(* Faulty variant: the notifications stay disarmed.                        *)
BeginDisarmed(c, d) ==
  /\ calls' = Supersede(c, d) /\ captureAbort' = c /\ lastContext' = d
  /\ told' = told \ {c} /\ UNCHANGED gate
Begin(c, d) ==
  /\ calls' = Supersede(c, d) /\ captureAbort' = c /\ lastContext' = d
  /\ told' = told \ {c} /\ gate' = {}

Fresh(c) == calls[c].at = "none" /\ \A b \in 1 .. c - 1 : calls[b].at # "none"

Speak(c, d) ==
  ~ closed /\ Fresh(c) /\ Begin(c, d) /\ UNCHANGED << build, open, choices, playing >>

(* Test Voice and the preview of the voice browser: a reading that takes   *)
(* no abort controller and leaves the notifications as they are.           *)
TestVoice(c) ==
  /\ ~ closed /\ Fresh(c)
  /\ With(c, [NoCall EXCEPT !.at = "tts", !.test = TRUE, !.live = TRUE, !.built = << 1 >>])
  /\ told' = told \ {c}
  /\ UNCHANGED << captureAbort, lastContext, build, gate, open, choices, playing >>

(* The capture throws when its signal is up, or when there is no source;   *)
(* then the profile is read, and ensureVoiceReady() entered.               *)
Capture(c) ==
  /\ calls[c].at = "capture"
  /\ \/ At(c, "done")
     \/ calls[c].live /\ At(c, IF declined THEN "segments" ELSE "voice")
  /\ UNCHANGED << captureAbort, lastContext, build, notices, choices, playing >>

(* A machine whose system engine is missing or poor is offered Piper.      *)
Voice(c) ==
  /\ calls[c].at = "voice"
  /\ \/ At(c, "segments")
     \/ ~ voice /\ At(c, "install")
  /\ UNCHANGED << captureAbort, lastContext, build, notices, choices, playing >>

(* offerAutoVoiceInstall(): once installed the whole method runs again,    *)
(* superseded or not; declined or failed, it is not offered any more.      *)
Installed(c) ==
  /\ calls[c].at = "install"
  /\ voice' = TRUE /\ Begin(c, calls[c].doc)
  /\ UNCHANGED << build, open, narrationOff, declined, playing >>

NotInstalled(c) ==
  /\ calls[c].at = "install"
  /\ declined' = TRUE /\ At(c, "segments")
  /\ UNCHANGED << captureAbort, lastContext, build, notices, narrationOff, voice, playing >>
-----------------------------------------------------------------------------
(* handleNarratorWarning(): one dialog until the gate is armed again.      *)
Warn ==
  /\ gate' = gate \cup {"narratorUnavailable"}
  /\ open' = IF "narratorUnavailable" \in gate THEN open
             ELSE [open EXCEPT !["narratorUnavailable"] = @ + 1]

(* fallback(): the group is pushed verbatim.  Faulty variant: it is only   *)
(* warned about.                                                           *)
Unread(r, g)   == r
Verbatim(r, g) == [r EXCEPT !.built = Append(@, g)]

RestFrom(g) == [i \in 1 .. Groups + 1 - g |-> g + i - 1]

(* The loop of `completion` once group r.turn is there: it ends when the   *)
(* signal is up, and reads the rest verbatim when the user asked for it.   *)
Continued(r) ==
  IF r.turn = Groups \/ ~ r.live THEN [r EXCEPT !.turn = 0]
  ELSE IF r.forced THEN [r EXCEPT !.turn = 0, !.built = @ \o RestFrom(r.turn + 1)]
  ELSE [r EXCEPT !.turn = @ + 1]

(* buildSession() returns with the first group.                            *)
Handed(c, r) ==
  /\ With(c, [r EXCEPT !.at = IF @ \in {"segments", "first"} THEN "tts" ELSE @])
  /\ build' = IF calls[c].at \in {"segments", "first"} THEN c ELSE build

(* Faulty variant: the choice to read without narration is forgotten.      *)
MayAlwaysNarrate == TRUE
MayNarrate       == ~ narrationOff

(* buildSegments(), narratorFor() and buildSession() up to the request for *)
(* the first group: nothing to read, a verbatim reading, or a narrated one *)
(* whose signal may be up already.                                         *)
Segments(c) ==
  LET r == calls[c] IN
  /\ r.at = "segments"
  /\ \/ At(c, "done") /\ UNCHANGED << build, gate, open >>
     \/ Handed(c, [r EXCEPT !.built = RestFrom(1)]) /\ UNCHANGED << gate, open >>
     \/ /\ MayNarrate /\ r.live
        /\ With(c, [r EXCEPT !.at = "first", !.turn = 1]) /\ UNCHANGED << build, gate, open >>
     \/ MayNarrate /\ ~ r.live /\ Handed(c, Verbatim(r, 1)) /\ Warn
  /\ UNCHANGED << captureAbort, lastContext, told, choices, playing >>

(* narrateGroup() when transform() resolves: usable segments, or a         *)
(* degraded result, which is what a request whose signal is up ends with.  *)
Narrated(c) ==
  LET r == calls[c] IN
  /\ r.turn > 0
  /\ \/ /\ Handed(c, Continued([r EXCEPT !.built = Append(@, r.turn)]))
        /\ IF r.live /\ r.forced /\ r.turn < Groups THEN Warn ELSE UNCHANGED << gate, open >>
     \/ Handed(c, Continued(Verbatim(r, r.turn))) /\ Warn
  /\ UNCHANGED << captureAbort, lastContext, told, choices, playing >>
-----------------------------------------------------------------------------
(* ttsFor() may throw.  waitForTtsReady() polls a loading provider until   *)
(* the deadline.  Faulty variant: every poll has a deadline of its own.    *)
PolledAgain(n) == (n + 1) % (ReadyPolls + 1)
Polled(n)      == n + 1

TtsFails(c) ==
  /\ calls[c].at = "tts" /\ At(c, "done")
  /\ UNCHANGED << captureAbort, lastContext, build, notices, choices, playing >>

TtsLoading(c) ==
  LET r == calls[c] IN
  /\ r.at = "tts" /\ r.live /\ ~ r.test /\ Polled(r.polls) <= ReadyPolls
  /\ With(c, [r EXCEPT !.polls = Polled(@)])
  /\ UNCHANGED << captureAbort, lastContext, build, notices, choices, playing >>

(* withDefaultVoice() has answered, or its own timer fired: the segments   *)
(* built so far go to controller.start(), which refuses when disposed.     *)
(* Faulty variant: it does not.                                            *)
Session(c) ==
  [session |-> c, chunks |-> calls[c].built, index |-> 1,
   state   |-> IF calls[c].built = << >> THEN "completed" ELSE "preparing",
   failed  |-> FALSE, asked |-> player.asked]
StartedUnguarded(c) == Session(c)
Started(c)          == IF closed THEN player ELSE Session(c)

Launch(c) ==
  /\ calls[c].at = "tts" /\ At(c, "done")
  /\ player' = Started(c)
  /\ UNCHANGED << captureAbort, lastContext, build, notices, choices, closed >>

StartStep(c) == \/ Capture(c) \/ Voice(c) \/ Segments(c) \/ Narrated(c)
                \/ TtsFails(c) \/ TtsLoading(c) \/ Launch(c)
-----------------------------------------------------------------------------
(* The player: what becomes of a chunk.  `failed`: the synthesis of the    *)
(* chunk it stands on was given up; `asked`: how many "chunk invalid"      *)
(* dialogs are open for each chunk.  handleChunkFailure() may leave the    *)
(* index beyond the chunks of the session: waitFor() then rejects.         *)
In(st) == [player EXCEPT !.state = st]

(* Faulty variant: the queue has a chunk for every index.                  *)
AnyChunk   == TRUE
ChunkThere == player.index <= Len(player.chunks)

(* playIndex(), and next() from the index the player has.                  *)
Played(p, i) == [p EXCEPT !.state = "preparing", !.index = i, !.failed = FALSE]
Advanced(p)  == IF p.index >= Len(p.chunks) THEN [p EXCEPT !.state = "completed"]
                ELSE Played(p, p.index + 1)

ChunkPlays ==
  /\ player.state = "preparing" /\ ~ player.failed /\ ChunkThere
  /\ player' = In("playing")
  /\ UNCHANGED << starting, notices, choices, closed >>

ChunkEnds ==
  /\ player.state = "playing"
  /\ player' = Advanced(player)
  /\ UNCHANGED << starting, notices, choices, closed >>

(* handleChunkError() for the first chunk: the provider is unavailable.    *)
FirstChunkFails ==
  /\ player.state = "preparing" /\ player.index = 1 /\ ~ player.failed
  /\ player' = [In("error") EXCEPT !.failed = TRUE]
  /\ gate' = gate \cup {"ttsUnavailable"}
  /\ IF "ttsUnavailable" \in gate THEN UNCHANGED << open, told >>
     ELSE /\ open' = [open EXCEPT !["ttsUnavailable"] = @ + 1]
          /\ told' = {c \in Starts : calls[c].at # "none"}
  /\ UNCHANGED << starting, choices, closed >>

(* handleChunkError() for a later chunk: skip or stop, asked once until    *)
(* the next start.                                                         *)
LaterChunkFails ==
  /\ player.state = "preparing" /\ player.index > 1 /\ ~ player.failed /\ ChunkThere
  /\ player' = IF "chunkInvalid" \in gate THEN [In("error") EXCEPT !.failed = TRUE]
               ELSE [player EXCEPT !.asked[player.index] = @ + 1, !.failed = TRUE]
  /\ gate' = gate \cup {"chunkInvalid"}
  /\ UNCHANGED << starting, open, told, choices, closed >>

(* The answer about chunk i applies to the session there is by then: its   *)
(* index becomes i, whatever that session has there, and next() goes on.   *)
Decided(i) == [player EXCEPT !.asked[i] = @ - 1]

ChunkDecided ==
  /\ \E i \in 1 .. Groups :
       /\ player.asked[i] > 0
       /\ \/ player' = [Decided(i) EXCEPT !.state = "error"]
          \/ \E f \in BOOLEAN :
               /\ f => i <= Len(player.chunks)
               /\ player' = Advanced([Decided(i) EXCEPT !.index = i, !.failed = f])
  /\ UNCHANGED << starting, notices, choices, closed >>
-----------------------------------------------------------------------------
(* The user: transport commands (commands/index.ts, the player's buttons   *)
(* and the status bar menu in extension.ts) and the answers to dialogs.    *)
Transport(p) ==
  /\ ~ closed /\ player.state # "idle" /\ player' = p
  /\ UNCHANGED << starting, notices, choices, closed >>

Rewound == [In("stopped") EXCEPT !.index = 1, !.failed = @ /\ player.index = 1]

Stop            == Transport(Rewound)
NextSegment     == Transport(Advanced(player))
PreviousSegment == \E i \in {player.index, player.index - 1} \ {0} : Transport(Played(player, i))

(* decidePlay(), and decidePlayPause() when `toggle`.                      *)
PlayDecision(st, toggle) ==
  CASE st = "paused"                   -> "resume"
    [] st = "playing" /\ toggle        -> "pause"
    [] st = "playing" /\ ~ toggle      -> "noop"
    [] st = "preparing"                -> "noop"
    [] OTHER                           -> "start"

Play(toggle) ==
  LET kind == PlayDecision(player.state, toggle) IN
  \/ kind = "resume" /\ Transport(In("playing"))
  \/ kind = "pause"  /\ Transport(In("paused"))
  \/ kind = "start"  /\ \E c \in Starts, d \in Docs : Speak(c, d)

Answered(k) == open[k] > 0 /\ open' = [open EXCEPT ![k] = @ - 1]

(* handleTtsUnavailableChoice(): Retry arms the notice again and asks for  *)
(* the current chunk; the other answers open a page.  Faulty variant: the  *)
(* notice stays disarmed.                                                  *)
Disarmed == gate
Rearmed  == gate \ {"ttsUnavailable"}

TtsRetry ==
  /\ Answered("ttsUnavailable")
  /\ gate' = Rearmed /\ told' = told \ {player.session}
  /\ player' = IF player.failed THEN Played(player, player.index) ELSE player
  /\ UNCHANGED << starting, choices, closed >>

Dismiss(k) == Answered(k) /\ UNCHANGED << starting, gate, told, choices, playing >>

(* The answers to "Narrator unavailable".                                  *)
NarratorRetry(c) ==
  /\ Answered("narratorUnavailable") /\ Fresh(c)
  /\ narrationOff' = FALSE
  /\ calls' = [b \in Starts |-> [Supersede(c, lastContext)[b] EXCEPT !.off = FALSE]]
  /\ captureAbort' = c /\ gate' = {} /\ told' = told \ {c}
  /\ UNCHANGED << lastContext, build, declined, voice, playing >>

ReadWithoutNarration ==
  /\ Answered("narratorUnavailable")
  /\ narrationOff' = TRUE
  /\ calls' = [c \in Starts |-> [calls[c] EXCEPT !.forced = @ \/ c = build]]
  /\ UNCHANGED << captureAbort, lastContext, build, gate, told, declined, voice, playing >>

NarratorCancel ==
  /\ Answered("narratorUnavailable")
  /\ player' = IF player.state = "idle" THEN player ELSE Rewound
  /\ UNCHANGED << starting, gate, told, choices, closed >>

(* dispose(): the controller first, then the signal of the last capture.   *)
Dispose ==
  /\ ~ closed /\ closed' = TRUE
  /\ player' = NoPlayer
  /\ calls' = [c \in Starts |-> [calls[c] EXCEPT !.live = @ /\ c # captureAbort]]
  /\ UNCHANGED << captureAbort, lastContext, build, notices, choices >>

PipelineNext ==
  \/ \E c \in Starts : \/ StartStep(c) \/ TestVoice(c) \/ Installed(c) \/ NotInstalled(c)
                       \/ NarratorRetry(c) \/ \E d \in Docs : Speak(c, d)
  \/ ChunkPlays \/ ChunkEnds \/ FirstChunkFails \/ LaterChunkFails \/ ChunkDecided
  \/ Stop \/ NextSegment \/ PreviousSegment \/ \E toggle \in BOOLEAN : Play(toggle)
  \/ TtsRetry \/ ReadWithoutNarration \/ NarratorCancel \/ \E k \in Kinds : Dismiss(k)
  \/ Dispose

(* Every await of a call ends on its own: files are read, probes, voice    *)
(* lists and narrators have timeouts.  The user need not answer a prompt.  *)
PipelineFairness == \A c \in Starts : WF_pipelineVars(StartStep(c))

PipelineSpec == PipelineInit /\ [][PipelineNext]_pipelineVars /\ PipelineFairness
-----------------------------------------------------------------------------
(* Every variable has its type; a player that plays, is paused or reports  *)
(* a failed chunk stands on a chunk of its session, although the answer to *)
(* an old dialog may have put its index beyond them (playIndex, waitFor).  *)
PipelineTypeOK ==
  /\ calls \in [Starts -> Call]
  /\ captureAbort \in {0} \cup Starts /\ build \in {0} \cup Starts
  /\ lastContext \in Docs /\ told \subseteq Starts
  /\ gate \subseteq Kinds \cup {"chunkInvalid"} /\ open \in [Kinds -> Nat]
  /\ narrationOff \in BOOLEAN /\ declined \in BOOLEAN /\ voice \in BOOLEAN
  /\ closed \in BOOLEAN
  /\ player.session \in {0} \cup Starts /\ player.chunks \in Seq(1 .. Groups)
  /\ player.index \in 0 .. Groups /\ player.asked \in [1 .. Groups -> Nat]
  /\ player.state \in {"idle", "preparing", "playing", "paused", "stopped", "completed", "error"}
  /\ player.state \in {"playing", "paused"} \/ player.failed =>
       player.index \in 1 .. Len(player.chunks)

(* However starts, retries and installations overlap, at most one of the   *)
(* captures under way has a live signal: the last begun, which is also the *)
(* one a Retry would read again (startInternal).                           *)
OneLiveCapture ==
  \A c \in Starts : ~ calls[c].test /\ calls[c].live =>
     captureAbort = c /\ lastContext = calls[c].doc

(* What is built and what the player has of it is the document from its    *)
(* beginning, without a hole or a repetition, whatever became of the       *)
(* narrator, of the signal and of the user's choice in the meantime        *)
(* (buildSession, narrateGroup).                                           *)
ReadInOrder ==
  /\ \A c \in Starts : \A g \in DOMAIN calls[c].built : calls[c].built[g] = g
  /\ \A g \in DOMAIN player.chunks : player.chunks[g] = g

(* A reading begun after "Read without narration" is verbatim to the end,  *)
(* unless Retry is chosen in the meantime: the narrator is never at work   *)
(* for it (narrationDisabledForSession).                                   *)
FaithfulOnceChosen == \A c \in Starts : calls[c].off => calls[c].turn = 0

(* After dispose() nothing is read, though the calls that were under way   *)
(* go on to the end (Pipeline.dispose, PlaybackController.start).          *)
QuietOnceDisposed == closed => player.state = "idle"

(* A reading that ends on its first chunk does not end without a word: the *)
(* notice has been shown since it was asked for, and since the last Retry  *)
(* (handleChunkError, NotificationGate).                                   *)
FailureIsTold ==
  [][/\ player.state = "preparing" /\ player'.state = "error" /\ player.index = 1
     /\ player.asked = player'.asked /\ ~ calls[player.session].test
     => player.session \in told']_pipelineVars

(* A call of startInternal() ends, or waits for the user to answer the     *)
(* prompt that offers a voice: no probe or poll can hold it for ever.      *)
EveryStartSettles ==
  \A c \in Starts : calls[c].at = "capture" ~> calls[c].at \in {"install", "done"}

(* A reading that was not superseded and has been played to its end has    *)
(* had every group of its document: "Later groups are appended through     *)
(* onSegmentsAppended" (SessionFactory.ts).                                *)
WholeDocumentRead ==
  player.state = "completed" /\ ~ calls[player.session].test /\ calls[player.session].live =>
     Len(player.chunks) = Groups
=============================================================================
