# A verification project for LLM Voice

LLM Voice is a VS Code extension (`src/vscode-extension`, TypeScript) that reads
documents, selections and coding-assistant answers aloud: text is captured, cut
into segments, optionally rewritten by a narrator model, synthesised chunk by
chunk by a text-to-speech provider, and played in a webview while the editor
highlights what is being read. This directory holds TLA+ models of the extension,
the TLC runs that check them, and TLAPS proofs about them.

Paths below are relative to `src/vscode-extension/src` unless they say otherwise.

## 1. The system

| Component | State it keeps | Operations | Interacts with |
|---|---|---|---|
| **AudioQueue** (`playback/AudioQueue.ts`) | chunk statuses, jobs (attempts, abort controller, waiters), backoff timers, cursor, slot counter, `suspended`, pinned keys | `reset append setCursor waitFor cancelAll retry dispose`, the asynchronous `run` | called by the player; awaits the cache and the provider; shares the chunk objects with the player |
| **PlaybackController** (`playback/PlaybackController.ts`) | state of CdC 34, session, `currentIndex`, `positionMs`, `generation`, `awaitingIndex` | `start pause resume stop next previous retryCurrentChunk appendSegments sealSegments dispose`, sink event handlers | drives one queue per session and the sink; awaits the UI's decision on failed chunks |
| **Audio surface** (`playback/WebviewAudioSink.ts`, `views/player/`, `media/player/player.js`) | attached webview; the audio element's source, chunk id and mode | `load play pause stop`, events `ended error timeupdate`, buttons | asynchronous messages in both directions |
| **Audio cache** (`playback/DiskAudioCache.ts`) | files, side-cars, pins in memory | `get put getMeta pin unpin evict clear` | shared by all queues and all windows |
| **SessionFactory and narrators** (`playback/SessionFactory.ts`, `narrator/`) | segments built so far, `forced`, abort signal | `buildSession`, narration by groups, `fallback` | awaits the narrator; feeds the pipeline |
| **Pipeline** (`pipeline/Pipeline.ts`, `commands/`, `extension.ts`) | current capture, build, choices of the user, dialogs and their gate | `start stop`, Test Voice, dialogs, provider resolution, `dispose` | owns everything above |
| **Claude inbox** (`claude/`) and its writers (`integrations/`) | a directory of JSON files; read marks; a watcher with debounce and polling | scan and clean-up, mark, toggle, delete; writers use a temporary file and a rename | other processes write the directory |
| **Claude hook** (`claude/ClaudeHookCommand.ts`, `hookInstallerIO.ts`) | another program's `settings.json` and its backup | install, uninstall | Claude Code and the user edit the file too |
| **Profiles** (`profiles/`, `views/profileEditor/`) | `profiles.json`, the editor's form | `load setDefault duplicate update delete import`, save | commands, panels and windows, unlocked |
| **Own voice and onboarding** (`onboarding/`, `core/audioValidation.ts`) | a recorder process, a sample, the profile's voice | wizard, setup, browser of voices | profiles |
| **Voice installation** (`tts/PiperSetup.ts`, `net/AssetDownloader.ts`) | staging and install directories | download, verify, extract, swap | network, file system, the local engine |
| **TTS providers** (`tts/`, `pipeline/resolveProviderConfig.ts`) | registry of instances, memoised upload and automatic choice | `synthesize listVoices checkHealth`, warm-up | HTTP, child processes |
| **Egress policy** (`net/`) | the guard built at activation, the badge | decision on a destination, guarded fetch, verification | every HTTP client |
| **Parser and segmenter** (`parser/`, `sources/`) | none | blocks, sentences, segments, ranges | Pipeline |
| **Highlight, status bar, notifications** (`highlight/`, `ui/`) | decorations, "seen" flags | listeners of the player's events | editor |

What is hard in it:

* **Suspended calls.** JavaScript runs one callback at a time, but every `await`
  lets any other callback in. A `run()` of the queue has three awaits, a
  `startInternal()` of the pipeline a dozen, and the user may take minutes to answer a
  dialog; what was read before an await may be out of date after it.
* **Cancellation without waiting.** `cancelAll()` aborts signals and returns; the
  jobs come back later, under a queue that may be working again. A superseded start
  of a reading is only aborted while it captures and narrates.
* **Retries with timers** that fire after their chunk was cancelled or re-armed.
* **Events from another process** (`ended`, `error`) that arrive after the player
  was paused, stopped, moved or given a new session.
* **Shared mutable chunks**: queue and player write the status of one object.
* **Files without locks**: cache and side-cars, the inbox and the marks, profiles,
  settings of another program, the installer.
* **Answers of others**: a resolver that answers twice differently, a model that
  answers anything, a recorder that still writes, a writer that is killed.

What makes the components correct:

* queue: at most one job per slot and one owner per chunk, a bounded number of
  attempts, no lost wake-up, a cancel that is neither a failure nor undone by a late
  return, no pin leaked and no playable audio evicted;
* player: one play under way, sound only when the state says so, a highlight that
  matches what is heard, `stop` and `pause` that hold against late events, no
  state without anybody to leave it;
* audio surface: the page plays the chunk it was last told to load, under a settled player
  only if that plays it, and says of a chunk only what its own sound did;
* cache: the byte budget is kept once the calls are quiet, except for what was pinned,
  hidden or would not go, and pinned audio is spared;
* pipeline and session: one live capture, a document read in order without a hole, a
  choice to read faithfully that lasts, failures that are told, starts that settle;
* inbox: every message is listed in the end, a read mark is not lost to a clean-up;
* hook: the hooks of others survive; profiles: a default that exists, one profile
  changed at a time;
* own voice: no refused sample becomes a reference; installer and engine: what is
  installed is verified and whole, a text is spoken by one engine with all its words;
* providers: one upload of a reference per instance; egress: a local guard reaches the
  loopback alone; parser and narration: nothing is skipped and nothing is out of turn.

## 2. Modules

| Module | Role |
|---|---|
| `AudioQueue` | the queue, one action per method, `run()` cut at its awaits |
| `QueueOps` | the queue seen from outside: a record and one operator per method |
| `SynthesisQueue` | the abstract queue: what a player may rely on, in terms of `QueueOps` |
| `AudioQueueRefinement` | the refinement mapping from `AudioQueue` to `SynthesisQueue` |
| `MCAudioQueue` | constant values for the runs of the queue |
| `PlaybackController` | the player with the queues of its sessions (as `QueueOps` records) and the audio surface |
| `Pipeline` | from a command to a reading: overlapping starts, narration, dialogs, the player in outline |
| `AudioSurface` | the page, the sink, the views and the two message channels |
| `DiskAudioCache` | the cache's files and side-cars under overlapping calls |
| `ClaudeInbox` | writers, scans, marks, watcher, tree and quick pick |
| `ClaudeHook` | the entry in another program's settings |
| `ProfileStore` | `profiles.json`: load, change, replace, migration |
| `VoiceChoice` | what may change the voice of a profile: setup, browser, wizard, editor |
| `LocalVoice` | the installation of Piper and the synthesis by a local engine |
| `Egress` | the guard, the dialled addresses, the badge |
| `TtsProviders` | the choice of a provider, the registry, the shared upload |
| `Reading` | sentences, segments, ranges, and what a model's answer covers |
| `Services` | the ten modules before this one, one at a time, on small instances |
| `AudioQueueProofs` | the queue's invariant, its theorems, and the refinement |
| `PlaybackControllerProofs` | the player's invariant and theorems |
| `PipelineProofs` | the pipeline's invariant and theorems |
| `Sequencing` | positions kept of a sequence, and sums, in a form proofs can use |
| `SequenceFacts` | facts about these, about sequences and about numbers, with an induction |
| `OnDiskProofs` | `DiskAudioCache` and `LocalVoice` |
| `SettingsProofs` | `Egress`, `TtsProviders`, `ProfileStore` and `VoiceChoice` |
| `ReadingProofs` | `Reading` |
| `ServicesProofs` | `ClaudeInbox`, `ClaudeHook` and `AudioSurface`, and `Services` as a whole |

How they compose: the player is checked against `QueueOps`, whose transitions
`SynthesisQueue` allows (`UsesQueuesAsAllowed`) and `AudioQueue` is proved to implement
(`KeepsPromiseHolds`). `Pipeline` has the player in outline (its states, the chunk it
stands on, what a failure asks), and `AudioSurface` has it as the source of orders; the
detail is in `PlaybackController`.
The components of `Services` share no state: what one tells another is an action of
the environment in each, any order of which is allowed. `Services` is a way of
running them, not a claim about their interaction; `ServicesProofs` shows that it says of
each what its own specification says.

### AudioQueue and the code

A state has one entry per chunk index. `status` is the chunk's status (`absent` at
and beyond `items.length`), `attempts` and `waiting` are the job's `attempts` and the
non-emptiness of its `waiters`, `run[i]` is the await `run(i)` is suspended at,
`aborted` the runs whose signal is aborted, `timers` the keys of `retryTimers`.
`chunkKeys`, `pins`, `cursor`, `active`, `suspended` and `disposed` are the fields of
the same names (`pins` is the cache's set, as far as this queue changes it), `stored`
the keys whose audio the cache holds, `evicting` those whose files are being removed.
`overtaken`, `replayed` and `late` are history variables: keys pinned only after their
removal had begun, or cleared; chunks armed again after their audio had failed; chunks
hit by a late error. `strays` counts the runs in flight of the late chunks.

Every method is one action and includes the `pump()` it ends with. `Pump` computes
the result of the loop at once: the first pending chunks of the window, as many as
there are free slots, each with the synchronous head of its `run()`. The `finally`
block and its pump are part of every action that returns from `run()` (`Finish`).
`put` and the `getMeta` that follows a hit are one await, because nothing is checked
between them. A provider failure, a timeout and a failing cache are one action,
`RunFails`; the delay of the backoff matters only in being positive or not, and both
are possible when the schedule says so. `reset()` is part of `Init`: `start()` calls
it once, on a queue it has just made.

The player appears as `PlayerMarks` and `LateError`: it writes `playing`, `played` and
`error` on the queue's own chunk objects. `PlayerMarks` is every such write on a chunk whose
audio is or may still be loaded, that is, one settled and not failed in synthesis
(`Audible`), in any order. `LateError` is the write of `handleSinkError()` on a chunk that a
Retry has armed again meanwhile (`playback/PlaybackController.ts:428`, which looks at no
status). From then on one job no longer owns the chunk: a second Retry gives it to another
one. The model goes on with such a chunk by counting its runs (`strays`), each of which may
return at any time and write what it likes on the chunk (`StrayReturns`), but holds and
frees a slot like any other; the properties about owners, waits and audio except the chunk.

The cache appears as `EvictBegins`, which looks at the pin, `RemovalEnds`, which is the end
of the awaited removal, successful or not, and `Clears`, the removal `clear()` makes
without looking at any pin (`DiskAudioCache` takes all three apart).

### PlaybackController and the code

`state`, `session`, `sealed`, `currentIndex`, `awaiting` and `disposed` are the fields.
`positionMs` is only compared with a threshold, so `position` says on which side it
is. `calls` holds the suspended asynchronous calls: `wait` and `load` are the two awaits
of `playIndex()`, `decide` the await of the error decision. The code stores a
generation in each call and compares; since generations only grow, a flag `fresh` that
every increment clears (`Outdated`) is the same. Two decisions awaited for the same
chunk are one element of the set: they would do the same, one after the other.

`queue[s]` is the queue of session `s` as a `QueueOps` record, changed by the operators
the queue is proved to implement; `QueueSettles` is the queue's own step. `view` is the
audio element and the chunk id of `player.js`. The host's commands take effect at
once here; `AudioSurface` has the channel to the page. Sending `load` with autoplay
starts the audio before `load()` resolves, as in the code.

### The abstract queue

`SynthesisQueue` says what the player is checked against: a chunk may become ready at
any time, even after a cancel; it fails only while the queue is neither suspended nor
disposed; a wait ends with a settled chunk or a cancel; a disposed queue takes no new
chunk; the player writes on settled chunks alone. A chunk on which it writes a late error
all the same is `lost`: it counts as in error for good, and nothing more is promised of it
(`Loses`). `Allowed` of `QueueOps` is its step, as a
relation between two views, so that the player's steps can be compared with several
of them. `KeepsPromise` states that `AudioQueue` implements it (a chunk under synthesis or
under backoff is pending from outside).

### Pipeline and the code

`calls[c]` is one call of `startInternal()` or of `speakTestText()`; `at` is the await it
is suspended at: the capture, `ensureVoiceReady()` with the prompt for an installation,
`buildSession()` waiting for the first group, `waitForTtsReady()` with its polls. `turn`
is the group the narrator works on, which goes on in the background once the session
was handed over; `live` is the signal, `forced` the fallback a user asks for. `Launch`
starts the player; the code starts a superseded reading too, and so does the model. The
session is started sealed with what was built by then. The dialogs are counted in `open`,
since they can be answered long after; `gate` is `NotificationGate`. `told` and `off` are
history variables. `Installed` re-enters the whole method, as the retry in the code does.
A chunk of the player stands for a group of segments; the queue and the sink are
left out here. `index` is `currentIndex` (from one). `asked` counts the decisions that
are outstanding, by the index of the chunk they are about; `ChunkDecided` writes that index
on the player, whatever session it has by then, and goes on with `next()`, so that a shorter
session may end up on an index it does not have (`ChunkThere`). Dialogs can be answered
after `dispose()` too.

### The components around the reading

* `DiskAudioCache`: a call of `get` or `put` is suspended between the audio file, the
  side-car, the size of the directory, its listing and each removal; `evict()` walks
  through a listing that grows old. The disk may fail: a write throws, after the rename
  possibly and then without any eviction (`WriteFails`), a removal leaves one file or both
  and is counted as freed (`Removed`), a listing misses files (`Sized`, `Listed`). The
  history variable `spared` has the files that the last look at the cache left where they
  are, and those no look was taken for. Time stamps are an order.
* `ClaudeInbox`: a scan reads one directory and then file after file, then removes marks
  one after the other; commands mark, toggle and delete by what is shown. A writer
  may be killed at any step. File events need not be delivered: `Poll` finds what they
  would have told.
* `ClaudeHook`: a command reads the settings, writes the backup, renames; other programs
  edit in between. Merging and removing keep the order of groups and hooks as
  `hookEntry.ts` does.
* `ProfileStore`: an operation loads, may migrate or fill in the defaults, and writes
  the collection it computed; nothing locks. The file may also be edited by hand.
* `VoiceChoice`: the wizard waits for a recorder, checks the sample, converts or asks
  for a waiver, and copies the file as it is by then. The form saves the whole profile it
  loaded when it was opened, with the parameters there are inputs for (those the provider
  described, with its defaults for a profile that has none) and with constants for headings,
  links and front matter (`CollectFormProfile`); `since` tells whether it has saved the
  profile or others have changed it.
* `LocalVoice`: three downloads with redirections and digests, the staging, and the swap
  of two directories in four steps, of several installations. A text is cut into
  pieces; every piece is one process of the engine detected at the start.
* `Egress`: a request is checked, resolved, dialled, and checked again on a redirection;
  the settings may change meanwhile, the guard does not. The badge is computed from the
  settings.
* `TtsProviders`: a call asks for the automatic choice (probing two servers), gets an
  instance, and awaits the upload that instance shares between its callers.
* `Reading`: it begins at the blocks the parser returns, each a sequence of tokens. In
  sentence mode paragraphs and quotations are cut by sentence (`Sentencewise`), other blocks
  are read in one piece; `Sentences`, the packing of segments and the
  location of a sentence in the source are those of the code, its errors included;
  `Answers` enumerates what a model may return, and `Narrated` is what `parseNarration`
  makes of it. `filter()`, sorting by position and sums are `Omitting`, `InOrder` and
  `Total` of `Sequencing`.
* `AudioSurface`: orders travel to the page and events back, in order; a view may be
  closed and opened at any time, and messages to no page are lost. The player turns to a
  chunk (`TurnsTo`), loads it later (`Loads`) and plays it later still (`Sounds`), and may
  be overtaken by another play in between. The page notes the chunk it is told to load
  before it looks at the address, which it may refuse; the browser may refuse to play. An
  `ended` of the element may wait behind an order that is handled first.

## 3. Runs

| Run | Checks | Shows |
|---|---|---|
| `AudioQueue` | `TypeOK JobBudget OneOwner RetryBudget NoLostWakeup PinsInWindow NoSecondSynthesis CancelledStaysQuiet WaitAnswered` | the queue's safety with the production setting of one job, three chunks, two of them with the same sentence |
| `AudioQueueLive` | `TrackedAudioKept KeepsPromise WaitersAreServedUnlessStranded` | two jobs, an immediate retry or a timed one, awaited evictions, a `clear()`, a late error: refinement and liveness |
| `AudioQueueWaiters` | `WaitersAreServed` (violated) | a stranded chunk |
| `AudioQueuePins` | `PlayableAudioKept` (violated) | evicted audio that is still to be played |
| `PlaybackController` | `TypeOK OnePlayInFlight HighlightMatchesAudio SilentWhenQuiet NoOrphanedPlay StopIsFinalUnlessDeciding` | two sessions, any three commands |
| `PlaybackLive` | `NeverParkedForGood NeverHangsByItself` | one session (section 5), two events in flight, fairness of the player alone |
| `PlaybackStop` | `StopIsFinal` (violated) | a dialog answered after a stop |
| `PlaybackPause` | `PauseKeepsIndex` (violated) | an audio error during a pause |
| `PlaybackBuffering` | `BufferingIsSilent` (violated) | sound under `buffering` |
| `Pipeline` | `PipelineTypeOK OneLiveCapture ReadInOrder FaithfulOnceChosen QuietOnceDisposed FailureIsTold EveryStartSettles` | two starts at once, narrator, dialogs, an installation, a dispose |
| `PipelineTail` | `WholeDocumentRead` (violated) | a narrated document ends after its first group |
| `Services` | `ServicesTypeOK CacheBudgetWhenQuiet LocalVoiceWhole UploadedOnce LocalStaysLocal NothingSkipped SurfaceObeys PinnedBeforeSweepKept ReadMarkKept EveryMessageListed ProfilesKept HooksOfOthersKept VoiceKept` | the ten components around the reading, one in each behaviour |

Bounds of the queue and the player. `MaxChunks = 3` with a window of two is the smallest
queue with a chunk before, in and after the window, and with two chunks that share a key
while a third is between them; two chunks suffice for the budget of two jobs. `LateChunks`,
`EvictedKeys` and `ClearedKeys` say which chunk a late error may hit and which keys eviction
and `clear()` may come to: one each is enough for a chunk with two jobs next to one with its
own, for a pin on either side of its removal, and for a cache that loses what it pinned,
and the theorems have them all. `AudioQueue` has about 1.5 million distinct states,
`AudioQueueLive` 159,000.
`MaxSessions = 2` gives a call, an event or a dialog of an old session a new session to
disturb. `MaxCommands = 3` allows a start, one command that leaves something suspended
and one that overtakes it; commands are the only unbounded activity of the player besides
the events, which `MaxEvents` bounds by those in flight at once. Since commands run out,
the runs of the player do not check deadlock. `MinChunks = 1`: `Pipeline` never starts an
empty session; with 0, `NeverParkedForGood` fails (section 5).

Bounds of the pipeline. `MaxStarts = 2` counts the calls of a behaviour, so that the
second can supersede, retry or test while the first is at any await; `Groups = 2` is the
smallest document with a group handed over and one narrated in the background;
`ReadyPolls = 1` tells a first poll from the last. `Docs = {d1}`: with two documents
the run takes far longer, and what it would add, the document a Retry reads, is covered
by the proof of `OneLiveCapture` for any set of documents. About 848,000 distinct states.
Starts run out, hence no check of deadlock.

Bounds of the services: two actors for whatever may overlap (calls of the cache, scans,
commands on the hook, operations on the profiles, installations, readers), one for a
wizard, a speaker and a request, where the other party is the environment, the form or
the settings. `MaxBytes = 1` with two files makes every second `put` evict. One message is
enough for its mark to be lost between two scans. `MaxRedirects = 1`, the
edits of `ServiceEdits` (our hook alone, with another in one group, next to an empty
group, after another group), the speech `<< 3, 1 >>` with `MaxWords = 2` (a
sentence that is cut, and one that joins the rest), and the texts of `ServiceDocuments`
(every text of up to three tokens in one paragraph, two blocks, quotations, and a
paragraph and a quotation whose first sentence, with markup in it, reads like its second)
are the boundary cases of the code. `MaxPosted = 2` is an order behind another,
`MaxTold = 1` an event that meets an order on its way; `MaxInstances = 2` lets two readers
create an instance each for one key. About 1.29 million distinct states.
Components that only react do stop, hence no check of deadlock.

Fairness. In `AudioQueue`: the promises a run awaits settle, because the provider call is
bounded by a timeout, and timers fire; no fairness of any command. In
`PlaybackController`: a play that is still current resumes once its promise is settled, and
an event that has arrived is handled, which is what the JavaScript runtime gives. Nothing is
assumed of others: a synthesis need not settle (a stranded chunk of `AudioQueueWaiters`
never does), audio need not end or fail (without a page, with a refused address or a
refused `audio.play()` no event ever comes), nobody has to answer a dialog or press a
button. `NeverHangsByItself` therefore says that the player, left alone, comes to rest or
waits for one of two things it has asked for: the synthesis of the chunk it stands on, or
the surface, which was told to play this chunk. In
`Pipeline`: every await of a call ends, because captures read files and probes, voice
lists and narrators have timeouts (`PipelineFairness`); the user need not answer the
prompt for an installation, and `EveryStartSettles` says so. In `ClaudeInbox`
(`InboxFairness`): the poll and the debounce timer fire and scans go on. The timer's
fairness is strong only because the model bounds the scans under way at once, so that
none may be free at some moment; the code has no such bound.

## 4. Proofs

Every theorem below holds for all values of the constants the named assumptions allow.
Each rests on an inductive invariant with the same three facts: it holds initially,
every step keeps it (one lemma per group of actions), and it implies the property.

`AudioQueueProofs`, for every number of chunks, any keys, any concurrency budget, window,
retry budget and schedule, and any chunks a late error may hit and keys that may be removed,
as allowed by `SizeAssumption`, `BoundAssumption`, `KeyAssumption`, `OptionAssumption`:

* `InductiveInvariant`: `Spec => []IInv`. `IInv` adds to the types: present chunks form a
  prefix (`Prefix`, without which an append could overwrite a chunk); the slot counter is
  the number of runs, strays included (`Slots`); chunks with a run or a timer are
  `generating`, not both, waiters only on unsettled chunks, attempts within the budget, late
  chunks excepted (`Owned`); there are strays only of late chunks, and only chunks that
  were replayed become late (`Strayed`); tracked chunks are in the window and pins
  belong to them (`Pinned`). The properties the run checks are
  not inductive one by one: `JobBudget` needs that a started chunk has no run, hence
  `OneOwner`, which needs `RetryBudget` for the timers and `Prefix` for appends.
  `PumpKeepsIInv` treats the pump once.
* `TypeCorrect`, `JobBudgetHolds`, `OneOwnerHolds`, `RetryBudgetHolds`,
  `NoLostWakeupHolds`, `PinsInWindowHolds` follow from `IInv`; `CancelledStaysQuietHolds`,
  `CancelIsNotFailureHolds`, `WaitAnsweredHolds` are action properties, by cases on the steps.
* `TrackedAudioKeptHolds` holds under `OwnKeys` (no two chunks share a key), the condition
  `AudioQueuePins` shows to be needed. Its invariant `Kept` relates the pins of tracked
  chunks to the removals under way: a key that is being removed and pinned is `overtaken`. `NoSecondSynthesisHolds` holds under `OwnKeys` or with
  one job at a time, which is what production has (`playback/AudioQueue.ts:126`) and what the
  run has; with two jobs two chunks of one sentence may both miss the cache.
* `KeepsPromiseHolds`: `Spec => KeepsPromise`, the refinement. A step of the queue maps to the
  step of `SynthesisQueue` with the same effect on the `QueueOps` record, or to a stutter
  when only jobs, timers, the window or the cache change; `LateError` maps to `Loses`, and
  what strays do is not seen from outside. The pump is one of these
  stutters (`QuietPump`), because a chunk it starts was pending from outside and stays
  so. A failing run needs one fact beyond `IInv`: runs that survive a cancel are
  aborted (`QuietRuns`), so that a failure is never recorded under suspension.

`PlaybackControllerProofs`, for every number of sessions, chunks, commands and events in
flight allowed by `SizeAssumption` and `BoundAssumption`:

* `TypesHold`: `Spec => []TypeOK`, from the types alone.
* `InvariantHolds`: `Spec => []IInv`. `IInv` adds to the types and `OnePlayInFlight`: every
  chunk that the surface, an event or a play speaks of is in its queue, whose chunks
  are a prefix (`ChunksExist`, without which an append could put the chunk of a waiting
  play back to `pending`); a waiting play has an unanswered wait or a settled chunk, and
  a loading play has its chunk loaded (`PlaysBacked`); the surface is unloaded without
  a session and has the current chunk in `playing` *and* `paused` (`SurfaceFollows`: without
  `paused`, `resume()` would not be covered); the player is parked only in an unsealed
  session, in `preparing` or `error` (`ParkIsOpen`, without which a late `sealSegments()` or
  `appendSegments()` could move a stopped player).
* `OnePlayHolds`, `NoOrphanHolds`, `SilenceHolds`, `HighlightHolds` follow from `IInv`, and
  `StopHolds` is the action property `StopIsFinalUnlessDeciding`.
* `NeverParkedHolds`: `NeverParkedForGood` when `MaxSessions = 1` and `MinChunks # 0`. It
  needs that the chunk the player stands on exists (`ParkInv`), which a decision of an
  older session breaks; section 5 shows that both conditions are needed.
* `UsesQueuesAsAllowed`: the other side of the refinement. What a handler of the player does
  to a queue is a sequence of at most three things that `SynthesisQueue` allows (`Uses`), so
  that the player adds to no disposed queue and writes on no chunk that is still to be
  synthesised. It needs that what is loaded, playing or paused has been
  settled and not armed again since (`QueuesFit`): a Retry overtakes the load of its chunk,
  and leaves `playing`. The one step that `Allowed` does not have is `LateError`, which
  is `LateError` of `AudioQueue` and `Loses` of `SynthesisQueue`; the player's own model goes
  on with the chunk as if in error, its jobs behaving as promised (section 5).

`PipelineProofs`, for any documents, groups, overlapping starts and polls
(`PipelineAssumption`): what is built is the document in order and what is to come
follows it (`CallFits`), the player's session is a call with that prefix
(`PlayerFits`; its index is within `0 .. Groups`, and within its session wherever
it plays, pauses or fails), a notice is disarmed only when every reading under way was told
(`NoticeFits`), a call begun under a choice has the choice still standing (`ChoiceFits`).
From it `PipelineTypeOKHolds`, `OneLiveCaptureHolds`, `ReadInOrderHolds`,
`FaithfulOnceChosenHolds`, `QuietOnceDisposedHolds`, and the action property
`FailureIsToldHolds`.

`SettingsProofs`, for any hosts, profiles, callers and runs of the wizard:

* `StaysLocal`, because a request about to be dialled has an address the guard allows
  (`DialAllowed`), whatever the settings became.
* `OneUpload`, from uploads that are counted (`Counted`), a registry that finds an
  instance of the right kind (`RegistryFits`) and readers that await only what was begun
  (`ReaderFits`). `Extends` says how instances may change, and carries `ReaderFits` through
  every step of the others.
* `KeepsProfiles`, from collections whose default exists (`Good`) and from what a suspended
  operation holds (`CallFits`: a good collection, and, if nobody replaced the file, one that
  differs from it in one profile at most); `Careful` is the step form of the property.
* `KeepsVoice`, from samples that were checked (`CheckedFits`), from what a form knows of the
  profile (`FormFits`: before its first save the profile is the one it loaded; after it, and
  until others change the profile, the two differ only in what `Rest` names: the
  voice, the parameters and the Markdown it writes), and from sound references wherever
  they are held (`Sound`).

`OnDiskProofs`, for any keys, calls, budget, installations, speakers and texts:

* `KeepsPinned`, from `SweepsFit` (what is being removed was not pinned when it was chosen,
  nor ever since).
* `WithinBudget`: the cache is within its budget whenever it is quiet. The property speaks of
  a moment without calls and is not inductive. `Covered` is: either the files `Considered` are
  few enough, which are those neither spared nor of a `put` between its rename and its look
  (`Unstamped`; if its side-car fails, it spares its file), or a call is about to look at the
  size of the cache, or one is in a sweep that still has all of them before it (`Sees`).
  The sum of that sweep is at least the number of files it has left, so that it cannot
  stop before it comes to them, though others add, touch, pin and remove files under it. A
  removal that fails makes the sum too small by one and spares one file, so the relation
  stays. The order in which a sweep removes files plays no part in this.
* `InstallsWhole`, from `StagedFits` (what is staged has the digest of the manifest), and
  `SpeaksWhole`, all of `LocalVoiceWhole`: the pieces of a text have its words, none
  too many for an engine, and what is said so far was said by the engine detected first.
  The pieces are what a recursive function computes (`Pieces`): no word is lost where a
  sentence is cut, nor where it joins the rest of another.

`ReadingProofs`, for any documents of any blocks, any policies, selections, group size and
answers of a model: `ReadsEverything`, `Spec => []NothingSkipped`.

* `SegmentsInv` has four parts. The text stands still (`TextKept`); the segments are in the
  order of the document and no longer than the policy allows (`SegmentsFit`); every sentence
  of a block cut so far is in exactly one segment, whose range holds the place where the
  sentence is found (`CutWhole`), so that a selection which touches it keeps the segment
  (`SelectedWhole`). The property alone is not inductive: it says nothing of ranges before
  the selection is taken.
* The lemmas say that the cuts of a text give sentences that follow each other without a gap,
  that the groups of sentences are a partition of them, that the union of ranges holds each, and
  that removing markup from a text keeps the order of its words. They rest on the listing
  of a set of positions (`NthFacts`, `PieceOf` of `SequenceFacts`).
* `NarratedSoFar`: what is heard is every segment of the groups so far, group by group;
  `parseNarration` keeps this for every answer, because what the answer leaves out is
  appended. What is heard twice is what the answer names twice (`OnceBut`).

`ServicesProofs`:

* `KeepsReadMarks` and `NeverRejected` (that no scan meets a message of our writers in part; it
  is proved and not run), from `ScanFits`: what was there when a scan began is still to be
  read or found, and what is to be unmarked was not found.
* `KeepsHooksOfOthers`, from `CommandFits`: what a command has read is what is there, and what
  it is about to write has the backup made of it, unless somebody wrote the file in between.
  That merging and removing keep the hooks of others, in their order, is a fact about
  sequences of sequences: flattening commutes with leaving out (`OmittingConcat`,
  `FlattenFacts`), and ours alone is added or left out.
* `PageObeys`. The page need not agree with the player while orders are on their way;
  `SourceAhead` says which chunk the last of them will make it have, `StateAhead` whether it
  may still sound after them, `HostFits` what the player's state tells of the play it is
  on, and `PageFits` that the page names the chunk whose sound it has unless it refused
  the address.
* `ServicesTypes` (`Spec => []ServicesTypeOK`) and `ServicesKeepWord`: what is proved of a
  component holds in the behaviours of `Services` about it. `part` never changes, and a
  behaviour whose `part` is the component is one of its own specification: its initial
  states are among the component's, and a step is a step of it or leaves its variables alone.

`SequenceFacts` is where induction over data comes from. The induction theorems of the
library take an operator as a parameter, which the provers cannot instantiate; but that
inclusion is well-founded on finite sets is stated there about a relation, a value. From it
follow, for sets of numbers, a least element (`LeastElement`), induction (`Induction`) and
that a recursive function on an interval exists (`RecursionExists`). Where the modules
filter, sort or add they do so by `Sequencing`, because `SelectSeq`, `SortSeq` and folds by
an operator are opaque to the provers; the definitions mean the same.

### Assumptions

Each is an `ASSUME` of the component's module. Bounds are natural numbers. Beyond that:
a document is a sequence of blocks of the kinds of `parser/types.ts`, and a policy asks for at
least one sentence per segment (`ReadingAssumption`; `core/profile.schema.ts:21`); the texts to
speak have sentences of at least one word and an engine takes at least one
(`LocalVoiceAssumption`; `splitTextForSynthesis` makes no piece of an empty text,
`tts/SystemTtsProvider.ts:292`); what others leave in the settings of Claude Code are groups of
hooks (`HookAssumption`; a file that is not JSON or holds no object is a case of its own);
keys are finitely many and there are calls (`CacheAssumption`).

### Only model-checked

All liveness (`WaitersAreServedUnlessStranded`, `NeverHangsByItself`, `EveryStartSettles`,
`EveryMessageListed`), which the prover does not reach: it has no rule for `ENABLED`, hence none
for fairness. Every other property of a passing run is a theorem, three of them under a
condition: `TrackedAudioKeptHolds` (no two chunks share a key), `NoSecondSynthesisHolds` (that,
or one job) and `NeverParkedHolds` (the two that section 5 shows to be needed). The
theorems of `AudioQueue` assume of the player what `PlayerMarks` and `LateError` say. That
it writes only on settled chunks, or an error on a chunk a Retry overtook, is proved of
`PlaybackController` (`UsesQueuesAsAllowed`); that the settled ones did not fail in
synthesis, and that a late error meets only a chunk whose audio failed before, is not,
because its view of the queue has no attempts.

### What the proofs changed

The condition under which `SelectionIsRead` excuses a sentence from a selection was that its
words occur earlier in its block. The proof did not go through: a sentence with markup in
it is not found where it stands, and `locateRange()` then takes a *later* place that reads
like it, if there is one. The condition is now `Elsewhere` (the words first stand
at another place), nothing is excused where blocks are read in one piece or as plain text,
and a document of the run is such a case.

## 5. Disagreements between code and documentation

The six runs that expect a violation each show one; `PROJECT.json` quotes the lines.

1. `cancelAll()` strands a chunk under backoff: `generating` for ever, so that a later
   `waitFor()` never resolves and the player shows `preparing` until the session ends.
2. Keys are pinned when a job starts and never again: a ready chunk that re-enters
   the window, or whose sentence another chunk shared, can lose its audio.
3. The error decision is awaited without the generation check that the header promises
   around every await.
4. An audio error moves a paused player.
5. `buffering` may be audible after `next()`.
6. A narrated document is completed after its first group: the session is started
   sealed, and nothing hands on the groups narrated later.

What else the code does and no run is devoted to; where a property would be violated
by it, the property says so in a condition.

* *Player.* A session started empty and unsealed on which `previous()` is called never
  starts (`NeverParkedForGood` with `MinChunks = 0`). The decision of case 3, answered
  "skip" in a later and shorter session, leaves the player on an index that session
  does not have, from where `previous()` leads to `preparing` for good
  (`NeverParkedForGood` with `MaxSessions = 2` and `MaxCommands = 4`). `ended` and `error`
  cannot tell two loads of the same chunk apart (`playback/PlaybackController.ts:414`, `:424`):
  an error on its way while the chunk is loaded again is taken for one of the new load, and
  the error of that load, after a Retry, is written on a chunk under synthesis, which a
  second Retry then hands to a second job (`playback/AudioQueue.ts:290`). `LateError` of
  `AudioQueue` has this: the chunk has two owners, and a wait on it may be lost (`late` in its
  properties). A player with no page, or whose page refuses the address or the play,
  shows `playing` and hears of nothing (`playback/WebviewAudioSink.ts:69`,
  `media/player/player.js:67-90`, `:97`, `:110`); with a stranded chunk it shows
  `preparing`: hence *by itself* in `NeverHangsByItself`.
* *Pipeline.* `stop()` does not abort the capture under way, though the comment at
  `pipeline/Pipeline.ts:1857` says it does. The index that a late decision writes
  (`playback/PlaybackController.ts:526`) need not exist in the session there is by then
  (`ChunkThere`). A superseded narrated reading reports an unavailable
  narrator. "Read without narration" acts on the build there is by then, which may
  be of another reading. A superseded start still starts its session.
* *Reading.* A sentence is located where its words first occur in the source of its block:
  an earlier sentence that reads alike or, for a sentence with markup in it, a later one
  (`parser/Segmenter.ts:40`; the condition `Elsewhere` in `SelectionIsRead`). The range of a section includes the
  line of the next heading (`sources/MarkdownDocumentSource.ts:121`). The parser drops
  footnote and link definitions before any of this (`parser/MarkdownParser.ts:270`), so
  that they are never read. What an answer of a model names twice is heard twice
  (`narrator/parseNarration.ts:133`).
* *Audio surface.* Two views may be open at once and share one sink
  (`extension.ts:122`); the rejection of `audio.play()` is ignored. `handleLoad()` notes the
  chunk before it looks at the address: if it refuses that, the old sound goes on under the
  new chunk's id, and its end is told as that chunk's (`media/player/player.js:67-90`; `refused` in
  `SurfaceObeys`). While the player waits for the next chunk the one before goes on.
* *Cache.* A pin that arrives while its file is being removed comes too late (hence
  "before the sweep" in the property), and `clear()` removes pinned audio
  (`playback/DiskAudioCache.ts:194-198`; `overtaken` in `AudioQueue`). A removal that fails is
  counted as freed (`:188-189`), a `put` whose side-car fails has renamed its audio and
  evicts nothing (`:122-133`), a listing that fails is not heard of (`:133`), and `unpin()`
  evicts nothing: each leaves the cache over its budget until the next look
  (`spared` in `CacheBudgetWhenQuiet`). The sequence that orders time stamps wraps
  at 1000, a file without a side-car looks like the oldest, `clear()` next to a `put` may
  leave a side-car alone.
* *Inbox.* The scan that ends last is shown, however old; the clean-up of a scan takes the
  mark of a message that arrived after the scan began.
* *Profiles and hook.* Of two overlapping operations the last to write wins; an edit made
  between a command's read and its rename is lost, and overlapping commands overwrite each
  other's backup. The comment at `media/profileEditor/profileEditor.js:37` says that
  fields the form does not expose are carried over unchanged; `collectFormProfile()`
  overwrites headings, links and front matter with constants (`:171-178`), drops the
  parameters when the provider cannot be asked, and gives a profile without any the
  defaults (`:165`): `FormKeepsTheRest` says what stays. A sample copied while its recorder
  still writes is not the one that was checked (`live` in `ReferenceSound`).
* *Voice installation.* A rename that fails in the swap leaves the previous voice removed,
  against the comment at `tts/PiperSetup.ts:272`; so do two installations whose swaps
  overlap (`rough` in `InstallWhole`).
* *Providers and egress.* A rejected upload is remembered for ever
  (`tts/ChatterboxProvider.ts:304`); two calls may create two instances of one key. The
  guard is built once while the badge follows the settings.

## 6. Plan

1. *Queue and player*: modelled, checked, proved; the refinement proved.
2. *Session and pipeline*: modelled, checked, proved up to liveness.
3. *Cache, inbox, hook, profiles, own voice, installation, providers, egress, parsing, audio
   surface*: modelled, checked, proved up to liveness.
4. *The services together*: composed and proved.

What would come next: the player of `Pipeline` and of `AudioSurface` as refinements of
`PlaybackController` (a group mapped to its chunks, the orders in flight to the commands
already given); an abstract cache between `AudioQueue` and `DiskAudioCache`, with the
conditions under which its `get` after `put` holds; two views sharing one sink; two windows
sharing a cache directory and the profiles.

## 7. What is not modelled

* Highlight, status bar, code lenses, performance statistics and the logger: they follow
  events and nothing reads them back.
* The wording of what is read (`SpokenTextNormalizer`, tables), the parser of Markdown (a
  library), schemas, `safePath.ts`, `redact.ts`: pure functions on strings.
* HTTP bodies, prompts, command lines, API keys, lists of voices.
* `InMemoryAudioCache`, which only tests use; `archive()` of the inbox, which nothing calls;
  the walkthrough and the printed command lines of onboarding.
* Seek, rate and volume, which set a value and no more.
* Build scripts, the optional server under `src/deploy` and the agent kit under
  `src/_grimoire`: not part of the running extension.

`PROJECT.json` lists every component with what is left out of it.

## 8. Running

    tlc -workers 2 -config AudioQueue.cfg MCAudioQueue.tla      (and the other AudioQueue*.cfg)
    tlc -workers 2 -config PlaybackController.cfg PlaybackController.tla    (and Playback*.cfg)
    tlc -workers 2 -config Pipeline.cfg Pipeline.tla            (and PipelineTail.cfg)
    tlc -workers 2 -config Services.cfg Services.tla
    for m in SequenceFacts.tla *Proofs.tla; do tlapm $m; done
