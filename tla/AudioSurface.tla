---------------------------- MODULE AudioSurface ----------------------------
(***************************************************************************)
(* The mini-player: the page with the <audio> element (media/player/       *)
(* player.js), the sink of the extension host that posts to it             *)
(* (playback/WebviewAudioSink.ts), the views it lives in                   *)
(* (views/player/PlayerViewProvider.ts), and the host as far as it speaks  *)
(* to them: PlaybackController.tla has its detail.                         *)
(*                                                                         *)
(* Messages travel in order in both directions, and are lost when there is *)
(* no page.  The views are taken to be open one at a time, as the comment  *)
(* in extension.ts does.  The volume, the rate, the position and the state *)
(* the page displays are left out.                                         *)
(***************************************************************************)
EXTENDS Integers, Sequences

CONSTANTS
  Views,         \* the views the page can live in
  Chunks,        \* chunk identifiers
  MaxPosted,     \* bound: messages under way to the page
  MaxTold        \* bound: messages under way to the host

ASSUME SurfaceAssumption == MaxPosted \in Nat \ {0} /\ MaxTold \in Nat \ {0}

VARIABLES
  view,          \* the open view
  webview,       \* WebviewAudioSink.webview
  page,          \* the script and its <audio> element
  toPage,        \* messages to the page
  toHost,        \* messages to the host
  host           \* the player

surfaceVars == << view, webview, page, toPage, toHost, host >>

None == "none"

(* `chunk` is currentChunkId, `src` the chunk whose sound the element has, *)
(* `due` an event of the element that waits for its turn; the address of   *)
(* the last chunk may have been refused.                                   *)
Page == [chunk : Chunks \cup {None}, src : Chunks \cup {None}, refused : BOOLEAN,
         audio : {"empty", "playing", "paused"}, due : {None, "ended", "error"}]
NoPage == [chunk |-> None, src |-> None, refused |-> FALSE, audio |-> "empty", due |-> None]

Orders == [type : {"load"}, chunk : Chunks] \cup [type : {"play", "pause", "stop"}, chunk : {None}]
Told   == [type : {"ready", "play", "pause", "stop"}, chunk : {None}, of : {None},
           refused : {FALSE}]
          \cup [type : {"ended", "error", "timeupdate"}, chunk : Chunks,
                of : Chunks \cup {None}, refused : BOOLEAN]

(* The player stands on `chunk`, the last chunk it had loaded is `loaded`; *)
(* "idle" is any state in which it has told the page to stop.  It is       *)
(* settled, or on the way to play a chunk: waiting for its audio, loading  *)
(* it, or waiting for another one since, the load before still unplayed.   *)
Host == [state : {"idle", "preparing", "buffering", "playing", "paused"},
         chunk : Chunks \cup {None}, loaded : Chunks \cup {None},
         at : {"settled", "waiting", "loading", "overtaken"}]
AtRest == [state |-> "idle", chunk |-> None, loaded |-> None, at |-> "settled"]

Command(type, chunk) == [type |-> type, chunk |-> chunk]

(* post(): nothing is sent when there is no page.                          *)
Post(messages) ==
  /\ Len(toPage \o messages) <= MaxPosted
  /\ toPage' = IF webview = None THEN toPage ELSE toPage \o messages

(* What the page tells: a button, or something of its chunk; `of` is the   *)
(* chunk whose sound it is of.                                             *)
Tell(message)   == Len(toHost) < MaxTold /\ toHost' = Append(toHost, message)
TellOf(type)    == Tell([type |-> type, chunk |-> page.chunk, of |-> page.src, refused |-> page.refused])
TellOnly(type)  == Tell([type |-> type, chunk |-> None, of |-> None, refused |-> FALSE])

SurfaceInit ==
  /\ view = None /\ webview = None /\ page = NoPage
  /\ toPage = << >> /\ toHost = << >> /\ host = AtRest
-----------------------------------------------------------------------------
(* resolveWebviewView() and the page's script: nothing of what was sent    *)
(* before, nor of what plays, is told again.                               *)
Resolve(v) ==
  /\ view = None /\ view' = v /\ webview' = v /\ page' = NoPage
  /\ toPage' = << >> /\ TellOnly("ready") /\ UNCHANGED host

(* onDidDispose: detach().  Faulty variant: the sink keeps the dead page.  *)
DisposeViewAttached ==
  /\ view # None /\ view' = None /\ page' = NoPage
  /\ toPage' = << >> /\ toHost' = << >> /\ UNCHANGED << webview, host >>
DisposeView ==
  /\ view # None /\ view' = None /\ webview' = None /\ page' = NoPage
  /\ toPage' = << >> /\ toHost' = << >> /\ UNCHANGED host
-----------------------------------------------------------------------------
(* playIndex(): the player stands on another chunk from here on, and what  *)
(* the page plays goes on.  A chunk that is ready leaves the state as it   *)
(* is.                                                                     *)
TurnsTo(c) ==
  /\ \E state \in {host.state, IF host.state = "playing" THEN "buffering"
                                ELSE IF host.state = "buffering" THEN "buffering" ELSE "preparing"} :
       host' = [host EXCEPT !.state = state, !.chunk = c,
                  !.at = IF @ \in {"loading", "overtaken"} THEN "overtaken" ELSE "waiting"]
  /\ UNCHANGED toPage

(* Its audio is there: load(), which returns as usual when there is no     *)
(* page, and then play().                                                  *)
Loads  == /\ host.at \in {"waiting", "overtaken"}
          /\ host' = [host EXCEPT !.at = "loading", !.loaded = host.chunk]
          /\ Post(<< Command("load", host.chunk) >>)
Sounds == /\ host.at = "loading" /\ host' = [host EXCEPT !.at = "settled", !.state = "playing"]
          /\ Post(<< Command("play", None) >>)

(* The player pauses, goes on, or stops, for whatever reason: stop(),      *)
(* complete(), an error, the end of the chunks there are, a new session.   *)
(* Which chunk it stands on when it has stopped is left out: only an error *)
(* is compared with it then.                                               *)
Paused  == /\ host.state = "playing" /\ host' = [host EXCEPT !.state = "paused"]
           /\ Post(<< Command("pause", None) >>)
Resumed == /\ host.state = "paused" /\ host' = [host EXCEPT !.state = "playing"]
           /\ Post(<< Command("play", None) >>)
Stopped == host' = AtRest /\ Post(<< Command("stop", None) >>)

Driven ==
  /\ Loads \/ Sounds \/ Paused \/ Resumed \/ Stopped \/ \E c \in Chunks : TurnsTo(c)
  /\ UNCHANGED << view, webview, page, toHost >>

(* dispatch() and the handlers it reaches: an event of another chunk, or   *)
(* of a paused player, is ignored, and so is a button that has nothing to  *)
(* do (playDecision.ts).  What an error or the start of a reading leads to *)
(* comes later, and is among what drives the player.                       *)
Ignored == UNCHANGED << host, toPage >>

Ended(m) == IF m.chunk # host.chunk \/ host.state # "playing" THEN Ignored
            ELSE Stopped \/ \E c \in Chunks : TurnsTo(c)

Pressed(m) ==
  \/ m.type = "stop" /\ (Stopped \/ (host.state = "idle" /\ Ignored))
  \/ m.type = "pause" /\ (Paused \/ (host.state # "playing" /\ Ignored))
  \/ m.type = "play" /\ (Resumed \/ (host.state # "paused" /\ Ignored))

Dispatch ==
  /\ toHost # << >> /\ toHost' = Tail(toHost)
  /\ LET m == Head(toHost) IN
     \/ m.type \in {"ready", "timeupdate", "error"} /\ Ignored
     \/ m.type = "ended" /\ Ended(m)
     \/ Pressed(m)
  /\ UNCHANGED << view, webview, page >>
-----------------------------------------------------------------------------
(* handleLoad(): the chunk is noted; its address may be refused, and then  *)
(* the element keeps what it has.  A new source drops the events the old   *)
(* one had to tell.  play() may be refused by the browser, and nobody      *)
(* hears of it.  Faulty variant: the chunk is noted when it plays.         *)
Loaded(c) == {[chunk |-> c, src |-> c, refused |-> FALSE, audio |-> a, due |-> None]
                : a \in {"playing", "paused"}}
HandleLoadUnnoted(c) ==
  page' \in {[p EXCEPT !.chunk = page.chunk] : p \in Loaded(c)}
            \cup {[page EXCEPT !.chunk = c, !.refused = TRUE]}
HandleLoad(c) == page' \in Loaded(c) \cup {[page EXCEPT !.chunk = c, !.refused = TRUE]}

HandleMessage ==
  /\ toPage # << >> /\ toPage' = Tail(toPage)
  /\ LET m == Head(toPage) IN
     \/ m.type = "load" /\ HandleLoad(m.chunk)
     \/ m.type = "play" /\ page' \in {page, [page EXCEPT !.audio = IF @ = "empty" THEN @ ELSE "playing"]}
     \/ m.type = "pause" /\ page' = [page EXCEPT !.audio = IF @ = "empty" THEN @ ELSE "paused"]
     \/ m.type = "stop" /\ page' = [page EXCEPT !.audio = IF @ = "empty" THEN @ ELSE "paused",
                                                !.chunk = None]
  /\ UNCHANGED << view, webview, toHost, host >>

(* The sound comes to its end, or cannot be played.                        *)
AudioOver(why) ==
  /\ page.audio = "playing" /\ page.due = None
  /\ page' = [page EXCEPT !.audio = "paused", !.due = why]
  /\ UNCHANGED << view, webview, toPage, toHost, host >>

(* The listeners: without a chunk nothing is told.                         *)
MediaEvent ==
  /\ page.due # None /\ page' = [page EXCEPT !.due = None]
  /\ IF page.chunk = None THEN UNCHANGED toHost ELSE TellOf(page.due)
  /\ UNCHANGED << view, webview, toPage, host >>

TimeUpdate ==
  /\ page.audio = "playing" /\ page.chunk # None /\ TellOf("timeupdate")
  /\ UNCHANGED << view, webview, page, toPage, host >>

(* The buttons; the middle one goes by the element.                        *)
Click ==
  /\ view # None
  /\ \/ TellOnly("stop")
     \/ TellOnly(IF page.audio = "playing" THEN "pause" ELSE "play")
  /\ UNCHANGED << view, webview, page, toPage, host >>

SurfaceNext ==
  \/ \E v \in Views : Resolve(v)
  \/ \E why \in {"ended", "error"} : AudioOver(why)
  \/ DisposeView \/ Driven \/ Dispatch \/ HandleMessage \/ MediaEvent \/ TimeUpdate \/ Click

SurfaceSpec == SurfaceInit /\ [][SurfaceNext]_surfaceVars
-----------------------------------------------------------------------------
(* The variables have their types.                                         *)
SurfaceTypeOK ==
  /\ view \in Views \cup {None} /\ webview = view /\ page \in Page
  /\ toPage \in Seq(Orders) /\ toHost \in Seq(Told) /\ host \in Host

(* player.js: what the page tells of a chunk was caused by the sound of    *)
(* that chunk.  And once the page has handled what it was told, it sounds  *)
(* only with the chunk it was last told to load, and, when the player is   *)
(* settled, only if the player plays that chunk: while the next one is     *)
(* awaited the one before may go on (PlaybackController.ts:445), but not   *)
(* under a player that was silent.  A chunk whose address was refused      *)
(* (player.js:67) is excepted, it is told of the sound before it.          *)
SurfaceObeys ==
  /\ \A k \in DOMAIN toHost : toHost[k].refused \/ toHost[k].chunk = toHost[k].of
  /\ (toPage = << >> /\ page.audio = "playing") =>
       /\ page.refused \/ (page.src = host.loaded /\ page.chunk = host.loaded)
       /\ host.at = "settled" => host.state = "playing" /\ host.loaded = host.chunk
       /\ host.at = "waiting" => host.state \in {"playing", "buffering"}
=============================================================================
