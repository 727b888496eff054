----------------------------- MODULE LocalVoice -----------------------------
(***************************************************************************)
(* The voice that needs no server: the installation of Piper               *)
(* (tts/PiperSetup.ts, net/AssetDownloader.ts) and the synthesis by a      *)
(* local engine (tts/SystemTtsProvider.ts) that looks for it, both at work *)
(* on one directory.  The command and the prompt of a reading each start   *)
(* an installation of their own.                                           *)
(*                                                                         *)
(* An asset is what its digest says of it, a directory what it was renamed *)
(* from.  The staging directories, one per installation, the progress and  *)
(* the command lines of the engines are left out.                          *)
(***************************************************************************)
EXTENDS Sequencing, Sequences

CONSTANTS
  Installers,    \* bound: installations under way at once
  Speakers,      \* bound: calls of synthesize() under way at once
  MaxRedirects,  \* DEFAULT_MAX_REDIRECTS
  MaxWords,      \* words in MAX_CHARS_PER_CHUNK
  Speeches       \* bound: texts to speak, the number of words of each sentence

ASSUME LocalVoiceAssumption ==
  /\ MaxRedirects \in Nat /\ MaxWords \in Nat \ {0}
  /\ \A text \in Speeches : text \in Seq(Nat \ {0}) /\ text # << >>

VARIABLES
  bin, voices,   \* what the two directories of an installation hold
  onPath,        \* engines found outside of them: PATH, or the system's own
  installer,     \* the installations under way
  rough,         \* history: a swap was overlapped, interrupted or failed
  speaker        \* the calls of synthesize() under way

localVoiceVars == << bin, voices, onPath, installer, rough, speaker >>

(* "part": a removal that failed half way; "bad": not what the manifest    *)
(* asks for.                                                               *)
Content == {"none", "part", "old", "new", "bad"}
Engines == {"piper", "espeak-ng"}

(* The archive, the model and its configuration.                           *)
Assets == 1 .. 3

Installer == [at : {"idle", "get", "check", "rmBin", "rmVoices", "mvBin", "mvVoices"},
              asset : Assets, hop : 0 .. MaxRedirects, body : {"new", "bad"},
              staged : {"new", "bad"}, alone : BOOLEAN]
NoInstaller == [at |-> "idle", asset |-> 1, hop |-> 0, body |-> "new", staged |-> "new", alone |-> TRUE]

(* `said`: the engine that spoke each piece; `temp`: its file is there.    *)
(* "mixed": concatWavBuffers() refused the pieces.                         *)
Speaker == [at : {"idle", "run", "done", "mixed"}, engine : Engines, text : Speeches \cup {<< >>},
            pieces : Seq(1 .. MaxWords), said : Seq(Engines), temp : BOOLEAN]
NoSpeaker == [at |-> "idle", engine |-> "piper", text |-> << >>, pieces |-> << >>,
              said |-> << >>, temp |-> FALSE]

LocalVoiceInit ==
  /\ \E c \in {"none", "old"} : bin = c /\ voices = c
  /\ onPath \in SUBSET Engines
  /\ installer = [i \in Installers |-> NoInstaller] /\ rough = FALSE
  /\ speaker = [s \in Speakers |-> NoSpeaker]

PutBack(i, r) == installer' = [installer EXCEPT ![i] = r]
Fails(i)      == PutBack(i, NoInstaller)
Swapping(i)   == installer[i].at \in {"rmBin", "rmVoices", "mvBin", "mvVoices"}
-----------------------------------------------------------------------------
(* installPiperVoice(): the platform is supported and the user consents.   *)
Consents(i) ==
  /\ installer[i].at = "idle" /\ PutBack(i, [NoInstaller EXCEPT !.at = "get"])
  /\ UNCHANGED << bin, voices, onPath, rough, speaker >>

(* downloadVerifiedAsset(): a redirection to a trusted host is followed;   *)
(* strict local mode, another host or scheme, an HTTP error, the signal    *)
(* and a body cut short end the installation.                              *)
Redirected(i) ==
  /\ installer[i].at = "get" /\ installer[i].hop < MaxRedirects
  /\ PutBack(i, [installer[i] EXCEPT !.hop = @ + 1])
  /\ UNCHANGED << bin, voices, onPath, rough, speaker >>

Received(i, body) ==
  /\ installer[i].at = "get" /\ PutBack(i, [installer[i] EXCEPT !.at = "check", !.body = body])
  /\ UNCHANGED << bin, voices, onPath, rough, speaker >>

Refused(i) ==
  /\ installer[i].at \in {"get", "check"} /\ Fails(i)
  /\ UNCHANGED << bin, voices, onPath, rough, speaker >>

(* The asset is in the staging directory, the archive extracted.           *)
Staged(i) ==
  LET r == [installer[i] EXCEPT !.hop = 0,
              !.staged = IF installer[i].body = "bad" THEN "bad" ELSE @] IN
  IF r.asset < 3 THEN [r EXCEPT !.at = "get", !.asset = @ + 1] ELSE [r EXCEPT !.at = "rmBin"]

(* The digest is compared.  Faulty variant: it is not.                     *)
AcceptedUnchecked(i) == installer[i].at = "check"
Accepted(i)          == installer[i].at = "check" /\ installer[i].body = "new"

PiperVerified(i) ==
  /\ Accepted(i)
  /\ LET busy == \E j \in Installers \ {i} : Swapping(j)
         r    == Staged(i)
     IN IF r.at # "rmBin" THEN PutBack(i, r)
        ELSE installer' = [j \in Installers |->
               IF j = i THEN [r EXCEPT !.alone = ~ busy]
               ELSE [installer[j] EXCEPT !.alone = @ /\ ~ Swapping(j)]]
  /\ UNCHANGED << bin, voices, onPath, rough, speaker >>
-----------------------------------------------------------------------------
(* The swap: both directories are removed, errors ignored, and what was    *)
(* staged takes their place, unless something is there.                    *)
RemovedBin(i) ==
  /\ installer[i].at = "rmBin" /\ PutBack(i, [installer[i] EXCEPT !.at = "rmVoices"])
  /\ bin' \in {"none"} \cup (IF bin = "none" THEN {} ELSE {bin, "part"})
  /\ rough' = (rough \/ bin' # "none")
  /\ UNCHANGED << voices, onPath, speaker >>

RemovedVoices(i) ==
  /\ installer[i].at = "rmVoices" /\ PutBack(i, [installer[i] EXCEPT !.at = "mvBin"])
  /\ voices' \in {"none"} \cup (IF voices = "none" THEN {} ELSE {voices, "part"})
  /\ rough' = (rough \/ voices' # "none")
  /\ UNCHANGED << bin, onPath, speaker >>

RenamedBin(i) ==
  /\ installer[i].at = "mvBin" /\ bin = "none"
  /\ bin' = installer[i].staged /\ PutBack(i, [installer[i] EXCEPT !.at = "mvVoices"])
  /\ UNCHANGED << voices, onPath, rough, speaker >>

(* status "installed".                                                     *)
RenamedVoices(i) ==
  /\ installer[i].at = "mvVoices" /\ voices = "none"
  /\ voices' = installer[i].staged /\ PutBack(i, NoInstaller)
  /\ rough' = ~ (installer[i].alone /\ bin = installer[i].staged)
  /\ UNCHANGED << bin, onPath, speaker >>

(* A rename fails, or the window is closed in the middle of the swap.      *)
SwapFails(i) ==
  /\ Swapping(i) /\ Fails(i) /\ rough' = TRUE
  /\ UNCHANGED << bin, voices, onPath, speaker >>
-----------------------------------------------------------------------------
(* detectEngine(): a managed Piper needs both directories, one found on    *)
(* PATH a French voice; what a removal left may or may not do.             *)
Usable(content) == IF content = "part" THEN BOOLEAN ELSE {content # "none"}
Detected ==
  {e \in Engines :
     \/ e = "piper" /\ TRUE \in Usable(bin) /\ TRUE \in Usable(voices)
     \/ e = "piper" /\ "piper" \in onPath
     \/ e = "espeak-ng" /\ "espeak-ng" \in onPath
        /\ "piper" \notin onPath /\ FALSE \in Usable(bin) \cup Usable(voices)}

(* splitTextForSynthesis(): sentences are joined as long as they fit in a  *)
(* piece, and one that fits in none is cut between words.                  *)
HardSplit(r) ==
  LET full == (r.current - 1) \div MaxWords IN
  [pieces |-> r.pieces \o [k \in 1 .. full |-> MaxWords], current |-> r.current - full * MaxWords]

Joined(r, sentence) ==
  HardSplit(IF r.current > 0 /\ r.current + sentence > MaxWords
            THEN [pieces |-> Append(r.pieces, r.current), current |-> sentence]
            ELSE [r EXCEPT !.current = @ + sentence])

Pieces(text) ==
  LET after[n \in 0 .. Len(text)] ==
        IF n = 0 THEN [pieces |-> << >>, current |-> 0] ELSE Joined(after[n - 1], text[n])
      r == after[Len(text)]
  IN  Append(r.pieces, r.current)

Speak(s, e, text) ==
  /\ speaker[s].at # "run"
  /\ speaker' = [speaker EXCEPT ![s] =
       [NoSpeaker EXCEPT !.at = "run", !.engine = e, !.text = text, !.pieces = Pieces(text),
                         !.temp = TRUE]]
  /\ UNCHANGED << bin, voices, onPath, installer, rough >>

(* The engine of a piece: the one detected when synthesize() began.        *)
EngineOf(s) == speaker[s].engine

(* concatWavBuffers(): two engines have two formats.                       *)
Joins(said) == \A p \in DOMAIN said : said[p] = said[1]

(* synthesizeChunk(): the process ends, its file is read and removed; the  *)
(* next piece writes one of its own.                                       *)
PieceSpoken(s) ==
  LET r == speaker[s]
      said == Append(r.said, EngineOf(s))
      last == Len(said) = Len(r.pieces)
  IN
  /\ r.at = "run"
  /\ speaker' = [speaker EXCEPT ![s] =
       [r EXCEPT !.said = said, !.temp = ~ last,
                 !.at = IF ~ last THEN "run" ELSE IF Joins(said) THEN "done" ELSE "mixed"]]
  /\ UNCHANGED << bin, voices, onPath, installer, rough >>

(* Killed by the signal or by its time limit, gone, or an empty file.      *)
SpeechFails(s) ==
  /\ speaker[s].at = "run"
  /\ speaker' = [speaker EXCEPT ![s] = NoSpeaker]
  /\ UNCHANGED << bin, voices, onPath, installer, rough >>

LocalVoiceNext ==
  \/ \E i \in Installers :
       \/ Consents(i) \/ Redirected(i) \/ Refused(i) \/ PiperVerified(i)
       \/ RemovedBin(i) \/ RemovedVoices(i) \/ RenamedBin(i) \/ RenamedVoices(i) \/ SwapFails(i)
       \/ \E body \in {"new", "bad"} : Received(i, body)
  \/ \E s \in Speakers :
       \/ PieceSpoken(s) \/ SpeechFails(s)
       \/ \E e \in Detected, text \in Speeches : Speak(s, e, text)

LocalVoiceSpec == LocalVoiceInit /\ [][LocalVoiceNext]_localVoiceVars
-----------------------------------------------------------------------------
LocalVoiceTypeOK ==
  /\ bin \in Content /\ voices \in Content /\ onPath \subseteq Engines
  /\ installer \in [Installers -> Installer] /\ rough \in BOOLEAN
  /\ speaker \in [Speakers -> Speaker]

(* Only what the manifest asks for is installed, and an installation that  *)
(* neither met another one in its swap nor failed in it leaves both an     *)
(* engine and a voice, or as before (installPiperVoice).                   *)
InstallWhole ==
  /\ "bad" \notin {bin, voices}
  /\ ~ rough /\ (\A i \in Installers : ~ Swapping(i)) => << bin, voices >> \in
       {<< "none", "none" >>, << "old", "old" >>, << "new", "new" >>}

(* Whatever is installed meanwhile, the pieces of a text come from one     *)
(* engine, so that they can be joined, and a text is answered with all its *)
(* words, in pieces the engine accepts, and no file left behind            *)
(* (splitTextForSynthesis, synthesize, concatWavBuffers).                  *)
WordsOf(counts) == Total(counts, Len(counts))
SpokenWhole ==
  \A s \in Speakers :
     /\ speaker[s].at # "mixed"
     /\ WordsOf(speaker[s].pieces) = WordsOf(speaker[s].text)
     /\ speaker[s].at = "done" =>
          Len(speaker[s].said) = Len(speaker[s].pieces) /\ ~ speaker[s].temp

(* Both, of the voice that is installed and of the one that speaks.        *)
LocalVoiceWhole == InstallWhole /\ SpokenWhole
=============================================================================
