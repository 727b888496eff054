------------------------------ MODULE Services ------------------------------
(***************************************************************************)
(* The components around the reading itself, each checked on a small       *)
(* instance.  They have no state in common, and what they tell each other  *)
(* is part of the environment in the module of each: so a behaviour is     *)
(* that of one of them, the others staying as they begin.                  *)
(***************************************************************************)
EXTENDS DiskAudioCache, ClaudeInbox, ClaudeHook, ProfileStore, VoiceChoice, LocalVoice,
        Egress, TtsProviders, Reading, AudioSurface

VARIABLE part    \* the component this behaviour is about

services == << part, cacheVars, inboxVars, hookVars, profileVars, voiceVars, localVoiceVars,
               egressVars, ttsVars, readingVars, surfaceVars >>

Parts == {"cache", "inbox", "hook", "profiles", "voice", "local", "egress", "tts", "reading",
          "surface"}
-----------------------------------------------------------------------------
(* Settings another program leaves: ours alone, with another hook in one   *)
(* group, next to an empty group, after another group.                     *)
ServiceEdits == LET ours == "llm-voice-capture" IN
  {<< >>, << << ours >> >>, << << "lint", ours >>, << >> >>, << << "lint" >>, << ours, "format" >> >>}

ServiceProfiles ==
  {[tts |-> "localhost", narrator |-> "none"], [tts |-> "company", narrator |-> "localhost"]}

(* A sentence that is cut, and one that joins what is left of it.          *)
ServiceSpeeches == {<< 3, 1 >>}

(* One paragraph of up to three tokens, two blocks, quotations, and a      *)
(* paragraph and a quotation whose first sentence, with markup in it,      *)
(* reads like the second.                                                  *)
Texts(n)   == UNION {[1 .. m -> {"word", "Word", "abbr", "stop", "span", "mark"}] : m \in 1 .. n}
Paragraphs(n) == [kind : {"paragraph"}, raw : Texts(n)]
Quotes     == [kind : {"blockquote"}, raw : {<< "mark", "Word", "stop", "Word" >>}]
Unspoken   == [kind : {"heading", "html"}, raw : {<< "Word" >>}]
ServiceDocuments ==
  {<< b >> : b \in Paragraphs(3)} \cup {<< b, c >> : b \in Paragraphs(2), c \in Paragraphs(1) \cup Unspoken}
  \cup {<< b, c >> : b \in Unspoken, c \in Paragraphs(2)}
  \cup {<< q, b >> : q \in Quotes, b \in Paragraphs(1)}
  \cup {<< [kind |-> k, raw |-> << "Word", "mark", "stop", "Word", "stop" >>] >> : k \in {"paragraph", "blockquote"}}

ServicePolicies ==
  {[mode |-> "plain", max |-> 1, first |-> 0, skip |-> {}],
   [mode |-> "sentence", max |-> 2, first |-> 0, skip |-> {}],
   [mode |-> "sentence", max |-> 2, first |-> 1, skip |-> {}],
   [mode |-> "block", max |-> 1, first |-> 0, skip |-> {"heading"}]}
-----------------------------------------------------------------------------
(* A component that is not looked at begins in one of its initial states,  *)
(* always the same.                                                        *)
CacheRests   == wav = {} /\ CacheInit
HookRests    == user = NoFile /\ others = "none" /\ HookInit
ProfileRests == store = Absent /\ ProfileInit
VoiceRests   == selected = NoProfile /\ VoiceInit
LocalRests   == bin = "none" /\ onPath = {} /\ LocalVoiceInit
EgressRests  ==
  /\ settings = [localOnly |-> TRUE, trusting |-> FALSE]
  /\ profile = (CHOOSE p \in Profiles : p.narrator = "none")
  /\ guard = [mode |-> "local", trusted |-> {}, strict |-> TRUE] /\ EgressInit
ReadingRests ==
  /\ doc = << [kind |-> "paragraph", raw |-> << "word" >>] >> /\ selection = << >>
  /\ policy = (CHOOSE p \in Policies : p.mode = "plain") /\ ReadingInit

ServicesInit ==
  /\ part \in Parts
  /\ IF part = "cache"    THEN CacheInit      ELSE CacheRests
  /\ InboxInit
  /\ IF part = "hook"     THEN HookInit       ELSE HookRests
  /\ IF part = "profiles" THEN ProfileInit    ELSE ProfileRests
  /\ IF part = "voice"    THEN VoiceInit      ELSE VoiceRests
  /\ IF part = "local"    THEN LocalVoiceInit ELSE LocalRests
  /\ IF part = "egress"   THEN EgressInit     ELSE EgressRests
  /\ TtsInit
  /\ IF part = "reading"  THEN ReadingInit    ELSE ReadingRests
  /\ SurfaceInit

(* One step of the component it is about.                                  *)
ServicesNext ==
  /\ UNCHANGED part
  /\ IF part = "cache"    THEN CacheNext      ELSE UNCHANGED cacheVars
  /\ IF part = "inbox"    THEN InboxNext      ELSE UNCHANGED inboxVars
  /\ IF part = "hook"     THEN HookNext       ELSE UNCHANGED hookVars
  /\ IF part = "profiles" THEN ProfileNext    ELSE UNCHANGED profileVars
  /\ IF part = "voice"    THEN VoiceNext      ELSE UNCHANGED voiceVars
  /\ IF part = "local"    THEN LocalVoiceNext ELSE UNCHANGED localVoiceVars
  /\ IF part = "egress"   THEN EgressNext     ELSE UNCHANGED egressVars
  /\ IF part = "tts"      THEN TtsNext        ELSE UNCHANGED ttsVars
  /\ IF part = "reading"  THEN ReadingNext    ELSE UNCHANGED readingVars
  /\ IF part = "surface"  THEN SurfaceNext    ELSE UNCHANGED surfaceVars

ServicesSpec == ServicesInit /\ [][ServicesNext]_services /\ InboxFairness
-----------------------------------------------------------------------------
(* The variables of every component have their types.                      *)
ServicesTypeOK ==
  /\ part \in Parts
  /\ part = "cache"    => CacheTypeOK
  /\ part = "inbox"    => InboxTypeOK
  /\ part = "hook"     => HookTypeOK
  /\ part = "profiles" => ProfileTypeOK
  /\ part = "voice"    => VoiceTypeOK
  /\ part = "local"    => LocalVoiceTypeOK
  /\ part = "egress"   => EgressTypeOK
  /\ part = "tts"      => TtsTypeOK
  /\ part = "reading"  => ReadingTypeOK
  /\ part = "surface"  => SurfaceTypeOK
=============================================================================
