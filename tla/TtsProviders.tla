---------------------------- MODULE TtsProviders ----------------------------
(***************************************************************************)
(* Which provider speaks, and with whose voice: Pipeline.ttsFor() with the *)
(* automatic choice between servers and its memory                         *)
(* (pipeline/resolveProviderConfig.ts), the registry of instances, and the *)
(* reference sample an instance of ChatterboxProvider uploads once for     *)
(* all its callers.                                                        *)
(*                                                                         *)
(* A profile either names Chatterbox or leaves the choice, and clones a    *)
(* reference or not.  Bodies, voices and API keys of requests are left out.*)
(***************************************************************************)
EXTENDS Integers, Sequences

CONSTANTS
  Readers,       \* bound: calls under way at once
  MaxInstances   \* bound: instances ever created

ASSUME TtsAssumption == MaxInstances \in Nat \ {0}

VARIABLES
  autoTtsCache,  \* the choice that is remembered, "none" when it expired
  registry,      \* providers by key: an index of `instance`, or 0
  instance,      \* every provider ever created
  reader         \* the calls under way

ttsVars == << autoTtsCache, registry, instance, reader >>

Servers == {"chatterbox", "piper-local"}
Config  == Servers \cup {"system"}
InstanceKeys == [config : Config, clone : BOOLEAN]

(* uploadPromise: not begun, under way, resolved to a name or to nothing,  *)
(* rejected.  `warm`: a warm-up is due; `uploads`: history, uploads begun. *)
Instance == [config : Config, clone : BOOLEAN, warm : BOOLEAN, uploads : Nat,
             upload : {"none", "pending", "named", "nothing", "rejected"}]
New == [config |-> "system", clone |-> FALSE, warm |-> FALSE, uploads |-> 0, upload |-> "none"]

Reader == [at : {"idle", "probe1", "probe2", "key", "ready", "upload", "request"}, clone : BOOLEAN,
           config : Config, of : 0 .. MaxInstances, mode : {"predefined", "clone"}]
Resting == [at |-> "idle", clone |-> FALSE, config |-> "system", of |-> 0, mode |-> "predefined"]

TtsInit ==
  /\ autoTtsCache = "none"
  /\ registry = [k \in InstanceKeys |-> 0] /\ instance = << >>
  /\ reader = [r \in Readers |-> Resting]

Set(r, f) == reader' = [reader EXCEPT ![r] = f]
-----------------------------------------------------------------------------
(* ttsFor() for a profile: the instance there is already, or the key.      *)
KeyOf(f) == [config |-> f.config, clone |-> f.clone]
Keyed(f) == IF registry[KeyOf(f)] > 0 THEN [f EXCEPT !.at = "ready", !.of = registry[KeyOf(f)]]
            ELSE [f EXCEPT !.at = "key"]

AskFor(r, auto, clone) ==
  LET f == [Resting EXCEPT !.clone = clone] IN
  /\ reader[r].at = "idle"
  /\ Set(r, IF ~ auto THEN Keyed([f EXCEPT !.config = "chatterbox"])
            ELSE IF autoTtsCache # "none" THEN Keyed([f EXCEPT !.config = autoTtsCache])
            ELSE [f EXCEPT !.at = "probe1"])
  /\ UNCHANGED << autoTtsCache, registry, instance >>

(* selectAutoTtsProvider(): Chatterbox, then Piper, if they answer, then   *)
(* the voice of the system.                                                *)
ChosenAuto(r, config) ==
  /\ autoTtsCache' = config /\ Set(r, Keyed([reader[r] EXCEPT !.config = config]))
  /\ UNCHANGED << registry, instance >>

SilentServer(r) ==
  /\ reader[r].at = "probe1" /\ Set(r, [reader[r] EXCEPT !.at = "probe2"])
  /\ UNCHANGED << autoTtsCache, registry, instance >>

Probed(r) ==
  \/ reader[r].at = "probe1" /\ ChosenAuto(r, "chatterbox")
  \/ reader[r].at = "probe2" /\ \E config \in {"piper-local", "system"} : ChosenAuto(r, config)

(* The key is there: an instance is created and registered, over the one   *)
(* that another call may have registered since.                            *)
Created(r, warm) ==
  LET f == reader[r] IN
  /\ f.at = "key" /\ Len(instance) < MaxInstances
  /\ instance' = Append(instance, [New EXCEPT !.config = f.config, !.clone = f.clone, !.warm = warm])
  /\ registry' = [registry EXCEPT ![KeyOf(f)] = Len(instance) + 1]
  /\ Set(r, [f EXCEPT !.at = "ready", !.of = Len(instance) + 1])
  /\ UNCHANGED << autoTtsCache >>
-----------------------------------------------------------------------------
(* ensureReferenceUploaded(): whoever comes first has the sample uploaded, *)
(* with its own signal; everybody awaits that one promise.  Faulty         *)
(* variant: everybody uploads.                                             *)
Cloning(i) == instance[i].clone /\ instance[i].config = "chatterbox"

Uploading(x)  == [x EXCEPT !.upload = "pending", !.uploads = @ + 1]
UploadEach(i) == [instance EXCEPT ![i] = Uploading(@)]
UploadFrom(i) == IF instance[i].upload = "none" THEN [instance EXCEPT ![i] = Uploading(@)] ELSE instance

(* synthesize().                                                           *)
Synthesize(r) ==
  LET f == reader[r] IN
  /\ f.at = "ready"
  /\ IF Cloning(f.of) THEN instance' = UploadFrom(f.of) /\ Set(r, [f EXCEPT !.at = "upload"])
     ELSE UNCHANGED instance /\ Set(r, [f EXCEPT !.at = "request"])
  /\ UNCHANGED << autoTtsCache, registry >>

(* warmupProvider() in the background, with no signal.                     *)
Warmup(i) ==
  /\ instance[i].warm
  /\ instance' = [(IF Cloning(i) THEN UploadFrom(i) ELSE instance) EXCEPT ![i].warm = FALSE]
  /\ UNCHANGED << autoTtsCache, registry, reader >>

(* resolveReferenceUpload(): the sample cannot be read, or is refused;     *)
(* then its upload succeeds, or fails with the server or the signal.       *)
Uploaded(i, outcome) ==
  /\ instance[i].upload = "pending"
  /\ instance' = [instance EXCEPT ![i].upload = outcome]
  /\ UNCHANGED << autoTtsCache, registry, reader >>

(* The promise is settled: a clone, a predefined voice, or an error, now   *)
(* and for every later call.                                               *)
Awaited(r) ==
  LET f == reader[r] IN
  /\ f.at = "upload" /\ instance[f.of].upload # "pending"
  /\ Set(r, CASE instance[f.of].upload = "named"   -> [f EXCEPT !.at = "request", !.mode = "clone"]
              [] instance[f.of].upload = "nothing" -> [f EXCEPT !.at = "request"]
              [] OTHER                             -> Resting)
  /\ UNCHANGED << autoTtsCache, registry, instance >>

Answered(r) ==
  /\ reader[r].at = "request" /\ Set(r, Resting)
  /\ UNCHANGED << autoTtsCache, registry, instance >>
-----------------------------------------------------------------------------
(* The choice is remembered for HEALTH_CACHE_TTL_MS, or until Piper is     *)
(* installed.                                                              *)
Forgotten == autoTtsCache' = "none" /\ UNCHANGED << registry, instance, reader >>

TtsNext ==
  \/ \E r \in Readers :
       \/ \E auto \in BOOLEAN, clone \in BOOLEAN : AskFor(r, auto, clone)
       \/ SilentServer(r) \/ Probed(r) \/ Synthesize(r) \/ Awaited(r) \/ Answered(r)
       \/ \E warm \in BOOLEAN : Created(r, warm)
  \/ \E i \in DOMAIN instance :
       \/ Warmup(i) \/ \E outcome \in {"named", "nothing", "rejected"} : Uploaded(i, outcome)
  \/ Forgotten

TtsSpec == TtsInit /\ [][TtsNext]_ttsVars
-----------------------------------------------------------------------------
TtsTypeOK ==
  /\ autoTtsCache \in Config \cup {"none"}
  /\ instance \in Seq(Instance) /\ Len(instance) <= MaxInstances
  /\ registry \in [InstanceKeys -> 0 .. Len(instance)] /\ reader \in [Readers -> Reader]

(* However many calls and warm-ups need the reference at once, an instance *)
(* uploads it at most once, and no request clones a voice that its own     *)
(* instance has not uploaded (ensureReferenceUploaded: "at most once,      *)
(* memoised across concurrent callers").                                   *)
UploadedOnce ==
  /\ \A i \in DOMAIN instance : instance[i].uploads <= 1
  /\ \A r \in Readers : reader[r].mode = "clone" =>
       reader[r].clone /\ instance[reader[r].of].upload = "named"
=============================================================================
