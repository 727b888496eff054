--------------------------- MODULE SettingsProofs ---------------------------
(***************************************************************************)
(* Proofs about what the settings decide: what leaves the machine, by the  *)
(* guard of every request (Egress) and the providers behind it             *)
(* (TtsProviders), for any requests, profiles, calls and instances; the    *)
(* profiles themselves (ProfileStore), for any ids and operations under    *)
(* way; and the voice one of them names (VoiceChoice), for any runs of the *)
(* wizard.                                                                 *)
(***************************************************************************)
EXTENDS Egress, TtsProviders, ProfileStore, VoiceChoice, TLAPS

-----------------------------------------------------------------------------
(* The guard.                                                              *)

(* A request about to be dialled has an address of the loopback, or none   *)
(* because the guard lets its host be called.                              *)
DialAllowed ==
  \A r \in Fetches : request[r].at = "dial" =>
     \/ request[r].ip = "loopback"
     \/ /\ request[r].ip = "none" /\ request[r].host # "localhost"
        /\ MayLeave(request[r].host, request[r].scheme)

EgressInv == EgressTypeOK /\ DialAllowed /\ LocalStaysLocal

-----------------------------------------------------------------------------
(* The mode and the hosts the guard takes from the settings.               *)
LEMMA GuardType ==
  ASSUME NEW s \in Settings
  PROVE  egressMode(s) \in {"local", "trusted", "open"} /\ trustedHosts(s) \in SUBSET Hosts
BY DEF egressMode, trustedHosts, Hosts

(* The badge has two lamps.                                                *)
LEMMA BadgeType ==
  ASSUME NEW s, NEW p
  PROVE  BadgeOf(s, p) \in [local : BOOLEAN, remote : BOOLEAN]
<1>1. (\A c \in Blocking : Controls(s, p)[c] = "ok") \in BOOLEAN
  OBVIOUS
<1>2. (Controls(s, p)[1] = "fail") \in BOOLEAN
  OBVIOUS
<1> QED BY <1>1, <1>2, Zenon DEF BadgeOf

(* The invariant holds at the start.                                       *)
LEMMA InitEgress == EgressInit => EgressInv
<1> SUFFICES ASSUME EgressInit PROVE EgressInv
  OBVIOUS
<1>1. EgressTypeOK
  BY GuardType DEF EgressInit, EgressTypeOK, Quiet, FetchState, Hosts, Schemes
<1>2. DialAllowed /\ LocalStaysLocal
  BY DEF EgressInit, DialAllowed, LocalStaysLocal, Quiet
<1> QED BY <1>1, <1>2 DEF EgressInv

(* The steps of a request leave the guard as it is.                        *)
LEMMA RequestKeeps ==
  ASSUME EgressInv, NEW r \in Fetches,
         \/ \E host \in Hosts, scheme \in Schemes : Fetch(r, host, scheme)
         \/ \E ips \in SUBSET {"loopback", "public"} : Resolved(r, ips)
         \/ Dialled(r) \/ Replied(r)
  PROVE  EgressInv'
<1> USE DEF EgressInv, EgressTypeOK
<1>0. Quiet \in FetchState
  BY DEF Quiet, FetchState, Hosts, Schemes
<1>1. ASSUME NEW host \in Hosts, NEW scheme \in Schemes, Fetch(r, host, scheme)
      PROVE  EgressInv'
  <2> DEFINE q == [Quiet EXCEPT !.host = host, !.scheme = scheme]
  <2>1. q \in FetchState /\ q.ip = "none" /\ q.host = host /\ q.scheme = scheme
    BY DEF Quiet, FetchState
  <2> HIDE DEF q
  <2>2. /\ UNCHANGED << settings, guard, profile, badge, stale, dialled >>
        /\ \/ request' = [request EXCEPT ![r] = [q EXCEPT !.at = "resolve"]]
           \/ /\ host # "localhost" /\ MayLeave(host, scheme)
              /\ request' = [request EXCEPT ![r] = [q EXCEPT !.at = "dial"]]
    BY <1>1 DEF Fetch, q
  <2>3. request' \in [Fetches -> FetchState]
    BY <2>1, <2>2 DEF FetchState
  <2>4. DialAllowed'
    BY <2>1, <2>2, <2>3 DEF DialAllowed, MayLeave, Effective, FetchState
  <2> QED BY <2>2, <2>3, <2>4 DEF LocalStaysLocal, Effective
<1>2. ASSUME NEW ips \in SUBSET {"loopback", "public"}, Resolved(r, ips)
      PROVE  EgressInv'
  <2>1. /\ UNCHANGED << settings, guard, profile, badge, stale, dialled >>
        /\ \/ request' = [request EXCEPT ![r] = [@ EXCEPT !.at = "dial", !.ip = "loopback"]]
           \/ request' = [request EXCEPT ![r] = Quiet]
    BY <1>2 DEF Resolved, Denied
  <2> DEFINE d == [request[r] EXCEPT !.at = "dial", !.ip = "loopback"]
  <2>2. d \in FetchState /\ d.ip = "loopback"
    BY DEF FetchState
  <2>3. request' = [request EXCEPT ![r] = d] \/ request' = [request EXCEPT ![r] = Quiet]
    BY <2>1
  <2> HIDE DEF d
  <2>4. request' \in [Fetches -> FetchState]
    BY <1>0, <2>2, <2>3
  <2>5. DialAllowed'
    <3>1. \A x \in Fetches : x # r => request'[x] = request[x]
      BY <2>3
    <3>2. request'[r] = d \/ request'[r].at = "idle"
      BY <2>3 DEF Quiet
    <3> QED BY <2>1, <2>2, <3>1, <3>2 DEF DialAllowed, MayLeave, Effective
  <2> QED BY <2>1, <2>4, <2>5 DEF LocalStaysLocal, Effective
<1>3. CASE Dialled(r)
  <2>1. request' \in [Fetches -> FetchState]
    BY <1>3 DEF Dialled, FetchState
  <2>2. DialAllowed'
    BY <1>3 DEF Dialled, DialAllowed, MayLeave, Effective, FetchState
  <2>3. PICK ip \in TargetOf(r) :
          dialled' = dialled \cup {[to |-> ip, host |-> request[r].host, scheme |-> request[r].scheme]}
    BY <1>3 DEF Dialled
  <2>4. ip \in {"loopback", "public"}
    BY <1>3, <2>3 DEF Dialled, TargetOf, DialAllowed
  <2>5. ip = "public" => request[r].host # "localhost" /\ MayLeave(request[r].host, request[r].scheme)
    BY <1>3, <2>3 DEF Dialled, TargetOf, DialAllowed
  <2>6. dialled' \subseteq [to : {"loopback", "public"}, host : Hosts, scheme : Schemes]
    BY <2>3, <2>4 DEF FetchState
  <2>7. LocalStaysLocal'
    BY <1>3, <2>3, <2>5 DEF Dialled, LocalStaysLocal, MayLeave, Effective
  <2> QED BY <1>3, <2>1, <2>2, <2>6, <2>7 DEF Dialled
<1>4. CASE Replied(r)
  <2>1. request' \in [Fetches -> FetchState]
    BY <1>0, <1>4 DEF Replied, Denied
  <2>2. DialAllowed'
    BY <1>4 DEF Replied, Denied, DialAllowed, MayLeave, Effective, FetchState, Quiet
  <2> QED BY <1>4, <2>1, <2>2 DEF Replied, LocalStaysLocal, Effective
<1> QED BY <1>1, <1>2, <1>3, <1>4

(* Settings, profiles and the badge do not reach the guard; a restart      *)
(* begins with no request.                                                 *)
LEMMA NextEgress == EgressInv /\ [EgressNext]_egressVars => EgressInv'
<1> SUFFICES ASSUME EgressInv, [EgressNext]_egressVars PROVE EgressInv'
  OBVIOUS
<1> USE DEF EgressInv, EgressTypeOK
<1>1. ASSUME NEW s \in Settings, Configure(s) PROVE EgressInv'
  BY <1>1 DEF Configure, DialAllowed, LocalStaysLocal, MayLeave, Effective
<1>2. ASSUME NEW p \in Profiles, SelectProfile(p) PROVE EgressInv'
  <2>1. badge' \in [local : BOOLEAN, remote : BOOLEAN]
    BY <1>2, BadgeType DEF SelectProfile
  <2> QED BY <1>2, <2>1 DEF SelectProfile, DialAllowed, LocalStaysLocal, MayLeave, Effective
<1>3. CASE Refreshed
  <2>1. badge' \in [local : BOOLEAN, remote : BOOLEAN]
    BY <1>3, BadgeType DEF Refreshed
  <2> QED BY <1>3, <2>1 DEF Refreshed, DialAllowed, LocalStaysLocal, MayLeave, Effective
<1>4. CASE Restart
  <2>1. guard' \in [mode : {"local", "trusted", "open"}, trusted : SUBSET Hosts, strict : BOOLEAN]
    BY <1>4, GuardType DEF Restart
  <2>2. request' \in [Fetches -> FetchState]
    BY <1>4 DEF Restart, Quiet, FetchState, Hosts, Schemes
  <2> QED BY <1>4, <2>1, <2>2 DEF Restart, DialAllowed, LocalStaysLocal, Quiet
<1>5. CASE UNCHANGED egressVars
  BY <1>5 DEF egressVars, DialAllowed, LocalStaysLocal, MayLeave, Effective
<1> QED BY <1>1, <1>2, <1>3, <1>4, <1>5, RequestKeeps DEF EgressNext

(* The inductive invariant holds in every reachable state.                 *)
THEOREM EgressInvariant == EgressSpec => []EgressInv
BY InitEgress, NextEgress, PTL DEF EgressSpec

(* Whatever the resolver answers and whenever the settings change, a local *)
(* guard reaches the loopback alone, a trusting one its hosts, with TLS    *)
(* (assertAllowed, fetch).                                                 *)
THEOREM StaysLocal == EgressSpec => [](EgressTypeOK /\ LocalStaysLocal)
<1>1. EgressInv => EgressTypeOK /\ LocalStaysLocal
  BY DEF EgressInv
<1> QED BY EgressInvariant, <1>1, PTL

-----------------------------------------------------------------------------
(* The providers.                                                          *)

(* An instance counts its uploads: none, or one once it has begun, which   *)
(* it does in an instance that clones.                                     *)
Counted(s) ==
  \A i \in DOMAIN s :
    /\ s[i].uploads = IF s[i].upload = "none" THEN 0 ELSE 1
    /\ s[i].upload # "none" => s[i].clone

(* The registry finds, under a key, an instance of that kind of voice.     *)
RegistryFits == \A k \in InstanceKeys : registry[k] > 0 => instance[registry[k]].clone = k.clone

(* A call that has its instance has one of its kind of voice; it awaits    *)
(* only an upload that was begun, and clones only a voice that was         *)
(* uploaded.                                                               *)
ReaderFits(f, s) ==
  /\ f.at \in {"ready", "upload", "request"} => f.of \in DOMAIN s /\ s[f.of].clone = f.clone
  /\ f.at = "upload" => s[f.of].upload # "none"
  /\ f.at # "request" => f.mode = "predefined"
  /\ f.mode = "clone" => f.clone /\ s[f.of].upload = "named"

TtsInv ==
  /\ TtsTypeOK /\ Counted(instance) /\ RegistryFits
  /\ \A r \in Readers : ReaderFits(reader[r], instance)

(* What later instances keep of earlier ones: none goes, none changes its  *)
(* kind, no upload is begun again, and a named reference stays named.      *)
Extends(new, old) ==
  /\ new \in Seq(Instance) /\ Len(old) <= Len(new) /\ Len(new) <= MaxInstances /\ Counted(new)
  /\ \A i \in DOMAIN old :
       /\ new[i].clone = old[i].clone
       /\ old[i].upload # "none" => new[i].upload # "none"
       /\ old[i].upload = "named" => new[i].upload = "named"

-----------------------------------------------------------------------------
(* A call that fits the instances fits those that extend them.             *)
LEMMA FitsLater ==
  ASSUME NEW old \in Seq(Instance), NEW new, Extends(new, old), NEW f \in Reader, ReaderFits(f, old)
  PROVE  ReaderFits(f, new)
<1>1. new \in Seq(Instance) /\ Len(old) <= Len(new)
  BY DEF Extends
<1>2. DOMAIN old \subseteq DOMAIN new
  BY <1>1
<1>3. f.mode = "clone" => f.at = "request"
  BY DEF ReaderFits, Reader
<1> QED BY <1>2, <1>3 DEF ReaderFits, Extends

(* The registry finds what it found.                                       *)
LEMMA RegistryLater ==
  ASSUME TtsInv, Extends(instance', instance), UNCHANGED registry
  PROVE  RegistryFits' /\ registry' \in [InstanceKeys -> 0 .. Len(instance')]
<1>1. registry \in [InstanceKeys -> 0 .. Len(instance)] /\ instance \in Seq(Instance)
  BY DEF TtsInv, TtsTypeOK
<1>2. instance' \in Seq(Instance) /\ Len(instance) <= Len(instance')
  BY DEF Extends
<1>3. Len(instance) \in Nat /\ Len(instance') \in Nat /\ DOMAIN instance = 1 .. Len(instance)
  BY <1>1, <1>2
<1>4. ASSUME NEW k \in InstanceKeys, registry[k] > 0
      PROVE  instance'[registry[k]].clone = k.clone
  <2>1. registry[k] \in DOMAIN instance
    BY <1>1, <1>3, <1>4
  <2> QED BY <1>4, <2>1 DEF TtsInv, RegistryFits, Extends
<1> QED BY <1>1, <1>2, <1>3, <1>4 DEF RegistryFits

(* The steps that change nothing but a call, or the choice of a server.    *)
LEMMA OnlyReader ==
  ASSUME TtsInv, NEW r \in Readers, NEW f \in Reader, ReaderFits(f, instance), Set(r, f),
         UNCHANGED << registry, instance >>, autoTtsCache' \in Config \cup {"none"}
  PROVE  TtsInv'
<1>1. reader' \in [Readers -> Reader]
  BY DEF TtsInv, TtsTypeOK, Set
<1>2. \A x \in Readers : ReaderFits(reader'[x], instance)
  BY DEF TtsInv, TtsTypeOK, Set
<1> QED BY <1>1, <1>2 DEF TtsInv, TtsTypeOK, RegistryFits

(* The steps that change the instances and one call.                       *)
LEMMA InstanceAndReader ==
  ASSUME TtsInv, Extends(instance', instance), UNCHANGED << autoTtsCache, registry >>,
         NEW r \in Readers, NEW f \in Reader, ReaderFits(f, instance'), Set(r, f)
  PROVE  TtsInv'
<1>1. reader' \in [Readers -> Reader]
  BY DEF TtsInv, TtsTypeOK, Set
<1>2. \A x \in Readers : ReaderFits(reader'[x], instance')
  <2> SUFFICES ASSUME NEW x \in Readers, x # r PROVE ReaderFits(reader'[x], instance')
    BY DEF TtsInv, TtsTypeOK, Set
  <2> QED BY FitsLater DEF TtsInv, TtsTypeOK, Set
<1>3. RegistryFits' /\ registry' \in [InstanceKeys -> 0 .. Len(instance')]
  BY RegistryLater
<1>4. instance' \in Seq(Instance) /\ Len(instance') <= MaxInstances /\ Counted(instance')
  BY DEF Extends
<1> QED BY <1>1, <1>2, <1>3, <1>4 DEF TtsInv, TtsTypeOK

(* The steps that change only the instances.                               *)
LEMMA OnlyInstance ==
  ASSUME TtsInv, Extends(instance', instance), UNCHANGED << autoTtsCache, registry, reader >>
  PROVE  TtsInv'
<1>1. \A x \in Readers : ReaderFits(reader[x], instance')
  BY FitsLater DEF TtsInv, TtsTypeOK
<1>2. RegistryFits' /\ registry' \in [InstanceKeys -> 0 .. Len(instance')]
  BY RegistryLater
<1>3. instance' \in Seq(Instance) /\ Len(instance') <= MaxInstances /\ Counted(instance')
  BY DEF Extends
<1> QED BY <1>1, <1>2, <1>3 DEF TtsInv, TtsTypeOK
-----------------------------------------------------------------------------
(* A record of an instance with another upload, or another warm-up.        *)
LEMMA ChangedInstance ==
  ASSUME TtsInv, NEW i \in DOMAIN instance, NEW x \in Instance,
         x.clone = instance[i].clone,
         x.uploads = IF x.upload = "none" THEN 0 ELSE 1,
         x.upload # "none" => x.clone,
         instance[i].upload # "none" => x.upload # "none",
         instance[i].upload = "named" => x.upload = "named"
  PROVE  Extends([instance EXCEPT ![i] = x], instance)
<1> DEFINE new == [instance EXCEPT ![i] = x]
<1>1. instance \in Seq(Instance) /\ Len(instance) <= MaxInstances /\ Counted(instance)
  BY DEF TtsInv, TtsTypeOK
<1>2. new \in Seq(Instance) /\ Len(new) = Len(instance) /\ DOMAIN new = DOMAIN instance
  BY <1>1
<1>3. \A j \in DOMAIN instance : new[j] = IF j = i THEN x ELSE instance[j]
  OBVIOUS
<1> HIDE DEF new
<1>4. Counted(new)
  BY <1>1, <1>2, <1>3 DEF Counted
<1>5. \A j \in DOMAIN instance :
         /\ new[j].clone = instance[j].clone
         /\ instance[j].upload # "none" => new[j].upload # "none"
         /\ instance[j].upload = "named" => new[j].upload = "named"
  BY <1>3
<1>6. Extends(new, instance)
  BY <1>1, <1>2, <1>4, <1>5 DEF Extends
<1> QED BY <1>6 DEF new

(* Whoever needs the reference: the upload has begun, once.                *)
LEMMA UploadFromExtends ==
  ASSUME TtsInv, NEW i \in DOMAIN instance, Cloning(i)
  PROVE  Extends(UploadFrom(i), instance) /\ UploadFrom(i)[i].upload # "none"
<1>1. instance \in Seq(Instance) /\ instance[i] \in Instance
  BY DEF TtsInv, TtsTypeOK
<1>2. CASE instance[i].upload = "none"
  <2> DEFINE x == [instance[i] EXCEPT !.upload = "pending", !.uploads = 1]
  <2>1. instance[i].uploads = 0
    BY <1>2 DEF TtsInv, Counted
  <2>2. x \in Instance /\ x.clone = instance[i].clone /\ x.upload = "pending" /\ x.uploads = 1
    BY <1>1 DEF Instance
  <2>3. UploadFrom(i) = [instance EXCEPT ![i] = x]
    <3>1. x = Uploading(instance[i])
      <4>1. instance[i].uploads + 1 = 1
        BY <2>1
      <4> QED BY <4>1, Zenon DEF Uploading
    <3> HIDE DEF x
    <3> QED BY <1>2, <3>1 DEF UploadFrom
  <2>4. x.clone
    BY <2>2 DEF Cloning
  <2> HIDE DEF x
  <2>5. Extends([instance EXCEPT ![i] = x], instance)
    BY <1>2, <2>2, <2>4, ChangedInstance
  <2>6. [instance EXCEPT ![i] = x][i] = x
    BY <1>1
  <2> QED BY <2>2, <2>3, <2>5, <2>6
<1>3. CASE instance[i].upload # "none"
  <2>1. UploadFrom(i) = instance
    BY <1>3 DEF UploadFrom
  <2> QED BY <1>1, <1>3, <2>1 DEF Extends, TtsInv, TtsTypeOK
<1> QED BY <1>2, <1>3
-----------------------------------------------------------------------------
(* The invariant holds at the start.                                       *)
LEMMA InitTts == TtsInit => TtsInv
<1> SUFFICES ASSUME TtsInit PROVE TtsInv
  OBVIOUS
<1>1. Resting \in Reader /\ ReaderFits(Resting, instance)
  BY TtsAssumption DEF Resting, Reader, Config, Servers, ReaderFits
<1>2. instance \in Seq(Instance) /\ Len(instance) = 0
  BY DEF TtsInit
<1>3. TtsTypeOK
  BY <1>1, <1>2, TtsAssumption DEF TtsInit, TtsTypeOK
<1> QED BY <1>1, <1>2, <1>3 DEF TtsInit, TtsInv, Counted, RegistryFits

(* A call that has been given an instance.                                 *)
LEMMA ReadyType ==
  ASSUME NEW f \in Reader, NEW n \in 0 .. MaxInstances, f.mode = "predefined"
  PROVE  LET g == [f EXCEPT !.at = "ready", !.of = n] IN
         g \in Reader /\ g.at = "ready" /\ g.of = n /\ g.clone = f.clone /\ g.mode = "predefined"
<1> DEFINE g == [f EXCEPT !.at = "ready", !.of = n]
<1>1. g \in Reader
  BY DEF Reader
<1>2. g.at = "ready" /\ g.of = n /\ g.clone = f.clone /\ g.mode = "predefined"
  BY DEF Reader
<1> QED BY <1>1, <1>2

(* A call for a profile, with what the registry has under its key.         *)
LEMMA KeyedFits ==
  ASSUME TtsInv, NEW f \in Reader, f.mode = "predefined"
  PROVE  Keyed(f) \in Reader /\ ReaderFits(Keyed(f), instance)
<1>1. KeyOf(f) \in InstanceKeys /\ KeyOf(f).clone = f.clone
  BY DEF KeyOf, InstanceKeys, Reader
<1>2. /\ registry[KeyOf(f)] \in 0 .. Len(instance) /\ Len(instance) \in 0 .. MaxInstances
      /\ DOMAIN instance = 1 .. Len(instance)
  BY <1>1, TtsAssumption DEF TtsInv, TtsTypeOK
<1>3. registry[KeyOf(f)] > 0 => instance[registry[KeyOf(f)]].clone = f.clone
  BY <1>1 DEF TtsInv, RegistryFits
<1>4. CASE registry[KeyOf(f)] > 0
  <2>0. PICK n \in 0 .. MaxInstances : n = registry[KeyOf(f)]
    BY <1>2, TtsAssumption
  <2> DEFINE g == [f EXCEPT !.at = "ready", !.of = n]
  <2>1. g \in Reader
    BY ReadyType
  <2>2. g.at = "ready" /\ g.of = registry[KeyOf(f)] /\ g.clone = f.clone /\ g.mode = "predefined"
    BY <2>0, ReadyType
  <2>3. Keyed(f) = g
    BY <1>4, <2>0 DEF Keyed
  <2> QED BY <1>2, <1>3, <1>4, <2>1, <2>2, <2>3 DEF ReaderFits
<1>5. CASE ~ (registry[KeyOf(f)] > 0)
  <2> DEFINE g == [f EXCEPT !.at = "key"]
  <2>1. g \in Reader /\ g.at = "key" /\ g.mode = "predefined"
    BY DEF Reader
  <2>2. Keyed(f) = g
    BY <1>5 DEF Keyed
  <2> QED BY <2>1, <2>2 DEF ReaderFits
<1> QED BY <1>4, <1>5

(* The choice of a server, and of an instance.                             *)
LEMMA ChoiceKeeps ==
  ASSUME TtsInv, NEW r \in Readers,
         \/ \E auto \in BOOLEAN, clone \in BOOLEAN : AskFor(r, auto, clone)
         \/ SilentServer(r) \/ Probed(r)
  PROVE  TtsInv'
<1> DEFINE f == reader[r]
<1>0. f \in Reader /\ ReaderFits(f, instance) /\ autoTtsCache \in Config \cup {"none"}
  BY DEF TtsInv, TtsTypeOK
<1>1. ASSUME NEW auto \in BOOLEAN, NEW clone \in BOOLEAN, AskFor(r, auto, clone) PROVE TtsInv'
  <2> DEFINE g == [Resting EXCEPT !.clone = clone]
  <2>1. g \in Reader /\ g.mode = "predefined"
    BY TtsAssumption DEF Resting, Reader, Config, Servers
  <2>2. \A c \in Config : [g EXCEPT !.config = c] \in Reader /\ [g EXCEPT !.config = c].mode = "predefined"
    BY <2>1 DEF Reader
  <2>3. [g EXCEPT !.at = "probe1"] \in Reader /\ ReaderFits([g EXCEPT !.at = "probe1"], instance)
    BY <2>1 DEF Reader, ReaderFits
  <2>4. "chatterbox" \in Config
    BY DEF Config, Servers
  <2> HIDE DEF g
  <2>5. UNCHANGED << autoTtsCache, registry, instance >>
    BY <1>1 DEF AskFor
  <2>6. \/ \E c \in Config : Set(r, Keyed([g EXCEPT !.config = c]))
        \/ Set(r, [g EXCEPT !.at = "probe1"])
    BY <1>0, <1>1, <2>4 DEF AskFor, g
  <2>7. \A c \in Config : /\ Keyed([g EXCEPT !.config = c]) \in Reader
                          /\ ReaderFits(Keyed([g EXCEPT !.config = c]), instance)
    BY <2>2, KeyedFits
  <2> QED BY <1>0, <2>3, <2>5, <2>6, <2>7, OnlyReader
<1>2. CASE SilentServer(r)
  <2>1. [f EXCEPT !.at = "probe2"] \in Reader /\ ReaderFits([f EXCEPT !.at = "probe2"], instance)
    BY <1>0, <1>2 DEF Reader, ReaderFits, SilentServer
  <2> QED BY <1>0, <1>2, <2>1, OnlyReader DEF SilentServer
<1>3. CASE Probed(r)
  <2>1. PICK c \in Config : ChosenAuto(r, c) /\ f.at # "request"
    BY <1>3 DEF Probed, Config, Servers
  <2>2. [f EXCEPT !.config = c] \in Reader /\ [f EXCEPT !.config = c].mode = "predefined"
    BY <1>0, <2>1 DEF Reader, ReaderFits
  <2>3. /\ Keyed([f EXCEPT !.config = c]) \in Reader
        /\ ReaderFits(Keyed([f EXCEPT !.config = c]), instance)
    BY <2>2, KeyedFits
  <2>4. Set(r, Keyed([f EXCEPT !.config = c])) /\ autoTtsCache' = c /\ UNCHANGED << registry, instance >>
    BY <2>1 DEF ChosenAuto
  <2> QED BY <2>3, <2>4, OnlyReader
<1> QED BY <1>1, <1>2, <1>3

(* A new instance is registered; the one registered before lives on in the *)
(* calls that have it.                                                     *)
LEMMA CreatedKeeps ==
  ASSUME TtsInv, NEW r \in Readers, NEW warm \in BOOLEAN, Created(r, warm)
  PROVE  TtsInv'
<1> DEFINE f == reader[r]
           n == Len(instance) + 1
           x == [New EXCEPT !.config = f.config, !.clone = f.clone, !.warm = warm]
           g == [f EXCEPT !.at = "ready", !.of = n]
<1>0. /\ f \in Reader /\ ReaderFits(f, instance) /\ instance \in Seq(Instance) /\ Len(instance) \in Nat
      /\ Len(instance) < MaxInstances /\ f.at = "key" /\ n \in 1 .. MaxInstances
  BY TtsAssumption DEF TtsInv, TtsTypeOK, Created
<1>1. x \in Instance /\ x.clone = f.clone /\ x.upload = "none" /\ x.uploads = 0
  BY <1>0 DEF New, Instance, Reader, Config
<1>2. /\ g \in Reader /\ g.at = "ready" /\ g.of = n /\ g.clone = f.clone /\ g.mode = "predefined"
  <2>1. f.mode = "predefined" /\ n \in 0 .. MaxInstances
    BY <1>0, TtsAssumption DEF ReaderFits
  <2> HIDE DEF n
  <2> QED BY <1>0, <2>1, ReadyType
<1>3. /\ instance' = Append(instance, x) /\ registry' = [registry EXCEPT ![KeyOf(f)] = n]
      /\ Set(r, g) /\ UNCHANGED autoTtsCache
  BY DEF Created
<1> HIDE DEF x, g
<1>4. /\ instance' \in Seq(Instance) /\ Len(instance') = n /\ instance'[n] = x
      /\ \A i \in DOMAIN instance : instance'[i] = instance[i]
      /\ DOMAIN instance' = 1 .. n /\ DOMAIN instance = 1 .. n - 1
  BY <1>0, <1>1, <1>3
<1>5. Counted(instance')
  BY <1>0, <1>1, <1>4 DEF Counted, TtsInv
<1>6. Extends(instance', instance)
  BY <1>0, <1>4, <1>5 DEF Extends
<1>7. \A y \in Readers : ReaderFits(reader'[y], instance')
  <2> SUFFICES ASSUME NEW y \in Readers PROVE ReaderFits(reader'[y], instance')
    OBVIOUS
  <2>1. CASE y = r
    BY <1>0, <1>1, <1>2, <1>3, <1>4, <2>1 DEF ReaderFits, Set, TtsInv, TtsTypeOK
  <2>2. CASE y # r
    BY <1>0, <1>3, <1>6, <2>2, FitsLater DEF Set, TtsInv, TtsTypeOK
  <2> QED BY <2>1, <2>2
<1>8. registry' \in [InstanceKeys -> 0 .. Len(instance')]
  <2>1. registry \in [InstanceKeys -> 0 .. n] /\ n \in 0 .. n
    BY <1>0 DEF TtsInv, TtsTypeOK
  <2> HIDE DEF n
  <2> QED BY <1>3, <1>4, <2>1
<1>9. RegistryFits'
  <2> SUFFICES ASSUME NEW k \in InstanceKeys, registry'[k] > 0 PROVE instance'[registry'[k]].clone = k.clone
    BY DEF RegistryFits
  <2>1. CASE k = KeyOf(f)
    BY <1>1, <1>3, <1>4, <2>1 DEF KeyOf, InstanceKeys, TtsInv, TtsTypeOK
  <2>2. CASE k # KeyOf(f)
    <3>1. registry'[k] = registry[k] /\ registry[k] \in 0 .. Len(instance)
      BY <1>3, <2>2 DEF TtsInv, TtsTypeOK
    <3>2. registry[k] \in DOMAIN instance
      BY <1>0, <1>4, <3>1
    <3> QED BY <1>4, <3>1, <3>2 DEF TtsInv, RegistryFits
  <2> QED BY <2>1, <2>2
<1>10. reader' \in [Readers -> Reader]
  BY <1>2, <1>3 DEF Set, TtsInv, TtsTypeOK
<1> QED BY <1>0, <1>3, <1>4, <1>5, <1>7, <1>8, <1>9, <1>10 DEF TtsInv, TtsTypeOK

(* The calls that use an instance.                                         *)
LEMMA UseKeeps ==
  ASSUME TtsInv, NEW r \in Readers, Synthesize(r) \/ Awaited(r) \/ Answered(r)
  PROVE  TtsInv'
<1> DEFINE f == reader[r]
<1>0. f \in Reader /\ ReaderFits(f, instance) /\ autoTtsCache \in Config \cup {"none"}
  BY DEF TtsInv, TtsTypeOK
<1>r. Resting \in Reader /\ ReaderFits(Resting, instance)
  BY TtsAssumption DEF Resting, Reader, Config, Servers, ReaderFits
<1>1. CASE Synthesize(r)
  <2>0. f.at = "ready" /\ f.of \in DOMAIN instance
    BY <1>0, <1>1 DEF Synthesize, ReaderFits
  <2>1. CASE Cloning(f.of)
    <3> DEFINE g == [f EXCEPT !.at = "upload"]
    <3>1. /\ Extends(UploadFrom(f.of), instance) /\ UploadFrom(f.of)[f.of].upload # "none"
      BY <2>0, <2>1, UploadFromExtends
    <3>2. instance' = UploadFrom(f.of) /\ Set(r, g) /\ UNCHANGED << autoTtsCache, registry >>
      BY <1>1, <2>1 DEF Synthesize
    <3>3. g \in Reader /\ g.at = "upload" /\ g.of = f.of /\ g.clone = f.clone /\ g.mode = f.mode
      BY <1>0 DEF Reader
    <3>4. ReaderFits(f, instance')
      BY <1>0, <3>1, <3>2, FitsLater DEF TtsInv, TtsTypeOK
    <3>5. ReaderFits(g, instance')
      BY <2>0, <3>1, <3>2, <3>3, <3>4 DEF ReaderFits
    <3> HIDE DEF g
    <3> QED BY <3>1, <3>2, <3>3, <3>5, InstanceAndReader
  <2>2. CASE ~ Cloning(f.of)
    <3>1. /\ [f EXCEPT !.at = "request"] \in Reader
          /\ ReaderFits([f EXCEPT !.at = "request"], instance)
      BY <1>0, <2>0 DEF Reader, ReaderFits
    <3> QED BY <1>0, <1>1, <2>2, <3>1, OnlyReader DEF Synthesize
  <2> QED BY <2>1, <2>2
<1>2. CASE Awaited(r)
  <2>0. /\ f.at = "upload" /\ f.of \in DOMAIN instance /\ UNCHANGED << autoTtsCache, registry, instance >>
        /\ instance[f.of] \in Instance
    BY <1>0, <1>2 DEF Awaited, ReaderFits, TtsInv, TtsTypeOK
  <2>1. \/ Set(r, [f EXCEPT !.at = "request", !.mode = "clone"]) /\ instance[f.of].upload = "named"
        \/ Set(r, [f EXCEPT !.at = "request"])
        \/ Set(r, Resting)
    BY <1>2 DEF Awaited
  <2>2. /\ [f EXCEPT !.at = "request"] \in Reader
        /\ ReaderFits([f EXCEPT !.at = "request"], instance)
    BY <1>0, <2>0 DEF Reader, ReaderFits
  <2>3. /\ [f EXCEPT !.at = "request", !.mode = "clone"] \in Reader
        /\ instance[f.of].upload = "named" => ReaderFits([f EXCEPT !.at = "request", !.mode = "clone"], instance)
    <3> DEFINE g == [f EXCEPT !.at = "request", !.mode = "clone"]
    <3>1. g \in Reader
      BY <1>0 DEF Reader
    <3>2. g.at = "request" /\ g.of = f.of /\ g.clone = f.clone /\ g.mode = "clone"
      BY <1>0 DEF Reader
    <3>3. instance[f.of].clone = f.clone
      BY <1>0, <2>0 DEF ReaderFits
    <3>4. instance[f.of].upload # "none" => instance[f.of].clone
      BY <2>0 DEF TtsInv, Counted
    <3> HIDE DEF f, g
    <3>5. instance[f.of].upload = "named" => f.clone
      BY <3>3, <3>4
    <3>6. instance[f.of].upload = "named" => ReaderFits(g, instance)
      BY <2>0, <3>2, <3>3, <3>5 DEF ReaderFits
    <3> QED BY <3>1, <3>6 DEF g
  <2> QED BY <1>0, <1>r, <2>0, <2>1, <2>2, <2>3, OnlyReader
<1>3. CASE Answered(r)
  BY <1>0, <1>r, <1>3, OnlyReader DEF Answered
<1> QED BY <1>1, <1>2, <1>3

(* The reference sample: who needs it has it uploaded, and its upload      *)
(* ends.                                                                   *)
LEMMA ReferenceKeeps ==
  ASSUME TtsInv, NEW i \in DOMAIN instance,
         \/ Warmup(i)
         \/ \E outcome \in {"named", "nothing", "rejected"} : Uploaded(i, outcome)
  PROVE  TtsInv'
<1>0. instance \in Seq(Instance) /\ instance[i] \in Instance
  BY DEF TtsInv, TtsTypeOK
<1>1. CASE Warmup(i)
  <2> DEFINE new == IF Cloning(i) THEN UploadFrom(i) ELSE instance
             y   == [new[i] EXCEPT !.warm = FALSE]
  <2>1. Extends(new, instance)
    <3>1. Extends(instance, instance)
      BY <1>0 DEF Extends, TtsInv, TtsTypeOK
    <3> QED BY <3>1, UploadFromExtends
  <2>2. new \in Seq(Instance) /\ new[i] \in Instance /\ DOMAIN new = DOMAIN instance
    BY <1>0, <2>1 DEF UploadFrom, Extends
  <2>3. y \in Instance
    BY <2>2 DEF Instance
  <2>4. y.clone = new[i].clone /\ y.upload = new[i].upload /\ y.uploads = new[i].uploads
    BY <2>2 DEF Instance
  <2>5. instance' = [new EXCEPT ![i] = y] /\ UNCHANGED << autoTtsCache, registry, reader >>
    BY <1>1 DEF Warmup
  <2> HIDE DEF new, y
  <2>6. instance' \in Seq(Instance) /\ Len(instance') = Len(new) /\ DOMAIN instance' = DOMAIN new
    BY <2>2, <2>3, <2>5
  <2>7. \A j \in DOMAIN new : instance'[j] = IF j = i THEN y ELSE new[j]
    BY <2>5
  <2>8. Extends(instance', instance)
    BY <2>1, <2>2, <2>4, <2>6, <2>7 DEF Extends, Counted
  <2> QED BY <2>5, <2>8, OnlyInstance
<1>2. ASSUME NEW outcome \in {"named", "nothing", "rejected"}, Uploaded(i, outcome) PROVE TtsInv'
  <2> DEFINE x == [instance[i] EXCEPT !.upload = outcome]
  <2>1. instance[i].upload = "pending" /\ instance[i].uploads = 1
    BY <1>2 DEF Uploaded, TtsInv, Counted
  <2>2. x \in Instance
    BY <1>0 DEF Instance
  <2>3. x.clone = instance[i].clone /\ x.upload = outcome /\ x.uploads = 1
    BY <1>0, <2>1 DEF Instance
  <2>4. instance' = [instance EXCEPT ![i] = x] /\ UNCHANGED << autoTtsCache, registry, reader >>
    BY <1>2 DEF Uploaded
  <2> HIDE DEF x
  <2>5. x.clone
    BY <1>0, <2>1, <2>3 DEF TtsInv, Counted
  <2>6. Extends([instance EXCEPT ![i] = x], instance)
    BY <2>1, <2>2, <2>3, <2>5, ChangedInstance
  <2> QED BY <2>4, <2>6, OnlyInstance
<1> QED BY <1>1, <1>2

(* Every step keeps the invariant.                                         *)
LEMMA NextTts == TtsInv /\ [TtsNext]_ttsVars => TtsInv'
<1> SUFFICES ASSUME TtsInv, [TtsNext]_ttsVars PROVE TtsInv'
  OBVIOUS
<1>1. CASE Forgotten
  BY <1>1 DEF Forgotten, TtsInv, TtsTypeOK, RegistryFits
<1>2. CASE UNCHANGED ttsVars
  BY <1>2 DEF ttsVars, TtsInv, TtsTypeOK, RegistryFits
<1> QED BY <1>1, <1>2, ChoiceKeeps, CreatedKeeps, UseKeeps, ReferenceKeeps DEF TtsNext

(* The inductive invariant holds in every reachable state.                 *)
THEOREM TtsInvariant == TtsSpec => []TtsInv
BY InitTts, NextTts, PTL DEF TtsSpec

(* However many calls and warm-ups share an instance, the reference is     *)
(* uploaded at most once, and a request clones only what its instance has  *)
(* uploaded (ensureReferenceUploaded).                                     *)
THEOREM OneUpload == TtsSpec => [](TtsTypeOK /\ UploadedOnce)
<1>1. TtsInv => TtsTypeOK /\ UploadedOnce
  BY DEF TtsInv, UploadedOnce, Counted, ReaderFits
<1> QED BY TtsInvariant, <1>1, PTL

-----------------------------------------------------------------------------
(* The file.                                                               *)

(* The collections whose default is one of their profiles.                 *)
Good == {c \in Collection : c.default \in DOMAIN c.profiles}

Call == [at : {"idle", "fill", "write"}, kind : Kinds, id : Ids, to : Bindings,
         out : Collection \cup {Absent}, stale : BOOLEAN]

(* Two collections that differ in one profile at most.                     *)
Differs(new, old) == \E i \in Ids : Without(new, i) = Without(old, i)

(* An operation writes a good collection; when nobody replaced the file    *)
(* since it was loaded, the file is not broken, and what is written        *)
(* differs from it in one profile at most.                                 *)
CallFits(f, file) ==
  f.at # "idle" =>
    /\ f.out \in Good
    /\ ~ f.stale => file # Broken /\ (f.at = "write" => Differs(f.out, file))

ProfileInv ==
  /\ store \in Good \cup {Absent, Broken}
  /\ caller \in [Callers -> Call]
  /\ \A c \in Callers : CallFits(caller[c], store)

-----------------------------------------------------------------------------
(* What a good collection is.                                              *)
LEMMA GoodParts ==
  ASSUME NEW c \in Good
  PROVE  /\ c.version \in {1, 2} /\ DOMAIN c.profiles \in SUBSET Ids
         /\ c.default \in DOMAIN c.profiles /\ c.default \in Ids
         /\ c.profiles \in [DOMAIN c.profiles -> Bindings]
         /\ c \in [version : {1, 2}, default : Ids, profiles : [DOMAIN c.profiles -> Bindings]]
         /\ c # Absent /\ c # Broken
<1>1. PICK S \in SUBSET Ids : c \in [version : {1, 2}, default : Ids, profiles : [S -> Bindings]]
  BY DEF Good, Collection
<1>2. DOMAIN c.profiles = S
  BY <1>1
<1>3. c.default \in DOMAIN c.profiles
  BY DEF Good
<1>4. Absent.version = 0 /\ Broken.version = -1
  BY DEF Absent, Broken
<1> QED BY <1>1, <1>2, <1>3, <1>4

(* How a collection is shown to be good.                                   *)
LEMMA GoodRecord ==
  ASSUME NEW S \in SUBSET Ids, NEW c \in [version : {1, 2}, default : Ids, profiles : [S -> Bindings]],
         c.default \in S
  PROVE  c \in Good
<1>1. c \in Collection
  BY DEF Collection
<1>2. DOMAIN c.profiles = S
  OBVIOUS
<1> QED BY <1>1, <1>2 DEF Good

(* Other profiles, the default among them.                                 *)
LEMMA ProfilesChanged ==
  ASSUME NEW c \in Good, NEW S \in SUBSET Ids, NEW p \in [S -> Bindings], c.default \in S
  PROVE  [c EXCEPT !.profiles = p] \in Good /\ [c EXCEPT !.profiles = p].profiles = p
<1> DEFINE x == [c EXCEPT !.profiles = p]
           T == S
<1>1. c \in [version : {1, 2}, default : Ids, profiles : [DOMAIN c.profiles -> Bindings]]
  BY GoodParts
<1>2. T \in SUBSET Ids /\ c.default \in T /\ c.default \in Ids /\ p \in [T -> Bindings]
  BY GoodParts
<1> HIDE DEF T
<1>3. x \in [version : {1, 2}, default : Ids, profiles : [T -> Bindings]]
  BY <1>1, <1>2
<1>4. x.default = c.default /\ x.profiles = p
  BY <1>1
<1> HIDE DEF x
<1>5. x \in Good
  BY <1>2, <1>3, <1>4, GoodRecord
<1> QED BY <1>4, <1>5 DEF x

(* Another default.                                                        *)
LEMMA DefaultChanged ==
  ASSUME NEW c \in Good, NEW i \in DOMAIN c.profiles
  PROVE  [c EXCEPT !.default = i] \in Good /\ [c EXCEPT !.default = i].profiles = c.profiles
<1> DEFINE x == [c EXCEPT !.default = i]
           T == DOMAIN c.profiles
<1>1. c \in [version : {1, 2}, default : Ids, profiles : [DOMAIN c.profiles -> Bindings]]
  BY GoodParts
<1>2. T \in SUBSET Ids /\ i \in T /\ i \in Ids /\ c.profiles \in [T -> Bindings]
  BY GoodParts
<1> HIDE DEF T
<1>3. x \in [version : {1, 2}, default : Ids, profiles : [T -> Bindings]]
  BY <1>1, <1>2
<1>4. x.default = i /\ x.profiles = c.profiles
  BY <1>1
<1> HIDE DEF x
<1>5. x \in Good
  BY <1>2, <1>3, <1>4, GoodRecord
<1> QED BY <1>4, <1>5 DEF x
-----------------------------------------------------------------------------
(* A collection as it is loaded is good.                                   *)
LEMMA NormalGood ==
  ASSUME NEW c \in Good \cup {Absent}
  PROVE  Normal(c) \in Good
<1>1. CASE c = Absent
  <2> DEFINE i == CHOOSE j \in Ids : TRUE
  <2>1. i \in Ids
    BY ProfileAssumption
  <2> HIDE DEF i
  <2> DEFINE p == [j \in {i} |-> "auto"]
             d == [version |-> 2, default |-> i, profiles |-> p]
  <2>2. p \in [{i} -> Bindings]
    BY DEF Bindings
  <2> HIDE DEF p
  <2>3. d \in [version : {1, 2}, default : Ids, profiles : [{i} -> Bindings]] /\ d.default = i
    BY <2>1, <2>2
  <2> HIDE DEF d
  <2>4. d \in Good
    BY <2>1, <2>3, GoodRecord
  <2>5. Normal(c) = d
    BY <1>1 DEF Normal, DefaultCollection, d, p, i
  <2> QED BY <2>4, <2>5
<1>2. CASE c \in Good
  <2>1. Normal(c) = Migrated(c)
    BY <1>2, GoodParts DEF Normal
  <2>2. CASE c.version >= 2
    BY <1>2, <2>1, <2>2 DEF Migrated
  <2>3. CASE ~ (c.version >= 2)
    <3> DEFINE p == [i \in DOMAIN c.profiles |-> IF c.profiles[i] = "pinned" THEN "auto" ELSE c.profiles[i]]
               d == [c EXCEPT !.version = 2, !.profiles = p]
    <3>1. p \in [DOMAIN c.profiles -> Bindings]
      BY <1>2, GoodParts DEF Bindings
    <3> HIDE DEF p
    <3>2. d \in [version : {1, 2}, default : Ids, profiles : [DOMAIN c.profiles -> Bindings]]
      BY <1>2, <3>1, GoodParts
    <3>3. d.default = c.default
      BY <1>2, GoodParts
    <3> HIDE DEF d
    <3>4. d \in Good
      BY <1>2, <3>2, <3>3, GoodParts, GoodRecord
    <3>5. Migrated(c) = d
      BY <2>3 DEF Migrated, d, p
    <3> QED BY <2>1, <3>4, <3>5
  <2> QED BY <2>2, <2>3
<1> QED BY <1>1, <1>2

(* An operation writes a good collection, and changes one profile.         *)
LEMMA EffectsGood ==
  ASSUME NEW c \in Good, NEW op \in Call, NEW out \in Effects(c, op)
  PROVE  out \in Good /\ Differs(out, c)
<1> DEFINE D == DOMAIN c.profiles
<1>0. D \in SUBSET Ids /\ c.default \in D /\ c.profiles \in [D -> Bindings]
  BY GoodParts
<1>a. op.id \in Ids /\ op.to \in Bindings
  BY DEF Call
<1>b. ASSUME NEW i \in Ids \ D, NEW b \in Bindings PROVE Adding(c, i, b) \in Good /\ Differs(Adding(c, i, b), c)
  <2> DEFINE p == [j \in D \cup {i} |-> IF j = i THEN b ELSE c.profiles[j]]
             x == [c EXCEPT !.profiles = p]
             S == D \cup {i}
  <2>1. p \in [S -> Bindings] /\ S \in SUBSET Ids /\ c.default \in S
    BY <1>0
  <2>2. DOMAIN p = D \cup {i} /\ \A j \in D : j # i => p[j] = c.profiles[j]
    OBVIOUS
  <2> HIDE DEF p, S
  <2>3. x \in Good /\ x.profiles = p
    BY <2>1, ProfilesChanged
  <2>4. Adding(c, i, b) = x
    BY DEF Adding, x, p
  <2> HIDE DEF x
  <2>5. Without(x, i) = Without(c, i)
    BY <2>2, <2>3 DEF Without
  <2> QED BY <2>3, <2>4, <2>5 DEF Differs
<1>1. CASE \E i \in Ids \ D : out = Adding(c, i, op.to)
  BY <1>1, <1>a, <1>b
<1>2. CASE op.id \in D /\ \E i \in Ids \ D : out = Adding(c, i, c.profiles[op.id])
  <2>1. c.profiles[op.id] \in Bindings
    BY <1>0, <1>2
  <2> QED BY <1>2, <1>b, <2>1
<1>3. CASE op.id \in D /\ out = [c EXCEPT !.default = op.id]
  <2>1. out \in Good /\ out.profiles = c.profiles
    BY <1>0, <1>3, DefaultChanged
  <2>2. Without(out, op.id) = Without(c, op.id)
    BY <2>1 DEF Without
  <2> QED BY <1>a, <2>1, <2>2 DEF Differs
<1>4. CASE op.id \in D /\ out = [c EXCEPT !.profiles[op.id] = op.to]
  <2> DEFINE p == [c.profiles EXCEPT ![op.id] = op.to]
  <2>1. p \in [D -> Bindings] /\ \A j \in D : j # op.id => p[j] = c.profiles[j]
    BY <1>0, <1>a, <1>4
  <2>2. out = [c EXCEPT !.profiles = p]
    BY <1>4
  <2> HIDE DEF p
  <2>3. out \in Good /\ out.profiles = p /\ DOMAIN p = D
    <3> HIDE DEF D
    <3>1. DOMAIN p = D
      BY <2>1
    <3> HIDE DEF D
    <3> QED BY <1>0, <2>1, <2>2, <3>1, ProfilesChanged
  <2>4. Without(out, op.id) = Without(c, op.id)
    BY <2>1, <2>3 DEF Without
  <2> QED BY <1>a, <2>3, <2>4 DEF Differs
<1>5. CASE \E i \in DefaultWithout(c, op.id) : out = [c EXCEPT !.profiles = Without(c, op.id), !.default = i]
  <2>1. PICK i \in DefaultWithout(c, op.id) : out = [c EXCEPT !.profiles = Without(c, op.id), !.default = i]
    BY <1>5
  <2>2. i \in D \ {op.id}
    BY <1>0 DEF DefaultWithout
  <2> DEFINE p == Without(c, op.id)
  <2>3. p \in [D \ {op.id} -> Bindings] /\ \A j \in D : j # op.id => p[j] = c.profiles[j]
    BY <1>0 DEF Without
  <2> HIDE DEF p
  <2> DEFINE S == D \ {op.id}
  <2>4. S \in SUBSET Ids /\ p \in [S -> Bindings] /\ i \in S /\ out = [c EXCEPT !.profiles = p, !.default = i]
    BY <1>0, <2>1, <2>2, <2>3 DEF p
  <2> HIDE DEF S
  <2>a. out \in Good /\ out.profiles = p /\ DOMAIN p = S
    <3>1. c \in [version : {1, 2}, default : Ids, profiles : [D -> Bindings]]
      BY GoodParts
    <3>2. i \in Ids /\ DOMAIN p = S
      BY <2>4
    <3> HIDE DEF D
    <3>3. out \in [version : {1, 2}, default : Ids, profiles : [S -> Bindings]]
      BY <2>4, <3>1, <3>2
    <3>4. out.default = i /\ out.profiles = p
      BY <2>4, <3>1
    <3> QED BY <2>4, <3>2, <3>3, <3>4, GoodRecord
  <2>5. Without(out, op.id) = Without(c, op.id)
    BY <2>3, <2>a DEF Without, S
  <2> QED BY <1>a, <2>a, <2>5 DEF Differs
<1> QED BY <1>1, <1>2, <1>3, <1>4, <1>5 DEF Effects

(* A call that goes on, or ends, with the collection it loaded.            *)
LEMMA NextFits ==
  ASSUME NEW from \in Good, NEW op \in Call, NEW n \in Next(op, from)
  PROVE  n \in Call /\ CallFits(n, from)
<1>0. Free \in Call /\ Free.at = "idle"
  BY ProfileAssumption DEF Free, Call, Kinds, Bindings
<1>1. CASE n = Free
  BY <1>0, <1>1 DEF CallFits
<1>2. CASE \E out \in Effects(from, op) : n = [Free EXCEPT !.at = "write", !.out = out]
  <2>1. PICK out \in Effects(from, op) : n = [Free EXCEPT !.at = "write", !.out = out]
    BY <1>2
  <2>2. out \in Good /\ Differs(out, from)
    BY EffectsGood
  <2>3. out \in Collection
    BY <2>2 DEF Good
  <2>4. n \in Call
    BY <1>0, <2>1, <2>3 DEF Call
  <2>5. n.out = out
    BY <1>0, <2>1 DEF Call
  <2>6. from # Broken
    BY GoodParts
  <2> QED BY <2>2, <2>4, <2>5, <2>6 DEF CallFits
<1> QED BY <1>1, <1>2 DEF Next
-----------------------------------------------------------------------------
(* The invariant holds at the start.                                       *)
LEMMA InitProfile == ProfileInit => ProfileInv
<1> SUFFICES ASSUME ProfileInit PROVE ProfileInv
  OBVIOUS
<1>0. Free \in Call /\ Free.at = "idle"
  BY ProfileAssumption DEF Free, Call, Kinds, Bindings
<1>1. ASSUME NEW i \in Ids, NEW b \in {"auto", "pinned"},
             store = [version |-> 1, default |-> i, profiles |-> [j \in {i} |-> b]]
      PROVE  store \in Good
  <2> DEFINE p == [j \in {i} |-> b]
  <2>1. p \in [{i} -> Bindings]
    BY DEF Bindings
  <2> HIDE DEF p
  <2>2. store \in [version : {1, 2}, default : Ids, profiles : [{i} -> Bindings]] /\ store.default = i
    BY <1>1, <2>1 DEF p
  <2> QED BY <2>2, GoodRecord
<1>2. store \in Good \cup {Absent, Broken}
  BY <1>1 DEF ProfileInit
<1> QED BY <1>0, <1>2 DEF ProfileInit, ProfileInv, CallFits

(* Every step keeps the invariant, and the operation that replaces the     *)
(* file does what OneProfileAtATime says.                                  *)
Careful ==
  \A c \in Callers :
    caller'[c].at # caller[c].at /\ store' # store /\ ~ caller[c].stale =>
      /\ store # Broken
      /\ caller[c].at = "write" => \E i \in Ids : Without(store', i) = Without(store, i)

(* What the callers ask for.                                               *)
LEMMA RequestType ==
  ASSUME NEW op \in Requests
  PROVE  op \in Call
<1>1. ASSUME NEW kind \in Kinds, NEW ids \in SUBSET Ids, NEW tos \in SUBSET Bindings,
             NEW x \in Request(kind, ids, tos)
      PROVE  x \in Call
  BY DEF Request, Call
<1>2. /\ {Free.id} \in SUBSET Ids /\ {"auto"} \in SUBSET Bindings
      /\ {"list", "update", "import", "setDefault", "duplicate", "delete"} \subseteq Kinds
  BY ProfileAssumption DEF Free, Kinds, Bindings
<1> QED BY <1>1, <1>2 DEF Requests

(* A request is loaded: what the file has, or what a new file will have.   *)
LEMMA LoadKeeps ==
  ASSUME ProfileInv, NEW c \in Callers, NEW op \in Requests, Load(c, op)
  PROVE  ProfileInv' /\ Careful
<1> DEFINE from == Normal(store)
<1>1. from \in Good /\ store # Broken /\ UNCHANGED store
  BY NormalGood DEF Load, ProfileInv
<1>2. op \in Call
  BY RequestType
<1> DEFINE g == [op EXCEPT !.at = "fill", !.out = from]
<1>3. g \in Call /\ g.at = "fill" /\ g.out = from
  BY <1>1, <1>2 DEF Call, Good
<1>4. PICK n \in IF store = from THEN Next(op, from) ELSE {g} : caller' = [caller EXCEPT ![c] = n]
  BY DEF Load
<1> HIDE DEF from, g
<1>5. n \in Call /\ CallFits(n, store)
  BY <1>1, <1>2, <1>3, <1>4, NextFits DEF CallFits
<1> QED BY <1>1, <1>4, <1>5 DEF ProfileInv, Careful

(* An operation under way when the file was replaced is stale, and then    *)
(* nothing more is asked of it.                                            *)
LEMMA StaleFits ==
  ASSUME ProfileInv, NEW d \in Callers, NEW file
  PROVE  LET new == [caller[d] EXCEPT !.stale = caller[d].at # "idle"] IN
         new \in Call /\ new.at = caller[d].at /\ CallFits(new, file)
<1> DEFINE new == [caller[d] EXCEPT !.stale = caller[d].at # "idle"]
<1>1. caller[d] \in Call /\ CallFits(caller[d], store)
  BY DEF ProfileInv
<1> DEFINE b == caller[d].at # "idle"
<1>2. PICK x \in BOOLEAN : x = b
  OBVIOUS
<1>3. new = [caller[d] EXCEPT !.stale = x]
  BY <1>2
<1>4. caller[d].at # "idle" => x
  BY <1>2
<1> HIDE DEF b, new
<1>5. new \in Call
  BY <1>1, <1>3 DEF Call
<1>6. new.at = caller[d].at /\ new.out = caller[d].out /\ new.stale = x
  BY <1>1, <1>3 DEF Call
<1>7. new.at # "idle" => new.stale
  BY <1>4, <1>6
<1>8. CallFits(new, file)
  BY <1>1, <1>6, <1>7 DEF CallFits
<1> QED BY <1>5, <1>6, <1>8 DEF new

(* The file is replaced: the other operations loaded an older one.         *)
LEMMA ReplaceKeeps ==
  ASSUME ProfileInv, NEW c \in Callers, caller[c].at # "idle",
         NEW n \in Call, CallFits(n, caller[c].out), Replace(c, n)
  PROVE  ProfileInv' /\ Careful
<1> DEFINE old(d) == [caller[d] EXCEPT !.stale = caller[d].at # "idle"]
<1>1. CallFits(caller[c], store) /\ caller[c].out \in Good
  BY DEF ProfileInv, CallFits
<1>2. /\ store' = caller[c].out /\ store' \in Good
      /\ caller' = [d \in Callers |-> IF d = c THEN n ELSE old(d)]
  BY <1>1 DEF Replace
<1>3. ASSUME NEW d \in Callers
      PROVE  /\ old(d) \in Call /\ old(d).at = caller[d].at
             /\ CallFits(old(d), store')
  BY StaleFits
<1> HIDE DEF old
<1>4. caller' \in [Callers -> Call] /\ \A d \in Callers : CallFits(caller'[d], store')
  BY <1>1, <1>2, <1>3
<1>5. ASSUME NEW d \in Callers, caller'[d].at # caller[d].at, ~ caller[d].stale
      PROVE  /\ store # Broken
             /\ caller[d].at = "write" => \E i \in Ids : Without(store', i) = Without(store, i)
  <2>1. d = c
    BY <1>2, <1>3, <1>5
  <2> QED BY <1>1, <1>2, <1>5, <2>1 DEF CallFits, Differs
<1> QED BY <1>2, <1>4, <1>5 DEF ProfileInv, Careful

(* Every step keeps the invariant and changes one profile at most.         *)
LEMMA NextProfile == ProfileInv /\ [ProfileNext]_profileVars => ProfileInv' /\ (UNCHANGED profileVars \/ Careful)
<1> SUFFICES ASSUME ProfileInv, [ProfileNext]_profileVars PROVE ProfileInv' /\ (UNCHANGED profileVars \/ Careful)
  OBVIOUS
<1>0. Free \in Call /\ Free.at = "idle"
  BY ProfileAssumption DEF Free, Call, Kinds, Bindings
<1>1. ASSUME NEW c \in Callers, Fill(c) PROVE ProfileInv' /\ Careful
  <2>1. PICK n \in Next(caller[c], caller[c].out) : caller[c].at = "fill" /\ Replace(c, n)
    BY <1>1 DEF Fill
  <2>2. caller[c] \in Call /\ caller[c].out \in Good
    BY <2>1 DEF ProfileInv, CallFits
  <2>3. n \in Call /\ CallFits(n, caller[c].out)
    BY <2>2, NextFits
  <2> QED BY <2>1, <2>3, ReplaceKeeps
<1>2. ASSUME NEW c \in Callers, Write(c) PROVE ProfileInv' /\ Careful
  BY <1>0, <1>2, ReplaceKeeps DEF Write, CallFits
<1>3. ASSUME NEW c \in Callers, Closed(c) PROVE ProfileInv' /\ Careful
  BY <1>0, <1>3 DEF Closed, ProfileInv, CallFits, Careful
<1>4. CASE EditByHand
  <2> DEFINE new(d) == [caller[d] EXCEPT !.stale = caller[d].at # "idle"]
  <2>1. store' = Broken /\ caller' = [d \in Callers |-> new(d)]
    BY <1>4 DEF EditByHand
  <2>2. ASSUME NEW d \in Callers
        PROVE  new(d) \in Call /\ new(d).at = caller[d].at /\ CallFits(new(d), Broken)
    BY StaleFits DEF ProfileInv
  <2> HIDE DEF new
  <2> QED BY <2>1, <2>2 DEF ProfileInv, Careful
<1>5. CASE UNCHANGED profileVars
  BY <1>5 DEF profileVars, ProfileInv
<1> QED BY <1>1, <1>2, <1>3, <1>4, <1>5, LoadKeeps DEF ProfileNext

(* The inductive invariant holds in every reachable state.                 *)
THEOREM ProfileInvariant == ProfileSpec => []ProfileInv
BY InitProfile, NextProfile, PTL DEF ProfileSpec

(* The variables have their types.                                         *)
THEOREM ProfileTypes == ProfileSpec => []ProfileTypeOK
<1>1. ProfileInv => ProfileTypeOK
  BY DEF ProfileInv, ProfileTypeOK, Good, Call
<1> QED BY ProfileInvariant, <1>1, PTL

(* Whatever operations overlap, the default is one of the profiles, and an *)
(* operation nobody interfered with changes one profile at most, and no    *)
(* file broken by hand (ProfileRepository.load, write).                    *)
THEOREM KeepsProfiles == ProfileSpec => ProfilesKept
<1>1. ProfileInv => DefaultExists
  BY GoodParts DEF ProfileInv, DefaultExists, Valid, Absent, Broken
<1>2. ProfileInv /\ [ProfileNext]_profileVars => [Careful]_profileVars
  BY NextProfile
<1>3. ProfileSpec => []DefaultExists
  BY ProfileInvariant, <1>1, PTL
<1>4. ProfileSpec => [][Careful]_profileVars
  BY ProfileInvariant, <1>2, PTL DEF ProfileSpec
<1> QED BY <1>3, <1>4 DEF ProfilesKept, OneProfileAtATime, Careful

-----------------------------------------------------------------------------
(* The voice.                                                              *)

(* A reference that may get into the profile, ReferenceSound of one.       *)
Sound(ref) ==
  ref # NoReference =>
    ref.holds = "usable" \/ ref.live \/ (ref.waived /\ ref.holds = "opaque")

(* A sample the wizard has checked is usable, or was taken unverified.     *)
CheckedFits ==
  \A w \in Wizards : wizard[w].at = "checked" =>
    wizard[w].holds = "usable" \/ (wizard[w].waived /\ wizard[w].holds = "opaque")

(* What a save of the form leaves of a profile but its voice; and while    *)
(* nobody else changed it, the profile is the one it loaded, or, once it   *)
(* has saved, the one it saves.                                            *)
Rest(p) == p = [form.base EXCEPT !.voice = p.voice, !.parameters = collectParameterValues,
                                 !.markdown = "usual"]

FormFits ==
  /\ form.at # "closed" /\ form.since = "nothing" => selected = form.base
  /\ form.at # "closed" /\ form.since = "saved" => Rest(selected)
  /\ form.at = "saving" => Rest(form.shown)

VoiceInv ==
  /\ VoiceTypeOK /\ CheckedFits /\ FormFits
  /\ Sound(selected.reference) /\ Sound(form.base.reference) /\ Sound(form.shown.reference)

-----------------------------------------------------------------------------
(* What the profile starts with.                                           *)
LEMMA NothingType ==
  /\ NoReference \in Reference /\ Sound(NoReference) /\ NoWizard \in Wizard
  /\ NoForm \in Form /\ NoForm.at = "closed"
  /\ NoForm.base.reference = NoReference /\ NoForm.shown.reference = NoReference
<1>1. NoReference \in Reference /\ Sound(NoReference)
  BY DEF NoReference, Reference, Quality, Sound
<1>2. NoWizard \in Wizard
  BY DEF NoWizard, Wizard, Quality
<1>3. NoForm \in Form /\ NoForm.at = "closed"
  BY <1>1 DEF NoForm, NoProfile, Form, VoiceProfile, Voice
<1>4. NoForm.base.reference = NoReference /\ NoForm.shown.reference = NoReference
  BY DEF NoForm, NoProfile
<1> QED BY <1>1, <1>2, <1>3, <1>4

(* The profile, the form and the wizards fit to begin with.                *)
LEMMA InitVoice == VoiceInit => VoiceInv
<1> SUFFICES ASSUME VoiceInit PROVE VoiceInv
  OBVIOUS
<1>1. /\ selected \in VoiceProfile /\ selected.reference = NoReference
      /\ wizard = [w \in Wizards |-> NoWizard] /\ form = NoForm
      /\ recording = [w \in Wizards |-> "none"]
  BY NothingType DEF VoiceInit
<1>2. VoiceTypeOK
  BY <1>1, NothingType DEF VoiceTypeOK, Quality
<1>3. CheckedFits
  BY <1>1 DEF CheckedFits, NoWizard
<1>4. FormFits
  BY <1>1, NothingType DEF FormFits
<1> QED BY <1>1, <1>2, <1>3, <1>4, NothingType DEF VoiceInv

(* A change of the profile by others than the form.                        *)
LEMMA UpdateKeeps ==
  ASSUME VoiceInv, NEW b \in VoiceProfile, Sound(b.reference), Update(b),
         recording' \in [Wizards -> Quality \ {"opaque"}], wizard' \in [Wizards -> Wizard],
         CheckedFits'
  PROVE  VoiceInv'
<1>1. /\ selected' = b /\ form \in Form
      /\ form' = IF form.at = "closed" THEN form ELSE [form EXCEPT !.since = "changed"]
  BY DEF Update, VoiceInv, VoiceTypeOK
<1>2. form' \in Form
  BY <1>1 DEF Form
<1>3. /\ form'.at = form.at /\ form'.base = form.base /\ form'.shown = form.shown
      /\ form'.listed = form.listed
  BY <1>1 DEF Form
<1>4. form.at # "closed" => form'.since = "changed"
  BY <1>1 DEF Form
<1>5. FormFits'
  BY <1>3, <1>4 DEF VoiceInv, FormFits, Rest, collectParameterValues
<1>6. VoiceTypeOK'
  BY <1>1, <1>2 DEF VoiceInv, VoiceTypeOK
<1> QED BY <1>1, <1>3, <1>5, <1>6 DEF VoiceInv

(* A setup of the voice, and a voice picked from a list.                   *)
LEMMA VoiceChoiceKeeps ==
  ASSUME VoiceInv, SetupVoice \/ BrowseVoices
  PROVE  VoiceInv'
<1>1. selected \in VoiceProfile /\ Sound(selected.reference) /\ CheckedFits /\ wizard \in [Wizards -> Wizard]
  BY DEF VoiceInv, VoiceTypeOK
<1>2. UNCHANGED << recording, wizard >>
  BY DEF SetupVoice, BrowseVoices
<1>3. CheckedFits' /\ wizard' \in [Wizards -> Wizard] /\ recording' \in [Wizards -> Quality \ {"opaque"}]
  BY <1>1, <1>2 DEF CheckedFits, VoiceInv, VoiceTypeOK
<1>4. ASSUME SetupVoice PROVE VoiceInv'
  <2> DEFINE b == [NoProfile EXCEPT !.markdown = selected.markdown]
  <2>1. b \in VoiceProfile /\ b.reference = NoReference
    BY <1>1, NothingType DEF NoProfile, VoiceProfile, Voice
  <2>2. Update(b)
    BY <1>4 DEF SetupVoice
  <2> HIDE DEF b
  <2> QED BY <1>2, <1>3, <2>1, <2>2, NothingType, UpdateKeeps
<1>5. ASSUME BrowseVoices PROVE VoiceInv'
  <2> DEFINE b == [selected EXCEPT !.voice = "picked"]
  <2>1. b \in VoiceProfile /\ b.reference = selected.reference
    BY <1>1 DEF VoiceProfile, Voice
  <2>2. Update(b)
    BY <1>5 DEF BrowseVoices
  <2> HIDE DEF b
  <2> QED BY <1>1, <1>2, <1>3, <2>1, <2>2, UpdateKeeps
<1> QED BY <1>4, <1>5

(* A step of a run of the wizard.                                          *)
LEMMA TakesKeeps ==
  ASSUME VoiceInv, NEW w \in Wizards, NEW r \in Wizard, Takes(w, r),
         r.at = "checked" => r.holds = "usable" \/ (r.waived /\ r.holds = "opaque")
  PROVE  CheckedFits' /\ wizard' \in [Wizards -> Wizard]
BY DEF Takes, VoiceInv, VoiceTypeOK, CheckedFits

(* One that leaves the profile and the form alone.                         *)
LEMMA WizardKeeps ==
  ASSUME VoiceInv, CheckedFits', wizard' \in [Wizards -> Wizard],
         recording' \in [Wizards -> Quality \ {"opaque"}], UNCHANGED << selected, form >>
  PROVE  VoiceInv'
BY DEF VoiceInv, VoiceTypeOK, FormFits, Rest, collectParameterValues

(* The steps of a run of the wizard that do not touch the profile.         *)
LEMMA WizardStepsKeep ==
  ASSUME VoiceInv, NEW w \in Wizards,
         \/ Recorder(w) \/ Appeared(w) \/ Leaves(w)
         \/ \E holds \in Quality : Begins(w, holds)
         \/ \E converted \in BOOLEAN : Validated(w, converted)
  PROVE  VoiceInv'
<1>1. /\ wizard \in [Wizards -> Wizard] /\ recording \in [Wizards -> Quality \ {"opaque"}]
      /\ CheckedFits
  BY DEF VoiceInv, VoiceTypeOK
<1>2. wizard[w] \in Wizard /\ recording[w] \in Quality \ {"opaque"} /\ NoWizard \in Wizard
  BY <1>1, NothingType
<1>3. ASSUME Recorder(w) PROVE VoiceInv'
  <2>1. /\ recording' \in [Wizards -> Quality \ {"opaque"}] /\ UNCHANGED << selected, wizard, form >>
    BY <1>1, <1>3 DEF Recorder, Quality
  <2> QED BY <1>1, <2>1, WizardKeeps DEF CheckedFits
<1>4. ASSUME NEW r \in Wizard, Takes(w, r), UNCHANGED << selected, form >>,
             recording' \in [Wizards -> Quality \ {"opaque"}],
             r.at = "checked" => r.holds = "usable" \/ (r.waived /\ r.holds = "opaque")
      PROVE  VoiceInv'
  BY <1>1, <1>4, TakesKeeps, WizardKeeps
<1>5. ASSUME Appeared(w) PROVE VoiceInv'
  <2> DEFINE r == [wizard[w] EXCEPT !.at = "located", !.holds = recording[w]]
  <2>1. r \in Wizard /\ r.at = "located"
    BY <1>2 DEF Wizard
  <2>2. Takes(w, r) /\ UNCHANGED << selected, recording, form >>
    BY <1>5 DEF Appeared
  <2> HIDE DEF r
  <2> QED BY <1>1, <1>4, <2>1, <2>2
<1>6. ASSUME Leaves(w) PROVE VoiceInv'
  <2>1. recording' \in [Wizards -> Quality \ {"opaque"}]
    BY <1>1, <1>6 DEF Leaves, Quality
  <2> QED BY <1>2, <1>4, <1>6, <2>1 DEF Leaves, NoWizard
<1>7. ASSUME NEW holds \in Quality, Begins(w, holds) PROVE VoiceInv'
  <2> DEFINE r == IF holds = "none" THEN [NoWizard EXCEPT !.at = "wait", !.recorded = TRUE]
                  ELSE [NoWizard EXCEPT !.at = "located", !.holds = holds]
  <2>1. r \in Wizard /\ r.at # "checked"
    BY <1>2 DEF NoWizard, Wizard, Quality
  <2>2. Takes(w, r) /\ UNCHANGED << selected, recording, form >>
    BY <1>7, Zenon DEF Begins
  <2> HIDE DEF r
  <2> QED BY <1>1, <1>4, <2>1, <2>2
<1>8. ASSUME NEW converted \in BOOLEAN, Validated(w, converted) PROVE VoiceInv'
  <2>1. Now(w) \in Quality
    BY <1>2 DEF Now, Wizard
  <2>2. PICK holds \in (IF Now(w) = "opaque" /\ converted THEN {"short", "usable", "useless"}
                        ELSE {Now(w)}) :
          /\ holds = "opaque" \/ Sufficient(holds)
          /\ Takes(w, [wizard[w] EXCEPT !.at = "checked", !.holds = holds,
                         !.copied = converted, !.waived = holds = "opaque"])
    BY <1>8, Zenon DEF Validated
  <2> DEFINE x == holds = "opaque"
             r == [wizard[w] EXCEPT !.at = "checked", !.holds = holds, !.copied = converted,
                                    !.waived = x]
  <2>3. holds \in Quality /\ x \in BOOLEAN /\ (x <=> holds = "opaque")
    BY <2>1 DEF Quality
  <2>4. Takes(w, r) /\ (x \/ holds = "usable")
    BY <2>2 DEF Sufficient
  <2> HIDE DEF x
  <2>5. r \in Wizard /\ r.holds = holds
    BY <1>2, <2>3 DEF Wizard
  <2>6. r.waived = x
    BY <1>2, <2>3 DEF Wizard
  <2>7. UNCHANGED << selected, recording, form >>
    BY <1>8, Zenon DEF Validated
  <2> HIDE DEF r
  <2> QED BY <1>1, <1>4, <2>3, <2>4, <2>5, <2>6, <2>7
<1> QED BY <1>3, <1>5, <1>6, <1>7, <1>8

(* What the wizard brings into the profile.                                *)
LEMMA AppliedKeeps ==
  ASSUME VoiceInv, NEW w \in Wizards, Applied(w)
  PROVE  VoiceInv'
<1> DEFINE r == wizard[w]
           holds == IF r.copied THEN r.holds ELSE Now(w)
           late == holds # r.holds
           ref == [holds |-> holds, live |-> late, waived |-> r.waived]
           b == [selected EXCEPT !.reference = ref]
<1>1. /\ r \in Wizard /\ recording[w] \in Quality /\ selected \in VoiceProfile
      /\ r.holds = "usable" \/ (r.waived /\ r.holds = "opaque")
  BY DEF VoiceInv, VoiceTypeOK, CheckedFits, Applied
<1>2. holds \in Quality
  BY <1>1 DEF Now, Wizard
<1>3. late \in BOOLEAN /\ (late <=> holds # r.holds)
  OBVIOUS
<1>4. Update(b) /\ Takes(w, NoWizard) /\ recording' = [recording EXCEPT ![w] = "none"]
  BY DEF Applied
<1> HIDE DEF holds, late
<1>5. ref \in Reference /\ ref.holds = holds
  BY <1>1, <1>2, <1>3 DEF Reference, Wizard
<1>6. ref.live = late /\ ref.waived = r.waived
  OBVIOUS
<1> HIDE DEF ref
<1>7. Sound(ref)
  BY <1>1, <1>3, <1>5, <1>6, Zenon DEF Sound
<1>8. b \in VoiceProfile /\ b.reference = ref
  BY <1>1, <1>5 DEF VoiceProfile
<1> HIDE DEF b
<1>9. CheckedFits' /\ wizard' \in [Wizards -> Wizard] /\ recording' \in [Wizards -> Quality \ {"opaque"}]
  BY <1>4, NothingType, TakesKeeps DEF NoWizard, VoiceInv, VoiceTypeOK, Quality
<1> QED BY <1>4, <1>7, <1>8, <1>9, UpdateKeeps

(* The form.                                                               *)
LEMMA FormKeeps ==
  ASSUME VoiceInv,
         (\E listed \in BOOLEAN : OpenForm(listed)) \/ EditForm \/ Submit \/ HandleSave
           \/ CloseForm
  PROVE  VoiceInv'
<1>1. /\ selected \in VoiceProfile /\ form \in Form /\ FormFits /\ VoiceTypeOK /\ CheckedFits
      /\ Sound(selected.reference) /\ Sound(form.base.reference) /\ Sound(form.shown.reference)
      /\ form.base \in VoiceProfile /\ form.shown \in VoiceProfile
  BY DEF VoiceInv, VoiceTypeOK, Form
<1>2. UNCHANGED << recording, wizard >>
  BY DEF OpenForm, EditForm, Submit, HandleSave, CloseForm
<1>3. ASSUME selected' \in VoiceProfile, form' \in Form, FormFits', Sound(selected'.reference),
             Sound(form'.base.reference), Sound(form'.shown.reference)
      PROVE  VoiceInv'
  BY <1>1, <1>2, <1>3 DEF VoiceInv, VoiceTypeOK, CheckedFits
<1>4. ASSUME NEW listed \in BOOLEAN, OpenForm(listed) PROVE VoiceInv'
  <2>1. /\ form' = [at |-> "open", base |-> selected, shown |-> selected, listed |-> listed,
                    since |-> "nothing"]
        /\ selected' = selected
    BY <1>4 DEF OpenForm, NoForm
  <2>2. /\ form' \in Form /\ form'.at = "open" /\ form'.base = selected /\ form'.shown = selected
        /\ form'.since = "nothing"
    BY <1>1, <2>1 DEF Form
  <2>3. FormFits'
    BY <2>1, <2>2 DEF FormFits
  <2> QED BY <1>1, <1>3, <2>1, <2>2, <2>3
<1>5. ASSUME EditForm PROVE VoiceInv'
  <2>1. PICK v \in Voice : form' = [form EXCEPT !.shown.voice = v]
    BY <1>5 DEF EditForm
  <2> DEFINE b == [form.shown EXCEPT !.voice = v]
  <2>2. form' = [form EXCEPT !.shown = b]
    BY <1>1, <2>1 DEF Form
  <2>3. b \in VoiceProfile /\ b.reference = form.shown.reference
    BY <1>1 DEF VoiceProfile
  <2> HIDE DEF b
  <2>4. /\ form' \in Form /\ form'.at = form.at /\ form'.base = form.base /\ form'.shown = b
        /\ form'.since = form.since /\ form'.listed = form.listed
    BY <1>1, <2>2, <2>3 DEF Form
  <2>5. selected' = selected /\ form.at = "open"
    BY <1>5 DEF EditForm
  <2>6. FormFits'
    BY <1>1, <2>4, <2>5 DEF FormFits, Rest, collectParameterValues
  <2> QED BY <1>1, <1>3, <2>3, <2>4, <2>5, <2>6
<1>6. ASSUME Submit PROVE VoiceInv'
  <2> DEFINE b == CollectFormProfile
  <2>1. form' = [form EXCEPT !.at = "saving", !.shown = b] /\ selected' = selected /\ form.at = "open"
    BY <1>6 DEF Submit
  <2>2. form.shown.voice \in Voice /\ collectParameterValues \in {"none", "defaults", "own"}
    BY <1>1 DEF VoiceProfile, collectParameterValues
  <2>3. b \in VoiceProfile /\ b.reference = form.base.reference /\ Rest(b)
    BY <1>1, <2>2 DEF VoiceProfile, CollectFormProfile, Rest
  <2> HIDE DEF b
  <2>4. /\ form' \in Form /\ form'.at = "saving" /\ form'.base = form.base /\ form'.shown = b
        /\ form'.since = form.since /\ form'.listed = form.listed
    BY <1>1, <2>1, <2>3 DEF Form
  <2>5. FormFits'
    BY <1>1, <2>1, <2>3, <2>4 DEF FormFits, Rest, collectParameterValues
  <2> QED BY <1>1, <1>3, <2>1, <2>3, <2>4, <2>5
<1>7. ASSUME HandleSave, selected' = selected, form' = [form EXCEPT !.at = "open"] PROVE VoiceInv'
  <2>1. /\ form' \in Form /\ form'.at = "open" /\ form'.base = form.base /\ form'.shown = form.shown
        /\ form'.since = form.since /\ form'.listed = form.listed
    BY <1>1, <1>7 DEF Form
  <2>2. form.at = "saving"
    BY <1>7 DEF HandleSave
  <2>3. FormFits'
    BY <1>1, <1>7, <2>1, <2>2 DEF FormFits, Rest, collectParameterValues
  <2> QED BY <1>1, <1>3, <1>7, <2>1, <2>3
<1>8. ASSUME HandleSave, selected' = form.shown,
             form' = [form EXCEPT !.at = "open", !.since = IF @ = "nothing" THEN "saved" ELSE @]
      PROVE  VoiceInv'
  <2>1. /\ form' \in Form /\ form'.at = "open" /\ form'.base = form.base /\ form'.shown = form.shown
        /\ form'.listed = form.listed /\ form'.since # "nothing"
    BY <1>1, <1>8 DEF Form
  <2>2. form.at = "saving"
    BY <1>8 DEF HandleSave
  <2>3. FormFits'
    BY <1>1, <1>8, <2>1, <2>2 DEF FormFits, Rest, collectParameterValues
  <2> QED BY <1>1, <1>3, <1>8, <2>1, <2>3
<1>9. ASSUME CloseForm PROVE VoiceInv'
  BY <1>1, <1>3, <1>9, NothingType DEF CloseForm, FormFits
<1> QED BY <1>4, <1>5, <1>6, <1>7, <1>8, <1>9 DEF HandleSave

(* Every step keeps them fitting.                                          *)
LEMMA NextVoice == VoiceInv /\ [VoiceNext]_voiceVars => VoiceInv'
<1> SUFFICES ASSUME VoiceInv, [VoiceNext]_voiceVars PROVE VoiceInv'
  OBVIOUS
<1>1. ASSUME UNCHANGED voiceVars PROVE VoiceInv'
  BY <1>1 DEF voiceVars, VoiceInv, VoiceTypeOK, CheckedFits, FormFits, Rest, collectParameterValues
<1> QED BY <1>1, VoiceChoiceKeeps, WizardStepsKeep, AppliedKeeps, FormKeeps DEF VoiceNext

(* Types, forms and references fit in every reachable state.               *)
THEOREM VoiceInvariant == VoiceSpec => []VoiceInv
BY InitVoice, NextVoice, PTL DEF VoiceSpec

(* The variables of the voice choice have their types.                     *)
THEOREM VoiceTypes == VoiceSpec => []VoiceTypeOK
<1>1. VoiceInv => VoiceTypeOK
  BY DEF VoiceInv
<1> QED BY <1>1, VoiceInvariant, PTL

(* Nothing that was refused becomes the reference of a profile, and        *)
(* however often a form is saved that nobody got ahead of, the reference   *)
(* stays, described parameters of the user's own stay, and after the first *)
(* save only the voice changes (useOwnVoiceFlow.ts, profileEditor.js).     *)
THEOREM KeepsVoice == VoiceSpec => VoiceKept
<1>1. VoiceInv => ReferenceSound
  BY DEF VoiceInv, Sound, ReferenceSound
<1>2. ASSUME VoiceInv, [VoiceNext]_voiceVars
      PROVE  form.at = "saving" /\ form'.at = "open" /\ form.since # "changed" =>
               /\ selected'.reference = selected.reference
               /\ form.listed /\ selected.parameters = "own" => selected'.parameters = "own"
               /\ form.since = "saved" => selected' = [selected EXCEPT !.voice = selected'.voice]
  <2> SUFFICES ASSUME form.at = "saving", form'.at = "open", form.since # "changed"
               PROVE  /\ selected'.reference = selected.reference
                      /\ form.listed /\ selected.parameters = "own" => selected'.parameters = "own"
                      /\ form.since = "saved" => selected' = [selected EXCEPT !.voice = selected'.voice]
    OBVIOUS
  <2>1. form \in Form /\ FormFits /\ selected \in VoiceProfile
    BY <1>2 DEF VoiceInv, VoiceTypeOK
  <2>2. /\ Rest(form.shown)
        /\ form.since = "nothing" => selected = form.base
        /\ form.since = "saved" => Rest(selected)
        /\ form.base \in VoiceProfile /\ form.since \in {"nothing", "saved"}
    BY <2>1 DEF FormFits, Form
  <2>3. selected' = selected \/ selected' = form.shown
    <3>1. ASSUME NEW b, Update(b) PROVE FALSE
      BY <2>1, <3>1 DEF Update, Form
    <3>2. ~ SetupVoice /\ ~ BrowseVoices /\ \A w \in Wizards : ~ Applied(w)
      BY <3>1 DEF SetupVoice, BrowseVoices, Applied
    <3>3. ASSUME NEW w \in Wizards,
                 \/ Recorder(w) \/ Appeared(w) \/ Leaves(w)
                 \/ \E holds \in Quality : Begins(w, holds)
                 \/ \E converted \in BOOLEAN : Validated(w, converted)
          PROVE  selected' = selected
      BY <3>3, Zenon DEF Recorder, Appeared, Leaves, Begins, Validated
    <3>4. ASSUME (\E listed \in BOOLEAN : OpenForm(listed)) \/ EditForm \/ Submit \/ CloseForm
          PROVE  selected' = selected
      BY <3>4, Zenon DEF OpenForm, EditForm, Submit, CloseForm
    <3>5. ASSUME HandleSave PROVE selected' = selected \/ selected' = form.shown
      BY <3>5 DEF HandleSave
    <3>6. ASSUME UNCHANGED voiceVars PROVE selected' = selected
      BY <3>6 DEF voiceVars
    <3> QED BY <1>2, <3>2, <3>3, <3>4, <3>5, <3>6 DEF VoiceNext
  <2>4. CASE selected' = selected
    BY <2>1, <2>4 DEF VoiceProfile
  <2>5. CASE selected' = form.shown
    <3> DEFINE given == collectParameterValues
    <3>1. /\ form.shown.reference = form.base.reference /\ form.shown.parameters = given
          /\ form.shown.markdown = "usual"
          /\ selected.reference = form.base.reference
          /\ form.since = "saved" => selected.parameters = given /\ selected.markdown = "usual"
      <4>1. ASSUME NEW p, Rest(p)
            PROVE  p.reference = form.base.reference /\ p.parameters = given /\ p.markdown = "usual"
        BY <2>2, <4>1 DEF VoiceProfile, Rest
      <4> QED BY <2>2, <4>1
    <3>2. form.listed /\ selected.parameters = "own" => given = "own"
      <4>1. CASE form.since = "nothing"
        BY <2>2, <4>1 DEF collectParameterValues
      <4>2. CASE form.since = "saved"
        BY <3>1, <4>2
      <4> QED BY <2>2, <4>1, <4>2
    <3>3. form.shown \in VoiceProfile
      BY <2>1 DEF Form
    <3> HIDE DEF given
    <3>4. form.since = "saved" => form.shown = [selected EXCEPT !.voice = form.shown.voice]
      BY <2>1, <3>1, <3>3 DEF VoiceProfile
    <3> QED BY <2>5, <3>1, <3>2, <3>4
  <2> QED BY <2>3, <2>4, <2>5
<1> QED BY <1>1, <1>2, VoiceInvariant, PTL DEF VoiceSpec, VoiceKept, FormKeepsTheRest
=============================================================================
