------------------------------- MODULE Egress -------------------------------
(***************************************************************************)
(* What leaves the machine: the guard every provider's request goes        *)
(* through (net/EgressGuard.ts), built once from settings that change      *)
(* later, a resolver that may answer anything, twice differently, and the  *)
(* verification behind the badge of the status bar                         *)
(* (net/verifyLocalMode.ts).                                               *)
(*                                                                         *)
(* A host is the loopback by its name, one the user trusts, or another; a  *)
(* request is its host and its scheme, and an address is loopback or not.  *)
(***************************************************************************)
EXTENDS Integers

CONSTANTS
  Fetches,       \* bound: requests under way at once
  Profiles       \* providers of the profiles: [tts : Hosts, narrator : Hosts \cup {"none"}]

Hosts   == {"localhost", "company", "other"}
Schemes == {"http:", "https:", "file:"}

ASSUME EgressAssumption == Profiles # {} /\ Profiles \subseteq [tts : Hosts, narrator : Hosts \cup {"none"}]

VARIABLES
  settings,      \* privacy.localOnly and whether network.trustedHosts is set
  guard,         \* the mode, the trusted hosts and strictLocal of the guard
  profile,       \* the selected profile
  badge,         \* cachedLocalModeResult: the badge, and whether the voice is remote
  stale,         \* refreshes of the badge waiting for the selected profile
  request,       \* the requests under way
  dialled        \* history: what was connected to

egressVars == << settings, guard, profile, badge, stale, request, dialled >>

Settings == [localOnly : BOOLEAN, trusting : BOOLEAN]

egressMode(s)   == IF s.localOnly THEN "local" ELSE IF s.trusting THEN "trusted" ELSE "open"
trustedHosts(s) == IF s.trusting THEN {"company"} ELSE {}

Quiet == [at |-> "idle", host |-> "localhost", scheme |-> "http:", ip |-> "none"]
FetchState == [at : {"idle", "resolve", "dial", "reply"}, host : Hosts, scheme : Schemes,
               ip : {"none", "loopback", "public"}]

EgressInit ==
  /\ settings \in Settings /\ profile \in Profiles
  /\ \E strict \in BOOLEAN :
       guard = [mode |-> egressMode(settings), trusted |-> trustedHosts(settings), strict |-> strict]
  /\ badge = [local |-> FALSE, remote |-> FALSE] /\ stale = TRUE
  /\ request = [r \in Fetches |-> Quiet] /\ dialled = {}
-----------------------------------------------------------------------------
Effective == IF guard.strict THEN "local" ELSE guard.mode

(* assertAllowed() for a host that is not the loopback by its name.        *)
MayLeave(host, scheme) ==
  /\ Effective = "trusted" => host \in guard.trusted
  /\ Effective # "local" /\ (host \in guard.trusted => scheme = "https:")

Denied(r) == request' = [request EXCEPT ![r] = Quiet]

Fetch(r, host, scheme) ==
  LET q == [Quiet EXCEPT !.host = host, !.scheme = scheme] IN
  /\ request[r].at = "idle" /\ scheme \in {"http:", "https:"}
  /\ \/ host = "localhost" /\ request' = [request EXCEPT ![r] = [q EXCEPT !.at = "resolve"]]
     \/ host # "localhost" /\ MayLeave(host, scheme)
        /\ request' = [request EXCEPT ![r] = [q EXCEPT !.at = "dial"]]
  /\ UNCHANGED << settings, guard, profile, badge, stale, dialled >>

(* The name is resolved, and every address has to be the loopback.         *)
Resolved(r, ips) ==
  /\ request[r].at = "resolve"
  /\ IF ips = {"loopback"} THEN request' = [request EXCEPT ![r] = [@ EXCEPT !.at = "dial", !.ip = "loopback"]]
     ELSE Denied(r)
  /\ UNCHANGED << settings, guard, profile, badge, stale, dialled >>

(* The address that was resolved is dialled.  Faulty variant: the name is, *)
(* which is resolved once more.                                            *)
TargetByName(r) == {"loopback", "public"}
TargetOf(r)     == IF request[r].ip = "none" THEN {"public"} ELSE {request[r].ip}

Dialled(r) ==
  /\ request[r].at = "dial"
  /\ \E ip \in TargetOf(r) :
       dialled' = dialled \cup {[to |-> ip, host |-> request[r].host, scheme |-> request[r].scheme]}
  /\ request' = [request EXCEPT ![r].at = "reply"]
  /\ UNCHANGED << settings, guard, profile, badge, stale >>

(* The reply is handed over; a redirection is not followed, and refused    *)
(* when it leads to another host or scheme.                                *)
Replied(r) ==
  /\ request[r].at = "reply" /\ Denied(r)
  /\ UNCHANGED << settings, guard, profile, badge, stale, dialled >>
-----------------------------------------------------------------------------
(* The ten controls, as computeLocalModeResult() feeds them: whether other *)
(* modules call the network was not inspected.                             *)
Loopback(host) == IF host \in {"localhost", "none"} THEN "ok" ELSE "fail"
Controls(s, p) ==
  << Loopback(p.tts), Loopback(p.narrator), IF egressMode(s) = "local" THEN "ok" ELSE "fail",
     "ok", IF guard.strict THEN "ok" ELSE "warn", "ok", "ok", "ok", "unverifiable", "unverifiable" >>

Blocking == {1, 2, 3, 7, 8, 9}

(* The badge is green when every blocking control is "ok"; the voice is    *)
(* shown as remote by the first control.                                   *)
BadgeOf(s, p) == [local  |-> \A c \in Blocking : Controls(s, p)[c] = "ok",
                   remote |-> Controls(s, p)[1] = "fail"]

Configure(s) ==
  /\ settings' = s /\ stale' = TRUE
  /\ UNCHANGED << guard, profile, badge, request, dialled >>

SelectProfile(p) ==
  /\ profile' = p /\ badge' = BadgeOf(settings, p)
  /\ UNCHANGED << settings, guard, stale, request, dialled >>

(* refreshLocalModeBadge(), once the selected profile has been read.       *)
Refreshed ==
  /\ stale /\ stale' = FALSE /\ badge' = BadgeOf(settings, profile)
  /\ UNCHANGED << settings, guard, profile, request, dialled >>

(* The window is reloaded: the guard takes the settings there are.         *)
Restart ==
  /\ guard' = [guard EXCEPT !.mode = egressMode(settings), !.trusted = trustedHosts(settings)]
  /\ request' = [r \in Fetches |-> Quiet] /\ dialled' = {} /\ stale' = TRUE
  /\ badge' = [local |-> FALSE, remote |-> FALSE] /\ UNCHANGED << settings, profile >>

EgressNext ==
  \/ \E r \in Fetches :
       \/ \E host \in Hosts, scheme \in Schemes : Fetch(r, host, scheme)
       \/ \E ips \in SUBSET {"loopback", "public"} : Resolved(r, ips)
       \/ Dialled(r) \/ Replied(r)
  \/ \E s \in Settings : Configure(s)
  \/ \E p \in Profiles : SelectProfile(p)
  \/ Refreshed \/ Restart

EgressSpec == EgressInit /\ [][EgressNext]_egressVars
-----------------------------------------------------------------------------
EgressTypeOK ==
  /\ settings \in Settings /\ profile \in Profiles /\ stale \in BOOLEAN
  /\ guard \in [mode : {"local", "trusted", "open"}, trusted : SUBSET Hosts, strict : BOOLEAN]
  /\ badge \in [local : BOOLEAN, remote : BOOLEAN] /\ request \in [Fetches -> FetchState]
  /\ dialled \subseteq [to : {"loopback", "public"}, host : Hosts, scheme : Schemes]

(* Whatever the resolver answers, and whatever is configured while a       *)
(* request is under way, a guard that is local connects to the loopback    *)
(* alone, one that trusts hosts to those hosts and with TLS, and the name  *)
(* of the loopback never leads off the machine (assertAllowed, fetch).     *)
LocalStaysLocal ==
  \A d \in dialled : d.to = "public" =>
     /\ d.host # "localhost" /\ Effective # "local"
     /\ Effective = "trusted" => d.host \in guard.trusted
     /\ d.host \in guard.trusted => d.scheme = "https:"
=============================================================================
