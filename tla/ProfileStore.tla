---------------------------- MODULE ProfileStore ----------------------------
(***************************************************************************)
(* profiles.json (profiles/ProfileRepository.ts): every operation loads    *)
(* the file, changes the collection and replaces the file, without a lock. *)
(* Commands, the editor panels and other windows call it at any time.  The *)
(* profile selected last, an id in the global state, is left out.          *)
(*                                                                         *)
(* A profile is its voice binding: left to the extension, pinned to the    *)
(* default server as the first releases wrote it, or chosen by the user.   *)
(* The order of the profiles matters in one place only, the default that   *)
(* replaces a deleted one, which may be any of them here.                  *)
(***************************************************************************)
EXTENDS Integers, FiniteSets

CONSTANTS
  Ids,           \* profile ids
  Callers        \* bound: operations under way at once

ASSUME ProfileAssumption == Ids # {} /\ IsFiniteSet(Ids)

VARIABLES
  store,         \* the file
  caller         \* the operations under way

profileVars == << store, caller >>

Bindings == {"auto", "pinned", "own"}

(* The file is absent, broken by hand, or a collection.                    *)
Collection == UNION {[version : {1, 2}, default : Ids, profiles : [S -> Bindings]] : S \in SUBSET Ids}
Absent == [version |-> 0, default |-> "none", profiles |-> << >>]
Broken == [version |-> -1, default |-> "none", profiles |-> << >>]
Valid(c) == c.version > 0

DefaultCollection == [version |-> 2, default |-> CHOOSE i \in Ids : TRUE,
                      profiles |-> [i \in {CHOOSE i \in Ids : TRUE} |-> "auto"]]

(* `stale`: history, the file was replaced since the operation loaded it.  *)
Free == [at |-> "idle", kind |-> "list", id |-> CHOOSE i \in Ids : TRUE, to |-> "auto",
         out |-> Absent, stale |-> FALSE]

ProfileInit ==
  /\ \/ store = Absent
     \/ \E i \in Ids, b \in {"auto", "pinned"} :
          store = [version |-> 1, default |-> i, profiles |-> [j \in {i} |-> b]]
  /\ caller = [c \in Callers |-> Free]
-----------------------------------------------------------------------------
(* migrateProfileCollection(): once, so that a user may pin a server later *)
(* on.                                                                     *)
Migrated(c) ==
  IF c.version >= 2 THEN c
  ELSE [c EXCEPT !.version = 2,
          !.profiles = [i \in DOMAIN @ |-> IF @[i] = "pinned" THEN "auto" ELSE @[i]]]

Normal(c) == IF c = Absent THEN DefaultCollection ELSE Migrated(c)

Without(c, i) == [j \in DOMAIN c.profiles \ {i} |-> c.profiles[j]]
Adding(c, i, b) == [c EXCEPT !.profiles = [j \in DOMAIN @ \cup {i} |-> IF j = i THEN b ELSE @[j]]]

(* The default once profile i is deleted.  Faulty variant: it stays.       *)
DefaultKept(c, i)    == {c.default}
DefaultWithout(c, i) == IF c.default = i THEN DOMAIN c.profiles \ {i} ELSE {c.default}

(* What an operation writes for the collection it loaded: nothing when it  *)
(* throws.  duplicate() and import() take an id nobody has (uniqueId).     *)
Effects(c, op) ==
  LET there == op.id \in DOMAIN c.profiles IN
  CASE op.kind = "import" -> {Adding(c, i, op.to) : i \in Ids \ DOMAIN c.profiles}
    [] op.kind = "duplicate" /\ there  -> {Adding(c, i, c.profiles[op.id]) : i \in Ids \ DOMAIN c.profiles}
    [] op.kind = "setDefault" /\ there -> {[c EXCEPT !.default = op.id]}
    [] op.kind = "update" /\ there     -> {[c EXCEPT !.profiles[op.id] = op.to]}
    [] op.kind = "delete" /\ there /\ Cardinality(DOMAIN c.profiles) > 1 ->
         {[c EXCEPT !.profiles = Without(c, op.id), !.default = i] : i \in DefaultWithout(c, op.id)}
    [] OTHER -> {}

Kinds == {"list", "setDefault", "duplicate", "import", "update", "delete"}
-----------------------------------------------------------------------------
Request(kind, ids, tos) ==
  [at : {"idle"}, kind : {kind}, id : ids, to : tos, out : {Absent}, stale : {FALSE}]
Requests ==
  Request("list", {Free.id}, {"auto"}) \cup Request("update", Ids, Bindings)
  \cup Request("import", {Free.id}, Bindings)
  \cup UNION {Request(kind, Ids, {"auto"}) : kind \in {"setDefault", "duplicate", "delete"}}

(* What a call is up to once it has a collection: the modification is      *)
(* computed at once; a read, and an operation that throws, end there.      *)
Next(op, from) ==
  IF Effects(from, op) = {} THEN {Free}
  ELSE {[Free EXCEPT !.at = "write", !.out = out] : out \in Effects(from, op)}

(* load(): an absent or an old file is first written back, even for a      *)
(* read; a file that does not parse makes every operation throw.  Faulty   *)
(* variant: it is taken for an absent one.                                 *)
LoadForgiving(c, op) ==
  LET from == Normal(IF store = Broken THEN Absent ELSE store) IN
  /\ caller[c].at = "idle"
  /\ \E n \in IF store = from THEN Next(op, from) ELSE {[op EXCEPT !.at = "fill", !.out = from]} :
        caller' = [caller EXCEPT ![c] = n]
  /\ UNCHANGED store
Load(c, op) ==
  LET from == Normal(store) IN
  /\ caller[c].at = "idle" /\ store # Broken
  /\ \E n \in IF store = from THEN Next(op, from) ELSE {[op EXCEPT !.at = "fill", !.out = from]} :
        caller' = [caller EXCEPT ![c] = n]
  /\ UNCHANGED store

(* write(): a temporary file renamed over the old one.                     *)
Replace(c, n) ==
  /\ store' = caller[c].out
  /\ caller' = [d \in Callers |-> IF d = c THEN n
                                  ELSE [caller[d] EXCEPT !.stale = caller[d].at # "idle"]]

Fill(c)  == caller[c].at = "fill" /\ \E n \in Next(caller[c], caller[c].out) : Replace(c, n)
Write(c) == caller[c].at = "write" /\ Replace(c, Free)

(* Open Profiles: the user edits the file, and may break it.               *)
EditByHand ==
  /\ Valid(store) /\ store' = Broken
  /\ caller' = [c \in Callers |-> [caller[c] EXCEPT !.stale = caller[c].at # "idle"]]

(* The window is closed in the middle of an operation.                     *)
Closed(c) ==
  /\ caller[c].at # "idle" /\ caller' = [caller EXCEPT ![c] = Free]
  /\ UNCHANGED store

ProfileNext ==
  \/ \E c \in Callers :
       \/ \E op \in Requests : Load(c, op)
       \/ Fill(c) \/ Write(c) \/ Closed(c)
  \/ EditByHand

ProfileSpec == ProfileInit /\ [][ProfileNext]_profileVars
-----------------------------------------------------------------------------
ProfileTypeOK ==
  /\ store \in Collection \cup {Absent, Broken}
  /\ caller \in [Callers -> [at : {"idle", "fill", "write"}, kind : Kinds, id : Ids, to : Bindings,
                             out : Collection \cup {Absent}, stale : BOOLEAN]]

(* Whatever operations overlap and overwrite each other, the file always   *)
(* has a profile, and its default is one of them (delete, setDefault).     *)
DefaultExists == Valid(store) => store.default \in DOMAIN store.profiles

(* An operation during which nobody else replaced the file changes one     *)
(* profile at most, and no operation that finds a file broken by hand      *)
(* replaces it.  (Without the first condition updates are lost.)           *)
OneProfileAtATime ==
  [][\A c \in Callers :
       caller'[c].at # caller[c].at /\ store' # store /\ ~ caller[c].stale =>
         /\ store # Broken
         /\ caller[c].at = "write" => \E i \in Ids : Without(store', i) = Without(store, i)]_profileVars

(* Both, of every behaviour of the store.                                  *)
ProfilesKept == []DefaultExists /\ OneProfileAtATime
=============================================================================
