----------------------------- MODULE ClaudeHook -----------------------------
(***************************************************************************)
(* The hook that makes Claude Code drop its answers in the inbox: an entry *)
(* in a settings file of another program, added and removed by             *)
(* claude/ClaudeHookCommand.ts (hookInstallerIO.ts, hookEntry.ts) while    *)
(* that program and the user edit the file too.                            *)
(*                                                                         *)
(* A settings file is its `Stop` groups, sequences of hooks; its other     *)
(* keys, which nothing here touches, are left out.                         *)
(***************************************************************************)
EXTENDS Sequencing, SequencesExt

CONSTANTS
  Hooks,         \* hooks of the user and of other programs
  Edits,         \* documents another program may leave: sequences of groups
  HookCalls      \* bound: commands under way at once

Ours == "llm-voice-capture"

ASSUME HookAssumption == Edits \subseteq Seq(Seq(Hooks \cup {Ours}))

VARIABLES
  user,          \* ~/.claude/settings.json, the file that is written
  others,        \* the files of the project: no hook of ours, one, unreadable
  backup,        \* user's `.bak`
  command        \* the commands under way

hookVars == << user, others, backup, command >>

(* No file, a file that is not JSON, JSON that is not an object, settings. *)
Files == {[is |-> i, stop |-> << >>] : i \in {"absent", "broken", "alien"}}
         \cup [is : {"settings"}, stop : Seq(Seq(Hooks \cup {Ours}))]
Document(stop) == [is |-> "settings", stop |-> stop]
NoFile         == [is |-> "absent", stop |-> << >>]

(* `stale`: history, the file was changed since the command read it, or    *)
(* the backup since the command wrote it.                                  *)
HookCommand == [at : {"idle", "consent", "read", "rename"}, kind : {"install", "uninstall"},
                previous : Files, stale : BOOLEAN]
NoCommand == [at |-> "idle", kind |-> "install", previous |-> NoFile, stale |-> FALSE]

HookInit ==
  /\ user \in {NoFile, [NoFile EXCEPT !.is = "broken"], [NoFile EXCEPT !.is = "alien"]}
              \cup {Document(stop) : stop \in Edits}
  /\ others \in {"none", "ours", "broken"} /\ backup = NoFile
  /\ command = [c \in HookCalls |-> NoCommand]

Proceeds(c, r) == command' = [command EXCEPT ![c] = r]
Outdated(ats)  == [c \in HookCalls |-> [command[c] EXCEPT !.stale = @ \/ command[c].at \in ats]]
-----------------------------------------------------------------------------
OursIn(stop)  == Ours \in UNION {ToSet(stop[g]) : g \in DOMAIN stop}
Theirs(hooks) == Omitting(hooks, {Ours})

addHookEntry(stop) == IF OursIn(stop) THEN stop ELSE Append(stop, << Ours >>)

(* A group that is left without a hook is dropped.  Faulty variant: every  *)
(* group that had ours is.                                                 *)
removeGroups(stop)    == Omitting(stop, {g \in ToSet(stop) : g = << >> \/ Ours \in ToSet(g)})
removeHookEntry(stop) == Omitting([g \in DOMAIN stop |-> Theirs(stop[g])], {<< >>})
-----------------------------------------------------------------------------
(* installClaudeHook(): a hook in any of the three files is enough, and    *)
(* one that does not parse ends the command.  uninstallClaudeHook() looks  *)
(* at none of them.                                                        *)
Wanted(c, kind) ==
  /\ command[c].at = "idle"
  /\ kind = "install" => others = "none" /\ user.is # "broken" /\ ~ OursIn(user.stop)
  /\ Proceeds(c, [NoCommand EXCEPT !.at = "consent", !.kind = kind])
  /\ UNCHANGED << user, others, backup >>

(* The dialog is dismissed, or a step fails.                               *)
GivesUp(c) ==
  /\ command[c].at # "idle" /\ Proceeds(c, NoCommand) /\ UNCHANGED << user, others, backup >>

(* readRaw(), once the user agreed: a file that cannot be parsed is left   *)
(* alone.                                                                  *)
ReadRaw(c) ==
  /\ command[c].at = "consent" /\ user.is \in {"absent", "alien", "settings"}
  /\ Proceeds(c, [command[c] EXCEPT !.at = "read", !.previous = user])
  /\ UNCHANGED << user, others, backup >>

(* assertWritableSettings().  Faulty variant: any JSON will do.            *)
AnyJson(file)                == file.is # "broken"
assertWritableSettings(file) == file.is \in {"absent", "settings"}

(* writeAtomicWithBackup(): the `.bak`, then the new file renamed.         *)
Backup(c) ==
  LET r == command[c] IN
  /\ r.at = "read" /\ assertWritableSettings(r.previous)
  /\ backup' = IF r.previous.is = "absent" THEN backup ELSE r.previous
  /\ command' = [Outdated({"rename"}) EXCEPT ![c] = [r EXCEPT !.at = "rename"]]
  /\ UNCHANGED << user, others >>

RenameFile(c) ==
  LET r == command[c] IN
  /\ r.at = "rename" /\ command' = [Outdated({"read", "rename"}) EXCEPT ![c] = NoCommand]
  /\ user' = Document(IF r.kind = "install" THEN addHookEntry(r.previous.stop)
                      ELSE removeHookEntry(r.previous.stop))
  /\ UNCHANGED << others, backup >>

(* Claude Code and the user.                                               *)
Edited(file) ==
  /\ file # user /\ user' = file
  /\ command' = Outdated({"read", "rename"})
  /\ UNCHANGED << others, backup >>

HookNext ==
  \/ \E c \in HookCalls :
       \/ ReadRaw(c) \/ Backup(c) \/ RenameFile(c) \/ GivesUp(c)
       \/ \E kind \in {"install", "uninstall"} : Wanted(c, kind)
  \/ \E stop \in Edits : Edited(Document(stop))
  \/ \E is \in {"absent", "broken", "alien"} : Edited([NoFile EXCEPT !.is = is])

HookSpec == HookInit /\ [][HookNext]_hookVars
-----------------------------------------------------------------------------
HookTypeOK ==
  /\ user \in Files /\ backup \in Files /\ others \in {"none", "ours", "broken"}
  /\ command \in [HookCalls -> HookCommand]

FlatTheirs(file) == Theirs(FlattenSeq(file.stop))

(* A command whose file and backup nobody else changes until its rename    *)
(* keeps every hook of others, in order, never replaces what is not a      *)
(* settings document, and leaves what it replaced in the backup            *)
(* (writeHookInstalled, writeHookUninstalled).                             *)
HooksOfOthersKept ==
  [][\A c \in HookCalls : command[c].at = "rename" /\ user' # user /\ command'[c].at = "idle"
                         /\ ~ command[c].stale =>
       /\ FlatTheirs(user') = FlatTheirs(user)
       /\ user.is # "absent" => user.is = "settings" /\ backup = user]_hookVars
=============================================================================
