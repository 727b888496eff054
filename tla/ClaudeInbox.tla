---------------------------- MODULE ClaudeInbox ----------------------------
(***************************************************************************)
(* The inbox: processes that drop messages in a directory (integrations/), *)
(* the scans that list it (claude/InboxRepository.ts), the read marks kept *)
(* in the editor's global state, the watcher, the tree and the quick pick. *)
(*                                                                         *)
(* A scan reads the directory once and then file after file; several may   *)
(* be under way, and a command may need one after the other.  Ordering by  *)
(* date, titles, and the listing a spoken message is captured from are     *)
(* left out.                                                               *)
(***************************************************************************)
EXTENDS Integers, Sequences, FiniteSets

CONSTANTS
  Messages,      \* bound: messages ever written
  Scans          \* bound: refreshes under way at once

ASSUME InboxAssumption == IsFiniteSet(Messages)

VARIABLES
  file,          \* each message: not written, in a temporary file, there, gone
  marks,         \* ids marked read (GlobalStateReadStore)
  scan,          \* the refreshes under way
  entries,       \* what the tree and the quick pick show
  lastSnapshot,  \* what the watcher's last poll saw
  debounce,      \* debounceTimer is armed
  torn,          \* history: some scan met a message written in part
  known          \* history: messages that have been shown

inboxVars == << file, marks, scan, entries, lastSnapshot, debounce, torn, known >>

(* `foreign`: a file of another program, which is not a message.  `torn`:  *)
(* written in part under its final name.                                   *)
FileState == {"none", "tmp", "torn", "there", "foreign", "gone"}

(* Files with the name of a message: `.json`, no `.tmp-` prefix, a safe id *)
(* (isCandidateFile); our writers sanitize the session id in the name.     *)
Candidates == {m \in Messages : file[m] \in {"torn", "there", "foreign"}}

(* `left`: names still to be read; `found` and `unread`: the entries so    *)
(* far; `orphans`: marks still to be removed; `todo`: what the entries are *)
(* for, then what the next scan is for; `base`: history, messages that     *)
(* were there when the scan began.                                         *)
Purposes == {"tree", "pick", "items"}
Scan == [at : {"idle", "read", "cleanup"}, left : SUBSET Messages, found : SUBSET Messages,
         unread : SUBSET Messages, orphans : SUBSET Messages, base : SUBSET Messages, todo : Seq(Purposes)]
NoScan == [at |-> "idle", left |-> {}, found |-> {}, unread |-> {}, orphans |-> {}, base |-> {},
           todo |-> << >>]

View   == [open : BOOLEAN, found : SUBSET Messages, unread : SUBSET Messages]
NoView == [open |-> FALSE, found |-> {}, unread |-> {}]

InboxInit ==
  /\ file = [m \in Messages |-> "none"] /\ marks = {} /\ scan = [s \in Scans |-> NoScan]
  /\ entries = [tree |-> [NoView EXCEPT !.open = TRUE], pick |-> NoView]
  /\ lastSnapshot = {} /\ debounce = FALSE /\ torn = FALSE /\ known = {}
-----------------------------------------------------------------------------
(* main() of the two writers.  An empty message is not written; any other  *)
(* goes to a temporary file that is renamed.  Faulty variant: it is        *)
(* written under its final name.                                           *)
WriteInPlace(m) ==
  /\ file[m] = "none" /\ file' = [file EXCEPT ![m] = "torn"]
  /\ UNCHANGED << marks, scan, entries, lastSnapshot, debounce, torn, known >>
WriteTmp(m) ==
  /\ file[m] = "none" /\ file' = [file EXCEPT ![m] = "tmp"]
  /\ UNCHANGED << marks, scan, entries, lastSnapshot, debounce, torn, known >>

Renamed(m) ==
  /\ file[m] \in {"tmp", "torn"} /\ file' = [file EXCEPT ![m] = "there"]
  /\ UNCHANGED << marks, scan, entries, lastSnapshot, debounce, torn, known >>

(* The rename fails, or the writer is killed: the file is removed or left  *)
(* under its temporary name, which nobody reads.                           *)
WriterDies(m) ==
  /\ file[m] = "tmp" /\ file' = [file EXCEPT ![m] = "gone"]
  /\ UNCHANGED << marks, scan, entries, lastSnapshot, debounce, torn, known >>

WriteForeign(m) ==
  /\ file[m] = "none" /\ file' = [file EXCEPT ![m] = "foreign"]
  /\ UNCHANGED << marks, scan, entries, lastSnapshot, debounce, torn, known >>

(* The user or another program.                                            *)
CleanedUp(m) ==
  /\ file[m] \in {"there", "foreign"} /\ file' = [file EXCEPT ![m] = "gone"]
  /\ UNCHANGED << marks, scan, entries, lastSnapshot, debounce, torn, known >>
-----------------------------------------------------------------------------
(* list(), up to readdir().                                                *)
Begin(s, todo) ==
  /\ scan[s].at = "idle"
  /\ scan' = [scan EXCEPT ![s] =
       [NoScan EXCEPT !.at = "read", !.left = Candidates, !.base = Candidates, !.todo = todo]]

(* On the command, at the start, and when a file event was delivered in    *)
(* time, which the host does not promise: refreshInbox().  Open Inbox, and *)
(* the command that looks for the latest response, list for themselves.    *)
Refresh(s) ==
  /\ \E purpose \in {"tree", "pick"} : Begin(s, << purpose >>)
  /\ UNCHANGED << file, marks, entries, lastSnapshot, debounce, torn, known >>

(* One file: gone by now, rejected, or listed with its read mark.          *)
ReadFile(s, m) ==
  LET r == [scan[s] EXCEPT !.left = @ \ {m}] IN
  /\ m \in scan[s].left
  /\ scan' = [scan EXCEPT ![s] =
       IF file[m] # "there" THEN r
       ELSE [r EXCEPT !.found = @ \cup {m}, !.unread = IF m \in marks THEN @ ELSE @ \cup {m}]]
  /\ torn' = (torn \/ file[m] = "torn")
  /\ UNCHANGED << file, marks, entries, lastSnapshot, debounce, known >>

(* cleanup(): the marks of everything the scan did not list.  Faulty       *)
(* variant: of everything it did not list as unread.                       *)
OrphansOfUnread(r) == marks \ r.unread
Orphans(r)         == marks \ r.found

AllRead(s) ==
  /\ scan[s].at = "read" /\ scan[s].left = {}
  /\ scan' = [scan EXCEPT ![s] = [@ EXCEPT !.at = "cleanup", !.orphans = Orphans(scan[s])]]
  /\ UNCHANGED << file, marks, entries, lastSnapshot, debounce, torn, known >>

(* The marks go one after the other, each update awaited.                  *)
Unmark(s, m) ==
  /\ scan[s].at = "cleanup" /\ m \in scan[s].orphans
  /\ marks' = marks \ {m} /\ scan' = [scan EXCEPT ![s].orphans = @ \ {m}]
  /\ UNCHANGED << file, entries, lastSnapshot, debounce, torn, known >>

(* The scan that ends last is the one that is shown, however old.          *)
Shown(s) ==
  LET found == scan[s].found
      list  == [open |-> TRUE, found |-> found, unread |-> scan[s].unread]
      for   == Head(scan[s].todo)
      rest  == Tail(scan[s].todo)
  IN
  /\ scan[s].at = "cleanup" /\ scan[s].orphans = {}
  /\ entries' = IF for = "tree" THEN [entries EXCEPT !.tree = list]
                ELSE IF for = "pick" \/ entries.pick.open THEN [entries EXCEPT !.pick = list]
                ELSE entries
  /\ known' = known \cup found
  /\ scan' = [scan EXCEPT ![s] =
       IF rest = << >> THEN NoScan
       ELSE [NoScan EXCEPT !.at = "read", !.left = Candidates, !.base = Candidates, !.todo = rest]]
  /\ UNCHANGED << file, marks, lastSnapshot, debounce, torn >>

(* A command on an entry: the tree is refreshed after it, and the quick    *)
(* pick when the command leaves it open.                                   *)
After(where) == IF where = "tree" THEN << "tree" >> ELSE << "tree", "items" >>
Closing(where) == IF where = "tree" THEN entries ELSE [entries EXCEPT !.pick = NoView]

(* Speak and Open mark a message read.                                     *)
MarkRead(s, where, m) ==
  /\ m \in entries[where].found
  /\ marks' = marks \cup {m} /\ entries' = Closing(where)
  /\ Begin(s, << "tree" >>)
  /\ UNCHANGED << file, lastSnapshot, debounce, torn, known >>

(* The toggle goes by the entry that is shown.                             *)
ToggleRead(s, where, m) ==
  /\ m \in entries[where].found
  /\ marks' = IF m \in entries[where].unread THEN marks \cup {m} ELSE marks \ {m}
  /\ Begin(s, After(where))
  /\ UNCHANGED << file, entries, lastSnapshot, debounce, torn, known >>

(* Delete: an entry that is gone by now makes remove() throw.              *)
Deleted(s, where, m) ==
  /\ m \in entries[where].found /\ file[m] = "there"
  /\ file' = [file EXCEPT ![m] = "gone"] /\ Begin(s, After(where))
  /\ UNCHANGED << marks, entries, lastSnapshot, debounce, torn, known >>

Hidden ==
  /\ entries.pick.open /\ entries' = Closing("pick")
  /\ UNCHANGED << file, marks, scan, lastSnapshot, debounce, torn, known >>
-----------------------------------------------------------------------------
(* pollOnce() compares the directory with what it saw last.  Faulty        *)
(* variant: it remembers without scheduling a change.                      *)
PollQuietly ==
  /\ lastSnapshot # Candidates /\ lastSnapshot' = Candidates
  /\ UNCHANGED << file, marks, scan, entries, debounce, torn, known >>
Poll ==
  /\ lastSnapshot # Candidates /\ lastSnapshot' = Candidates /\ debounce' = TRUE
  /\ UNCHANGED << file, marks, scan, entries, torn, known >>

(* The timer of scheduleChange(): emitChange() refreshes.                  *)
EmitChange(s) ==
  /\ debounce /\ debounce' = FALSE /\ Begin(s, << "tree" >>)
  /\ UNCHANGED << file, marks, entries, lastSnapshot, torn, known >>

ScanStep(s) == AllRead(s) \/ Shown(s) \/ \E m \in Messages : ReadFile(s, m) \/ Unmark(s, m)

InboxNext ==
  \/ \E m \in Messages :
       \/ WriteTmp(m) \/ Renamed(m) \/ WriterDies(m) \/ WriteForeign(m) \/ CleanedUp(m)
       \/ \E s \in Scans, where \in {"tree", "pick"} :
            MarkRead(s, where, m) \/ ToggleRead(s, where, m) \/ Deleted(s, where, m)
  \/ \E s \in Scans : Refresh(s) \/ ScanStep(s) \/ EmitChange(s)
  \/ Hidden \/ Poll

(* Timers fire and the file system answers; nobody has to press a button.  *)
InboxFairness ==
  /\ WF_inboxVars(Poll) /\ SF_inboxVars(\E s \in Scans : EmitChange(s))
  /\ \A s \in Scans : WF_inboxVars(ScanStep(s))

InboxSpec == InboxInit /\ [][InboxNext]_inboxVars /\ InboxFairness
-----------------------------------------------------------------------------
InboxTypeOK ==
  /\ file \in [Messages -> FileState] /\ marks \subseteq Messages
  /\ scan \in [Scans -> Scan] /\ entries \in [tree : View, pick : View]
  /\ lastSnapshot \subseteq Messages /\ debounce \in BOOLEAN
  /\ torn \in BOOLEAN /\ known \subseteq Messages

(* Whenever a scan runs, it never takes a message of our own writers for   *)
(* garbage: a message is complete as soon as it has a name a scan looks at *)
(* (writeAtomic, isCandidateFile, scan).                                   *)
OursNeverRejected == ~ torn

(* A message that was there when a scan began and is still there keeps its *)
(* read mark through the clean-up of that scan.  (A scan begun before it   *)
(* was there may take the mark.)                                           *)
ReadMarkKept ==
  [][\A m \in Messages : m \in marks /\ m \notin marks' /\ file[m] = "there" =>
       \/ \E s \in Scans : m \in scan[s].orphans /\ m \notin scan[s].base
       \/ \E where \in {"tree", "pick"}, s \in Scans :
            m \in entries[where].found \ entries[where].unread /\ ToggleRead(s, where, m)]_inboxVars

(* A message that stays in the inbox is shown, even when no file event is  *)
(* ever delivered (InboxWatcher.pollOnce).                                 *)
EveryMessageListed ==
  \A m \in Messages : file[m] = "there" ~> (m \in known \/ file[m] = "gone")
=============================================================================
