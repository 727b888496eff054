--------------------------- MODULE ServicesProofs ---------------------------
(***************************************************************************)
(* Proofs about the services together: the inbox (ClaudeInbox), the hook   *)
(* in the settings of Claude Code (ClaudeHook) and the audio surface       *)
(* (AudioSurface), for any messages, scans, edits, commands, views and     *)
(* chunks; and Services, in which each component, these and those of       *)
(* OnDiskProofs, SettingsProofs and ReadingProofs, keeps what was proved   *)
(* of it alone.                                                            *)
(***************************************************************************)
EXTENDS Services, OnDiskProofs, SettingsProofs, ReadingProofs

-----------------------------------------------------------------------------
(* The inbox.                                                              *)

Known == {"there", "foreign", "gone"}

(* A scan that is under way has a purpose; whatever was in the directory   *)
(* when it began is still to be read, was found, or has gone; and the      *)
(* marks it will remove are not those of what it found.                    *)
ScanFits(r, f) ==
  /\ r.at # "idle" => r.todo # << >>
  /\ r.at # "read" => r.left = {}
  /\ r.at = "cleanup" => r.orphans \cap r.found = {}
  /\ \A m \in r.base : f[m] \in Known /\ (f[m] = "there" => m \in r.left \cup r.found)

InboxInv ==
  /\ InboxTypeOK /\ OursNeverRejected
  /\ \A m \in Messages : file[m] # "torn"
  /\ \A s \in Scans : ScanFits(scan[s], file)

(* What a file can do while it is read: it goes, for good.                 *)
FileMoves ==
  /\ file' \in [Messages -> FileState]
  /\ \A m \in Messages : file'[m] # "torn" /\ (file[m] \in Known => file'[m] \in {file[m], "gone"})

(* A step takes no read mark but as ReadMarkKept allows.                   *)
MarksKept ==
  \A m \in Messages : m \in marks /\ m \notin marks' /\ file[m] = "there" =>
     \/ \E s \in Scans : m \in scan[s].orphans /\ m \notin scan[s].base
     \/ \E where \in {"tree", "pick"}, s \in Scans :
          m \in entries[where].found \ entries[where].unread /\ ToggleRead(s, where, m)

-----------------------------------------------------------------------------
(* A scan goes on fitting while files come and go.                         *)
LEMMA FitsMoved ==
  ASSUME FileMoves, NEW r \in Scan, ScanFits(r, file)
  PROVE  ScanFits(r, file')
<1>1. r.base \in SUBSET Messages
  BY DEF Scan
<1> QED BY <1>1 DEF ScanFits, FileMoves, Known

(* Nothing moves in a step that touches no file.                           *)
LEMMA FileStays ==
  ASSUME InboxInv, UNCHANGED file
  PROVE  FileMoves
BY DEF InboxInv, InboxTypeOK, FileMoves

(* A scan that begins has everything still to read.                        *)
LEMMA BeginFits ==
  ASSUME InboxInv, FileMoves, NEW s \in Scans, NEW todo \in Seq(Purposes), todo # << >>, Begin(s, todo)
  PROVE  scan' \in [Scans -> Scan] /\ \A x \in Scans : ScanFits(scan'[x], file')
<1> DEFINE r == [NoScan EXCEPT !.at = "read", !.left = Candidates, !.base = Candidates, !.todo = todo]
<1>1. Candidates \in SUBSET Messages /\ \A m \in Candidates : file[m] \in Known
  BY DEF Candidates, InboxInv, Known
<1>2. /\ r.at = "read" /\ r.left = Candidates /\ r.base = Candidates /\ r.todo = todo
      /\ r \in Scan
  BY <1>1 DEF NoScan, Scan
<1> HIDE DEF r
<1>3. ScanFits(r, file)
  BY <1>1, <1>2 DEF ScanFits
<1>4. ScanFits(r, file')
  BY <1>2, <1>3, FitsMoved
<1>5. scan' = [scan EXCEPT ![s] = r]
  BY DEF Begin, r
<1>6. scan \in [Scans -> Scan] /\ \A x \in Scans : ScanFits(scan[x], file')
  BY FitsMoved DEF InboxInv, InboxTypeOK
<1> QED BY <1>2, <1>4, <1>5, <1>6

(* The steps of writers, users and other programs.                         *)
LEMMA WritersKeep ==
  ASSUME InboxInv, NEW m \in Messages,
         WriteTmp(m) \/ Renamed(m) \/ WriterDies(m) \/ WriteForeign(m) \/ CleanedUp(m)
  PROVE  InboxInv' /\ MarksKept
<1> USE DEF InboxInv
<1>1. FileMoves
  BY DEF InboxTypeOK, FileMoves, FileState, Known, WriteTmp, Renamed, WriterDies, WriteForeign, CleanedUp
<1>2. UNCHANGED << marks, scan, entries, lastSnapshot, debounce, torn, known >>
  BY DEF WriteTmp, Renamed, WriterDies, WriteForeign, CleanedUp
<1>3. \A s \in Scans : ScanFits(scan[s], file')
  BY <1>1, FitsMoved DEF InboxTypeOK
<1> QED BY <1>1, <1>2, <1>3 DEF FileMoves, MarksKept, InboxTypeOK, OursNeverRejected

(* The commands on an entry that is shown.                                 *)
LEMMA CommandsKeep ==
  ASSUME InboxInv, NEW s \in Scans, NEW where \in {"tree", "pick"}, NEW m \in Messages,
         MarkRead(s, where, m) \/ ToggleRead(s, where, m) \/ Deleted(s, where, m)
  PROVE  InboxInv' /\ MarksKept
<1>1. FileMoves
  BY FileStays DEF MarkRead, ToggleRead, Deleted, FileMoves, FileState, InboxInv, InboxTypeOK
<1>2. After(where) \in Seq(Purposes) /\ << "tree" >> \in Seq(Purposes)
      /\ After(where) # << >> /\ << "tree" >> # << >>
  <2>1. After(where) = << "tree" >> \/ After(where) = << "tree", "items" >>
    BY DEF After
  <2>2. << "tree" >> \in Seq(Purposes) /\ << "tree", "items" >> \in Seq(Purposes)
    BY DEF Purposes
  <2>3. << "tree" >> # << >> /\ << "tree", "items" >> # << >>
    OBVIOUS
  <2> QED BY <2>1, <2>2, <2>3
<1>3. scan' \in [Scans -> Scan] /\ \A x \in Scans : ScanFits(scan'[x], file')
  <2>1. Begin(s, After(where)) \/ Begin(s, << "tree" >>)
    BY DEF MarkRead, ToggleRead, Deleted
  <2> QED BY <1>1, <1>2, <2>1, BeginFits
<1>4. Closing(where) \in [tree : View, pick : View]
  BY DEF Closing, InboxInv, InboxTypeOK, NoView, View
<1>5. entries' \in [tree : View, pick : View] /\ marks' \in SUBSET Messages
  BY <1>4 DEF MarkRead, ToggleRead, Deleted, InboxInv, InboxTypeOK
<1>6. UNCHANGED << lastSnapshot, debounce, torn, known >>
  BY DEF MarkRead, ToggleRead, Deleted
<1>7. MarksKept
  BY DEF MarksKept, MarkRead, ToggleRead, Deleted
<1> QED BY <1>1, <1>3, <1>5, <1>6, <1>7 DEF InboxInv, InboxTypeOK, OursNeverRejected, FileMoves
(* The steps that begin a scan with no command.                            *)
LEMMA BeginnersKeep ==
  ASSUME InboxInv, NEW s \in Scans, Refresh(s) \/ EmitChange(s)
  PROVE  InboxInv' /\ MarksKept
<1>1. UNCHANGED << file, marks, entries, lastSnapshot, torn, known >> /\ debounce' \in BOOLEAN
  BY DEF Refresh, EmitChange, InboxInv, InboxTypeOK
<1>2. PICK purpose \in Purposes : Begin(s, << purpose >>)
  BY DEF Refresh, EmitChange, Purposes
<1>3. << purpose >> \in Seq(Purposes) /\ << purpose >> # << >>
  OBVIOUS
<1>4. scan' \in [Scans -> Scan] /\ \A x \in Scans : ScanFits(scan'[x], file')
  BY <1>1, <1>2, <1>3, FileStays, BeginFits
<1> QED BY <1>1, <1>4 DEF MarksKept, InboxInv, InboxTypeOK, OursNeverRejected

(* A scan reads a file, or goes on to its clean-up and then to its end.    *)
LEMMA ScanKeeps ==
  ASSUME InboxInv, NEW s \in Scans, ScanStep(s)
  PROVE  InboxInv' /\ MarksKept
<1> USE DEF InboxInv
<1>0. scan[s] \in Scan /\ ScanFits(scan[s], file)
  BY DEF InboxTypeOK
<1>1. ASSUME NEW r \in Scan, ScanFits(r, file), scan' = [scan EXCEPT ![s] = r], UNCHANGED file
      PROVE  scan' \in [Scans -> Scan] /\ \A x \in Scans : ScanFits(scan'[x], file')
  BY <1>1 DEF InboxTypeOK
<1>2. ASSUME NEW m \in Messages, ReadFile(s, m) PROVE InboxInv' /\ MarksKept
  <2> DEFINE r == [scan[s] EXCEPT !.left = @ \ {m}]
             u == IF m \in marks THEN r.unread ELSE r.unread \cup {m}
             q == [r EXCEPT !.found = @ \cup {m}, !.unread = u]
  <2>1. /\ m \in scan[s].left /\ UNCHANGED << file, marks, entries, lastSnapshot, debounce, known >>
        /\ torn' = (torn \/ file[m] = "torn")
    BY <1>2 DEF ReadFile
  <2>2. /\ r \in Scan /\ r.at = scan[s].at /\ r.left = scan[s].left \ {m} /\ r.found = scan[s].found
        /\ r.base = scan[s].base /\ r.todo = scan[s].todo /\ r.orphans = scan[s].orphans
    BY <1>0 DEF Scan
  <2>3. scan' = [scan EXCEPT ![s] = IF file[m] # "there" THEN r ELSE q]
    BY <1>2 DEF ReadFile
  <2> HIDE DEF r
  <2>4. u \in SUBSET Messages
    BY <2>2 DEF Scan
  <2> HIDE DEF u
  <2>5. /\ q \in Scan /\ q.at = r.at /\ q.left = r.left /\ q.found = r.found \cup {m}
        /\ q.base = r.base /\ q.todo = r.todo /\ q.orphans = r.orphans
    BY <2>2, <2>4 DEF Scan
  <2> HIDE DEF q
  <2>6. scan[s].at = "read"
    BY <1>0, <2>1 DEF ScanFits
  <2>7. IF file[m] # "there" THEN ScanFits(r, file) ELSE ScanFits(q, file)
    BY <1>0, <2>1, <2>2, <2>5, <2>6 DEF ScanFits
  <2>8. scan' \in [Scans -> Scan] /\ \A x \in Scans : ScanFits(scan'[x], file')
    BY <1>1, <2>1, <2>2, <2>3, <2>5, <2>7
  <2>9. ~ torn' /\ torn' \in BOOLEAN
    <3>1. file[m] # "torn" /\ ~ torn
      BY DEF OursNeverRejected
    <3>2. torn' \in BOOLEAN
      BY <2>1, Zenon
    <3> QED BY <2>1, <3>1, <3>2, Zenon
  <2> QED BY <2>1, <2>8, <2>9 DEF MarksKept, InboxTypeOK, OursNeverRejected
<1>3. CASE AllRead(s)
  <2> DEFINE q == [scan[s] EXCEPT !.at = "cleanup", !.orphans = Orphans(scan[s])]
  <2>1. /\ scan[s].at = "read" /\ scan[s].left = {} /\ scan' = [scan EXCEPT ![s] = q]
        /\ UNCHANGED << file, marks, entries, lastSnapshot, debounce, torn, known >>
    BY <1>3 DEF AllRead
  <2>2. Orphans(scan[s]) = marks \ scan[s].found /\ marks \in SUBSET Messages
    BY DEF Orphans, InboxTypeOK
  <2>3. /\ q \in Scan /\ q.at = "cleanup" /\ q.left = scan[s].left /\ q.found = scan[s].found
        /\ q.base = scan[s].base /\ q.todo = scan[s].todo /\ q.orphans = marks \ scan[s].found
    BY <1>0, <2>2 DEF Scan
  <2> HIDE DEF q
  <2>4. ScanFits(q, file)
    BY <1>0, <2>1, <2>3 DEF ScanFits
  <2>5. scan' \in [Scans -> Scan] /\ \A x \in Scans : ScanFits(scan'[x], file')
    BY <1>1, <2>1, <2>3, <2>4
  <2> QED BY <2>1, <2>5 DEF MarksKept, InboxTypeOK, OursNeverRejected
<1>4. ASSUME NEW m \in Messages, Unmark(s, m) PROVE InboxInv' /\ MarksKept
  <2> DEFINE q == [scan[s] EXCEPT !.orphans = @ \ {m}]
  <2>1. /\ scan[s].at = "cleanup" /\ m \in scan[s].orphans /\ marks' = marks \ {m}
        /\ scan' = [scan EXCEPT ![s] = q]
        /\ UNCHANGED << file, entries, lastSnapshot, debounce, torn, known >>
    BY <1>4 DEF Unmark
  <2>2. /\ q \in Scan /\ q.at = "cleanup" /\ q.left = scan[s].left /\ q.found = scan[s].found
        /\ q.base = scan[s].base /\ q.todo = scan[s].todo /\ q.orphans = scan[s].orphans \ {m}
    BY <1>0, <2>1 DEF Scan
  <2> HIDE DEF q
  <2>3. ScanFits(q, file)
    BY <1>0, <2>1, <2>2 DEF ScanFits
  <2>4. scan' \in [Scans -> Scan] /\ \A x \in Scans : ScanFits(scan'[x], file')
    BY <1>1, <2>1, <2>2, <2>3
  <2>5. file[m] = "there" => m \notin scan[s].base
    BY <1>0, <2>1 DEF ScanFits
  <2>6. MarksKept
    BY <2>1, <2>5 DEF MarksKept
  <2> QED BY <2>1, <2>4, <2>6 DEF InboxTypeOK, OursNeverRejected
<1>5. CASE Shown(s)
  <2> DEFINE list == [open |-> TRUE, found |-> scan[s].found, unread |-> scan[s].unread]
             rest == Tail(scan[s].todo)
             next == [NoScan EXCEPT !.at = "read", !.left = Candidates, !.base = Candidates, !.todo = rest]
  <2>1. /\ scan[s].at = "cleanup" /\ known' = known \cup scan[s].found
        /\ scan' = [scan EXCEPT ![s] = IF rest = << >> THEN NoScan ELSE next]
        /\ UNCHANGED << file, marks, lastSnapshot, debounce, torn >>
    BY <1>5 DEF Shown
  <2>2. scan[s].todo \in Seq(Purposes) /\ scan[s].todo # << >> /\ scan[s].found \in SUBSET Messages
        /\ scan[s].unread \in SUBSET Messages
    BY <1>0, <2>1 DEF Scan, ScanFits
  <2>3. rest \in Seq(Purposes)
    BY <2>2
  <2>4. list \in View
    BY <2>2 DEF View
  <2>5. \/ entries' = [entries EXCEPT !.tree = list]
        \/ entries' = [entries EXCEPT !.pick = list]
        \/ entries' = entries
    BY <1>5 DEF Shown
  <2> HIDE DEF list, rest
  <2>6. entries' \in [tree : View, pick : View]
    BY <2>4, <2>5 DEF InboxTypeOK
  <2>7. Candidates \in SUBSET Messages /\ \A m \in Candidates : file[m] \in Known
    BY DEF Candidates, Known
  <2>8. /\ next \in Scan /\ next.at = "read" /\ next.left = Candidates /\ next.base = Candidates
        /\ next.todo = rest
    BY <2>3, <2>7 DEF NoScan, Scan
  <2> HIDE DEF next
  <2>9. rest # << >> => ScanFits(next, file)
    BY <2>7, <2>8 DEF ScanFits
  <2>10. NoScan \in Scan /\ ScanFits(NoScan, file)
    BY DEF NoScan, Scan, ScanFits
  <2>11. scan' \in [Scans -> Scan] /\ \A x \in Scans : ScanFits(scan'[x], file')
    BY <1>1, <2>1, <2>8, <2>9, <2>10
  <2> QED BY <2>1, <2>2, <2>6, <2>11 DEF MarksKept, InboxTypeOK, OursNeverRejected
<1> QED BY <1>2, <1>3, <1>4, <1>5 DEF ScanStep
-----------------------------------------------------------------------------
(* The invariant holds at the start.                                       *)
LEMMA InitInbox == InboxInit => InboxInv
<1> SUFFICES ASSUME InboxInit PROVE InboxInv
  OBVIOUS
<1>1. NoScan \in Scan /\ ScanFits(NoScan, file)
  BY DEF NoScan, Scan, ScanFits
<1>2. NoView \in View /\ [NoView EXCEPT !.open = TRUE] \in View
  BY DEF NoView, View
<1>3. entries \in [tree : View, pick : View]
  BY <1>2 DEF InboxInit
<1> QED BY <1>1, <1>3 DEF InboxInit, InboxInv, InboxTypeOK, OursNeverRejected, FileState

(* Every step keeps the invariant and the read marks.                      *)
LEMMA NextInbox == InboxInv /\ [InboxNext]_inboxVars => InboxInv' /\ (UNCHANGED inboxVars \/ MarksKept)
<1> SUFFICES ASSUME InboxInv, [InboxNext]_inboxVars PROVE InboxInv' /\ (UNCHANGED inboxVars \/ MarksKept)
  OBVIOUS
<1>1. CASE Hidden
  <2>1. Closing("pick") \in [tree : View, pick : View]
    BY DEF Closing, InboxInv, InboxTypeOK, NoView, View
  <2> QED BY <1>1, <2>1 DEF Hidden, InboxInv, InboxTypeOK, OursNeverRejected, MarksKept
<1>2. CASE Poll
  <2>1. Candidates \subseteq Messages
    BY DEF Candidates
  <2> QED BY <1>2, <2>1 DEF Poll, InboxInv, InboxTypeOK, OursNeverRejected, MarksKept
<1>3. CASE UNCHANGED inboxVars
  BY <1>3 DEF inboxVars, InboxInv, InboxTypeOK, OursNeverRejected
<1> QED BY <1>1, <1>2, <1>3, WritersKeep, CommandsKeep, BeginnersKeep, ScanKeeps DEF InboxNext

(* The inductive invariant holds in every reachable state.                 *)
THEOREM InboxInvariant == InboxSpec => []InboxInv
BY InitInbox, NextInbox, PTL DEF InboxSpec

(* The variables have their types, and no scan takes a message of our own  *)
(* writers for garbage (writeAtomic, isCandidateFile).                     *)
THEOREM NeverRejected == InboxSpec => [](InboxTypeOK /\ OursNeverRejected)
<1>1. InboxInv => InboxTypeOK /\ OursNeverRejected
  BY DEF InboxInv
<1> QED BY InboxInvariant, <1>1, PTL

(* However many scans and commands overlap, a clean-up spares the mark of  *)
(* every message that was there when its scan began and still is           *)
(* (InboxRepository.list, cleanup).                                        *)
THEOREM KeepsReadMarks == InboxSpec => ReadMarkKept
<1>1. InboxInv /\ [InboxNext]_inboxVars => [MarksKept]_inboxVars
  BY NextInbox
<1>2. InboxSpec => [][MarksKept]_inboxVars
  BY InboxInvariant, <1>1, PTL DEF InboxSpec
<1> QED BY <1>2 DEF ReadMarkKept, MarksKept

-----------------------------------------------------------------------------
(* The hook.                                                               *)

AnyHook == Hooks \cup {Ours}
GroupLists == Seq(Seq(AnyHook))

(* The hooks of others in a group: taken twice they are the same, and      *)
(* those of two groups in a row are theirs in a row.                       *)
LEMMA TheirsFacts ==
  /\ \A a \in Seq(AnyHook) : Theirs(a) \in Seq(AnyHook) /\ Theirs(Theirs(a)) = Theirs(a)
  /\ \A a, b \in Seq(AnyHook) : Theirs(a \o b) = Theirs(a) \o Theirs(b)
  /\ Theirs(<< >>) = << >> /\ Theirs(<< Ours >>) = << >>
<1>1. ASSUME NEW a \in Seq(AnyHook)
      PROVE  Theirs(a) \in Seq(AnyHook) /\ Theirs(Theirs(a)) = Theirs(a)
  BY OmittingFacts, OmittingTwice DEF Theirs
<1>2. ASSUME NEW a \in Seq(AnyHook), NEW b \in Seq(AnyHook)
      PROVE  Theirs(a \o b) = Theirs(a) \o Theirs(b)
  BY OmittingConcat DEF Theirs
<1>3. Theirs(<< >>) = << >>
  BY OmittingEmpty DEF Theirs
<1>4. Theirs(<< Ours >>) = << >>
  <2>1. << >> \in Seq(AnyHook) /\ Ours \in AnyHook /\ << Ours >> = Append(<< >>, Ours)
    BY DEF AnyHook
  <2>2. Omitting(Append(<< >>, Ours), {Ours}) = Omitting(<< >>, {Ours})
    BY <2>1, OmittingAppend
  <2> QED BY <1>3, <2>1, <2>2 DEF Theirs
<1> QED BY <1>1, <1>2, <1>3, <1>4

(* What is left of the groups, one group more at a time.                   *)
LEMMA RemovedAppend ==
  ASSUME NEW s \in GroupLists, NEW t \in Seq(AnyHook)
  PROVE  removeHookEntry(Append(s, t)) =
           IF Theirs(t) = << >> THEN removeHookEntry(s)
           ELSE Append(removeHookEntry(s), Theirs(t))
<1> DEFINE n == Len(s)
           u == Append(s, t)
           a == [g \in DOMAIN s |-> Theirs(s[g])]
           b == [g \in DOMAIN u |-> Theirs(u[g])]
           e == Theirs(t)
<1>1. /\ n \in Nat /\ DOMAIN s = 1 .. n /\ u \in GroupLists /\ Len(u) = n + 1
      /\ \A i \in 1 .. n : u[i] = s[i]
      /\ u[n + 1] = t
      /\ \A i \in 1 .. n : s[i] \in Seq(AnyHook)
  BY LenProperties, AppendProperties, ElementOfSeq DEF GroupLists
<1>2. DOMAIN u = 1 .. n + 1
  <2> HIDE DEF u
  <2> QED BY <1>1, LenProperties DEF GroupLists
<1> HIDE DEF u, n
<1>3. e \in Seq(AnyHook)
  BY TheirsFacts
<1>4. a \in Seq(Seq(AnyHook)) /\ Len(a) = n
  <2>1. a \in [1 .. n -> Seq(AnyHook)]
    BY <1>1, TheirsFacts
  <2> DEFINE Y == Seq(AnyHook)
  <2> HIDE DEF a, Y
  <2>2. a \in Seq(Y)
    BY <1>1, <2>1, SeqDef DEF Y
  <2> QED BY <1>1, <2>1, <2>2, LenProperties DEF Y
<1> DEFINE c == Append(a, e)
<1>5. /\ c \in Seq(Seq(AnyHook)) /\ Len(c) = n + 1 /\ c[n + 1] = e
      /\ \A i \in 1 .. n : c[i] = a[i]
  <2> DEFINE Y == Seq(AnyHook)
  <2> HIDE DEF a, e, Y
  <2> QED BY <1>3, <1>4, AppendProperties DEF Y
<1>6. b = c
  <2>1. b = [i \in 1 .. n + 1 |-> Theirs(u[i])]
    BY <1>2
  <2>2. c = [i \in 1 .. n + 1 |-> c[i]]
    <3> HIDE DEF c
    <3>1. c \in [1 .. n + 1 -> Seq(AnyHook)]
      BY <1>5, LenProperties
    <3> QED BY <3>1
  <2>3. ASSUME NEW i \in 1 .. n + 1 PROVE Theirs(u[i]) = c[i]
    <3> HIDE DEF c, b
    <3>1. CASE i = n + 1
      BY <1>1, <1>5, <3>1
    <3>2. CASE i # n + 1
      <4>1. i \in 1 .. n
        BY <1>1, <3>2
      <4>2. a[i] = Theirs(s[i])
        BY <1>1, <4>1
      <4> QED BY <1>1, <1>5, <4>1, <4>2
    <3> QED BY <3>1, <3>2
  <2> HIDE DEF b, c
  <2> QED BY <2>1, <2>2, <2>3
<1>7. Omitting(c, {<< >>}) = IF e \in {<< >>} THEN Omitting(a, {<< >>}) ELSE Append(Omitting(a, {<< >>}), e)
  <2> DEFINE Y == Seq(AnyHook)
  <2> HIDE DEF a, e, Y
  <2> QED BY <1>3, <1>4, OmittingAppend DEF Y
<1>8. removeHookEntry(u) = Omitting(b, {<< >>}) /\ removeHookEntry(s) = Omitting(a, {<< >>})
  BY DEF removeHookEntry
<1> HIDE DEF a, b, c, e
<1> QED BY <1>6, <1>7, <1>8 DEF e, u

(* removeHookEntry(): what is left are the hooks of others, in their       *)
(* order, and ours is gone.                                                *)
LEMMA RemovalFacts ==
  ASSUME NEW s \in GroupLists
  PROVE  removeHookEntry(s) \in GroupLists /\ Theirs(FlattenSeq(removeHookEntry(s))) = Theirs(FlattenSeq(s))
<1> DEFINE Fine(r) == /\ removeHookEntry(r) \in GroupLists
                      /\ Theirs(FlattenSeq(removeHookEntry(r))) = Theirs(FlattenSeq(r))
           P == {n \in Nat : \A r \in GroupLists : Len(r) = n => Fine(r)}
<1>1. 0 \in P
  <2> SUFFICES ASSUME NEW r \in GroupLists, Len(r) = 0 PROVE Fine(r)
    OBVIOUS
  <2>1. r = << >>
    BY EmptySeq DEF GroupLists
  <2>2. [g \in DOMAIN r |-> Theirs(r[g])] = << >>
    BY <2>1
  <2>3. removeHookEntry(r) = << >>
    BY <2>2, OmittingEmpty DEF removeHookEntry
  <2> QED BY <2>1, <2>3
<1>2. ASSUME NEW n \in Nat, n \in P PROVE n + 1 \in P
  <2> SUFFICES ASSUME NEW r \in GroupLists, Len(r) = n + 1 PROVE Fine(r)
    OBVIOUS
  <2>1. PICK q \in GroupLists, t \in Seq(AnyHook) : r = Append(q, t) /\ Len(q) = n
    <3>1. r # << >>
      BY EmptySeq
    <3>2. PICK q \in GroupLists, t \in Seq(AnyHook) : r = Append(q, t)
      BY <3>1, SequenceEmptyOrAppend DEF GroupLists
    <3>3. Len(r) = Len(q) + 1 /\ Len(q) \in Nat
      BY <3>2, AppendProperties, LenProperties DEF GroupLists
    <3>4. Len(q) = n
      BY <3>3
    <3> QED BY <3>2, <3>4
  <2> DEFINE f == FlattenSeq(q)
             d == removeHookEntry(q)
             h == FlattenSeq(d)
             e == Theirs(t)
  <2>2. d \in GroupLists /\ Theirs(h) = Theirs(f)
    BY <1>2, <2>1
  <2>3. f \in Seq(AnyHook) /\ FlattenSeq(r) = f \o t
    BY <2>1, FlattenFacts DEF GroupLists
  <2>4. h \in Seq(AnyHook) /\ e \in Seq(AnyHook) /\ Theirs(e) = e
    BY <2>2, FlattenFacts, TheirsFacts DEF GroupLists
  <2> HIDE DEF f, h, d, e
  <2>5. Theirs(FlattenSeq(r)) = Theirs(f) \o e
    BY <2>3, TheirsFacts DEF e
  <2>6. removeHookEntry(r) = IF e = << >> THEN d ELSE Append(d, e)
    BY <2>1, RemovedAppend DEF d, e
  <2>7. CASE e = << >>
    <3>1. Theirs(f) \in Seq(AnyHook)
      BY <2>3, TheirsFacts
    <3>2. Theirs(f) \o << >> = Theirs(f)
      BY <3>1, ConcatEmptySeq
    <3> QED BY <2>2, <2>5, <2>6, <2>7, <3>2 DEF h
  <2>8. CASE e # << >>
    <3>1. removeHookEntry(r) = Append(d, e)
      BY <2>6, <2>8
    <3>2. Append(d, e) \in GroupLists
      BY <2>2, <2>4, AppendProperties DEF GroupLists
    <3>3. FlattenSeq(Append(d, e)) = h \o e
      BY <2>2, <2>4, FlattenFacts DEF GroupLists, h
    <3>4. Theirs(h \o e) = Theirs(h) \o e
      BY <2>4, TheirsFacts
    <3> QED BY <2>2, <2>5, <3>1, <3>2, <3>3, <3>4
  <2> QED BY <2>7, <2>8
<1> HIDE DEF P
<1>3. Nat \subseteq P
  BY <1>1, <1>2, Induction
<1>4. Len(s) \in P
  BY <1>3, LenProperties DEF GroupLists
<1> QED BY <1>4 DEF P

(* addHookEntry(): ours is added, and the hooks of others stay what they   *)
(* were.                                                                   *)
LEMMA AdditionFacts ==
  ASSUME NEW s \in GroupLists
  PROVE  addHookEntry(s) \in GroupLists /\ Theirs(FlattenSeq(addHookEntry(s))) = Theirs(FlattenSeq(s))
<1>1. << Ours >> \in Seq(AnyHook)
  BY DEF AnyHook
<1>2. CASE OursIn(s)
  BY <1>2 DEF addHookEntry
<1>3. CASE ~ OursIn(s)
  <2> DEFINE f == FlattenSeq(s)
             t == << Ours >>
  <2>1. addHookEntry(s) = Append(s, t)
    BY <1>3 DEF addHookEntry
  <2>2. f \in Seq(AnyHook) /\ t \in Seq(AnyHook) /\ Theirs(t) = << >>
    BY <1>1, FlattenFacts, TheirsFacts DEF GroupLists
  <2> HIDE DEF t
  <2>3. Append(s, t) \in GroupLists
    BY <2>2, AppendProperties DEF GroupLists
  <2>4. FlattenSeq(Append(s, t)) = f \o t
    BY <2>2, FlattenFacts DEF GroupLists
  <2> HIDE DEF f
  <2>5. Theirs(f \o t) = Theirs(f) \o << >>
    BY <2>2, TheirsFacts
  <2>6. Theirs(f) \o << >> = Theirs(f)
    BY <2>2, TheirsFacts, ConcatEmptySeq
  <2> QED BY <2>1, <2>3, <2>4, <2>5, <2>6 DEF f
<1> QED BY <1>2, <1>3

(* A command that nobody disturbed has read the file that is there, and    *)
(* written its backup by the time it renames.                              *)
CommandFits(r, there, copy) ==
  /\ r.at \in {"read", "rename"} /\ ~ r.stale => there = r.previous
  /\ r.at = "rename" => r.previous.is \in {"absent", "settings"}
  /\ r.at = "rename" /\ ~ r.stale /\ r.previous.is # "absent" => copy = r.previous

HookInv == HookTypeOK /\ \A c \in HookCalls : CommandFits(command[c], user, backup)

(* The forms of the file.                                                  *)
LEMMA FileFacts ==
  /\ \A s \in GroupLists : Document(s) \in Files /\ Document(s).is = "settings" /\ Document(s).stop = s
  /\ NoFile \in Files /\ \A is \in {"absent", "broken", "alien"} : [NoFile EXCEPT !.is = is] \in Files
  /\ \A f \in Files : f.stop \in GroupLists
<1>1. ASSUME NEW s \in GroupLists
      PROVE  Document(s) \in Files /\ Document(s).is = "settings" /\ Document(s).stop = s
  BY DEF Files, Document, GroupLists, AnyHook
<1>2. NoFile \in Files
  BY DEF Files, NoFile
<1>3. ASSUME NEW is \in {"absent", "broken", "alien"} PROVE [NoFile EXCEPT !.is = is] \in Files
  <2>1. [NoFile EXCEPT !.is = is] = [is |-> is, stop |-> << >>]
    BY DEF NoFile
  <2> QED BY <2>1 DEF Files
<1>4. ASSUME NEW f \in Files PROVE f.stop \in GroupLists
  <2>1. << >> \in GroupLists
    BY EmptySeq DEF GroupLists
  <2>2. Files = {[is |-> i, stop |-> << >>] : i \in {"absent", "broken", "alien"}}
                \cup [is : {"settings"}, stop : GroupLists]
    BY DEF Files, GroupLists, AnyHook
  <2> QED BY <2>1, <2>2
<1> QED BY <1>1, <1>2, <1>3, <1>4

(* The forms a command takes.                                              *)
Disturbed(r, b)  == [r EXCEPT !.stale = b]
Reaching(r, at)  == [r EXCEPT !.at = at]
Opened(r, there) == [r EXCEPT !.at = "read", !.previous = there]
Asking(kind)     == [NoCommand EXCEPT !.at = "consent", !.kind = kind]

(* The forms are those of commands.                                        *)
LEMMA CommandTypes ==
  ASSUME NEW r \in HookCommand
  PROVE  /\ LET q == Reaching(r, "rename") IN
              q \in HookCommand /\ q.at = "rename" /\ q.previous = r.previous /\ q.stale = r.stale
         /\ \A f \in Files :
              /\ Opened(r, f) \in HookCommand /\ Opened(r, f).at = "read"
              /\ Opened(r, f).previous = f
         /\ NoCommand \in HookCommand /\ NoCommand.at = "idle"
         /\ \A kind \in {"install", "uninstall"} :
              Asking(kind) \in HookCommand /\ Asking(kind).at = "consent"
<1>2. LET q == Reaching(r, "rename") IN
        q \in HookCommand /\ q.at = "rename" /\ q.previous = r.previous /\ q.stale = r.stale
  BY DEF Reaching, HookCommand
<1>3. ASSUME NEW f \in Files
      PROVE  /\ Opened(r, f) \in HookCommand /\ Opened(r, f).at = "read"
             /\ Opened(r, f).previous = f
  BY DEF Opened, HookCommand
<1>4. NoCommand \in HookCommand /\ NoCommand.at = "idle"
  BY FileFacts DEF NoCommand, HookCommand
<1>5. ASSUME NEW kind \in {"install", "uninstall"}
      PROVE  Asking(kind) \in HookCommand /\ Asking(kind).at = "consent"
  BY FileFacts DEF Asking, NoCommand, HookCommand
<1> QED BY <1>2, <1>3, <1>4, <1>5

(* A step of one command, nothing of what it has read being changed.       *)
LEMMA CommandKeeps ==
  ASSUME HookInv, NEW c \in HookCalls, NEW r \in HookCommand, command' = [command EXCEPT ![c] = r],
         UNCHANGED << user, others, backup >>, CommandFits(r, user, backup)
  PROVE  HookInv'
<1>1. HookTypeOK'
  BY DEF HookInv, HookTypeOK
<1>2. \A d \in HookCalls : command'[d] = IF d = c THEN r ELSE command[d]
  BY DEF HookInv, HookTypeOK
<1>3. \A d \in HookCalls : CommandFits(command[d], user, backup)
  BY DEF HookInv
<1>4. \A d \in HookCalls : CommandFits(command'[d], user', backup')
  BY <1>2, <1>3 DEF CommandFits
<1> QED BY <1>1, <1>4 DEF HookInv

(* What a step that changes the file or the backup does to the others.     *)
LEMMA OutdatedFacts ==
  ASSUME HookInv, NEW ats, NEW d \in HookCalls
  PROVE  /\ Outdated(ats)[d] \in HookCommand /\ Outdated(ats)[d].at = command[d].at
         /\ Outdated(ats)[d].previous = command[d].previous
         /\ Outdated(ats)[d].stale = (command[d].stale \/ command[d].at \in ats)
<1> DEFINE b == command[d].stale \/ command[d].at \in ats
           r == command[d]
<1>1. r \in HookCommand /\ r.stale \in BOOLEAN
  BY DEF HookInv, HookTypeOK, HookCommand
<1>2. b \in BOOLEAN /\ Outdated(ats)[d] = Disturbed(r, b)
  BY <1>1, Zenon DEF Outdated, Disturbed
<1> HIDE DEF b, r
<1>3. /\ Disturbed(r, b) \in HookCommand /\ Disturbed(r, b).stale = b
      /\ Disturbed(r, b).at = r.at /\ Disturbed(r, b).previous = r.previous
  <2>1. r \in HookCommand /\ b \in BOOLEAN
    BY <1>1, <1>2
  <2> QED BY <2>1 DEF Disturbed, HookCommand
<1> QED BY <1>2, <1>3 DEF b, r

(* The backup is written before the rename.                                *)
LEMMA BackupKeeps ==
  ASSUME HookInv, NEW c \in HookCalls, Backup(c)
  PROVE  HookInv'
<1> DEFINE r == command[c]
           q == Reaching(r, "rename")
           o == Outdated({"rename"})
<1>1. /\ r.at = "read" /\ r.previous.is \in {"absent", "settings"}
      /\ backup' = IF r.previous.is = "absent" THEN backup ELSE r.previous
      /\ command' = [o EXCEPT ![c] = q] /\ user' = user /\ others' = others
  BY DEF Backup, assertWritableSettings, Reaching
<1>2. r \in HookCommand /\ r.previous \in Files /\ CommandFits(r, user, backup)
  BY DEF HookInv, HookTypeOK, HookCommand
<1>3. q \in HookCommand /\ q.at = "rename" /\ q.previous = r.previous /\ q.stale = r.stale
  BY <1>2, CommandTypes
<1>4. o = [d \in HookCalls |-> o[d]]
  BY DEF Outdated
<1>5. \A d \in HookCalls : /\ o[d] \in HookCommand /\ o[d].at = command[d].at
                           /\ o[d].previous = command[d].previous
                           /\ o[d].stale = (command[d].stale \/ command[d].at \in {"rename"})
  BY OutdatedFacts
<1> HIDE DEF o, q
<1>6. \A d \in HookCalls : command'[d] = IF d = c THEN q ELSE o[d]
  BY <1>1, <1>4
<1>7. command' = [d \in HookCalls |-> command'[d]]
  BY <1>1, <1>4
<1>8. command' \in [HookCalls -> HookCommand]
  BY <1>3, <1>5, <1>6, <1>7
<1>9. backup' \in Files
  BY <1>1, <1>2 DEF HookInv, HookTypeOK
<1>10. HookTypeOK'
  BY <1>1, <1>8, <1>9 DEF HookInv, HookTypeOK
<1>11. ASSUME NEW d \in HookCalls PROVE CommandFits(command'[d], user', backup')
  <2>1. CASE d = c
    BY <1>1, <1>2, <1>3, <1>6, <2>1 DEF CommandFits
  <2>2. CASE d # c
    <3>1. CommandFits(command[d], user, backup)
      BY DEF HookInv
    <3> DEFINE q1 == command'[d]
               q0 == command[d]
    <3>2. /\ q1.at = q0.at /\ q1.previous = q0.previous /\ user' = user
          /\ (~ q1.stale => ~ q0.stale /\ q0.at # "rename")
      BY <1>1, <1>5, <1>6, <2>2
    <3> HIDE DEF q0, q1
    <3>3. q1.at = "rename" => q1.stale
      BY <3>2
    <3>4. CommandFits(q1, user', backup')
      BY <3>1, <3>2, <3>3 DEF CommandFits, q0
    <3> QED BY <3>4 DEF q1
  <2> QED BY <2>1, <2>2
<1> QED BY <1>10, <1>11 DEF HookInv

(* A step that changes the file disturbs every command that has read it.   *)
LEMMA ChangeKeeps ==
  ASSUME HookInv, user' \in Files, others' = others, backup' = backup,
         NEW C \in SUBSET HookCalls,
         command' = [d \in HookCalls |-> IF d \in C THEN NoCommand ELSE Outdated({"read", "rename"})[d]]
  PROVE  HookInv'
<1> DEFINE o == Outdated({"read", "rename"})
<1>1. \A d \in HookCalls : /\ o[d] \in HookCommand /\ o[d].at = command[d].at
                           /\ o[d].previous = command[d].previous
                           /\ o[d].stale = (command[d].stale \/ command[d].at \in {"read", "rename"})
  BY OutdatedFacts
<1> HIDE DEF o
<1>2. \A d \in HookCalls : command'[d] = IF d \in C THEN NoCommand ELSE o[d]
  BY DEF o
<1>3. ASSUME NEW d \in HookCalls PROVE command'[d] \in HookCommand /\ CommandFits(command'[d], user', backup')
  <2>1. command[d] \in HookCommand /\ CommandFits(command[d], user, backup)
    BY DEF HookInv, HookTypeOK
  <2>2. NoCommand \in HookCommand /\ NoCommand.at = "idle"
    BY <2>1, CommandTypes
  <2>3. CASE d \in C
    BY <1>2, <2>2, <2>3 DEF CommandFits
  <2>4. CASE d \notin C
    BY <1>1, <1>2, <2>1, <2>4 DEF CommandFits
  <2> QED BY <2>3, <2>4
<1>4. command' \in [HookCalls -> HookCommand]
  BY <1>3
<1> QED BY <1>3, <1>4 DEF HookInv, HookTypeOK

(* A rename that nobody came before changes no hook of others.             *)
HooksKept ==
  \A c \in HookCalls : command[c].at = "rename" /\ user' # user /\ command'[c].at = "idle"
                       /\ ~ command[c].stale =>
    /\ FlatTheirs(user') = FlatTheirs(user)
    /\ user.is # "absent" => user.is = "settings" /\ backup = user

(* The rename keeps the hooks of others.                                   *)
LEMMA RenameKeeps ==
  ASSUME HookInv, NEW c \in HookCalls, RenameFile(c)
  PROVE  HookInv' /\ HooksKept
<1> DEFINE r == command[c]
           stop == r.previous.stop
           new == IF r.kind = "install" THEN addHookEntry(stop) ELSE removeHookEntry(stop)
           o == Outdated({"read", "rename"})
<1>1. /\ r.at = "rename" /\ command' = [o EXCEPT ![c] = NoCommand] /\ user' = Document(new)
      /\ others' = others /\ backup' = backup
  BY DEF RenameFile
<1>2. r \in HookCommand /\ r.previous \in Files /\ CommandFits(r, user, backup)
  BY DEF HookInv, HookTypeOK, HookCommand
<1>3. stop \in GroupLists
  BY <1>2, FileFacts
<1> HIDE DEF stop
<1>4. new \in GroupLists /\ Theirs(FlattenSeq(new)) = Theirs(FlattenSeq(stop))
  BY <1>3, AdditionFacts, RemovalFacts
<1> HIDE DEF new
<1>5. user' \in Files /\ user'.stop = new
  BY <1>1, <1>4, FileFacts
<1>6. o = [d \in HookCalls |-> o[d]]
  BY DEF Outdated
<1>7. \A d \in HookCalls : o[d].at = command[d].at
  BY OutdatedFacts
<1>8. command' = [d \in HookCalls |-> IF d \in {c} THEN NoCommand ELSE o[d]]
  <2> HIDE DEF o
  <2> QED BY <1>1, <1>6
<1>9. HookInv'
  BY <1>1, <1>5, <1>8, ChangeKeeps
<1>10. ASSUME NEW d \in HookCalls, command[d].at = "rename", command'[d].at = "idle" PROVE d = c
  <2> HIDE DEF o
  <2> QED BY <1>7, <1>8, <1>10
<1>11. FlatTheirs(user') = Theirs(FlattenSeq(stop))
  BY <1>4, <1>5 DEF FlatTheirs
<1>12. ASSUME ~ r.stale
       PROVE  /\ FlatTheirs(user') = FlatTheirs(user)
              /\ user.is # "absent" => user.is = "settings" /\ backup = user
  <2>1. user = r.previous /\ r.previous.is \in {"absent", "settings"}
        /\ (r.previous.is # "absent" => backup = r.previous)
    BY <1>1, <1>2, <1>12 DEF CommandFits
  <2>2. FlatTheirs(user) = Theirs(FlattenSeq(stop))
    BY <2>1 DEF FlatTheirs, stop
  <2> QED BY <1>11, <2>1, <2>2
<1>13. HooksKept
  BY <1>10, <1>12 DEF HooksKept
<1> QED BY <1>9, <1>13

(* Every step keeps the invariant, and the hooks of others as the property *)
(* asks.                                                                   *)
LEMMA NextHook == HookInv /\ [HookNext]_hookVars => HookInv' /\ (UNCHANGED hookVars \/ HooksKept)
<1> SUFFICES ASSUME HookInv, [HookNext]_hookVars
             PROVE  HookInv' /\ (UNCHANGED hookVars \/ HooksKept)
  OBVIOUS
<1>1. ASSUME UNCHANGED user PROVE HooksKept
  BY <1>1 DEF HooksKept
<1>2. ASSUME NEW c \in HookCalls PROVE command[c] \in HookCommand /\ CommandFits(command[c], user, backup)
  BY DEF HookInv, HookTypeOK
<1>3. ASSUME NEW c \in HookCalls, ReadRaw(c) PROVE HookInv' /\ UNCHANGED user
  <2> DEFINE r == Opened(command[c], user)
  <2>1. user \in Files /\ command[c] \in HookCommand
    BY <1>2 DEF HookInv, HookTypeOK
  <2>2. r \in HookCommand /\ r.at = "read" /\ r.previous = user
    BY <2>1, CommandTypes
  <2>3. command' = [command EXCEPT ![c] = r] /\ UNCHANGED << user, others, backup >>
    BY <1>3 DEF ReadRaw, Proceeds, Opened
  <2> HIDE DEF r
  <2>4. CommandFits(r, user, backup)
    BY <2>2 DEF CommandFits
  <2> QED BY <2>2, <2>3, <2>4, CommandKeeps
<1>4. ASSUME NEW c \in HookCalls, NEW r \in HookCommand, r.at \in {"idle", "consent"},
             Proceeds(c, r), UNCHANGED << user, others, backup >>
      PROVE  HookInv' /\ UNCHANGED user
  <2>1. CommandFits(r, user, backup)
    BY <1>4 DEF CommandFits
  <2> QED BY <1>4, <2>1, CommandKeeps DEF Proceeds
<1>5. ASSUME NEW c \in HookCalls, GivesUp(c) PROVE HookInv' /\ UNCHANGED user
  <2>1. NoCommand \in HookCommand /\ NoCommand.at = "idle"
    BY <1>2, CommandTypes
  <2> QED BY <1>4, <1>5, <2>1 DEF GivesUp
<1>6. ASSUME NEW c \in HookCalls, NEW kind \in {"install", "uninstall"}, Wanted(c, kind)
      PROVE  HookInv' /\ UNCHANGED user
  <2>1. Asking(kind) \in HookCommand /\ Asking(kind).at = "consent"
    BY <1>2, CommandTypes
  <2>2. Proceeds(c, Asking(kind)) /\ UNCHANGED << user, others, backup >>
    BY <1>6 DEF Wanted, Asking
  <2> QED BY <1>4, <2>1, <2>2
<1>7. ASSUME NEW new \in Files, Edited(new) PROVE HookInv' /\ HooksKept
  <2> DEFINE o == Outdated({"read", "rename"})
  <2>1. user' = new /\ command' = o /\ UNCHANGED << others, backup >>
    BY <1>7 DEF Edited
  <2>2. o = [d \in HookCalls |-> o[d]] /\ \A d \in HookCalls : o[d].at = command[d].at
    <3>1. o = [d \in HookCalls |-> o[d]]
      BY DEF Outdated
    <3> QED BY <3>1, OutdatedFacts
  <2> HIDE DEF o
  <2> DEFINE C == {}
  <2>3. C \in SUBSET HookCalls /\ command' = [d \in HookCalls |-> IF d \in C THEN NoCommand ELSE o[d]]
    BY <2>1, <2>2
  <2> HIDE DEF C
  <2>4. HookInv'
    BY <1>7, <2>1, <2>3, ChangeKeeps DEF o
  <2>5. HooksKept
    BY <2>1, <2>2 DEF HooksKept
  <2> QED BY <2>4, <2>5
<1>8. ASSUME NEW stop \in Edits, Edited(Document(stop)) PROVE HookInv' /\ HooksKept
  <2>1. stop \in GroupLists
    BY HookAssumption DEF GroupLists, AnyHook
  <2>2. Document(stop) \in Files
    BY <2>1, FileFacts
  <2> QED BY <1>7, <1>8, <2>2
<1>9. ASSUME NEW is \in {"absent", "broken", "alien"}, Edited([NoFile EXCEPT !.is = is])
      PROVE  HookInv' /\ HooksKept
  <2>1. [NoFile EXCEPT !.is = is] \in Files
    BY FileFacts
  <2> QED BY <1>7, <1>9, <2>1
<1>10. ASSUME NEW c \in HookCalls, Backup(c) PROVE HookInv' /\ UNCHANGED user
  BY <1>10, BackupKeeps DEF Backup
<1>11. ASSUME UNCHANGED hookVars PROVE HookInv'
  BY <1>11 DEF hookVars, HookInv, HookTypeOK, CommandFits
<1> QED BY <1>1, <1>3, <1>5, <1>6, <1>8, <1>9, <1>10, <1>11, RenameKeeps DEF HookNext

(* No command is under way at first.                                       *)
LEMMA InitHook == HookInit => HookInv
<1> SUFFICES ASSUME HookInit PROVE HookInv
  OBVIOUS
<1>1. NoCommand \in HookCommand /\ NoCommand.at = "idle"
  BY FileFacts DEF NoCommand, HookCommand
<1>2. command \in [HookCalls -> HookCommand] /\ \A c \in HookCalls : command[c].at = "idle"
  BY <1>1 DEF HookInit
<1>3. user \in Files
  <2>1. \A stop \in Edits : stop \in GroupLists
    BY HookAssumption DEF GroupLists, AnyHook
  <2> QED BY <2>1, FileFacts DEF HookInit
<1>4. backup \in Files /\ others \in {"none", "ours", "broken"}
  BY FileFacts DEF HookInit
<1> QED BY <1>2, <1>3, <1>4 DEF HookInv, HookTypeOK, CommandFits

(* The hook: what a command has read is what is there, unless somebody     *)
(* wrote in between.                                                       *)
THEOREM HookInvariant == HookSpec => []HookInv
BY InitHook, NextHook, PTL DEF HookSpec

(* The variables of the hook have their types.                             *)
THEOREM HookTypes == HookSpec => []HookTypeOK
<1>1. HookInv => HookTypeOK
  BY DEF HookInv
<1> QED BY <1>1, HookInvariant, PTL

(* Installing or uninstalling our hook changes no hook of others and       *)
(* leaves a backup of what it replaced (settings.json of Claude Code),     *)
(* unless somebody else wrote the file in between.                         *)
THEOREM KeepsHooksOfOthers == HookSpec => HooksOfOthersKept
<1>1. HookInv /\ [HookNext]_hookVars => [HooksKept]_hookVars
  BY NextHook
<1>2. HookSpec => [][HooksKept]_hookVars
  BY HookInvariant, <1>1, PTL DEF HookSpec
<1> QED BY <1>2 DEF HooksOfOthersKept, HooksKept

-----------------------------------------------------------------------------
(* The audio surface.                                                      *)

(* A player that shows sound.                                              *)
Sounding == {"playing", "buffering"}

(* The orders under way end with the load of chunk c; or none of them is   *)
(* about a chunk, and the page has c already, unless it has no sound or    *)
(* has refused a chunk.                                                    *)
Sourcing == {"load", "stop"}
LastLoad(orders, c) ==
  \E i \in DOMAIN orders :
    /\ orders[i].type = "load" /\ orders[i].chunk = c
    /\ \A j \in DOMAIN orders : j > i => orders[j].type \notin Sourcing
NoLoad(orders) == \A j \in DOMAIN orders : orders[j].type \notin Sourcing
Has(p, c) == p.audio = "empty" \/ p.refused \/ (p.src = c /\ p.chunk = c)
Sourced(orders, c, p) == LastLoad(orders, c) \/ (NoLoad(orders) /\ Has(p, c))

(* The page is silent, or will be once it has handled the last order, one  *)
(* of `types`.                                                             *)
Hushed(orders, p, types) ==
  IF orders = << >> THEN p.audio # "playing" ELSE orders[Len(orders)].type \in types

(* What the page has or will have is what was loaded last; or the player   *)
(* has stopped it, and loads nothing.                                      *)
SourceAhead(orders, h, p) ==
  \/ Sourced(orders, h.loaded, p)
  \/ Hushed(orders, p, {"stop"}) /\ h.state \notin Sounding \cup {"paused"} /\ h.at # "loading"

(* A player that shows no sound has silenced the page, unless it is in the *)
(* middle of a load.                                                       *)
StateAhead(orders, h, p) ==
  h.at \in {"settled", "waiting"} /\ h.state \notin Sounding => Hushed(orders, p, {"pause", "stop"})

(* The player: what it stands on and what it has loaded.                   *)
HostFits(h) ==
  /\ h \in Host /\ (h.at # "settled" => h.chunk \in Chunks)
  /\ h.at = "settled" => h.state \in {"idle", "playing", "paused"}
  /\ (h.at = "loading" \/ (h.at = "settled" /\ h.state # "idle")) => h.loaded = h.chunk

PageFits == page.chunk # None => page.refused \/ page.src = page.chunk

(* All but the messages to the host.                                       *)
PageInv ==
  /\ view \in Views \cup {None} /\ webview = view /\ page \in Page
  /\ toPage \in Seq(Orders) /\ HostFits(host)
  /\ PageFits
  /\ webview = None => toPage = << >> /\ page.audio = "empty"
  /\ SourceAhead(toPage, host, page) /\ StateAhead(toPage, host, page)

ToldInv == /\ toHost \in Seq(Told)
           /\ \A k \in DOMAIN toHost : toHost[k].refused \/ toHost[k].chunk = toHost[k].of

SurfaceInv == PageInv /\ ToldInv

-----------------------------------------------------------------------------
(* Messages are added at the end.                                          *)
LEMMA AppendOne ==
  ASSUME NEW s \in Seq(Orders), NEW a \in Orders
  PROVE  /\ s \o << a >> \in Seq(Orders) /\ s \o << a >> # << >>
         /\ Len(s \o << a >>) = Len(s) + 1 /\ (s \o << a >>)[Len(s) + 1] = a
         /\ \A i \in DOMAIN s : (s \o << a >>)[i] = s[i]
OBVIOUS

(* What a message more does to the orders under way.                       *)
LEMMA OneMore ==
  ASSUME NEW s \in Seq(Orders), NEW a \in Orders, NEW c, NEW p
  PROVE  LET t == s \o << a >> IN
         /\ t \in Seq(Orders) /\ t # << >> /\ t[Len(t)] = a
         /\ a.type \notin Sourcing /\ Sourced(s, c, p) => Sourced(t, c, p)
         /\ a.type = "load" => Sourced(t, a.chunk, p)
<1> DEFINE t == s \o << a >>
           n == Len(s)
<1>1. /\ t \in Seq(Orders) /\ t # << >> /\ Len(t) = n + 1 /\ t[n + 1] = a
      /\ n \in Nat /\ DOMAIN s = 1 .. n /\ \A i \in 1 .. n : t[i] = s[i]
  BY AppendOne
<1>2. DOMAIN t = 1 .. n + 1
  BY <1>1
<1> HIDE DEF t, n
<1>3. ASSUME a.type \notin Sourcing, LastLoad(s, c) PROVE LastLoad(t, c)
  <2>1. PICK i \in 1 .. n :
          /\ s[i].type = "load" /\ s[i].chunk = c
          /\ \A j \in 1 .. n : j > i => s[j].type \notin Sourcing
    BY <1>1, <1>3 DEF LastLoad
  <2>2. i \in 1 .. n + 1 /\ t[i].type = "load" /\ t[i].chunk = c
    BY <1>1, <2>1
  <2>3. \A j \in 1 .. n + 1 : j > i => t[j].type \notin Sourcing
    BY <1>1, <1>3, <2>1
  <2> QED BY <1>2, <2>2, <2>3 DEF LastLoad
<1>4. ASSUME a.type \notin Sourcing, NoLoad(s) PROVE NoLoad(t)
  BY <1>1, <1>2, <1>4 DEF NoLoad
<1>5. ASSUME a.type = "load" PROVE LastLoad(t, a.chunk)
  <2>1. n + 1 \in 1 .. n + 1 /\ \A j \in 1 .. n + 1 : ~ j > n + 1
    BY <1>1
  <2> QED BY <1>1, <1>2, <1>5, <2>1 DEF LastLoad
<1> QED BY <1>1, <1>3, <1>4, <1>5 DEF Sourced, t

(* Without a page nothing is under way, and there is no sound.             *)
LEMMA NoPageFits ==
  ASSUME NEW p, p.audio = "empty", NEW h
  PROVE  SourceAhead(<< >>, h, p) /\ StateAhead(<< >>, h, p)
BY DEF SourceAhead, StateAhead, Sourced, NoLoad, Has, Hushed

(* The player tells the page something: what is to be shown of it.         *)
LEMMA OrderKeeps ==
  ASSUME PageInv, NEW a \in Orders, Post(<< a >>), HostFits(host'),
         UNCHANGED << view, webview, page >>,
         a.type = "load" => host'.loaded = a.chunk,
         a.type \in {"play", "pause"} => Sourced(toPage, host.loaded, page) /\ host'.loaded = host.loaded,
         a.type = "stop" => host'.state \notin Sounding \cup {"paused"} /\ host'.at # "loading",
         a.type \in {"load", "play"} => host'.at \notin {"settled", "waiting"} \/ host'.state \in Sounding
  PROVE  PageInv'
<1>1. toPage \in Seq(Orders) /\ a.type \in {"load", "play", "pause", "stop"}
  BY DEF PageInv, Orders
<1>2. CASE webview = None
  <2>1. toPage' = << >> /\ page'.audio = "empty"
    BY <1>2 DEF Post, PageInv
  <2>2. SourceAhead(toPage', host', page') /\ StateAhead(toPage', host', page')
    BY <2>1, NoPageFits
  <2> QED BY <1>1, <2>1, <2>2 DEF PageInv, PageFits
<1>3. CASE webview # None
  <2>1. toPage' = toPage \o << a >>
    BY <1>3 DEF Post
  <2>2. /\ toPage' \in Seq(Orders) /\ toPage' # << >> /\ toPage'[Len(toPage')] = a
        /\ a.type \notin Sourcing /\ Sourced(toPage, host.loaded, page) => Sourced(toPage', host.loaded, page)
        /\ a.type = "load" => Sourced(toPage', a.chunk, page)
    BY <1>1, <2>1, OneMore
  <2>3. SourceAhead(toPage', host', page')
    <3>1. CASE a.type = "load"
      BY <2>2, <3>1 DEF SourceAhead
    <3>2. CASE a.type \in {"play", "pause"}
      BY <2>2, <3>2 DEF SourceAhead, Sourcing
    <3>3. CASE a.type = "stop"
      BY <2>2, <3>3 DEF SourceAhead, Hushed
    <3> QED BY <1>1, <3>1, <3>2, <3>3
  <2>4. StateAhead(toPage', host', page')
    <3>1. CASE a.type \in {"load", "play"}
      BY <3>1 DEF StateAhead
    <3>2. CASE a.type \in {"pause", "stop"}
      BY <2>2, <3>2 DEF StateAhead, Hushed
    <3> QED BY <1>1, <3>1, <3>2
  <2> QED BY <1>3, <2>2, <2>3, <2>4 DEF PageInv, PageFits
<1> QED BY <1>2, <1>3

(* The player stands on another chunk.                                     *)
LEMMA TurnsToKeeps ==
  ASSUME PageInv, NEW c \in Chunks, TurnsTo(c), UNCHANGED << view, webview, page >>
  PROVE  PageInv'
<1>1. PICK st \in {host.state, IF host.state = "playing" THEN "buffering"
                               ELSE IF host.state = "buffering" THEN "buffering" ELSE "preparing"} :
        host' = [host EXCEPT !.state = st, !.chunk = c,
                   !.at = IF @ \in {"loading", "overtaken"} THEN "overtaken" ELSE "waiting"]
  BY DEF TurnsTo
<1>2. host \in Host /\ toPage' = toPage
  BY DEF PageInv, HostFits, TurnsTo
<1>3. /\ host' \in Host /\ host'.state = st /\ host'.chunk = c /\ host'.loaded = host.loaded
      /\ host'.at \in {"waiting", "overtaken"}
      /\ host'.at = "waiting" => host.at \in {"settled", "waiting"}
      /\ st \in Sounding <=> host.state \in Sounding
      /\ st = "paused" => host.state = "paused"
  BY <1>1, <1>2 DEF Host, Sounding
<1>4. HostFits(host')
  BY <1>3 DEF HostFits
<1>5. SourceAhead(toPage', host', page')
  BY <1>2, <1>3 DEF SourceAhead, PageInv
<1>6. StateAhead(toPage', host', page')
  BY <1>2, <1>3 DEF StateAhead, PageInv
<1> QED BY <1>2, <1>4, <1>5, <1>6 DEF PageInv, PageFits

(* Whatever the player does.                                               *)
LEMMA HostKeeps ==
  ASSUME PageInv, UNCHANGED << view, webview, page >>,
         Loads \/ Sounds \/ Paused \/ Resumed \/ Stopped \/ Ignored \/ \E c \in Chunks : TurnsTo(c)
  PROVE  PageInv'
<1>0. /\ host \in Host /\ HostFits(host)
      /\ \A t \in {"play", "pause", "stop"} : Command(t, None) \in Orders /\ Command(t, None).type = t
      /\ host.state \in {"playing", "paused"} \/ host.at = "loading" => Sourced(toPage, host.loaded, page)
  BY DEF PageInv, HostFits, Orders, Command, SourceAhead, Sounding
<1>1. CASE Loads
  <2> DEFINE a == Command("load", host.chunk)
  <2>1. a \in Orders /\ a.type = "load" /\ a.chunk = host.chunk
    BY <1>0, <1>1 DEF Loads, HostFits, Orders, Command
  <2>2. Post(<< a >>)
    BY <1>1 DEF Loads
  <2>3. /\ host' \in Host /\ host'.at = "loading" /\ host'.loaded = host.chunk
        /\ host'.chunk = host.chunk /\ host.chunk \in Chunks
    BY <1>0, <1>1 DEF Loads, Host, HostFits
  <2> HIDE DEF a
  <2> QED BY <2>1, <2>2, <2>3, OrderKeeps DEF HostFits
<1>2. CASE Sounds
  <2>1. /\ host' \in Host /\ host'.at = "settled" /\ host'.loaded = host.loaded
        /\ host'.chunk = host.chunk /\ host'.state = "playing" /\ host.at = "loading"
    BY <1>0, <1>2 DEF Sounds, Host
  <2>2. Post(<< Command("play", None) >>)
    BY <1>2 DEF Sounds
  <2> QED BY <1>0, <2>1, <2>2, OrderKeeps DEF HostFits, Sounding
<1>3. CASE Paused
  <2>1. /\ host' \in Host /\ host'.at = host.at /\ host'.loaded = host.loaded
        /\ host'.chunk = host.chunk /\ host'.state = "paused" /\ host.state = "playing"
    BY <1>0, <1>3 DEF Paused, Host
  <2>2. Post(<< Command("pause", None) >>)
    BY <1>3 DEF Paused
  <2> QED BY <1>0, <2>1, <2>2, OrderKeeps DEF HostFits
<1>4. CASE Resumed
  <2>1. /\ host' \in Host /\ host'.at = host.at /\ host'.loaded = host.loaded
        /\ host'.chunk = host.chunk /\ host'.state = "playing" /\ host.state = "paused"
    BY <1>0, <1>4 DEF Resumed, Host
  <2>2. Post(<< Command("play", None) >>)
    BY <1>4 DEF Resumed
  <2> QED BY <1>0, <2>1, <2>2, OrderKeeps DEF HostFits, Sounding
<1>5. CASE Stopped
  <2>1. HostFits(host') /\ host'.state = "idle" /\ host'.at = "settled"
    BY <1>5 DEF Stopped, AtRest, Host, HostFits
  <2>2. Post(<< Command("stop", None) >>)
    BY <1>5 DEF Stopped
  <2> QED BY <1>0, <2>1, <2>2, OrderKeeps DEF Sounding
<1>6. CASE Ignored
  BY <1>6 DEF Ignored, PageInv, PageFits
<1> QED BY <1>1, <1>2, <1>3, <1>4, <1>5, <1>6, TurnsToKeeps
-----------------------------------------------------------------------------
(* A view opens or closes: the page begins, or ends, with nothing.         *)
LEMMA ViewKeeps ==
  ASSUME PageInv, (\E v \in Views : Resolve(v)) \/ DisposeView
  PROVE  PageInv'
<1>1. NoPage \in Page /\ NoPage.audio = "empty" /\ NoPage.chunk = None
  BY DEF NoPage, Page
<1>2. /\ page' = NoPage /\ toPage' = << >> /\ view' \in Views \cup {None} /\ webview' = view'
      /\ host' = host
  BY DEF Resolve, DisposeView, PageInv
<1>3. toPage' \in Seq(Orders)
  BY <1>2
<1>4. SourceAhead(toPage', host', page') /\ StateAhead(toPage', host', page')
  BY <1>1, <1>2, NoPageFits
<1> QED BY <1>1, <1>2, <1>3, <1>4 DEF PageInv, PageFits

(* The page handles what it is told first.  What comes after it is what    *)
(* counts, unless it comes last.                                           *)
LEMMA HandleKeeps ==
  ASSUME PageInv, HandleMessage
  PROVE  PageInv'
<1> DEFINE m == Head(toPage)
           n == Len(toPage)
           c == host.loaded
<1>0. /\ toPage # << >> /\ toPage' = Tail(toPage) /\ toPage \in Seq(Orders)
      /\ UNCHANGED << view, webview, toHost, host >>
  BY DEF HandleMessage, PageInv
<1>1. /\ n \in Nat \ {0} /\ DOMAIN toPage = 1 .. n /\ m = toPage[1] /\ m \in Orders
      /\ toPage' \in Seq(Orders) /\ Len(toPage') = n - 1 /\ DOMAIN toPage' = 1 .. n - 1
      /\ \A j \in 1 .. n - 1 : toPage'[j] = toPage[j + 1]
  BY <1>0
<1>2. webview # None
  BY <1>0 DEF PageInv
<1>3. /\ m.type \in {"load", "play", "pause", "stop"}
      /\ m.type = "load" => m.chunk \in Chunks
  BY <1>1 DEF Orders
<1> HIDE DEF m, n
<1>4. /\ page' \in Page /\ PageFits'
      /\ m.type = "load" => Has(page', m.chunk)
      /\ \A x : m.type \in {"play", "pause"} /\ Has(page, x) => Has(page', x)
      /\ m.type \in {"pause", "stop"} => page'.audio # "playing"
  <2>0. page \in Page /\ PageFits
    BY DEF PageInv
  <2>1. CASE m.type = "load"
    <3>1. page' \in Loaded(m.chunk) \cup {[page EXCEPT !.chunk = m.chunk, !.refused = TRUE]}
      BY <2>1 DEF HandleMessage, HandleLoad, m
    <3>2. CASE page' \in Loaded(m.chunk)
      <4>1. PICK a \in {"playing", "paused"} :
              page' = [chunk |-> m.chunk, src |-> m.chunk, refused |-> FALSE, audio |-> a, due |-> None]
        BY <3>2 DEF Loaded
      <4> QED BY <1>3, <2>1, <4>1 DEF Page, PageFits, Has
    <3>3. CASE page' = [page EXCEPT !.chunk = m.chunk, !.refused = TRUE]
      BY <1>3, <2>0, <2>1, <3>3 DEF Page, PageFits, Has
    <3> QED BY <3>1, <3>2, <3>3
  <2>2. CASE m.type = "play"
    <3>1. page' = page \/ page' = [page EXCEPT !.audio = IF @ = "empty" THEN @ ELSE "playing"]
      BY <2>2 DEF HandleMessage, m
    <3> QED BY <2>0, <2>2, <3>1 DEF Page, PageFits, Has
  <2>3. CASE m.type = "pause"
    <3>1. page' = [page EXCEPT !.audio = IF @ = "empty" THEN @ ELSE "paused"]
      BY <2>3 DEF HandleMessage, m
    <3> QED BY <2>0, <2>3, <3>1 DEF Page, PageFits, Has
  <2>4. CASE m.type = "stop"
    <3>1. page' = [page EXCEPT !.audio = IF @ = "empty" THEN @ ELSE "paused", !.chunk = None]
      BY <2>4 DEF HandleMessage, m
    <3> QED BY <2>0, <2>4, <3>1 DEF Page, PageFits
  <2> QED BY <1>3, <2>1, <2>2, <2>3, <2>4
<1>5. ASSUME Sourced(toPage, c, page) PROVE Sourced(toPage', c, page')
  <2>1. CASE LastLoad(toPage, c)
    <3>1. PICK i \in 1 .. n :
            /\ toPage[i].type = "load" /\ toPage[i].chunk = c
            /\ \A j \in 1 .. n : j > i => toPage[j].type \notin Sourcing
      BY <1>1, <2>1 DEF LastLoad
    <3>2. CASE i = 1
      <4>1. NoLoad(toPage')
        BY <1>1, <3>1, <3>2 DEF NoLoad
      <4>2. m.type = "load" /\ m.chunk = c
        BY <1>1, <3>1, <3>2
      <4> QED BY <1>4, <4>1, <4>2 DEF Sourced
    <3>3. CASE i # 1
      <4>1. /\ i - 1 \in 1 .. n - 1 /\ toPage'[i - 1] = toPage[i]
        BY <1>1, <3>3
      <4>2. \A j \in 1 .. n - 1 : j > i - 1 => toPage'[j].type \notin Sourcing
        BY <1>1, <3>1
      <4>3. LastLoad(toPage', c)
        BY <1>1, <3>1, <4>1, <4>2 DEF LastLoad
      <4> QED BY <4>3 DEF Sourced
    <3> QED BY <3>2, <3>3
  <2>2. CASE NoLoad(toPage) /\ Has(page, c)
    <3>1. NoLoad(toPage')
      BY <1>1, <2>2 DEF NoLoad
    <3>2. m.type \in {"play", "pause"}
      BY <1>1, <1>3, <2>2 DEF NoLoad, Sourcing
    <3> QED BY <1>4, <2>2, <3>1, <3>2 DEF Sourced
  <2> QED BY <1>5, <2>1, <2>2 DEF Sourced
<1>6. ASSUME NEW types \in SUBSET {"pause", "stop"}, Hushed(toPage, page, types)
      PROVE  Hushed(toPage', page', types)
  <2>1. toPage[n].type \in types
    BY <1>0, <1>6 DEF Hushed, n
  <2>2. CASE n = 1
    <3>1. toPage' = << >>
      BY <1>1, <2>2
    <3>2. m.type \in {"pause", "stop"}
      BY <1>1, <1>6, <2>1, <2>2
    <3> QED BY <1>4, <3>1, <3>2 DEF Hushed
  <2>3. CASE n # 1
    <3>1. toPage' # << >> /\ toPage'[n - 1] = toPage[n]
      BY <1>1, <2>3
    <3> QED BY <1>1, <2>1, <3>1 DEF Hushed
  <2> QED BY <2>2, <2>3
<1>7. SourceAhead(toPage', host', page') /\ StateAhead(toPage', host', page')
  <2>1. {"stop"} \in SUBSET {"pause", "stop"} /\ {"pause", "stop"} \in SUBSET {"pause", "stop"}
    OBVIOUS
  <2> QED BY <1>0, <1>5, <1>6, <2>1 DEF PageInv, SourceAhead, StateAhead
<1> QED BY <1>0, <1>1, <1>2, <1>4, <1>7 DEF PageInv

(* The element comes to an end, or its event is told.                      *)
LEMMA ElementKeeps ==
  ASSUME PageInv, MediaEvent \/ AudioOver("ended") \/ AudioOver("error")
  PROVE  PageInv'
<1>1. /\ page' \in Page /\ page'.chunk = page.chunk /\ page'.src = page.src
      /\ page'.refused = page.refused
      /\ page'.audio = page.audio \/ (page'.audio = "paused" /\ page.audio = "playing")
  <2>0. page \in Page
    BY DEF PageInv
  <2>1. CASE MediaEvent
    BY <2>0, <2>1 DEF MediaEvent, Page
  <2>2. ASSUME NEW why \in {"ended", "error"}, AudioOver(why)
        PROVE  /\ page' \in Page /\ page'.chunk = page.chunk /\ page'.src = page.src
               /\ page'.refused = page.refused
               /\ page'.audio = "paused" /\ page.audio = "playing"
    BY <2>0, <2>2 DEF AudioOver, Page
  <2> QED BY <2>1, <2>2
<1>2. UNCHANGED << view, webview, toPage, host >>
  BY DEF MediaEvent, AudioOver
<1>3. \A x : Has(page, x) => Has(page', x)
  BY <1>1 DEF Has
<1>4. \A types : Hushed(toPage, page, types) => Hushed(toPage', page', types)
  BY <1>1, <1>2 DEF Hushed
<1>5. SourceAhead(toPage', host', page') /\ StateAhead(toPage', host', page')
  BY <1>2, <1>3, <1>4 DEF PageInv, SourceAhead, StateAhead, Sourced
<1> QED BY <1>1, <1>2, <1>5 DEF PageInv, PageFits

(* The rest tells the host something, or nothing.                          *)
LEMMA OthersKeep ==
  ASSUME PageInv, UNCHANGED << view, webview, page, toPage, host >>
  PROVE  PageInv'
BY DEF PageInv, PageFits

(* What the page tells of a chunk comes from that chunk's sound, unless    *)
(* its address was refused.                                                *)
LEMMA TellKeeps ==
  ASSUME ToldInv, NEW a \in Told, Tell(a), a.refused \/ a.chunk = a.of
  PROVE  ToldInv'
<1>1. toHost' = Append(toHost, a) /\ toHost \in Seq(Told)
  BY DEF Tell, ToldInv
<1>2. /\ toHost' \in Seq(Told) /\ Len(toHost') = Len(toHost) + 1 /\ toHost'[Len(toHost) + 1] = a
      /\ \A k \in 1 .. Len(toHost) : toHost'[k] = toHost[k]
  BY <1>1
<1> QED BY <1>1, <1>2 DEF ToldInv

(* It tells of its own chunk.                                              *)
LEMMA TellOfKeeps ==
  ASSUME PageInv, ToldInv, NEW t \in {"ended", "error", "timeupdate"}, page.chunk # None, TellOf(t)
  PROVE  ToldInv'
<1> DEFINE a == [type |-> t, chunk |-> page.chunk, of |-> page.src, refused |-> page.refused]
<1>1. page \in Page /\ (page.refused \/ page.src = page.chunk)
  BY DEF PageInv, PageFits
<1>2. a \in Told /\ (a.refused \/ a.chunk = a.of)
  BY <1>1 DEF Told, Page
<1>3. Tell(a)
  BY DEF TellOf
<1> QED BY <1>2, <1>3, TellKeeps

(* A button, or that the page is there.                                    *)
LEMMA TellOnlyKeeps ==
  ASSUME ToldInv, NEW t \in {"ready", "play", "pause", "stop"}, TellOnly(t)
  PROVE  ToldInv'
<1> DEFINE a == [type |-> t, chunk |-> None, of |-> None, refused |-> FALSE]
<1>1. a \in Told /\ a.chunk = a.of
  BY DEF Told
<1>2. Tell(a)
  BY DEF TellOnly
<1> QED BY <1>1, <1>2, TellKeeps

(* Every step tells the host nothing but that.                             *)
LEMMA ToldKeeps ==
  ASSUME SurfaceInv, SurfaceNext
  PROVE  ToldInv'
<1> USE DEF SurfaceInv
<1>1. ASSUME NEW v \in Views, Resolve(v) PROVE ToldInv'
  BY <1>1, TellOnlyKeeps DEF Resolve
<1>2. CASE DisposeView
  BY <1>2 DEF DisposeView, ToldInv
<1>3. CASE Driven \/ HandleMessage \/ \E why \in {"ended", "error"} : AudioOver(why)
  BY <1>3 DEF Driven, HandleMessage, AudioOver, ToldInv
<1>4. CASE Dispatch
  <2>1. toHost # << >> /\ toHost' = Tail(toHost) /\ toHost \in Seq(Told)
    BY <1>4 DEF Dispatch, ToldInv
  <2>2. toHost' \in Seq(Told) /\ \A k \in DOMAIN toHost' : k + 1 \in DOMAIN toHost /\ toHost'[k] = toHost[k + 1]
    BY <2>1
  <2> QED BY <2>2 DEF ToldInv
<1>5. CASE MediaEvent
  <2>1. page.due \in {"ended", "error"}
    BY <1>5 DEF MediaEvent, PageInv, Page
  <2>2. CASE page.chunk = None
    BY <1>5, <2>2 DEF MediaEvent, ToldInv
  <2>3. CASE page.chunk # None
    BY <1>5, <2>1, <2>3, TellOfKeeps DEF MediaEvent
  <2> QED BY <2>2, <2>3
<1>6. CASE TimeUpdate
  BY <1>6, TellOfKeeps DEF TimeUpdate
<1>7. CASE Click
  <2>1. PICK t \in {"stop", "pause", "play"} : TellOnly(t)
    BY <1>7 DEF Click
  <2> QED BY <2>1, TellOnlyKeeps
<1> QED BY <1>1, <1>2, <1>3, <1>4, <1>5, <1>6, <1>7 DEF SurfaceNext
-----------------------------------------------------------------------------
(* The invariant holds at the start.                                       *)
LEMMA InitSurface == SurfaceInit => SurfaceInv
<1> SUFFICES ASSUME SurfaceInit PROVE SurfaceInv
  OBVIOUS
<1>1. NoPage \in Page /\ NoPage.audio = "empty" /\ NoPage.chunk = None
  BY DEF NoPage, Page
<1>2. HostFits(AtRest)
  BY DEF AtRest, Host, HostFits
<1>3. SourceAhead(toPage, host, page) /\ StateAhead(toPage, host, page)
  BY <1>1, NoPageFits DEF SurfaceInit
<1> QED BY <1>1, <1>2, <1>3 DEF SurfaceInit, SurfaceInv, PageInv, ToldInv, PageFits

(* Every step keeps the invariant.                                         *)
LEMMA NextSurface == SurfaceInv /\ [SurfaceNext]_surfaceVars => SurfaceInv'
<1> SUFFICES ASSUME SurfaceInv, [SurfaceNext]_surfaceVars PROVE SurfaceInv'
  OBVIOUS
<1>0. PageInv
  BY DEF SurfaceInv
<1>1. CASE UNCHANGED surfaceVars
  <2>1. UNCHANGED << view, webview, page, toPage, host, toHost >>
    BY <1>1 DEF surfaceVars
  <2> QED BY <1>0, <2>1, OthersKeep DEF SurfaceInv, ToldInv
<1>2. CASE Dispatch
  <2>1. /\ UNCHANGED << view, webview, page >>
        /\ Paused \/ Resumed \/ Stopped \/ Ignored \/ \E c \in Chunks : TurnsTo(c)
    BY <1>2 DEF Dispatch, Ended, Pressed
  <2>2. ToldInv'
    BY <1>2, ToldKeeps DEF SurfaceNext
  <2> QED BY <1>0, <2>1, <2>2, HostKeeps DEF SurfaceInv
<1>3. CASE Driven
  <2>1. ToldInv'
    BY <1>3, ToldKeeps DEF SurfaceNext
  <2> QED BY <1>0, <1>3, <2>1, HostKeeps DEF Driven, SurfaceInv
<1>4. CASE TimeUpdate \/ Click
  <2>1. ToldInv'
    BY <1>4, ToldKeeps DEF SurfaceNext
  <2> QED BY <1>0, <1>4, <2>1, OthersKeep DEF TimeUpdate, Click, SurfaceInv
<1>5. CASE SurfaceNext /\ PageInv'
  BY <1>5, ToldKeeps DEF SurfaceInv
<1> QED BY <1>0, <1>1, <1>2, <1>3, <1>4, <1>5, ViewKeeps, HandleKeeps, ElementKeeps DEF SurfaceNext

(* The inductive invariant holds in every reachable state: the page has or *)
(* will have what was loaded last, and is or will be silent when the       *)
(* player shows no sound, whatever is refused.                             *)
THEOREM SurfaceInvariant == SurfaceSpec => []SurfaceInv
BY InitSurface, NextSurface, PTL DEF SurfaceSpec

(* Whatever messages are under way, the page tells of a chunk only what    *)
(* its sound did, and once it has handled what it was told it sounds only  *)
(* with the chunk it was told to load last, and not under a player that    *)
(* shows no sound (player.js); a refused address is excepted.              *)
THEOREM PageObeys == SurfaceSpec => [](SurfaceTypeOK /\ SurfaceObeys)
<1>1. SurfaceInv => SurfaceTypeOK
  BY DEF SurfaceInv, PageInv, ToldInv, SurfaceTypeOK, HostFits
<1>2. SurfaceInv => SurfaceObeys
  <2> SUFFICES ASSUME SurfaceInv, toPage = << >>, page.audio = "playing"
               PROVE  /\ page.refused \/ (page.src = host.loaded /\ page.chunk = host.loaded)
                      /\ host.at = "settled" => host.state = "playing" /\ host.loaded = host.chunk
                      /\ host.at = "waiting" => host.state \in {"playing", "buffering"}
    BY DEF SurfaceInv, ToldInv, SurfaceObeys
  <2>1. host.at \in {"settled", "waiting"} => host.state \in Sounding
    BY DEF SurfaceInv, PageInv, StateAhead, Hushed
  <2>2. ~ LastLoad(toPage, host.loaded)
    BY DEF LastLoad
  <2>3. Has(page, host.loaded)
    BY <2>2 DEF SurfaceInv, PageInv, SourceAhead, Sourced, Hushed
  <2> QED BY <2>1, <2>3 DEF SurfaceInv, PageInv, HostFits, Has, Sounding
<1> QED BY SurfaceInvariant, <1>1, <1>2, PTL

-----------------------------------------------------------------------------
(* The services together.                                                  *)

(* A behaviour is about one component from its start.                      *)
LEMMA OnePart == ServicesSpec => [](part \in Parts)
<1>1. ServicesInit => part \in Parts
  BY DEF ServicesInit
<1>2. part \in Parts /\ [ServicesNext]_services => (part \in Parts)'
  BY DEF ServicesNext, services
<1> QED BY <1>1, <1>2, PTL DEF ServicesSpec

(* For each component: in a behaviour about it, its variables have their   *)
(* types, as they have when it is alone.                                   *)
LEMMA CacheServed == ServicesSpec => [](part = "cache" => CacheTypeOK /\ CacheBudgetWhenQuiet)
<1>1. ServicesInit /\ part = "cache" => CacheInit
  BY DEF ServicesInit
<1>2. [ServicesNext]_services => ((part = "cache")' <=> part = "cache") /\ (part = "cache" => [CacheNext]_cacheVars)
  BY DEF ServicesNext, services
<1> QED BY <1>1, <1>2, CacheTypesHold, WithinBudget, PTL DEF ServicesSpec, CacheSpec

(* The inbox.                                                              *)
LEMMA InboxServed == ServicesSpec => [](part = "inbox" => InboxTypeOK)
<1>1. ServicesInit /\ part = "inbox" => InboxInit
  BY DEF ServicesInit
<1>2. [ServicesNext]_services => ((part = "inbox")' <=> part = "inbox") /\ (part = "inbox" => [InboxNext]_inboxVars)
  BY DEF ServicesNext, services
<1> QED BY <1>1, <1>2, NeverRejected, PTL DEF ServicesSpec, InboxSpec

(* The hook.                                                               *)
LEMMA HookServed == ServicesSpec => [](part = "hook" => HookTypeOK)
<1>1. ServicesInit /\ part = "hook" => HookInit
  BY DEF ServicesInit
<1>2. [ServicesNext]_services => ((part = "hook")' <=> part = "hook") /\ (part = "hook" => [HookNext]_hookVars)
  BY DEF ServicesNext, services
<1> QED BY <1>1, <1>2, HookTypes, PTL DEF ServicesSpec, HookSpec

(* The profiles.                                                           *)
LEMMA ProfileServed == ServicesSpec => [](part = "profiles" => ProfileTypeOK)
<1>1. ServicesInit /\ part = "profiles" => ProfileInit
  BY DEF ServicesInit
<1>2. [ServicesNext]_services => ((part = "profiles")' <=> part = "profiles") /\ (part = "profiles" => [ProfileNext]_profileVars)
  BY DEF ServicesNext, services
<1> QED BY <1>1, <1>2, ProfileTypes, PTL DEF ServicesSpec, ProfileSpec

(* The voice of a profile.                                                 *)
LEMMA VoiceServed == ServicesSpec => [](part = "voice" => VoiceTypeOK)
<1>1. ServicesInit /\ part = "voice" => VoiceInit
  BY DEF ServicesInit
<1>2. [ServicesNext]_services => ((part = "voice")' <=> part = "voice") /\ (part = "voice" => [VoiceNext]_voiceVars)
  BY DEF ServicesNext, services
<1> QED BY <1>1, <1>2, VoiceTypes, PTL DEF ServicesSpec, VoiceSpec

(* The installed voice.                                                    *)
LEMMA LocalVoiceServed == ServicesSpec => [](part = "local" => LocalVoiceTypeOK /\ LocalVoiceWhole)
<1>1. ServicesInit /\ part = "local" => LocalVoiceInit
  BY DEF ServicesInit
<1>2. [ServicesNext]_services => ((part = "local")' <=> part = "local") /\ (part = "local" => [LocalVoiceNext]_localVoiceVars)
  BY DEF ServicesNext, services
<1> QED BY <1>1, <1>2, LocalVoiceTypesHold, SpeaksWhole, PTL DEF ServicesSpec, LocalVoiceSpec

(* The guard of the requests.                                              *)
LEMMA EgressServed == ServicesSpec => [](part = "egress" => EgressTypeOK /\ LocalStaysLocal)
<1>1. ServicesInit /\ part = "egress" => EgressInit
  BY DEF ServicesInit
<1>2. [ServicesNext]_services => ((part = "egress")' <=> part = "egress") /\ (part = "egress" => [EgressNext]_egressVars)
  BY DEF ServicesNext, services
<1> QED BY <1>1, <1>2, StaysLocal, PTL DEF ServicesSpec, EgressSpec

(* The providers.                                                          *)
LEMMA TtsServed == ServicesSpec => [](part = "tts" => TtsTypeOK /\ UploadedOnce)
<1>1. ServicesInit /\ part = "tts" => TtsInit
  BY DEF ServicesInit
<1>2. [ServicesNext]_services => ((part = "tts")' <=> part = "tts") /\ (part = "tts" => [TtsNext]_ttsVars)
  BY DEF ServicesNext, services
<1> QED BY <1>1, <1>2, OneUpload, PTL DEF ServicesSpec, TtsSpec

(* The reading.                                                            *)
LEMMA ReadingServed == ServicesSpec => [](part = "reading" => ReadingTypeOK /\ NothingSkipped)
<1>1. ServicesInit /\ part = "reading" => ReadingInit
  BY DEF ServicesInit
<1>2. [ServicesNext]_services => ((part = "reading")' <=> part = "reading") /\ (part = "reading" => [ReadingNext]_readingVars)
  BY DEF ServicesNext, services
<1> QED BY <1>1, <1>2, ReadingTypes, ReadsEverything, PTL DEF ServicesSpec, ReadingSpec

(* The audio surface.                                                      *)
LEMMA SurfaceServed == ServicesSpec => [](part = "surface" => SurfaceTypeOK /\ SurfaceObeys)
<1>1. ServicesInit /\ part = "surface" => SurfaceInit
  BY DEF ServicesInit
<1>2. [ServicesNext]_services => ((part = "surface")' <=> part = "surface") /\ (part = "surface" => [SurfaceNext]_surfaceVars)
  BY DEF ServicesNext, services
<1> QED BY <1>1, <1>2, PageObeys, PTL DEF ServicesSpec, SurfaceSpec

(* Services: in a behaviour about a component, its variables have their    *)
(* types.                                                                  *)
THEOREM ServicesTypes == ServicesSpec => []ServicesTypeOK
<1>1. ServicesTypeOK <=>
        /\ part \in Parts
        /\ part = "cache" => CacheTypeOK
        /\ part = "inbox" => InboxTypeOK
        /\ part = "hook" => HookTypeOK
        /\ part = "profiles" => ProfileTypeOK
        /\ part = "voice" => VoiceTypeOK
        /\ part = "local" => LocalVoiceTypeOK
        /\ part = "egress" => EgressTypeOK
        /\ part = "tts" => TtsTypeOK
        /\ part = "reading" => ReadingTypeOK
        /\ part = "surface" => SurfaceTypeOK
  BY DEF ServicesTypeOK
<1> QED BY <1>1, OnePart, CacheServed, InboxServed, HookServed, ProfileServed, VoiceServed,
           LocalVoiceServed, EgressServed, TtsServed, ReadingServed, SurfaceServed, PTL

(* Services: in a behaviour about a component, it keeps what it promises   *)
(* when it is alone; this is what the run checks of all of them at once.   *)
THEOREM ServicesKeepWord ==
  ServicesSpec => [](/\ part = "cache" => CacheBudgetWhenQuiet
                     /\ part = "local" => LocalVoiceWhole
                     /\ part = "egress" => LocalStaysLocal
                     /\ part = "tts" => UploadedOnce
                     /\ part = "reading" => NothingSkipped
                     /\ part = "surface" => SurfaceObeys)
BY CacheServed, LocalVoiceServed, EgressServed, TtsServed, ReadingServed, SurfaceServed, PTL
=============================================================================
