------------------------------ MODULE Reading ------------------------------
(***************************************************************************)
(* From a text to what is read of it: the blocks of a Markdown document    *)
(* (parser/MarkdownParser.ts), their sentences (SentenceSplitter.ts) and   *)
(* segments (Segmenter.ts), the part of them the capture asks for          *)
(* (sources/, Pipeline.buildSegments()), and the narration of a group of   *)
(* segments by a language model (narrator/), which may answer anything.    *)
(*                                                                         *)
(* A text is a sequence of tokens: a word in lower case (or a number), a   *)
(* capitalised word, an abbreviation, a run of terminators, a protected    *)
(* span (inline code or a link, whose dots do not end a sentence), and a   *)
(* mark, the markup which the source has and the spoken text has not.      *)
(* Token i of a document lies between the positions 2i - 1 and 2i, in the  *)
(* order of the pairs (line, column); a block ends where the next begins.  *)
(* A plain text is one block.  The model begins with the blocks the parser *)
(* gives: what it has no block for (a footnote definition, a link          *)
(* definition: nodeToBlock() returns null) is lost before.  What is read   *)
(* aloud for a segment (SpokenTextNormalizer.ts, tables) is left out.      *)
(***************************************************************************)
EXTENDS Sequencing, SequencesExt

CONSTANTS
  Documents,     \* sequences of blocks
  Policies,      \* segmentation policies
  GroupSize,     \* segments per narration request (DEFAULT_GROUP_SIZE)
  MaxNarrated    \* bound: narration segments in one answer

Tokens == {"word", "Word", "abbr", "stop", "span", "mark"}
Modes  == {"sentence", "block", "plain"}
BlockKinds == {"paragraph", "heading", "code", "list", "listItem", "blockquote", "table",
               "thematicBreak", "html", "frontmatter", "image"}

(* A profile asks for at least one sentence per segment (profile.schema).  *)
ASSUME ReadingAssumption ==
  /\ GroupSize \in Nat \ {0} /\ MaxNarrated \in Nat
  /\ Documents \subseteq Seq([kind : BlockKinds, raw : Seq(Tokens)])
  /\ \A p \in Policies : p.mode \in Modes /\ p.max \in Nat \ {0} /\ p.first \in Nat

VARIABLES
  doc,           \* the document
  policy,        \* the policy of the profile
  selection,     \* the captured range, << >> for the whole document
  cut,           \* number of blocks segmented
  segments,      \* SourceSegments
  narration      \* the requests to the narrator and its segments

readingVars == << doc, policy, selection, cut, segments, narration >>

(* `at` tells how far the reading is: its blocks are cut, the selection is *)
(* taken, a group is with the narrator (for the first time, or again       *)
(* without a schema), or all is read.  `heard` lists which segments each   *)
(* narration segment is made from, `again` the segments an answer has named *)
(* more than once.                                                         *)
Narration == [at : {"cut", "selected", "asked", "askedAgain", "read"},
              count : Nat, turn : Nat, heard : Seq(SUBSET (Nat \ {0})),
              again : SUBSET (Nat \ {0})]
-----------------------------------------------------------------------------
Sizes(d)    == [n \in DOMAIN d |-> Len(d[n].raw)]
Before(n)   == Total(Sizes(doc), n - 1)
PlaceOf(n, i, j) == << 2 * (Before(n) + i) - 1, 2 * (Before(n) + j) >>
WholeBlock(n) == PlaceOf(n, 1, Len(doc[n].raw))

(* What is spoken of a block: its source without the markup.               *)
Spoken(b) == IF policy.mode = "plain" THEN b.raw ELSE Omitting(b.raw, {"mark"})

(* A terminator does not end a sentence before a lower case letter or a    *)
(* digit, nor after an abbreviation.                                       *)
EndsSentence(text, i) ==
  /\ text[i] = "stop"
  /\ i < Len(text) => text[i + 1] # "word" /\ (i > 1 => text[i - 1] # "abbr")

(* splitSentences(): the last word of each sentence.  A short remainder    *)
(* without a terminator is part of the sentence before it.                 *)
SentenceEnds(text) ==
  LET cuts == {i \in 1 .. Len(text) : EndsSentence(text, i)}
      short == Len(text) - 1 \in cuts /\ Len(text) \notin cuts
  IN  IF text = << >> THEN {}
      ELSE (IF short THEN cuts \ {Len(text) - 1} ELSE cuts) \cup {Len(text)}

(* The sentences of a text, each as << first token, last token >>.         *)
Sentences(text) ==
  LET ends == InOrder(SentenceEnds(text))
  IN  [k \in 1 .. Len(ends) |-> << IF k = 1 THEN 1 ELSE ends[k - 1] + 1, ends[k] >>]

Words(text, s) == SubSeq(text, s[1], s[2])
FoundAt(raw, words) ==
  {i \in 1 .. Len(raw) + 1 - Len(words) : SubSeq(raw, i, i + Len(words) - 1) = words}

(* locateRange(): the first place in the source that reads like the        *)
(* sentence; the whole block when markup is in the way.                    *)
Located(n, s) ==
  LET b     == doc[n]
      words == Words(Spoken(b), s)
      found == FoundAt(b.raw, words)
      first == Min(found)
  IN  IF policy.mode = "plain" THEN PlaceOf(n, s[1], s[2])
      ELSE IF found = {} THEN WholeBlock(n)
      ELSE PlaceOf(n, first, first + Len(words) - 1)

(* unionRange() over a group.  Faulty variant: the place of the first.     *)
FirstRange(ranges) == ranges[1]
UnionRange(ranges) ==
  << Min({ranges[i][1] : i \in DOMAIN ranges}), Max({ranges[i][2] : i \in DOMAIN ranges}) >>

(* A group of sentences `from` .. `to` of block n.                         *)
Segment(n, from, to) ==
  LET all == Sentences(Spoken(doc[n]))
  IN  [block |-> n, from |-> from, to |-> to,
       range |-> UnionRange([k \in 1 .. to + 1 - from |-> Located(n, all[from + k - 1])])]

(* chunk(): the first sentence of each group of `size`, from `from` on.    *)
ChunkStarts(from, to, size) == {k \in from .. to : (k - from) % size = 0}

(* groupSentences(): the first group of a document may be a smaller one.   *)
Groups(count) ==
  LET early == /\ segments = << >> /\ policy.first \in 1 .. policy.max - 1
               /\ policy.first < count
  IN  IF policy.mode = "plain" THEN 1 .. count
      ELSE IF early THEN {1} \cup ChunkStarts(policy.first + 1, count, policy.max)
      ELSE ChunkStarts(1, count, policy.max)

NotRead(b) == b.kind \in {"html", "thematicBreak", "listItem"} \cup policy.skip
Sentencewise(b) ==
  policy.mode = "plain" \/ (policy.mode = "sentence" /\ b.kind \in {"paragraph", "blockquote"})

(* segmentBlock(); a block read in one piece is a single segment.          *)
SegmentsOf(n) ==
  LET count  == Len(Sentences(Spoken(doc[n])))
      starts == InOrder(Groups(count))
  IN  IF NotRead(doc[n]) THEN << >>
      ELSE IF Sentencewise(doc[n])
      THEN [k \in 1 .. Len(starts) |->
             Segment(n, starts[k], IF k = Len(starts) THEN count ELSE starts[k + 1] - 1)]
      ELSE << [block |-> n, from |-> 1, to |-> count, range |-> WholeBlock(n)] >>
-----------------------------------------------------------------------------
(* resolveCaptureRange(): a selection, or from the cursor to the end.      *)
Selections(d) ==
  LET size == Total(Sizes(d), Len(d))
  IN  {<< >>} \cup {<< 2 * i - 1, 2 * j >> : i, j \in 1 .. size}

ReadingInit ==
  /\ doc \in Documents /\ policy \in Policies /\ selection \in Selections(doc)
  /\ policy.mode = "plain" => Len(doc) = 1 /\ doc[1].kind = "paragraph"
  /\ cut = 0 /\ segments = << >>
  /\ narration = [at |-> "cut", count |-> 0, turn |-> 0, heard |-> << >>, again |-> {}]

(* segment(): one turn of its loop.                                        *)
CutBlock ==
  /\ narration.at = "cut" /\ cut < Len(doc)
  /\ cut' = cut + 1 /\ segments' = segments \o SegmentsOf(cut + 1)
  /\ UNCHANGED << doc, policy, selection, narration >>

(* rangesOverlap(): ranges that touch overlap.                             *)
Overlap(r, s) == r[1] <= s[2] /\ s[1] <= r[2]

(* buildSegments() once the document is cut.                               *)
Select ==
  /\ narration.at = "cut" /\ cut = Len(doc)
  /\ segments' = Picked(segments, {i \in DOMAIN segments :
                                     selection = << >> \/ Overlap(segments[i].range, selection)})
  /\ narration' = [narration EXCEPT !.at = "selected"]
  /\ UNCHANGED << doc, policy, selection, cut >>

(* The segments go to the narrator in groups; nothing else of the document *)
(* does, and it is let go here.                                            *)
Group == LET done == narration.turn * GroupSize
         IN  done + 1 .. (IF done + GroupSize < narration.count THEN done + GroupSize
                          ELSE narration.count)

HandOver ==
  /\ narration.at = "selected"
  /\ narration' = [narration EXCEPT !.count = Len(segments),
                                    !.at = IF segments = << >> THEN "read" ELSE "asked"]
  /\ doc' = << >> /\ segments' = << >> /\ selection' = << >> /\ cut' = 0
  /\ UNCHANGED policy

Heard(new, twice) ==
  /\ narration' = [narration EXCEPT !.heard = @ \o new, !.again = @ \cup twice, !.turn = @ + 1,
       !.at = IF (narration.turn + 1) * GroupSize >= narration.count THEN "read" ELSE "asked"]
  /\ UNCHANGED << doc, policy, selection, cut, segments >>

Asked == narration.at \in {"asked", "askedAgain"}
Verbatim(ids) == [k \in 1 .. Cardinality(ids) |-> {Nth(ids, k)}]

(* The server refuses the schema: it is asked again without one, once.     *)
SchemaRefused ==
  /\ narration.at = "asked" /\ narration' = [narration EXCEPT !.at = "askedAgain"]
  /\ UNCHANGED << doc, policy, selection, cut, segments >>

(* transform() fails, is aborted or too late, or its answer is no use:     *)
(* the group is read verbatim.                                             *)
Degraded == Asked /\ Heard(Verbatim(Group), {})

(* What an answer's segments name: labels of the group, and 0, which is    *)
(* none of them.                                                           *)
Answers == UNION {[1 .. n -> SUBSET (Group \cup {0}) \ {{}}] : n \in 0 .. MaxNarrated}

NamedTwice(answer) ==
  {i \in Group : \E j, k \in DOMAIN answer : j # k /\ i \in answer[j] \cap answer[k]}

(* parseNarration(): unknown labels are ignored, and what the narrator     *)
(* left out is read verbatim after the rest; what it names twice is heard  *)
(* twice.  Faulty variant: what it left out is lost.                       *)
UsableAlone(answer) == Omitting([i \in DOMAIN answer |-> answer[i] \ {0}], {{}})
ParseNarration(answer) ==
  LET usable == Omitting([i \in DOMAIN answer |-> answer[i] \ {0}], {{}})
  IN  usable \o Verbatim(Group \ UNION {usable[i] : i \in DOMAIN usable})

Narrated(answer) == Asked /\ Heard(ParseNarration(answer), NamedTwice(answer))

ReadingNext ==
  \/ CutBlock \/ Select \/ HandOver
  \/ SchemaRefused \/ Degraded \/ (Asked /\ \E a \in Answers : Narrated(a))

ReadingSpec == ReadingInit /\ [][ReadingNext]_readingVars
-----------------------------------------------------------------------------
(* The variables have their types: ranges lie in the document.             *)
ReadingTypeOK ==
  /\ policy \in Policies /\ cut \in 0 .. Len(doc)
  /\ \A n \in DOMAIN doc : doc[n].raw \in Seq(Tokens)
  /\ narration \in Narration
  /\ \A k \in DOMAIN segments :
       /\ segments[k].block \in DOMAIN doc /\ segments[k].from \in Nat
       /\ segments[k].to \in Nat /\ segments[k].range \in Nat \X Nat

(* Sentence k of block n in the source, whatever locateRange() says.       *)
TruePlace(n, k) ==
  LET text  == Spoken(doc[n])
      kept  == InOrder({i \in DOMAIN doc[n].raw : doc[n].raw[i] # "mark"})
      s     == Sentences(text)[k]
  IN  IF policy.mode = "plain" THEN PlaceOf(n, s[1], s[2]) ELSE PlaceOf(n, kept[s[1]], kept[s[2]])

(* The words of a sentence first stand at another place of the block: an   *)
(* earlier one, or a later one when markup is in the way at its own.       *)
Elsewhere(n, k) ==
  LET found == FoundAt(doc[n].raw, Words(Spoken(doc[n]), Sentences(Spoken(doc[n]))[k]))
  IN  /\ policy.mode # "plain" /\ Sentencewise(doc[n]) /\ found # {}
      /\ PlaceOf(n, Min(found), 1)[1] # TruePlace(n, k)[1]

Holds(seg, n, k) == seg.block = n /\ k \in seg.from .. seg.to

(* Segmenter.ts: every sentence of every block that is spoken is in one    *)
(* segment and no other, in the order of the document, and a segment has   *)
(* no more sentences than the policy allows; and once the selection is     *)
(* taken, every sentence it touches is still there, unless its words first *)
(* stand elsewhere in the block (which is where the code then looks).      *)
SelectionIsRead ==
  /\ \A n \in 1 .. cut : \A k \in DOMAIN Sentences(Spoken(doc[n])) :
       ~ NotRead(doc[n]) =>
         LET there == {i \in DOMAIN segments : Holds(segments[i], n, k)} IN
         /\ narration.at = "cut" => Cardinality(there) = 1
         /\ (narration.at = "selected" /\ ~ Elsewhere(n, k)
             /\ (selection # << >> => Overlap(TruePlace(n, k), selection))) => there # {}
  /\ \A i, j \in DOMAIN segments : i < j =>
       \/ segments[i].block < segments[j].block
       \/ segments[i].block = segments[j].block /\ segments[i].to < segments[j].from
  /\ \A i \in DOMAIN segments : Sentencewise(doc[segments[i].block]) =>
       policy.mode = "plain" \/ segments[i].to - segments[i].from < policy.max

(* parseNarration.ts: whatever a model answers, every source segment of    *)
(* the groups narrated so far is heard, and once unless the answer itself  *)
(* names it twice; each narration segment comes from segments of one       *)
(* group, and the groups follow each other.                                *)
NarrationIsWhole ==
  LET heard == narration.heard
      groupOf(s) == {(i - 1) \div GroupSize : i \in s} IN
  /\ UNION {heard[k] : k \in DOMAIN heard}
       = {i \in 1 .. narration.count : (i - 1) \div GroupSize < narration.turn}
  /\ \A j, k \in DOMAIN heard : j # k => heard[j] \cap heard[k] \subseteq narration.again
  /\ \A k \in DOMAIN heard : Cardinality(groupOf(heard[k])) = 1
  /\ \A j, k \in DOMAIN heard : j < k =>
       \A a \in groupOf(heard[j]), b \in groupOf(heard[k]) : a <= b

(* From the blocks of a text to what is heard, nothing is skipped and      *)
(* nothing is heard out of its turn (Segmenter.ts, buildSegments,          *)
(* parseNarration.ts).                                                     *)
NothingSkipped == SelectionIsRead /\ NarrationIsWhole
=============================================================================
