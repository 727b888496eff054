---------------------------- MODULE ReadingProofs ----------------------------
(***************************************************************************)
(* From a text to what is heard of it, nothing is skipped.                 *)
(*                                                                         *)
(* The segmentation has an invariant of four parts (SegmentsInv): the text *)
(* does not move, the segments are in order and short enough, and every    *)
(* sentence of the blocks cut so far is in one of them, whose range holds  *)
(* the place of the sentence in the source; and the selection leaves it    *)
(* when it touches that place.  The narration has another (NarratedSoFar): *)
(* what is heard is every group so far, group by group.                    *)
(***************************************************************************)
EXTENDS Reading, SequenceFacts

(* A block of a document.                                                  *)
Block == [kind : BlockKinds, raw : Seq(Tokens)]

(* splitSentences(): a sentence is a stretch of the text.                  *)
LEMMA SentencesFit ==
  ASSUME NEW text \in Seq(Tokens)
  PROVE  /\ Len(Sentences(text)) \in Nat /\ DOMAIN Sentences(text) = 1 .. Len(Sentences(text))
         /\ \A k \in 1 .. Len(Sentences(text)) :
              LET s == Sentences(text)[k] IN
              s[1] \in 1 .. Len(text) /\ s[2] \in 1 .. Len(text) /\ s[1] <= s[2]
<1> DEFINE P == SentenceEnds(text)
           n == Len(text)
           c == Cardinality(P)
<1>1. n \in Nat /\ (text # << >> => n # 0)
  BY LenProperties, EmptySeq
<1>2. P \in SUBSET (1 .. n)
  BY <1>1 DEF SentenceEnds
<1>3. IsFiniteSet(P) /\ P \in SUBSET Nat
  <2> HIDE DEF P, n
  <2>1. IsFiniteSet(1 .. n)
    BY <1>1, FS_Interval
  <2>2. 1 .. n \subseteq Nat
    OBVIOUS
  <2> QED BY <1>2, <2>1, <2>2, FS_Subset, Zenon
<1>4. /\ c \in Nat /\ \A k \in 1 .. c : Nth(P, k) \in P
      /\ \A k, l \in 1 .. c : k < l => Nth(P, k) < Nth(P, l)
  BY <1>3, NthFacts
<1>5. Sentences(text) = [k \in 1 .. c |-> << IF k = 1 THEN 1 ELSE Nth(P, k - 1) + 1, Nth(P, k) >>]
  <2> HIDE DEF P
  <2> DEFINE e == InOrder(P)
  <2>1. e = [k \in 1 .. c |-> Nth(P, k)] /\ Len(e) = c
    BY <1>4 DEF InOrder
  <2> HIDE DEF e
  <2>2. Sentences(text) = [k \in 1 .. Len(e) |-> << IF k = 1 THEN 1 ELSE e[k - 1] + 1, e[k] >>]
    BY DEF Sentences, e, P
  <2> HIDE DEF c
  <2>3. \A k \in 1 .. c : e[k] = Nth(P, k) /\ (k # 1 => e[k - 1] = Nth(P, k - 1))
    BY <1>4, <2>1
  <2> QED BY <2>1, <2>2, <2>3
<1> HIDE DEF P, c, n
<1>6. Len(Sentences(text)) = c /\ DOMAIN Sentences(text) = 1 .. c
  BY <1>4, <1>5
<1>7. ASSUME NEW k \in 1 .. c
      PROVE  LET s == Sentences(text)[k] IN s[1] \in 1 .. n /\ s[2] \in 1 .. n /\ s[1] <= s[2]
  <2>1. Nth(P, k) \in 1 .. n
    BY <1>2, <1>4
  <2>2. CASE k = 1
    BY <1>1, <1>5, <2>1, <2>2
  <2>3. CASE k # 1
    <3>1. k - 1 \in 1 .. c /\ k - 1 < k
      BY <1>4, <2>3
    <3>2. Nth(P, k - 1) \in 1 .. n /\ Nth(P, k - 1) < Nth(P, k)
      BY <1>2, <1>4, <3>1
    <3> QED BY <1>1, <1>5, <2>1, <2>3, <3>2
  <2> QED BY <2>2, <2>3
<1> QED BY <1>4, <1>6, <1>7 DEF n

(* The places of a block that are spoken.                                  *)
Unmarked(raw) == {i \in DOMAIN raw : raw[i] # "mark"}

(* What is spoken of a block, and where it stands in its source.           *)
LEMMA SpokenFacts ==
  ASSUME NEW b \in Block
  PROVE  /\ b.raw \in Seq(Tokens) /\ b.kind \in BlockKinds /\ Spoken(b) \in Seq(Tokens)
         /\ policy.mode = "plain" => Spoken(b) = b.raw
         /\ policy.mode # "plain" =>
              /\ Len(Spoken(b)) = Cardinality(Unmarked(b.raw))
              /\ \A k \in 1 .. Len(Spoken(b)) :
                   /\ Nth(Unmarked(b.raw), k) \in Unmarked(b.raw)
                   /\ Rank(Unmarked(b.raw), Nth(Unmarked(b.raw), k)) = k
                   /\ Spoken(b)[k] = b.raw[Nth(Unmarked(b.raw), k)]
              /\ \A i \in Unmarked(b.raw) :
                   Rank(Unmarked(b.raw), i) \in 1 .. Len(Spoken(b)) /\ Nth(Unmarked(b.raw), Rank(Unmarked(b.raw), i)) = i
<1>1. b.raw \in Seq(Tokens) /\ b.kind \in BlockKinds
  BY DEF Block
<1>2. Omitting(b.raw, {"mark"}) = Picked(b.raw, Unmarked(b.raw))
  <2>1. {i \in DOMAIN b.raw : b.raw[i] \notin {"mark"}} = Unmarked(b.raw)
    BY DEF Unmarked
  <2> QED BY <2>1 DEF Omitting
<1>3. Unmarked(b.raw) \in SUBSET (1 .. Len(b.raw))
  BY <1>1, LenProperties DEF Unmarked
<1>4. policy.mode # "plain" => Spoken(b) = Picked(b.raw, Unmarked(b.raw))
  BY <1>2 DEF Spoken
<1>5. policy.mode = "plain" => Spoken(b) = b.raw
  BY DEF Spoken
<1> QED BY <1>1, <1>3, <1>4, <1>5, PickedFacts

(* Where the words of a sentence are found, no markup is in the way: when  *)
(* they begin where the sentence begins they end where it ends.            *)
LEMMA FirstFound ==
  ASSUME NEW b \in Block, policy.mode # "plain",
         NEW from \in 1 .. Len(Spoken(b)), NEW to \in 1 .. Len(Spoken(b)), from <= to,
         NEW i \in FoundAt(b.raw, SubSeq(Spoken(b), from, to))
  PROVE  /\ Len(SubSeq(Spoken(b), from, to)) = to - from + 1
         /\ i \in 1 .. Len(b.raw) /\ i + (to - from) \in 1 .. Len(b.raw)
         /\ i = Nth(Unmarked(b.raw), from) => i + (to - from) = Nth(Unmarked(b.raw), to)
<1> DEFINE text == Spoken(b)
           raw  == b.raw
           P == Unmarked(b.raw)
           n == Len(raw)
           t == Len(text)
           words == SubSeq(text, from, to)
           l == to - from
           place == SubSeq(raw, i, i + Len(words) - 1)
<1>1. /\ raw \in Seq(Tokens) /\ text \in Seq(Tokens)
      /\ \A k \in 1 .. t : Nth(P, k) \in P /\ Rank(P, Nth(P, k)) = k /\ text[k] = raw[Nth(P, k)]
      /\ \A j \in P : Rank(P, j) \in 1 .. t /\ Nth(P, Rank(P, j)) = j
  BY SpokenFacts
<1>2. P = {j \in 1 .. n : raw[j] # "mark"} /\ n \in Nat /\ t \in Nat
  BY <1>1, LenProperties DEF Unmarked
<1>3. i \in 1 .. n + 1 - Len(words) /\ place = words
  BY DEF FoundAt
<1> HIDE DEF text, raw, P, n, t
<1>0. from \in 1 .. t /\ to \in 1 .. t
  BY DEF text, t
<1>4. l \in Nat /\ l = to - from /\ from \in Nat /\ to = from + l
  BY <1>0, <1>2
<1>5. Len(words) = l + 1 /\ \A j \in 1 .. l + 1 : words[j] = text[from + j - 1]
  <2>1. from \in Int /\ to \in Int /\ \A j \in from .. to : text[j] \in Tokens
    <3>1. ASSUME NEW j \in from .. to PROVE text[j] \in Tokens
      <4>1. j \in 1 .. t
        BY <1>0, <1>2
      <4> QED BY <1>1, <4>1, ElementOfSeq DEF t
    <3> QED BY <1>4, <3>1
  <2>2. /\ Len(words) = IF from <= to THEN to - from + 1 ELSE 0
        /\ \A j \in 1 .. to - from + 1 : words[j] = text[from + j - 1]
    BY <2>1, SubSeqProperties
  <2> QED BY <1>4, <2>2
<1> HIDE DEF l
<1>6. i \in 1 .. n /\ i + l \in 1 .. n /\ i + (l + 1) - 1 = i + l
  BY <1>2, <1>3, <1>4, <1>5
<1>7. \A j \in 1 .. l + 1 : place[j] = raw[i + j - 1]
  <2>1. i \in Int /\ i + l \in Int /\ \A j \in i .. i + l : raw[j] \in Tokens
    <3>1. ASSUME NEW j \in i .. i + l PROVE raw[j] \in Tokens
      <4>1. j \in 1 .. n
        BY <1>2, <1>4, <1>6
      <4> QED BY <1>1, <4>1, ElementOfSeq DEF n
    <3> QED BY <1>4, <1>6, <3>1
  <2>2. \A j \in 1 .. (i + l) - i + 1 : SubSeq(raw, i, i + l)[j] = raw[i + j - 1]
    BY <2>1, SubSeqProperties
  <2>3. (i + l) - i + 1 = l + 1
    BY <1>4, <1>6
  <2>4. place = SubSeq(raw, i, i + l)
    BY <1>5, <1>6
  <2> QED BY <2>2, <2>3, <2>4
<1> HIDE DEF words, place
<1>8. i .. i + l \subseteq P
  <2> SUFFICES ASSUME NEW j \in i .. i + l PROVE j \in P
    OBVIOUS
  <2>1. j \in 1 .. n /\ j - i + 1 \in 1 .. l + 1 /\ i + (j - i + 1) - 1 = j
    BY <1>2, <1>4, <1>6
  <2>2. raw[j] = text[from + (j - i + 1) - 1]
    BY <1>3, <1>5, <1>7, <2>1
  <2>3. from + (j - i + 1) - 1 \in 1 .. t
    <3>1. j \in Int /\ i \in Int /\ j - i \in 0 .. l
      BY <1>2, <1>4, <1>6
    <3>2. from + (j - i + 1) - 1 = from + (j - i)
      BY <1>4, <3>1
    <3> QED BY <1>0, <1>2, <1>4, <3>1, <3>2
  <2>4. \A k \in 1 .. t : text[k] # "mark"
    BY <1>1, <1>2
  <2> QED BY <1>2, <2>1, <2>2, <2>3, <2>4
<1>9. ASSUME i = Nth(P, from) PROVE i + l = Nth(P, to)
  <2>1. P \in SUBSET Nat /\ IsFiniteSet(P) /\ i \in P /\ i + l \in P
    <3>1. P \in SUBSET (1 .. n) /\ 1 .. n \subseteq Nat
      BY <1>2
    <3>2. IsFiniteSet(1 .. n)
      BY <1>2, FS_Interval
    <3>3. i \in i .. i + l /\ i + l \in i .. i + l
      BY <1>4, <1>6
    <3> QED BY <1>8, <3>1, <3>2, <3>3, FS_Subset, Zenon
  <2>2. i <= i + l /\ (i + l) - i = l
    BY <1>4, <1>6
  <2>3. Rank(P, i + l) = Rank(P, i) + ((i + l) - i)
    BY <1>8, <2>1, <2>2, RankInterval, Zenon
  <2>4. Rank(P, i) = from
    BY <1>0, <1>1, <1>9
  <2>5. Rank(P, i + l) = to
    BY <1>4, <2>2, <2>3, <2>4
  <2> QED BY <1>1, <2>1, <2>5
<1> QED BY <1>4, <1>5, <1>6, <1>9 DEF words, P, raw, n, text, l

(* A range that holds another.                                             *)
Encloses(r, s) == r[1] <= s[1] /\ s[2] <= r[2]

(* The place of tokens i to j of a block lies in the block.                *)
LEMMA Places ==
  ASSUME doc \in Seq(Block), NEW n \in 1 .. Len(doc)
  PROVE  /\ doc[n] \in Block /\ doc[n].raw \in Seq(Tokens) /\ Len(doc[n].raw) \in Nat
         /\ \E o \in Nat :
              /\ Before(n) = o
              /\ \A i, j \in 1 .. Len(doc[n].raw) :
                   /\ PlaceOf(n, i, j)[1] = 2 * (o + i) - 1 /\ PlaceOf(n, i, j)[2] = 2 * (o + j)
                   /\ PlaceOf(n, i, j) \in Nat \X (0 .. 2 * (o + Len(doc[n].raw)))
                   /\ Encloses(WholeBlock(n), PlaceOf(n, i, j))
              /\ WholeBlock(n) \in Nat \X Nat
<1> DEFINE o == Before(n)
           m == Len(doc[n].raw)
<1>1. doc[n] \in Block /\ doc[n].raw \in Seq(Tokens) /\ Len(doc[n].raw) \in Nat
  <2>1. doc[n] \in Block
    BY ElementOfSeq
  <2>2. doc[n].raw \in Seq(Tokens)
    BY <2>1 DEF Block
  <2> QED BY <2>1, <2>2, LenProperties
<1>2. Before(n) \in Nat
  <2> DEFINE f == Sizes(doc)
             l == Len(doc)
  <2>1. l \in Nat /\ DOMAIN doc = 1 .. l
    BY LenProperties
  <2>2. ASSUME NEW i \in 1 .. l PROVE f[i] \in Nat
    <3>1. doc[i] \in Block
      BY <2>1, ElementOfSeq
    <3>2. doc[i].raw \in Seq(Tokens)
      BY <3>1 DEF Block
    <3>3. Len(doc[i].raw) \in Nat
      BY <3>2, LenProperties
    <3> QED BY <2>1, <3>3 DEF Sizes
  <2> HIDE DEF f, l
  <2>3. n - 1 \in 0 .. l
    BY <2>1 DEF l
  <2>4. \A i \in 0 .. l : Total(f, i) \in Nat
    BY <2>1, <2>2, SumOfLengths
  <2> QED BY <2>3, <2>4 DEF Before, f
<1> HIDE DEF o, m
<1>3. o \in Nat /\ m \in Nat
  BY <1>1, <1>2 DEF o, m
<1>4. ASSUME NEW i \in 1 .. m, NEW j \in 1 .. m
      PROVE  /\ PlaceOf(n, i, j)[1] = 2 * (o + i) - 1 /\ PlaceOf(n, i, j)[2] = 2 * (o + j)
             /\ PlaceOf(n, i, j) \in Nat \X (0 .. 2 * (o + m))
             /\ Encloses(WholeBlock(n), PlaceOf(n, i, j))
  <2>1. PlaceOf(n, i, j) = << 2 * (o + i) - 1, 2 * (o + j) >>
    BY DEF PlaceOf, o
  <2>2. WholeBlock(n) = << 2 * (o + 1) - 1, 2 * (o + m) >>
    BY DEF WholeBlock, PlaceOf, o, m
  <2>3. 2 * (o + i) - 1 \in Nat /\ 2 * (o + j) \in 0 .. 2 * (o + m)
    BY <1>3
  <2>4. 2 * (o + 1) - 1 <= 2 * (o + i) - 1 /\ 2 * (o + j) <= 2 * (o + m)
    BY <1>3
  <2> QED BY <2>1, <2>2, <2>3, <2>4 DEF Encloses
<1>5. WholeBlock(n) \in Nat \X Nat
  <2>1. WholeBlock(n) = << 2 * (o + 1) - 1, 2 * (o + m) >>
    BY DEF WholeBlock, PlaceOf, o, m
  <2>2. 2 * (o + 1) - 1 \in Nat /\ 2 * (o + m) \in Nat
    BY <1>3
  <2> QED BY <2>1, <2>2
<1> QED BY <1>1, <1>3, <1>4, <1>5 DEF o, m

(* locateRange(): the range of a sentence holds its place in the source,   *)
(* unless its words first stand elsewhere.                                 *)
LEMMA LocatedFits ==
  ASSUME doc \in Seq(Block), policy \in Policies, NEW n \in 1 .. Len(doc),
         NEW k \in 1 .. Len(Sentences(Spoken(doc[n])))
  PROVE  LET s == Sentences(Spoken(doc[n]))[k] IN
         /\ Located(n, s) \in Nat \X (0 .. 2 * (Before(n) + Len(doc[n].raw)))
         /\ TruePlace(n, k) \in Nat \X Nat
         /\ Encloses(WholeBlock(n), TruePlace(n, k)) /\ WholeBlock(n) \in Nat \X Nat
         /\ Sentencewise(doc[n]) /\ ~ Elsewhere(n, k) => Encloses(Located(n, s), TruePlace(n, k))
<1> DEFINE b == doc[n]
           raw == doc[n].raw
           text == Spoken(doc[n])
           s == Sentences(text)[k]
           from == s[1]
           to == s[2]
           m == Len(raw)
           P == Unmarked(raw)
           words == SubSeq(text, from, to)
           found == FoundAt(raw, words)
           first == Min(found)
           place == IF policy.mode = "plain" THEN << from, to >> ELSE << Nth(P, from), Nth(P, to) >>
<1>1. /\ b \in Block /\ raw \in Seq(Tokens) /\ m \in Nat /\ WholeBlock(n) \in Nat \X Nat
      /\ \E o \in Nat :
           /\ Before(n) = o
           /\ \A i, j \in 1 .. m :
                /\ PlaceOf(n, i, j)[1] = 2 * (o + i) - 1 /\ PlaceOf(n, i, j)[2] = 2 * (o + j)
                /\ PlaceOf(n, i, j) \in Nat \X (0 .. 2 * (o + m))
                /\ Encloses(WholeBlock(n), PlaceOf(n, i, j))
  BY Places
<1>2. PICK o \in Nat :
        /\ Before(n) = o
        /\ \A i, j \in 1 .. m :
             /\ PlaceOf(n, i, j)[1] = 2 * (o + i) - 1 /\ PlaceOf(n, i, j)[2] = 2 * (o + j)
             /\ PlaceOf(n, i, j) \in Nat \X (0 .. 2 * (o + m))
             /\ Encloses(WholeBlock(n), PlaceOf(n, i, j))
  BY <1>1
<1>3. text \in Seq(Tokens) /\ from \in 1 .. Len(text) /\ to \in 1 .. Len(text) /\ from <= to
  <2>1. text \in Seq(Tokens)
    BY <1>1, SpokenFacts
  <2> HIDE DEF text
  <2>2. k \in 1 .. Len(Sentences(text))
    BY DEF text
  <2> QED BY <2>1, <2>2, SentencesFit
<1>4. place[1] \in 1 .. m /\ place[2] \in 1 .. m
  <2>1. policy.mode = "plain" => text = raw
    BY <1>1, SpokenFacts
  <2>2. policy.mode # "plain" => \A i \in 1 .. Len(text) : Nth(P, i) \in P
    BY <1>1, SpokenFacts
  <2>3. P \subseteq 1 .. m
    BY <1>1, LenProperties DEF Unmarked
  <2> QED BY <1>3, <2>1, <2>2, <2>3
<1>5. TruePlace(n, k) = PlaceOf(n, place[1], place[2])
  <2>1. CASE policy.mode = "plain"
    BY <2>1 DEF TruePlace
  <2>2. CASE policy.mode # "plain"
    <3> DEFINE kept == InOrder({i \in DOMAIN doc[n].raw : doc[n].raw[i] # "mark"})
    <3>1. kept = [i \in 1 .. Cardinality(P) |-> Nth(P, i)] /\ Len(text) = Cardinality(P)
      BY <1>1, <2>2, SpokenFacts DEF InOrder, Unmarked
    <3>2. kept[from] = Nth(P, from) /\ kept[to] = Nth(P, to)
      <4> HIDE DEF kept, P, from, to, text
      <4> QED BY <1>3, <3>1
    <3>3. TruePlace(n, k) = PlaceOf(n, kept[from], kept[to])
      BY <2>2 DEF TruePlace
    <3> QED BY <2>2, <3>2, <3>3
  <2> QED BY <2>1, <2>2
<1>6. /\ Located(n, s) = IF policy.mode = "plain" THEN PlaceOf(n, from, to)
                         ELSE IF found = {} THEN WholeBlock(n)
                         ELSE PlaceOf(n, first, first + Len(words) - 1)
      /\ Sentencewise(b) <=> (policy.mode = "plain" \/ (policy.mode = "sentence" /\ b.kind \in {"paragraph", "blockquote"}))
      /\ Elsewhere(n, k) <=> /\ policy.mode # "plain" /\ Sentencewise(b) /\ found # {}
                             /\ PlaceOf(n, first, 1)[1] # TruePlace(n, k)[1]
  BY DEF Located, Words, Sentencewise, Elsewhere
<1> DEFINE tp == TruePlace(n, k)
           at == Located(n, s)
<1>7. tp \in Nat \X Nat /\ Encloses(WholeBlock(n), tp)
  BY <1>2, <1>4, <1>5
<1>8. WholeBlock(n) \in Nat \X (0 .. 2 * (o + m))
  <2>1. m = 0 \/ (1 \in 1 .. m /\ m \in 1 .. m)
    <3>1. m \in Nat
      BY <1>1
    <3> HIDE DEF m
    <3> QED BY <3>1
  <2>2. m # 0 => PlaceOf(n, 1, m) \in Nat \X (0 .. 2 * (o + m))
    BY <1>2, <2>1
  <2>3. m # 0
    BY <1>4
  <2> QED BY <2>2, <2>3 DEF WholeBlock
<1>9. CASE policy.mode = "plain"
  <2>1. at = tp
    BY <1>5, <1>6, <1>9
  <2>2. at \in Nat \X (0 .. 2 * (o + m))
    BY <1>2, <1>4, <1>5, <2>1
  <2>3. Encloses(at, tp)
    BY <1>7, <2>1 DEF Encloses
  <2> QED BY <1>1, <1>2, <1>7, <2>2, <2>3
<1>10. CASE policy.mode # "plain" /\ found = {}
  <2>1. at = WholeBlock(n)
    BY <1>6, <1>10
  <2> QED BY <1>1, <1>2, <1>7, <1>8, <2>1
<1>11. CASE policy.mode # "plain" /\ found # {}
  <2> DEFINE l == to - from
  <2>1. found \in SUBSET Nat
    <3>1. found \subseteq 1 .. Len(raw) + 1 - Len(words)
      BY DEF FoundAt
    <3> HIDE DEF found, raw, words
    <3> QED BY <3>1
  <2>2. first \in found
    <3> HIDE DEF found
    <3> QED BY <1>11, <2>1, LeastOf
  <2>3. /\ Len(words) = l + 1
        /\ first \in 1 .. m /\ first + l \in 1 .. m
        /\ first = Nth(P, from) => first + l = Nth(P, to)
    BY <1>1, <1>3, <1>11, <2>2, FirstFound
  <2> HIDE DEF first, words, found, from, to, raw, m, P
  <2>4. first + Len(words) - 1 = first + l
    <3>1. from \in Int /\ to \in Int /\ first \in Int /\ l \in Int
      BY <1>3, <2>3
    <3> HIDE DEF l
    <3> QED BY <2>3, <3>1
  <2>5. at = PlaceOf(n, first, first + l)
    BY <1>6, <1>11, <2>4
  <2>6. at \in Nat \X (0 .. 2 * (o + m))
    BY <1>2, <2>3, <2>5
  <2>7. ASSUME Sentencewise(b), ~ Elsewhere(n, k) PROVE Encloses(at, tp)
    <3>1. PlaceOf(n, first, 1)[1] = tp[1]
      BY <1>6, <1>11, <2>7
    <3>2. 1 \in 1 .. m
      BY <1>1, <2>3
    <3>3. PlaceOf(n, first, 1)[1] = 2 * (o + first) - 1 /\ tp[1] = 2 * (o + place[1]) - 1
      <4>1. PlaceOf(n, first, 1)[1] = 2 * (o + first) - 1
        BY <1>2, <2>3, <3>2
      <4> HIDE DEF place
      <4>2. PlaceOf(n, place[1], place[2])[1] = 2 * (o + place[1]) - 1
        BY <1>2, <1>4
      <4> QED BY <1>5, <4>1, <4>2
    <3>4. first = place[1]
      <4>1. first \in Nat /\ place[1] \in Nat
        BY <1>4, <2>3
      <4> HIDE DEF place
      <4> QED BY <1>2, <3>1, <3>3, <4>1
    <3>5. first + l = place[2]
      BY <1>11, <2>3, <3>4
    <3>6. at = tp
      BY <1>5, <2>5, <3>4, <3>5
    <3> QED BY <1>7, <3>6 DEF Encloses
  <2> QED BY <1>1, <1>2, <1>7, <2>6, <2>7 DEF m, raw
<1> QED BY <1>9, <1>10, <1>11

(* unionRange(): the range of a group holds the range of each sentence.    *)
LEMMA UnionEncloses ==
  ASSUME NEW h \in Nat, NEW c \in Nat \ {0}, NEW ranges \in [1 .. c -> Nat \X (0 .. h)]
  PROVE  /\ UnionRange(ranges) \in Nat \X Nat
         /\ \A i \in 1 .. c : UnionRange(ranges)[1] <= ranges[i][1] /\ ranges[i][2] <= UnionRange(ranges)[2]
<1> DEFINE S == {ranges[i][1] : i \in DOMAIN ranges}
           T == {ranges[i][2] : i \in DOMAIN ranges}
<1>1. S \in SUBSET Nat /\ T \in SUBSET (0 .. h) /\ ranges[1][1] \in S /\ ranges[1][2] \in T
  OBVIOUS
<1>2. UnionRange(ranges) = << Min(S), Max(T) >>
  BY DEF UnionRange
<1>3. \A i \in 1 .. c : ranges[i][1] \in S /\ ranges[i][2] \in T
  OBVIOUS
<1> HIDE DEF S, T
<1>4. Min(S) \in S /\ \A t \in S : Min(S) <= t
  BY <1>1, LeastOf
<1>5. Max(T) \in T /\ \A t \in T : t <= Max(T)
  BY <1>1, GreatestOf
<1>6. Min(S) \in Nat /\ Max(T) \in Nat
  <2>1. Max(T) \in 0 .. h /\ Min(S) \in Nat
    BY <1>1, <1>4, <1>5, Zenon
  <2> QED BY <2>1
<1> QED BY <1>2, <1>3, <1>4, <1>5, <1>6

(* A segment.                                                              *)
SegType == [block : Nat, from : Nat, to : Nat, range : Nat \X Nat]

(* chunk(): a group begins wherever the one before it is full.             *)
LEMMA ChunkFacts ==
  ASSUME NEW c \in Nat, NEW s \in 1 .. c, NEW m \in Nat \ {0}
  PROVE  /\ s \in ChunkStarts(s, c, m) /\ ChunkStarts(s, c, m) \subseteq s .. c
         /\ \A p \in ChunkStarts(s, c, m) : p + m <= c => p + m \in ChunkStarts(s, c, m)
<1>1. s - s = 0 /\ s \in s .. c /\ s \in Nat
  OBVIOUS
<1>2. s \in ChunkStarts(s, c, m)
  <2>1. 0 % m = 0
    OBVIOUS
  <2> QED BY <1>1, <2>1 DEF ChunkStarts
<1>3. ASSUME NEW p \in ChunkStarts(s, c, m), p + m <= c
      PROVE  p + m \in ChunkStarts(s, c, m)
  <2>1. p \in s .. c /\ (p - s) % m = 0
    BY DEF ChunkStarts
  <2>2. p - s \in Nat /\ (p + m) - s = (p - s) + m /\ p + m \in s .. c
    BY <1>1, <1>3, <2>1
  <2>3. ((p - s) + m) % m = 0
    <3> DEFINE a == p - s
    <3> HIDE DEF a
    <3>1. a \in Nat /\ a % m = 0
      BY <2>1, <2>2 DEF a
    <3>2. (a + m) % m = 0
      BY <3>1, NextMultiple
    <3> QED BY <3>2 DEF a
  <2> QED BY <2>2, <2>3 DEF ChunkStarts
<1> QED BY <1>2, <1>3 DEF ChunkStarts

(* groupSentences(): the first group begins with the first sentence, and   *)
(* no group is longer than the policy allows.                              *)
LEMMA GroupsFacts ==
  ASSUME policy \in Policies, NEW c \in Nat
  PROVE  /\ Groups(c) \in SUBSET (1 .. c) /\ (c # 0 => 1 \in Groups(c))
         /\ policy.mode # "plain" =>
              \A p \in Groups(c) : p + policy.max <= c => \E q \in Groups(c) : p < q /\ q <= p + policy.max
<1> DEFINE m == policy.max
           s == policy.first + 1
           early == segments = << >> /\ policy.first \in 1 .. m - 1 /\ policy.first < c
<1>1. m \in Nat \ {0} /\ policy.first \in Nat
  BY ReadingAssumption
<1>2. Groups(c) = IF policy.mode = "plain" THEN 1 .. c
                  ELSE IF early THEN {1} \cup ChunkStarts(s, c, m) ELSE ChunkStarts(1, c, m)
  BY DEF Groups
<1>3. CASE policy.mode = "plain"
  BY <1>2, <1>3
<1>4. CASE policy.mode # "plain" /\ early
  <2>1. s \in 1 .. c /\ 1 < s /\ s <= 1 + m /\ c # 0 /\ 1 \in 1 .. c
    BY <1>1, <1>4
  <2> DEFINE C == ChunkStarts(s, c, m)
  <2>2. s \in C /\ C \subseteq s .. c /\ \A p \in C : p + m <= c => p + m \in C
    BY <1>1, <2>1, ChunkFacts
  <2>3. Groups(c) = {1} \cup C
    BY <1>2, <1>4
  <2> HIDE DEF C, s
  <2>4. C \subseteq 1 .. c
    BY <2>1, <2>2
  <2>5. ASSUME NEW p \in {1} \cup C, p + m <= c PROVE \E q \in {1} \cup C : p < q /\ q <= p + m
    <3>1. CASE p = 1
      BY <2>1, <2>2, <3>1
    <3>2. CASE p \in C
      <4>1. p + m \in C /\ p \in Nat /\ p < p + m /\ p + m <= p + m
        BY <1>1, <2>2, <2>4, <2>5, <3>2
      <4> QED BY <4>1
    <3> QED BY <3>1, <3>2
  <2> QED BY <2>1, <2>3, <2>4, <2>5
<1>5. CASE policy.mode # "plain" /\ ~ early /\ c # 0
  <2> DEFINE C == ChunkStarts(1, c, m)
  <2>1. 1 \in 1 .. c
    BY <1>5
  <2>2. 1 \in C /\ C \subseteq 1 .. c /\ \A p \in C : p + m <= c => p + m \in C
    BY <1>1, <2>1, ChunkFacts
  <2>3. Groups(c) = C
    BY <1>2, <1>5
  <2> HIDE DEF C
  <2>4. ASSUME NEW p \in C, p + m <= c PROVE \E q \in C : p < q /\ q <= p + m
    <3>1. p + m \in C /\ p \in Nat /\ p < p + m /\ p + m <= p + m
      BY <1>1, <2>2, <2>4
    <3> QED BY <3>1
  <2> QED BY <2>2, <2>3, <2>4
<1>6. CASE policy.mode # "plain" /\ ~ early /\ c = 0
  <2>1. Groups(c) = {}
    BY <1>2, <1>6 DEF ChunkStarts
  <2> QED BY <1>6, <2>1
<1> QED BY <1>3, <1>4, <1>5, <1>6

(* The number of sentences of a block.                                     *)
Count(n) == Len(Sentences(Spoken(doc[n])))

(* A segment holds the place of each of its sentences.                     *)
LEMMA SegmentRange ==
  ASSUME doc \in Seq(Block), policy \in Policies, NEW n \in 1 .. Len(doc), Sentencewise(doc[n]),
         NEW from \in 1 .. Count(n), NEW to \in from .. Count(n)
  PROVE  /\ Segment(n, from, to).block = n
         /\ Segment(n, from, to).from = from /\ Segment(n, from, to).to = to
         /\ Segment(n, from, to) \in SegType
         /\ \A k \in from .. to :
              ~ Elsewhere(n, k) => Encloses(Segment(n, from, to).range, TruePlace(n, k))
<1> DEFINE all == Sentences(Spoken(doc[n]))
           h == 2 * (Before(n) + Len(doc[n].raw))
           c == to + 1 - from
           f == [k \in 1 .. to + 1 - from |-> Located(n, all[from + k - 1])]
           s == Segment(n, from, to)
<1>1. s = [block |-> n, from |-> from, to |-> to, range |-> UnionRange(f)]
  BY DEF Segment
<1>2. /\ n \in Nat /\ Count(n) \in Nat /\ from \in Nat /\ to \in Nat /\ from <= to
      /\ c \in Nat \ {0} /\ h \in Nat
  <2>1. doc[n] \in Block
    BY ElementOfSeq
  <2>2. Spoken(doc[n]) \in Seq(Tokens)
    BY <2>1, SpokenFacts
  <2>3. Count(n) \in Nat
    BY <2>2, SentencesFit DEF Count
  <2>4. Before(n) \in Nat /\ Len(doc[n].raw) \in Nat
    BY Places
  <2>5. h \in Nat
    BY <2>4
  <2>6. n \in Nat /\ from \in Nat /\ to \in Nat /\ from <= to
    BY <2>3
  <2>7. c \in Nat \ {0}
    BY <2>6
  <2> QED BY <2>3, <2>5, <2>6, <2>7
<1>3. \A k \in 1 .. Count(n) :
        /\ Located(n, all[k]) \in Nat \X (0 .. h)
        /\ TruePlace(n, k) \in Nat \X Nat
        /\ ~ Elsewhere(n, k) => Encloses(Located(n, all[k]), TruePlace(n, k))
  BY LocatedFits DEF Count
<1>4. ASSUME NEW k \in from .. to
      PROVE  k \in 1 .. Count(n) /\ k - from + 1 \in 1 .. c /\ f[k - from + 1] = Located(n, all[k])
  <2>1. k \in 1 .. Count(n) /\ k - from + 1 \in 1 .. to + 1 - from /\ from + (k - from + 1) - 1 = k
    BY <1>2
  <2> QED BY <2>1
<1>5. f \in [1 .. c -> Nat \X (0 .. h)]
  <2> SUFFICES ASSUME NEW k \in 1 .. to + 1 - from PROVE Located(n, all[from + k - 1]) \in Nat \X (0 .. h)
    OBVIOUS
  <2>1. from + k - 1 \in 1 .. Count(n)
    BY <1>2
  <2> HIDE DEF all, h
  <2> QED BY <1>3, <2>1
<1> HIDE DEF f, h, c, all
<1>6. /\ UnionRange(f) \in Nat \X Nat
      /\ \A i \in 1 .. c : UnionRange(f)[1] <= f[i][1] /\ f[i][2] <= UnionRange(f)[2]
  BY <1>2, <1>5, UnionEncloses
<1>7. s \in SegType
  BY <1>1, <1>2, <1>6 DEF SegType
<1>8. ASSUME NEW k \in from .. to, ~ Elsewhere(n, k)
      PROVE  Encloses(UnionRange(f), TruePlace(n, k))
  <2> DEFINE i == k - from + 1
             u == UnionRange(f)
             t == TruePlace(n, k)
  <2>1. i \in 1 .. c /\ f[i] = Located(n, all[k]) /\ k \in 1 .. Count(n)
    BY <1>4
  <2> HIDE DEF i, u
  <2>2. f[i] \in Nat \X (0 .. h)
    BY <1>5, <2>1
  <2>3. Encloses(f[i], t) /\ t \in Nat \X Nat
    BY <1>3, <1>8, <2>1
  <2>4. u \in Nat \X Nat /\ u[1] <= f[i][1] /\ f[i][2] <= u[2]
    BY <1>6, <2>1 DEF u
  <2> HIDE DEF t
  <2>5. /\ f[i][1] \in Int /\ f[i][2] \in Int /\ t[1] \in Int /\ t[2] \in Int
        /\ u[1] \in Int /\ u[2] \in Int
    BY <2>2, <2>3, <2>4
  <2>6. u[1] <= t[1] /\ t[2] <= u[2]
    BY <2>3, <2>4, <2>5 DEF Encloses
  <2> QED BY <2>6 DEF Encloses, u, t
<1> QED BY <1>1, <1>7, <1>8

(* Sentence k of block n is in segment i of new, and in no other.          *)
InOne(new, n, k, i) ==
  /\ \A j \in DOMAIN new : Holds(new[j], n, k) <=> j = i
  /\ ~ Elsewhere(n, k) => Encloses(new[i].range, TruePlace(n, k))

(* segmentBlock(): the segments of one block hold each of its sentences    *)
(* once, in order.                                                         *)
LEMMA SegmentsOfFacts ==
  ASSUME doc \in Seq(Block), policy \in Policies, NEW n \in 1 .. Len(doc)
  PROVE  LET new == SegmentsOf(n) IN
         /\ new \in Seq(SegType) /\ \A i \in DOMAIN new : new[i].block = n
         /\ \A i, j \in DOMAIN new : i < j => new[i].to < new[j].from
         /\ \A i \in DOMAIN new : Sentencewise(doc[n]) =>
              policy.mode = "plain" \/ new[i].to - new[i].from < policy.max
         /\ ~ NotRead(doc[n]) => \A k \in 1 .. Count(n) : \E i \in DOMAIN new : InOne(new, n, k, i)
<1> DEFINE new == SegmentsOf(n)
           c == Count(n)
           P == Groups(c)
           g == Cardinality(P)
<1>1. c \in Nat /\ n \in Nat
  <2>1. doc[n] \in Block /\ Len(doc) \in Nat
    BY ElementOfSeq, LenProperties
  <2>2. Spoken(doc[n]) \in Seq(Tokens)
    BY <2>1, SpokenFacts
  <2> QED BY <2>1, <2>2, SentencesFit DEF Count
<1>2. CASE NotRead(doc[n])
  <2>1. new = << >> /\ DOMAIN new = {}
    BY <1>2 DEF SegmentsOf
  <2> QED BY <1>2, <2>1
<1>3. CASE ~ NotRead(doc[n]) /\ ~ Sentencewise(doc[n])
  <2> DEFINE one == [block |-> n, from |-> 1, to |-> c, range |-> WholeBlock(n)]
  <2>1. new = << one >> /\ DOMAIN new = {1} /\ new[1] = one
    BY <1>3 DEF SegmentsOf, Count
  <2>2. WholeBlock(n) \in Nat \X Nat
    BY Places
  <2>3. one \in SegType
    BY <1>1, <2>2 DEF SegType
  <2>4. ASSUME NEW k \in 1 .. c PROVE InOne(new, n, k, 1)
    <3>1. Holds(one, n, k)
      BY DEF Holds
    <3>2. Encloses(WholeBlock(n), TruePlace(n, k))
      BY LocatedFits DEF Count
    <3> HIDE DEF new
    <3> QED BY <2>1, <3>1, <3>2 DEF InOne
  <2> HIDE DEF new, one
  <2>5. << one >> \in Seq(SegType)
    BY <2>3
  <2>6. new \in Seq(SegType) /\ \A i \in DOMAIN new : new[i].block = n
    BY <2>1, <2>5 DEF one
  <2>7. \A i, j \in DOMAIN new : i < j => new[i].to < new[j].from
    BY <2>1
  <2>8. \A k \in 1 .. c : \E i \in DOMAIN new : InOne(new, n, k, i)
    BY <2>1, <2>4
  <2> QED BY <1>3, <2>6, <2>7, <2>8 DEF new
<1>4. CASE ~ NotRead(doc[n]) /\ Sentencewise(doc[n])
  <2>1. P \in SUBSET (1 .. c) /\ (c # 0 => 1 \in P)
    BY <1>1, GroupsFacts
  <2> DEFINE to(k) == IF k = g THEN c ELSE Nth(P, k + 1) - 1
  <2>2. /\ g \in Nat /\ P \in SUBSET Nat /\ IsFiniteSet(P)
        /\ \A k \in 1 .. c : \E m \in 1 .. g : \A l \in 1 .. g : k \in Piece(P, c, l) <=> l = m
        /\ \A k, l \in 1 .. g : k < l => \A i \in Piece(P, c, k) : i < Nth(P, l)
    <3> HIDE DEF P, c
    <3> QED BY <1>1, <2>1, PieceOf
  <2>3. ASSUME NEW k \in 1 .. g PROVE Nth(P, k) \in 1 .. c /\ to(k) \in Nth(P, k) .. c
    <3>1. c + 1 \in Nat \ {0} /\ \A p \in P : p + (c + 1) <= c => \E q \in P : p < q /\ q <= p + (c + 1)
      <4> HIDE DEF P, c
      <4>1. ASSUME NEW p \in P PROVE ~ p + (c + 1) <= c
        <5>1. p \in 1 .. c
          BY <2>1
        <5> QED BY <1>1, <5>1
      <4> QED BY <1>1, <4>1
    <3> HIDE DEF P, c
    <3> QED BY <1>1, <2>1, <3>1, ShortPieces
  <2>4. new = [k \in 1 .. g |-> Segment(n, Nth(P, k), to(k))]
    <3> DEFINE starts == InOrder(P)
    <3>1. starts = [k \in 1 .. g |-> Nth(P, k)] /\ Len(starts) = g
      BY <2>2 DEF InOrder
    <3>2. new = [k \in 1 .. Len(starts) |->
                  Segment(n, starts[k], IF k = Len(starts) THEN c ELSE starts[k + 1] - 1)]
      BY <1>4 DEF SegmentsOf, Count
    <3> HIDE DEF new, starts, P, g, c
    <3>3. \A k \in 1 .. g : starts[k] = Nth(P, k) /\ (k # g => starts[k + 1] = Nth(P, k + 1))
      BY <2>2, <3>1
    <3>4. \A k \in 1 .. g : (IF k = Len(starts) THEN c ELSE starts[k + 1] - 1) = to(k)
      <4> SUFFICES ASSUME NEW k \in 1 .. g
                   PROVE  (IF k = Len(starts) THEN c ELSE starts[k + 1] - 1) = to(k)
        OBVIOUS
      <4>1. Len(starts) = g
        BY <3>1
      <4>2. k # g => starts[k + 1] - 1 = Nth(P, k + 1) - 1
        BY <3>3
      <4> QED BY <4>1, <4>2
    <3> HIDE DEF to
    <3>5. ASSUME NEW k \in 1 .. g
          PROVE  Segment(n, starts[k], IF k = Len(starts) THEN c ELSE starts[k + 1] - 1)
                   = Segment(n, Nth(P, k), to(k))
      BY <3>3, <3>4
    <3> QED BY <3>1, <3>2, <3>5
  <2> HIDE DEF new, P, g, c
  <2>5. DOMAIN new = 1 .. g /\ Len(new) = g
    BY <2>2, <2>4
  <2>6. ASSUME NEW k \in 1 .. g
        PROVE  /\ new[k] \in SegType /\ new[k].block = n /\ new[k].from = Nth(P, k) /\ new[k].to = to(k)
               /\ \A i \in Nth(P, k) .. to(k) :
                    ~ Elsewhere(n, i) => Encloses(new[k].range, TruePlace(n, i))
    <3>1. Nth(P, k) \in 1 .. Count(n) /\ to(k) \in Nth(P, k) .. Count(n)
      BY <2>3 DEF c
    <3>2. new[k] = Segment(n, Nth(P, k), to(k))
      BY <2>4
    <3> HIDE DEF to
    <3> QED BY <1>4, <3>1, <3>2, SegmentRange
  <2>7. new \in Seq(SegType)
    <3>1. new \in [1 .. g -> SegType]
      BY <2>4, <2>5, <2>6
    <3> QED BY <2>2, <3>1
  <2>8. ASSUME NEW i \in 1 .. g, NEW j \in 1 .. g, i < j PROVE new[i].to < new[j].from
    <3>1. to(i) \in Piece(P, c, i)
      <4>1. to(i) \in Nth(P, i) .. c /\ Nth(P, i) \in 1 .. c
        BY <2>3
      <4>2. Piece(P, c, i) = Nth(P, i) .. to(i)
        BY DEF Piece, g
      <4> HIDE DEF to
      <4> QED BY <1>1, <4>1, <4>2
    <3>2. to(i) < Nth(P, j)
      BY <2>2, <2>8, <3>1
    <3> QED BY <2>6, <3>2
  <2>9. ASSUME NEW i \in 1 .. g, policy.mode # "plain" PROVE new[i].to - new[i].from < policy.max
    <3>1. \A p \in P : p + policy.max <= c => \E q \in P : p < q /\ q <= p + policy.max
      BY <1>1, <2>9, GroupsFacts DEF P
    <3>2. policy.max \in Nat \ {0}
      BY ReadingAssumption
    <3>3. to(i) - Nth(P, i) < policy.max
      <4> DEFINE m == policy.max
      <4> HIDE DEF m
      <4>1. m \in Nat \ {0} /\ \A p \in P : p + m <= c => \E q \in P : p < q /\ q <= p + m
        BY <3>1, <3>2 DEF m
      <4>2. LET t == IF i = Cardinality(P) THEN c ELSE Nth(P, i + 1) - 1 IN t - Nth(P, i) < m
        BY <1>1, <2>1, <4>1, ShortPieces DEF g
      <4> QED BY <4>2 DEF g, m
    <3> QED BY <2>6, <3>3
  <2>10. ASSUME NEW k \in 1 .. c PROVE \E i \in 1 .. g : InOne(new, n, k, i)
    <3>1. PICK i \in 1 .. g : \A l \in 1 .. g : k \in Piece(P, c, l) <=> l = i
      BY <2>2
    <3>2. \A l \in 1 .. g : Holds(new[l], n, k) <=> k \in Piece(P, c, l)
      <4> SUFFICES ASSUME NEW l \in 1 .. g PROVE Holds(new[l], n, k) <=> k \in Piece(P, c, l)
        OBVIOUS
      <4>1. Piece(P, c, l) = Nth(P, l) .. to(l)
        BY DEF Piece, g
      <4>2. new[l].block = n /\ new[l].from = Nth(P, l) /\ new[l].to = to(l)
        BY <2>6
      <4> HIDE DEF to
      <4> QED BY <4>1, <4>2 DEF Holds
    <3>3. k \in Nth(P, i) .. to(i)
      BY <3>1 DEF Piece, g
    <3>4. ~ Elsewhere(n, k) => Encloses(new[i].range, TruePlace(n, k))
      BY <2>6, <3>3
    <3> QED BY <2>5, <3>1, <3>2, <3>4 DEF InOne
  <2> QED BY <1>4, <2>5, <2>6, <2>7, <2>8, <2>9, <2>10 DEF new, c
<1> QED BY <1>2, <1>3, <1>4

(* While the document and the policy stay, so does all that is said of its *)
(* sentences.                                                              *)
LEMMA Unmoved ==
  ASSUME doc' = doc, policy' = policy
  PROVE  /\ \A n : Count(n)' = Count(n) /\ (NotRead(doc[n]))' = NotRead(doc[n])
                   /\ (Sentencewise(doc[n]))' = Sentencewise(doc[n])
         /\ \A n, k : Elsewhere(n, k)' = Elsewhere(n, k) /\ TruePlace(n, k)' = TruePlace(n, k)
<1>1. \A n : Count(n)' = Count(n) /\ (NotRead(doc[n]))' = NotRead(doc[n])
             /\ (Sentencewise(doc[n]))' = Sentencewise(doc[n])
  BY DEF Count, Spoken, NotRead, Sentencewise
<1>2. \A n, k : TruePlace(n, k)' = TruePlace(n, k)
  BY DEF TruePlace, PlaceOf, Before, Spoken
<1>3. \A n, k : Elsewhere(n, k)' = Elsewhere(n, k)
  BY <1>2 DEF Elsewhere, PlaceOf, Before, Spoken, Sentencewise
<1> QED BY <1>1, <1>2, <1>3

(* Segments in the order of the document, and no longer than the policy    *)
(* allows; a sentence which the selection asks for.                        *)
InRow(segs) ==
  \A i, j \in DOMAIN segs : i < j =>
    \/ segs[i].block < segs[j].block
    \/ segs[i].block = segs[j].block /\ segs[i].to < segs[j].from
Small(seg) == Sentencewise(doc[seg.block]) => policy.mode = "plain" \/ seg.to - seg.from < policy.max
AskedFor(n, k) == ~ Elsewhere(n, k) /\ (selection # << >> => Overlap(TruePlace(n, k), selection))

(* The four parts of the invariant of the segmentation.                    *)
TextKept ==
  /\ doc \in Seq(Block) /\ policy \in Policies /\ cut \in 0 .. Len(doc)
  /\ selection = << >> \/ selection \in Nat \X Nat
SegmentsFit ==
  /\ segments \in Seq(SegType) /\ \A i \in DOMAIN segments : segments[i].block \in 1 .. cut
  /\ InRow(segments) /\ \A i \in DOMAIN segments : Small(segments[i])
CutWhole ==
  narration.at = "cut" => \A n \in 1 .. cut : ~ NotRead(doc[n]) =>
    \A k \in 1 .. Count(n) : \E i \in DOMAIN segments : InOne(segments, n, k, i)
SelectedWhole ==
  narration.at = "selected" => \A n \in 1 .. cut : ~ NotRead(doc[n]) =>
    \A k \in 1 .. Count(n) : AskedFor(n, k) => \E i \in DOMAIN segments : Holds(segments[i], n, k)
SegmentsInv == TextKept /\ SegmentsFit /\ CutWhole /\ SelectedWhole

(* Cutting one more block keeps the segments of the blocks before it, and  *)
(* adds those of the block.                                                *)
LEMMA CutKeeps ==
  ASSUME SegmentsInv, CutBlock
  PROVE  SegmentsInv'
<1> DEFINE n1 == cut + 1
           new == SegmentsOf(n1)
           m == Len(segments)
           l == Len(new)
           all == segments \o new
<1>1. /\ doc \in Seq(Block) /\ policy \in Policies /\ cut \in 0 .. Len(doc)
      /\ segments \in Seq(SegType) /\ \A i \in DOMAIN segments : segments[i].block \in 1 .. cut
      /\ InRow(segments) /\ \A i \in DOMAIN segments : Small(segments[i])
  BY DEF SegmentsInv, TextKept, SegmentsFit
<1>2. /\ narration.at = "cut" /\ cut < Len(doc) /\ cut' = cut + 1 /\ segments' = all
      /\ doc' = doc /\ policy' = policy /\ selection' = selection /\ narration' = narration
  BY DEF CutBlock
<1>3. Len(doc) \in Nat /\ cut \in Nat /\ n1 \in 1 .. Len(doc) /\ cut + 1 \in 0 .. Len(doc)
  <2>1. Len(doc) \in Nat
    BY <1>1, LenProperties
  <2> QED BY <1>1, <1>2, <2>1
<1>4. /\ new \in Seq(SegType) /\ \A i \in DOMAIN new : new[i].block = n1
      /\ \A i, j \in DOMAIN new : i < j => new[i].to < new[j].from
      /\ \A i \in DOMAIN new : Sentencewise(doc[n1]) =>
           policy.mode = "plain" \/ new[i].to - new[i].from < policy.max
      /\ ~ NotRead(doc[n1]) => \A k \in 1 .. Count(n1) : \E i \in DOMAIN new : InOne(new, n1, k, i)
  BY <1>1, <1>3, SegmentsOfFacts
<1> HIDE DEF new
<1>5. /\ m \in Nat /\ l \in Nat /\ DOMAIN segments = 1 .. m /\ DOMAIN new = 1 .. l
      /\ all \in Seq(SegType) /\ Len(all) = m + l /\ DOMAIN all = 1 .. m + l
      /\ \A i \in 1 .. m + l : all[i] = IF i <= m THEN segments[i] ELSE new[i - m]
  <2>1. all \in Seq(SegType) /\ Len(all) = m + l
    BY <1>1, <1>4, ConcatProperties
  <2>2. m \in Nat /\ l \in Nat /\ DOMAIN segments = 1 .. m /\ DOMAIN new = 1 .. l
    BY <1>1, <1>4, LenProperties
  <2>3. DOMAIN all = 1 .. m + l
    BY <2>1, LenProperties
  <2> QED BY <1>1, <1>4, <2>1, <2>2, <2>3, ConcatProperties
<1> HIDE DEF m, l, all
<1>6. ASSUME NEW i \in 1 .. m + l
      PROVE  \/ i \in 1 .. m /\ all[i] = segments[i] /\ all[i].block \in 1 .. cut
             \/ i - m \in 1 .. l /\ m < i /\ all[i] = new[i - m] /\ all[i].block = n1
  <2>1. CASE i <= m
    <3>1. i \in 1 .. m /\ all[i] = segments[i]
      BY <1>5, <2>1
    <3> QED BY <1>1, <1>5, <3>1
  <2>2. CASE ~ i <= m
    <3>1. i - m \in 1 .. l /\ m < i
      BY <1>5, <2>2
    <3> QED BY <1>4, <1>5, <2>2, <3>1
  <2> QED BY <2>1, <2>2
<1>7. TextKept'
  BY <1>2, <1>3 DEF SegmentsInv, TextKept
<1>8. \A i \in DOMAIN all : all[i].block \in 1 .. cut + 1
  BY <1>3, <1>5, <1>6
<1>9. InRow(all)
  <2> SUFFICES ASSUME NEW i \in 1 .. m + l, NEW j \in 1 .. m + l, i < j
               PROVE  \/ all[i].block < all[j].block
                      \/ all[i].block = all[j].block /\ all[i].to < all[j].from
    BY <1>5 DEF InRow
  <2>1. CASE j \in 1 .. m
    <3>1. i \in 1 .. m /\ all[i] = segments[i] /\ all[j] = segments[j]
      BY <1>5, <2>1
    <3> QED BY <1>1, <1>5, <2>1, <3>1 DEF InRow
  <2>2. CASE i \in 1 .. m /\ j \notin 1 .. m
    <3>1. all[i].block \in 1 .. cut /\ all[j].block = n1
      <4>1. ~ i - m \in 1 .. l
        BY <1>5, <2>2
      <4> QED BY <1>6, <2>2, <4>1
    <3> QED BY <1>3, <3>1
  <2>3. CASE i \notin 1 .. m /\ j \notin 1 .. m
    <3>1. /\ i - m \in 1 .. l /\ all[i] = new[i - m] /\ all[i].block = n1
          /\ j - m \in 1 .. l /\ all[j] = new[j - m] /\ all[j].block = n1
      BY <1>6, <2>3
    <3>2. i - m < j - m
      BY <1>5
    <3> QED BY <1>4, <1>5, <3>1, <3>2
  <2>4. i < j /\ j \in 1 .. m => i \in 1 .. m
    BY <1>5
  <2> QED BY <2>1, <2>2, <2>3, <2>4
<1>10. ASSUME NEW i \in 1 .. m + l PROVE Small(all[i])
  <2>1. CASE i \in 1 .. m /\ all[i] = segments[i]
    BY <1>1, <1>5, <2>1
  <2>2. CASE i - m \in 1 .. l /\ all[i] = new[i - m] /\ all[i].block = n1
    BY <1>4, <1>5, <2>2 DEF Small
  <2> QED BY <1>6, <2>1, <2>2
<1>11. SegmentsFit'
  <2>1. \A i \in DOMAIN all : Small(all[i])
    BY <1>5, <1>10
  <2>2. (\A i \in DOMAIN segments : Small(segments[i]))'
    BY <1>2, <2>1 DEF Small, Sentencewise
  <2>3. InRow(segments)'
    BY <1>2, <1>9 DEF InRow
  <2>4. (segments \in Seq(SegType) /\ \A i \in DOMAIN segments : segments[i].block \in 1 .. cut)'
    BY <1>2, <1>5, <1>8
  <2> QED BY <2>2, <2>3, <2>4 DEF SegmentsFit
<1>12. ASSUME NEW n \in 1 .. cut + 1, ~ NotRead(doc[n]), NEW k \in 1 .. Count(n)
       PROVE  \E i \in DOMAIN all : InOne(all, n, k, i)
  <2>1. CASE n # n1
    <3>1. n \in 1 .. cut
      BY <1>3, <2>1
    <3>2. PICK i \in 1 .. m : InOne(segments, n, k, i)
      BY <1>2, <1>5, <1>12, <3>1 DEF SegmentsInv, CutWhole
    <3>3. i \in 1 .. m + l /\ all[i] = segments[i]
      BY <1>5
    <3>4. ASSUME NEW j \in 1 .. m + l PROVE Holds(all[j], n, k) <=> j = i
      <4>1. CASE j \in 1 .. m /\ all[j] = segments[j]
        BY <1>5, <3>2, <4>1 DEF InOne
      <4>2. CASE j - m \in 1 .. l /\ m < j /\ all[j].block = n1
        <5>1. j # i
          BY <1>5, <4>2
        <5> QED BY <2>1, <4>2, <5>1 DEF Holds
      <4> QED BY <1>6, <4>1, <4>2
    <3>5. ~ Elsewhere(n, k) => Encloses(all[i].range, TruePlace(n, k))
      BY <3>2, <3>3 DEF InOne
    <3>6. InOne(all, n, k, i) /\ i \in DOMAIN all
      BY <1>5, <3>3, <3>4, <3>5 DEF InOne
    <3> QED BY <3>6
  <2>2. CASE n = n1
    <3>1. PICK i \in 1 .. l : InOne(new, n, k, i)
      BY <1>4, <1>5, <1>12, <2>2
    <3>2. m + i \in 1 .. m + l /\ all[m + i] = new[i]
      BY <1>5
    <3>3. ASSUME NEW j \in 1 .. m + l PROVE Holds(all[j], n, k) <=> j = m + i
      <4>1. CASE j \in 1 .. m /\ all[j].block \in 1 .. cut
        <5>1. j # m + i
          BY <1>5, <4>1
        <5>2. all[j].block # n
          BY <1>3, <2>2, <4>1
        <5> QED BY <5>1, <5>2 DEF Holds
      <4>2. CASE j - m \in 1 .. l /\ all[j] = new[j - m]
        <5>1. j - m = i <=> j = m + i
          BY <1>5
        <5> QED BY <1>5, <3>1, <4>2, <5>1 DEF InOne
      <4> QED BY <1>6, <4>1, <4>2
    <3>4. ~ Elsewhere(n, k) => Encloses(all[m + i].range, TruePlace(n, k))
      BY <3>1, <3>2 DEF InOne
    <3>5. InOne(all, n, k, m + i) /\ m + i \in DOMAIN all
      BY <1>5, <3>2, <3>3, <3>4 DEF InOne
    <3> QED BY <3>5
  <2> QED BY <2>1, <2>2
<1>13. CutWhole'
  <2>1. /\ \A n : Count(n)' = Count(n) /\ (NotRead(doc[n]))' = NotRead(doc[n])
        /\ \A n, k : Elsewhere(n, k)' = Elsewhere(n, k) /\ TruePlace(n, k)' = TruePlace(n, k)
    BY <1>2, Unmoved
  <2> SUFFICES ASSUME NEW n \in 1 .. cut + 1, ~ (NotRead(doc[n]))', NEW k \in 1 .. Count(n)'
               PROVE  (\E i \in DOMAIN segments : InOne(segments, n, k, i))'
    BY <1>2 DEF CutWhole
  <2>2. ~ NotRead(doc[n]) /\ k \in 1 .. Count(n)
    BY <2>1
  <2>3. PICK i \in DOMAIN all : InOne(all, n, k, i)
    BY <1>12, <2>2
  <2>4. i \in DOMAIN segments' /\ InOne(segments, n, k, i)'
    BY <1>2, <2>1, <2>3 DEF InOne, Holds, Encloses
  <2> QED BY <2>4
<1>14. SelectedWhole'
  BY <1>2 DEF SelectedWhole
<1> QED BY <1>7, <1>11, <1>13, <1>14 DEF SegmentsInv

(* A larger range overlaps what the smaller one does.                      *)
LEMMA OverlapGrows ==
  ASSUME NEW r \in Nat \X Nat, NEW t \in Nat \X Nat, NEW s \in Nat \X Nat,
         Encloses(r, t), Overlap(t, s)
  PROVE  Overlap(r, s)
BY DEF Encloses, Overlap

(* Taking the selection keeps every segment that holds a sentence it asks  *)
(* for.                                                                    *)
LEMMA SelectKeeps ==
  ASSUME SegmentsInv, narration \in Narration, Select
  PROVE  SegmentsInv'
<1> DEFINE m == Len(segments)
           P == {i \in DOMAIN segments : selection = << >> \/ Overlap(segments[i].range, selection)}
           c == Cardinality(P)
           left == Picked(segments, P)
<1>1. /\ doc \in Seq(Block) /\ policy \in Policies /\ cut \in 0 .. Len(doc)
      /\ selection = << >> \/ selection \in Nat \X Nat
      /\ segments \in Seq(SegType) /\ \A i \in DOMAIN segments : segments[i].block \in 1 .. cut
      /\ InRow(segments) /\ \A i \in DOMAIN segments : Small(segments[i])
  BY DEF SegmentsInv, TextKept, SegmentsFit
<1>2. /\ narration.at = "cut" /\ segments' = left /\ narration'.at = "selected"
      /\ doc' = doc /\ policy' = policy /\ selection' = selection /\ cut' = cut
  <2>1. narration' = [narration EXCEPT !.at = "selected"]
    BY DEF Select
  <2>2. narration'.at = "selected"
    BY <2>1 DEF Narration
  <2> QED BY <2>2 DEF Select
<1>3. m \in Nat /\ DOMAIN segments = 1 .. m /\ P \in SUBSET (1 .. m)
  BY <1>1, LenProperties
<1>4. /\ left \in Seq(SegType) /\ Len(left) = c /\ c \in Nat /\ DOMAIN left = 1 .. c
      /\ \A k \in 1 .. c : Nth(P, k) \in P /\ left[k] = segments[Nth(P, k)]
      /\ \A i \in P : Rank(P, i) \in 1 .. c /\ left[Rank(P, i)] = segments[i]
      /\ \A k, l \in 1 .. c : k < l => Nth(P, k) < Nth(P, l)
  <2> HIDE DEF P
  <2>1. /\ IsFiniteSet(P) /\ left \in Seq(SegType) /\ Len(left) = c
        /\ \A k \in 1 .. c : Nth(P, k) \in P /\ left[k] = segments[Nth(P, k)]
        /\ \A i \in P : Rank(P, i) \in 1 .. c /\ left[Rank(P, i)] = segments[i]
    BY <1>1, <1>3, PickedFacts
  <2>2. P \in SUBSET Nat
    BY <1>3
  <2>3. c \in Nat /\ \A k, l \in 1 .. c : k < l => Nth(P, k) < Nth(P, l)
    BY <2>1, <2>2, NthFacts
  <2>4. DOMAIN left = 1 .. c
    BY <2>1, LenProperties
  <2> QED BY <2>1, <2>3, <2>4
<1> HIDE DEF left, c
<1>5. TextKept'
  BY <1>1, <1>2 DEF TextKept
<1>6. SegmentsFit'
  <2> HIDE DEF P
  <2>1. ASSUME NEW k \in 1 .. c
        PROVE  left[k].block \in 1 .. cut /\ Small(left[k])
    <3>1. Nth(P, k) \in DOMAIN segments /\ left[k] = segments[Nth(P, k)]
      BY <1>3, <1>4
    <3> QED BY <1>1, <3>1
  <2>2. InRow(left)
    <3> SUFFICES ASSUME NEW i \in 1 .. c, NEW j \in 1 .. c, i < j
                 PROVE  \/ left[i].block < left[j].block
                        \/ left[i].block = left[j].block /\ left[i].to < left[j].from
      BY <1>4 DEF InRow
    <3>1. Nth(P, i) < Nth(P, j) /\ Nth(P, i) \in DOMAIN segments /\ Nth(P, j) \in DOMAIN segments
      BY <1>3, <1>4
    <3> DEFINE a == Nth(P, i)
               b == Nth(P, j)
    <3>2. left[i] = segments[a] /\ left[j] = segments[b]
      BY <1>4
    <3> HIDE DEF a, b
    <3>3. a \in DOMAIN segments /\ b \in DOMAIN segments /\ a < b
      BY <3>1 DEF a, b
    <3>4. \/ segments[a].block < segments[b].block
          \/ segments[a].block = segments[b].block /\ segments[a].to < segments[b].from
      BY <1>1, <3>3 DEF InRow
    <3> QED BY <3>2, <3>4
  <2>3. (\A i \in DOMAIN segments : Small(segments[i]))'
    BY <1>2, <1>4, <2>1 DEF Small, Sentencewise
  <2>4. InRow(segments)'
    BY <1>2, <2>2 DEF InRow
  <2>5. (segments \in Seq(SegType) /\ \A i \in DOMAIN segments : segments[i].block \in 1 .. cut)'
    BY <1>2, <1>4, <2>1
  <2> QED BY <2>3, <2>4, <2>5 DEF SegmentsFit
<1>7. ASSUME NEW n \in 1 .. cut, ~ NotRead(doc[n]), NEW k \in 1 .. Count(n), AskedFor(n, k)
      PROVE  \E i \in DOMAIN left : Holds(left[i], n, k)
  <2>1. PICK i \in DOMAIN segments : InOne(segments, n, k, i)
    BY <1>2, <1>7 DEF SegmentsInv, CutWhole
  <2>2. Holds(segments[i], n, k) /\ Encloses(segments[i].range, TruePlace(n, k))
    BY <1>7, <2>1 DEF InOne, AskedFor
  <2>3. TruePlace(n, k) \in Nat \X Nat
    <3>1. n \in 1 .. Len(doc)
      <4>1. Len(doc) \in Nat
        BY <1>1, LenProperties
      <4> QED BY <1>1, <4>1
    <3> QED BY <1>1, <3>1, LocatedFits DEF Count
  <2>4. segments[i].range \in Nat \X Nat
    <3>1. segments[i] \in SegType
      BY <1>1, <1>3, <2>1, ElementOfSeq
    <3> QED BY <3>1 DEF SegType
  <2>5. selection = << >> \/ Overlap(segments[i].range, selection)
    <3> SUFFICES ASSUME selection # << >> PROVE Overlap(segments[i].range, selection)
      OBVIOUS
    <3>1. selection \in Nat \X Nat /\ Overlap(TruePlace(n, k), selection)
      BY <1>1, <1>7 DEF AskedFor
    <3> QED BY <2>2, <2>3, <2>4, <3>1, OverlapGrows
  <2>6. i \in P
    BY <2>5
  <2> HIDE DEF P
  <2>7. Rank(P, i) \in DOMAIN left /\ left[Rank(P, i)] = segments[i]
    BY <1>4, <2>6
  <2> QED BY <2>2, <2>7
<1>8. SelectedWhole'
  <2> HIDE DEF P
  <2>1. /\ \A n : Count(n)' = Count(n) /\ (NotRead(doc[n]))' = NotRead(doc[n])
        /\ \A n, k : Elsewhere(n, k)' = Elsewhere(n, k) /\ TruePlace(n, k)' = TruePlace(n, k)
    BY <1>2, Unmoved
  <2> SUFFICES ASSUME NEW n \in 1 .. cut, ~ (NotRead(doc[n]))', NEW k \in 1 .. Count(n)', AskedFor(n, k)'
               PROVE  (\E i \in DOMAIN segments : Holds(segments[i], n, k))'
    BY <1>2 DEF SelectedWhole
  <2>2. ~ NotRead(doc[n]) /\ k \in 1 .. Count(n) /\ AskedFor(n, k)
    BY <1>2, <2>1 DEF AskedFor, Overlap
  <2>3. PICK i \in DOMAIN left : Holds(left[i], n, k)
    BY <1>7, <2>2
  <2>4. i \in DOMAIN segments' /\ Holds(segments[i], n, k)'
    BY <1>2, <2>3 DEF Holds
  <2> QED BY <2>4
<1>9. CutWhole'
  BY <1>2 DEF CutWhole
<1> QED BY <1>5, <1>6, <1>8, <1>9 DEF SegmentsInv

(* Handing over empties the document.                                      *)
LEMMA HandOverKeepsSegments ==
  ASSUME SegmentsInv, narration \in Narration, HandOver
  PROVE  SegmentsInv'
<1>1. /\ doc' = << >> /\ segments' = << >> /\ selection' = << >> /\ cut' = 0 /\ policy' = policy
      /\ narration'.at \in {"read", "asked"}
  <2>1. narration' = [narration EXCEPT !.count = Len(segments),
                                       !.at = IF segments = << >> THEN "read" ELSE "asked"]
    BY DEF HandOver
  <2>2. narration'.at = IF segments = << >> THEN "read" ELSE "asked"
    BY <2>1 DEF Narration
  <2> QED BY <2>2 DEF HandOver
<1>2. << >> \in Seq(Block) /\ << >> \in Seq(SegType) /\ 0 \in 0 .. Len(<< >>) /\ DOMAIN << >> = {}
  BY EmptySeq
<1>3. TextKept'
  BY <1>1, <1>2 DEF SegmentsInv, TextKept
<1>4. SegmentsFit'
  BY <1>1, <1>2 DEF SegmentsFit, InRow
<1>5. CutWhole' /\ SelectedWhole'
  BY <1>1 DEF CutWhole, SelectedWhole
<1> QED BY <1>3, <1>4, <1>5 DEF SegmentsInv

(* Once the segments are handed over, or when nothing moves, nothing is    *)
(* asked of them.                                                          *)
LEMMA RestKeepsSegments ==
  ASSUME SegmentsInv, UNCHANGED << doc, policy, selection, cut, segments >>,
         narration'.at \notin {"cut", "selected"} \/ narration' = narration
  PROVE  SegmentsInv'
<1>1. TextKept'
  BY DEF SegmentsInv, TextKept
<1>2. SegmentsFit'
  BY DEF SegmentsInv, SegmentsFit, InRow, Small, Sentencewise
<1>3. CASE narration'.at \notin {"cut", "selected"}
  BY <1>1, <1>2, <1>3 DEF SegmentsInv, CutWhole, SelectedWhole
<1>4. CASE narration' = narration
  <2>1. /\ \A n : Count(n)' = Count(n) /\ (NotRead(doc[n]))' = NotRead(doc[n])
        /\ \A n, k : Elsewhere(n, k)' = Elsewhere(n, k) /\ TruePlace(n, k)' = TruePlace(n, k)
    BY Unmoved
  <2>2. CutWhole'
    BY <1>4, <2>1 DEF SegmentsInv, CutWhole, InOne, Holds
  <2>3. SelectedWhole'
    BY <1>4, <2>1 DEF SegmentsInv, SelectedWhole, AskedFor, Overlap, Holds
  <2> QED BY <1>1, <1>2, <2>2, <2>3 DEF SegmentsInv
<1> QED BY <1>3, <1>4

(* The segmentation starts with nothing cut.                               *)
LEMMA SegmentsInit ==
  ASSUME ReadingInit
  PROVE  SegmentsInv
<1>1. doc \in Seq(Block) /\ policy \in Policies
  BY ReadingAssumption DEF ReadingInit, Block
<1>2. 0 \in 0 .. Len(doc)
  <2>1. Len(doc) \in Nat
    BY <1>1, LenProperties
  <2> QED BY <2>1
<1>3. selection = << >> \/ selection \in Nat \X Nat
  BY DEF ReadingInit, Selections
<1>4. << >> \in Seq(SegType) /\ DOMAIN << >> = {}
  BY EmptySeq
<1>5. SegmentsFit
  BY <1>4 DEF ReadingInit, SegmentsFit, InRow
<1>6. CutWhole /\ SelectedWhole
  BY DEF ReadingInit, CutWhole, SelectedWhole
<1> QED BY <1>1, <1>2, <1>3, <1>5, <1>6 DEF ReadingInit, SegmentsInv, TextKept

(* The invariant of the segmentation says what is promised of it.          *)
LEMMA SegmentsRead ==
  ASSUME SegmentsInv
  PROVE  SelectionIsRead
<1>1. /\ doc \in Seq(Block) /\ policy \in Policies /\ cut \in 0 .. Len(doc)
      /\ InRow(segments) /\ \A i \in DOMAIN segments : Small(segments[i])
  BY DEF SegmentsInv, TextKept, SegmentsFit
<1>2. ASSUME NEW n \in 1 .. cut, NEW k \in DOMAIN Sentences(Spoken(doc[n])), ~ NotRead(doc[n])
      PROVE  LET there == {i \in DOMAIN segments : Holds(segments[i], n, k)} IN
             /\ narration.at = "cut" => Cardinality(there) = 1
             /\ (narration.at = "selected" /\ ~ Elsewhere(n, k)
                 /\ (selection # << >> => Overlap(TruePlace(n, k), selection))) => there # {}
  <2> DEFINE there == {i \in DOMAIN segments : Holds(segments[i], n, k)}
  <2>1. k \in 1 .. Count(n)
    <3>1. n \in 1 .. Len(doc)
      <4>1. Len(doc) \in Nat
        BY <1>1, LenProperties
      <4> QED BY <1>1, <4>1
    <3>2. doc[n] \in Block
      BY <1>1, <3>1, ElementOfSeq
    <3>3. Spoken(doc[n]) \in Seq(Tokens)
      BY <3>2, SpokenFacts
    <3> QED BY <3>3, SentencesFit DEF Count
  <2>2. ASSUME narration.at = "cut" PROVE Cardinality(there) = 1
    <3>1. PICK i \in DOMAIN segments : InOne(segments, n, k, i)
      BY <1>2, <2>1, <2>2 DEF SegmentsInv, CutWhole
    <3>2. there = {i}
      BY <3>1 DEF InOne
    <3> QED BY <3>2, FS_Singleton
  <2>3. ASSUME narration.at = "selected", AskedFor(n, k) PROVE there # {}
    BY <1>2, <2>1, <2>3 DEF SegmentsInv, SelectedWhole
  <2> QED BY <2>2, <2>3 DEF AskedFor
<1>3. \A i, j \in DOMAIN segments : i < j =>
        \/ segments[i].block < segments[j].block
        \/ segments[i].block = segments[j].block /\ segments[i].to < segments[j].from
  BY <1>1 DEF InRow
<1>4. \A i \in DOMAIN segments : Sentencewise(doc[segments[i].block]) =>
        policy.mode = "plain" \/ segments[i].to - segments[i].from < policy.max
  BY <1>1 DEF Small
<1> QED BY <1>2, <1>3, <1>4 DEF SelectionIsRead

(* Which group a segment is in.                                            *)
Turn(i) == (i - 1) \div GroupSize

(* A group is the segments whose turn it is.                               *)
LEMMA GroupFacts ==
  ASSUME narration \in Narration
  PROVE  /\ Group \subseteq Nat \ {0} /\ IsFiniteSet(Group)
         /\ \A i \in Nat \ {0} : Turn(i) \in Nat
         /\ \A i \in Nat \ {0} : i \in Group <=> i \in 1 .. narration.count /\ Turn(i) = narration.turn
<1> DEFINE g == GroupSize
           c == narration.count
           t == narration.turn
           d == t * g
<1>1. c \in Nat /\ t \in Nat /\ g \in Nat \ {0}
  BY ReadingAssumption DEF Narration
<1>2. Group = d + 1 .. (IF d + g < c THEN d + g ELSE c)
  BY DEF Group
<1> HIDE DEF g, c, t
<1>3. d \in Nat
  BY <1>1
<1>4. ASSUME NEW i \in Nat \ {0}
      PROVE  /\ Turn(i) \in Nat
             /\ Turn(i) = t <=> d <= i - 1 /\ i - 1 < d + g
  <2> DEFINE a == i - 1
             q == a \div g
             e == q * g
  <2>1. a \in Nat
    OBVIOUS
  <2> HIDE DEF a
  <2>2. q \in Nat /\ e <= a /\ a < e + g /\ e \in Nat
    BY <1>1, <2>1
  <2>3. Turn(i) = q
    BY DEF Turn, g, a
  <2> HIDE DEF q
  <2>4. q < t => e + g <= d
    <3> SUFFICES ASSUME q < t PROVE e + g <= d
      OBVIOUS
    <3>1. (q + 1) * g <= t * g
      BY <1>1, <2>2
    <3>2. (q + 1) * g = e + g
      BY <1>1, <2>2
    <3> QED BY <3>1, <3>2
  <2>5. t < q => d + g <= e
    <3> SUFFICES ASSUME t < q PROVE d + g <= e
      OBVIOUS
    <3>1. (t + 1) * g <= q * g
      BY <1>1, <2>2
    <3>2. (t + 1) * g = d + g
      BY <1>1, <2>2
    <3> QED BY <3>1, <3>2
  <2>6. q = t => e = d
    OBVIOUS
  <2> HIDE DEF d, e
  <2>7. q = t <=> (d <= a /\ a < d + g)
    BY <1>1, <1>3, <2>1, <2>2, <2>4, <2>5, <2>6
  <2> QED BY <2>2, <2>3, <2>7 DEF a
<1> HIDE DEF d
<1>5. Group \subseteq Nat \ {0} /\ IsFiniteSet(Group)
  <2>1. IsFiniteSet(Group)
    <3>1. d + 1 \in Int /\ (IF d + g < c THEN d + g ELSE c) \in Int
      BY <1>1, <1>3
    <3> QED BY <1>2, <3>1, FS_Interval
  <2> QED BY <1>2, <1>3, <2>1
<1>6. ASSUME NEW i \in Nat \ {0}
      PROVE  i \in Group <=> i \in 1 .. c /\ Turn(i) = t
  BY <1>1, <1>2, <1>3, <1>4
<1> QED BY <1>4, <1>5, <1>6 DEF c, t

(* What two segments of a narration have in common is in `twice`.          *)
OnceBut(new, twice) == \A j, k \in DOMAIN new : j # k => new[j] \cap new[k] \subseteq twice

(* A group read: each narration segment is made from some of it, and all   *)
(* of it is heard, once but for what is named twice.                       *)
Whole(new, twice) == /\ new \in Seq(SUBSET Group) /\ {} \notin ToSet(new)
                     /\ UNION ToSet(new) = Group /\ twice \in SUBSET Group
                     /\ OnceBut(new, twice)

(* The invariant of the narration.                                         *)
NarratedSoFar ==
  /\ narration \in Narration
  /\ narration.at \in {"cut", "selected"} =>
       /\ narration.count = 0 /\ narration.turn = 0
       /\ narration.heard = << >> /\ narration.again = {}
  /\ NarrationIsWhole

(* Read verbatim, every segment is heard by itself.                        *)
LEMMA VerbatimFacts ==
  ASSUME narration \in Narration, NEW ids \in SUBSET Group
  PROVE  /\ Verbatim(ids) \in Seq(SUBSET Group) /\ {} \notin ToSet(Verbatim(ids))
         /\ UNION ToSet(Verbatim(ids)) = ids /\ OnceBut(Verbatim(ids), {})
<1> DEFINE c == Cardinality(ids)
           v == Verbatim(ids)
<1>1. IsFiniteSet(ids) /\ ids \in SUBSET Nat
  <2>1. IsFiniteSet(Group) /\ Group \subseteq Nat
    BY GroupFacts
  <2> QED BY <2>1, FS_Subset, Zenon
<1>2. /\ c \in Nat /\ \A k \in 1 .. c : Nth(ids, k) \in ids
      /\ \A i \in ids : Rank(ids, i) \in 1 .. c /\ Nth(ids, Rank(ids, i)) = i
      /\ \A k \in 1 .. c : Rank(ids, Nth(ids, k)) = k
  BY <1>1, NthFacts
<1>3. v = [k \in 1 .. c |-> {Nth(ids, k)}]
  BY DEF Verbatim
<1> HIDE DEF c, v
<1>4. v \in Seq(SUBSET Group)
  <2>1. v \in [1 .. c -> SUBSET Group]
    BY <1>2, <1>3
  <2> QED BY <1>2, <2>1
<1>5. ToSet(v) = {{i} : i \in ids}
  <2>1. DOMAIN v = 1 .. c
    BY <1>3
  <2>2. ASSUME NEW x \in ToSet(v) PROVE x \in {{i} : i \in ids}
    <3>1. PICK k \in 1 .. c : x = v[k]
      BY <2>1 DEF ToSet
    <3> QED BY <1>2, <1>3, <3>1
  <2>3. ASSUME NEW i \in ids PROVE {i} \in ToSet(v)
    <3>1. Rank(ids, i) \in 1 .. c /\ v[Rank(ids, i)] = {i}
      BY <1>2, <1>3
    <3> QED BY <2>1, <3>1 DEF ToSet
  <2> QED BY <2>2, <2>3
<1>6. UNION {{i} : i \in ids} = ids /\ {} \notin {{i} : i \in ids}
  OBVIOUS
<1>7. OnceBut(v, {})
  <2> SUFFICES ASSUME NEW j \in 1 .. c, NEW k \in 1 .. c, j # k PROVE v[j] \cap v[k] = {}
    BY <1>3 DEF OnceBut
  <2>2. Nth(ids, j) # Nth(ids, k)
    BY <1>2
  <2> QED BY <1>3, <2>2
<1> QED BY <1>4, <1>5, <1>6, <1>7 DEF v

(* Two parts of a narration that have only `twice` in common.              *)
LEMMA OnceConcat ==
  ASSUME NEW X, NEW p \in Seq(SUBSET X), NEW q \in Seq(SUBSET X), NEW twice,
         OnceBut(p, twice), OnceBut(q, twice),
         (UNION ToSet(p)) \cap (UNION ToSet(q)) \subseteq twice
  PROVE  OnceBut(p \o q, twice)
<1> DEFINE m == Len(p)
           l == Len(q)
           all == p \o q
<1>1. /\ m \in Nat /\ l \in Nat /\ DOMAIN p = 1 .. m /\ DOMAIN q = 1 .. l
      /\ all \in Seq(SUBSET X) /\ Len(all) = m + l
      /\ \A i \in 1 .. m + l : all[i] = IF i <= m THEN p[i] ELSE q[i - m]
  BY ConcatProperties, LenProperties
<1>2. DOMAIN all = 1 .. m + l
  BY <1>1, LenProperties
<1> HIDE DEF m, l, all
<1>3. ASSUME NEW i \in 1 .. m + l
      PROVE  \/ i \in DOMAIN p /\ all[i] = p[i] /\ p[i] \in ToSet(p)
             \/ i - m \in DOMAIN q /\ all[i] = q[i - m] /\ q[i - m] \in ToSet(q)
  <2>1. CASE i <= m
    <3>1. i \in 1 .. m
      BY <1>1, <2>1
    <3> QED BY <1>1, <2>1, <3>1 DEF ToSet
  <2>2. CASE ~ i <= m
    <3>1. i - m \in 1 .. l
      BY <1>1, <2>2
    <3> QED BY <1>1, <2>2, <3>1 DEF ToSet
  <2> QED BY <2>1, <2>2
<1>4. ASSUME NEW i \in 1 .. m + l, NEW j \in 1 .. m + l, i # j PROVE all[i] \cap all[j] \subseteq twice
  <2>1. CASE i \in DOMAIN p /\ all[i] = p[i] /\ j \in DOMAIN p /\ all[j] = p[j]
    BY <1>4, <2>1 DEF OnceBut
  <2>2. CASE i - m \in DOMAIN q /\ all[i] = q[i - m] /\ j - m \in DOMAIN q /\ all[j] = q[j - m]
    <3>1. i - m # j - m
      BY <1>1, <1>4
    <3> QED BY <2>2, <3>1 DEF OnceBut
  <2>3. CASE all[i] \in ToSet(p) /\ all[j] \in ToSet(q)
    BY <2>3
  <2>4. CASE all[i] \in ToSet(q) /\ all[j] \in ToSet(p)
    BY <2>4
  <2> QED BY <1>3, <1>4, <2>1, <2>2, <2>3, <2>4
<1> QED BY <1>2, <1>4 DEF OnceBut, all

(* Leaving out the empty ones, nothing is named more often.                *)
LEMMA UsableOnce ==
  ASSUME NEW named \in Seq(SUBSET Group), NEW twice, OnceBut(named, twice)
  PROVE  OnceBut(Omitting(named, {{}}), twice)
<1> DEFINE P == {i \in DOMAIN named : named[i] \notin {{}}}
           u == Picked(named, P)
           c == Cardinality(P)
<1>1. P \in SUBSET (1 .. Len(named)) /\ DOMAIN named = 1 .. Len(named)
  BY LenProperties
<1>2. Omitting(named, {{}}) = u
  BY DEF Omitting
<1>3. DOMAIN u = 1 .. c
  BY DEF Picked
<1> HIDE DEF P
<1>4. \A k \in 1 .. c : Nth(P, k) \in P /\ Rank(P, Nth(P, k)) = k /\ u[k] = named[Nth(P, k)]
  BY <1>1, PickedFacts
<1> HIDE DEF u, c
<1>5. ASSUME NEW j \in 1 .. c, NEW k \in 1 .. c, j # k PROVE u[j] \cap u[k] \subseteq twice
  <2>1. Nth(P, j) # Nth(P, k)
    BY <1>4, <1>5
  <2>2. Nth(P, j) \in DOMAIN named /\ Nth(P, k) \in DOMAIN named
    BY <1>1, <1>4
  <2> QED BY <1>4, <2>1, <2>2 DEF OnceBut
<1> QED BY <1>2, <1>3, <1>5 DEF OnceBut

(* parseNarration(): whatever the answer, the group is heard whole, and    *)
(* once but for what the answer names twice.                               *)
LEMMA AnswerWhole ==
  ASSUME narration \in Narration, NEW answer \in Answers
  PROVE  Whole(ParseNarration(answer), NamedTwice(answer))
<1> DEFINE named == [i \in DOMAIN answer |-> answer[i] \ {0}]
           usable == Omitting(named, {{}})
           rest == Verbatim(Group \ UNION {usable[i] : i \in DOMAIN usable})
<1>1. PICK n \in 0 .. MaxNarrated : answer \in [1 .. n -> SUBSET (Group \cup {0}) \ {{}}]
  BY DEF Answers
<1>2. named \in Seq(SUBSET Group)
  <2>1. n \in Nat /\ DOMAIN answer = 1 .. n
    BY <1>1, ReadingAssumption
  <2>2. named \in [1 .. n -> SUBSET Group]
    BY <1>1, <2>1
  <2> QED BY <2>1, <2>2
<1>8. OnceBut(named, NamedTwice(answer)) /\ NamedTwice(answer) \in SUBSET Group
  <2>1. ASSUME NEW j \in DOMAIN answer, NEW k \in DOMAIN answer, j # k,
               NEW i \in named[j] \cap named[k]
        PROVE  i \in NamedTwice(answer)
    <3>1. answer[j] \subseteq Group \cup {0} /\ i \in answer[j] /\ i \in answer[k] /\ i # 0
      BY <1>1, <2>1
    <3> QED BY <2>1, <3>1 DEF NamedTwice
  <2>2. DOMAIN named = DOMAIN answer
    OBVIOUS
  <2> HIDE DEF named
  <2> QED BY <2>1, <2>2 DEF OnceBut, NamedTwice
<1> HIDE DEF named
<1>9. OnceBut(usable, NamedTwice(answer))
  BY <1>2, <1>8, UsableOnce
<1>3. usable \in Seq(SUBSET Group) /\ ToSet(usable) = ToSet(named) \ {{}}
  BY <1>2, OmittingFacts
<1> HIDE DEF usable
<1>4. UNION ToSet(usable) \subseteq Group
  BY <1>2, <1>3, ToSetFacts
<1>5. /\ rest \in Seq(SUBSET Group) /\ {} \notin ToSet(rest)
      /\ UNION ToSet(rest) = Group \ UNION ToSet(usable) /\ OnceBut(rest, {})
  <2>1. UNION {usable[i] : i \in DOMAIN usable} = UNION ToSet(usable)
    BY <1>3, UnionOf
  <2>2. Group \ UNION ToSet(usable) \in SUBSET Group
    OBVIOUS
  <2> QED BY <2>1, <2>2, VerbatimFacts
<1> HIDE DEF rest
<1>6. ParseNarration(answer) = usable \o rest
  BY DEF ParseNarration, usable, rest, named
<1>7. usable \o rest \in Seq(SUBSET Group) /\ ToSet(usable \o rest) = ToSet(usable) \cup ToSet(rest)
  BY <1>3, <1>5, ToSetConcat, ConcatProperties
<1>10. OnceBut(usable \o rest, NamedTwice(answer))
  <2>1. (UNION ToSet(usable)) \cap (UNION ToSet(rest)) \subseteq NamedTwice(answer)
    BY <1>5
  <2>2. OnceBut(rest, NamedTwice(answer))
    BY <1>5 DEF OnceBut
  <2> QED BY <1>3, <1>5, <1>9, <2>1, <2>2, OnceConcat
<1> QED BY <1>3, <1>4, <1>5, <1>6, <1>7, <1>8, <1>10 DEF Whole

(* A group heard whole keeps the narration whole.                          *)
LEMMA HeardKeeps ==
  ASSUME NarratedSoFar, Asked, NEW new, NEW twice, Whole(new, twice), Heard(new, twice)
  PROVE  NarratedSoFar' /\ narration'.at \in {"read", "asked"}
<1> DEFINE X == SUBSET (Nat \ {0})
           heard == narration.heard
           again == narration.again
           c == narration.count
           t == narration.turn
           at == IF (t + 1) * GroupSize >= c THEN "read" ELSE "asked"
           all == heard \o new
           m == Len(heard)
           l == Len(new)
           groupOf(s) == {(i - 1) \div GroupSize : i \in s}
<1>1. narration \in Narration /\ c \in Nat /\ t \in Nat /\ heard \in Seq(X) /\ again \in X
  BY DEF NarratedSoFar, Narration
<1>2. /\ UNION {heard[k] : k \in DOMAIN heard} = {i \in 1 .. c : (i - 1) \div GroupSize < t}
      /\ \A k \in DOMAIN heard : Cardinality(groupOf(heard[k])) = 1
      /\ \A j, k \in DOMAIN heard : j < k => \A a \in groupOf(heard[j]), b \in groupOf(heard[k]) : a <= b
      /\ OnceBut(heard, again)
  BY DEF NarratedSoFar, NarrationIsWhole, OnceBut
<1>3. /\ new \in Seq(SUBSET Group) /\ {} \notin ToSet(new) /\ UNION ToSet(new) = Group
      /\ twice \in SUBSET Group /\ OnceBut(new, twice)
  BY DEF Whole
<1>4. /\ Group \subseteq Nat \ {0}
      /\ \A i \in Nat \ {0} : Turn(i) \in Nat /\ (i \in Group <=> i \in 1 .. c /\ Turn(i) = t)
  BY <1>1, GroupFacts
<1>5. narration' = [narration EXCEPT !.heard = all, !.again = again \cup twice,
                                     !.turn = t + 1, !.at = at]
  BY DEF Heard
<1> HIDE DEF heard, again, c, t
<1>6. new \in Seq(X)
  <2>1. SUBSET Group \subseteq X
    BY <1>4
  <2> QED BY <1>3, <2>1, SeqMonotonic
<1> HIDE DEF X
<1>7. /\ all \in Seq(X) /\ ToSet(all) = ToSet(heard) \cup ToSet(new) /\ Len(all) = m + l
      /\ \A i \in 1 .. m + l : all[i] = IF i <= m THEN heard[i] ELSE new[i - m]
      /\ m \in Nat /\ l \in Nat /\ DOMAIN heard = 1 .. m /\ DOMAIN new = 1 .. l
  BY <1>1, <1>6, ToSetConcat, ConcatProperties, LenProperties
<1>8. DOMAIN all = 1 .. m + l
  BY <1>7, LenProperties
<1> HIDE DEF all, m, l, at, groupOf
<1>9. /\ narration' \in Narration /\ narration'.at = at /\ narration'.count = c
      /\ narration'.turn = t + 1 /\ narration'.heard = all /\ at \in {"read", "asked"}
      /\ narration'.again = again \cup twice
  <2>1. /\ at \in {"read", "asked"} /\ t + 1 \in Nat /\ all \in Seq(SUBSET (Nat \ {0}))
        /\ again \cup twice \in SUBSET (Nat \ {0})
    BY <1>1, <1>3, <1>4, <1>7 DEF at, X
  <2> DEFINE r == narration
             u == t + 1
             w == again \cup twice
           s == [r EXCEPT !.heard = all, !.again = w, !.turn = u, !.at = at]
  <2>2. narration' = s /\ r \in Narration /\ u \in Nat /\ c = r.count
    BY <1>1, <1>5, <2>1 DEF c
  <2>4. w \in SUBSET (Nat \ {0})
    BY <2>1
  <2> HIDE DEF r, u, w
  <2>3. s \in Narration /\ s.at = at /\ s.count = r.count /\ s.turn = u /\ s.heard = all /\ s.again = w
    <3> HIDE DEF at, all
    <3>1. u \in Nat /\ r \in Narration /\ at \in {"read", "asked"} /\ all \in Seq(SUBSET (Nat \ {0}))
          /\ w \in SUBSET (Nat \ {0})
      BY <2>1, <2>2, <2>4
    <3> QED BY <3>1 DEF Narration
  <2> HIDE DEF s
  <2> QED BY <2>1, <2>2, <2>3 DEF u, w
<1>10. ASSUME NEW i \in Nat \ {0} PROVE (i - 1) \div GroupSize = Turn(i)
  BY DEF Turn
<1>11. ASSUME NEW k \in 1 .. m
       PROVE  heard[k] \in X /\ \A i \in heard[k] : i \in Nat \ {0} /\ i \in 1 .. c /\ Turn(i) < t
  <2>1. heard[k] \in X
    BY <1>1, <1>7, ElementOfSeq
  <2>2. ASSUME NEW i \in heard[k] PROVE i \in Nat \ {0} /\ i \in 1 .. c /\ Turn(i) < t
    <3>1. i \in UNION {heard[j] : j \in DOMAIN heard}
      BY <1>7
    <3>2. i \in 1 .. c /\ (i - 1) \div GroupSize < t
      BY <1>2, <3>1
    <3>3. i \in Nat \ {0}
      BY <2>1 DEF X
    <3> QED BY <1>10, <3>2, <3>3
  <2> QED BY <2>1, <2>2
<1>12. ASSUME NEW k \in 1 .. l
       PROVE  groupOf(new[k]) = {t}
  <2>1. new[k] \in ToSet(new)
    BY <1>7 DEF ToSet
  <2>2. new[k] \subseteq Group /\ new[k] # {}
    BY <1>3, <1>7, <2>1, ElementOfSeq
  <2>3. \A i \in new[k] : (i - 1) \div GroupSize = t
    BY <1>4, <1>10, <2>2
  <2>4. PICK i \in new[k] : TRUE
    BY <2>2
  <2> QED BY <2>3, <2>4 DEF groupOf
<1>13. UNION {all[k] : k \in DOMAIN all} = {i \in 1 .. c : (i - 1) \div GroupSize < t + 1}
  <2>1. UNION {all[k] : k \in DOMAIN all} = (UNION ToSet(heard)) \cup (UNION ToSet(new))
    <3>1. UNION {all[k] : k \in DOMAIN all} = UNION ToSet(all)
      BY <1>7, UnionOf
    <3> QED BY <1>7, <3>1
  <2>2. UNION ToSet(heard) = {i \in 1 .. c : (i - 1) \div GroupSize < t}
    BY <1>1, <1>2, UnionOf
  <2>3. ASSUME NEW i \in 1 .. c
        PROVE  (i - 1) \div GroupSize < t + 1 <=> (i \in Group \/ (i - 1) \div GroupSize < t)
    <3>1. i \in Nat \ {0}
      BY <1>1
    <3>2. Turn(i) \in Nat /\ (i \in Group <=> Turn(i) = t)
      BY <1>4, <3>1
    <3>3. Turn(i) < t + 1 <=> (Turn(i) = t \/ Turn(i) < t)
      <4> DEFINE q == Turn(i)
      <4> HIDE DEF q
      <4>1. q \in Nat
        BY <3>2 DEF q
      <4>2. q < t + 1 <=> (q = t \/ q < t)
        BY <1>1, <4>1
      <4> QED BY <4>2 DEF q
    <3> QED BY <1>10, <3>1, <3>2, <3>3
  <2>4. Group \subseteq 1 .. c
    BY <1>4
  <2> QED BY <1>3, <2>1, <2>2, <2>3, <2>4
<1>14. ASSUME NEW k \in 1 .. m + l
       PROVE  \/ k \in 1 .. m /\ all[k] = heard[k]
              \/ m < k /\ groupOf(all[k]) = {t}
  <2>1. CASE k <= m
    <3>1. k \in 1 .. m
      BY <1>7, <2>1
    <3> QED BY <1>7, <2>1, <3>1
  <2>2. CASE ~ k <= m
    <3>1. k - m \in 1 .. l /\ m < k /\ all[k] = new[k - m]
      BY <1>7, <2>2
    <3> QED BY <1>12, <3>1
  <2> QED BY <2>1, <2>2
<1>15. \A k \in 1 .. m + l : Cardinality(groupOf(all[k])) = 1
  <2> SUFFICES ASSUME NEW k \in 1 .. m + l PROVE Cardinality(groupOf(all[k])) = 1
    OBVIOUS
  <2>1. CASE k \in 1 .. m /\ all[k] = heard[k]
    <3>1. \A j \in DOMAIN heard : Cardinality(groupOf(heard[j])) = 1
      BY <1>2 DEF groupOf
    <3> QED BY <1>7, <2>1, <3>1
  <2>2. CASE groupOf(all[k]) = {t}
    BY <2>2, FS_Singleton
  <2> QED BY <1>14, <2>1, <2>2
<1>16. ASSUME NEW j \in 1 .. m + l, NEW k \in 1 .. m + l, j < k,
              NEW a \in groupOf(all[j]), NEW b \in groupOf(all[k])
       PROVE  a <= b
  <2>1. CASE k \in 1 .. m /\ all[k] = heard[k]
    <3>1. j \in 1 .. m /\ all[j] = heard[j]
      BY <1>7, <1>14, <1>16, <2>1
    <3>2. \A x, y \in DOMAIN heard : x < y => \A u \in groupOf(heard[x]), v \in groupOf(heard[y]) : u <= v
      BY <1>2 DEF groupOf
    <3> QED BY <1>7, <1>16, <2>1, <3>1, <3>2
  <2>2. CASE groupOf(all[k]) = {t} /\ j \in 1 .. m /\ all[j] = heard[j]
    <3>1. PICK i \in heard[j] : a = (i - 1) \div GroupSize
      BY <2>2 DEF groupOf
    <3>2. i \in Nat \ {0} /\ Turn(i) < t /\ a = Turn(i)
      BY <1>10, <1>11, <2>2, <3>1
    <3>3. a \in Nat /\ b = t
      BY <1>4, <2>2, <3>2
    <3> QED BY <1>1, <3>2, <3>3
  <2>3. CASE groupOf(all[k]) = {t} /\ groupOf(all[j]) = {t}
    BY <1>1, <2>3
  <2> QED BY <1>14, <2>1, <2>2, <2>3
<1>18. OnceBut(all, again \cup twice)
  <2>1. OnceBut(heard, again \cup twice) /\ OnceBut(new, again \cup twice)
    BY <1>2, <1>3 DEF OnceBut
  <2>2. ASSUME NEW i \in UNION ToSet(heard), i \in Group PROVE FALSE
    <3>1. PICK k \in 1 .. m : i \in heard[k]
      BY <1>7, <2>2 DEF ToSet
    <3>2. i \in Nat \ {0} /\ Turn(i) < t
      BY <1>11, <3>1
    <3> QED BY <1>1, <1>4, <2>2, <3>2
  <2>3. heard \in Seq(SUBSET (Nat \ {0})) /\ new \in Seq(SUBSET (Nat \ {0}))
    BY <1>1, <1>6 DEF X
  <2>4. (UNION ToSet(heard)) \cap (UNION ToSet(new)) \subseteq again \cup twice
    BY <1>3, <2>2
  <2> QED BY <2>1, <2>3, <2>4, OnceConcat DEF all
<1>17. NarrationIsWhole'
  BY <1>8, <1>9, <1>13, <1>15, <1>16, <1>18 DEF NarrationIsWhole, OnceBut, groupOf
<1> QED BY <1>9, <1>17 DEF NarratedSoFar

(* Nothing is heard before the first group.                                *)
LEMMA NothingHeard ==
  ASSUME NEW c \in Nat
  PROVE  {i \in 1 .. c : (i - 1) \div GroupSize < 0} = {}
<1> SUFFICES ASSUME NEW i \in 1 .. c, (i - 1) \div GroupSize < 0 PROVE FALSE
  OBVIOUS
<1>1. i - 1 \in Nat /\ GroupSize \in Nat \ {0}
  BY ReadingAssumption
<1> DEFINE a == i - 1
<1> HIDE DEF a
<1>2. a \in Nat /\ a \div GroupSize < 0
  BY <1>1 DEF a
<1>3. a \div GroupSize \in Nat
  BY <1>1, <1>2
<1> QED BY <1>2, <1>3

(* The invariant of the reading.                                           *)
ReadingInv == SegmentsInv /\ NarratedSoFar

(* Reading: at every moment the segments hold every sentence cut so far,   *)
(* in order, and what is heard is every group so far.                      *)
THEOREM ReadingInvariant == ReadingSpec => []ReadingInv
<1>1. ReadingInit => ReadingInv
  <2> SUFFICES ASSUME ReadingInit PROVE ReadingInv
    OBVIOUS
  <2>1. SegmentsInv
    BY SegmentsInit
  <2>2. narration = [at |-> "cut", count |-> 0, turn |-> 0, heard |-> << >>, again |-> {}]
    BY DEF ReadingInit
  <2>3. narration \in Narration
    <3>1. << >> \in Seq(SUBSET (Nat \ {0}))
      BY EmptySeq
    <3> QED BY <2>2, <3>1 DEF Narration
  <2>4. NarrationIsWhole
    <3>1. {i \in 1 .. 0 : (i - 1) \div GroupSize < 0} = {}
      BY NothingHeard
    <3> QED BY <2>2, <3>1 DEF NarrationIsWhole
  <2> QED BY <2>1, <2>2, <2>3, <2>4 DEF ReadingInv, NarratedSoFar
<1>2. ReadingInv /\ [ReadingNext]_readingVars => ReadingInv'
  <2> SUFFICES ASSUME ReadingInv, [ReadingNext]_readingVars PROVE ReadingInv'
    OBVIOUS
  <2>0. SegmentsInv /\ NarratedSoFar /\ narration \in Narration
    BY DEF ReadingInv, NarratedSoFar
  <2>1. CASE CutBlock
    <3>1. SegmentsInv'
      BY <2>0, <2>1, CutKeeps
    <3>2. narration' = narration
      BY <2>1 DEF CutBlock
    <3> QED BY <2>0, <3>1, <3>2 DEF ReadingInv, NarratedSoFar, NarrationIsWhole
  <2>2. CASE Select
    <3>1. SegmentsInv'
      BY <2>0, <2>2, SelectKeeps
    <3>2. narration' = [narration EXCEPT !.at = "selected"] /\ narration.at = "cut"
      BY <2>2 DEF Select
    <3>3. /\ narration' \in Narration /\ narration'.count = narration.count
          /\ narration'.turn = narration.turn /\ narration'.heard = narration.heard
          /\ narration'.again = narration.again
      BY <2>0, <3>2 DEF Narration
    <3> QED BY <2>0, <3>1, <3>2, <3>3 DEF ReadingInv, NarratedSoFar, NarrationIsWhole
  <2>3. CASE HandOver
    <3>1. SegmentsInv'
      BY <2>0, <2>3, HandOverKeepsSegments
    <3> DEFINE at == IF segments = << >> THEN "read" ELSE "asked"
               c == Len(segments)
    <3>2. narration' = [narration EXCEPT !.count = c, !.at = at] /\ narration.at = "selected"
      BY <2>3 DEF HandOver
    <3>3. c \in Nat
      BY <2>0, LenProperties DEF SegmentsInv, SegmentsFit
    <3> HIDE DEF c
    <3>4. at \in {"read", "asked"}
      OBVIOUS
    <3> HIDE DEF at
    <3>5. /\ narration' \in Narration /\ narration'.count = c /\ narration'.at = at
          /\ narration'.turn = narration.turn /\ narration'.heard = narration.heard
          /\ narration'.again = narration.again
      BY <2>0, <3>2, <3>3, <3>4 DEF Narration
    <3>6. narration.turn = 0 /\ narration.heard = << >> /\ narration.again = {}
      BY <2>0, <3>2 DEF NarratedSoFar
    <3>7. NarrationIsWhole'
      <4>1. {i \in 1 .. c : (i - 1) \div GroupSize < 0} = {}
        BY <3>3, NothingHeard
      <4> QED BY <3>5, <3>6, <4>1 DEF NarrationIsWhole
    <3> QED BY <3>1, <3>4, <3>5, <3>7 DEF ReadingInv, NarratedSoFar
  <2>4. CASE SchemaRefused
    <3>1. narration.at = "asked" /\ narration' = [narration EXCEPT !.at = "askedAgain"]
          /\ UNCHANGED << doc, policy, selection, cut, segments >>
      BY <2>4 DEF SchemaRefused
    <3>2. /\ narration' \in Narration /\ narration'.count = narration.count
          /\ narration'.turn = narration.turn /\ narration'.heard = narration.heard
          /\ narration'.again = narration.again
          /\ narration'.at = "askedAgain"
      BY <2>0, <3>1 DEF Narration
    <3>3. SegmentsInv'
      BY <2>0, <3>1, <3>2, RestKeepsSegments
    <3> QED BY <2>0, <3>2, <3>3 DEF ReadingInv, NarratedSoFar, NarrationIsWhole
  <2>5. ASSUME NEW new, NEW twice, Asked, Whole(new, twice), Heard(new, twice) PROVE ReadingInv'
    <3>1. NarratedSoFar' /\ narration'.at \in {"read", "asked"}
      BY <2>0, <2>5, HeardKeeps
    <3>2. SegmentsInv'
      <4>1. UNCHANGED << doc, policy, selection, cut, segments >>
        BY <2>5 DEF Heard
      <4> QED BY <2>0, <3>1, <4>1, RestKeepsSegments
    <3> QED BY <3>1, <3>2 DEF ReadingInv
  <2>6. CASE Degraded
    <3>1. Whole(Verbatim(Group), {})
      BY <2>0, VerbatimFacts DEF Whole
    <3> QED BY <2>5, <2>6, <3>1 DEF Degraded
  <2>7. ASSUME Asked, NEW a \in Answers, Narrated(a) PROVE ReadingInv'
    <3>1. Whole(ParseNarration(a), NamedTwice(a))
      BY <2>0, AnswerWhole
    <3> QED BY <2>5, <2>7, <3>1 DEF Narrated
  <2>8. CASE UNCHANGED readingVars
    <3>1. UNCHANGED << doc, policy, selection, cut, segments >> /\ narration' = narration
      BY <2>8 DEF readingVars
    <3>2. SegmentsInv'
      BY <2>0, <3>1, RestKeepsSegments
    <3> QED BY <2>0, <3>1, <3>2 DEF ReadingInv, NarratedSoFar, NarrationIsWhole
  <2> QED BY <2>1, <2>2, <2>3, <2>4, <2>6, <2>7, <2>8 DEF ReadingNext
<1> QED BY <1>1, <1>2, PTL DEF ReadingSpec

(* The variables of the reading have their types, and the ranges of the    *)
(* segments lie in the document.                                           *)
THEOREM ReadingTypes == ReadingSpec => []ReadingTypeOK
<1>1. ReadingInv => ReadingTypeOK
  <2> SUFFICES ASSUME ReadingInv PROVE ReadingTypeOK
    OBVIOUS
  <2>1. /\ doc \in Seq(Block) /\ policy \in Policies /\ cut \in 0 .. Len(doc)
        /\ segments \in Seq(SegType) /\ \A i \in DOMAIN segments : segments[i].block \in 1 .. cut
        /\ narration \in Narration
    BY DEF ReadingInv, SegmentsInv, TextKept, SegmentsFit, NarratedSoFar
  <2>2. Len(doc) \in Nat /\ DOMAIN doc = 1 .. Len(doc) /\ DOMAIN segments = 1 .. Len(segments)
    BY <2>1, LenProperties
  <2>3. ASSUME NEW n \in DOMAIN doc PROVE doc[n].raw \in Seq(Tokens)
    <3>1. doc[n] \in Block
      BY <2>1, <2>2, ElementOfSeq
    <3> QED BY <3>1 DEF Block
  <2>4. ASSUME NEW k \in DOMAIN segments
        PROVE  /\ segments[k].block \in DOMAIN doc /\ segments[k].from \in Nat
               /\ segments[k].to \in Nat /\ segments[k].range \in Nat \X Nat
    <3>1. segments[k] \in SegType
      BY <2>1, <2>2, ElementOfSeq
    <3>2. segments[k].block \in 1 .. cut
      BY <2>1
    <3>3. segments[k].block \in 1 .. Len(doc)
      BY <2>1, <2>2, <3>2
    <3> QED BY <2>2, <3>1, <3>3 DEF SegType
  <2> QED BY <2>1, <2>3, <2>4 DEF ReadingTypeOK
<1> QED BY <1>1, ReadingInvariant, PTL

(* From the blocks of a text to what is heard, nothing is skipped and      *)
(* nothing is heard out of its turn (Segmenter.ts, buildSegments,          *)
(* parseNarration.ts).                                                     *)
THEOREM ReadsEverything == ReadingSpec => []NothingSkipped
<1>1. ReadingInv => NothingSkipped
  BY SegmentsRead DEF ReadingInv, NarratedSoFar, NothingSkipped
<1> QED BY <1>1, ReadingInvariant, PTL
=============================================================================
