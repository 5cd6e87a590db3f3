------------------------------ MODULE Chunker ------------------------------
(***************************************************************************)
(* RecursiveCharacterChunker (ragpipe/chunking/chunker.py): a text is      *)
(* split at the separators, coarse ones first, until every piece fits, and *)
(* the pieces are merged into chunks that repeat the end of the one before. *)
(*                                                                         *)
(* A character is one of a few kinds.  Letters are numbered in text order, *)
(* which tells where in the text the letters of a chunk come from.  Line   *)
(* ends are normalized already.  The recursion of _split is written level  *)
(* by level: a separator that a text lacks is in none of its parts, and    *)
(* splitting them leaves them alone.                                       *)
(***************************************************************************)
EXTENDS Integers, SequencesExt

CONSTANTS MaxLength,  \* bound: characters of the text
          MaxSize     \* bound: chunk_size

ASSUME BoundsAreNat == MaxLength \in Nat /\ MaxSize \in Nat

Space == 0
Newline == -1
Dot == -2
Tab == -3  \* white space that is no separator

Blanks == {Space, Newline, Tab}
Characters == Blanks \cup {Dot} \cup 1 .. MaxLength

(* ("\n\n", "\n", ". ", " ", ""); the last one stands for windows.         *)
Separators == << <<Newline, Newline>>, <<Newline>>, <<Dot, Space>>, <<Space>> >>

VARIABLES
  text,        \* the text of the document, stripped
  chunk_size,  \* arguments of the constructor
  overlap,
  pieces,      \* what _split returned
  next,        \* the piece the loop has come to
  current,     \* the chunk being built
  merged       \* the chunks

ChunkerVars == <<text, chunk_size, overlap, pieces, next, current, merged>>

Smaller(m, n) == IF m <= n THEN m ELSE n
Larger(m, n) == IF m >= n THEN m ELSE n

Strip(s) ==
  LET solid == {i \in DOMAIN s : s[i] \notin Blanks}
  IN  IF solid = {} THEN <<>> ELSE SubSeq(s, Min(solid), Max(solid))

(* Positions that belong to an occurrence of the separator.                *)
Covered(s, separator) ==
  {i \in DOMAIN s : \E start \in i - Len(separator) + 1 .. i :
     /\ start >= 1 /\ start + Len(separator) - 1 <= Len(s)
     /\ SubSeq(s, start, start + Len(separator) - 1) = separator}

(* The i-th character ends the last part or continues it.                  *)
Continue(s, covered, parts, i) ==
  IF i \in covered THEN Append(parts, <<>>)
  ELSE [parts EXCEPT ![Len(parts)] = Append(@, s[i])]

(* text.split(separator), with an empty part for each further character of *)
(* a separator: empty parts are left out in the end.                       *)
Between(s, separator) ==
  LET covered == Covered(s, separator)
      Add(parts, i) == Continue(s, covered, parts, i)
  IN  FoldLeftDomain(Add, << <<>> >>, s)

Keep(kept, part) ==
  IF Strip(part) = <<>> THEN kept ELSE Append(kept, Strip(part))

(* Each part stripped, without the empty ones.                             *)
Cut(s, separator) == FoldLeft(Keep, <<>>, Between(s, separator))

(* Mutant of WindowStep: adjacent windows leave a gap.                     *)
WindowStepGap(size, shared) == size + shared

WindowStep(size, shared) == size - shared

(* No separator is left: windows that share characters.                    *)
Windows(s, size, shared) ==
  IF Len(s) <= size THEN <<s>>
  ELSE LET step == WindowStep(size, shared)
           count == (Len(s) + step - 1) \div step
       IN  [k \in 1 .. count |->
              SubSeq(s, (k - 1) * step + 1, Smaller((k - 1) * step + size, Len(s)))]

(* The parts that are too long are cut at the next separator.              *)
CutLong(parts, separator, size) ==
  FlattenSeq([i \in DOMAIN parts |->
    IF Len(parts[i]) <= size THEN <<parts[i]>> ELSE Cut(parts[i], separator)])

(* Parts that fit or hold no separator.                                    *)
Parts(s, size) ==
  FoldLeft(LAMBDA parts, separator : CutLong(parts, separator, size),
           <<s>>, Separators)

Split(s, size, shared) ==
  LET parts == Parts(s, size)
  IN  FlattenSeq([i \in DOMAIN parts |-> Windows(parts[i], size, shared)])

-----------------------------------------------------------------------------
(* Texts: the i-th letter is the number i. *)
NumberLetters(kinds) ==
  [i \in DOMAIN kinds |->
     IF kinds[i] # 1 THEN kinds[i]
     ELSE Cardinality({j \in 1 .. i : kinds[j] = 1})]

Texts ==
  {NumberLetters(Strip(kinds)) :
     kinds \in UNION {[1 .. n -> Blanks \cup {Dot, 1}] : n \in 0 .. MaxLength}}

ChunkerInit ==
  /\ text \in Texts
  /\ chunk_size \in 1 .. MaxSize
  /\ overlap \in 0 .. chunk_size - 1
  /\ pieces = IF text = <<>> THEN <<>> ELSE Split(text, chunk_size, overlap)
  /\ next = 1
  /\ current = <<>>
  /\ merged = <<>>

Candidate(piece) ==
  IF current = <<>> THEN piece ELSE Strip(current \o <<Space>> \o piece)

LastOf(s, n) == SubSeq(s, Larger(1, Len(s) - n + 1), Len(s))

(* Mutant of Prefix: current[-0:], which is all of it. *)
PrefixUnguarded == IF overlap = 0 THEN current ELSE LastOf(current, overlap)

(* The end of the chunk that has been closed. *)
Prefix == LastOf(current, overlap)

(* One turn of the loop over the pieces. *)
AddPiece ==
  LET piece == pieces[next]
      candidate == Candidate(piece)
  IN  /\ next <= Len(pieces)
      /\ next' = next + 1
      /\ IF Len(candidate) <= chunk_size
         THEN current' = candidate /\ UNCHANGED merged
         ELSE IF current # <<>>
         THEN /\ merged' = Append(merged, current)
              /\ current' = Strip(Prefix \o <<Space>> \o piece)
         ELSE /\ merged' = Append(merged, SubSeq(piece, 1, chunk_size))
              /\ current' = SubSeq(piece, chunk_size - overlap + 1, Len(piece))
      /\ UNCHANGED <<text, chunk_size, overlap, pieces>>

(* After the loop. *)
AppendLast ==
  /\ next = Len(pieces) + 1
  /\ next' = next + 1
  /\ merged' = IF current = <<>> THEN merged ELSE Append(merged, current)
  /\ UNCHANGED <<text, chunk_size, overlap, pieces, current>>

Done == next = Len(pieces) + 2

ChunkerNext == AddPiece \/ AppendLast \/ (Done /\ UNCHANGED ChunkerVars)

ChunkerSpec == ChunkerInit /\ [][ChunkerNext]_ChunkerVars

-----------------------------------------------------------------------------
(* The variables have their types; a chunk is never empty.                 *)
ChunkerTypeOK ==
  /\ text \in Seq(Characters)
  /\ chunk_size \in 1 .. MaxSize /\ overlap \in 0 .. chunk_size - 1
  /\ pieces \in Seq(Seq(Characters))
  /\ next \in 1 .. Len(pieces) + 2
  /\ current \in Seq(Characters)
  /\ merged \in Seq(Seq(Characters) \ {<<>>})

(* After _split no piece is longer than chunk_size, so the branch of the   *)
(* loop that cuts a piece (chunker.py:41-43) is never taken.               *)
PiecesFit == \A i \in DOMAIN pieces : Len(pieces[i]) \in 1 .. chunk_size

Letters(s) == {c \in ToSet(s) : c > 0}

(* Nothing is lost or put out of order: read one after the other, the      *)
(* chunks show every letter of the text, and each letter for the first     *)
(* time after the one before it, whatever is repeated in between.          *)
TextIsCovered ==
  Done =>
    LET shown == FlattenSeq(merged)
    IN  /\ Letters(shown) = Letters(text)
        /\ \A i \in DOMAIN shown :
             shown[i] > 1 => \E j \in 1 .. i - 1 : shown[j] >= shown[i] - 1

(* No chunk is only white space: it would be embedded and found.           *)
NoBlankChunk == \A i \in DOMAIN merged : Strip(merged[i]) # <<>>

(* A chunk is at most a prefix, a space and a piece; without overlap it is *)
(* within chunk_size.                                                      *)
LengthBound ==
  \A i \in DOMAIN merged :
    Len(merged[i]) <= IF overlap = 0 THEN chunk_size
                      ELSE chunk_size + overlap + 1

(* The state invariant: types, pieces that fit, no blank and no overlong   *)
(* chunk.                                                                  *)
ChunkerInv == ChunkerTypeOK /\ PiecesFit /\ NoBlankChunk /\ LengthBound
=============================================================================
