---------------------------- MODULE ChunksProofs ----------------------------
(***************************************************************************)
(* Proofs about the way of a document's text to its vectors: Chunker first, *)
(* then EmbeddingBatches.                                                  *)
(*                                                                         *)
(* Chunker, for every text, chunk_size and overlap.  Letters are numbered  *)
(* in text order.  Shows(q, n, m) says that whoever has seen the letters   *)
(* up to n and reads q sees those up to m, each for the first time after   *)
(* the one before it.  The text shows all its letters, and every operation *)
(* on strings shows what its argument does: strip(), the cut at a          *)
(* separator, windows that overlap, joining with a repeated end.  The      *)
(* inductive invariant says that the chunks and the one being built have   *)
(* shown what the pieces read so far have.                                 *)
(*                                                                         *)
(* EmbeddingBatches, for every list of documents and every batch size.     *)
(* The chunks of a run have an order: those of the first document, then    *)
(* those of the second, and so on.  The inductive invariant says that the  *)
(* chunks embedded so far are the first ones of that order, that those     *)
(* waiting in the batch are the next ones, and that the documents stored   *)
(* are the first ones that have all their vectors.                         *)
(***************************************************************************)
EXTENDS Chunker, EmbeddingBatches, SumTheorems

-----------------------------------------------------------------------------
(* Characters and white space.                                             *)

LEMMA CharactersAreNumbers ==
  /\ Characters \subseteq Int
  /\ Blanks \subseteq Characters
  /\ Space \in Blanks
  /\ \A c \in Blanks : c <= 0
BY BoundsAreNat DEF Characters, Blanks, Space, Newline, Dot, Tab

Strings == Seq(Characters)

LEMMA StringOfCharacters ==
  ASSUME NEW s \in Strings
  PROVE  /\ Len(s) \in Nat /\ DOMAIN s = 1 .. Len(s)
         /\ \A i \in 1 .. Len(s) : s[i] \in Characters
         /\ \A i \in 1 .. Len(s) : s[i] \in Int
         /\ \A i \in 1 .. Len(s) : s[i] \in Blanks => s[i] <= 0
<1>1. Len(s) \in Nat /\ DOMAIN s = 1 .. Len(s) /\ \A i \in 1 .. Len(s) : s[i] \in Characters
  BY DEF Strings
<1> QED
  BY <1>1, CharactersAreNumbers

(* The string has a character that is not white space.                     *)
IsSolid(s) == \E i \in DOMAIN s : s[i] \notin Blanks

(* ... at its beginning, and at its end.                                   *)
BeginsSolid(s) == s # <<>> /\ s[1] \notin Blanks
EndsSolid(s) == s # <<>> /\ s[Len(s)] \notin Blanks

(* What strip() leaves is a part of the string with all that is solid.     *)
LEMMA StripIsPart ==
  ASSUME NEW s \in Strings, IsSolid(s)
  PROVE  \E a, b \in DOMAIN s :
           /\ a <= b
           /\ Strip(s) = SubSeq(s, a, b)
           /\ s[a] \notin Blanks /\ s[b] \notin Blanks
           /\ \A i \in DOMAIN s : s[i] \notin Blanks => a <= i /\ i <= b
<1> DEFINE solid == {i \in DOMAIN s : s[i] \notin Blanks}
           n == Len(s)
<1>1. n \in Nat /\ DOMAIN s = 1 .. n
  BY DEF Strings
<1>2. solid # {} /\ solid \in SUBSET (1 .. n) /\ solid \in SUBSET Nat
  BY <1>1 DEF IsSolid
<1>3. Strip(s) = SubSeq(s, Min(solid), Max(solid))
  BY <1>2 DEF Strip
<1>4. Max(solid) \in solid /\ \A x \in solid : Max(solid) >= x
  <2> HIDE DEF solid, n
  <2> QED
    BY <1>1, <1>2, LastOfIndices
<1>5. Min(solid) \in solid /\ \A x \in solid : Min(solid) <= x
  <2> HIDE DEF solid, n
  <2>1. \E x \in solid : \A y \in solid : x <= y
    BY <1>2, LeastNumber
  <2> QED
    BY <2>1 DEF Min
<1>6. Min(solid) \in 1 .. n /\ Max(solid) \in 1 .. n /\ Min(solid) <= Max(solid)
  <2> HIDE DEF solid, n
  <2> QED
    BY <1>1, <1>2, <1>4, <1>5
<1> QED
  <2>1. s[Min(solid)] \notin Blanks /\ s[Max(solid)] \notin Blanks
    BY <1>4, <1>5
  <2>2. \A i \in DOMAIN s : s[i] \notin Blanks => Min(solid) <= i /\ i <= Max(solid)
    <3>1. \A i \in DOMAIN s : s[i] \notin Blanks => i \in solid
      OBVIOUS
    <3> HIDE DEF solid
    <3> QED
      BY <1>1, <1>2, <1>4, <1>5, <1>6, <3>1
  <2> HIDE DEF solid, n
  <2> QED
    BY <1>1, <1>3, <1>6, <2>1, <2>2

LEMMA StripOfBlank ==
  ASSUME NEW s, ~ IsSolid(s)
  PROVE  Strip(s) = <<>>
BY DEF Strip, IsSolid

(* Parts of a string. *)
LEMMA PartOfString ==
  ASSUME NEW T, NEW s \in Seq(T), NEW a \in 1 .. Len(s) + 1, NEW b \in 0 .. Len(s)
  PROVE  /\ SubSeq(s, a, b) \in Seq(T)
         /\ a <= b => Len(SubSeq(s, a, b)) = b - a + 1
         /\ a > b => Len(SubSeq(s, a, b)) = 0 /\ SubSeq(s, a, b) = <<>>
         /\ \A i \in 1 .. b - a + 1 : SubSeq(s, a, b)[i] = s[a + i - 1]
OBVIOUS

LEMMA PartOfOne ==
  ASSUME NEW T, NEW s \in Seq(T), NEW i \in 1 .. Len(s)
  PROVE  SubSeq(s, i, i) = <<s[i]>>
<1> DEFINE t == SubSeq(s, i, i)
<1>1. t \in Seq(T) /\ Len(t) = 1 /\ t[1] = s[i]
  <2>1. i \in 1 .. Len(s) + 1 /\ i \in 0 .. Len(s) /\ i - i + 1 = 1 /\ i + 1 - 1 = i
    OBVIOUS
  <2> QED
    BY <2>1, PartOfString
<1> HIDE DEF t
<1>2. t = <<s[i]>>
  BY <1>1
<1> QED
  BY <1>2 DEF t

LEMMA StripKeeps ==
  ASSUME NEW s \in Strings, IsSolid(s)
  PROVE  /\ Strip(s) \in Strings
         /\ BeginsSolid(Strip(s)) /\ EndsSolid(Strip(s))
         /\ Len(Strip(s)) \in 1 .. Len(s)
         /\ \A k \in 0 .. Len(s) :
              (\A i \in DOMAIN s : i <= k => s[i] \in Blanks)
                => Len(Strip(s)) <= Len(s) - k
         /\ \A k \in 0 .. Len(s) :
              (\A i \in DOMAIN s : i > k => s[i] \in Blanks)
                => Len(Strip(s)) <= k
<1>1. PICK a, b \in DOMAIN s :
           /\ a <= b
           /\ Strip(s) = SubSeq(s, a, b)
           /\ s[a] \notin Blanks /\ s[b] \notin Blanks
           /\ \A i \in DOMAIN s : s[i] \notin Blanks => a <= i /\ i <= b
  BY StripIsPart
<1> DEFINE t == SubSeq(s, a, b)
<1>2. DOMAIN s = 1 .. Len(s) /\ Len(s) \in Nat
  BY DEF Strings
<1>3. t \in Strings /\ Len(t) = b - a + 1 /\ t[1] = s[a] /\ t[Len(t)] = s[b]
  <2>1. a \in 1 .. Len(s) + 1 /\ b \in 0 .. Len(s)
    BY <1>2
  <2>2. /\ t \in Seq(Characters) /\ Len(t) = b - a + 1
        /\ \A i \in 1 .. b - a + 1 : t[i] = s[a + i - 1]
    <3>1. s \in Seq(Characters)
      BY DEF Strings
    <3> QED
      BY <1>1, <2>1, <3>1, PartOfString
  <2>3. 1 \in 1 .. b - a + 1 /\ b - a + 1 \in 1 .. b - a + 1
    BY <1>1, <1>2
  <2>4. t[1] = s[a + 1 - 1] /\ t[b - a + 1] = s[a + (b - a + 1) - 1]
    <3> HIDE DEF t
    <3> QED
      BY <2>2, <2>3
  <2>5. a + 1 - 1 = a /\ a + (b - a + 1) - 1 = b
    BY <1>2
  <2> HIDE DEF t
  <2> QED
    BY <2>2, <2>4, <2>5 DEF Strings
<1> HIDE DEF t
<1>4. t # <<>> /\ Len(t) >= 1 /\ Len(t) <= Len(s)
  BY <1>1, <1>2, <1>3
<1>5. ASSUME NEW k \in 0 .. Len(s), \A i \in DOMAIN s : i <= k => s[i] \in Blanks
      PROVE  Len(t) <= Len(s) - k
  <2>1. a > k
    BY <1>1, <1>2, <1>5
  <2> QED
    BY <1>2, <1>3, <2>1
<1>6. ASSUME NEW k \in 0 .. Len(s), \A i \in DOMAIN s : i > k => s[i] \in Blanks
      PROVE  Len(t) <= k
  <2>1. b <= k
    BY <1>1, <1>2, <1>6
  <2> QED
    BY <1>2, <1>3, <2>1
<1>7. Strip(s) = t
  BY <1>1 DEF t
<1> QED
  BY <1>1, <1>2, <1>3, <1>4, <1>5, <1>6, <1>7 DEF BeginsSolid, EndsSolid, Strings

LEMMA StripIsString ==
  ASSUME NEW s \in Strings
  PROVE  /\ Strip(s) \in Strings
         /\ Strip(s) # <<>> <=> IsSolid(s)
         /\ Strip(s) # <<>> => BeginsSolid(Strip(s)) /\ EndsSolid(Strip(s))
         /\ Len(Strip(s)) \in 0 .. Len(s)
<1>1. Len(s) \in Nat
  BY DEF Strings
<1>2. CASE IsSolid(s)
  BY <1>1, <1>2, StripKeeps DEF BeginsSolid
<1>3. CASE ~ IsSolid(s)
  <2>1. Strip(s) = <<>>
    BY <1>3, StripOfBlank
  <2> QED
    BY <1>1, <1>3, <2>1 DEF Strings
<1> QED
  BY <1>2, <1>3

(* A solid string is one that strip() does not leave empty; what begins or *)
(* ends solid is solid.                                                    *)
LEMMA SolidEnds ==
  ASSUME NEW s \in Strings, BeginsSolid(s) \/ EndsSolid(s)
  PROVE  IsSolid(s)
<1>1. Len(s) \in Nat /\ DOMAIN s = 1 .. Len(s) /\ Len(s) # 0
  BY DEF Strings, BeginsSolid, EndsSolid
<1>2. 1 \in DOMAIN s /\ Len(s) \in DOMAIN s
  BY <1>1
<1> QED
  BY <1>2 DEF IsSolid, BeginsSolid, EndsSolid

-----------------------------------------------------------------------------
(* Reading q when the letters up to n have been shown shows those up to m, *)
(* each for the first time after the one before it.                        *)
Shows(q, n, m) ==
  /\ n \in Nat /\ m \in Nat /\ n <= m
  /\ \A i \in DOMAIN q : q[i] <= m
  /\ \A i \in DOMAIN q : q[i] <= n + 1 \/ \E j \in 1 .. i - 1 : q[j] >= q[i] - 1
  /\ m = n \/ \E i \in DOMAIN q : q[i] = m

LEMMA ShowsNothingNew ==
  ASSUME NEW q \in Strings, NEW n \in Nat, \A i \in DOMAIN q : q[i] <= n
  PROVE  Shows(q, n, n)
<1>1. \A i \in DOMAIN q : q[i] \in Int
  BY StringOfCharacters
<1> QED
  BY <1>1 DEF Shows

LEMMA ShowsOneWay ==
  ASSUME NEW q \in Strings, NEW n, NEW m, NEW k, Shows(q, n, m), Shows(q, n, k)
  PROVE  m = k
<1>1. \A i \in DOMAIN q : q[i] \in Int
  BY StringOfCharacters
<1> QED
  BY <1>1 DEF Shows

LEMMA ShowsInTurn ==
  ASSUME NEW p \in Strings, NEW q \in Strings, NEW n, NEW m, NEW k,
         Shows(p, n, m), Shows(q, m, k)
  PROVE  Shows(p \o q, n, k)
<1> DEFINE r == p \o q
           a == Len(p)
           b == Len(q)
<1>1. /\ a \in Nat /\ b \in Nat /\ DOMAIN p = 1 .. a /\ DOMAIN q = 1 .. b
      /\ DOMAIN r = 1 .. (a + b)
      /\ \A i \in 1 .. a : r[i] = p[i] /\ p[i] \in Int
      /\ \A i \in 1 .. b : r[a + i] = q[i] /\ q[i] \in Int
  <2>1. /\ a \in Nat /\ b \in Nat /\ DOMAIN p = 1 .. a /\ DOMAIN q = 1 .. b
        /\ \A i \in 1 .. a : p[i] \in Int
        /\ \A i \in 1 .. b : q[i] \in Int
    BY StringOfCharacters
  <2>2. /\ DOMAIN r = 1 .. (a + b)
        /\ \A i \in 1 .. a : r[i] = p[i]
        /\ \A i \in 1 .. b : r[a + i] = q[i]
    BY DEF Strings
  <2> QED
    BY <2>1, <2>2
<1> n \in Nat /\ m \in Nat /\ k \in Nat /\ n <= m /\ m <= k
  BY DEF Shows
<1>2. ASSUME NEW i \in 1 .. (a + b)
      PROVE  i \in 1 .. a \/ (i - a \in 1 .. b /\ r[i] = q[i - a])
  <2>1. i \notin 1 .. a => i - a \in 1 .. b /\ a + (i - a) = i
    BY <1>1
  <2> QED
    BY <1>1, <2>1
<1> HIDE DEF a, b, r
<1>3. \A i \in 1 .. (a + b) : r[i] <= k
  <2> TAKE i \in 1 .. (a + b)
  <2>1. CASE i \in 1 .. a
    BY <1>1, <2>1 DEF Shows
  <2>2. CASE i - a \in 1 .. b /\ r[i] = q[i - a]
    BY <1>1, <2>2 DEF Shows
  <2> QED
    BY <1>2, <2>1, <2>2
<1>4. ASSUME NEW i \in 1 .. (a + b)
      PROVE  r[i] <= n + 1 \/ \E j \in 1 .. i - 1 : r[j] >= r[i] - 1
  <2>1. CASE i \in 1 .. a
    <3>1. p[i] <= n + 1 \/ \E j \in 1 .. i - 1 : p[j] >= p[i] - 1
      BY <1>1, <2>1 DEF Shows
    <3>2. \A j \in 1 .. i - 1 : j \in 1 .. a
      BY <1>1, <2>1
    <3> QED
      BY <1>1, <2>1, <3>1, <3>2
  <2>2. CASE i - a \in 1 .. b /\ r[i] = q[i - a]
    <3>1. q[i - a] <= m + 1 \/ \E j \in 1 .. (i - a) - 1 : q[j] >= q[i - a] - 1
      BY <1>1, <2>2 DEF Shows
    <3>2. CASE \E j \in 1 .. (i - a) - 1 : q[j] >= q[i - a] - 1
      <4>1. PICK j \in 1 .. (i - a) - 1 : q[j] >= q[i - a] - 1
        BY <3>2
      <4>2. a + j \in 1 .. i - 1 /\ j \in 1 .. b
        BY <1>1, <2>2
      <4>3. r[a + j] = q[j]
        BY <1>1, <4>2
      <4> QED
        BY <2>2, <4>1, <4>2, <4>3
    <3>3. CASE q[i - a] <= m + 1
      <4>1. CASE m = n
        BY <2>2, <3>3, <4>1
      <4>2. CASE \E j \in DOMAIN p : p[j] = m
        <5>1. PICK j \in 1 .. a : p[j] = m
          BY <1>1, <4>2
        <5>2. j \in 1 .. i - 1 /\ r[j] = m
          BY <1>1, <2>2, <5>1
        <5>3. r[j] >= r[i] - 1
          BY <1>1, <2>2, <3>3, <5>2
        <5> QED
          BY <5>2, <5>3
      <4> QED
        BY <4>1, <4>2 DEF Shows
    <3> QED
      BY <3>1, <3>2, <3>3
  <2> QED
    BY <1>2, <2>1, <2>2
<1>5. k = n \/ \E i \in 1 .. (a + b) : r[i] = k
  <2>1. CASE k = m
    <3>1. m = n \/ \E i \in 1 .. a : p[i] = m
      BY <1>1 DEF Shows
    <3>2. \A i \in 1 .. a : i \in 1 .. (a + b)
      BY <1>1
    <3> QED
      BY <1>1, <2>1, <3>1, <3>2
  <2>2. CASE k # m
    <3>1. PICK i \in 1 .. b : q[i] = k
      BY <1>1, <2>2 DEF Shows
    <3>2. a + i \in 1 .. (a + b)
      BY <1>1
    <3> QED
      BY <1>1, <3>1, <3>2
  <2> QED
    BY <2>1, <2>2
<1> QED
  <2>0. \A i \in DOMAIN r : r[i] <= n + 1 \/ \E j \in 1 .. i - 1 : r[j] >= r[i] - 1
    BY <1>1, <1>4
  <2>1. Shows(r, n, k)
    <3>1. /\ n \in Nat /\ k \in Nat /\ n <= k
          /\ \A i \in DOMAIN r : r[i] <= k
          /\ k = n \/ \E i \in DOMAIN r : r[i] = k
      <4>1. n \in Nat /\ k \in Nat /\ n <= k
        OBVIOUS
      <4>2. DOMAIN r = 1 .. (a + b)
        BY <1>1
      <4> QED
        BY <1>3, <1>5, <4>1, <4>2
    <3> QED
      BY <2>0, <3>1 DEF Shows
  <2> QED
    BY <2>1 DEF r

(* strip() takes no letter away.                                           *)
LEMMA StripShows ==
  ASSUME NEW s \in Strings, NEW n, NEW m, Shows(s, n, m)
  PROVE  Shows(Strip(s), n, m)
<1> n \in Nat /\ m \in Nat /\ n <= m
  BY DEF Shows
<1>1. /\ Len(s) \in Nat /\ DOMAIN s = 1 .. Len(s)
      /\ \A i \in 1 .. Len(s) : s[i] \in Int
      /\ \A i \in 1 .. Len(s) : s[i] \in Blanks => s[i] <= 0
  BY StringOfCharacters
<1>2. CASE ~ IsSolid(s)
  <2>1. m = n
    BY <1>1, <1>2 DEF Shows, IsSolid
  <2>2. Strip(s) = <<>>
    BY <1>2, StripOfBlank
  <2>3. Shows(<<>>, n, n)
    BY DEF Shows
  <2> QED
    BY <2>1, <2>2, <2>3
<1>3. CASE IsSolid(s)
  <2>1. PICK a, b \in 1 .. Len(s) :
           /\ a <= b
           /\ Strip(s) = SubSeq(s, a, b)
           /\ \A i \in 1 .. Len(s) : s[i] \notin Blanks => a <= i /\ i <= b
    BY <1>1, <1>3, StripIsPart
  <2> DEFINE t == SubSeq(s, a, b)
  <2>2. /\ DOMAIN t = 1 .. b - a + 1
        /\ \A i \in 1 .. b - a + 1 : t[i] = s[a + i - 1]
        /\ \A i \in 1 .. b - a + 1 : a + i - 1 \in 1 .. Len(s)
    BY <1>1, <2>1 DEF Strings
  <2>3. Strip(s) = t
    BY <2>1
  <2> HIDE DEF t
  <2>4. \A i \in DOMAIN t : t[i] <= m
    BY <1>1, <2>2 DEF Shows
  <2>5. ASSUME NEW i \in DOMAIN t
        PROVE  t[i] <= n + 1 \/ \E j \in 1 .. i - 1 : t[j] >= t[i] - 1
    <3> DEFINE p == a + i - 1
    <3>1. p \in 1 .. Len(s) /\ t[i] = s[p] /\ s[p] \in Int
      BY <1>1, <2>2
    <3>2. CASE s[p] <= n + 1
      BY <3>1, <3>2
    <3>3. CASE \E j \in 1 .. p - 1 : s[j] >= s[p] - 1
      <4>1. PICK j \in 1 .. p - 1 : s[j] >= s[p] - 1
        BY <3>3
      <4>2. j \in 1 .. Len(s) /\ s[j] \in Int
        BY <1>1, <3>1
      <4>3. CASE s[j] \in Blanks
        BY <1>1, <3>1, <4>1, <4>2, <4>3
      <4>4. CASE s[j] \notin Blanks
        <5>1. a <= j
          BY <2>1, <4>2, <4>4
        <5>2. j - a + 1 \in 1 .. i - 1 /\ j - a + 1 \in 1 .. b - a + 1
              /\ a + (j - a + 1) - 1 = j
          BY <1>1, <2>2, <3>1, <4>2, <5>1
        <5>3. t[j - a + 1] = s[j]
          BY <2>2, <5>2
        <5> QED
          BY <3>1, <4>1, <5>2, <5>3
      <4> QED
        BY <4>3, <4>4
    <3> HIDE DEF p
    <3> QED
      BY <1>1, <3>1, <3>2, <3>3 DEF Shows
  <2>6. m = n \/ \E i \in DOMAIN t : t[i] = m
    <3>1. CASE m # n
      <4>1. PICK i \in 1 .. Len(s) : s[i] = m
        BY <1>1, <3>1 DEF Shows
      <4>2. s[i] \notin Blanks
        BY <1>1, <3>1, <4>1
      <4>3. a <= i /\ i <= b
        BY <2>1, <4>2
      <4>4. i - a + 1 \in 1 .. b - a + 1 /\ a + (i - a + 1) - 1 = i
        BY <1>1, <4>3
      <4>5. t[i - a + 1] = m
        BY <2>2, <4>1, <4>4
      <4> QED
        BY <2>2, <4>4, <4>5
    <3> QED
      BY <3>1
  <2> QED
    BY <2>3, <2>4, <2>5, <2>6 DEF Shows
<1> QED
  BY <1>2, <1>3

(* The first e characters of what shows letters show those up to some.     *)
LEMMA BeginningShows ==
  ASSUME NEW s \in Strings, NEW n, NEW m, Shows(s, n, m), NEW e \in 0 .. Len(s)
  PROVE  \E r \in n .. m : Shows(SubSeq(s, 1, e), n, r)
<1> n \in Nat /\ m \in Nat /\ n <= m
  BY DEF Shows
<1>1. /\ Len(s) \in Nat /\ DOMAIN s = 1 .. Len(s)
      /\ \A i \in 1 .. Len(s) : s[i] \in Int
  BY StringOfCharacters
<1> DEFINE t == SubSeq(s, 1, e)
           T == {k \in n .. m : k = n \/ \E i \in 1 .. e : s[i] = k}
           r == Max(T)
<1>2. DOMAIN t = 1 .. e /\ \A i \in 1 .. e : i \in 1 .. Len(s) /\ t[i] = s[i]
  BY <1>1 DEF Strings
<1>3. r \in T /\ \A k \in T : r >= k
  <2>1. n \in T
    OBVIOUS
  <2>2. T \in SUBSET (0 .. m) /\ T # {}
    BY <2>1
  <2> HIDE DEF T
  <2> QED
    BY <2>2, GreatestNumber
<1>4. r \in n .. m /\ (r = n \/ \E i \in 1 .. e : s[i] = r)
  <2> HIDE DEF r
  <2> QED
    BY <1>3
<1>5. \A i \in 1 .. e : s[i] <= r
  <2> TAKE i \in 1 .. e
  <2>1. s[i] \in Int /\ s[i] <= m
    BY <1>1, <1>2 DEF Shows
  <2>2. CASE s[i] <= n
    <3> HIDE DEF r
    <3> QED
      BY <1>4, <2>1, <2>2
  <2>3. CASE ~ (s[i] <= n)
    <3>1. s[i] \in T
      BY <2>1, <2>3
    <3>2. r >= s[i]
      <4> HIDE DEF T, r
      <4> QED
        BY <1>3, <3>1
    <3> HIDE DEF r
    <3> QED
      BY <1>4, <2>1, <3>2
  <2> QED
    BY <2>2, <2>3
<1> HIDE DEF t, r
<1>6. ASSUME NEW i \in DOMAIN t
      PROVE  t[i] <= n + 1 \/ \E j \in 1 .. i - 1 : t[j] >= t[i] - 1
  <2>1. s[i] <= n + 1 \/ \E j \in 1 .. i - 1 : s[j] >= s[i] - 1
    BY <1>1, <1>2 DEF Shows
  <2>2. \A j \in 1 .. i - 1 : j \in 1 .. e
    BY <1>2
  <2> QED
    BY <1>2, <2>1, <2>2
<1>7. Shows(t, n, r)
  <2>1. /\ r \in Nat /\ n <= r
        /\ \A i \in DOMAIN t : t[i] <= r
        /\ r = n \/ \E i \in DOMAIN t : t[i] = r
    BY <1>2, <1>4, <1>5
  <2> QED
    BY <1>6, <2>1 DEF Shows
<1> QED
  BY <1>4, <1>7 DEF t

(* After the beginning of a string, a part that leaves nothing out between *)
(* them shows what the longer beginning does.                              *)
LEMMA PartShows ==
  ASSUME NEW s \in Strings, NEW n, NEW m, Shows(s, n, m),
         NEW e \in 0 .. Len(s), NEW b \in 1 .. e + 1, NEW f \in e .. Len(s),
         NEW r, Shows(SubSeq(s, 1, e), n, r)
  PROVE  \E q \in r .. m : /\ Shows(SubSeq(s, 1, f), n, q)
                           /\ Shows(SubSeq(s, b, f), r, q)
<1>1. /\ Len(s) \in Nat /\ DOMAIN s = 1 .. Len(s)
      /\ \A i \in 1 .. Len(s) : s[i] \in Int
  BY StringOfCharacters
<1>2. f \in 0 .. Len(s)
  BY <1>1
<1>3. PICK q \in n .. m : Shows(SubSeq(s, 1, f), n, q)
  BY <1>2, BeginningShows
<1> n \in Nat /\ m \in Nat /\ n <= m /\ r \in Nat /\ n <= r
  BY DEF Shows
<1> DEFINE t == SubSeq(s, b, f)
<1>4. /\ DOMAIN t = 1 .. f - b + 1
      /\ \A i \in 1 .. f - b + 1 : t[i] = s[b + i - 1]
      /\ \A i \in 1 .. f - b + 1 : b + i - 1 \in b .. f
      /\ \A p \in b .. f : p - b + 1 \in 1 .. f - b + 1 /\ b + (p - b + 1) - 1 = p
  BY <1>1 DEF Strings
<1> HIDE DEF t
<1>5. /\ \A p \in 1 .. f : s[p] <= q
      /\ q = n \/ \E p \in 1 .. f : s[p] = q
      /\ \A p \in 1 .. f : s[p] <= n + 1 \/ \E j \in 1 .. p - 1 : s[j] >= s[p] - 1
      /\ \A p \in 1 .. f : s[p] \in Int
  <2>1. /\ DOMAIN SubSeq(s, 1, f) = 1 .. f
        /\ \A p \in 1 .. f : SubSeq(s, 1, f)[p] = s[p]
        /\ \A p \in 1 .. f : p \in DOMAIN s
    BY <1>1 DEF Strings
  <2>2. /\ \A p \in 1 .. f : s[p] <= q
        /\ q = n \/ \E p \in 1 .. f : s[p] = q
    BY <1>3, <2>1 DEF Shows
  <2>3. \A p \in 1 .. f : s[p] <= n + 1 \/ \E j \in 1 .. p - 1 : s[j] >= s[p] - 1
    BY <2>1 DEF Shows
  <2> QED
    BY <1>1, <2>1, <2>2, <2>3
<1>6. /\ \A p \in 1 .. e : s[p] <= r
      /\ r = n \/ \E p \in 1 .. e : s[p] = r
  <2>1. /\ DOMAIN SubSeq(s, 1, e) = 1 .. e
        /\ \A p \in 1 .. e : SubSeq(s, 1, e)[p] = s[p]
    BY <1>1 DEF Strings
  <2> QED
    BY <2>1 DEF Shows
<1>7. r <= q
  <2>1. \A p \in 1 .. e : p \in 1 .. f
    BY <1>1
  <2> QED
    BY <1>3, <1>5, <1>6, <2>1
<1>8. \A i \in DOMAIN t : t[i] <= q
  <2>1. \A p \in b .. f : p \in 1 .. f
    BY <1>1
  <2> QED
    BY <1>4, <1>5, <2>1
<1>9. ASSUME NEW i \in DOMAIN t
      PROVE  t[i] <= r + 1 \/ \E j \in 1 .. i - 1 : t[j] >= t[i] - 1
  <2> DEFINE p == b + i - 1
  <2>1. p \in b .. f /\ p \in 1 .. f /\ t[i] = s[p] /\ s[p] \in Int /\ i \in Int
    <3>1. i \in 1 .. f - b + 1
      BY <1>4
    <3>2. p \in b .. f /\ t[i] = s[p]
      BY <1>4, <3>1
    <3>3. p \in 1 .. f
      BY <1>1, <3>2
    <3> QED
      BY <1>5, <3>1, <3>2, <3>3
  <2>2. CASE s[p] <= n + 1
    BY <2>1, <2>2
  <2>3. CASE \E j \in 1 .. p - 1 : s[j] >= s[p] - 1
    <3>1. PICK j \in 1 .. p - 1 : s[j] >= s[p] - 1
      BY <2>3
    <3>2. j \in 1 .. f /\ s[j] \in Int
      <4>1. j \in 1 .. f
        BY <2>1
      <4> QED
        BY <1>5, <4>1
    <3>3. CASE j < b
      <4>1. j \in 1 .. e
        BY <1>1, <3>2, <3>3
      <4>2. s[j] <= r /\ r \in Int
        BY <1>6, <4>1 DEF Shows
      <4>3. t[i] - 1 <= s[j] /\ t[i] \in Int /\ s[j] \in Int
        BY <2>1, <3>1, <3>2
      <4> HIDE DEF t, p
      <4> QED
        BY <4>2, <4>3
    <3>4. CASE j >= b
      <4>1. j \in b .. f /\ j - b + 1 \in 1 .. i - 1
        BY <1>1, <2>1, <3>2, <3>4
      <4>2. t[j - b + 1] = s[j]
        BY <1>4, <4>1
      <4> QED
        BY <2>1, <3>1, <4>1, <4>2
    <3> QED
      BY <1>1, <3>2, <3>3, <3>4
  <2> HIDE DEF p
  <2> QED
    BY <1>5, <2>1, <2>2, <2>3
<1>10. q = r \/ \E i \in DOMAIN t : t[i] = q
  <2>1. CASE q = n
    BY <1>7, <2>1
  <2>2. CASE \E p \in 1 .. f : s[p] = q
    <3>1. PICK p \in 1 .. f : s[p] = q
      BY <2>2
    <3>2. CASE p < b
      <4>1. p \in 1 .. e
        BY <1>1, <3>2
      <4> QED
        BY <1>6, <1>7, <3>1, <4>1
    <3>3. CASE p >= b
      <4>1. p \in b .. f
        BY <1>1, <3>3
      <4>2. t[p - b + 1] = q /\ p - b + 1 \in DOMAIN t
        BY <1>4, <3>1, <4>1
      <4> QED
        BY <4>2
    <3> QED
      BY <1>1, <3>2, <3>3
  <2> QED
    BY <1>5, <2>1, <2>2
<1>11. Shows(t, r, q)
  <2>1. q \in Nat
    BY <1>3
  <2> QED
    BY <1>7, <1>8, <1>9, <1>10, <2>1 DEF Shows
<1>12. q \in r .. m
  BY <1>3, <1>7
<1> QED
  BY <1>3, <1>11, <1>12 DEF t

-----------------------------------------------------------------------------
(* Strings that are read one after the other; f says up to which letter    *)
(* each gets.                                                              *)
GetsTo(f, parts, n, m) ==
  /\ f \in [0 .. Len(parts) -> Nat]
  /\ f[0] = n /\ f[Len(parts)] = m
  /\ \A k \in 1 .. Len(parts) : Shows(parts[k], f[k - 1], f[k])

ShowInTurn(parts, n, m) == \E f : GetsTo(f, parts, n, m)

LEMMA NoneInTurn ==
  ASSUME NEW n \in Nat
  PROVE  ShowInTurn(<<>>, n, n)
<1> DEFINE f == [k \in 0 .. 0 |-> n]
<1>1. GetsTo(f, <<>>, n, n)
  BY DEF GetsTo
<1> QED
  BY <1>1 DEF ShowInTurn

LEMMA AllInTurn ==
  ASSUME NEW p \in Seq(Strings), NEW q \in Seq(Strings), NEW n, NEW m, NEW k,
         ShowInTurn(p, n, m), ShowInTurn(q, m, k)
  PROVE  ShowInTurn(p \o q, n, k)
<1>1. PICK f : GetsTo(f, p, n, m)
  BY DEF ShowInTurn
<1>2. PICK g : GetsTo(g, q, m, k)
  BY DEF ShowInTurn
<1> DEFINE r == p \o q
           a == Len(p)
           b == Len(q)
           h == [i \in 0 .. a + b |-> IF i <= a THEN f[i] ELSE g[i - a]]
<1>3. /\ a \in Nat /\ b \in Nat /\ Len(r) = a + b
      /\ \A i \in 1 .. a : r[i] = p[i]
      /\ \A i \in 1 .. b : r[a + i] = q[i]
  OBVIOUS
<1>4. /\ f \in [0 .. a -> Nat] /\ f[0] = n /\ f[a] = m
      /\ \A i \in 1 .. a : Shows(p[i], f[i - 1], f[i])
      /\ g \in [0 .. b -> Nat] /\ g[0] = m /\ g[b] = k
      /\ \A i \in 1 .. b : Shows(q[i], g[i - 1], g[i])
  BY <1>1, <1>2 DEF GetsTo
<1> HIDE DEF r, a, b
<1>5. h \in [0 .. a + b -> Nat]
  <2>1. ASSUME NEW i \in 0 .. a + b
        PROVE  (i <= a => f[i] \in Nat) /\ (~ (i <= a) => g[i - a] \in Nat)
    <3>1. (i <= a => i \in 0 .. a) /\ (~ (i <= a) => i - a \in 0 .. b)
      BY <1>3
    <3> QED
      BY <1>4, <3>1
  <2> QED
    BY <2>1
<1>6. \A i \in 0 .. b : h[a + i] = g[i]
  <2> TAKE i \in 0 .. b
  <2>1. a + i \in 0 .. a + b /\ (i = 0 \/ ~ (a + i <= a)) /\ (a + i) - a = i
    BY <1>3
  <2> QED
    BY <1>3, <1>4, <2>1
<1>7. \A i \in 0 .. a : h[i] = f[i]
  BY <1>3
<1> HIDE DEF h
<1>8. ASSUME NEW i \in 1 .. a + b
      PROVE  Shows(r[i], h[i - 1], h[i])
  <2>1. CASE i <= a
    <3>1. i \in 1 .. a /\ i \in 0 .. a /\ i - 1 \in 0 .. a
      BY <1>3, <2>1
    <3> QED
      BY <1>3, <1>4, <1>7, <3>1
  <2>2. CASE ~ (i <= a)
    <3> DEFINE j == i - a
    <3>1. j \in 1 .. b /\ j \in 0 .. b /\ j - 1 \in 0 .. b /\ a + j = i
          /\ a + (j - 1) = i - 1
      BY <1>3, <2>2
    <3> HIDE DEF j
    <3> QED
      BY <1>3, <1>4, <1>6, <3>1
  <2> QED
    BY <2>1, <2>2
<1>9. h[0] = n /\ h[a + b] = k
  <2>1. 0 \in 0 .. a /\ b \in 0 .. b
    BY <1>3
  <2> QED
    BY <1>4, <1>6, <1>7, <2>1
<1>10. GetsTo(h, r, n, k)
  BY <1>3, <1>5, <1>8, <1>9 DEF GetsTo
<1> QED
  BY <1>10 DEF ShowInTurn, r

LEMMA OneInTurn ==
  ASSUME NEW q \in Strings, NEW n, NEW m, Shows(q, n, m)
  PROVE  ShowInTurn(<<q>>, n, m)
<1> DEFINE f == [k \in 0 .. 1 |-> IF k = 0 THEN n ELSE m]
<1>1. n \in Nat /\ m \in Nat
  BY DEF Shows
<1>2. f \in [0 .. 1 -> Nat] /\ f[0] = n /\ f[1] = m
  BY <1>1
<1> HIDE DEF f
<1>3. Len(<<q>>) = 1 /\ <<q>>[1] = q
  OBVIOUS
<1>4. ASSUME NEW k \in 1 .. 1 PROVE Shows(<<q>>[k], f[k - 1], f[k])
  <2>1. k = 1 /\ k - 1 = 0
    OBVIOUS
  <2> QED
    BY <1>2, <1>3, <2>1
<1>5. GetsTo(f, <<q>>, n, m)
  BY <1>2, <1>3, <1>4 DEF GetsTo
<1> QED
  BY <1>5 DEF ShowInTurn

LEMMA OneMoreInTurn ==
  ASSUME NEW p \in Seq(Strings), NEW q \in Strings, NEW n, NEW m, NEW k,
         ShowInTurn(p, n, m), Shows(q, m, k)
  PROVE  ShowInTurn(Append(p, q), n, k)
<1>1. ShowInTurn(<<q>>, m, k)
  BY OneInTurn
<1>2. <<q>> \in Seq(Strings) /\ Append(p, q) = p \o <<q>>
  OBVIOUS
<1>3. ShowInTurn(p \o <<q>>, n, k)
  BY <1>1, <1>2, AllInTurn
<1> QED
  BY <1>2, <1>3

(* One character more of the last string. *)
LEMMA LastGrows ==
  ASSUME NEW p \in Seq(Strings), p # <<>>, NEW c \in Characters,
         NEW n, NEW m, NEW k, ShowInTurn(p, n, m), Shows(<<c>>, m, k)
  PROVE  ShowInTurn([p EXCEPT ![Len(p)] = Append(@, c)], n, k)
<1> DEFINE a == Len(p)
           q == [p EXCEPT ![a] = Append(@, c)]
<1>1. PICK f : GetsTo(f, p, n, m)
  BY DEF ShowInTurn
<1> DEFINE g == [f EXCEPT ![a] = k]
<1>2. /\ a \in Nat /\ a # 0 /\ Len(q) = a /\ DOMAIN p = 1 .. a
      /\ a \in 1 .. a /\ a \in 0 .. a /\ a - 1 \in 0 .. a /\ a - 1 # a
      /\ p[a] \in Strings
      /\ q[a] = Append(p[a], c)
      /\ \A i \in 1 .. a : i # a => q[i] = p[i]
  OBVIOUS
<1>3. /\ f \in [0 .. a -> Nat] /\ f[0] = n /\ f[a] = m
      /\ \A i \in 1 .. a : Shows(p[i], f[i - 1], f[i])
  BY <1>1 DEF GetsTo
<1>4. k \in Nat
  BY DEF Shows
<1> HIDE DEF a, q
<1>5. g \in [0 .. a -> Nat] /\ g[a] = k /\ g[0] = n
      /\ \A i \in 0 .. a : i # a => g[i] = f[i]
  BY <1>2, <1>3, <1>4
<1>6. Shows(Append(p[a], c), f[a - 1], k)
  <2>1. Shows(p[a], f[a - 1], m)
    BY <1>2, <1>3
  <2>2. <<c>> \in Strings /\ Append(p[a], c) = p[a] \o <<c>>
    BY <1>2 DEF Strings
  <2> QED
    BY <1>2, <2>1, <2>2, ShowsInTurn
<1> HIDE DEF g
<1>7. ASSUME NEW i \in 1 .. a PROVE Shows(q[i], g[i - 1], g[i])
  <2>1. i \in 0 .. a /\ i - 1 \in 0 .. a /\ i - 1 # a
    BY <1>2
  <2>2. CASE i = a
    BY <1>2, <1>5, <1>6, <2>1, <2>2
  <2>3. CASE i # a
    BY <1>2, <1>3, <1>5, <2>1, <2>3
  <2> QED
    BY <2>2, <2>3
<1>8. GetsTo(g, q, n, k)
  BY <1>2, <1>5, <1>7 DEF GetsTo
<1> QED
  BY <1>8 DEF ShowInTurn, q, a

(* Each string may be taken apart. *)
LEMMA PartsOfParts ==
  ASSUME NEW p \in Seq(Seq(Strings)), NEW f \in [0 .. Len(p) -> Nat],
         \A k \in 1 .. Len(p) : ShowInTurn(p[k], f[k - 1], f[k])
  PROVE  ShowInTurn(FlattenSeq(p), f[0], f[Len(p)])
<1> DEFINE a == Len(p)
           at == [k \in 0 .. a |-> {q \in Seq(Strings) : ShowInTurn(q, f[0], f[k])}]
<1>1. a \in Nat /\ 0 \in 0 .. a /\ a \in 0 .. a
  OBVIOUS
<1>2. <<>> \in at[0]
  <2>1. <<>> \in Seq(Strings)
    OBVIOUS
  <2>2. f[0] \in Nat
    BY <1>1
  <2> QED
    BY <1>1, <2>1, <2>2, NoneInTurn
<1>3. ASSUME NEW k \in 1 .. a, NEW q \in at[k - 1]
      PROVE  q \o p[k] \in at[k]
  <2>1. k - 1 \in 0 .. a /\ k \in 0 .. a
    BY <1>1
  <2>2. q \in Seq(Strings) /\ p[k] \in Seq(Strings)
        /\ ShowInTurn(q, f[0], f[k - 1])
    BY <1>1, <2>1
  <2>3. ShowInTurn(q \o p[k], f[0], f[k])
    BY <2>2, AllInTurn
  <2>4. q \o p[k] \in Seq(Strings)
    BY <2>2
  <2> QED
    BY <2>1, <2>3, <2>4
<1>4. FlattenSeq(p) \in at[a] \cap Seq(Strings)
  <2> HIDE DEF at
  <2> QED
    BY <1>2, <1>3, FlattenKeeps
<1> QED
  BY <1>1, <1>4

LEMMA FlattenShows ==
  ASSUME NEW p \in Seq(Strings), NEW n, NEW m, ShowInTurn(p, n, m)
  PROVE  FlattenSeq(p) \in Strings /\ Shows(FlattenSeq(p), n, m)
<1>1. PICK f : GetsTo(f, p, n, m)
  BY DEF ShowInTurn
<1> DEFINE a == Len(p)
           at == [k \in 0 .. a |-> {q \in Strings : Shows(q, n, f[k])}]
<1>2. a \in Nat /\ 0 \in 0 .. a /\ a \in 0 .. a
  OBVIOUS
<1>3. /\ f \in [0 .. a -> Nat] /\ f[0] = n /\ f[a] = m
      /\ \A i \in 1 .. a : Shows(p[i], f[i - 1], f[i])
  BY <1>1 DEF GetsTo
<1>4. <<>> \in at[0]
  <2>1. <<>> \in Strings
    BY DEF Strings
  <2>2. Shows(<<>>, n, n)
    <3>1. n \in Nat
      BY <1>2, <1>3
    <3> QED
      BY <2>1, <3>1, ShowsNothingNew
  <2> QED
    BY <1>2, <1>3, <2>1, <2>2
<1>5. ASSUME NEW k \in 1 .. a, NEW q \in at[k - 1]
      PROVE  q \o p[k] \in at[k]
  <2>1. k - 1 \in 0 .. a /\ k \in 0 .. a
    BY <1>2
  <2>2. q \in Strings /\ p[k] \in Strings /\ Shows(q, n, f[k - 1])
    BY <1>2, <2>1
  <2>3. Shows(q \o p[k], n, f[k])
    BY <1>3, <2>2, ShowsInTurn
  <2>4. q \o p[k] \in Strings
    BY <2>2 DEF Strings
  <2> QED
    BY <2>1, <2>3, <2>4
<1>6. FlattenSeq(p) \in at[a]
  <2>1. p \in Seq(Seq(Characters))
    BY DEF Strings
  <2> HIDE DEF at
  <2> QED
    BY <1>4, <1>5, <2>1, FlattenKeeps
<1> QED
  BY <1>2, <1>3, <1>6

-----------------------------------------------------------------------------
(* Cut.  A separator holds no letters.                                     *)
IsBreak(separator) ==
  /\ separator \in Seq(Int)
  /\ \A j \in DOMAIN separator : separator[j] <= 0

LEMMA SeparatorsAreBreaks ==
  /\ Len(Separators) = 4
  /\ \A k \in 1 .. 4 : IsBreak(Separators[k])
<1> USE DEF IsBreak, Space, Newline, Dot
<1>1. IsBreak(<<Newline, Newline>>)
  OBVIOUS
<1>2. IsBreak(<<Newline>>)
  OBVIOUS
<1>3. IsBreak(<<Dot, Space>>)
  OBVIOUS
<1>4. IsBreak(<<Space>>)
  OBVIOUS
<1> QED
  <2>1. /\ Separators[1] = <<Newline, Newline>>
        /\ Separators[2] = <<Newline>>
        /\ Separators[3] = <<Dot, Space>>
        /\ Separators[4] = <<Space>>
        /\ Len(Separators) = 4
    BY DEF Separators
  <2>2. \A k \in 1 .. 4 : k = 1 \/ k = 2 \/ k = 3 \/ k = 4
    OBVIOUS
  <2> HIDE DEF IsBreak, Space, Newline, Dot
  <2> QED
    BY <1>1, <1>2, <1>3, <1>4, <2>1, <2>2

LEMMA CoveredIsNoLetter ==
  ASSUME NEW s \in Strings, NEW separator, IsBreak(separator),
         NEW i \in Covered(s, separator)
  PROVE  i \in 1 .. Len(s) /\ s[i] <= 0
<1> DEFINE b == Len(separator)
<1>1. /\ Len(s) \in Nat /\ DOMAIN s = 1 .. Len(s) /\ b \in Nat
      /\ DOMAIN separator = 1 .. b
  BY DEF Strings, IsBreak
<1>2. i \in 1 .. Len(s)
  BY <1>1 DEF Covered
<1>3. PICK start \in i - b + 1 .. i :
        /\ start >= 1 /\ start + b - 1 <= Len(s)
        /\ SubSeq(s, start, start + b - 1) = separator
  BY DEF Covered
<1> DEFINE j == i - start + 1
<1>4. /\ start \in 1 .. Len(s) + 1 /\ start + b - 1 \in 0 .. Len(s)
      /\ j \in 1 .. b /\ j \in 1 .. (start + b - 1) - start + 1
      /\ start + j - 1 = i
  BY <1>1, <1>2, <1>3
<1>5. s \in Seq(Characters)
  BY DEF Strings
<1> HIDE DEF j, b
<1>6. SubSeq(s, start, start + b - 1)[j] = s[start + j - 1]
  BY <1>4, <1>5, PartOfString
<1> QED
  BY <1>1, <1>2, <1>3, <1>4, <1>6 DEF IsBreak

LEMMA ContinueIsType ==
  ASSUME NEW s \in Strings, NEW covered, NEW i \in 1 .. Len(s),
         NEW parts \in Seq(Strings)
  PROVE  Continue(s, covered, parts, i) \in Seq(Strings)
<1>1. s[i] \in Characters
  BY StringOfCharacters
<1>2. CASE i \in covered
  <2>1. <<>> \in Strings
    BY DEF Strings
  <2> QED
    BY <1>2, <2>1 DEF Continue
<1>3. CASE i \notin covered
  <2> DEFINE q == [parts EXCEPT ![Len(parts)] = Append(@, s[i])]
  <2>1. DOMAIN parts = 1 .. Len(parts) /\ Len(parts) \in Nat
    OBVIOUS
  <2>2. DOMAIN q = 1 .. Len(parts)
    BY <2>1
  <2>3. ASSUME NEW k \in 1 .. Len(parts) PROVE q[k] \in Strings
    <3>1. parts[k] \in Strings /\ Append(parts[k], s[i]) \in Strings
      BY <1>1 DEF Strings
    <3> QED
      BY <3>1
  <2>4. q \in Seq(Strings)
    <3>1. q = [k \in 1 .. Len(parts) |-> q[k]]
      BY <2>2
    <3> HIDE DEF q
    <3>2. q \in [1 .. Len(parts) -> Strings]
      BY <2>3, <3>1
    <3> QED
      BY <2>1, <3>2
  <2> QED
    BY <1>3, <2>4 DEF Continue
<1> QED
  BY <1>2, <1>3

LEMMA BetweenInTurn ==
  ASSUME NEW s \in Strings, NEW separator, IsBreak(separator),
         NEW n, NEW m, Shows(s, n, m)
  PROVE  Between(s, separator) \in Seq(Strings) /\ ShowInTurn(Between(s, separator), n, m)
<1> DEFINE len == Len(s)
           covered == Covered(s, separator)
           first == << <<>> >>
           index == [i \in DOMAIN s |-> i]
           step == [at \in Seq(Strings) \X (1 .. len) |->
                      Continue(s, covered, at[1], at[2])]
           Found(i) == i = [S \in SUBSET (1 .. len) |->
                     IF S = {} THEN first
                     ELSE Continue(s, covered, i[S \ {Max(S)}], index[Max(S)])]
           it == CHOOSE i : Found(i)
<1>1. /\ len \in Nat /\ DOMAIN s = 1 .. len
      /\ \A i \in 1 .. len : s[i] \in Characters
      /\ \A i \in 1 .. len : s[i] \in Int
  BY StringOfCharacters
<1>2. Between(s, separator) = it[1 .. len]
  BY <1>1 DEF Between, FoldLeftDomain, FoldLeft, MapThenFoldSet
<1>3. \A i \in 1 .. len : index[i] = i
  BY <1>1
<1> HIDE DEF index, covered
<1>4. step \in [Seq(Strings) \X (1 .. len) -> Seq(Strings)]
  <2>1. \A parts \in Seq(Strings) : \A i \in 1 .. len :
          Continue(s, covered, parts, i) \in Seq(Strings)
    BY ContinueIsType
  <2> HIDE DEF len
  <2> QED
    BY <2>1
<1>5. first \in Seq(Strings) /\ first # <<>>
  BY DEF Strings
<1> HIDE DEF first
<1>6. \E i : Found(i)
  <2> HIDE DEF step, len
  <2>1. HasRecursion(Seq(Strings), first, step, len)
    BY <1>1, <1>4, <1>5, RecursionExists
  <2>2. PICK i \in [SUBSET (1 .. len) -> Seq(Strings)] : Recurs(i, first, step, len)
    BY <2>1 DEF HasRecursion
  <2>3. ASSUME NEW S \in SUBSET (1 .. len)
        PROVE  i[S] = IF S = {} THEN first
                      ELSE Continue(s, covered, i[S \ {Max(S)}], index[Max(S)])
    <3>1. CASE S = {}
      BY <2>2, <3>1 DEF Recurs
    <3>2. CASE S # {}
      <4>1. Max(S) \in 1 .. len
        BY <1>1, <3>2, LastOfIndices
      <4>2. S \ {Max(S)} \in SUBSET (1 .. len)
        OBVIOUS
      <4>3. i[S] = step[<<i[S \ {Max(S)}], Max(S)>>]
        BY <2>2, <3>2 DEF Recurs
      <4>4. step[<<i[S \ {Max(S)}], Max(S)>>]
              = Continue(s, covered, i[S \ {Max(S)}], Max(S))
        <5>1. <<i[S \ {Max(S)}], Max(S)>> \in Seq(Strings) \X (1 .. len)
          BY <2>2, <4>1, <4>2
        <5> QED
          BY <5>1 DEF step
      <4> QED
        BY <1>3, <3>2, <4>1, <4>3, <4>4
    <3> QED
      BY <3>1, <3>2
  <2>4. i = [S \in SUBSET (1 .. len) |-> i[S]]
    OBVIOUS
  <2> QED
    BY <2>3, <2>4
<1>7. Found(it)
  BY <1>6
<1> HIDE DEF it, step, len
<1>8. it[{}] = first
  BY <1>7
<1>9. ASSUME NEW k \in 1 .. len
      PROVE  it[1 .. k] = Continue(s, covered, it[1 .. (k - 1)], k)
  <2>1. Max(1 .. k) = k /\ (1 .. k) \ {k} = 1 .. (k - 1)
    BY LastOfAll
  <2>2. 1 .. k \in SUBSET (1 .. len) /\ 1 .. k # {}
    <3>1. \A x \in 1 .. k : x \in 1 .. len
      BY <1>1
    <3>2. k \in 1 .. k
      OBVIOUS
    <3> QED
      BY <3>1, <3>2
  <2>3. it[1 .. k] = Continue(s, covered, it[(1 .. k) \ {Max(1 .. k)}], index[Max(1 .. k)])
    BY <1>7, <2>2
  <2>4. index[k] = k
    BY <1>3
  <2> QED
    BY <2>1, <2>3, <2>4
<1> DEFINE Good == {k \in Nat : k <= len =>
                      /\ it[1 .. k] \in Seq(Strings) /\ it[1 .. k] # <<>>
                      /\ \E r \in Nat : /\ Shows(SubSeq(s, 1, k), n, r)
                                       /\ ShowInTurn(it[1 .. k], n, r)}
<1>10. 0 \in Good
  <2>1. n \in Nat
    BY DEF Shows
  <2>2. SubSeq(s, 1, 0) = <<>> /\ 1 .. 0 = {} /\ <<>> \in Strings
    BY <1>1 DEF Strings
  <2>3. Shows(<<>>, n, n)
    BY <2>1, <2>2, ShowsNothingNew
  <2>4. ShowInTurn(first, n, n)
    BY <2>2, <2>3, OneInTurn DEF first
  <2> QED
    BY <1>5, <1>8, <2>1, <2>2, <2>3, <2>4
<1>11. ASSUME NEW k \in Good PROVE k + 1 \in Good
  <2>0. k \in Nat
    OBVIOUS
  <2> DEFINE j == k + 1
             before == it[1 .. k]
             c == s[j]
  <2> SUFFICES ASSUME j <= len
               PROVE  /\ it[1 .. j] \in Seq(Strings) /\ it[1 .. j] # <<>>
                      /\ \E q \in Nat : /\ Shows(SubSeq(s, 1, j), n, q)
                                       /\ ShowInTurn(it[1 .. j], n, q)
    BY <2>0
  <2>1. j \in 1 .. len /\ j - 1 = k /\ k <= len /\ k \in 0 .. len
        /\ j \in 1 .. k + 1 /\ j \in k .. len
    BY <1>1, <2>0
  <2>2. before \in Seq(Strings) /\ before # <<>>
    BY <2>1
  <2>3. PICK r \in Nat : Shows(SubSeq(s, 1, k), n, r) /\ ShowInTurn(before, n, r)
    BY <2>1
  <2> HIDE DEF Good
  <2>4. PICK q \in r .. m : Shows(SubSeq(s, 1, j), n, q) /\ Shows(SubSeq(s, j, j), r, q)
    BY <2>1, <2>3, PartShows DEF len
  <2>5. SubSeq(s, j, j) = <<c>> /\ c \in Characters
    <3>1. c \in Characters
      BY <1>1, <2>1
    <3>2. s \in Seq(Characters) /\ j \in 1 .. Len(s)
      BY <2>1 DEF Strings, len
    <3>3. SubSeq(s, j, j) = <<c>>
      BY <3>2, PartOfOne
    <3> QED
      BY <3>1, <3>3
  <2>6. Shows(<<c>>, r, q)
    BY <2>4, <2>5
  <2>7. q \in Nat
    BY <2>6 DEF Shows
  <2>8. it[1 .. j] = Continue(s, covered, before, j)
    BY <1>9, <2>1
  <2> HIDE DEF before, c, j
  <2>9. it[1 .. j] \in Seq(Strings)
    BY <2>1, <2>2, <2>8, ContinueIsType DEF len
  <2>10. it[1 .. j] # <<>> /\ ShowInTurn(it[1 .. j], n, q)
    <3>1. CASE j \in covered
      <4>1. c <= 0
        BY <3>1, CoveredIsNoLetter DEF c, covered
      <4>2. q = r
        BY <2>6, <4>1 DEF Shows
      <4>3. <<>> \in Strings
        BY DEF Strings
      <4>4. Shows(<<>>, r, r)
        BY <2>3, <4>3, ShowsNothingNew
      <4>5. ShowInTurn(Append(before, <<>>), n, r)
        BY <2>2, <2>3, <4>3, <4>4, OneMoreInTurn
      <4>6. it[1 .. j] = Append(before, <<>>)
        BY <2>8, <3>1 DEF Continue
      <4> QED
        BY <2>2, <4>2, <4>5, <4>6
    <3>2. CASE j \notin covered
      <4>1. it[1 .. j] = [before EXCEPT ![Len(before)] = Append(@, c)]
        BY <2>8, <3>2 DEF Continue, c
      <4>2. ShowInTurn(it[1 .. j], n, q)
        BY <2>2, <2>3, <2>5, <2>6, <4>1, LastGrows
      <4>3. it[1 .. j] # <<>>
        <5>1. Len(before) \in DOMAIN before
          BY <2>2
        <5>2. DOMAIN it[1 .. j] = DOMAIN before
          BY <4>1
        <5>3. Len(before) \in DOMAIN it[1 .. j]
          BY <5>1, <5>2
        <5> QED
          BY <5>3
      <4> QED
        BY <4>2, <4>3
    <3> QED
      BY <3>1, <3>2
  <2> QED
    BY <2>4, <2>7, <2>9, <2>10
<1>12. Good = Nat
  <2>1. Good \in SUBSET Nat
    OBVIOUS
  <2> HIDE DEF Good
  <2> QED
    BY <1>10, <1>11, <2>1, NumberInduction
<1>13. it[1 .. len] \in Seq(Strings)
  BY <1>1, <1>12
<1>14. PICK r \in Nat : Shows(SubSeq(s, 1, len), n, r) /\ ShowInTurn(it[1 .. len], n, r)
  BY <1>1, <1>12
<1>15. SubSeq(s, 1, len) = s
  BY <1>1 DEF Strings, len
<1>16. r = m
  <2>1. Shows(s, n, r)
    BY <1>14, <1>15
  <2> QED
    BY <2>1, ShowsOneWay
<1> QED
  BY <1>2, <1>13, <1>14, <1>16

(* The parts of _split begin with a solid character.                       *)
Starts == {q \in Strings : BeginsSolid(q)}

LEMMA StartsAreStrings ==
  /\ Starts \subseteq Strings
  /\ \A p \in Seq(Starts) : p \in Seq(Strings)
BY DEF Starts

LEMMA KeepIsType ==
  ASSUME NEW kept \in Seq(Starts), NEW part \in Strings
  PROVE  Keep(kept, part) \in Seq(Starts)
<1>1. Strip(part) # <<>> => Strip(part) \in Starts
  BY StripIsString DEF Starts
<1> QED
  BY <1>1 DEF Keep

LEMMA KeepInTurn ==
  ASSUME NEW kept \in Seq(Starts), NEW part \in Strings, NEW n, NEW m, NEW k,
         ShowInTurn(kept, n, m), Shows(part, m, k)
  PROVE  ShowInTurn(Keep(kept, part), n, k)
<1>1. Shows(Strip(part), m, k) /\ Strip(part) \in Strings
  BY StripShows, StripIsString
<1>2. kept \in Seq(Strings)
  BY StartsAreStrings
<1>3. CASE Strip(part) = <<>>
  <2>1. m = k
    BY <1>1, <1>3 DEF Shows
  <2> QED
    BY <1>3, <2>1 DEF Keep
<1>4. CASE Strip(part) # <<>>
  <2>1. ShowInTurn(Append(kept, Strip(part)), n, k)
    BY <1>1, <1>2, OneMoreInTurn
  <2> QED
    BY <1>4, <2>1 DEF Keep
<1> QED
  BY <1>3, <1>4

LEMMA KeptInTurn ==
  ASSUME NEW parts \in Seq(Strings), NEW n, NEW m, ShowInTurn(parts, n, m)
  PROVE  /\ FoldLeft(Keep, <<>>, parts) \in Seq(Starts)
         /\ ShowInTurn(FoldLeft(Keep, <<>>, parts), n, m)
<1> DEFINE len == Len(parts)
           step == [at \in Seq(Starts) \X (1 .. len) |->
                      Keep(at[1], parts[at[2]])]
           Found(i) == i = [S \in SUBSET (1 .. len) |->
                     IF S = {} THEN <<>>
                     ELSE Keep(i[S \ {Max(S)}], parts[Max(S)])]
           it == CHOOSE i : Found(i)
<1>1. /\ len \in Nat /\ DOMAIN parts = 1 .. len
      /\ \A i \in 1 .. len : parts[i] \in Strings
  OBVIOUS
<1>2. FoldLeft(Keep, <<>>, parts) = it[1 .. len]
  BY <1>1 DEF FoldLeft, MapThenFoldSet
<1>3. step \in [Seq(Starts) \X (1 .. len) -> Seq(Starts)]
  <2>1. \A kept \in Seq(Starts) : \A i \in 1 .. len :
          Keep(kept, parts[i]) \in Seq(Starts)
    BY <1>1, KeepIsType
  <2> HIDE DEF len
  <2> QED
    BY <2>1
<1>4. <<>> \in Seq(Starts)
  OBVIOUS
<1>5. \E i : Found(i)
  <2> HIDE DEF step, len
  <2>1. HasRecursion(Seq(Starts), <<>>, step, len)
    BY <1>1, <1>3, <1>4, RecursionExists
  <2>2. PICK i \in [SUBSET (1 .. len) -> Seq(Starts)] : Recurs(i, <<>>, step, len)
    BY <2>1 DEF HasRecursion
  <2>3. ASSUME NEW S \in SUBSET (1 .. len)
        PROVE  i[S] = IF S = {} THEN <<>>
                      ELSE Keep(i[S \ {Max(S)}], parts[Max(S)])
    <3>1. CASE S = {}
      BY <2>2, <3>1 DEF Recurs
    <3>2. CASE S # {}
      <4>1. Max(S) \in 1 .. len
        BY <1>1, <3>2, LastOfIndices
      <4>2. S \ {Max(S)} \in SUBSET (1 .. len)
        OBVIOUS
      <4>3. i[S] = step[<<i[S \ {Max(S)}], Max(S)>>]
        BY <2>2, <3>2 DEF Recurs
      <4>4. step[<<i[S \ {Max(S)}], Max(S)>>] = Keep(i[S \ {Max(S)}], parts[Max(S)])
        <5>1. <<i[S \ {Max(S)}], Max(S)>> \in Seq(Starts) \X (1 .. len)
          BY <2>2, <4>1, <4>2
        <5> QED
          BY <5>1 DEF step
      <4> QED
        BY <3>2, <4>3, <4>4
    <3> QED
      BY <3>1, <3>2
  <2>4. i = [S \in SUBSET (1 .. len) |-> i[S]]
    OBVIOUS
  <2> QED
    BY <2>3, <2>4
<1>6. Found(it)
  BY <1>5
<1> HIDE DEF it, step, len
<1>7. it[{}] = <<>>
  BY <1>6
<1>8. ASSUME NEW k \in 1 .. len
      PROVE  it[1 .. k] = Keep(it[1 .. (k - 1)], parts[k])
  <2>1. Max(1 .. k) = k /\ (1 .. k) \ {k} = 1 .. (k - 1)
    BY LastOfAll
  <2>2. 1 .. k \in SUBSET (1 .. len) /\ 1 .. k # {}
    <3>1. \A x \in 1 .. k : x \in 1 .. len
      BY <1>1
    <3>2. k \in 1 .. k
      OBVIOUS
    <3> QED
      BY <3>1, <3>2
  <2>3. it[1 .. k] = Keep(it[(1 .. k) \ {Max(1 .. k)}], parts[Max(1 .. k)])
    BY <1>6, <2>2
  <2> QED
    BY <2>1, <2>3
<1>9. PICK f : GetsTo(f, parts, n, m)
  BY DEF ShowInTurn
<1>10. /\ f \in [0 .. len -> Nat] /\ f[0] = n /\ f[len] = m
       /\ \A k \in 1 .. len : Shows(parts[k], f[k - 1], f[k])
  BY <1>9 DEF GetsTo, len
<1> DEFINE Good == {k \in Nat : k <= len =>
                      it[1 .. k] \in Seq(Starts) /\ ShowInTurn(it[1 .. k], n, f[k])}
<1>11. 0 \in Good
  <2>1. n \in Nat /\ 1 .. 0 = {}
    BY <1>1, <1>10
  <2> QED
    BY <1>4, <1>7, <1>10, <2>1, NoneInTurn
<1>12. ASSUME NEW k \in Good PROVE k + 1 \in Good
  <2>0. k \in Nat
    OBVIOUS
  <2> DEFINE j == k + 1
  <2> SUFFICES ASSUME j <= len
               PROVE  it[1 .. j] \in Seq(Starts) /\ ShowInTurn(it[1 .. j], n, f[j])
    BY <2>0
  <2>1. j \in 1 .. len /\ j - 1 = k /\ k <= len
    BY <1>1, <2>0
  <2>2. it[1 .. k] \in Seq(Starts) /\ ShowInTurn(it[1 .. k], n, f[k])
    BY <2>1
  <2>3. it[1 .. j] = Keep(it[1 .. k], parts[j])
    BY <1>8, <2>1
  <2>4. parts[j] \in Strings /\ Shows(parts[j], f[k], f[j])
    BY <1>1, <1>10, <2>1
  <2> HIDE DEF Good, j
  <2> QED
    BY <2>2, <2>3, <2>4, KeepIsType, KeepInTurn
<1>13. Good = Nat
  <2>1. Good \in SUBSET Nat
    OBVIOUS
  <2> HIDE DEF Good
  <2> QED
    BY <1>11, <1>12, <2>1, NumberInduction
<1>14. it[1 .. len] \in Seq(Starts) /\ ShowInTurn(it[1 .. len], n, f[len])
  BY <1>1, <1>13
<1> QED
  BY <1>2, <1>10, <1>14

LEMMA CutInTurn ==
  ASSUME NEW s \in Strings, NEW separator, IsBreak(separator),
         NEW n, NEW m, Shows(s, n, m)
  PROVE  Cut(s, separator) \in Seq(Starts) /\ ShowInTurn(Cut(s, separator), n, m)
BY BetweenInTurn, KeptInTurn DEF Cut

-----------------------------------------------------------------------------
(* CutLong and Windows.                                                    *)

LEMMA FlattenIsSeq ==
  ASSUME NEW T, NEW p \in Seq(Seq(T))
  PROVE  FlattenSeq(p) \in Seq(T)
<1> DEFINE at == [k \in 0 .. Len(p) |-> Seq(T)]
<1>1. Len(p) \in Nat /\ \A k \in 1 .. Len(p) : p[k] \in Seq(T)
  OBVIOUS
<1>2. <<>> \in at[0]
  BY <1>1
<1>3. ASSUME NEW k \in 1 .. Len(p), NEW q \in at[k - 1] \cap Seq(T)
      PROVE  q \o p[k] \in at[k]
  <2>1. k \in 0 .. Len(p) /\ q \o p[k] \in Seq(T)
    BY <1>1
  <2> QED
    BY <2>1
<1> HIDE DEF at
<1> QED
  BY <1>2, <1>3, FlattenKeeps

LEMMA CutLongInTurn ==
  ASSUME NEW parts \in Seq(Starts), NEW separator, IsBreak(separator), NEW size,
         NEW n, NEW m, ShowInTurn(parts, n, m)
  PROVE  /\ CutLong(parts, separator, size) \in Seq(Starts)
         /\ ShowInTurn(CutLong(parts, separator, size), n, m)
<1> DEFINE len == Len(parts)
           apart == [i \in DOMAIN parts |->
                       IF Len(parts[i]) <= size THEN <<parts[i]>>
                       ELSE Cut(parts[i], separator)]
<1>1. /\ len \in Nat /\ DOMAIN parts = 1 .. len
      /\ \A i \in 1 .. len : parts[i] \in Starts /\ parts[i] \in Strings
  BY StartsAreStrings
<1>2. PICK f : /\ f \in [0 .. len -> Nat] /\ f[0] = n /\ f[len] = m
               /\ \A k \in 1 .. len : Shows(parts[k], f[k - 1], f[k])
  BY DEF ShowInTurn, GetsTo
<1>3. ASSUME NEW i \in 1 .. len
      PROVE  apart[i] \in Seq(Starts) /\ ShowInTurn(apart[i], f[i - 1], f[i])
  <2>0. Shows(parts[i], f[i - 1], f[i])
    BY <1>2
  <2>1. CASE Len(parts[i]) <= size
    <3>1. apart[i] = <<parts[i]>>
      BY <1>1, <2>1
    <3>2. ShowInTurn(<<parts[i]>>, f[i - 1], f[i])
      BY <1>1, <2>0, OneInTurn
    <3>3. <<parts[i]>> \in Seq(Starts)
      BY <1>1
    <3> HIDE DEF apart
    <3> QED
      BY <3>1, <3>2, <3>3
  <2>2. CASE ~ (Len(parts[i]) <= size)
    <3>1. apart[i] = Cut(parts[i], separator)
      BY <1>1, <2>2
    <3> QED
      BY <1>1, <2>0, <3>1, CutInTurn
  <2> QED
    BY <2>1, <2>2
<1>4. DOMAIN apart = 1 .. len
  BY <1>1
<1>5. CutLong(parts, separator, size) = FlattenSeq(apart)
  BY DEF CutLong
<1>6. apart = [i \in 1 .. len |-> apart[i]]
  BY <1>1
<1> HIDE DEF apart
<1>7. apart \in Seq(Seq(Starts)) /\ apart \in Seq(Seq(Strings)) /\ Len(apart) = len
  <2>1. apart \in [1 .. len -> Seq(Starts)]
    BY <1>3, <1>6
  <2>2. \A i \in 1 .. len : apart[i] \in Seq(Strings)
    BY <1>3, StartsAreStrings
  <2>3. apart \in [1 .. len -> Seq(Strings)]
    BY <1>6, <2>2
  <2> HIDE DEF len
  <2> QED
    BY <1>1, <2>1, <2>3
<1>8. ShowInTurn(FlattenSeq(apart), n, m)
  BY <1>2, <1>3, <1>7, PartsOfParts
<1> QED
  BY <1>5, <1>7, <1>8, FlattenIsSeq

(* Windows over a text: fewer than size characters from one to the next.   *)
LEMMA Division ==
  ASSUME NEW a \in Nat, NEW b \in Nat \ {0}
  PROVE  /\ a \div b \in Nat
         /\ (a \div b) * b <= a
         /\ a < (a \div b) * b + b
OBVIOUS

LEMMA Multiples ==
  ASSUME NEW k \in Nat, NEW j \in Nat, k <= j, NEW b \in Nat
  PROVE  k * b <= j * b /\ k * b \in Nat
OBVIOUS

(* Where the windows begin and end.                                        *)
WindowEnd(len, step, size, k) == Smaller((k - 1) * step + size, len)

LEMMA WindowsMeet ==
  ASSUME NEW len \in Nat, NEW step \in Nat \ {0}, NEW size \in Nat,
         step <= size, size < len,
         NEW count, count = (len + step - 1) \div step
  PROVE  /\ count \in Nat /\ count >= 1
         /\ WindowEnd(len, step, size, count) = len
         /\ \A k \in 1 .. count :
              /\ (k - 1) * step \in 0 .. len - 1
              /\ WindowEnd(len, step, size, k) \in (k - 1) * step + 1 .. len
              /\ WindowEnd(len, step, size, k) <= (k - 1) * step + size
              /\ k * step = (k - 1) * step + step
         /\ \A k \in 1 .. count - 1 :
              /\ k * step + 1 <= WindowEnd(len, step, size, k) + 1
              /\ WindowEnd(len, step, size, k) <= WindowEnd(len, step, size, k + 1)
<1>1. count \in Nat /\ count * step <= len + step - 1 /\ len + step - 1 < count * step + step
  <2>1. len + step - 1 \in Nat
    OBVIOUS
  <2> QED
    BY <2>1, Division
<1>2. count >= 1
  <2>1. count = 0 => count * step = 0
    OBVIOUS
  <2> QED
    BY <1>1, <2>1
<1>3. ASSUME NEW k \in 1 .. count
      PROVE  /\ k - 1 \in Nat /\ (k - 1) * step \in Nat
             /\ k * step = (k - 1) * step + step
             /\ k * step <= count * step /\ k * step \in Nat
  <2>1. k \in Nat /\ k - 1 \in Nat /\ k <= count /\ step \in Nat /\ k - 1 <= k
    BY <1>1
  <2>2. k * step <= count * step /\ k * step \in Nat /\ (k - 1) * step \in Nat
    BY <1>1, <2>1, Multiples
  <2>3. k * step = (k - 1) * step + step
    BY <2>1
  <2> QED
    BY <2>1, <2>2, <2>3
<1>4. ASSUME NEW k \in 1 .. count
      PROVE  /\ (k - 1) * step \in 0 .. len - 1
             /\ WindowEnd(len, step, size, k) \in (k - 1) * step + 1 .. len
             /\ WindowEnd(len, step, size, k) <= (k - 1) * step + size
  <2> DEFINE x == (k - 1) * step
             y == k * step
             z == count * step
  <2>1. x \in Nat /\ y \in Nat /\ y = x + step /\ y <= z /\ z <= len + step - 1 /\ z \in Nat
    <3>1. z \in Nat
      BY <1>1, Multiples
    <3> QED
      BY <1>1, <1>3, <3>1
  <2>2. WindowEnd(len, step, size, k) = Smaller(x + size, len)
    BY DEF WindowEnd
  <2> HIDE DEF x, y, z
  <2>3. x \in 0 .. len - 1
    BY <2>1
  <2>4. Smaller(x + size, len) \in x + 1 .. len /\ Smaller(x + size, len) <= x + size
    BY <2>1, <2>3 DEF Smaller
  <2> QED
    BY <2>2, <2>3, <2>4 DEF x
<1>5. WindowEnd(len, step, size, count) = len
  <2> DEFINE x == (count - 1) * step
             z == count * step
  <2>1. x \in Nat /\ z = x + step /\ z \in Nat /\ len - 1 < z
    <3>1. count \in 1 .. count
      BY <1>1, <1>2
    <3> QED
      BY <1>1, <1>3, <3>1
  <2> HIDE DEF x, z
  <2>2. Smaller(x + size, len) = len
    BY <2>1 DEF Smaller
  <2> QED
    BY <2>2 DEF WindowEnd, x
<1>6. ASSUME NEW k \in 1 .. count - 1
      PROVE  /\ k * step + 1 <= WindowEnd(len, step, size, k) + 1
             /\ WindowEnd(len, step, size, k) <= WindowEnd(len, step, size, k + 1)
  <2> DEFINE x == (k - 1) * step
             y == k * step
  <2>1. k \in 1 .. count /\ k + 1 \in 1 .. count /\ (k + 1) - 1 = k
    BY <1>1
  <2>2. x \in Nat /\ y \in Nat /\ y = x + step
    BY <1>3, <2>1
  <2>3. y \in 0 .. len - 1
    BY <1>4, <2>1
  <2>4. /\ WindowEnd(len, step, size, k) = Smaller(x + size, len)
        /\ WindowEnd(len, step, size, k + 1) = Smaller(y + size, len)
    BY <2>1 DEF WindowEnd
  <2> HIDE DEF x, y
  <2>5. y + 1 <= Smaller(x + size, len) + 1 /\ Smaller(x + size, len) <= Smaller(y + size, len)
    BY <2>2, <2>3 DEF Smaller
  <2> QED
    BY <2>4, <2>5 DEF y
<1> QED
  BY <1>1, <1>2, <1>3, <1>4, <1>5, <1>6

(* Pieces of a fitting size.                                               *)
Fitting(size) == {q \in Strings : Len(q) \in 1 .. size}

LEMMA FittingAreStrings ==
  ASSUME NEW size
  PROVE  \A p \in Seq(Fitting(size)) : p \in Seq(Strings)
<1>1. Fitting(size) \subseteq Strings
  BY DEF Fitting
<1> QED
  BY <1>1

(* Windows fit, and show what the whole does; the first begins solid.      *)
LEMMA WindowsInTurn ==
  ASSUME NEW s \in Starts, NEW size \in Nat \ {0}, NEW shared \in 0 .. size - 1,
         NEW n, NEW m, Shows(s, n, m)
  PROVE  /\ Windows(s, size, shared) \in Seq(Fitting(size))
         /\ Windows(s, size, shared) # <<>>
         /\ Windows(s, size, shared)[1] \in Starts
         /\ ShowInTurn(Windows(s, size, shared), n, m)
<1> DEFINE len == Len(s)
           w == Windows(s, size, shared)
<1>1. /\ s \in Strings /\ s \in Seq(Characters) /\ BeginsSolid(s)
      /\ len \in Nat /\ len # 0 /\ DOMAIN s = 1 .. len
  BY DEF Starts, Strings, BeginsSolid
<1>2. CASE len <= size
  <2>1. w = <<s>>
    BY <1>2 DEF Windows
  <2>2. s \in Fitting(size)
    BY <1>1, <1>2 DEF Fitting
  <2>3. ShowInTurn(<<s>>, n, m)
    BY <1>1, OneInTurn
  <2>4. <<s>> \in Seq(Fitting(size)) /\ <<s>> # <<>> /\ <<s>>[1] = s
    BY <2>2
  <2> QED
    BY <2>1, <2>3, <2>4
<1>3. CASE ~ (len <= size)
  <2> DEFINE step == WindowStep(size, shared)
             count == (len + step - 1) \div step
             to(k) == WindowEnd(len, step, size, k)
  <2>1. step \in Nat \ {0} /\ step <= size /\ size < len
    BY <1>1, <1>3 DEF WindowStep
  <2>2. w = [k \in 1 .. count |-> SubSeq(s, (k - 1) * step + 1, to(k))]
    BY <1>3 DEF Windows, WindowEnd
  <2> HIDE DEF step, w
  <2>3. /\ count \in Nat /\ count >= 1
        /\ to(count) = len
        /\ \A k \in 1 .. count :
              /\ (k - 1) * step \in 0 .. len - 1
              /\ to(k) \in (k - 1) * step + 1 .. len
              /\ to(k) <= (k - 1) * step + size
        /\ \A k \in 1 .. count - 1 :
              k * step + 1 <= to(k) + 1 /\ to(k) <= to(k + 1)
    BY <1>1, <2>1, WindowsMeet
  <2> HIDE DEF count, to
  <2>4. ASSUME NEW k \in 1 .. count
        PROVE  w[k] = SubSeq(s, (k - 1) * step + 1, to(k)) /\ w[k] \in Fitting(size)
    <3> DEFINE a == (k - 1) * step
    <3>1. a \in 0 .. len - 1 /\ to(k) \in a + 1 .. len /\ to(k) <= a + size
      BY <2>3
    <3> HIDE DEF a
    <3>2. a + 1 \in 1 .. len + 1 /\ to(k) \in 0 .. len /\ a + 1 <= to(k)
      BY <1>1, <3>1
    <3>3. /\ SubSeq(s, a + 1, to(k)) \in Strings
          /\ Len(SubSeq(s, a + 1, to(k))) = to(k) - (a + 1) + 1
      BY <1>1, <3>2, PartOfString DEF Strings
    <3>4. to(k) - (a + 1) + 1 \in 1 .. size
      BY <1>1, <3>1
    <3>5. SubSeq(s, a + 1, to(k)) \in Fitting(size)
      BY <3>3, <3>4 DEF Fitting
    <3>6. w[k] = SubSeq(s, a + 1, to(k))
      BY <2>2 DEF a
    <3> QED
      BY <3>5, <3>6 DEF a
  <2>5. w \in Seq(Fitting(size)) /\ Len(w) = count /\ DOMAIN w = 1 .. count
    <3>1. w = [k \in 1 .. count |-> w[k]]
      BY <2>2
    <3>2. w \in [1 .. count -> Fitting(size)]
      BY <2>4, <3>1
    <3> QED
      BY <2>3, <3>2
  <2>6. 1 \in 1 .. count /\ (1 - 1) * step + 1 = 1
    BY <2>1, <2>3
  <2>7. w[1] = SubSeq(s, 1, to(1)) /\ to(1) \in 1 .. len
    <3>1. w[1] = SubSeq(s, (1 - 1) * step + 1, to(1))
      BY <2>4, <2>6
    <3>2. to(1) \in (1 - 1) * step + 1 .. len
      BY <2>3, <2>6
    <3> QED
      BY <2>6, <3>1, <3>2
  <2>8. w[1] \in Starts
    <3>1. /\ SubSeq(s, 1, to(1)) \in Strings
          /\ Len(SubSeq(s, 1, to(1))) = to(1) - 1 + 1
          /\ SubSeq(s, 1, to(1))[1] = s[1]
      <4>1. 1 \in 1 .. len + 1 /\ to(1) \in 0 .. len /\ 1 <= to(1) /\ 1 \in 1 .. to(1) - 1 + 1
            /\ 1 + 1 - 1 = 1
        BY <1>1, <2>7
      <4>2. /\ SubSeq(s, 1, to(1)) \in Seq(Characters)
            /\ Len(SubSeq(s, 1, to(1))) = to(1) - 1 + 1
            /\ SubSeq(s, 1, to(1))[1] = s[1 + 1 - 1]
        BY <1>1, <4>1, PartOfString
      <4> QED
        BY <4>1, <4>2 DEF Strings
    <3>2. SubSeq(s, 1, to(1)) # <<>>
      BY <2>7, <3>1
    <3> QED
      BY <1>1, <2>7, <3>1, <3>2 DEF Starts, BeginsSolid
  <2>9. \A k \in 1 .. count : w[k] \in Strings
    BY <2>4 DEF Fitting
  <2> DEFINE first(k) == SubSeq(w, 1, k)
  <2>10. /\ \A k \in 0 .. count : first(k) \in Seq(Strings)
         /\ first(1) = <<w[1]>>
         /\ \A k \in 1 .. count - 1 : first(k + 1) = Append(first(k), w[k + 1])
         /\ first(count) = w
    <3>1. w \in Seq(Strings)
      BY <2>5 DEF Fitting
    <3> HIDE DEF w
    <3>2. ASSUME NEW k \in 0 .. count PROVE first(k) \in Seq(Strings)
      BY <2>3, <2>5, <3>1
    <3>3. first(1) = <<w[1]>>
      BY <2>5, <2>6, <3>1, PartOfOne
    <3>4. ASSUME NEW k \in 1 .. count - 1
          PROVE  first(k + 1) = Append(first(k), w[k + 1])
      BY <2>3, <2>5, <3>1
    <3>5. first(count) = w
      BY <2>3, <2>5, <3>1
    <3> QED
      BY <3>2, <3>3, <3>4, <3>5
  <2> HIDE DEF first
  <2> DEFINE Covers(k) == \E r \in Nat : /\ Shows(SubSeq(s, 1, to(k)), n, r)
                                        /\ ShowInTurn(first(k), n, r)
             Good == {k \in Nat : k + 1 <= count => Covers(k + 1)}
  <2>11. 0 \in Good
    <3>1. to(1) \in 0 .. len
      BY <1>1, <2>7
    <3>2. PICK r \in n .. m : Shows(SubSeq(s, 1, to(1)), n, r)
      BY <1>1, <3>1, BeginningShows
    <3>3. ShowInTurn(first(1), n, r)
      BY <2>6, <2>7, <2>9, <2>10, <3>2, OneInTurn
    <3>4. r \in Nat
      BY <3>2 DEF Shows
    <3>5. Covers(1)
      BY <3>2, <3>3, <3>4
    <3>6. 0 + 1 = 1
      OBVIOUS
    <3> HIDE DEF Covers
    <3> QED
      BY <3>5, <3>6
  <2>12. ASSUME NEW k \in Good PROVE k + 1 \in Good
    <3>0. k \in Nat
      OBVIOUS
    <3> DEFINE j == k + 1
               i == j + 1
    <3> SUFFICES ASSUME i <= count PROVE Covers(i)
      BY <3>0
    <3>1. j <= count
      BY <2>3, <3>0
    <3>2. PICK r \in Nat : Shows(SubSeq(s, 1, to(j)), n, r) /\ ShowInTurn(first(j), n, r)
      BY <3>1
    <3>3. j \in 1 .. count - 1 /\ j \in 1 .. count /\ i \in 1 .. count /\ i = j + 1 /\ i - 1 = j
      BY <2>3, <3>0
    <3> HIDE DEF Good, i, j, Covers
    <3> DEFINE b == j * step + 1
    <3>4. /\ to(j) \in 0 .. len /\ b \in 1 .. to(j) + 1 /\ to(i) \in to(j) .. len
      <4> DEFINE x == (j - 1) * step
                 y == j * step
      <4>1. x \in 0 .. len - 1 /\ to(j) \in x + 1 .. len
        BY <2>3, <3>3
      <4>2. y \in 0 .. len - 1 /\ to(i) \in y + 1 .. len
        BY <2>3, <3>3
      <4>3. y + 1 <= to(j) + 1 /\ to(j) <= to(i)
        BY <2>3, <3>3
      <4>4. b = y + 1
        OBVIOUS
      <4> HIDE DEF x, y, b
      <4> QED
        BY <1>1, <4>1, <4>2, <4>3, <4>4
    <3>5. w[i] = SubSeq(s, b, to(i))
      BY <2>4, <3>3
    <3> HIDE DEF b
    <3>6. PICK q \in r .. m : /\ Shows(SubSeq(s, 1, to(i)), n, q)
                             /\ Shows(SubSeq(s, b, to(i)), r, q)
      BY <1>1, <3>2, <3>4, PartShows
    <3>7. ShowInTurn(Append(first(j), w[i]), n, q)
      <4>1. first(j) \in Seq(Strings)
        BY <2>10, <3>3
      <4>2. w[i] \in Strings
        BY <2>9, <3>3
      <4> QED
        BY <3>2, <3>5, <3>6, <4>1, <4>2, OneMoreInTurn
    <3>8. first(i) = Append(first(j), w[i])
      BY <2>10, <3>3
    <3>9. q \in Nat
      BY <3>6 DEF Shows
    <3> QED
      BY <3>6, <3>7, <3>8, <3>9 DEF Covers
  <2>13. Good = Nat
    <3>1. Good \in SUBSET Nat
      OBVIOUS
    <3> HIDE DEF Good
    <3> QED
      BY <2>11, <2>12, <3>1, NumberInduction
  <2>14. Covers(count)
    <3>1. count - 1 \in Nat /\ (count - 1) + 1 = count /\ (count - 1) + 1 <= count
      BY <2>3
    <3>2. count - 1 \in Good
      <4> HIDE DEF Good
      <4> QED
        BY <2>13, <3>1
    <3>3. Covers((count - 1) + 1)
      <4> HIDE DEF Covers
      <4> QED
        BY <3>1, <3>2
    <3> HIDE DEF Good
    <3> QED
      BY <3>1, <3>3
  <2>15. ShowInTurn(w, n, m)
    <3>1. PICK r \in Nat : Shows(SubSeq(s, 1, len), n, r) /\ ShowInTurn(w, n, r)
      BY <2>3, <2>10, <2>14
    <3>2. SubSeq(s, 1, len) = s
      BY <1>1
    <3>3. r = m
      BY <1>1, <3>1, <3>2, ShowsOneWay
    <3> QED
      BY <3>1, <3>3
  <2>16. w # <<>>
    BY <2>3, <2>5
  <2> QED
    BY <2>5, <2>8, <2>15, <2>16 DEF w
<1> QED
  BY <1>2, <1>3

-----------------------------------------------------------------------------
(* Split.                                                                  *)

LEMMA LevelsInTurn ==
  ASSUME NEW s \in Starts, NEW size, NEW n, NEW m, Shows(s, n, m)
  PROVE  Parts(s, size) \in Seq(Starts) /\ ShowInTurn(Parts(s, size), n, m)
<1> DEFINE T == {ps \in Seq(Starts) : ShowInTurn(ps, n, m)}
           step == [at \in T \X (1 .. 4) |-> CutLong(at[1], Separators[at[2]], size)]
           Found(i) == i = [S \in SUBSET (1 .. 4) |->
                     IF S = {} THEN <<s>>
                     ELSE CutLong(i[S \ {Max(S)}], Separators[Max(S)], size)]
           it == CHOOSE i : Found(i)
<1>1. DOMAIN Separators = 1 .. 4
  BY DEF Separators
<1>2. Parts(s, size) = it[1 .. 4]
  BY <1>1 DEF Parts, FoldLeft, MapThenFoldSet
<1>3. \A ps \in T : \A i \in 1 .. 4 : CutLong(ps, Separators[i], size) \in T
  <2> TAKE ps \in T
  <2> TAKE i \in 1 .. 4
  <2>1. IsBreak(Separators[i])
    BY SeparatorsAreBreaks
  <2> QED
    BY <2>1, CutLongInTurn
<1>4. <<s>> \in T
  <2>1. s \in Strings
    BY DEF Starts
  <2> QED
    BY <2>1, OneInTurn
<1> HIDE DEF T
<1>5. step \in [T \X (1 .. 4) -> T]
  BY <1>3
<1>6. \E i : Found(i)
  <2> HIDE DEF step
  <2>1. HasRecursion(T, <<s>>, step, 4)
    BY <1>4, <1>5, RecursionExists
  <2>2. PICK i \in [SUBSET (1 .. 4) -> T] : Recurs(i, <<s>>, step, 4)
    BY <2>1 DEF HasRecursion
  <2>3. ASSUME NEW S \in SUBSET (1 .. 4)
        PROVE  i[S] = IF S = {} THEN <<s>>
                      ELSE CutLong(i[S \ {Max(S)}], Separators[Max(S)], size)
    <3>1. CASE S = {}
      BY <2>2, <3>1 DEF Recurs
    <3>2. CASE S # {}
      <4>1. Max(S) \in 1 .. 4
        BY <3>2, LastOfIndices
      <4>2. S \ {Max(S)} \in SUBSET (1 .. 4)
        OBVIOUS
      <4>3. i[S] = step[<<i[S \ {Max(S)}], Max(S)>>]
        BY <2>2, <3>2 DEF Recurs
      <4>4. step[<<i[S \ {Max(S)}], Max(S)>>]
              = CutLong(i[S \ {Max(S)}], Separators[Max(S)], size)
        <5>1. <<i[S \ {Max(S)}], Max(S)>> \in T \X (1 .. 4)
          BY <2>2, <4>1, <4>2
        <5> QED
          BY <5>1 DEF step
      <4> QED
        BY <3>2, <4>3, <4>4
    <3> QED
      BY <3>1, <3>2
  <2>4. i = [S \in SUBSET (1 .. 4) |-> i[S]]
    OBVIOUS
  <2> QED
    BY <2>3, <2>4
<1>7. Found(it)
  BY <1>6
<1> HIDE DEF it, step
<1>8. it[{}] \in T
  BY <1>4, <1>7
<1>9. ASSUME NEW k \in 1 .. 4, it[1 .. (k - 1)] \in T
      PROVE  it[1 .. k] \in T
  <2>1. Max(1 .. k) = k /\ (1 .. k) \ {k} = 1 .. (k - 1)
    BY LastOfAll
  <2>2. 1 .. k \in SUBSET (1 .. 4) /\ 1 .. k # {}
    <3>1. \A x \in 1 .. k : x \in 1 .. 4
      OBVIOUS
    <3>2. k \in 1 .. k
      OBVIOUS
    <3> QED
      BY <3>1, <3>2
  <2>3. it[1 .. k] = CutLong(it[(1 .. k) \ {Max(1 .. k)}], Separators[Max(1 .. k)], size)
    BY <1>7, <2>2
  <2> QED
    BY <1>3, <1>9, <2>1, <2>3
<1>10. it[1 .. 4] \in T
  BY <1>8, <1>9, RecursionKeeps
<1> QED
  BY <1>2, <1>10 DEF T

(* What a list of lists begins with. *)
LEMMA FlattenBegins ==
  ASSUME NEW T, NEW U, NEW p \in Seq(Seq(T)),
         \A k \in 1 .. Len(p) : p[k] # <<>> /\ p[k][1] \in U
  PROVE  FlattenSeq(p) # <<>> => FlattenSeq(p)[1] \in U
<1> DEFINE at == [k \in 0 .. Len(p) |-> {q \in Seq(T) : q # <<>> => q[1] \in U}]
<1>1. Len(p) \in Nat /\ \A k \in 1 .. Len(p) : p[k] \in Seq(T)
  OBVIOUS
<1>2. <<>> \in at[0]
  BY <1>1
<1>3. ASSUME NEW k \in 1 .. Len(p), NEW q \in at[k - 1] \cap Seq(T)
      PROVE  q \o p[k] \in at[k]
  <2>1. k \in 0 .. Len(p) /\ k - 1 \in 0 .. Len(p)
    BY <1>1
  <2>2. q \in Seq(T) /\ p[k] \in Seq(T) /\ q \o p[k] \in Seq(T)
    BY <1>1
  <2>3. CASE q = <<>>
    <3>1. q \o p[k] = p[k]
      BY <2>2, <2>3
    <3> QED
      BY <2>1, <2>2, <3>1
  <2>4. CASE q # <<>>
    <3>1. (q \o p[k])[1] = q[1] /\ q[1] \in U
      <4>1. (q \o p[k])[1] = q[1]
        BY <2>2, <2>4
      <4> QED
        BY <2>1, <2>4, <4>1
    <3> QED
      BY <2>1, <2>2, <3>1
  <2> QED
    BY <2>3, <2>4
<1>4. Len(p) \in 0 .. Len(p)
  BY <1>1
<1>5. FlattenSeq(p) \in at[Len(p)]
  <2> HIDE DEF at
  <2> QED
    BY <1>2, <1>3, FlattenKeeps
<1> QED
  BY <1>4, <1>5

LEMMA SplitInTurn ==
  ASSUME NEW s \in Starts, NEW size \in Nat \ {0}, NEW shared \in 0 .. size - 1,
         NEW n, NEW m, Shows(s, n, m)
  PROVE  /\ Split(s, size, shared) \in Seq(Fitting(size))
         /\ Split(s, size, shared) # <<>> => Split(s, size, shared)[1] \in Starts
         /\ ShowInTurn(Split(s, size, shared), n, m)
<1> DEFINE parts == Parts(s, size)
           len == Len(parts)
           apart == [i \in DOMAIN parts |-> Windows(parts[i], size, shared)]
<1>1. parts \in Seq(Starts) /\ ShowInTurn(parts, n, m)
  BY LevelsInTurn
<1>2. Split(s, size, shared) = FlattenSeq(apart)
  BY DEF Split
<1> HIDE DEF parts
<1>3. len \in Nat /\ DOMAIN parts = 1 .. len /\ \A i \in 1 .. len : parts[i] \in Starts
  BY <1>1
<1>4. PICK f : /\ f \in [0 .. len -> Nat] /\ f[0] = n /\ f[len] = m
               /\ \A k \in 1 .. len : Shows(parts[k], f[k - 1], f[k])
  BY <1>1 DEF ShowInTurn, GetsTo
<1>5. ASSUME NEW i \in 1 .. len
      PROVE  /\ apart[i] \in Seq(Fitting(size)) /\ apart[i] # <<>>
             /\ apart[i][1] \in Starts
             /\ ShowInTurn(apart[i], f[i - 1], f[i])
  <2>1. Shows(parts[i], f[i - 1], f[i]) /\ parts[i] \in Starts
    BY <1>3, <1>4
  <2>2. apart[i] = Windows(parts[i], size, shared)
    BY <1>3
  <2> HIDE DEF apart
  <2> QED
    BY <2>1, <2>2, WindowsInTurn
<1>6. apart = [i \in 1 .. len |-> apart[i]]
  BY <1>3
<1> HIDE DEF apart, len
<1>7. /\ apart \in Seq(Seq(Fitting(size))) /\ apart \in Seq(Seq(Strings))
      /\ Len(apart) = len
  <2>1. apart \in [1 .. len -> Seq(Fitting(size))]
    BY <1>5, <1>6
  <2>2. \A i \in 1 .. len : apart[i] \in Seq(Strings)
    BY <1>5, FittingAreStrings
  <2>3. apart \in [1 .. len -> Seq(Strings)]
    BY <1>6, <2>2
  <2> QED
    BY <1>3, <2>1, <2>3
<1>8. ShowInTurn(FlattenSeq(apart), n, m)
  BY <1>4, <1>5, <1>7, PartsOfParts
<1>9. FlattenSeq(apart) \in Seq(Fitting(size))
  BY <1>7, FlattenIsSeq
<1>10. FlattenSeq(apart) # <<>> => FlattenSeq(apart)[1] \in Starts
  BY <1>5, <1>7, FlattenBegins
<1> QED
  BY <1>2, <1>8, <1>9, <1>10

-----------------------------------------------------------------------------
(* Texts: letters are numbered in order.                                   *)

Kinds == Blanks \cup {Dot, 1}

LEMMA NumberedInTurn ==
  ASSUME NEW kinds \in Seq(Kinds), Len(kinds) <= MaxLength
  PROVE  /\ NumberLetters(kinds) \in Strings
         /\ BeginsSolid(kinds) => BeginsSolid(NumberLetters(kinds))
         /\ kinds = <<>> => NumberLetters(kinds) = <<>>
         /\ \E m \in Nat : Shows(NumberLetters(kinds), 0, m)
<1> DEFINE len == Len(kinds)
           q == NumberLetters(kinds)
           upto(i) == {j \in 1 .. i : kinds[j] = 1}
<1>1. /\ len \in Nat /\ DOMAIN kinds = 1 .. len
      /\ \A i \in 1 .. len : kinds[i] \in Kinds
      /\ len <= MaxLength /\ MaxLength \in Nat
  BY BoundsAreNat
<1>2. /\ q = [i \in 1 .. len |-> q[i]]
      /\ \A i \in 1 .. len :
           q[i] = IF kinds[i] # 1 THEN kinds[i] ELSE Cardinality(upto(i))
  BY <1>1 DEF NumberLetters
<1> HIDE DEF q, len
<1>3. \A i \in 1 .. len : kinds[i] # 1 =>
         q[i] = kinds[i] /\ q[i] <= 0 /\ q[i] \in Characters
  <2> TAKE i \in 1 .. len
  <2> HAVE kinds[i] # 1
  <2>1. q[i] = kinds[i] /\ kinds[i] \in Blanks \cup {Dot}
    BY <1>1, <1>2 DEF Kinds
  <2> QED
    BY <2>1 DEF Blanks, Space, Newline, Tab, Dot, Characters
<1>4. ASSUME NEW i \in 1 .. len
      PROVE  IsFiniteSet(upto(i)) /\ Cardinality(upto(i)) \in 0 .. i
  <2>1. i \in Int /\ i >= 1 /\ 1 \in Int
    BY <1>1
  <2>2. IsFiniteSet(1 .. i) /\ Cardinality(1 .. i) = i
    BY <2>1, FS_Interval
  <2>3. upto(i) \in SUBSET (1 .. i)
    OBVIOUS
  <2> HIDE DEF upto
  <2>4. IsFiniteSet(upto(i)) /\ Cardinality(upto(i)) <= i
    BY <2>2, <2>3, FS_Subset
  <2>5. Cardinality(upto(i)) \in Nat
    BY <2>4, FS_CardinalityType
  <2> QED
    BY <2>1, <2>4, <2>5
<1>5. ASSUME NEW i \in 1 .. len, kinds[i] = 1
      PROVE  /\ q[i] = Cardinality(upto(i)) /\ q[i] \in 1 .. MaxLength
             /\ q[i] \in Characters
             /\ q[i] <= 1 \/ \E j \in 1 .. i - 1 : q[j] >= q[i] - 1
  <2> DEFINE rest == upto(i) \ {i}
  <2>1. q[i] = Cardinality(upto(i))
    BY <1>2, <1>5
  <2>2. i \in upto(i)
    BY <1>1, <1>5
  <2>3. IsFiniteSet(rest) /\ Cardinality(rest) = Cardinality(upto(i)) - 1
    <3> HIDE DEF upto
    <3> QED
      BY <1>4, <2>2, FS_RemoveElement
  <2>4. Cardinality(rest) \in Nat
    BY <2>3, FS_CardinalityType
  <2>5. q[i] \in 1 .. MaxLength
    <3>1. Cardinality(upto(i)) \in 0 .. i
      BY <1>4
    <3> HIDE DEF upto, rest
    <3> QED
      BY <1>1, <2>1, <2>3, <2>4, <3>1
  <2>6. q[i] \in Characters
    BY <2>5 DEF Characters
  <2>7. rest = {j \in 1 .. i - 1 : kinds[j] = 1}
    BY <1>1
  <2>8. CASE rest = {}
    <3>1. Cardinality(rest) = 0
      BY <2>8, FS_EmptySet
    <3> HIDE DEF rest, upto
    <3>2. q[i] <= 1
      BY <2>1, <2>3, <2>5, <3>1
    <3> QED
      BY <2>1, <2>5, <2>6, <3>2
  <2>9. CASE rest # {}
    <3> DEFINE j == Max(rest)
    <3>1. i - 1 \in Nat /\ rest \in SUBSET (1 .. i - 1)
      BY <1>1, <2>7
    <3>2. j \in rest /\ (\A x \in rest : j >= x) /\ j \in 1 .. i - 1
      <4> HIDE DEF rest
      <4> QED
        BY <2>9, <3>1, LastOfIndices
    <3> HIDE DEF j
    <3>3. upto(j) = rest
      <4>1. \A x \in 1 .. i - 1 : x \in rest <=> x \in 1 .. j /\ kinds[x] = 1
        BY <1>1, <2>7, <3>2
      <4>2. \A x \in 1 .. j : x \in 1 .. i - 1
        BY <3>1, <3>2
      <4> QED
        BY <2>7, <4>1, <4>2
    <3>4. j \in 1 .. len /\ kinds[j] = 1
      BY <1>1, <2>7, <3>2
    <3>5. q[j] = Cardinality(rest)
      BY <1>2, <3>3, <3>4
    <3>6. q[j] >= q[i] - 1
      <4> HIDE DEF rest, upto
      <4> QED
        BY <2>1, <2>3, <2>4, <2>5, <3>5
    <3> QED
      BY <2>1, <2>5, <2>6, <3>2, <3>6
  <2> QED
    BY <2>8, <2>9
<1> HIDE DEF upto
<1>6. q \in Strings /\ Len(q) = len /\ DOMAIN q = 1 .. len
  <2>1. \A i \in 1 .. len : q[i] \in Characters
    BY <1>3, <1>5
  <2>2. q \in [1 .. len -> Characters]
    BY <1>2, <2>1
  <2> QED
    BY <1>1, <2>2 DEF Strings
<1>7. BeginsSolid(kinds) => BeginsSolid(q)
  <2> SUFFICES ASSUME BeginsSolid(kinds) PROVE BeginsSolid(q)
    OBVIOUS
  <2>1. kinds # <<>> /\ kinds[1] \notin Blanks
    BY DEF BeginsSolid
  <2>2. 1 \in 1 .. len
    BY <1>1, <2>1 DEF len
  <2>3. q[1] \notin Blanks
    <3>1. CASE kinds[1] = 1
      <4>1. q[1] \in 1 .. MaxLength
        BY <1>5, <2>2, <3>1
      <4> QED
        BY <4>1, CharactersAreNumbers
    <3>2. CASE kinds[1] # 1
      BY <1>3, <2>1, <2>2, <3>2
    <3> QED
      BY <3>1, <3>2
  <2>4. q # <<>>
    BY <1>6, <2>2
  <2> QED
    BY <2>3, <2>4 DEF BeginsSolid
<1>8. \E m \in Nat : Shows(q, 0, m)
  <2> DEFINE T == {0} \cup {c \in 1 .. MaxLength : \E i \in 1 .. len : q[i] = c}
             m == Max(T)
  <2>1. T \in SUBSET (0 .. MaxLength) /\ T # {}
    BY <1>1
  <2>2. m \in T /\ \A c \in T : m >= c
    <3> HIDE DEF T
    <3> QED
      BY <1>1, <2>1, GreatestNumber
  <2>3. m \in Nat /\ (m = 0 \/ \E i \in 1 .. len : q[i] = m)
    <3> HIDE DEF m
    <3> QED
      BY <1>1, <2>2
  <2>4. \A i \in 1 .. len : q[i] <= m
    <3> TAKE i \in 1 .. len
    <3>1. CASE kinds[i] = 1
      <4>1. q[i] \in T
        BY <1>5, <3>1
      <4> HIDE DEF T, m
      <4> QED
        BY <2>2, <2>3, <4>1, <1>5, <3>1
    <3>2. CASE kinds[i] # 1
      <4>1. q[i] <= 0 /\ q[i] \in Int
        BY <1>3, <3>2, CharactersAreNumbers
      <4> HIDE DEF m
      <4> QED
        BY <2>3, <4>1
    <3> QED
      BY <3>1, <3>2
  <2> HIDE DEF m
  <2>5. ASSUME NEW i \in 1 .. len
        PROVE  q[i] <= 0 + 1 \/ \E j \in 1 .. i - 1 : q[j] >= q[i] - 1
    <3>1. CASE kinds[i] = 1
      BY <1>5, <3>1
    <3>2. CASE kinds[i] # 1
      <4>1. q[i] <= 0 /\ q[i] \in Int
        BY <1>3, <3>2, CharactersAreNumbers
      <4> QED
        BY <4>1
    <3> QED
      BY <3>1, <3>2
  <2>6. Shows(q, 0, m)
    <3>1. 0 \in Nat /\ 0 <= m
      BY <2>3
    <3> QED
      BY <1>6, <2>3, <2>4, <2>5, <3>1 DEF Shows
  <2> QED
    BY <2>3, <2>6
<1>9. kinds = <<>> => q = <<>>
  BY DEF q, NumberLetters
<1> QED
  BY <1>6, <1>7, <1>8, <1>9 DEF q

LEMMA TextsInTurn ==
  ASSUME NEW t \in Texts
  PROVE  /\ t \in Strings
         /\ t # <<>> => t \in Starts
         /\ \E m \in Nat : Shows(t, 0, m)
<1>0. PICK n \in 0 .. MaxLength :
        \E kinds \in [1 .. n -> Kinds] : t = NumberLetters(Strip(kinds))
  BY DEF Texts, Kinds
<1>1. PICK kinds \in [1 .. n -> Kinds] : t = NumberLetters(Strip(kinds))
  BY <1>0
<1> DEFINE k == Strip(kinds)
<1>2. MaxLength \in Nat /\ n \in Nat /\ n <= MaxLength
  BY <1>1, BoundsAreNat
<1>3. kinds \in Seq(Kinds) /\ Len(kinds) = n
  BY <1>2
<1>4. kinds \in Strings
  <2>1. \A i \in 1 .. n : kinds[i] \in Characters
    <3> TAKE i \in 1 .. n
    <3>1. 1 \in 1 .. MaxLength
      BY <1>2
    <3>2. kinds[i] \in Kinds
      OBVIOUS
    <3> QED
      BY <3>1, <3>2 DEF Kinds, Characters
  <2>2. kinds \in [1 .. n -> Characters]
    BY <2>1
  <2> QED
    BY <1>2, <2>2 DEF Strings
<1>5. k \in Seq(Kinds) /\ Len(k) <= MaxLength /\ (k # <<>> => BeginsSolid(k))
  <2>1. Len(k) \in 0 .. Len(kinds) /\ (k # <<>> => BeginsSolid(k))
    BY <1>4, StripIsString
  <2>2. k \in Seq(Kinds)
    <3>1. CASE IsSolid(kinds)
      <4>1. PICK a, b \in DOMAIN kinds : k = SubSeq(kinds, a, b)
        BY <1>4, <3>1, StripIsPart
      <4>2. a \in 1 .. Len(kinds) + 1 /\ b \in 0 .. Len(kinds)
        BY <1>2, <1>3
      <4> HIDE DEF k
      <4> QED
        BY <1>3, <4>1, <4>2, PartOfString
    <3>2. CASE ~ IsSolid(kinds)
      <4>1. k = <<>>
        BY <3>2, StripOfBlank
      <4> QED
        BY <4>1
    <3> QED
      BY <3>1, <3>2
  <2> HIDE DEF k
  <2> QED
    BY <1>2, <1>3, <2>1, <2>2
<1>6. t = NumberLetters(k)
  BY <1>1
<1> HIDE DEF k
<1> QED
  BY <1>5, <1>6, NumberedInTurn DEF Starts

-----------------------------------------------------------------------------
(* What the loop joins: a beginning, a space and a piece.                  *)
Joined(p, q) == p \o <<Space>> \o q

LEMMA JoinedParts ==
  ASSUME NEW p \in Strings, NEW q \in Strings
  PROVE  /\ Joined(p, q) \in Strings
         /\ Len(Joined(p, q)) = Len(p) + 1 + Len(q)
         /\ DOMAIN Joined(p, q) = 1 .. Len(p) + 1 + Len(q)
         /\ \A i \in 1 .. Len(p) : Joined(p, q)[i] = p[i]
         /\ Joined(p, q)[Len(p) + 1] = Space
         /\ \A i \in 1 .. Len(q) : Joined(p, q)[Len(p) + 1 + i] = q[i]
<1>1. <<Space>> \in Seq(Characters)
  BY CharactersAreNumbers
<1> QED
  BY <1>1 DEF Joined, Strings

LEMMA JoinedSolid ==
  ASSUME NEW p \in Strings, NEW q \in Strings, IsSolid(p) \/ IsSolid(q)
  PROVE  IsSolid(Joined(p, q))
<1>1. Len(p) \in Nat /\ Len(q) \in Nat /\ DOMAIN p = 1 .. Len(p) /\ DOMAIN q = 1 .. Len(q)
  BY StringOfCharacters
<1>2. CASE IsSolid(p)
  <2>1. PICK i \in 1 .. Len(p) : p[i] \notin Blanks
    BY <1>1, <1>2 DEF IsSolid
  <2>2. i \in DOMAIN Joined(p, q) /\ Joined(p, q)[i] = p[i]
    <3>1. i \in 1 .. Len(p) + 1 + Len(q)
      BY <1>1
    <3> QED
      BY <3>1, JoinedParts
  <2> QED
    BY <2>1, <2>2 DEF IsSolid
<1>3. CASE IsSolid(q)
  <2>1. PICK i \in 1 .. Len(q) : q[i] \notin Blanks
    BY <1>1, <1>3 DEF IsSolid
  <2>2. Len(p) + 1 + i \in DOMAIN Joined(p, q) /\ Joined(p, q)[Len(p) + 1 + i] = q[i]
    <3>1. Len(p) + 1 + i \in 1 .. Len(p) + 1 + Len(q)
      BY <1>1
    <3> QED
      BY <3>1, JoinedParts
  <2> QED
    BY <2>1, <2>2 DEF IsSolid
<1> QED
  BY <1>2, <1>3

LEMMA JoinedShows ==
  ASSUME NEW p \in Strings, NEW q \in Strings, NEW n, NEW m, NEW k,
         Shows(p, n, m), Shows(q, m, k)
  PROVE  Shows(Strip(Joined(p, q)), n, k)
<1>1. <<Space>> \in Strings
  BY CharactersAreNumbers DEF Strings
<1>2. m \in Nat
  BY DEF Shows
<1>3. Shows(<<Space>>, m, m)
  <2>1. \A i \in DOMAIN <<Space>> : <<Space>>[i] <= m
    BY <1>2 DEF Space
  <2> QED
    BY <1>1, <1>2, <2>1, ShowsNothingNew
<1>4. p \o <<Space>> \in Strings /\ Shows(p \o <<Space>>, n, m)
  <2>1. p \o <<Space>> \in Strings
    BY <1>1 DEF Strings
  <2> QED
    BY <1>1, <1>3, <2>1, ShowsInTurn
<1>5. Shows(Joined(p, q), n, k)
  BY <1>4, ShowsInTurn DEF Joined
<1> QED
  BY <1>5, JoinedParts, StripShows

(* strip() takes a blank piece away, and the space that nothing precedes.  *)
LEMMA JoinedLength ==
  ASSUME NEW p \in Strings, NEW q \in Strings
  PROVE  /\ Len(Strip(Joined(p, q))) <= Len(p) + 1 + Len(q)
         /\ ~ IsSolid(q) => Len(Strip(Joined(p, q))) <= Len(p)
         /\ p = <<>> => Len(Strip(Joined(p, q))) <= Len(q)
<1> DEFINE r == Joined(p, q)
           a == Len(p)
           b == Len(q)
<1>1. /\ r \in Strings /\ Len(r) = a + 1 + b /\ DOMAIN r = 1 .. a + 1 + b
      /\ r[a + 1] = Space
      /\ \A i \in 1 .. b : r[a + 1 + i] = q[i]
      /\ a \in Nat /\ b \in Nat /\ DOMAIN q = 1 .. b
  BY JoinedParts, StringOfCharacters
<1>2. Space \in Blanks
  BY CharactersAreNumbers
<1>3. p = <<>> => a = 0
  OBVIOUS
<1> HIDE DEF r, a, b
<1>4. CASE ~ IsSolid(r)
  <2>1. Strip(r) = <<>>
    BY <1>4, StripOfBlank
  <2> QED
    BY <1>1, <2>1 DEF r, a, b
<1>5. CASE IsSolid(r)
  <2>1. Len(Strip(r)) \in 1 .. Len(r)
    BY <1>1, <1>5, StripKeeps
  <2>2. ASSUME ~ IsSolid(q) PROVE Len(Strip(r)) <= a
    <3>1. \A i \in DOMAIN r : i > a => r[i] \in Blanks
      <4> TAKE i \in DOMAIN r
      <4> HAVE i > a
      <4>1. i = a + 1 \/ (i - a - 1 \in 1 .. b /\ a + 1 + (i - a - 1) = i)
        BY <1>1
      <4>2. CASE i = a + 1
        BY <1>1, <1>2, <4>2
      <4>3. CASE i - a - 1 \in 1 .. b /\ a + 1 + (i - a - 1) = i
        <5>1. r[i] = q[i - a - 1]
          BY <1>1, <4>3
        <5>2. q[i - a - 1] \in Blanks
          BY <1>1, <2>2, <4>3 DEF IsSolid
        <5> QED
          BY <5>1, <5>2
      <4> QED
        BY <4>1, <4>2, <4>3
    <3>2. a \in 0 .. Len(r)
      BY <1>1
    <3> QED
      BY <1>1, <1>5, <3>1, <3>2, StripKeeps
  <2>3. ASSUME a = 0 PROVE Len(Strip(r)) <= b
    <3>1. \A i \in DOMAIN r : i <= 1 => r[i] \in Blanks
      BY <1>1, <1>2, <2>3
    <3>2. 1 \in 0 .. Len(r)
      BY <1>1
    <3>3. Len(Strip(r)) <= Len(r) - 1
      BY <1>1, <1>5, <3>1, <3>2, StripKeeps
    <3> QED
      BY <1>1, <2>1, <2>3, <3>3
  <2> QED
    BY <1>1, <1>3, <2>1, <2>2, <2>3 DEF r, a, b
<1> QED
  BY <1>4, <1>5

(* The end of the chunk before.                                            *)
LEMMA LastOfParts ==
  ASSUME NEW s \in Strings, NEW n \in Nat
  PROVE  /\ LastOf(s, n) \in Strings
         /\ Len(LastOf(s, n)) <= n
         /\ n = 0 => LastOf(s, n) = <<>>
         /\ n # 0 /\ EndsSolid(s) => EndsSolid(LastOf(s, n))
         /\ \A i \in DOMAIN LastOf(s, n) : \E j \in DOMAIN s : LastOf(s, n)[i] = s[j]
<1> DEFINE len == Len(s)
           a == Larger(1, len - n + 1)
           t == LastOf(s, n)
<1>1. len \in Nat /\ DOMAIN s = 1 .. len /\ s \in Seq(Characters)
  BY DEF Strings
<1>2. t = SubSeq(s, a, len)
  BY DEF LastOf
<1>3. /\ a \in 1 .. len + 1 /\ len \in 0 .. len /\ len - a + 1 <= n /\ len - a + 1 \in Nat
      /\ n = 0 => a = len + 1
      /\ n # 0 /\ len # 0 => a <= len
  BY <1>1 DEF Larger
<1> HIDE DEF a, t
<1>4. /\ t \in Seq(Characters)
      /\ a <= len => Len(t) = len - a + 1
      /\ a > len => Len(t) = 0 /\ t = <<>>
      /\ \A i \in 1 .. len - a + 1 : t[i] = s[a + i - 1]
  BY <1>1, <1>2, <1>3, PartOfString
<1>5. Len(t) = len - a + 1 /\ DOMAIN t = 1 .. len - a + 1
  <2>1. Len(t) = len - a + 1
    BY <1>1, <1>3, <1>4
  <2> QED
    BY <1>4, <2>1
<1>6. \A i \in DOMAIN t : \E j \in DOMAIN s : t[i] = s[j]
  <2> TAKE i \in DOMAIN t
  <2>1. a + i - 1 \in DOMAIN s
    BY <1>1, <1>3, <1>5
  <2> QED
    BY <1>4, <1>5, <2>1
<1>7. ASSUME n # 0, EndsSolid(s) PROVE EndsSolid(t)
  <2>1. len # 0 /\ s[len] \notin Blanks
    BY <1>1, <1>7 DEF EndsSolid
  <2>2. a <= len /\ Len(t) \in 1 .. len - a + 1 /\ a + Len(t) - 1 = len
    BY <1>1, <1>3, <1>5, <1>7, <2>1
  <2>3. t[Len(t)] = s[len]
    BY <1>4, <2>2
  <2>4. t # <<>>
    BY <1>4, <2>2
  <2> QED
    BY <2>1, <2>3, <2>4 DEF EndsSolid
<1>8. n = 0 => t = <<>>
  BY <1>1, <1>3, <1>4
<1>9. t \in Strings /\ Len(t) <= n
  BY <1>3, <1>4, <1>5 DEF Strings
<1> QED
  BY <1>6, <1>7, <1>8, <1>9 DEF t

(* Letters that are shown one after the other are all shown.               *)
LEMMA LettersShown ==
  ASSUME NEW q \in Strings, NEW m, Shows(q, 0, m)
  PROVE  Letters(q) = 1 .. m
<1>1. /\ Len(q) \in Nat /\ DOMAIN q = 1 .. Len(q)
      /\ \A i \in 1 .. Len(q) : q[i] \in Int
  BY StringOfCharacters
<1>2. m \in Nat /\ \A i \in 1 .. Len(q) : q[i] <= m
  BY <1>1 DEF Shows
<1>3. \A c : c \in Letters(q) <=> c > 0 /\ \E i \in 1 .. Len(q) : q[i] = c
  BY <1>1 DEF Letters, ToSet
<1>4. ASSUME NEW c \in 1 .. m
      PROVE  \E i \in 1 .. Len(q) : q[i] = c
  <2> DEFINE T == {i \in 1 .. Len(q) : q[i] >= c}
  <2>1. T # {} /\ T \in SUBSET Nat
    <3>1. PICK i \in 1 .. Len(q) : q[i] = m
      BY <1>1, <1>2 DEF Shows
    <3>2. i \in T
      BY <1>1, <1>2, <3>1
    <3> QED
      BY <3>2
  <2>2. PICK i \in T : \A j \in T : i <= j
    <3> HIDE DEF T
    <3> QED
      BY <2>1, LeastNumber
  <2>3. i \in 1 .. Len(q) /\ q[i] >= c /\ q[i] \in Int
    BY <1>1
  <2>4. CASE q[i] # c
    <3>1. ~ (q[i] <= 0 + 1)
      BY <1>2, <2>3, <2>4
    <3>2. PICK j \in 1 .. i - 1 : q[j] >= q[i] - 1
      BY <1>1, <2>3, <3>1 DEF Shows
    <3>3. j \in 1 .. Len(q) /\ j < i
      BY <1>1, <2>3
    <3>4. q[j] >= c
      BY <1>1, <1>2, <2>3, <2>4, <3>2, <3>3
    <3>5. j \in T
      BY <3>3, <3>4
    <3> QED
      BY <1>1, <2>2, <2>3, <3>3, <3>5
  <2> QED
    BY <2>3, <2>4
<1>5. \A c \in Letters(q) : c \in 1 .. m
  BY <1>1, <1>2, <1>3
<1>6. \A c \in 1 .. m : c \in Letters(q)
  BY <1>2, <1>3, <1>4
<1> QED
  BY <1>5, <1>6
-----------------------------------------------------------------------------
(* The loop.                                                               *)
Bound == IF overlap = 0 THEN chunk_size ELSE chunk_size + overlap + 1

(* The pieces fit, and the first of them is not blank: the chunk being     *)
(* built is solid from then on.                                            *)
PiecesHold ==
  /\ pieces \in Seq(Fitting(chunk_size))
  /\ pieces # <<>> => pieces[1] \in Starts

(* Only a chunk that begins with the end of another is longer than         *)
(* chunk_size, and then it ends with the piece, which is not blank.        *)
ChunkHolds ==
  /\ next = 1 => current = <<>> /\ merged = <<>>
  /\ next # 1 /\ pieces # <<>> => IsSolid(current)
  /\ Len(current) <= Bound
  /\ Len(current) > chunk_size => overlap # 0 /\ EndsSolid(current)

(* The chunks and the one being built have shown what the pieces before    *)
(* next have.                                                              *)
ReadSoFar ==
  \E f, m, r :
    /\ GetsTo(f, pieces, 0, m) /\ Shows(text, 0, m)
    /\ next <= Len(pieces) + 1 =>
         ShowInTurn(merged, 0, r) /\ Shows(current, r, f[next - 1])
    /\ next = Len(pieces) + 2 => ShowInTurn(merged, 0, m)

(* The inductive invariant.                                                *)
ChunksInv == ChunkerInv /\ PiecesHold /\ ChunkHolds /\ ReadSoFar

LEMMA ChunksInvInit == ChunkerInit => ChunksInv
<1> SUFFICES ASSUME ChunkerInit
             PROVE  ChunksInv
  OBVIOUS
<1>1. /\ text \in Texts /\ chunk_size \in 1 .. MaxSize /\ overlap \in 0 .. chunk_size - 1
      /\ pieces = IF text = <<>> THEN <<>> ELSE Split(text, chunk_size, overlap)
      /\ next = 1 /\ current = <<>> /\ merged = <<>>
  BY DEF ChunkerInit
<1>2. chunk_size \in Nat \ {0} /\ overlap \in Nat /\ MaxSize \in Nat
  BY <1>1, BoundsAreNat
<1>3. text \in Strings /\ (text # <<>> => text \in Starts)
  BY <1>1, TextsInTurn
<1>4. PICK m \in Nat : Shows(text, 0, m)
  BY <1>1, TextsInTurn
<1>5. PiecesHold /\ ShowInTurn(pieces, 0, m)
  <2>1. CASE text = <<>>
    <3>1. pieces = <<>> /\ m = 0
      BY <1>1, <1>4, <2>1 DEF Shows
    <3> QED
      BY <3>1, NoneInTurn DEF PiecesHold
  <2>2. CASE text # <<>>
    BY <1>1, <1>2, <1>3, <1>4, <2>2, SplitInTurn DEF PiecesHold
  <2> QED
    BY <2>1, <2>2
<1>6. pieces \in Seq(Strings) /\ \A i \in DOMAIN pieces : pieces[i] \in Fitting(chunk_size)
  BY <1>5, FittingAreStrings DEF PiecesHold
<1>7. PiecesFit
  BY <1>6 DEF PiecesFit, Fitting
<1>8. ChunkerTypeOK
  BY <1>1, <1>3, <1>6 DEF ChunkerTypeOK, Strings
<1>9. NoBlankChunk /\ LengthBound
  BY <1>1 DEF NoBlankChunk, LengthBound
<1>10. ChunkHolds
  BY <1>1, <1>2 DEF ChunkHolds, Bound
<1>11. ReadSoFar
  <2>1. PICK f : GetsTo(f, pieces, 0, m)
    BY <1>5 DEF ShowInTurn
  <2>2. f[next - 1] = 0
    BY <1>1, <2>1 DEF GetsTo
  <2>3. ShowInTurn(merged, 0, 0)
    BY <1>1, NoneInTurn
  <2>4. Shows(current, 0, f[next - 1])
    <3>1. current \in Strings /\ \A i \in DOMAIN current : current[i] <= 0
      BY <1>1 DEF Strings
    <3> QED
      BY <2>2, <3>1, ShowsNothingNew
  <2>5. next # Len(pieces) + 2
    BY <1>1, <1>6
  <2> QED
    BY <1>4, <2>1, <2>3, <2>4, <2>5 DEF ReadSoFar
<1> QED
  BY <1>5, <1>7, <1>8, <1>9, <1>10, <1>11 DEF ChunksInv, ChunkerInv

(* The state as the steps need it. *)
LEMMA ChunksState ==
  ASSUME ChunksInv
  PROVE  /\ text \in Strings /\ current \in Strings
         /\ merged \in Seq(Strings) /\ pieces \in Seq(Strings)
         /\ chunk_size \in Nat \ {0} /\ overlap \in Nat /\ overlap < chunk_size
         /\ next \in Nat \ {0} /\ next <= Len(pieces) + 2 /\ Len(pieces) \in Nat
         /\ next <= Len(pieces) =>
              pieces[next] \in Strings /\ Len(pieces[next]) <= chunk_size
<1>1. ChunkerTypeOK /\ PiecesFit
  BY DEF ChunksInv, ChunkerInv
<1>2. /\ text \in Strings /\ current \in Strings
      /\ merged \in Seq(Seq(Characters) \ {<<>>}) /\ pieces \in Seq(Strings)
      /\ chunk_size \in 1 .. MaxSize /\ overlap \in 0 .. chunk_size - 1
      /\ next \in 1 .. Len(pieces) + 2
  BY <1>1 DEF ChunkerTypeOK, Strings
<1>3. merged \in Seq(Strings)
  BY <1>2 DEF Strings
<1>4. Len(pieces) \in Nat /\ MaxSize \in Nat
  BY <1>2, BoundsAreNat
<1>5. /\ chunk_size \in Nat \ {0} /\ overlap \in Nat /\ overlap < chunk_size
      /\ next \in Nat \ {0} /\ next <= Len(pieces) + 2
  BY <1>2, <1>4
<1>6. next <= Len(pieces) => pieces[next] \in Strings /\ Len(pieces[next]) <= chunk_size
  BY <1>1, <1>2, <1>4, <1>5 DEF PiecesFit
<1> QED
  BY <1>2, <1>3, <1>4, <1>5, <1>6

(* One more chunk that is solid and within the bound. *)
LEMMA OneMoreChunk ==
  ASSUME ChunksInv, IsSolid(current)
  PROVE  /\ Append(merged, current) \in Seq(Seq(Characters) \ {<<>>})
         /\ \A i \in DOMAIN Append(merged, current) :
              /\ Strip(Append(merged, current)[i]) # <<>>
              /\ Len(Append(merged, current)[i]) <= Bound
<1>1. /\ merged \in Seq(Seq(Characters) \ {<<>>}) /\ current \in Seq(Characters)
      /\ \A i \in DOMAIN merged : Strip(merged[i]) # <<>> /\ Len(merged[i]) <= Bound
      /\ Len(current) <= Bound
  BY DEF ChunksInv, ChunkerInv, ChunkerTypeOK, NoBlankChunk, LengthBound, ChunkHolds, Bound
<1>2. Strip(current) # <<>>
  BY <1>1, StripIsString DEF Strings
<1>3. current # <<>>
  BY DEF IsSolid
<1>4. /\ Append(merged, current) \in Seq(Seq(Characters) \ {<<>>})
      /\ DOMAIN Append(merged, current) = 1 .. Len(merged) + 1
      /\ Append(merged, current)[Len(merged) + 1] = current
      /\ \A i \in 1 .. Len(merged) : Append(merged, current)[i] = merged[i]
      /\ Len(merged) \in Nat /\ DOMAIN merged = 1 .. Len(merged)
  BY <1>1, <1>3
<1>5. \A i \in 1 .. Len(merged) + 1 : i = Len(merged) + 1 \/ i \in 1 .. Len(merged)
  BY <1>4
<1> QED
  BY <1>1, <1>2, <1>4, <1>5

(* What a turn of the loop leaves behind.                                  *)
Built(f) ==
  /\ current' \in Strings
  /\ merged' \in Seq(Seq(Characters) \ {<<>>})
  /\ \A i \in DOMAIN merged' : Strip(merged'[i]) # <<>> /\ Len(merged'[i]) <= Bound
  /\ IsSolid(current') /\ Len(current') <= Bound
  /\ Len(current') > chunk_size => overlap # 0 /\ EndsSolid(current')
  /\ \E r : ShowInTurn(merged', 0, r) /\ Shows(current', r, f[next])

(* The piece fits. *)
LEMMA PieceFits ==
  ASSUME ChunksInv, next <= Len(pieces),
         current' = Candidate(pieces[next]), merged' = merged,
         Len(Candidate(pieces[next])) <= chunk_size,
         NEW f, NEW r, ShowInTurn(merged, 0, r),
         Shows(current, r, f[next - 1]), Shows(pieces[next], f[next - 1], f[next])
  PROVE  Built(f)
<1> DEFINE piece == pieces[next]
<1>1. /\ current \in Strings /\ piece \in Strings
      /\ chunk_size \in Nat \ {0} /\ overlap \in Nat /\ pieces \in Seq(Strings)
      /\ next \in Nat \ {0} /\ Len(pieces) \in Nat
  BY ChunksState
<1>2. ChunkHolds /\ PiecesHold /\ pieces # <<>>
  BY <1>1 DEF ChunksInv
<1>3. current' \in Strings /\ IsSolid(current') /\ Shows(current', r, f[next])
  <2>1. CASE next = 1
    <3>1. current = <<>> /\ current' = piece /\ piece \in Starts
      BY <1>2, <2>1 DEF ChunkHolds, Candidate, PiecesHold
    <3>2. r = f[next - 1]
      BY <3>1 DEF Shows
    <3>3. IsSolid(piece)
      BY <1>1, <3>1, SolidEnds DEF Starts
    <3> QED
      BY <1>1, <3>1, <3>2, <3>3
  <2>2. CASE next # 1
    <3>1. IsSolid(current)
      BY <1>2, <2>2 DEF ChunkHolds
    <3>2. current # <<>>
      BY <3>1 DEF IsSolid
    <3>3. current' = Strip(Joined(current, piece))
      BY <3>2 DEF Candidate, Joined
    <3>4. Joined(current, piece) \in Strings /\ IsSolid(Joined(current, piece))
      BY <1>1, <3>1, JoinedParts, JoinedSolid
    <3>5. current' \in Strings /\ current' # <<>> /\ EndsSolid(current')
      BY <3>3, <3>4, StripIsString
    <3>6. Shows(current', r, f[next])
      BY <1>1, <3>3, JoinedShows
    <3> QED
      BY <3>5, <3>6, SolidEnds
  <2> QED
    BY <2>1, <2>2
<1>4. Len(current') <= chunk_size /\ Len(current') \in Nat
  BY <1>3 DEF Strings
<1>5. Len(current') <= Bound /\ ~ (Len(current') > chunk_size)
  BY <1>1, <1>4 DEF Bound
<1>6. /\ merged' \in Seq(Seq(Characters) \ {<<>>})
      /\ \A i \in DOMAIN merged' : Strip(merged'[i]) # <<>> /\ Len(merged'[i]) <= Bound
  BY DEF ChunksInv, ChunkerInv, ChunkerTypeOK, NoBlankChunk, LengthBound, Bound
<1> QED
  BY <1>3, <1>5, <1>6 DEF Built

(* It does not: the chunk is closed, and the next begins with its end.     *)
LEMMA PieceOverflows ==
  ASSUME ChunksInv, next <= Len(pieces), current # <<>>,
         Len(Candidate(pieces[next])) > chunk_size,
         merged' = Append(merged, current),
         current' = Strip(Prefix \o <<Space>> \o pieces[next]),
         NEW f, NEW r, ShowInTurn(merged, 0, r),
         Shows(current, r, f[next - 1]), Shows(pieces[next], f[next - 1], f[next])
  PROVE  Built(f)
<1> DEFINE piece == pieces[next]
<1>1. /\ current \in Strings /\ piece \in Strings /\ Len(piece) <= chunk_size
      /\ chunk_size \in Nat \ {0} /\ overlap \in Nat /\ pieces \in Seq(Strings)
      /\ next \in Nat \ {0} /\ Len(pieces) \in Nat /\ merged \in Seq(Strings)
      /\ Len(current) \in Nat /\ Len(piece) \in Nat
  BY ChunksState DEF Strings
<1>2. ChunkHolds /\ pieces # <<>>
  BY <1>1 DEF ChunksInv
<1>3. next # 1 /\ IsSolid(current)
  BY <1>2 DEF ChunkHolds
<1>4. /\ Prefix \in Strings /\ Len(Prefix) <= overlap /\ Len(Prefix) \in Nat
      /\ overlap = 0 => Prefix = <<>>
      /\ overlap # 0 /\ EndsSolid(current) => EndsSolid(Prefix)
      /\ \A i \in DOMAIN Prefix : \E j \in DOMAIN current : Prefix[i] = current[j]
  BY <1>1, LastOfParts DEF Prefix, Strings
<1>5. current' = Strip(Joined(Prefix, piece))
  BY DEF Joined
<1>6. Candidate(piece) = Strip(Joined(current, piece))
  BY DEF Candidate, Joined
<1>7. IsSolid(Prefix) \/ IsSolid(piece)
  <2> SUFFICES ASSUME ~ IsSolid(piece)
               PROVE  IsSolid(Prefix)
    OBVIOUS
  <2>1. Len(Candidate(piece)) <= Len(current)
    BY <1>1, <1>6, JoinedLength
  <2>2. Len(Candidate(piece)) \in Nat
    BY <1>1, <1>6, JoinedParts, StripIsString DEF Strings
  <2>3. Len(current) > chunk_size
    BY <1>1, <2>1, <2>2
  <2>4. EndsSolid(Prefix)
    BY <1>2, <1>4, <2>3 DEF ChunkHolds
  <2> QED
    BY <1>4, <2>4, SolidEnds
<1>8. Joined(Prefix, piece) \in Strings /\ IsSolid(Joined(Prefix, piece))
  BY <1>1, <1>4, <1>7, JoinedParts, JoinedSolid
<1>9. /\ current' \in Strings /\ current' # <<>> /\ EndsSolid(current')
      /\ Len(current') \in Nat
  BY <1>5, <1>8, StripIsString DEF Strings
<1>10. IsSolid(current')
  BY <1>9, SolidEnds
<1>11. /\ Len(current') <= Len(Prefix) + 1 + Len(piece)
       /\ Prefix = <<>> => Len(current') <= Len(piece)
  BY <1>1, <1>4, <1>5, JoinedLength
<1>12. /\ Len(current') <= Bound
       /\ Len(current') > chunk_size => overlap # 0
  <2>1. CASE overlap = 0
    <3>1. Len(current') <= chunk_size
      BY <1>1, <1>4, <1>9, <1>11, <2>1
    <3> QED
      BY <1>1, <1>9, <2>1, <3>1 DEF Bound
  <2>2. CASE overlap # 0
    <3>1. Len(current') <= chunk_size + overlap + 1
      <4> DEFINE a == Len(current')
                 b == Len(Prefix)
                 c == Len(piece)
      <4>1. a \in Nat /\ b \in Nat /\ c \in Nat /\ b <= overlap /\ c <= chunk_size
        BY <1>1, <1>4, <1>9
      <4>2. a <= b + 1 + c
        BY <1>11
      <4> HIDE DEF a, b, c
      <4>3. a <= chunk_size + overlap + 1
        BY <1>1, <4>1, <4>2
      <4> QED
        BY <4>3 DEF a
    <3> QED
      BY <2>2, <3>1 DEF Bound
  <2> QED
    BY <2>1, <2>2
<1>13. ShowInTurn(merged', 0, f[next - 1])
  BY <1>1, OneMoreInTurn
<1>14. Shows(Prefix, f[next - 1], f[next - 1])
  <2>1. f[next - 1] \in Nat /\ \A j \in DOMAIN current : current[j] <= f[next - 1]
    BY DEF Shows
  <2> QED
    BY <1>4, <2>1, ShowsNothingNew
<1>15. Shows(current', f[next - 1], f[next])
  BY <1>1, <1>4, <1>5, <1>14, JoinedShows
<1>16. /\ merged' \in Seq(Seq(Characters) \ {<<>>})
       /\ \A i \in DOMAIN merged' : Strip(merged'[i]) # <<>> /\ Len(merged'[i]) <= Bound
  BY <1>3, OneMoreChunk
<1> QED
  BY <1>9, <1>10, <1>12, <1>13, <1>15, <1>16 DEF Built

(* A turn of the loop; no piece is cut there (chunker.py:41-43).           *)
LEMMA AddPieceKeeps ==
  ASSUME ChunksInv, AddPiece
  PROVE  ChunksInv'
<1> DEFINE piece == pieces[next]
<1>1. /\ next <= Len(pieces) /\ next' = next + 1
      /\ text' = text /\ chunk_size' = chunk_size /\ overlap' = overlap /\ pieces' = pieces
      /\ IF Len(Candidate(piece)) <= chunk_size
         THEN current' = Candidate(piece) /\ merged' = merged
         ELSE IF current # <<>>
         THEN /\ merged' = Append(merged, current)
              /\ current' = Strip(Prefix \o <<Space>> \o piece)
         ELSE /\ merged' = Append(merged, SubSeq(piece, 1, chunk_size))
              /\ current' = SubSeq(piece, chunk_size - overlap + 1, Len(piece))
  BY DEF AddPiece
<1>2. /\ current \in Strings /\ piece \in Strings /\ Len(piece) <= chunk_size
      /\ chunk_size \in Nat \ {0} /\ pieces \in Seq(Strings)
      /\ next \in Nat \ {0} /\ Len(pieces) \in Nat
      /\ Len(piece) \in Nat
  BY <1>1, ChunksState DEF Strings
<1>3. PICK f, m, r :
        /\ GetsTo(f, pieces, 0, m) /\ Shows(text, 0, m)
        /\ next <= Len(pieces) + 1 =>
             ShowInTurn(merged, 0, r) /\ Shows(current, r, f[next - 1])
  BY DEF ChunksInv, ReadSoFar
<1>4. ShowInTurn(merged, 0, r) /\ Shows(current, r, f[next - 1])
  BY <1>1, <1>2, <1>3
<1>5. Shows(piece, f[next - 1], f[next])
  BY <1>1, <1>2, <1>3 DEF GetsTo
<1>6. Built(f)
  <2>1. CASE Len(Candidate(piece)) <= chunk_size
    BY <1>1, <1>4, <1>5, <2>1, PieceFits
  <2>2. CASE ~ (Len(Candidate(piece)) <= chunk_size)
    <3>1. current # <<>>
      BY <1>2, <2>2 DEF Candidate
    <3>2. Len(Candidate(piece)) \in Nat
      <4>1. Candidate(piece) = Strip(Joined(current, piece))
        BY <3>1 DEF Candidate, Joined
      <4> QED
        BY <1>2, <4>1, JoinedParts, StripIsString DEF Strings
    <3>3. Len(Candidate(piece)) > chunk_size
      BY <1>2, <2>2, <3>2
    <3> QED
      BY <1>1, <1>4, <1>5, <2>2, <3>1, <3>3, PieceOverflows
  <2> QED
    BY <2>1, <2>2
<1> HIDE DEF piece
<1>7. /\ current' \in Strings
      /\ merged' \in Seq(Seq(Characters) \ {<<>>})
      /\ \A i \in DOMAIN merged' : Strip(merged'[i]) # <<>> /\ Len(merged'[i]) <= Bound
      /\ IsSolid(current') /\ Len(current') <= Bound
      /\ Len(current') > chunk_size => overlap # 0 /\ EndsSolid(current')
  BY <1>6 DEF Built
<1>8. Bound' = Bound
  BY <1>1 DEF Bound
<1>9. ChunkerTypeOK'
  BY <1>1, <1>2, <1>7 DEF ChunksInv, ChunkerInv, ChunkerTypeOK, Strings
<1>10. NoBlankChunk' /\ LengthBound'
  BY <1>1, <1>7 DEF NoBlankChunk, LengthBound, Bound
<1>11. PiecesFit' /\ PiecesHold'
  BY <1>1 DEF ChunksInv, ChunkerInv, PiecesFit, PiecesHold
<1>12. ChunkHolds'
  <2>1. next' # 1
    BY <1>1, <1>2
  <2> QED
    BY <1>1, <1>7, <1>8, <2>1 DEF ChunkHolds
<1>13. ReadSoFar'
  <2>1. PICK k : ShowInTurn(merged', 0, k) /\ Shows(current', k, f[next])
    BY <1>6 DEF Built
  <2>2. next' - 1 = next /\ next' # Len(pieces) + 2
    BY <1>1, <1>2
  <2>3. Shows(current', k, f[next' - 1])
    BY <2>1, <2>2
  <2> QED
    BY <1>1, <1>3, <2>1, <2>2, <2>3 DEF ReadSoFar
<1> QED
  BY <1>9, <1>10, <1>11, <1>12, <1>13 DEF ChunksInv, ChunkerInv

LEMMA AppendLastKeeps ==
  ASSUME ChunksInv, AppendLast
  PROVE  ChunksInv'
<1>1. /\ next = Len(pieces) + 1 /\ next' = next + 1
      /\ merged' = IF current = <<>> THEN merged ELSE Append(merged, current)
      /\ text' = text /\ chunk_size' = chunk_size /\ overlap' = overlap
      /\ pieces' = pieces /\ current' = current
  BY DEF AppendLast
<1>2. /\ current \in Strings /\ merged \in Seq(Strings) /\ pieces \in Seq(Strings)
      /\ next \in Nat \ {0} /\ Len(pieces) \in Nat
  BY ChunksState
<1>3. ChunkHolds /\ PiecesHold /\ ChunkerTypeOK /\ PiecesFit /\ NoBlankChunk /\ LengthBound
  BY DEF ChunksInv, ChunkerInv
<1>4. PICK f, m, r :
        /\ GetsTo(f, pieces, 0, m) /\ Shows(text, 0, m)
        /\ next <= Len(pieces) + 1 =>
             ShowInTurn(merged, 0, r) /\ Shows(current, r, f[next - 1])
  BY DEF ChunksInv, ReadSoFar
<1>5. ShowInTurn(merged, 0, r) /\ Shows(current, r, m)
  <2>1. next <= Len(pieces) + 1 /\ next - 1 = Len(pieces)
    BY <1>1, <1>2
  <2> QED
    BY <1>4, <2>1 DEF GetsTo
<1>6. /\ merged' \in Seq(Seq(Characters) \ {<<>>})
      /\ \A i \in DOMAIN merged' : Strip(merged'[i]) # <<>> /\ Len(merged'[i]) <= Bound
      /\ ShowInTurn(merged', 0, m)
  <2>1. CASE current = <<>>
    <3>1. r = m
      BY <1>5, <2>1 DEF Shows
    <3>2. merged' = merged
      BY <1>1, <2>1
    <3> QED
      BY <1>3, <1>5, <3>1, <3>2 DEF ChunkerTypeOK, NoBlankChunk, LengthBound, Bound
  <2>2. CASE current # <<>>
    <3>1. merged' = Append(merged, current)
      BY <1>1, <2>2
    <3>2. next # 1
      BY <1>3, <2>2 DEF ChunkHolds
    <3>3. pieces # <<>>
      BY <1>1, <1>2, <3>2
    <3>4. IsSolid(current)
      BY <1>3, <3>2, <3>3 DEF ChunkHolds
    <3>5. ShowInTurn(merged', 0, m)
      BY <1>2, <1>5, <3>1, OneMoreInTurn
    <3> QED
      BY <3>1, <3>4, <3>5, OneMoreChunk
  <2> QED
    BY <2>1, <2>2
<1>7. ChunkerTypeOK'
  BY <1>1, <1>2, <1>3, <1>6 DEF ChunkerTypeOK
<1>8. NoBlankChunk' /\ LengthBound'
  BY <1>1, <1>6 DEF NoBlankChunk, LengthBound, Bound
<1>9. PiecesFit' /\ PiecesHold'
  BY <1>1, <1>3 DEF PiecesFit, PiecesHold
<1>10. ChunkHolds'
  <2>1. next' # 1 /\ (pieces # <<>> => next # 1)
    BY <1>1, <1>2
  <2> QED
    BY <1>1, <1>3, <2>1 DEF ChunkHolds, Bound
<1>11. ReadSoFar'
  <2>1. ~ (next' <= Len(pieces) + 1)
    BY <1>1, <1>2
  <2> QED
    BY <1>1, <1>4, <1>6, <2>1 DEF ReadSoFar
<1> QED
  BY <1>7, <1>8, <1>9, <1>10, <1>11 DEF ChunksInv, ChunkerInv

LEMMA ChunksInvNext == ChunksInv /\ [ChunkerNext]_ChunkerVars => ChunksInv'
<1> SUFFICES ASSUME ChunksInv, [ChunkerNext]_ChunkerVars
             PROVE  ChunksInv'
  OBVIOUS
<1>1. CASE AddPiece
  BY <1>1, AddPieceKeeps
<1>2. CASE AppendLast
  BY <1>2, AppendLastKeeps
<1>3. CASE UNCHANGED ChunkerVars
  <2>1. /\ text' = text /\ chunk_size' = chunk_size /\ overlap' = overlap
        /\ pieces' = pieces /\ next' = next /\ current' = current /\ merged' = merged
    BY <1>3 DEF ChunkerVars
  <2>2. ChunkerInv'
    BY <2>1 DEF ChunksInv, ChunkerInv, ChunkerTypeOK, PiecesFit, NoBlankChunk, LengthBound
  <2>3. PiecesHold' /\ ChunkHolds'
    BY <2>1 DEF ChunksInv, PiecesHold, ChunkHolds, Bound
  <2>4. ReadSoFar'
    BY <2>1 DEF ChunksInv, ReadSoFar
  <2> QED
    BY <2>2, <2>3, <2>4 DEF ChunksInv
<1> QED
  BY <1>1, <1>2, <1>3 DEF ChunkerNext

(* RecursiveCharacterChunker.split: every state satisfies the inductive    *)
(* invariant, whatever the text, chunk_size and overlap.                   *)
THEOREM ChunksInvariant == ChunkerSpec => []ChunksInv
<1> QED
  BY ChunksInvInit, ChunksInvNext, PTL DEF ChunkerSpec

(* No chunk is blank, none is longer than a prefix, a space and a piece,   *)
(* and the loop never has to cut a piece (chunker.py:41-43).               *)
THEOREM ChunksAreSound == ChunkerSpec => []ChunkerInv
<1>1. ChunksInv => ChunkerInv
  BY DEF ChunksInv
<1> QED
  BY <1>1, ChunksInvariant, PTL

(* Every letter of the text is in the chunks, and read one after the other *)
(* they show each for the first time after the one before it.              *)
THEOREM ChunksCoverTheText == ChunkerSpec => []TextIsCovered
<1>1. ChunksInv => TextIsCovered
  <2> SUFFICES ASSUME ChunksInv, Done
               PROVE  /\ Letters(FlattenSeq(merged)) = Letters(text)
                      /\ \A i \in DOMAIN FlattenSeq(merged) :
                           FlattenSeq(merged)[i] > 1 =>
                             \E j \in 1 .. i - 1 :
                               FlattenSeq(merged)[j] >= FlattenSeq(merged)[i] - 1
    BY DEF TextIsCovered
  <2> DEFINE shown == FlattenSeq(merged)
  <2>1. text \in Strings /\ merged \in Seq(Strings)
    BY ChunksState
  <2>2. PICK m : Shows(text, 0, m) /\ ShowInTurn(merged, 0, m)
    BY DEF ChunksInv, ReadSoFar, Done
  <2>3. shown \in Strings /\ Shows(shown, 0, m)
    BY <2>1, <2>2, FlattenShows
  <2> HIDE DEF shown
  <2>4. Letters(shown) = Letters(text)
    BY <2>1, <2>2, <2>3, LettersShown
  <2>5. \A i \in DOMAIN shown : shown[i] > 1 => \E j \in 1 .. i - 1 : shown[j] >= shown[i] - 1
    <3>1. DOMAIN shown = 1 .. Len(shown) /\ \A i \in 1 .. Len(shown) : shown[i] \in Int
      BY <2>3, StringOfCharacters
    <3> QED
      BY <2>3, <3>1 DEF Shows
  <2> QED
    BY <2>4, <2>5 DEF shown
<1> QED
  BY <1>1, ChunksInvariant, PTL


-----------------------------------------------------------------------------
(* The order of chunks, for a list docs of chunk counts.                   *)

(* Chunks of the documents before the d-th.                                *)
Before(docs, d) == SumFunctionOnSet(docs, 1 .. (d - 1))

(* Vectors of document d when the first e chunks are embedded ...          *)
Received(docs, d, e) ==
  IF e <= Before(docs, d) THEN 0
  ELSE IF Before(docs, d) + docs[d] <= e THEN docs[d]
  ELSE e - Before(docs, d)

(* ... and those vectors of every document.                                *)
VectorsAt(docs, e) ==
  [d \in DOMAIN docs |-> [i \in 1 .. Received(docs, d, e) |-> <<d, i>>]]

(* The vectors with that of one chunk more.                                *)
WithVector(vectors, chunk) ==
  [vectors EXCEPT ![chunk[1]] = Append(@, chunk)]

(* The chunk has this place in the order.                                  *)
IsChunkAt(docs, chunk, place) ==
  /\ chunk[1] \in DOMAIN docs
  /\ chunk[2] \in 1 .. docs[chunk[1]]
  /\ chunk = <<chunk[1], chunk[2]>>
  /\ Before(docs, chunk[1]) + chunk[2] = place

(* The batch holds the chunks that follow the first e.                     *)
Follows(docs, batch, e) ==
  \A n \in 1 .. Len(batch) : IsChunkAt(docs, batch[n], e + n)

(* The chunks that the loop has taken, and of those the embedded ones.     *)
Taken == Before(documents, loaded) + chunked

Embedded == Taken - Len(pending_chunks)

-----------------------------------------------------------------------------
(* The inductive invariant.                                                *)

(* Where the loop stands in its documents.                                 *)
LoopInv ==
  /\ loaded = 0 => chunked = 0 /\ stage # "chunking"
  /\ loaded > 0 =>
       /\ chunked <= documents[loaded]
       /\ stage \in {"loading", "done"} => chunked = documents[loaded]
  /\ stage # "leftover"
  /\ stage = "done" => loaded = Len(documents) /\ pending_chunks = <<>>

(* What is embedded, and what waits for it.                                *)
VectorInv ==
  /\ Embedded \in Nat
  /\ embeddings = VectorsAt(documents, Embedded)
  /\ Follows(documents, pending_chunks, Embedded)
  /\ Len(pending_chunks) < batch_size

(* The first documents are stored, the others that are loaded wait; e is   *)
(* the number of embedded chunks.                                          *)
StoresThose(e) ==
  LET s == Len(stored) IN
  /\ s <= loaded
  /\ stored = [i \in 1 .. s |-> i]
  /\ pending_documents = [i \in 1 .. (loaded - s) |-> s + i]
  /\ Before(documents, s + 1) <= e
  /\ embedded_chunks = Before(documents, s + 1)

(* Only the oldest document that waits has vectors.                        *)
StoredInv ==
  /\ StoresThose(Embedded)
  /\ Len(stored) < loaded => Embedded <= Before(documents, Len(stored) + 2)
  /\ stage = "done" => Len(stored) = loaded

(* The batches before the last are full.                                   *)
CounterInv ==
  /\ stage \in {"loading", "chunking"} =>
       Embedded = batch_size * embedding_batches
  /\ stage = "done" => CountersExact

BatchInv == TypeOK /\ LoopInv /\ VectorInv /\ StoredInv /\ CounterInv
-----------------------------------------------------------------------------
(* Facts about the order of chunks.                                        *)

(* No chunk is before the first document.                                  *)
LEMMA BeforeTheFirst ==
  ASSUME NEW docs
  PROVE  Before(docs, 0) = 0 /\ Before(docs, 1) = 0
<1>1. 1 .. (0 - 1) = {} /\ 1 .. (1 - 1) = {}
  OBVIOUS
<1> QED
  BY <1>1, SumOfNone DEF Before

(* Before the next document there are also those of this one.              *)
LEMMA BeforeTheNext ==
  ASSUME NEW docs \in Seq(Nat), NEW d \in 1 .. Len(docs)
  PROVE  /\ Before(docs, d) \in Nat
         /\ docs[d] \in Nat
         /\ Before(docs, d + 1) = Before(docs, d) + docs[d]
<1> DEFINE S == 1 .. (d - 1)
<1>1. IsFiniteSet(S) /\ d \notin S
  BY FS_Interval
<1>2. \A y \in S \cup {d} : docs[y] \in Nat
  OBVIOUS
<1>3. 1 .. ((d + 1) - 1) = S \cup {d}
  OBVIOUS
<1>4. SumFunctionOnSet(docs, S) \in Nat
  BY <1>1, <1>2, SumIsNat
<1>5. SumFunctionOnSet(docs, S \cup {d}) = SumFunctionOnSet(docs, S) + docs[d]
  <2>1. \A y \in S \cup {d} : docs[y] \in Int
    BY <1>2
  <2> HIDE DEF S
  <2> QED
    BY <1>1, <2>1, SumOfOneMore
<1> QED
  BY <1>2, <1>3, <1>4, <1>5 DEF Before

(* Later documents come after more chunks.                                 *)
LEMMA BeforeGrows ==
  ASSUME NEW docs \in Seq(Nat)
  PROVE  /\ \A d \in 0 .. Len(docs) + 1 : Before(docs, d) \in Nat
         /\ \A d, e \in 0 .. Len(docs) + 1 : d <= e => Before(docs, d) <= Before(docs, e)
<1>1. \A d \in 0 .. Len(docs) + 1 : Before(docs, d) \in Nat
  <2> TAKE d \in 0 .. Len(docs) + 1
  <2>1. CASE d \in {0, 1}
    BY <2>1, BeforeTheFirst
  <2>2. CASE d \notin {0, 1}
    <3>1. d - 1 \in 1 .. Len(docs) /\ (d - 1) + 1 = d
      BY <2>2
    <3>2. Before(docs, d) = Before(docs, d - 1) + docs[d - 1]
      BY <3>1, BeforeTheNext
    <3> QED
      BY <3>1, <3>2, BeforeTheNext
  <2> QED
    BY <2>1, <2>2
<1>2. \A d \in 0 .. Len(docs) : Before(docs, d) <= Before(docs, d + 1)
  <2> TAKE d \in 0 .. Len(docs)
  <2>1. CASE d = 0
    BY <2>1, BeforeTheFirst
  <2>2. CASE d \in 1 .. Len(docs)
    BY <2>2, BeforeTheNext
  <2> QED
    BY <2>1, <2>2
<1> DEFINE S == {n \in Nat : \A d \in 0 .. Len(docs) + 1 :
                    d + n <= Len(docs) + 1 => Before(docs, d) <= Before(docs, d + n)}
<1>3. 0 \in S
  BY <1>1
<1>4. ASSUME NEW n \in S PROVE n + 1 \in S
  <2> SUFFICES ASSUME NEW d \in 0 .. Len(docs) + 1, d + (n + 1) <= Len(docs) + 1
               PROVE  Before(docs, d) <= Before(docs, d + (n + 1))
    OBVIOUS
  <2>1. d + n \in 0 .. Len(docs) /\ (d + n) + 1 = d + (n + 1)
    OBVIOUS
  <2>2. Before(docs, d) <= Before(docs, d + n)
    BY <2>1
  <2>3. Before(docs, d + n) <= Before(docs, d + (n + 1))
    BY <1>2, <2>1
  <2>4. /\ Before(docs, d) \in Nat
        /\ Before(docs, d + n) \in Nat
        /\ Before(docs, d + (n + 1)) \in Nat
    BY <1>1, <2>1
  <2> QED
    BY <2>2, <2>3, <2>4
<1>5. S = Nat
  <2>1. S \in SUBSET Nat
    OBVIOUS
  <2> HIDE DEF S
  <2> QED
    BY <1>3, <1>4, <2>1, NumberInduction
<1>6. ASSUME NEW d \in 0 .. Len(docs) + 1, NEW e \in 0 .. Len(docs) + 1, d <= e
      PROVE  Before(docs, d) <= Before(docs, e)
  <2>1. e - d \in S /\ d + (e - d) = e
    <3>1. e - d \in Nat /\ d + (e - d) = e
      BY <1>6
    <3> QED
      BY <1>5, <3>1
  <2> QED
    BY <2>1
<1> QED
  BY <1>1, <1>6

(* Before the end there are all chunks.                                    *)
LEMMA BeforeTheEnd ==
  ASSUME NEW docs \in Seq(Nat)
  PROVE  Before(docs, Len(docs) + 1) = SumFunction(docs)
<1>1. 1 .. ((Len(docs) + 1) - 1) = DOMAIN docs
  OBVIOUS
<1> QED
  BY <1>1 DEF Before, SumFunction

(* The vectors of one document.                                            *)
LEMMA VectorsOfDocument ==
  ASSUME NEW docs \in Seq(Nat), NEW d \in 1 .. Len(docs), NEW e
  PROVE  VectorsAt(docs, e)[d] = [i \in 1 .. Received(docs, d, e) |-> <<d, i>>]
<1>1. d \in DOMAIN docs
  OBVIOUS
<1> QED
  BY <1>1 DEF VectorsAt

(* How many vectors a document can have.                                   *)
LEMMA ReceivedIsRight ==
  ASSUME NEW docs \in Seq(Nat), NEW d \in 1 .. Len(docs), NEW e \in Nat
  PROVE  /\ Received(docs, d, e) \in 0 .. docs[d]
         /\ Len(VectorsAt(docs, e)[d]) = Received(docs, d, e)
<1>1. Before(docs, d) \in Nat /\ docs[d] \in Nat
  BY BeforeTheNext
<1>2. Received(docs, d, e) \in 0 .. docs[d]
  BY <1>1 DEF Received
<1>3. VectorsAt(docs, e)[d] = [i \in 1 .. Received(docs, d, e) |-> <<d, i>>]
  BY VectorsOfDocument
<1>4. Received(docs, d, e) \in Nat
  BY <1>1, <1>2
<1> QED
  BY <1>2, <1>3, <1>4

(* One chunk more is one vector more, for its document.                    *)
LEMMA NextVector ==
  ASSUME NEW docs \in Seq(Nat), NEW e \in Nat, NEW place, place = e + 1,
         NEW chunk, IsChunkAt(docs, chunk, place)
  PROVE  VectorsAt(docs, place) = WithVector(VectorsAt(docs, e), chunk)
<1>1. PICK d \in 1 .. Len(docs) : \E i \in 1 .. docs[d] :
        chunk = <<d, i>> /\ Before(docs, d) + i = e + 1
  BY DEF IsChunkAt
<1>0. PICK i \in 1 .. docs[d] : chunk = <<d, i>> /\ Before(docs, d) + i = e + 1
  BY <1>1
<1>2. \A c \in 1 .. Len(docs) :
        /\ Before(docs, c) \in Nat /\ docs[c] \in Nat
        /\ Before(docs, c + 1) = Before(docs, c) + docs[c]
  BY BeforeTheNext
<1>3. /\ Before(docs, d) \in Nat /\ docs[d] \in Nat
      /\ Before(docs, d + 1) = Before(docs, d) + docs[d]
  BY <1>2
<1>4. i \in Nat \ {0} /\ i <= docs[d] /\ Before(docs, d) = e + 1 - i
  BY <1>0, <1>3
<1>5. ASSUME NEW c \in 1 .. Len(docs), c # d
      PROVE  Received(docs, c, place) = Received(docs, c, e)
  <2>1. /\ Before(docs, c) \in Nat /\ docs[c] \in Nat
        /\ Before(docs, c + 1) = Before(docs, c) + docs[c]
    BY <1>2
  <2>2. CASE c < d
    <3>1. Before(docs, c + 1) <= Before(docs, d)
      <4>1. c + 1 \in 0 .. Len(docs) + 1 /\ d \in 0 .. Len(docs) + 1 /\ c + 1 <= d
        BY <2>2
      <4> QED
        BY <4>1, BeforeGrows
    <3>2. Before(docs, c) + docs[c] <= e
      BY <1>3, <1>4, <2>1, <3>1
    <3> QED
      BY <2>1, <3>2 DEF Received
  <2>3. CASE c > d
    <3>1. Before(docs, d + 1) <= Before(docs, c)
      <4>1. d + 1 \in 0 .. Len(docs) + 1 /\ c \in 0 .. Len(docs) + 1 /\ d + 1 <= c
        BY <2>3
      <4> QED
        BY <4>1, BeforeGrows
    <3>2. e + 1 <= Before(docs, c)
      BY <1>3, <1>4, <2>1, <3>1
    <3> QED
      BY <2>1, <3>2 DEF Received
  <2> QED
    BY <1>5, <2>2, <2>3
<1>6. Received(docs, d, e) = i - 1 /\ Received(docs, d, place) = i
  BY <1>3, <1>4 DEF Received
<1> DEFINE old == VectorsAt(docs, e)
           new == VectorsAt(docs, place)
           grown == [old EXCEPT ![d] = Append(old[d], chunk)]
<1>7. /\ DOMAIN old = 1 .. Len(docs) /\ DOMAIN new = 1 .. Len(docs)
      /\ old = [c \in DOMAIN old |-> old[c]] /\ new = [c \in DOMAIN new |-> new[c]]
  BY DEF VectorsAt
<1>8. ASSUME NEW c \in 1 .. Len(docs), c # d PROVE new[c] = old[c]
  <2>1. old[c] = [j \in 1 .. Received(docs, c, e) |-> <<c, j>>]
    BY VectorsOfDocument
  <2>2. new[c] = [j \in 1 .. Received(docs, c, place) |-> <<c, j>>]
    BY VectorsOfDocument
  <2> QED
    BY <1>5, <1>8, <2>1, <2>2
<1>9. new[d] = Append(old[d], chunk)
  <2>1. old[d] = [j \in 1 .. (i - 1) |-> <<d, j>>] /\ new[d] = [j \in 1 .. i |-> <<d, j>>]
    BY <1>6, VectorsOfDocument
  <2> HIDE DEF old, new
  <2>2. Len(old[d]) = i - 1
    BY <1>4, <2>1
  <2> QED
    BY <1>0, <1>4, <2>1, <2>2
<1> HIDE DEF old, new
<1>10. new = grown
  <2>1. DOMAIN grown = 1 .. Len(docs) /\ grown = [c \in DOMAIN grown |-> grown[c]]
    BY <1>7
  <2>2. \A c \in 1 .. Len(docs) : grown[c] = new[c]
    BY <1>7, <1>8, <1>9
  <2> HIDE DEF grown
  <2> QED
    BY <1>7, <2>1, <2>2
<1>11. chunk[1] = d
  BY <1>0
<1> QED
  BY <1>10, <1>11 DEF old, new, WithVector

(* The loop over a batch.                                                  *)
GivesOut(given, batch, vectors) ==
  given = [n \in 0 .. Len(batch) |->
             IF n = 0 THEN vectors
             ELSE WithVector(given[n - 1], batch[n])]

(* A batch that holds the next chunks leads to their vectors.              *)
LEMMA BatchIsDistributed ==
  ASSUME NEW docs \in Seq(Nat), NEW e \in Nat, NEW X, NEW batch \in Seq(X),
         Follows(docs, batch, e)
  PROVE  Distribute(batch, VectorsAt(docs, e)) = VectorsAt(docs, e + Len(batch))
<1> DEFINE vectors == VectorsAt(docs, e)
           after == [n \in 0 .. Len(batch) |-> VectorsAt(docs, e + n)]
<1>1. ASSUME NEW n \in 1 .. Len(batch)
      PROVE  VectorsAt(docs, e + n) = WithVector(VectorsAt(docs, e + (n - 1)), batch[n])
  <2> DEFINE k == e + (n - 1)
             place == e + n
             chunk == batch[n]
  <2>1. k \in Nat /\ place = k + 1
    OBVIOUS
  <2>2. IsChunkAt(docs, chunk, place)
    BY DEF Follows
  <2> HIDE DEF k, place, chunk
  <2>3. VectorsAt(docs, place) = WithVector(VectorsAt(docs, k), chunk)
    BY <2>1, <2>2, NextVector
  <2> QED
    BY <2>3 DEF k, place, chunk
<1>2. GivesOut(after, batch, vectors)
  <2> DEFINE right == [n \in 0 .. Len(batch) |->
               IF n = 0 THEN vectors
               ELSE WithVector(after[n - 1], batch[n])]
  <2>1. ASSUME NEW n \in 0 .. Len(batch) PROVE after[n] = right[n]
    <3>1. CASE n = 0
      <4>1. e + 0 = e
        OBVIOUS
      <4> QED
        BY <3>1, <4>1
    <3>2. CASE n # 0
      <4>1. n \in 1 .. Len(batch) /\ n - 1 \in 0 .. Len(batch)
        BY <3>2
      <4>2. after[n] = VectorsAt(docs, e + n) /\ after[n - 1] = VectorsAt(docs, e + (n - 1))
        BY <4>1
      <4>3. right[n] = WithVector(after[n - 1], batch[n])
        BY <3>2
      <4> QED
        BY <1>1, <4>1, <4>2, <4>3
    <3> QED
      BY <3>1, <3>2
  <2> QED
    BY <2>1 DEF GivesOut
<1> DEFINE given == CHOOSE g : GivesOut(g, batch, vectors)
<1>3. GivesOut(given, batch, vectors)
  BY <1>2
<1>4. Distribute(batch, vectors) = given[Len(batch)]
  BY DEF Distribute, GivesOut, WithVector
<1> DEFINE S == {n \in Nat : n <= Len(batch) => given[n] = after[n]}
<1> HIDE DEF given, after, vectors
<1>5. 0 \in S
  BY <1>2, <1>3 DEF GivesOut
<1>6. ASSUME NEW n \in S PROVE n + 1 \in S
  <2> SUFFICES ASSUME n + 1 <= Len(batch) PROVE given[n + 1] = after[n + 1]
    OBVIOUS
  <2>1. n + 1 \in 0 .. Len(batch) /\ n + 1 # 0 /\ (n + 1) - 1 = n /\ given[n] = after[n]
    OBVIOUS
  <2>2. given[n + 1] =
          WithVector(given[n], batch[n + 1])
    BY <1>3, <2>1 DEF GivesOut
  <2>3. after[n + 1] =
          WithVector(after[n], batch[n + 1])
    BY <1>2, <2>1 DEF GivesOut
  <2> QED
    BY <2>1, <2>2, <2>3
<1>7. S = Nat
  <2>1. S \in SUBSET Nat
    OBVIOUS
  <2> HIDE DEF S
  <2> QED
    BY <1>5, <1>6, <2>1, NumberInduction
<1>8. given[Len(batch)] = after[Len(batch)]
  BY <1>7
<1> QED
  BY <1>4, <1>8 DEF after, vectors

-----------------------------------------------------------------------------
(* Facts about storing.                                                    *)

(* The n documents after the first s have all their vectors.               *)
AreComplete(docs, s, n, vectors) ==
  \A i \in 1 .. n : Len(vectors[s + i]) = docs[s + i]

(* A document that is not complete has chunks that are not embedded.       *)
LEMMA IncompleteDocument ==
  ASSUME NEW docs \in Seq(Nat), NEW d \in 1 .. Len(docs), NEW e \in Nat,
         Before(docs, d) <= e
  PROVE  Len(VectorsAt(docs, e)[d]) = docs[d] <=> Before(docs, d + 1) <= e
<1>1. /\ Before(docs, d) \in Nat /\ docs[d] \in Nat
      /\ Before(docs, d + 1) = Before(docs, d) + docs[d]
  BY BeforeTheNext
<1>2. Len(VectorsAt(docs, e)[d]) = Received(docs, d, e)
  BY ReceivedIsRight
<1> QED
  BY <1>1, <1>2 DEF Received

(* Documents that are complete one after the other are embedded.           *)
LEMMA CompleteDocuments ==
  ASSUME NEW docs \in Seq(Nat), NEW e \in Nat, NEW s \in 0 .. Len(docs),
         Before(docs, s + 1) <= e,
         NEW n \in 0 .. (Len(docs) - s), AreComplete(docs, s, n, VectorsAt(docs, e))
  PROVE  Before(docs, s + n + 1) <= e
<1> DEFINE S == {m \in Nat : m <= n => Before(docs, s + m + 1) <= e}
<1>1. 0 \in S
  <2>1. s + 0 + 1 = s + 1
    OBVIOUS
  <2> QED
    BY <2>1
<1>2. ASSUME NEW m \in S PROVE m + 1 \in S
  <2> SUFFICES ASSUME m + 1 <= n PROVE Before(docs, s + (m + 1) + 1) <= e
    OBVIOUS
  <2> DEFINE d == s + (m + 1)
  <2>1. d \in 1 .. Len(docs) /\ m + 1 \in 1 .. n /\ d = s + m + 1
    OBVIOUS
  <2>2. Len(VectorsAt(docs, e)[d]) = docs[d]
    BY <2>1 DEF AreComplete
  <2>3. Before(docs, d) <= e
    BY <2>1
  <2> HIDE DEF d
  <2>4. Before(docs, d + 1) <= e
    BY <2>1, <2>2, <2>3, IncompleteDocument
  <2> QED
    BY <2>4 DEF d
<1>3. S = Nat
  <2>1. S \in SUBSET Nat
    OBVIOUS
  <2> HIDE DEF S
  <2> QED
    BY <1>1, <1>2, <2>1, NumberInduction
<1>4. n \in S
  <2>1. n \in Nat
    OBVIOUS
  <2> QED
    BY <1>3, <2>1
<1> QED
  BY <1>4

(* The chunks of n documents after the first s.                            *)
LEMMA ChunksBetween ==
  ASSUME NEW docs \in Seq(Nat), NEW s \in 0 .. Len(docs), NEW n \in 0 .. (Len(docs) - s)
  PROVE  SumFunction([i \in 1 .. n |-> docs[s + i]])
           = Before(docs, s + n + 1) - Before(docs, s + 1)
<1> DEFINE Counts(m) == [i \in 1 .. m |-> docs[s + i]]
           S == {m \in Nat : m <= n =>
                   SumFunction(Counts(m)) = Before(docs, s + m + 1) - Before(docs, s + 1)}
<1>1. Before(docs, s + 1) \in Nat
  BY BeforeGrows
<1>2. 0 \in S
  <2>1. DOMAIN Counts(0) = {} /\ s + 0 + 1 = s + 1
    OBVIOUS
  <2>2. SumFunction(Counts(0)) = 0
    BY <2>1, SumOfNone DEF SumFunction
  <2> HIDE DEF Counts
  <2> QED
    BY <1>1, <2>1, <2>2
<1>3. ASSUME NEW m \in S PROVE m + 1 \in S
  <2> SUFFICES ASSUME m + 1 <= n
               PROVE  SumFunction(Counts(m + 1)) =
                        Before(docs, s + (m + 1) + 1) - Before(docs, s + 1)
    OBVIOUS
  <2> DEFINE d == s + (m + 1)
             old == Counts(m)
             new == Counts(m + 1)
  <2>1. d \in 1 .. Len(docs) /\ d = s + m + 1
    OBVIOUS
  <2>2. /\ Before(docs, d) \in Nat /\ docs[d] \in Nat
        /\ Before(docs, d + 1) = Before(docs, d) + docs[d]
    <3> HIDE DEF d
    <3> QED
      BY <2>1, BeforeTheNext
  <2>3. Prolongs(new, old, 1 .. m, m + 1)
    <3>1. IsFiniteSet(1 .. m) /\ m + 1 \notin 1 .. m
      BY FS_Interval
    <3>2. DOMAIN old = 1 .. m /\ DOMAIN new = (1 .. m) \cup {m + 1}
      OBVIOUS
    <3>3. new[m + 1] = docs[d] /\ new[m + 1] \in Int
      BY <2>2
    <3>4. \A y \in 1 .. m : old[y] \in Int /\ new[y] = old[y]
      OBVIOUS
    <3> HIDE DEF old, new
    <3> QED
      BY <3>1, <3>2, <3>3, <3>4 DEF Prolongs
  <2>4. new[m + 1] = docs[d]
    OBVIOUS
  <2>5. SumFunction(old) = Before(docs, d) - Before(docs, s + 1)
    BY <2>1
  <2> HIDE DEF old, new, Counts
  <2>6. SumFunction(new) = SumFunction(old) + new[m + 1]
    BY <2>3, SumFunctionGrows
  <2>7. SumFunction(new) = Before(docs, d + 1) - Before(docs, s + 1)
    BY <1>1, <2>2, <2>4, <2>5, <2>6
  <2> QED
    BY <2>7 DEF new
<1>4. S = Nat
  <2>1. S \in SUBSET Nat
    OBVIOUS
  <2> HIDE DEF S
  <2> QED
    BY <1>2, <1>3, <2>1, NumberInduction
<1>5. n \in S
  <2>1. n \in Nat
    OBVIOUS
  <2> HIDE DEF S
  <2> QED
    BY <1>4, <2>1
<1>6. SumFunction(Counts(n)) = Before(docs, s + n + 1) - Before(docs, s + 1)
  <2> HIDE DEF Counts
  <2> QED
    BY <1>5
<1> QED
  BY <1>6

(* store_completed_documents stores in order and stops at a document that  *)
(* has chunks to be embedded.                                              *)
LEMMA StoreCompletedIsRight ==
  ASSUME documents \in Seq(Nat), loaded \in 0 .. Len(documents),
         stored \in Seq(Nat), NEW e \in Nat, StoresThose(e),
         UNCHANGED <<documents, loaded>>, StoreCompleted(VectorsAt(documents, e))
  PROVE  /\ StoresThose(e)'
         /\ Len(stored') < loaded => e < Before(documents, Len(stored') + 2)
         /\ stored' \in Seq(1 .. loaded) /\ pending_documents' \in Seq(1 .. loaded)
         /\ embedded_chunks' \in Nat
<1> DEFINE s == Len(stored)
           m == loaded - s
           vectors == VectorsAt(documents, e)
           R == {n \in 0 .. m : AreComplete(documents, s, n, vectors)}
           r == Max(R)
<1>1. s \in Nat /\ m \in Nat /\ loaded = s + m /\ s + m <= Len(documents)
  BY DEF StoresThose
<1>2. pending_documents = [i \in 1 .. m |-> s + i] /\ Len(pending_documents) = m
  BY <1>1 DEF StoresThose
<1>3. stored = [i \in 1 .. s |-> i]
  BY DEF StoresThose
<1>4. R = {n \in 0 .. Len(pending_documents) :
             \A i \in 1 .. n : IsComplete(pending_documents[i], vectors)}
  <2>1. ASSUME NEW n \in 0 .. m
        PROVE  AreComplete(documents, s, n, vectors) <=>
                 \A i \in 1 .. n : IsComplete(pending_documents[i], vectors)
    <3>1. \A i \in 1 .. n : pending_documents[i] = s + i
      BY <1>1, <1>2
    <3> HIDE DEF s, m, vectors
    <3> QED
      BY <3>1 DEF IsComplete, AreComplete
  <2>2. 0 .. Len(pending_documents) = 0 .. m
    BY <1>2
  <2> HIDE DEF m
  <2> QED
    BY <2>1, <2>2
<1>5. r \in R /\ \A n \in R : r >= n
  <2>1. 0 \in R
    BY <1>1 DEF AreComplete
  <2>2. R \in SUBSET (0 .. m)
    OBVIOUS
  <2> HIDE DEF R, m
  <2> QED
    BY <1>1, <2>1, <2>2, GreatestNumber
<1> DEFINE leaving == SubSeq(pending_documents, 1, r)
<1>6. /\ stored' = stored \o leaving
      /\ pending_documents' = SubSeq(pending_documents, r + 1, Len(pending_documents))
      /\ embedded_chunks' = embedded_chunks
           + SumFunction([i \in 1 .. r |-> documents[leaving[i]]])
  <2> HIDE DEF R
  <2> QED
    BY <1>4 DEF StoreCompleted
<1>7. r \in 0 .. m /\ AreComplete(documents, s, r, vectors)
  BY <1>5
<1>8. s + r < loaded => ~ AreComplete(documents, s, r + 1, vectors)
  <2> SUFFICES ASSUME s + r < loaded, AreComplete(documents, s, r + 1, vectors)
               PROVE  FALSE
    OBVIOUS
  <2> HIDE DEF r
  <2>1. r + 1 \in 0 .. m
    BY <1>1, <1>7
  <2>2. r + 1 \in R
    BY <2>1
  <2> HIDE DEF R
  <2> QED
    BY <1>5, <1>7, <2>2
<1> HIDE DEF R, r
<1>9. leaving = [i \in 1 .. r |-> s + i] /\ Len(leaving) = r
  BY <1>1, <1>2, <1>7
<1> HIDE DEF s, m, leaving, vectors
<1>10. stored' = [i \in 1 .. (s + r) |-> i] /\ Len(stored') = s + r
  BY <1>1, <1>3, <1>6, <1>7, <1>9
<1>11. pending_documents' = [i \in 1 .. (loaded - (s + r)) |-> (s + r) + i]
  <2>1. r \in Nat /\ r <= m /\ loaded - (s + r) = m - r
    BY <1>1, <1>7
  <2>2. SubSeq(pending_documents, r + 1, m) = [i \in 1 .. (m - r) |-> (s + r) + i]
    BY <1>1, <1>2, <2>1
  <2> QED
    BY <1>2, <1>6, <2>1, <2>2
<1> DEFINE t == s + r
<1>12. t \in 0 .. loaded /\ t + 1 \in 0 .. Len(documents) + 1
  BY <1>1, <1>7
<1>13. Before(documents, s + 1) <= e /\ embedded_chunks = Before(documents, s + 1)
  BY DEF StoresThose, s
<1>14. Before(documents, t + 1) <= e
  <2>1. r \in 0 .. (Len(documents) - s) /\ s \in 0 .. Len(documents)
    BY <1>1, <1>7
  <2> QED
    BY <1>7, <1>13, <2>1, CompleteDocuments DEF vectors
<1>15. ASSUME t < loaded PROVE e < Before(documents, t + 2)
  <2> DEFINE d == t + 1
  <2>1. d \in 1 .. Len(documents) /\ d + 1 = t + 2 /\ d = s + (r + 1)
    BY <1>1, <1>7, <1>12, <1>15
  <2>2. Len(vectors[d]) # documents[d]
    <3>1. r \in Nat
      BY <1>1, <1>7
    <3>2. PICK i \in 1 .. (r + 1) : Len(vectors[s + i]) # documents[s + i]
      BY <1>8, <1>15 DEF AreComplete
    <3>3. i \notin 1 .. r
      BY <1>7, <3>2 DEF AreComplete
    <3>4. i = r + 1
      BY <3>1, <3>3
    <3> QED
      BY <2>1, <3>2, <3>4
  <2>3. Before(documents, t + 2) \in Nat
    BY <1>12, <1>15, BeforeGrows
  <2> HIDE DEF d
  <2>4. ~ (Before(documents, d + 1) <= e)
    <3>1. Before(documents, d) <= e
      BY <1>14 DEF d
    <3> QED
      BY <2>1, <2>2, <3>1, IncompleteDocument DEF vectors
  <2> QED
    BY <2>1, <2>3, <2>4
<1>16. embedded_chunks' = Before(documents, t + 1)
  <2>1. [i \in 1 .. r |-> documents[leaving[i]]] = [i \in 1 .. r |-> documents[s + i]]
    BY <1>9
  <2>2. SumFunction([i \in 1 .. r |-> documents[s + i]])
          = Before(documents, t + 1) - Before(documents, s + 1)
    <3>1. r \in 0 .. (Len(documents) - s) /\ s \in 0 .. Len(documents)
      BY <1>1, <1>7
    <3> QED
      BY <3>1, ChunksBetween
  <2>3. Before(documents, s + 1) \in Nat /\ Before(documents, t + 1) \in Nat
    <3>1. s + 1 \in 0 .. Len(documents) + 1
      BY <1>1
    <3> QED
      BY <1>12, <3>1, BeforeGrows
  <2>4. embedded_chunks' = embedded_chunks
          + SumFunction([i \in 1 .. r |-> documents[s + i]])
    BY <1>6, <2>1
  <2> HIDE DEF t
  <2> QED
    BY <1>13, <2>2, <2>3, <2>4
<1>17. Before(documents, t + 1) \in Nat
  BY <1>12, BeforeGrows
<1>18. stored' \in Seq(1 .. loaded)
  BY <1>10, <1>12
<1>19. pending_documents' \in Seq(1 .. loaded)
  <2>1. loaded - t \in Nat /\ \A i \in 1 .. (loaded - t) : t + i \in 1 .. loaded
    BY <1>12
  <2> HIDE DEF t
  <2> QED
    BY <1>11, <2>1 DEF t
<1>20. StoresThose(e)'
  <2> HIDE DEF t
  <2> QED
    BY <1>10, <1>11, <1>12, <1>14, <1>16 DEF StoresThose, t
<1> QED
  BY <1>10, <1>15, <1>16, <1>17, <1>18, <1>19, <1>20

-----------------------------------------------------------------------------
(* What the invariant says of the values.                                  *)

(* Full batches and what is left over make this many calls.                *)
LEMMA BatchesRoundUp ==
  ASSUME NEW n \in Nat \ {0}, NEW b \in Nat, NEW p \in 0 .. (n - 1)
  PROVE  (n * b + p + n - 1) \div n = IF p = 0 THEN b ELSE b + 1
<1> DEFINE c == IF p = 0 THEN b ELSE b + 1
           q == IF p = 0 THEN n - 1 ELSE p - 1
<1>1. c \in Nat /\ q \in 0 .. (n - 1)
  OBVIOUS
<1>2. n * b + p + n - 1 = n * c + q
  <2>1. n * (b + 1) = n * b + n
    OBVIOUS
  <2>2. n * b \in Nat
    OBVIOUS
  <2>3. CASE p = 0
    BY <2>2, <2>3
  <2>4. CASE p # 0
    BY <2>1, <2>2, <2>4
  <2> QED
    BY <2>3, <2>4
<1> HIDE DEF q
<1>3. (n * c + q) \div n = c
  <2> HIDE DEF c
  <2> QED
    BY <1>1
<1> QED
  BY <1>2, <1>3

(* The list of documents is a sequence of numbers.                         *)
LEMMA DocumentsAreCounts ==
  ASSUME NEW docs \in DocumentLists
  PROVE  /\ docs \in Seq(Nat)
         /\ Len(docs) \in 0 .. MaxDocuments
         /\ DOMAIN docs = 1 .. Len(docs)
         /\ \A d \in 1 .. Len(docs) : docs[d] \in 0 .. MaxChunks
<1>1. PICK n \in 0 .. MaxDocuments : docs \in [1 .. n -> 0 .. MaxChunks]
  BY DEF DocumentLists
<1>2. n \in Nat /\ MaxChunks \in Nat
  BY BatchBoundsAreNat
<1>3. docs \in Seq(Nat) /\ Len(docs) = n
  BY <1>1, <1>2
<1> QED
  BY <1>1, <1>3

(* The vectors belong to chunks.                                           *)
LEMMA VectorsAreChunks ==
  ASSUME NEW docs \in DocumentLists, NEW e \in Nat
  PROVE  VectorsAt(docs, e) \in [DOMAIN docs -> Seq(Chunks)]
<1>1. docs \in Seq(Nat) /\ DOMAIN docs = 1 .. Len(docs) /\ Len(docs) \in 0 .. MaxDocuments
  BY DocumentsAreCounts
<1>2. ASSUME NEW d \in 1 .. Len(docs)
      PROVE  [i \in 1 .. Received(docs, d, e) |-> <<d, i>>] \in Seq(Chunks)
  <2>1. docs[d] \in 0 .. MaxChunks
    BY DocumentsAreCounts
  <2>2. Received(docs, d, e) \in 0 .. docs[d]
    BY <1>1, ReceivedIsRight
  <2>3. Received(docs, d, e) \in 0 .. MaxChunks /\ MaxChunks \in Nat /\ MaxDocuments \in Nat
    BY <2>1, <2>2, BatchBoundsAreNat
  <2>4. \A i \in 1 .. Received(docs, d, e) : <<d, i>> \in Chunks
    BY <1>1, <2>3 DEF Chunks
  <2> QED
    BY <2>3, <2>4
<1> QED
  BY <1>1, <1>2 DEF VectorsAt

(* The values of a state of the loop.                                      *)
LEMMA LoopValues ==
  ASSUME BatchInv
  PROVE  /\ documents \in Seq(Nat) /\ loaded \in 0 .. Len(documents)
         /\ chunked \in Nat /\ Before(documents, loaded) \in Nat
         /\ pending_chunks \in Seq(Chunks) /\ Len(pending_chunks) \in Nat
         /\ batch_size \in Nat \ {0} /\ stored \in Seq(Nat)
         /\ Taken \in Nat /\ Embedded \in Nat
         /\ Taken = Embedded + Len(pending_chunks)
<1>1. documents \in Seq(Nat) /\ loaded \in 0 .. Len(documents)
  BY DocumentsAreCounts DEF BatchInv, TypeOK
<1>2. Before(documents, loaded) \in Nat
  BY <1>1, BeforeGrows
<1>3. /\ chunked \in Nat /\ pending_chunks \in Seq(Chunks)
      /\ batch_size \in Nat \ {0} /\ stored \in Seq(Nat)
  BY <1>1, BatchBoundsAreNat DEF BatchInv, TypeOK
<1>4. Len(pending_chunks) \in Nat
  BY <1>3
<1>5. Taken \in Nat
  BY <1>2, <1>3 DEF Taken
<1>6. Embedded \in Nat /\ Taken = Embedded + Len(pending_chunks)
  BY <1>4, <1>5 DEF BatchInv, VectorInv, Embedded
<1> QED
  BY <1>1, <1>2, <1>3, <1>4, <1>5, <1>6

(* Between documents, all chunks of those that are loaded are taken.       *)
LEMMA TakenBetweenDocuments ==
  ASSUME BatchInv, stage \in {"loading", "done"}
  PROVE  Taken = Before(documents, loaded + 1)
<1>1. documents \in Seq(Nat) /\ loaded \in 0 .. Len(documents)
  BY LoopValues
<1>2. CASE loaded = 0
  BY <1>2, BeforeTheFirst DEF BatchInv, LoopInv, Taken
<1>3. CASE loaded > 0
  <2>1. chunked = documents[loaded]
    BY <1>3 DEF BatchInv, LoopInv
  <2>2. loaded \in 1 .. Len(documents)
    BY <1>1, <1>3
  <2> QED
    BY <1>1, <2>1, <2>2, BeforeTheNext DEF Taken
<1> QED
  BY <1>1, <1>2, <1>3

-----------------------------------------------------------------------------
(* Every action preserves the invariant.                                   *)

LEMMA InitBatchInv ==
  ASSUME Init
  PROVE  BatchInv
<1>1. /\ documents \in DocumentLists /\ documents \in Seq(Nat)
      /\ DOMAIN documents = 1 .. Len(documents) /\ Len(documents) \in Nat
  BY DocumentsAreCounts, BatchBoundsAreNat DEF Init
<1>2. Taken = 0 /\ Embedded = 0
  BY BeforeTheFirst DEF Init, Taken, Embedded
<1>3. TypeOK
  BY <1>1, BatchBoundsAreNat DEF Init, TypeOK
<1>4. LoopInv
  BY DEF Init, LoopInv
<1>5. VectorInv
  <2>1. ASSUME NEW d \in 1 .. Len(documents)
        PROVE  [i \in 1 .. Received(documents, d, 0) |-> <<d, i>>] = << >>
    <3>1. Received(documents, d, 0) = 0
      BY <1>1, BeforeTheNext DEF Received
    <3> QED
      BY <3>1
  <2>2. embeddings = VectorsAt(documents, 0)
    BY <1>1, <2>1 DEF Init, VectorsAt
  <2>3. Follows(documents, pending_chunks, 0)
    BY DEF Init, Follows
  <2>4. Len(pending_chunks) < batch_size
    BY BatchBoundsAreNat DEF Init
  <2> QED
    BY <1>2, <2>2, <2>3, <2>4 DEF VectorInv
<1>6. StoredInv
  BY <1>2, BeforeTheFirst DEF Init, StoredInv, StoresThose
<1>7. CounterInv
  BY <1>2, BatchBoundsAreNat DEF Init, CounterInv
<1> QED
  BY <1>3, <1>4, <1>5, <1>6, <1>7 DEF BatchInv

LEMMA LoadPreserves ==
  ASSUME BatchInv, LoadDocument
  PROVE  BatchInv'
<1>1. /\ documents \in Seq(Nat) /\ loaded \in 0 .. Len(documents)
      /\ Taken \in Nat /\ Embedded \in Nat /\ stored \in Seq(Nat)
      /\ Len(pending_chunks) \in Nat /\ Taken = Embedded + Len(pending_chunks)
  BY LoopValues
<1>2. loaded + 1 \in 1 .. Len(documents)
  BY <1>1 DEF LoadDocument
<1>3. Embedded' = Embedded
  <2>1. Taken = Before(documents, loaded + 1)
    BY TakenBetweenDocuments DEF LoadDocument
  <2>2. Taken' = Before(documents, loaded + 1) + 0
    BY DEF LoadDocument, Taken
  <2> QED
    BY <1>1, <2>1, <2>2 DEF LoadDocument, Embedded
<1>4. TypeOK'
  <2>1. TypeOK
    BY DEF BatchInv
  <2>2. pending_documents' \in Seq(1 .. loaded')
    <3>1. pending_documents \in Seq(1 .. loaded) /\ loaded' = loaded + 1
      BY <2>1 DEF TypeOK, LoadDocument
    <3>2. pending_documents \in Seq(1 .. loaded') /\ loaded' \in 1 .. loaded'
      BY <1>1, <3>1
    <3> QED
      BY <3>1, <3>2 DEF LoadDocument
  <2>3. stored' \in Seq(1 .. loaded')
    <3>1. stored \in Seq(1 .. loaded) /\ loaded' = loaded + 1 /\ stored' = stored
      BY <2>1 DEF TypeOK, LoadDocument
    <3> QED
      BY <1>1, <3>1
  <2> QED
    BY <1>2, <2>1, <2>2, <2>3, BatchBoundsAreNat DEF TypeOK, LoadDocument
<1>5. LoopInv'
  <2>1. documents[loaded + 1] \in Nat
    BY <1>1, <1>2
  <2> QED
    BY <1>2, <2>1 DEF LoopInv, LoadDocument
<1>6. VectorInv'
  BY <1>3 DEF BatchInv, VectorInv, LoadDocument
<1>7. StoredInv'
  <2> DEFINE s == Len(stored)
  <2>1. /\ s <= loaded /\ s \in Nat
        /\ pending_documents = [i \in 1 .. (loaded - s) |-> s + i]
    <3>1. s \in Nat
      BY <1>1
    <3> QED
      BY <3>1 DEF BatchInv, StoredInv, StoresThose
  <2>2. pending_documents' = [i \in 1 .. ((loaded + 1) - s) |-> s + i]
    <3>1. pending_documents' = Append(pending_documents, loaded + 1)
      BY DEF LoadDocument
    <3>2. Len(pending_documents) = loaded - s
      BY <1>1, <2>1
    <3> HIDE DEF s
    <3> QED
      BY <1>1, <2>1, <3>1, <3>2
  <2>3. Embedded <= Before(documents, s + 2)
    <3>1. CASE s < loaded
      BY <3>1 DEF BatchInv, StoredInv
    <3>2. CASE s = loaded
      <4>1. Embedded <= Before(documents, s + 1)
        BY <1>1, <3>2, TakenBetweenDocuments DEF LoadDocument
      <4>2. /\ Before(documents, s + 1) \in Nat /\ Before(documents, s + 2) \in Nat
            /\ Before(documents, s + 1) <= Before(documents, s + 2)
        <5>1. s + 1 \in 0 .. Len(documents) + 1 /\ s + 2 \in 0 .. Len(documents) + 1
          BY <1>1, <1>2, <3>2
        <5> QED
          BY <1>1, <5>1, BeforeGrows
      <4> QED
        BY <1>1, <4>1, <4>2
    <3> QED
      BY <1>1, <2>1, <3>1, <3>2
  <2>4. StoresThose(Embedded)'
    <3>1. StoresThose(Embedded)
      BY DEF BatchInv, StoredInv
    <3>2. s <= loaded + 1
      BY <1>1, <2>1
    <3>3. loaded' = loaded + 1 /\ UNCHANGED <<stored, documents, embedded_chunks>>
      BY DEF LoadDocument
    <3> QED
      BY <1>3, <2>2, <3>1, <3>2, <3>3 DEF StoresThose
  <2>5. stored' = stored /\ documents' = documents /\ stage' # "done"
    BY DEF LoadDocument
  <2> QED
    BY <1>3, <2>3, <2>4, <2>5 DEF StoredInv
<1>8. CounterInv'
  BY <1>3 DEF BatchInv, CounterInv, LoadDocument
<1> QED
  BY <1>4, <1>5, <1>6, <1>7, <1>8 DEF BatchInv

(* A flush gives every document the next of its vectors.                   *)
LEMMA FlushIsRight ==
  ASSUME BatchInv, documents' = documents, NEW batch \in Seq(Chunks),
         Follows(documents, batch, Embedded), Flush(batch)
  PROVE  /\ embeddings' = VectorsAt(documents, Embedded + Len(batch))
         /\ embeddings' \in [DOMAIN documents -> Seq(Chunks)]
         /\ pending_chunks' = << >>
<1>1. documents \in Seq(Nat) /\ Embedded \in Nat /\ Len(batch) \in Nat
  BY LoopValues
<1>2. embeddings = VectorsAt(documents, Embedded)
  BY DEF BatchInv, VectorInv
<1>3. embeddings' = VectorsAt(documents, Embedded + Len(batch))
  BY <1>1, <1>2, BatchIsDistributed DEF Flush
<1>4. Embedded + Len(batch) \in Nat /\ documents \in DocumentLists
  BY <1>1 DEF BatchInv, TypeOK
<1> QED
  BY <1>3, <1>4, VectorsAreChunks DEF Flush

(* A batch follows what is embedded, with one chunk more, too.             *)
LEMMA WithChunkFollows ==
  ASSUME BatchInv, HasChunk
  PROVE  /\ WithChunk \in Seq(Chunks) /\ Len(WithChunk) = Len(pending_chunks) + 1
         /\ Follows(documents, WithChunk, Embedded)
         /\ loaded \in 1 .. Len(documents)
         /\ chunked + 1 \in 1 .. documents[loaded] /\ chunked + 1 \in 0 .. MaxChunks
<1>1. /\ documents \in Seq(Nat) /\ loaded \in 0 .. Len(documents)
      /\ Taken \in Nat /\ Embedded \in Nat /\ chunked \in Nat
      /\ Before(documents, loaded) \in Nat
      /\ pending_chunks \in Seq(Chunks)
      /\ Len(pending_chunks) \in Nat /\ Taken = Embedded + Len(pending_chunks)
  BY LoopValues
<1> DEFINE chunk == <<loaded, chunked + 1>>
<1>2. loaded \in 1 .. Len(documents) /\ chunked + 1 \in 1 .. documents[loaded]
      /\ documents[loaded] \in 0 .. MaxChunks /\ Len(documents) \in 0 .. MaxDocuments
  <2>1. loaded \in 1 .. Len(documents)
    BY <1>1 DEF BatchInv, LoopInv, HasChunk
  <2>2. documents[loaded] \in 0 .. MaxChunks /\ Len(documents) \in 0 .. MaxDocuments
    BY <2>1, DocumentsAreCounts DEF BatchInv, TypeOK
  <2> QED
    BY <1>1, <2>1, <2>2, BatchBoundsAreNat DEF HasChunk
<1>3. chunk \in Chunks /\ IsChunkAt(documents, chunk, Taken + 1)
  <2>1. chunk[1] = loaded /\ chunk[2] = chunked + 1
    OBVIOUS
  <2>2. Before(documents, loaded) + (chunked + 1) = Taken + 1
    BY <1>1 DEF Taken
  <2>3. loaded \in 1 .. MaxDocuments /\ chunked + 1 \in 1 .. MaxChunks
    BY <1>1, <1>2, BatchBoundsAreNat
  <2> QED
    BY <1>1, <1>2, <2>1, <2>2, <2>3 DEF IsChunkAt, Chunks
<1>4. WithChunk = Append(pending_chunks, chunk)
  BY DEF WithChunk
<1> HIDE DEF chunk
<1>5. Follows(documents, WithChunk, Embedded)
  <2> SUFFICES ASSUME NEW n \in 1 .. Len(WithChunk)
               PROVE  IsChunkAt(documents, WithChunk[n], Embedded + n)
    BY DEF Follows
  <2>1. CASE n \in 1 .. Len(pending_chunks)
    <3>1. WithChunk[n] = pending_chunks[n]
      BY <1>1, <1>4, <2>1
    <3> QED
      BY <2>1, <3>1 DEF BatchInv, VectorInv, Follows
  <2>2. CASE n \notin 1 .. Len(pending_chunks)
    <3>1. n = Len(pending_chunks) + 1
      BY <1>1, <1>4, <2>2
    <3>2. WithChunk[n] = chunk /\ Embedded + n = Taken + 1
      BY <1>1, <1>4, <3>1
    <3> QED
      BY <1>3, <3>2
  <2> QED
    BY <2>1, <2>2
<1>6. chunked + 1 \in 0 .. MaxChunks
  BY <1>1, <1>2, BatchBoundsAreNat
<1>7. WithChunk \in Seq(Chunks) /\ Len(WithChunk) = Len(pending_chunks) + 1
  BY <1>1, <1>3, <1>4
<1> QED
  BY <1>2, <1>5, <1>6, <1>7

(* Storing what is complete, with e chunks embedded.                       *)
LEMMA StoringIsRight ==
  ASSUME BatchInv, UNCHANGED <<documents, loaded>>, NEW e \in Nat, Embedded <= e,
         Embedded' = e, StoreCompleted(VectorsAt(documents, e))
  PROVE  /\ StoresThose(Embedded)' /\ Len(stored') \in Nat
         /\ Len(stored') < loaded => e < Before(documents, Len(stored') + 2)
         /\ Len(stored') < loaded => Before(documents, Len(stored') + 2) \in Nat
         /\ stored' \in Seq(1 .. loaded') /\ pending_documents' \in Seq(1 .. loaded')
         /\ embedded_chunks' \in Nat
<1>1. /\ documents \in Seq(Nat) /\ loaded \in 0 .. Len(documents)
      /\ stored \in Seq(Nat) /\ Embedded \in Nat
  BY LoopValues
<1>2. StoresThose(e)
  <2>1. StoresThose(Embedded)
    BY DEF BatchInv, StoredInv
  <2>2. Len(stored) + 1 \in 0 .. Len(documents) + 1
    BY <1>1, <2>1 DEF StoresThose
  <2>3. Before(documents, Len(stored) + 1) \in Nat
    BY <1>1, <2>2, BeforeGrows
  <2>4. Before(documents, Len(stored) + 1) <= e
    BY <1>1, <2>1, <2>3 DEF StoresThose
  <2> QED
    BY <2>1, <2>4 DEF StoresThose
<1>3. /\ StoresThose(e)'
      /\ Len(stored') < loaded => e < Before(documents, Len(stored') + 2)
      /\ stored' \in Seq(1 .. loaded) /\ pending_documents' \in Seq(1 .. loaded)
      /\ embedded_chunks' \in Nat
  BY <1>1, <1>2, StoreCompletedIsRight
<1>4. Len(stored') \in Nat
  BY <1>3
<1>5. ASSUME Len(stored') < loaded PROVE Before(documents, Len(stored') + 2) \in Nat
  <2>1. Len(stored') + 2 \in 0 .. Len(documents) + 1
    BY <1>1, <1>4, <1>5
  <2> QED
    BY <1>1, <2>1, BeforeGrows
<1>6. StoresThose(Embedded)'
  BY <1>3 DEF StoresThose
<1> QED
  BY <1>3, <1>4, <1>5, <1>6

LEMMA AddChunkPreserves ==
  ASSUME BatchInv, AddChunk
  PROVE  BatchInv'
<1>1. /\ Taken \in Nat /\ Embedded \in Nat /\ chunked \in Nat
      /\ Before(documents, loaded) \in Nat /\ batch_size \in Nat
      /\ Len(pending_chunks) \in Nat /\ Taken = Embedded + Len(pending_chunks)
  BY LoopValues
<1>2. /\ WithChunk \in Seq(Chunks) /\ Len(WithChunk) = Len(pending_chunks) + 1
      /\ Follows(documents, WithChunk, Embedded)
      /\ loaded \in 1 .. Len(documents)
      /\ chunked + 1 \in 1 .. documents[loaded] /\ chunked + 1 \in 0 .. MaxChunks
  BY WithChunkFollows DEF AddChunk
<1>3. pending_chunks' = WithChunk /\ chunked' = chunked + 1
  BY DEF AddChunk
<1>4. Embedded' = Embedded
  <2>1. Taken' = Taken + 1
    BY <1>1, <1>3 DEF AddChunk, Taken
  <2> QED
    BY <1>1, <1>2, <1>3, <2>1 DEF Embedded
<1>5. TypeOK'
  BY <1>2, <1>3 DEF BatchInv, TypeOK, AddChunk
<1>6. LoopInv'
  BY <1>1, <1>2, <1>3 DEF BatchInv, LoopInv, AddChunk, HasChunk
<1>7. VectorInv'
  <2>1. Len(pending_chunks') < batch_size
    <3>1. Len(pending_chunks) < batch_size /\ Len(WithChunk) # batch_size
      BY DEF BatchInv, VectorInv, AddChunk, FillsBatch
    <3> QED
      BY <1>1, <1>2, <1>3, <3>1
  <2> QED
    BY <1>2, <1>3, <1>4, <2>1 DEF BatchInv, VectorInv, AddChunk
<1>8. StoredInv'
  <2>1. StoredInv
    BY DEF BatchInv
  <2> QED
    BY <1>4, <2>1 DEF StoredInv, StoresThose, AddChunk, HasChunk
<1>9. CounterInv'
  BY <1>4 DEF BatchInv, CounterInv, AddChunk, HasChunk
<1> QED
  BY <1>5, <1>6, <1>7, <1>8, <1>9 DEF BatchInv

LEMMA FlushPreserves ==
  ASSUME BatchInv, AddChunkAndFlush
  PROVE  BatchInv'
<1>1. /\ Taken \in Nat /\ Embedded \in Nat /\ chunked \in Nat
      /\ Before(documents, loaded) \in Nat /\ batch_size \in Nat \ {0}
      /\ Len(pending_chunks) \in Nat /\ Taken = Embedded + Len(pending_chunks)
  BY LoopValues
<1>2. /\ WithChunk \in Seq(Chunks) /\ Len(WithChunk) = Len(pending_chunks) + 1
      /\ Follows(documents, WithChunk, Embedded)
      /\ loaded \in 1 .. Len(documents)
      /\ chunked + 1 \in 1 .. documents[loaded] /\ chunked + 1 \in 0 .. MaxChunks
  BY WithChunkFollows DEF AddChunkAndFlush
<1>3. Len(WithChunk) = batch_size
  BY DEF AddChunkAndFlush, FillsBatch
<1> DEFINE e == Embedded + batch_size
<1>4. /\ embeddings' = VectorsAt(documents, e)
      /\ embeddings' \in [DOMAIN documents -> Seq(Chunks)]
      /\ pending_chunks' = << >>
  BY <1>2, <1>3, FlushIsRight DEF AddChunkAndFlush
<1>5. UNCHANGED <<documents, batch_size, stage, loaded>> /\ chunked' = chunked + 1
  BY DEF AddChunkAndFlush
<1>6. Embedded' = e
  <2>1. Taken' = Taken + 1
    BY <1>1, <1>5 DEF Taken
  <2> QED
    BY <1>1, <1>2, <1>3, <1>4, <2>1 DEF Embedded
<1>7. e \in Nat /\ Embedded <= e
  BY <1>1
<1> HIDE DEF e
<1>8. StoreCompleted(VectorsAt(documents, e))
  BY <1>4 DEF AddChunkAndFlush
<1>9. /\ StoresThose(Embedded)' /\ Len(stored') \in Nat
      /\ Len(stored') < loaded => e < Before(documents, Len(stored') + 2)
      /\ Len(stored') < loaded => Before(documents, Len(stored') + 2) \in Nat
      /\ stored' \in Seq(1 .. loaded') /\ pending_documents' \in Seq(1 .. loaded')
      /\ embedded_chunks' \in Nat
  BY <1>5, <1>6, <1>7, <1>8, StoringIsRight
<1>10. embedding_batches \in Nat /\ embedding_batches' = embedding_batches + 1
  <2>1. WithChunk # << >>
    BY <1>2, <1>1
  <2>2. embedding_batches \in Nat
    BY DEF BatchInv, TypeOK
  <2> QED
    BY <2>1, <2>2 DEF AddChunkAndFlush, Flush, Calls
<1>11. TypeOK'
  <2>1. pending_chunks' \in Seq(Chunks)
    BY <1>4
  <2> QED
    BY <1>2, <1>4, <1>5, <1>9, <1>10, <2>1 DEF BatchInv, TypeOK
<1>12. LoopInv'
  <2>1. stage' = "chunking"
    BY <1>5 DEF AddChunkAndFlush, HasChunk
  <2> QED
    BY <1>1, <1>2, <1>5, <2>1 DEF LoopInv
<1>13. VectorInv'
  <2>1. Follows(documents, << >>, e)
    BY DEF Follows
  <2> QED
    BY <1>1, <1>4, <1>5, <1>6, <1>7, <2>1 DEF VectorInv
<1>14. StoredInv'
  <2>1. stage' # "done"
    BY <1>5 DEF AddChunkAndFlush, HasChunk
  <2> QED
    BY <1>5, <1>6, <1>7, <1>9, <2>1 DEF StoredInv
<1>15. CounterInv'
  <2>1. stage = "chunking" /\ stage' = stage
    BY <1>5 DEF AddChunkAndFlush, HasChunk
  <2>2. Embedded = batch_size * embedding_batches
    BY <2>1 DEF BatchInv, CounterInv
  <2>3. batch_size * (embedding_batches + 1) = batch_size * embedding_batches + batch_size
    BY <1>1, <1>10
  <2> QED
    BY <1>5, <1>6, <1>10, <2>1, <2>2, <2>3 DEF CounterInv, e
<1> QED
  BY <1>11, <1>12, <1>13, <1>14, <1>15 DEF BatchInv

LEMMA EndDocumentPreserves ==
  ASSUME BatchInv, EndDocument
  PROVE  BatchInv'
<1>1. /\ documents \in Seq(Nat) /\ loaded \in 0 .. Len(documents)
      /\ Taken \in Nat /\ Embedded \in Nat /\ chunked \in Nat
  BY LoopValues
<1>2. /\ stage = "chunking" /\ stage' = "loading" /\ chunked = documents[loaded]
      /\ UNCHANGED <<documents, batch_size, loaded, chunked, pending_chunks,
                     embeddings, embedding_batches>>
  BY DEF EndDocument
<1>3. Embedded' = Embedded
  BY <1>2 DEF Embedded, Taken
<1>4. StoreCompleted(VectorsAt(documents, Embedded))
  BY DEF EndDocument, BatchInv, VectorInv
<1>5. /\ StoresThose(Embedded)' /\ Len(stored') \in Nat
      /\ Len(stored') < loaded => Embedded < Before(documents, Len(stored') + 2)
      /\ Len(stored') < loaded => Before(documents, Len(stored') + 2) \in Nat
      /\ stored' \in Seq(1 .. loaded') /\ pending_documents' \in Seq(1 .. loaded')
      /\ embedded_chunks' \in Nat
  <2>1. Embedded <= Embedded
    BY <1>1
  <2> QED
    BY <1>1, <1>2, <1>3, <1>4, <2>1, StoringIsRight
<1>6. TypeOK'
  BY <1>2, <1>5 DEF BatchInv, TypeOK
<1>7. LoopInv'
  BY <1>1, <1>2 DEF BatchInv, LoopInv
<1>8. VectorInv'
  BY <1>2, <1>3 DEF BatchInv, VectorInv
<1>9. StoredInv'
  BY <1>1, <1>2, <1>3, <1>5 DEF StoredInv
<1>10. CounterInv'
  BY <1>2, <1>3 DEF BatchInv, CounterInv
<1> QED
  BY <1>6, <1>7, <1>8, <1>9, <1>10 DEF BatchInv

LEMMA FinishPreserves ==
  ASSUME BatchInv, Finish
  PROVE  BatchInv'
<1>1. /\ documents \in Seq(Nat) /\ loaded \in 0 .. Len(documents)
      /\ Taken \in Nat /\ Embedded \in Nat /\ chunked \in Nat
      /\ batch_size \in Nat \ {0} /\ pending_chunks \in Seq(Chunks)
      /\ Len(pending_chunks) \in Nat /\ Taken = Embedded + Len(pending_chunks)
  BY LoopValues
<1>2. /\ stage = "loading" /\ loaded = Len(documents)
      /\ UNCHANGED <<documents, batch_size, loaded, chunked>>
  BY DEF Finish, AllLoaded
<1>3. /\ embeddings' = VectorsAt(documents, Taken)
      /\ embeddings' \in [DOMAIN documents -> Seq(Chunks)]
      /\ pending_chunks' = << >>
  <2>1. Follows(documents, pending_chunks, Embedded)
    BY DEF BatchInv, VectorInv
  <2> QED
    BY <1>1, <1>2, <2>1, FlushIsRight DEF Finish
<1>4. Embedded' = Taken
  <2>1. Taken' = Taken
    BY <1>2 DEF Taken
  <2> QED
    BY <1>1, <1>3, <2>1 DEF Embedded
<1>5. StoreCompleted(VectorsAt(documents, Taken))
  BY <1>3 DEF Finish
<1>6. /\ StoresThose(Embedded)' /\ Len(stored') \in Nat
      /\ Len(stored') < loaded => Taken < Before(documents, Len(stored') + 2)
      /\ Len(stored') < loaded => Before(documents, Len(stored') + 2) \in Nat
      /\ stored' \in Seq(1 .. loaded') /\ pending_documents' \in Seq(1 .. loaded')
      /\ embedded_chunks' \in Nat
  <2>1. Embedded <= Taken
    BY <1>1
  <2> QED
    BY <1>1, <1>2, <1>4, <1>5, <2>1, StoringIsRight
<1>7. Taken = Before(documents, loaded + 1) /\ Taken = TotalChunks
  BY <1>1, <1>2, TakenBetweenDocuments, BeforeTheEnd DEF TotalChunks
<1>8. Len(stored') = loaded
  <2> SUFFICES ASSUME Len(stored') # loaded PROVE FALSE
    OBVIOUS
  <2>1. Len(stored') <= loaded
    BY <1>2, <1>6 DEF StoresThose
  <2>2. Len(stored') < loaded
    BY <1>1, <1>6, <2>1
  <2>3. Before(documents, Len(stored') + 2) <= Before(documents, loaded + 1)
    <3>1. /\ Len(stored') + 2 \in 0 .. Len(documents) + 1
          /\ loaded + 1 \in 0 .. Len(documents) + 1
          /\ Len(stored') + 2 <= loaded + 1
      BY <1>1, <1>6, <2>2
    <3> QED
      BY <1>1, <3>1, BeforeGrows
  <2> QED
    BY <1>1, <1>6, <1>7, <2>2, <2>3
<1>9. stage' = "done"
  <2>1. pending_documents' = [i \in 1 .. (loaded - loaded) |-> loaded + i]
    BY <1>2, <1>6, <1>8 DEF StoresThose
  <2>2. pending_documents' = << >>
    BY <1>1, <2>1
  <2> QED
    BY <2>2 DEF Finish
<1>10. embedding_batches \in Nat /\ embedding_batches' = embedding_batches + Calls(pending_chunks)
  BY DEF BatchInv, TypeOK, Finish, Flush
<1>11. TypeOK'
  <2>1. pending_chunks' \in Seq(Chunks)
    BY <1>3
  <2>2. embedding_batches' \in Nat
    BY <1>10 DEF Calls
  <2> QED
    BY <1>2, <1>3, <1>6, <1>9, <2>1, <2>2 DEF BatchInv, TypeOK
<1>12. LoopInv'
  BY <1>2, <1>3, <1>9 DEF BatchInv, LoopInv
<1>13. VectorInv'
  <2>1. Follows(documents, << >>, Taken)
    BY DEF Follows
  <2> QED
    BY <1>1, <1>2, <1>3, <1>4, <2>1 DEF VectorInv
<1>14. StoredInv'
  BY <1>1, <1>2, <1>6, <1>8 DEF StoredInv
<1>15. CounterInv'
  <2> DEFINE p == Len(pending_chunks)
  <2>1. Embedded = batch_size * embedding_batches
    BY <1>2 DEF BatchInv, CounterInv
  <2>2. p \in 0 .. (batch_size - 1)
    BY <1>1 DEF BatchInv, VectorInv
  <2>3. TotalChunks = batch_size * embedding_batches + p
    BY <1>1, <1>7, <2>1
  <2>4. embedding_batches' = IF p = 0 THEN embedding_batches ELSE embedding_batches + 1
    <3>1. pending_chunks = << >> <=> p = 0
      BY <1>1
    <3> QED
      BY <1>10, <3>1 DEF Calls
  <2>5. (batch_size * embedding_batches + p + batch_size - 1) \div batch_size
          = embedding_batches'
    <3> HIDE DEF p
    <3> QED
      BY <1>1, <1>10, <2>2, <2>4, BatchesRoundUp
  <2>6. TotalChunks' = TotalChunks /\ batch_size' = batch_size
    BY <1>2 DEF TotalChunks
  <2>7. embedded_chunks' = TotalChunks
    BY <1>2, <1>6, <1>7, <1>8 DEF StoresThose
  <2> HIDE DEF p
  <2>8. CountersExact'
    BY <2>3, <2>5, <2>6, <2>7 DEF CountersExact
  <2> QED
    BY <1>9, <2>8 DEF CounterInv
<1> QED
  BY <1>11, <1>12, <1>13, <1>14, <1>15 DEF BatchInv

(* A failure keeps what has been done.                                     *)
LEMMA FailurePreserves ==
  ASSUME BatchInv, LoadFails \/ EmbedderFails
  PROVE  BatchInv'
<1>1. /\ stage' = "failed" /\ embedding_batches' \in Nat
      /\ UNCHANGED <<documents, batch_size, loaded, chunked, pending_documents,
                     pending_chunks, embeddings, stored, embedded_chunks>>
  BY DEF BatchInv, TypeOK, LoadFails, EmbedderFails
<1>2. Embedded' = Embedded
  BY <1>1 DEF Embedded, Taken
<1>3. TypeOK'
  BY <1>1 DEF BatchInv, TypeOK
<1>4. LoopInv'
  BY <1>1 DEF BatchInv, LoopInv, LoadFails, EmbedderFails, HasChunk, AllLoaded
<1>5. VectorInv'
  BY <1>1, <1>2 DEF BatchInv, VectorInv
<1>6. StoredInv'
  <2>1. StoredInv
    BY DEF BatchInv
  <2> QED
    BY <1>1, <1>2, <2>1 DEF StoredInv, StoresThose
<1>7. CounterInv'
  BY <1>1 DEF CounterInv
<1> QED
  BY <1>3, <1>4, <1>5, <1>6, <1>7 DEF BatchInv

LEMMA StutterPreserves ==
  ASSUME BatchInv, UNCHANGED vars
  PROVE  BatchInv'
<1>1. TypeOK' /\ LoopInv'
  BY DEF BatchInv, TypeOK, LoopInv, vars
<1>2. Embedded' = Embedded
  BY DEF Embedded, Taken, vars
<1>3. VectorInv' /\ CounterInv'
  BY <1>2 DEF BatchInv, VectorInv, CounterInv, CountersExact, TotalChunks, vars
<1>4. StoredInv'
  <2>1. StoredInv
    BY DEF BatchInv
  <2> QED
    BY <1>2, <2>1 DEF StoredInv, StoresThose, vars
<1> QED
  BY <1>1, <1>3, <1>4 DEF BatchInv

-----------------------------------------------------------------------------
(* The invariant holds in every state, for every list of documents and     *)
(* every batch size (pipeline.py:131-215).                                 *)
THEOREM BatchInvariant == Spec => []BatchInv
<1>1. ASSUME BatchInv, Next
      PROVE  BatchInv'
  <2>1. CASE LoadDocument
    BY <1>1, <2>1, LoadPreserves
  <2>2. CASE AddChunk
    BY <1>1, <2>2, AddChunkPreserves
  <2>3. CASE AddChunkAndFlush
    BY <1>1, <2>3, FlushPreserves
  <2>4. CASE EndDocument
    BY <1>1, <2>4, EndDocumentPreserves
  <2>5. CASE Finish
    BY <1>1, <2>5, FinishPreserves
  <2>6. CASE LoadFails \/ EmbedderFails
    BY <1>1, <2>6, FailurePreserves
  <2>7. CASE Stopped
    BY <1>1, <2>7, StutterPreserves DEF Stopped
  <2> QED
    BY <1>1, <2>1, <2>2, <2>3, <2>4, <2>5, <2>6, <2>7 DEF Next
<1>2. BatchInv /\ [Next]_vars => BatchInv'
  BY <1>1, StutterPreserves
<1> QED
  BY <1>2, InitBatchInv, PTL DEF Spec

(* The variables have their types (pipeline.py:131-215).                   *)
THEOREM TypesHold == Spec => []TypeOK
<1>1. BatchInv => TypeOK
  BY DEF BatchInv
<1> QED
  BY <1>1, BatchInvariant, PTL

(* However documents share batches, the i-th vector of a document is that  *)
(* of its i-th chunk (flush_embedding_batch, pipeline.py:155-160).         *)
THEOREM VectorsMatchChunks == Spec => []EmbeddingsAligned
<1>1. BatchInv => EmbeddingsAligned
  <2> SUFFICES ASSUME BatchInv, NEW d \in DOMAIN documents,
                      NEW i \in 1 .. Len(embeddings[d])
               PROVE  embeddings[d][i] = <<d, i>>
    BY DEF EmbeddingsAligned
  <2>1. /\ documents \in Seq(Nat) /\ Embedded \in Nat
        /\ embeddings = VectorsAt(documents, Embedded)
    BY LoopValues DEF BatchInv, VectorInv
  <2>2. d \in 1 .. Len(documents)
    BY <2>1
  <2>3. embeddings[d] = [j \in 1 .. Received(documents, d, Embedded) |-> <<d, j>>]
    BY <2>1, <2>2, VectorsOfDocument
  <2>4. Len(embeddings[d]) = Received(documents, d, Embedded)
    BY <2>1, <2>2, ReceivedIsRight
  <2> QED
    BY <2>3, <2>4
<1> QED
  BY <1>1, BatchInvariant, PTL

(* Documents are stored with all their vectors, once and in loading order; *)
(* those that wait are the others (store_completed_documents,              *)
(* pipeline.py:164-192).                                                   *)
THEOREM StoredCompleteInOrder == Spec => []StoredInOrder
<1>1. ASSUME BatchInv PROVE StoredInOrder
  <2> DEFINE s == Len(stored)
  <2>1. /\ documents \in Seq(Nat) /\ loaded \in 0 .. Len(documents)
        /\ Embedded \in Nat /\ embeddings = VectorsAt(documents, Embedded)
        /\ s \in Nat
    BY <1>1, LoopValues DEF BatchInv, VectorInv
  <2>2. /\ s <= loaded /\ stored = [i \in 1 .. s |-> i]
        /\ pending_documents = [i \in 1 .. (loaded - s) |-> s + i]
        /\ Before(documents, s + 1) <= Embedded
    BY <1>1 DEF BatchInv, StoredInv, StoresThose
  <2> HIDE DEF s
  <2>3. stored \o pending_documents = [i \in 1 .. loaded |-> i]
    BY <2>1, <2>2
  <2>4. ASSUME NEW i \in 1 .. s PROVE IsComplete(stored[i], embeddings)
    <3>1. i \in 1 .. Len(documents) /\ i + 1 <= s + 1 /\ i <= s + 1
      BY <2>1, <2>2
    <3>2. /\ Before(documents, i) <= Before(documents, s + 1)
          /\ Before(documents, i + 1) <= Before(documents, s + 1)
          /\ Before(documents, i) \in Nat /\ Before(documents, i + 1) \in Nat
          /\ Before(documents, s + 1) \in Nat
      <4>1. {i, i + 1, s + 1} \subseteq 0 .. Len(documents) + 1
        BY <2>1, <2>2, <3>1
      <4> QED
        BY <2>1, <3>1, <4>1, BeforeGrows
    <3>3. Before(documents, i) <= Embedded /\ Before(documents, i + 1) <= Embedded
      BY <2>1, <2>2, <3>2
    <3>4. Len(VectorsAt(documents, Embedded)[i]) = documents[i]
      BY <2>1, <3>1, <3>3, IncompleteDocument
    <3> QED
      BY <2>1, <2>2, <3>4 DEF IsComplete
  <2> QED
    BY <2>3, <2>4 DEF StoredInOrder, s
<1> QED
  BY <1>1, BatchInvariant, PTL

(* Less than a batch waits to be embedded, and only the oldest waiting     *)
(* document has vectors (pipeline.py:194-206).                             *)
THEOREM MemoryIsBounded == Spec => []PendingIsBounded
<1>1. ASSUME BatchInv PROVE PendingIsBounded
  <2> DEFINE s == Len(stored)
  <2>1. /\ documents \in Seq(Nat) /\ loaded \in 0 .. Len(documents)
        /\ Embedded \in Nat /\ embeddings = VectorsAt(documents, Embedded)
        /\ s \in Nat /\ Len(pending_chunks) < batch_size
    BY <1>1, LoopValues DEF BatchInv, VectorInv
  <2>2. /\ s <= loaded /\ pending_documents = [i \in 1 .. (loaded - s) |-> s + i]
        /\ s < loaded => Embedded <= Before(documents, s + 2)
    BY <1>1 DEF BatchInv, StoredInv, StoresThose
  <2> HIDE DEF s
  <2>3. ASSUME NEW i \in 2 .. Len(pending_documents)
        PROVE  embeddings[pending_documents[i]] = << >>
    <3> DEFINE d == s + i
    <3>1. /\ d \in 1 .. Len(documents) /\ pending_documents[i] = d
          /\ s < loaded /\ s + 2 <= d
      BY <2>1, <2>2
    <3> HIDE DEF d
    <3>2. /\ Before(documents, s + 2) <= Before(documents, d)
          /\ Before(documents, s + 2) \in Nat /\ Before(documents, d) \in Nat
      <4>1. {s + 2, d} \subseteq 0 .. Len(documents) + 1
        BY <2>1, <3>1
      <4> QED
        BY <2>1, <3>1, <4>1, BeforeGrows
    <3>3. Embedded <= Before(documents, d)
      BY <2>1, <2>2, <3>1, <3>2
    <3>4. embeddings[d] = [j \in 1 .. Received(documents, d, Embedded) |-> <<d, j>>]
      BY <2>1, <3>1, VectorsOfDocument
    <3>5. Received(documents, d, Embedded) = 0
      BY <3>3 DEF Received
    <3> QED
      BY <3>1, <3>4, <3>5
  <2> QED
    BY <2>1, <2>3 DEF PendingIsBounded
<1> QED
  BY <1>1, BatchInvariant, PTL

(* A finished loop has called the embedder as rarely as the batch size     *)
(* allows and counted every chunk once (pipeline.py:143, 192).             *)
THEOREM CountersAreExact == Spec => []CountersExact
<1>1. BatchInv => CountersExact
  BY DEF BatchInv, CounterInv, CountersExact
<1> QED
  BY <1>1, BatchInvariant, PTL

(* "Could not map all embeddings to their documents" (pipeline.py:215) is  *)
(* never raised: a loop that has ended without an exception has stored     *)
(* every document.                                                         *)
NothingLeftOver ==
  /\ stage # "leftover"
  /\ stage = "done" => stored = [i \in 1 .. Len(documents) |-> i]

THEOREM NoLeftOver == Spec => []NothingLeftOver
<1>1. BatchInv => NothingLeftOver
  BY DEF BatchInv, LoopInv, StoredInv, StoresThose, NothingLeftOver
<1> QED
  BY <1>1, BatchInvariant, PTL
=============================================================================
