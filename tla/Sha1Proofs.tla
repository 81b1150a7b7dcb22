---------------------------- MODULE Sha1Proofs ----------------------------
(* Proofs about Sha1: for every size of block, length and word, what is        *)
(* compressed is the padded message, and a message is given up only when its   *)
(* length has no room.                                                        *)
EXTENDS Sha1, SharedLemmas, TLAPS

-----------------------------------------------------------------------------
(* Numbers.                                                                   *)

LEMMA SelfRemainder ==
    ASSUME NEW w \in Nat \ {0} PROVE w % w = 0
OBVIOUS

\* What adding an octet's eight bits does to a word of the length.
LEMMA EightMore ==
    ASSUME NEW x \in 0 .. Low - 1, x % 8 = 0
    PROVE  /\ x + 8 <= Low
           /\ (x + 8) % Low = IF x + 8 = Low THEN 0 ELSE x + 8
           /\ ((x + 8) % Low) % 8 = 0
<1> USE Sha1Assumption
<1>1. x + 8 <= Low /\ (x + 8) % 8 = 0
  OBVIOUS
<1>2. CASE x + 8 = Low
  BY <1>2, SelfRemainder
<1>3. CASE x + 8 # Low
  <2>1. (x + 8) % Low = x + 8
    BY <1>1, <1>3, SmallRemainder
  <2> QED BY <1>1, <1>3, <2>1
<1> QED BY <1>1, <1>2, <1>3

LEMMA OneMore ==
    ASSUME NEW x \in 0 .. High - 1
    PROVE  (x + 1) % High = IF x + 1 = High THEN 0 ELSE x + 1
<1> USE Sha1Assumption
<1>1. CASE x + 1 = High
  BY <1>1, SelfRemainder
<1>2. CASE x + 1 # High
  BY <1>2, SmallRemainder
<1> QED BY <1>1, <1>2

LEMMA Products ==
    ASSUME NEW a \in Nat, NEW b \in Nat
    PROVE  /\ a * b \in Nat
           /\ (a + 1) * b = a * b + b
           /\ (a + 2) * b = a * b + b + b
OBVIOUS

LEMMA SumTimes ==
    ASSUME NEW a \in Nat, NEW c \in Nat, NEW b \in Nat
    PROVE  (a + c) * b = a * b + c * b
OBVIOUS

LEMMA LesserProduct ==
    ASSUME NEW a \in Nat, NEW c \in Nat, NEW b \in Nat, a <= c
    PROVE  a * b <= c * b
<1>1. c - a \in Nat /\ c = a + (c - a)
  OBVIOUS
<1>2. (c - a) * b \in Nat
  BY <1>1, Products
<1>3. c * b = a * b + (c - a) * b
  BY <1>1
<1> QED BY <1>2, <1>3, Products

-----------------------------------------------------------------------------
(* The inductive invariant: the two words hold the bits taken so far, and until *)
(* the digest is computed the blocks and the open one hold those octets.       *)

Taken == Len(given) - Len(todo)

Counted ==
    /\ low % 8 = 0
    /\ ~corrupted => high * Low + low = 8 * Taken
    /\ todo # << >> => ~corrupted /\ ~computed

Held ==
    /\ Len(digest) * B + index = Taken
    /\ \A k \in DOMAIN digest : \A i \in Place : digest[k][i] = given[(k - 1) * B + i + 1]
    /\ \A i \in 0 .. index - 1 : block[i] = given[Len(digest) * B + i + 1]
    /\ \A j \in 1 .. Len(todo) : todo[j] = given[Taken + j]

IInv ==
    /\ TypeOK
    /\ Counted
    /\ ~corrupted /\ ~computed => Held
    /\ ~corrupted /\ computed => IsPadding(digest, given)
    /\ result = "ok" => ~corrupted /\ computed

\* An octet of a compressed block is one of the message before the open block.
LEMMA PlaceInBlocks ==
    ASSUME TypeOK, NEW k \in DOMAIN digest, NEW i \in Place
    PROVE  /\ k - 1 \in Nat /\ (k - 1) * B \in Nat
           /\ (k - 1) * B + i + 1 \in 1 .. Len(digest) * B
<1> USE Sha1Assumption
<1>1. Len(digest) \in Nat /\ k \in 1 .. Len(digest)
  BY LenProperties DEF TypeOK
<1>2. k - 1 \in Nat /\ (k - 1) + 1 = k
  BY <1>1
<1>3. (k - 1) * B \in Nat /\ k * B = (k - 1) * B + B
  BY <1>2, Products
<1>4. k * B <= Len(digest) * B /\ Len(digest) * B \in Nat
  BY <1>1, LesserProduct, Products
<1> QED BY <1>2, <1>3, <1>4 DEF Place

-----------------------------------------------------------------------------
(* Types.                                                                     *)

LEMMA ClosedTyped ==
    ASSUME TypeOK, NEW upto \in {B, B - L}
    PROVE  Closed(upto) \in [Place -> Cell]
<1> USE Sha1Assumption
<1> SUFFICES ASSUME NEW i \in Place PROVE Closed(upto)[i] \in Cell
  BY DEF Closed
<1>1. CASE i < index
  BY <1>1 DEF Closed, TypeOK
<1>2. CASE ~(i < index) /\ (i = index \/ i < upto)
  BY <1>2 DEF Closed, TypeOK, Cell
<1>3. CASE ~(i < index) /\ i # index /\ ~(i < upto)
  <2>1. i - upto \in 0 .. L - 1
    BY <1>3 DEF Place
  <2>2. <<high, low, i - upto>> \in LengthCell
    BY <2>1 DEF TypeOK, LengthCell
  <2> QED BY <1>3, <2>2 DEF Closed, Cell
<1> QED BY <1>1, <1>2, <1>3

LEMMA RestTyped == TypeOK => Rest \in [Place -> Cell]
<1> USE Sha1Assumption
<1> SUFFICES ASSUME TypeOK, NEW i \in Place PROVE Rest[i] \in Cell
  BY DEF Rest
<1>1. CASE i < B - L
  BY <1>1 DEF Rest, Cell
<1>2. CASE ~(i < B - L)
  <2>1. i - (B - L) \in 0 .. L - 1
    BY <1>2 DEF Place
  <2>2. <<high, low, i - (B - L)>> \in LengthCell
    BY <2>1 DEF TypeOK, LengthCell
  <2> QED BY <1>2, <2>2 DEF Rest, Cell
<1> QED BY <1>1, <1>2

LEMMA PaddingTyped ==
    ASSUME TypeOK
    PROVE  Padding \in Seq([Place -> Cell]) /\ Padding[Len(Padding)] \in [Place -> Cell]
<1>1. CASE Overflow
  <2>1. Padding = <<Closed(B), Rest>>
    BY <1>1 DEF Padding
  <2> QED BY <2>1, ClosedTyped, RestTyped
<1>2. CASE ~Overflow
  <2>1. Padding = <<Closed(B - L)>>
    BY <1>2 DEF Padding
  <2> QED BY <2>1, ClosedTyped
<1> QED BY <1>1, <1>2

-----------------------------------------------------------------------------
(* The steps.                                                                 *)

LEMMA InitIInv == Init => IInv
<1> SUFFICES ASSUME Init PROVE IInv
  OBVIOUS
<1> USE Sha1Assumption
<1>1. << >> \in Seq(Octet) /\ << >> \in Seq([Place -> Cell]) /\ Len(<< >>) = 0
  BY EmptySeq
<1>2. block \in [Place -> Cell]
  BY DEF Init, Cell
<1>3. TypeOK
  <2>1. 0 \in 0 .. Low - 1 /\ 0 \in 0 .. High - 1 /\ 0 \in Place
    BY DEF Place
  <2> QED BY <1>1, <1>2, <2>1, Zenon DEF Init, TypeOK
<1>4. Counted
  BY <1>1 DEF Init, Counted, Taken
<1>5. Held
  BY <1>1 DEF Init, Held, Taken
<1> QED BY <1>3, <1>4, <1>5 DEF Init, IInv

LEMMA ResetKeeps == ASSUME IInv, Reset PROVE IInv'
<1> USE Sha1Assumption
<1>1. << >> \in Seq(Octet) /\ << >> \in Seq([Place -> Cell]) /\ Len(<< >>) = 0
  BY EmptySeq
<1>2. TypeOK'
  <2>1. 0 \in 0 .. Low - 1 /\ 0 \in 0 .. High - 1 /\ 0 \in Place
    BY DEF Place
  <2> QED BY <1>1, <2>1, Zenon DEF Reset, IInv, TypeOK
<1>3. Counted' /\ Held'
  BY <1>1 DEF Reset, Counted, Held, Taken
<1> QED BY <1>2, <1>3 DEF Reset, IInv

LEMMA InputKeeps == ASSUME IInv, NEW piece \in Pieces, Input(piece) PROVE IInv'
<1> USE Sha1Assumption
<1>0. /\ todo = << >> /\ Len(todo) = 0 /\ given \in Seq(Octet) /\ Len(given) \in Nat
      /\ digest \in Seq([Place -> Cell]) /\ Len(digest) \in Nat
      /\ given' = given \o piece /\ result' = "none"
      /\ UNCHANGED <<low, high, index, block, digest, computed>>
  BY EmptySeq, LenProperties DEF Input, IInv, TypeOK
<1>1. piece \in Seq(Octet) /\ Len(piece) \in Nat /\ piece # << >>
  <2>1. PICK n \in 1 .. MaxPiece : piece \in [1 .. n -> Octet]
    BY DEF Pieces
  <2> QED BY <2>1
<1>2. /\ given' \in Seq(Octet) /\ Len(given') = Len(given) + Len(piece)
      /\ \A j \in 1 .. Len(given) + Len(piece) :
            given'[j] = IF j <= Len(given) THEN given[j] ELSE piece[j - Len(given)]
  BY <1>0, <1>1, ConcatProperties
<1>3. CASE (computed \/ corrupted) /\ corrupted' = TRUE /\ UNCHANGED todo
  <2>1. TypeOK'
    BY <1>0, <1>2, <1>3 DEF IInv, TypeOK
  <2>2. Counted'
    BY <1>0, <1>3 DEF IInv, Counted
  <2> QED BY <1>0, <1>3, <2>1, <2>2 DEF IInv
<1>4. CASE ~computed /\ ~corrupted /\ todo' = piece /\ UNCHANGED corrupted
  <2>1. TypeOK'
    BY <1>0, <1>1, <1>2, <1>4 DEF IInv, TypeOK
  <2>2. Taken' = Taken /\ Taken = Len(given)
    BY <1>0, <1>1, <1>2, <1>4 DEF Taken
  <2>3. Counted'
    BY <1>0, <1>4, <2>2 DEF IInv, Counted
  <2>4. Held'
    <3>1. Held /\ index \in Nat
      BY <1>4 DEF IInv, TypeOK, Place
    <3>2. \A j \in 1 .. Len(todo') : todo'[j] = given'[Taken' + j]
      BY <1>0, <1>1, <1>2, <1>4, <2>2
    <3>3. \A j \in 1 .. Taken : given'[j] = given[j]
      BY <1>0, <1>1, <1>2, <2>2
    <3>4. ASSUME NEW k \in DOMAIN digest, NEW i \in Place
          PROVE  (k - 1) * B + i + 1 \in 1 .. Taken
      <4>1. TypeOK /\ Len(digest) * B \in Nat
        BY <1>0, Products DEF IInv
      <4>2. Len(digest) * B <= Taken
        BY <3>1, <4>1 DEF Held
      <4> QED BY <4>1, <4>2, PlaceInBlocks DEF Taken
    <3>5. ASSUME NEW i \in 0 .. index - 1
          PROVE  Len(digest) * B + i + 1 \in 1 .. Taken
      <4>1. Len(digest) * B \in Nat
        BY <1>0, Products
      <4> QED BY <3>1, <4>1 DEF Held
    <3> HIDE DEF Taken
    <3>6. \A k \in DOMAIN digest : \A i \in Place :
             digest[k][i] = given'[(k - 1) * B + i + 1]
      BY <3>1, <3>3, <3>4 DEF Held
    <3>7. \A i \in 0 .. index - 1 : block[i] = given'[Len(digest) * B + i + 1]
      BY <3>1, <3>3, <3>5 DEF Held
    <3>8. Len(digest) * B + index = Taken'
      BY <2>2, <3>1 DEF Held
    <3>9. UNCHANGED <<index, block, digest>>
      BY <1>0
    <3> QED BY <3>2, <3>6, <3>7, <3>8, <3>9 DEF Held
  <2> QED BY <1>0, <1>4, <2>1, <2>3, <2>4 DEF IInv
<1> QED BY <1>3, <1>4 DEF Input

\* The two words count the bits of an octet more, unless both come round.
LEMMA TakeCounts ==
    ASSUME IInv, Take
    PROVE  /\ ~corrupted /\ ~computed /\ todo # << >>
           /\ low' \in 0 .. Low - 1 /\ high' \in 0 .. High - 1 /\ low' % 8 = 0
           /\ ~corrupted' => high' * Low + low' = 8 * Taken + 8
           /\ corrupted' => 8 * Taken + 8 = High * Low
<1> USE Sha1Assumption
<1>0. Taken \in Int
  BY LenProperties DEF IInv, TypeOK, Taken
<1>1. ~corrupted /\ ~computed /\ todo # << >>
  BY DEF Take, IInv, Counted
<1>2. /\ low \in 0 .. Low - 1 /\ high \in 0 .. High - 1 /\ low % 8 = 0
      /\ high * Low + low = 8 * Taken
  BY <1>1 DEF IInv, Counted, TypeOK
<1>3. /\ low' = (low + 8) % Low
      /\ high' = IF low' = 0 THEN (high + 1) % High ELSE high
      /\ corrupted' = (low' = 0 /\ high' = 0)
  BY DEF Take, TooLong
<1>4. /\ low + 8 <= Low /\ low' = (IF low + 8 = Low THEN 0 ELSE low + 8) /\ low' % 8 = 0
  BY <1>2, <1>3, EightMore
<1>5. (high + 1) % High = IF high + 1 = High THEN 0 ELSE high + 1
  BY <1>2, OneMore
<1>6. low' \in 0 .. Low - 1 /\ high' \in 0 .. High - 1
  BY <1>2, <1>3, <1>4, <1>5
<1>7. high * Low \in Nat /\ (high + 1) * Low = high * Low + Low
  BY <1>2, Products
<1>8. CASE low + 8 # Low
  <2>1. high' = high /\ low' = low + 8 /\ low' # 0
    BY <1>2, <1>3, <1>4, <1>8
  <2>2. ~corrupted'
    BY <1>3, <2>1, Zenon
  <2>3. high' * Low + low' = 8 * Taken + 8
    BY <1>0, <1>2, <1>7, <2>1
  <2> QED BY <1>1, <1>4, <1>6, <2>2, <2>3, Zenon
<1>9. CASE low + 8 = Low /\ high + 1 # High
  <2>1. high' = high + 1 /\ low' = 0
    BY <1>3, <1>4, <1>5, <1>9
  <2>2. high' * Low + low' = high * Low + Low
    BY <1>6, <1>7, <2>1
  <2>3. ~corrupted'
    <3>1. high' # 0
      BY <1>2, <2>1
    <3> QED BY <1>3, <3>1, Zenon
  <2>4. high' * Low + low' = 8 * Taken + 8
    BY <1>0, <1>2, <1>7, <1>9, <2>2
  <2> QED BY <1>1, <1>4, <1>6, <2>3, <2>4, Zenon
<1>10. CASE low + 8 = Low /\ high + 1 = High
  <2>1. high' = 0 /\ low' = 0 /\ corrupted' = TRUE
    BY <1>3, <1>4, <1>5, <1>10
  <2>2. High * Low = high * Low + Low
    BY <1>7, <1>10
  <2> QED BY <1>1, <1>2, <1>4, <1>6, <1>7, <1>10, <2>1, <2>2
<1> QED BY <1>8, <1>9, <1>10

LEMMA TakeKeeps == ASSUME IInv, Take PROVE IInv'
<1> USE Sha1Assumption
<1> DEFINE b == [block EXCEPT ![index] = Head(todo)]
           n == Len(digest)
<1>0. /\ todo \in Seq(Octet) /\ todo # << >> /\ given \in Seq(Octet)
      /\ digest \in Seq([Place -> Cell]) /\ n \in Nat /\ index \in Place
      /\ block \in [Place -> Cell] /\ Len(given) \in Nat
      /\ UNCHANGED <<computed, given, result>> /\ block' = b
  BY LenProperties DEF Take, IInv, TypeOK
<1>1. /\ ~corrupted /\ ~computed
      /\ low' \in 0 .. Low - 1 /\ high' \in 0 .. High - 1 /\ low' % 8 = 0
      /\ ~corrupted' => high' * Low + low' = 8 * Taken + 8
  BY TakeCounts
<1>2. /\ Head(todo) \in Octet /\ Head(todo) = todo[1]
      /\ Tail(todo) \in Seq(Octet) /\ Len(Tail(todo)) = Len(todo) - 1
      /\ Len(todo) \in Nat \ {0}
      /\ \A j \in 1 .. Len(todo) - 1 : Tail(todo)[j] = todo[j + 1]
  BY <1>0, HeadTailProperties, LenProperties, EmptySeq
<1>3. b \in [Place -> Cell] /\ b[index] = Head(todo)
      /\ \A i \in Place : i # index => b[i] = block[i]
  BY <1>0, <1>2 DEF Cell
<1>4. \/ index + 1 = B /\ index' = 0 /\ digest' = Append(digest, b)
      \/ index + 1 # B /\ index' = index + 1 /\ digest' = digest
  BY DEF Take, Full
<1>5. TypeOK'
  <2>1. index' \in Place /\ digest' \in Seq([Place -> Cell])
    <3>1. index' \in Place
      BY <1>0, <1>4 DEF Place
    <3>2. digest' \in Seq([Place -> Cell])
      <4> HIDE DEF b
      <4>1. digest \in Seq([Place -> Cell]) /\ b \in [Place -> Cell]
        BY <1>0, <1>3
      <4>2. Append(digest, b) \in Seq([Place -> Cell])
        BY <4>1, AppendProperties
      <4> QED BY <1>4, <4>1, <4>2
    <3> QED BY <3>1, <3>2
  <2>2. corrupted' \in BOOLEAN /\ todo' \in Seq(Octet)
    BY <1>0, <1>2, EmptySeq DEF Take, TooLong
  <2>3. computed' \in BOOLEAN /\ result' \in {"none", "ok", "failed"}
    BY <1>0 DEF IInv, TypeOK
  <2> QED BY <1>0, <1>1, <1>3, <2>1, <2>2, <2>3 DEF TypeOK
<1>6. ~corrupted' => todo' = Tail(todo)
  BY DEF Take
<1>7. corrupted' => todo' = << >>
  BY DEF Take
<1>8. ASSUME ~corrupted' PROVE Taken' = Taken + 1
  <2>1. todo' = Tail(todo)
    BY <1>6, <1>8
  <2> QED BY <1>0, <1>2, <2>1 DEF Taken
<1>9. Taken \in Int
  BY <1>0, <1>2 DEF Taken
<1>10. Counted'
  <2>1. ASSUME ~corrupted' PROVE high' * Low + low' = 8 * Taken'
    <3>1. high' * Low + low' = 8 * Taken + 8 /\ Taken' = Taken + 1
      BY <1>1, <1>8, <2>1
    <3> QED BY <1>9, <3>1
  <2>2. todo' # << >> => ~corrupted' /\ ~computed'
    BY <1>0, <1>1, <1>7, Zenon
  <2> QED BY <1>1, <2>1, <2>2, Zenon DEF Counted
<1>11. result' # "ok"
  BY <1>0, <1>1 DEF IInv
<1>12. ASSUME ~corrupted' PROVE Held'
  <2>1. Held
    BY <1>1 DEF IInv
  <2>2. n * B \in Nat /\ n * B + index = Taken /\ Taken' = Taken + 1
    BY <1>0, <1>8, <1>12, <2>1, Products DEF Held
  <2>3. Head(todo) = given[n * B + index + 1]
    BY <1>2, <2>1, <2>2 DEF Held
  <2>4. \A i \in 0 .. index : b[i] = given[n * B + i + 1]
    <3> HIDE DEF b
    <3> SUFFICES ASSUME NEW i \in 0 .. index PROVE b[i] = given[n * B + i + 1]
      OBVIOUS
    <3>1. CASE i = index
      BY <1>3, <2>3, <3>1
    <3>2. CASE i # index
      <4>1. i \in Place /\ i \in 0 .. index - 1
        BY <1>0, <3>2 DEF Place
      <4> QED BY <1>3, <2>1, <3>2, <4>1 DEF Held
    <3> QED BY <3>1, <3>2
  <2>5. \A j \in 1 .. Len(todo') : todo'[j] = given[Taken' + j]
    <3> SUFFICES ASSUME NEW j \in 1 .. Len(todo) - 1 PROVE Tail(todo)[j] = given[Taken + 1 + j]
      BY <1>2, <1>6, <1>12, <2>2
    <3>1. todo[j + 1] = given[Taken + (j + 1)]
      BY <1>2, <2>1 DEF Held
    <3> QED BY <1>2, <1>9, <3>1
  <2>6. CASE index + 1 = B /\ index' = 0 /\ digest' = Append(digest, b)
    <3>1. /\ Len(digest') = n + 1 /\ DOMAIN digest' = 1 .. n + 1 /\ DOMAIN digest = 1 .. n
          /\ digest'[n + 1] = b /\ \A k \in 1 .. n : digest'[k] = digest[k]
      <4> HIDE DEF b
      <4> QED BY <1>0, <1>3, <1>5, <2>6, AppendProperties, LenProperties DEF TypeOK
    <3>2. Len(digest') * B = n * B + B
      BY <1>0, <3>1, Products
    <3>3. Len(digest') * B + index' = Taken'
      <4> DEFINE x == Len(digest') * B
                 y == n * B
      <4>1. x = y + B /\ y \in Nat /\ y + index = Taken
        BY <2>2, <3>2
      <4> HIDE DEF x, y
      <4>2. x + index' = Taken'
        BY <1>0, <1>9, <2>2, <2>6, <4>1 DEF Place
      <4> QED BY <4>2 DEF x
    <3>4. ASSUME NEW k \in 1 .. n + 1, NEW i \in Place
          PROVE  digest'[k][i] = given[(k - 1) * B + i + 1]
      <4>1. CASE k = n + 1
        <5>1. i \in 0 .. index /\ k - 1 = n
          BY <1>0, <2>6, <4>1 DEF Place
        <5> HIDE DEF b
        <5> QED BY <2>4, <3>1, <4>1, <5>1
      <4>2. CASE k # n + 1
        <5>1. k \in 1 .. n
          BY <1>0, <4>2
        <5> HIDE DEF b
        <5> QED BY <2>1, <3>1, <5>1 DEF Held
      <4> QED BY <4>1, <4>2
    <3> QED BY <1>0, <2>5, <2>6, <3>1, <3>3, <3>4 DEF Held
  <2>7. CASE index + 1 # B /\ index' = index + 1 /\ digest' = digest
    <3>1. \A i \in 0 .. index' - 1 : block'[i] = given[n * B + i + 1]
      <4> HIDE DEF b
      <4> QED BY <1>0, <2>4, <2>7 DEF Place
    <3>2. Len(digest') * B + index' = Taken'
      BY <1>0, <2>2, <2>7 DEF Place
    <3> QED BY <1>0, <2>1, <2>5, <2>7, <3>1, <3>2 DEF Held
  <2> QED BY <1>4, <2>6, <2>7
<1> QED BY <1>0, <1>1, <1>5, <1>10, <1>11, <1>12 DEF IInv

-----------------------------------------------------------------------------
(* The padding.                                                               *)

\* What SHA1PadMessage compresses, octet by octet: the octets of the open block,
\* the mark, zeros, and the length in the last L octets of all.
LEMMA PaddingCells ==
    ASSUME IInv, NEW k \in DOMAIN Padding, NEW i \in Place
    PROVE  LET at == (k - 1) * B + i
               total == Len(Padding) * B
           IN  Padding[k][i] = IF at < index THEN block[at]
                               ELSE IF at = index THEN Mark
                               ELSE IF at < total - L THEN Zero
                               ELSE <<high, low, at - (total - L)>>
<1> USE Sha1Assumption
<1>0. index \in Place
  BY DEF IInv, TypeOK
<1> DEFINE at == (k - 1) * B + i
           total == Len(Padding) * B
<1> SUFFICES Padding[k][i] = IF at < index THEN block[at]
                             ELSE IF at = index THEN Mark
                             ELSE IF at < total - L THEN Zero
                             ELSE <<high, low, at - (total - L)>>
  OBVIOUS
<1>1. CASE Overflow
  <2>1. Padding = <<Closed(B), Rest>> /\ total = B + B
    BY <1>1 DEF Padding
  <2>2. CASE k = 1
    <3>1. at = i /\ i < B + B - L /\ i < B
      BY <2>2 DEF Place
    <3>2. Padding[k] = Closed(B)
      BY <2>1, <2>2
    <3>3. Closed(B)[i] = IF i < index THEN block[i] ELSE IF i = index THEN Mark ELSE Zero
      BY <3>1 DEF Closed
    <3> HIDE DEF at, total
    <3> QED BY <2>1, <3>1, <3>2, <3>3
  <2>3. CASE k = 2
    <3>1. at = B + i
      BY <2>3 DEF Place
    <3>2. Padding[k] = Rest
      BY <2>1, <2>3
    <3>3. Rest[i] = IF i < B - L THEN Zero ELSE <<high, low, i - (B - L)>>
      BY DEF Rest
    <3> HIDE DEF at, total
    <3>4. /\ ~(at < index) /\ at # index
          /\ (i < B - L <=> at < total - L) /\ i - (B - L) = at - (total - L)
      BY <1>0, <2>1, <3>1 DEF Place
    <3> QED BY <3>2, <3>3, <3>4
  <2> QED BY <2>1, <2>2, <2>3
<1>2. CASE ~Overflow
  <2>1. Padding = <<Closed(B - L)>> /\ total = B /\ k = 1
    BY <1>2 DEF Padding
  <2>2. at = i
    BY <2>1 DEF Place
  <2>3. Padding[k] = Closed(B - L)
    BY <2>1
  <2>4. Closed(B - L)[i] = IF i < index THEN block[i] ELSE IF i = index THEN Mark
                           ELSE IF i < B - L THEN Zero ELSE <<high, low, i - (B - L)>>
    BY DEF Closed
  <2> HIDE DEF at, total
  <2> QED BY <2>1, <2>2, <2>3, <2>4
<1> QED BY <1>1, <1>2

\* It is just long enough.
LEMMA PaddingFits ==
    ASSUME IInv
    PROVE  /\ Len(Padding) \in {1, 2}
           /\ Len(Padding) * B - B < index + 1 + L
           /\ index + 1 + L <= Len(Padding) * B
<1> USE Sha1Assumption
<1>0. index \in Place
  BY DEF IInv, TypeOK
<1>1. CASE Overflow
  <2>1. Len(Padding) = 2 /\ Len(Padding) * B = B + B
    BY <1>1 DEF Padding
  <2> QED BY <1>0, <1>1, <2>1 DEF Overflow, Place
<1>2. CASE ~Overflow
  <2>1. Len(Padding) = 1 /\ Len(Padding) * B = B
    BY <1>2 DEF Padding
  <2> QED BY <1>0, <1>2, <2>1 DEF Overflow, Place
<1> QED BY <1>1, <1>2

LEMMA PaddedMessage ==
    ASSUME IInv, todo = << >>, ~corrupted, ~computed
    PROVE  IsPadding(digest \o Padding, given)
<1> USE Sha1Assumption
<1> DEFINE n == Len(digest)
           m == Len(Padding)
           all == digest \o Padding
           before == n * B
           pad == m * B
           total == Len(all) * B
           at(k, i) == (k - 1) * B + i
<1>1. /\ digest \in Seq([Place -> Cell]) /\ Padding \in Seq([Place -> Cell])
      /\ n \in Nat /\ m \in Nat /\ index \in Place /\ given \in Seq(Octet)
      /\ high \in 0 .. High - 1 /\ low \in 0 .. Low - 1
  BY PaddingTyped, LenProperties DEF IInv, TypeOK
<1>2. /\ Len(all) = n + m /\ DOMAIN all = 1 .. n + m
      /\ \A k \in 1 .. n + m : all[k] = IF k <= n THEN digest[k] ELSE Padding[k - n]
  BY <1>1, ConcatProperties, LenProperties
<1>3. /\ before \in Nat /\ pad \in Nat /\ total = before + pad
      /\ Len(given) = before + index
  <2>1. Held /\ Len(todo) = 0
    BY EmptySeq DEF IInv
  <2>2. Len(given) \in Nat /\ before + index = Len(given)
    BY <1>1, <2>1, LenProperties DEF Held, Taken
  <2>3. (n + m) * B = n * B + m * B /\ n * B \in Nat /\ m * B \in Nat
    BY <1>1, Products
  <2> QED BY <1>1, <1>2, <2>2, <2>3 DEF Place
<1>4. /\ pad - B < index + 1 + L /\ index + 1 + L <= pad
  BY PaddingFits
<1>5. high * Low + low = 8 * Len(given)
  <2>1. Taken = Len(given)
    BY <1>1, EmptySeq, LenProperties DEF Taken
  <2> QED BY <2>1 DEF IInv, Counted
<1>6. ASSUME NEW k \in 1 .. n + m, NEW i \in Place
      PROVE  all[k][i] = IF at(k, i) < Len(given) THEN given[at(k, i) + 1]
                         ELSE IF at(k, i) = Len(given) THEN Mark
                         ELSE IF at(k, i) < total - L THEN Zero
                         ELSE <<high, low, at(k, i) - (total - L)>>
  <2>1. CASE k <= n
    <3>1. k \in DOMAIN digest
      BY <1>1, <2>1, LenProperties
    <3>2. all[k] = digest[k] /\ at(k, i) + 1 \in 1 .. before /\ (k - 1) * B \in Nat
      BY <1>2, <2>1, <3>1, PlaceInBlocks DEF IInv
    <3>3. digest[k][i] = given[at(k, i) + 1]
      BY <3>1 DEF IInv, Held
    <3>4. at(k, i) < Len(given)
      <4> HIDE DEF before
      <4> QED BY <1>1, <1>3, <3>2 DEF Place
    <3> QED BY <3>2, <3>3, <3>4
  <2>2. CASE k > n
    <3> DEFINE j == k - n
               here == (j - 1) * B + i
    <3>1. j \in DOMAIN Padding /\ j - 1 \in Nat /\ all[k] = Padding[j]
      BY <1>1, <1>2, <2>2, LenProperties
    <3>2. (k - 1) * B = n * B + (j - 1) * B /\ (j - 1) * B \in Nat
      <4>1. k - 1 = n + (j - 1)
        BY <1>1
      <4>2. (n + (j - 1)) * B = n * B + (j - 1) * B
        BY <1>1, <3>1, SumTimes
      <4> QED BY <3>1, <4>1, <4>2, Products
    <3>3. at(k, i) = before + here /\ here \in Nat
      BY <1>3, <3>2 DEF Place
    <3>4. Padding[j][i] = IF here < index THEN block[here]
                          ELSE IF here = index THEN Mark
                          ELSE IF here < pad - L THEN Zero
                          ELSE <<high, low, here - (pad - L)>>
      BY <3>1, PaddingCells
    <3>5. here < index => block[here] = given[before + here + 1]
      BY <1>1, <3>3 DEF IInv, Held, Place
    <3> HIDE DEF before, here, pad, total, all, j, at, m, n
    <3>6. /\ at(k, i) < Len(given) <=> here < index
          /\ at(k, i) = Len(given) <=> here = index
          /\ at(k, i) < total - L <=> here < pad - L
          /\ at(k, i) - (total - L) = here - (pad - L)
          /\ at(k, i) + 1 = before + here + 1
      BY <1>1, <1>3, <3>3 DEF Place
    <3> QED BY <3>1, <3>4, <3>5, <3>6
  <2> QED BY <1>1, <2>1, <2>2
<1>7. total - B < Len(given) + 1 + L /\ Len(given) + 1 + L <= total
  <2> HIDE DEF total, before, pad
  <2> QED BY <1>1, <1>3, <1>4 DEF Place
<1>8. \A k \in DOMAIN all, i \in Place :
         all[k][i] = IF at(k, i) < Len(given) THEN given[at(k, i) + 1]
                     ELSE IF at(k, i) = Len(given) THEN Mark
                     ELSE IF at(k, i) < total - L THEN Zero
                     ELSE <<high, low, at(k, i) - (total - L)>>
  <2> TAKE k \in DOMAIN all, i \in Place
  <2>1. k \in 1 .. n + m
    BY <1>2
  <2> QED BY <2>1, <1>6
<1> HIDE DEF all
<1>9. IsPadding(all, given)
  BY <1>1, <1>5, <1>7, <1>8 DEF IsPadding
<1> QED BY <1>9 DEF all

LEMMA ResultKeeps == ASSUME IInv, Result PROVE IInv'
<1> USE Sha1Assumption
<1>0. todo = << >> /\ UNCHANGED <<low, high, corrupted, todo, given>>
  BY DEF Result
<1>1. Counted' /\ Taken' = Taken
  BY <1>0 DEF IInv, Counted, Taken
<1>2. CASE corrupted /\ result' = "failed" /\ UNCHANGED <<index, block, digest, computed>>
  <2>1. TypeOK'
    BY <1>0, <1>2 DEF IInv, TypeOK
  <2> QED BY <1>0, <1>1, <1>2, <2>1 DEF IInv
<1>3. CASE /\ ~corrupted /\ computed /\ result' = "ok"
           /\ UNCHANGED <<index, block, digest, computed>>
  <2>1. TypeOK'
    BY <1>0, <1>3 DEF IInv, TypeOK
  <2>2. IsPadding(digest, given)'
    BY <1>0, <1>3 DEF IInv
  <2> QED BY <1>0, <1>1, <1>3, <2>1, <2>2 DEF IInv
<1>4. CASE /\ ~corrupted /\ ~computed
           /\ digest' = digest \o Padding
           /\ block' = Padding[Len(Padding)] /\ index' = 0
           /\ computed' = TRUE
           /\ result' = "ok"
  <2>1. TypeOK'
    <3>1. digest' \in Seq([Place -> Cell])
      BY <1>4, PaddingTyped, ConcatProperties DEF IInv, TypeOK
    <3>2. block' \in [Place -> Cell]
      BY <1>4, PaddingTyped DEF IInv
    <3>3. index' \in Place
      BY <1>4 DEF Place
    <3> QED BY <1>0, <1>4, <3>1, <3>2, <3>3 DEF IInv, TypeOK
  <2>2. IsPadding(digest, given)'
    <3>1. IsPadding(digest \o Padding, given)
      BY <1>0, <1>4, PaddedMessage
    <3> QED BY <1>0, <1>4, <3>1
  <2> QED BY <1>0, <1>1, <1>4, <2>1, <2>2 DEF IInv
<1> QED BY <1>2, <1>3, <1>4 DEF Result

LEMMA NextKeepsIInv == IInv /\ [Next]_vars => IInv'
<1> SUFFICES ASSUME IInv, [Next]_vars PROVE IInv'
  OBVIOUS
<1>1. CASE UNCHANGED vars
  BY <1>1 DEF vars, IInv, TypeOK, Counted, Held, Taken, IsPadding
<1> QED BY <1>1, ResetKeeps, InputKeeps, TakeKeeps, ResultKeeps DEF Next

LEMMA Invariance == Spec => []IInv
<1> QED BY InitIInv, NextKeepsIInv, PTL DEF Spec

\* The context keeps its types: the index stays in the block, the length in its
\* words.
THEOREM TypeCorrect == Spec => []TypeOK
<1>1. IInv => TypeOK
  BY DEF IInv
<1> QED BY <1>1, Invariance, PTL

\* For every size of block and length, every message and every way to cut it into
\* calls of SHA1Input: what SHA1Result answers for is the padded message.
THEOREM DigestIsOfTheMessage == Spec => []DigestOfAllGiven
<1>1. IInv => DigestOfAllGiven
  BY DEF IInv, DigestOfAllGiven
<1> QED BY <1>1, Invariance, PTL

\* SHA1Input gives a message up only when its length has no room in Length_High
\* and Length_Low, or after SHA1Result.
THEOREM GivenUpForCause == Spec => CorruptedForCause
<1> DEFINE ForCause == ~corrupted /\ corrupted' => computed \/ 8 * Len(given) >= Low * High
<1>1. IInv /\ [Next]_vars => [ForCause]_vars
  <2> SUFFICES ASSUME IInv, Next, ~corrupted, corrupted'
               PROVE  computed \/ 8 * Len(given) >= Low * High
    OBVIOUS
  <2>1. CASE Take
    <3>1. 8 * Taken + 8 = High * Low /\ todo # << >>
      BY <2>1, TakeCounts
    <3>2. Len(todo) \in Nat \ {0} /\ Len(given) \in Nat
      BY <3>1, EmptySeq, LenProperties DEF IInv, TypeOK
    <3>3. 8 * Taken + 8 <= 8 * Len(given)
      BY <3>2 DEF Taken
    <3>4. High * Low = Low * High
      BY Sha1Assumption
    <3> QED BY <3>1, <3>2, <3>3, <3>4
  <2>2. ASSUME NEW piece \in Pieces, Input(piece) PROVE computed
    BY <2>2 DEF Input
  <2>3. ~Reset /\ ~Result
    BY DEF Reset, Result
  <2> QED BY <2>1, <2>2, <2>3 DEF Next
<1> QED BY <1>1, Invariance, PTL DEF Spec, CorruptedForCause
=============================================================================
