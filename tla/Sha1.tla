-------------------------------- MODULE Sha1 --------------------------------
(***************************************************************************)
(* sha1.c, which answers the salt of the VNS server: what SHA1Input,          *)
(* SHA1Result and SHA1PadMessage make of a message of any length given in any   *)
(* pieces.  SHA1Input takes an octet per step.                               *)
(*                                                                         *)
(* The compression of a block is opaque: Message_Digest is the sequence of    *)
(* the blocks compressed since SHA1Reset, and two digests agree if these do.  *)
(***************************************************************************)
EXTENDS Integers, Sequences

CONSTANTS
    Octet,      \* values of an octet
    Mark, Zero, \* the octets 0x80 and 0
    Junk,       \* what an octet of the block holds before it is written
    B,          \* octets of a block: 64
    L,          \* octets of the length at its end: 8
    Low,        \* 2^32: Length_Low and Length_High fit in 32 bits
    High,       \* 2^32
    MaxGiven,   \* bound on the octets given since SHA1Reset
    MaxPiece    \* bound on those of one call of SHA1Input

ASSUME Sha1Assumption ==
    /\ Mark \in Octet /\ Zero \in Octet
    /\ L \in Nat \ {0} /\ B \in Nat /\ L < B
    /\ Low \in Nat \ {0} /\ Low % 8 = 0
    /\ High \in Nat \ {0}
    /\ MaxGiven \in Nat /\ MaxPiece \in Nat

VARIABLES
    low, high,  \* Length_Low, Length_High: the length in bits
    index,      \* Message_Block_Index
    block,      \* Message_Block
    digest,     \* Message_Digest
    computed, corrupted,
    todo,       \* the octets SHA1Input still has to take
    given,      \* history: all octets given since SHA1Reset
    result      \* what SHA1Result has said of them

vars == <<low, high, index, block, digest, computed, corrupted, todo, given, result>>

Place == 0 .. B - 1

\* An octet of the message length: which one of which two words.
LengthCell == (0 .. High - 1) \X (0 .. Low - 1) \X (0 .. L - 1)

Cell == Octet \cup LengthCell \cup {Junk}

Pieces == UNION {[1 .. n -> Octet] : n \in 1 .. MaxPiece}

TypeOK ==
    /\ low \in 0 .. Low - 1 /\ high \in 0 .. High - 1
    /\ index \in Place
    /\ block \in [Place -> Cell]
    /\ digest \in Seq([Place -> Cell])
    /\ computed \in BOOLEAN /\ corrupted \in BOOLEAN
    /\ todo \in Seq(Octet) /\ given \in Seq(Octet)
    /\ result \in {"none", "ok", "failed"}

\* The context is used after SHA1Reset only; the block is whatever memory held.
Init ==
    /\ low = 0 /\ high = 0 /\ index = 0
    /\ block = [i \in Place |-> Junk]
    /\ digest = << >>
    /\ computed = FALSE /\ corrupted = FALSE
    /\ todo = << >> /\ given = << >> /\ result = "none"

Reset ==
    /\ todo = << >>
    /\ low' = 0 /\ high' = 0 /\ index' = 0
    /\ digest' = << >>
    /\ computed' = FALSE /\ corrupted' = FALSE
    /\ given' = << >> /\ result' = "none"
    /\ UNCHANGED <<block, todo>>

-----------------------------------------------------------------------------
(* SHA1Input.                                                                *)

\* Called with at least one octet; without any it returns at once.
Input(piece) ==
    /\ todo = << >>
    /\ Len(given) + Len(piece) <= MaxGiven
    /\ IF computed \/ corrupted
       THEN corrupted' = TRUE /\ UNCHANGED todo
       ELSE todo' = piece /\ UNCHANGED corrupted
    /\ given' = given \o piece /\ result' = "none"
    /\ UNCHANGED <<low, high, index, block, digest, computed>>

\* Fault: any carry makes the message too long.
TooLongAtCarry(l, h) == l = 0

\* Both words of the length have come round.
TooLong(l, h) == l = 0 /\ h = 0

\* Fault: the block is compressed one octet late.
FullLate(i) == i > B

Full(i) == i = B

\* One turn of the loop: store the octet, count its bits, compress a full block.
Take ==
    LET l == (low + 8) % Low
        h == IF l = 0 THEN (high + 1) % High ELSE high
        b == [block EXCEPT ![index] = Head(todo)]
    IN  /\ todo # << >>
        /\ low' = l /\ high' = h
        /\ block' = b
        /\ IF Full(index + 1) THEN index' = 0 /\ digest' = Append(digest, b)
                              ELSE index' = index + 1 /\ UNCHANGED digest
        /\ corrupted' = TooLong(l, h)
        /\ todo' = IF TooLong(l, h) THEN << >> ELSE Tail(todo)
        /\ UNCHANGED <<computed, given, result>>

-----------------------------------------------------------------------------
(* SHA1Result.                                                               *)

\* The end of a message: its octets, the mark, zeros, and from "upto" on the length.
Closed(upto) ==
    [i \in Place |->
        IF i < index THEN block[i]
        ELSE IF i = index THEN Mark
        ELSE IF i < upto THEN Zero ELSE <<high, low, i - upto>>]

\* Zeros and the length alone.
Rest == [i \in Place |-> IF i < B - L THEN Zero ELSE <<high, low, i - (B - L)>>]

\* Fault: one octet too many is held to fit before the length.
OverflowLate == index > B - L

\* No room for the mark before the length.
Overflow == index > B - L - 1

\* SHA1PadMessage: what it compresses.
Padding == IF Overflow THEN <<Closed(B), Rest>> ELSE <<Closed(B - L)>>

Result ==
    /\ todo = << >>
    /\ \/ /\ corrupted
          /\ result' = "failed"
          /\ UNCHANGED <<index, block, digest, computed>>
       \/ /\ ~corrupted /\ computed
          /\ result' = "ok"
          /\ UNCHANGED <<index, block, digest, computed>>
       \/ /\ ~corrupted /\ ~computed
          /\ digest' = digest \o Padding
          /\ block' = Padding[Len(Padding)] /\ index' = 0
          /\ computed' = TRUE
          /\ result' = "ok"
    /\ UNCHANGED <<low, high, corrupted, todo, given>>

Next ==
    \/ Reset
    \/ \E piece \in Pieces : Input(piece)
    \/ Take
    \/ Result

Spec == Init /\ [][Next]_vars

-----------------------------------------------------------------------------
(* Properties.                                                               *)

\* The blocks are the padding the standard asks of a message: as few blocks as
\* hold it, a mark and the length; then zeros up to the length in the last octets.
IsPadding(blocks, msg) ==
    LET total == Len(blocks) * B
    IN  /\ total - B < Len(msg) + 1 + L /\ Len(msg) + 1 + L <= total
        /\ \E h \in 0 .. High - 1, l \in 0 .. Low - 1 :
              /\ h * Low + l = 8 * Len(msg)
              /\ \A k \in DOMAIN blocks, i \in Place :
                    LET n == (k - 1) * B + i
                    IN  blocks[k][i] =
                            IF n < Len(msg) THEN msg[n + 1]
                            ELSE IF n = Len(msg) THEN Mark
                            ELSE IF n < total - L THEN Zero
                            ELSE <<h, l, n - (total - L)>>

\* When SHA1Result reports success, what has been compressed is the padding of all
\* the octets given since SHA1Reset, however they were cut into calls and wherever
\* the message ends in a block; nothing given after an earlier result is missing.
DigestOfAllGiven == result = "ok" => IsPadding(digest, given)

\* A message is only given up when its length in bits has no room in two words, or
\* when octets come after the digest was computed.
CorruptedForCause ==
    [][~corrupted /\ corrupted' => computed \/ 8 * Len(given) >= Low * High]_vars
=============================================================================
