---------------------------- MODULE SharedLemmas -----------------------------
(***************************************************************************)
(* Facts that several of the proofs rest on: least numbers, induction over a *)
(* range of numbers, what the turns of a loop make of a value, and lists of   *)
(* waiting packets.                                                         *)
(***************************************************************************)
EXTENDS Integers, Sequences, SequenceTheorems, WellFoundedInduction, TLAPS

\* Every inhabited set of naturals has a least element.
LEMMA LeastNumber ==
    ASSUME NEW T, T \subseteq Nat, T # {}
    PROVE  \E x \in T : \A y \in T : x <= y
<1> DEFINE R == {ss \in Nat \X Nat : ss[1] < ss[2]}
<1>1. IsWellFoundedOn(R, Nat)
  BY NatLessThanWellFounded, Zenon DEF OpToRel
<1>2. ASSUME NEW x \in Nat, NEW y \in Nat, y < x
      PROVE  <<y, x>> \in R
  <2>1. <<y, x>> \in Nat \X Nat /\ <<y, x>>[1] = y /\ <<y, x>>[2] = x
    OBVIOUS
  <2> QED BY <2>1, <1>2, Zenon
<1> HIDE DEF R
<1>3. PICK x \in T : \A y \in T : ~ (<<y, x>> \in R)
  BY <1>1, WFMin, Zenon
<1>4. ASSUME NEW y \in T PROVE x <= y
  <2>1. ~ (y < x)
    BY <1>2, <1>3, Zenon
  <2> QED BY <2>1
<1> QED BY <1>4, Zenon

\* Below the modulus a number is its own remainder.
LEMMA SmallRemainder ==
    ASSUME NEW w \in Nat \ {0}, NEW n \in 0 .. w - 1
    PROVE  n % w = n
OBVIOUS

\* Induction up to n, for a set T of numbers: the induction theorems of the library
\* have a parameter that is an operator, this one has none.
LEMMA Counting ==
    ASSUME NEW n \in Nat, NEW T, 0 \in T, \A k \in 1 .. n : k - 1 \in T => k \in T
    PROVE  0 .. n \subseteq T
<1> SUFFICES ASSUME (0 .. n) \ T # {} PROVE FALSE
  OBVIOUS
<1>1. PICK m \in (0 .. n) \ T : \A k \in (0 .. n) \ T : m <= k
  <2>1. (0 .. n) \ T \subseteq Nat
    OBVIOUS
  <2> QED BY <2>1, LeastNumber
<1>2. m # 0 /\ m \in 1 .. n /\ m - 1 \in 0 .. n /\ ~(m <= m - 1)
  BY <1>1
<1>3. m - 1 \in T
  BY <1>1, <1>2
<1> QED BY <1>1, <1>2, <1>3

\* f lists what n turns of a loop make of b, the k-th turn being the function step[k].
Loop(f, n, b, step) == f[0] = b /\ \A k \in 1 .. n : f[k] = step[k][f[k - 1]]

\* Every loop has such a list: what a recursive function over 0 .. n is defined by.
LEMMA LoopExists ==
    ASSUME NEW n \in Nat, NEW S, NEW b \in S, NEW step \in [1 .. n -> [S -> S]]
    PROVE  \E f \in [0 .. n -> S] : Loop(f, n, b, step)
<1> DEFINE T == {m \in 0 .. n : \E f \in [0 .. m -> S] : Loop(f, m, b, step)}
<1>1. 0 \in T
  <2> DEFINE f == [k \in 0 .. 0 |-> b]
  <2>1. f \in [0 .. 0 -> S] /\ Loop(f, 0, b, step) /\ 0 \in 0 .. n
    BY DEF Loop
  <2> HIDE DEF f
  <2> QED BY <2>1
<1>2. ASSUME NEW k \in 1 .. n, k - 1 \in T PROVE k \in T
  <2>1. PICK f \in [0 .. k - 1 -> S] : Loop(f, k - 1, b, step)
    BY <1>2
  <2> DEFINE g == [j \in 0 .. k |-> IF j = k THEN step[k][f[k - 1]] ELSE f[j]]
  <2>2. step[k][f[k - 1]] \in S
    <3>1. k - 1 \in 0 .. k - 1
      OBVIOUS
    <3>2. f[k - 1] \in S /\ step[k] \in [S -> S]
      BY <3>1
    <3> QED BY <3>2
  <2>3. g \in [0 .. k -> S]
    BY <2>2
  <2>4. Loop(g, k, b, step)
    <3>1. g[0] = b
      BY <2>1 DEF Loop
    <3>2. ASSUME NEW j \in 1 .. k PROVE g[j] = step[j][g[j - 1]]
      <4>1. g[j - 1] = f[j - 1]
        OBVIOUS
      <4>2. CASE j = k
        BY <4>1, <4>2
      <4>3. CASE j # k
        <5>1. j \in 1 .. k - 1 /\ g[j] = f[j]
          BY <4>3
        <5> QED BY <2>1, <4>1, <5>1 DEF Loop
      <4> QED BY <4>2, <4>3
    <3> HIDE DEF g
    <3> QED BY <3>1, <3>2 DEF Loop
  <2> HIDE DEF g
  <2> QED BY <2>3, <2>4
<1> HIDE DEF T
<1>3. 0 .. n \subseteq T
  BY <1>1, <1>2, Counting
<1>4. n \in T
  BY <1>3
<1> QED BY <1>4 DEF T

-----------------------------------------------------------------------------
(* Lists of waiting packets: an element has a packet pkt, and is appended at   *)
(* the end or taken out anywhere.                                           *)

\* The list without its k-th element.
Drop(q, k) == SubSeq(q, 1, k - 1) \o SubSeq(q, k + 1, Len(q))

\* Whether the packet is in the list, and no packet is there twice.
Kept(q, p) == \E i \in DOMAIN q : q[i].pkt = p

Once(q) == \A i, j \in DOMAIN q : q[i].pkt = q[j].pkt => i = j

\* The list without its k-th element.
LEMMA DropElements ==
    ASSUME NEW S, NEW q \in Seq(S), NEW k \in DOMAIN q
    PROVE  /\ Drop(q, k) \in Seq(S)
           /\ Len(Drop(q, k)) = Len(q) - 1
           /\ \A i \in 1 .. Len(q) - 1 :
                 Drop(q, k)[i] = IF i < k THEN q[i] ELSE q[i + 1]
<1> DEFINE a == SubSeq(q, 1, k - 1)
           b == SubSeq(q, k + 1, Len(q))
<1>1. k \in 1 .. Len(q) /\ Len(q) \in Nat
  OBVIOUS
<1>2. /\ a \in Seq(S) /\ Len(a) = k - 1
      /\ \A i \in 1 .. k - 1 : a[i] = q[i]
  <2>1. \A i \in 1 .. k - 1 : q[i] \in S
    BY <1>1
  <2>2. /\ a \in Seq(S) /\ Len(a) = IF 1 <= k - 1 THEN k - 1 - 1 + 1 ELSE 0
        /\ \A i \in 1 .. k - 1 - 1 + 1 : a[i] = q[1 + i - 1]
    BY <1>1, <2>1, SubSeqProperties
  <2> HIDE DEF a
  <2> QED BY <1>1, <2>2
<1>3. /\ b \in Seq(S) /\ Len(b) = Len(q) - k
      /\ \A i \in 1 .. Len(q) - k : b[i] = q[k + i]
  <2>1. \A i \in k + 1 .. Len(q) : q[i] \in S
    BY <1>1
  <2>2. /\ b \in Seq(S)
        /\ Len(b) = IF k + 1 <= Len(q) THEN Len(q) - (k + 1) + 1 ELSE 0
        /\ \A i \in 1 .. Len(q) - (k + 1) + 1 : b[i] = q[k + 1 + i - 1]
    BY <1>1, <2>1, SubSeqProperties
  <2> HIDE DEF b
  <2> QED BY <1>1, <2>2
<1>4. Drop(q, k) = a \o b
  BY DEF Drop
<1> HIDE DEF a, b
<1>5. /\ a \o b \in Seq(S)
      /\ Len(a \o b) = Len(a) + Len(b)
      /\ \A i \in 1 .. Len(a) + Len(b) :
            (a \o b)[i] = IF i <= Len(a) THEN a[i] ELSE b[i - Len(a)]
  BY <1>2, <1>3, ConcatProperties
<1>6. Len(a) + Len(b) = Len(q) - 1
  BY <1>1, <1>2, <1>3
<1>7. ASSUME NEW i \in 1 .. Len(q) - 1
      PROVE  Drop(q, k)[i] = IF i < k THEN q[i] ELSE q[i + 1]
  <2>1. Drop(q, k)[i] = IF i <= Len(a) THEN a[i] ELSE b[i - Len(a)]
    BY <1>4, <1>5, <1>6
  <2>2. CASE i < k
    BY <1>1, <1>2, <2>1, <2>2
  <2>3. CASE ~(i < k)
    <3>1. i - Len(a) \in 1 .. Len(q) - k /\ k + (i - Len(a)) = i + 1 /\ ~(i <= Len(a))
      BY <1>1, <1>2, <2>3
    <3>2. Drop(q, k)[i] = b[i - Len(a)]
      BY <2>1, <3>1
    <3>3. b[i - Len(a)] = q[k + (i - Len(a))]
      BY <1>3, <3>1
    <3> QED BY <2>3, <3>1, <3>2, <3>3
  <2> QED BY <2>2, <2>3
<1> QED BY <1>4, <1>5, <1>6, <1>7

\* Taking an element out leaves a list of its other elements, without its packet.
LEMMA DropOnce ==
    ASSUME NEW S, NEW q \in Seq(S), Once(q), NEW k \in DOMAIN q
    PROVE  /\ Once(Drop(q, k))
           /\ \A i \in DOMAIN Drop(q, k) : Drop(q, k)[i].pkt # q[k].pkt
<1> DEFINE r == Drop(q, k)
           old(i) == IF i < k THEN i ELSE i + 1
<1>1. /\ DOMAIN r = 1 .. Len(q) - 1
      /\ \A i \in DOMAIN r : r[i] = q[old(i)]
  <2>1. DOMAIN r = 1 .. Len(r)
    BY DropElements, LenProperties
  <2> QED BY <2>1, DropElements
<1>2. \A i \in 1 .. Len(q) - 1 : old(i) \in DOMAIN q /\ old(i) # k
  OBVIOUS
<1>3. \A i, j \in 1 .. Len(q) - 1 : old(i) = old(j) => i = j
  OBVIOUS
<1> HIDE DEF r, old
<1>4. Once(r) /\ \A i \in DOMAIN r : r[i].pkt # q[k].pkt
  BY <1>1, <1>2, <1>3 DEF Once
<1> QED BY <1>4 DEF r

\* What is kept once an element is taken out.
LEMMA KeptDrop ==
    ASSUME NEW S, NEW q \in Seq(S), Once(q), NEW k \in DOMAIN q, NEW p
    PROVE  Kept(Drop(q, k), p) <=> p # q[k].pkt /\ Kept(q, p)
<1>1. /\ DOMAIN Drop(q, k) = 1 .. Len(q) - 1 /\ k \in 1 .. Len(q)
      /\ Len(q) \in Nat /\ DOMAIN q = 1 .. Len(q)
      /\ \A i \in 1 .. Len(q) - 1 :
            Drop(q, k)[i] = IF i < k THEN q[i] ELSE q[i + 1]
  <2>1. DOMAIN Drop(q, k) = 1 .. Len(Drop(q, k)) /\ DOMAIN q = 1 .. Len(q)
    BY DropElements, LenProperties
  <2> QED BY <2>1, DropElements, LenProperties
<1>2. ASSUME Kept(Drop(q, k), p) PROVE p # q[k].pkt /\ Kept(q, p)
  <2>1. PICK i \in DOMAIN Drop(q, k) : Drop(q, k)[i].pkt = p
    BY <1>2 DEF Kept
  <2>2. p # q[k].pkt
    BY <2>1, DropOnce
  <2>3. \E j \in DOMAIN q : Drop(q, k)[i] = q[j]
    <3>1. i \in DOMAIN q /\ i + 1 \in DOMAIN q
      BY <1>1, <2>1
    <3> QED BY <1>1, <2>1, <3>1
  <2> QED BY <2>1, <2>2, <2>3 DEF Kept
<1>3. ASSUME p # q[k].pkt, Kept(q, p) PROVE Kept(Drop(q, k), p)
  <2>1. PICK j \in DOMAIN q : q[j].pkt = p
    BY <1>3 DEF Kept
  <2>2. j # k
    BY <1>3, <2>1
  <2>3. CASE j < k
    <3>1. j \in DOMAIN Drop(q, k) /\ Drop(q, k)[j] = q[j]
      BY <1>1, <2>1, <2>3
    <3> QED BY <2>1, <3>1 DEF Kept
  <2>4. CASE j > k
    <3>1. j - 1 \in DOMAIN Drop(q, k) /\ Drop(q, k)[j - 1] = q[j]
      BY <1>1, <2>1, <2>4
    <3> QED BY <2>1, <3>1 DEF Kept
  <2>5. j \in Int /\ k \in Int
    BY <1>1
  <2> QED BY <2>2, <2>3, <2>4, <2>5
<1> QED BY <1>2, <1>3

LEMMA KeptAppend ==
    ASSUME NEW S, NEW q \in Seq(S), NEW w \in S, NEW p
    PROVE  Kept(Append(q, w), p) <=> Kept(q, p) \/ w.pkt = p
<1>1. /\ DOMAIN Append(q, w) = 1 .. Len(q) + 1 /\ DOMAIN q = 1 .. Len(q)
      /\ Len(q) \in Nat /\ Append(q, w)[Len(q) + 1] = w
      /\ \A i \in 1 .. Len(q) : Append(q, w)[i] = q[i]
  BY AppendProperties, LenProperties
<1>2. Kept(Append(q, w), p) => Kept(q, p) \/ w.pkt = p
  <2> SUFFICES ASSUME NEW i \in 1 .. Len(q) + 1, Append(q, w)[i].pkt = p, w.pkt # p
               PROVE  Kept(q, p)
    BY <1>1 DEF Kept
  <2>1. i # Len(q) + 1
    BY <1>1
  <2> QED BY <1>1, <2>1 DEF Kept
<1>3. Kept(q, p) => Kept(Append(q, w), p)
  BY <1>1 DEF Kept
<1>4. w.pkt = p => Kept(Append(q, w), p)
  BY <1>1 DEF Kept
<1> QED BY <1>2, <1>3, <1>4
==============================================================================
