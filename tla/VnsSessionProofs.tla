-------------------------- MODULE VnsSessionProofs ---------------------------
(***************************************************************************)
(* Theorems about VnsSession: what holds of one router process for every set  *)
(* of hosts, files and interfaces and any number of hardware descriptions.    *)
(***************************************************************************)
EXTENDS VnsSession, SharedLemmas, FiniteSetTheorems

-----------------------------------------------------------------------------
(* The record a name stands for.                                             *)

Least(T, m) == m \in T /\ \A y \in T : m <= y

LEMMA MinIsLeast ==
    ASSUME NEW T, T \subseteq Nat, T # {}
    PROVE  Least(T, Sequence!Min(T))
<1>1. \E x \in T : \A y \in T : x <= y
  BY LeastNumber
<1>2. Sequence!Min(T) = CHOOSE x \in T : \A y \in T : x <= y
  BY Zenon DEF Sequence!Min
<1> QED BY <1>1, <1>2 DEF Least

LEMMA LeastIsOne ==
    ASSUME NEW T, T \subseteq Nat, NEW a, NEW b, Least(T, a), Least(T, b)
    PROVE  a = b
<1>1. a \in Nat /\ b \in Nat /\ a <= b /\ b <= a
  BY DEF Least
<1> QED BY <1>1

\* The records of a name; what Lookup finds in a list.
Named(list, name) == {i \in 1 .. Len(list) : list[i].name = name}

Found(list, name) == IF Named(list, name) # {} THEN Sequence!Min(Named(list, name)) ELSE 0

\* list is the beginning of longer.
Begins(list, longer) ==
    Len(list) <= Len(longer) /\ \A i \in 1 .. Len(list) : longer[i] = list[i]
\* longer has the records of list, and what was told of them.
Extends(list, longer) ==
    /\ Len(list) <= Len(longer)
    /\ \A i \in 1 .. Len(list) : /\ longer[i].name = list[i].name
                                 /\ list[i].ip \in {Unset, longer[i].ip}
                                 /\ list[i].addr \in {Unset, longer[i].addr}

LEMMA CompleteIsRecord == Seq(Interface) \subseteq Seq(Record)
<1>1. Interface \subseteq Record
  BY DEF Interface, Record
<1> QED BY <1>1

LEMMA LookupFinds ==
    ASSUME NEW name
    PROVE  Lookup(name) = Found(ifList, name) /\ Lookup(name)' = Found(ifList', name)
BY DEF Lookup, Sequence!SelectInSeq, Found, Named

\* The index found is that of the first record of the name.
LEMMA FoundIsFirst ==
    ASSUME NEW list \in Seq(Record), NEW name, Named(list, name) # {}
    PROVE  /\ Least(Named(list, name), Found(list, name))
           /\ Found(list, name) \in DOMAIN list
           /\ Found(list, name) # 0
           /\ list[Found(list, name)].name = name
<1> DEFINE T == Named(list, name)
<1>1. T \subseteq Nat /\ DOMAIN list = 1 .. Len(list)
  BY DEF Named
<1>2. Found(list, name) = Sequence!Min(T)
  BY DEF Found
<1> HIDE DEF T
<1>3. Least(T, Found(list, name))
  BY <1>1, <1>2, MinIsLeast DEF T
<1> QED BY <1>1, <1>3 DEF Least, T, Named

LEMMA FoundOrZero ==
    ASSUME NEW list, NEW name
    PROVE  Named(list, name) = {} => Found(list, name) = 0
BY DEF Found

\* A list told further finds a name where the list found it.
LEMMA FoundStays ==
    ASSUME NEW list \in Seq(Record), NEW longer \in Seq(Record), NEW name,
           Extends(list, longer), Found(list, name) # 0
    PROVE  /\ Found(longer, name) = Found(list, name)
           /\ Found(list, name) \in 1 .. Len(list)
<1> DEFINE T == Named(list, name)
           U == Named(longer, name)
           m == Found(list, name)
<1>1. Least(T, m)
  BY FoundIsFirst, FoundOrZero
<1>2. Len(list) \in Nat /\ Len(longer) \in Nat
  OBVIOUS
<1>3. m \in 1 .. Len(list) /\ longer[m].name = list[m].name
  BY <1>1, <1>2 DEF Least, Named, Extends
<1>4. Least(U, m)
  <2>1. m \in U
    BY <1>1, <1>2, <1>3 DEF Least, Named, Extends
  <2>2. ASSUME NEW y \in U PROVE m <= y
    <3>1. y \in 1 .. Len(longer) /\ longer[y].name = name
      BY DEF Named
    <3>2. CASE y <= Len(list)
      <4>1. y \in T
        BY <1>2, <3>1, <3>2 DEF Named, Extends
      <4> QED BY <1>1, <4>1 DEF Least
    <3>3. CASE ~(y <= Len(list))
      BY <1>2, <1>3, <3>1, <3>3
    <3> QED BY <3>2, <3>3
  <2> QED BY <2>1, <2>2 DEF Least
<1>5. Least(U, Found(longer, name))
  BY <1>4, FoundIsFirst DEF Least
<1>6. U \subseteq Nat
  BY DEF Named
<1> HIDE DEF U, m
<1>7. Found(longer, name) = m
  BY <1>4, <1>5, <1>6, LeastIsOne
<1> QED BY <1>3, <1>7 DEF m

-----------------------------------------------------------------------------
(* A hardware description: the record named last owes what it has not been    *)
(* told, and is complete after every third entry.                            *)

Owed(h, k, key) == k % 3 = 1 \/ (k % 3 = 2 /\ h[k + 1].key = key)

\* What a list is when k entries of h have been told.
Midway(list, h, k) ==
    /\ \A i \in 1 .. Len(list) - 1 : list[i] \in Interface
    /\ k % 3 = 0 => list \in Seq(Interface)
    /\ k % 3 # 0 => /\ list # <<>>
                    /\ IF Owed(h, k, "ip") THEN list[Len(list)].ip = Unset
                                           ELSE list[Len(list)].ip \in Ip
                    /\ IF Owed(h, k, "addr") THEN list[Len(list)].addr = Unset
                                             ELSE list[Len(list)].addr \in Mac

LEMMA EntriesOfKeys ==
    ASSUME NEW e \in Entry
    PROVE  \/ e.key = "name" /\ e.value \in Name
           \/ e.key = "ip" /\ e.value \in Ip
           \/ e.key = "addr" /\ e.value \in Mac
BY DEF Entry
\* A name begins a record that owes both addresses.
LEMMA NameAdds ==
    ASSUME NEW q \in Seq(Record), NEW name \in Name
    PROVE  /\ Add(q, name) \in Seq(Record)
           /\ Len(Add(q, name)) = Len(q) + 1
           /\ \A i \in 1 .. Len(q) : Add(q, name)[i] = q[i]
           /\ Add(q, name)[Len(q) + 1] = [name |-> name, ip |-> Unset, addr |-> Unset]
<1> DEFINE r == [name |-> name, ip |-> Unset, addr |-> Unset]
<1>1. r \in Record
  BY DEF Record
<1> HIDE DEF r
<1>2. /\ Append(q, r) \in Seq(Record) /\ Len(Append(q, r)) = Len(q) + 1
      /\ \A i \in 1 .. Len(q) : Append(q, r)[i] = q[i]
      /\ Append(q, r)[Len(q) + 1] = r
  BY <1>1, AppendProperties
<1>3. Add(q, name) = Append(q, r)
  BY DEF Add, r
<1> QED BY <1>2, <1>3 DEF r

\* Any other key sets a field of the last record.
LEMMA KeySets ==
    ASSUME NEW q \in Seq(Record), NEW key, NEW value,
           (key = "ip" /\ value \in Ip) \/ (key = "addr" /\ value \in Mac)
    PROVE  /\ Set(q, key, value) \in Seq(Record)
           /\ Len(Set(q, key, value)) = Len(q)
           /\ \A i \in 1 .. Len(q) - 1 : Set(q, key, value)[i] = q[i]
           /\ q # <<>> =>
                /\ Set(q, key, value)[Len(q)].name = q[Len(q)].name
                /\ key = "ip" => /\ Set(q, key, value)[Len(q)].ip = value
                                 /\ Set(q, key, value)[Len(q)].addr = q[Len(q)].addr
                /\ key = "addr" => /\ Set(q, key, value)[Len(q)].addr = value
                                   /\ Set(q, key, value)[Len(q)].ip = q[Len(q)].ip
<1> DEFINE n == Len(q)
           r == [q[n] EXCEPT ![key] = value]
           s == Set(q, key, value)
<1>1. n \in Nat /\ DOMAIN q = 1 .. n
  OBVIOUS
<1>2. s = [q EXCEPT ![n] = r]
  BY DEF Set
<1>3. CASE q = <<>>
  <2>1. n = 0 /\ s = q
    BY <1>1, <1>2, <1>3
  <2> QED BY <1>3, <2>1
<1>4. CASE q # <<>>
  <2>1. n \in 1 .. n /\ q[n] \in Record
    BY <1>1, <1>4
  <2>2. /\ r \in Record
        /\ r.name = q[n].name
        /\ key = "ip" => r.ip = value /\ r.addr = q[n].addr
        /\ key = "addr" => r.addr = value /\ r.ip = q[n].ip
    BY <2>1 DEF Record
  <2> HIDE DEF r
  <2>3. s \in Seq(Record) /\ Len(s) = n /\ s[n] = r /\ \A i \in 1 .. n - 1 : s[i] = q[i]
    BY <1>1, <1>2, <2>1, <2>2
  <2> QED BY <2>2, <2>3
<1> QED BY <1>3, <1>4

LEMMA LastOrBefore ==
    ASSUME NEW n \in Nat
    PROVE  \A i \in 1 .. n : i = n \/ i \in 1 .. n - 1
OBVIOUS
\* The entries come in threes.
LEMMA Thirds ==
    ASSUME NEW h, Orderly(h), NEW k \in 0 .. Len(h) - 1
    PROVE  /\ Len(h) \in Nat /\ h[k + 1] \in Entry
           /\ k % 3 = 0 => h[k + 1].key = "name" /\ (k + 1) % 3 = 1
           /\ k % 3 = 1 => /\ h[k + 1].key # "name" /\ (k + 1) % 3 = 2 /\ h[k + 2] \in Entry
                           /\ h[k + 2].key # "name" /\ h[k + 2].key # h[k + 1].key
           /\ k % 3 = 2 => h[k + 1].key # "name" /\ (k + 1) % 3 = 0
           /\ k % 3 \in 0 .. 2
<1>1. Len(h) \in Nat /\ DOMAIN h = 1 .. Len(h) /\ h \in Seq(Entry) /\ Len(h) % 3 = 0
  BY DEF Orderly
<1>2. k + 1 \in DOMAIN h /\ k \in Nat
  BY <1>1
<1>3. /\ k % 3 \in 0 .. 2
      /\ k % 3 = 0 => (k + 1) % 3 = 1
      /\ k % 3 = 1 => (k + 1) % 3 = 2 /\ (k + 2) % 3 = 0
      /\ k % 3 = 2 => (k + 1) % 3 = 0
  BY <1>2
<1>4. k % 3 = 1 => k + 1 # Len(h)
  <2> SUFFICES ASSUME k % 3 = 1, k + 1 = Len(h) PROVE FALSE
    OBVIOUS
  <2>1. Len(h) % 3 = 2
    BY <1>3, Zenon
  <2> QED BY <1>1, <2>1
<1>5. k % 3 = 1 => k + 2 \in DOMAIN h
  <2> SUFFICES ASSUME k + 1 # Len(h) PROVE k + 2 \in 1 .. Len(h)
    BY <1>1, <1>4, Zenon
  <2>1. k \in Nat /\ Len(h) \in Nat /\ k + 1 \in 1 .. Len(h)
    BY <1>1, <1>2
  <2> QED BY <2>1
<1>6. h[k + 1] \in Entry /\ (k % 3 = 1 => h[k + 2] \in Entry)
  BY <1>1, <1>2, <1>5
<1>7. /\ h[k + 1].key = "name" <=> (k + 1) % 3 = 1
      /\ (k + 1) % 3 = 2 => h[k + 1 + 1].key # h[k + 1].key
  BY <1>2, Zenon DEF Orderly
<1>8. k % 3 = 1 => (h[k + 2].key = "name" <=> (k + 2) % 3 = 1)
  BY <1>5, Zenon DEF Orderly
<1>9. k + 1 + 1 = k + 2
  BY <1>2
<1> QED BY <1>1, <1>3, <1>6, <1>7, <1>8, <1>9

\* Every entry tells the last record more, or begins one when nothing is owed.
LEMMA TellGoesOn ==
    ASSUME NEW h, Orderly(h), NEW k \in 0 .. Len(h) - 1,
           NEW q \in Seq(Record), Midway(q, h, k)
    PROVE  /\ Tell(q, h[k + 1]) \in Seq(Record)
           /\ Midway(Tell(q, h[k + 1]), h, k + 1)
           /\ Extends(q, Tell(q, h[k + 1]))
<1> DEFINE s == Tell(q, h[k + 1])
<1>1. PICK e \in Entry : e = h[k + 1]
  BY Thirds
<1>2. k \in Nat /\ Len(q) \in Nat /\ DOMAIN q = 1 .. Len(q)
  BY Thirds
<1>3. CASE k % 3 = 0
  <2>1. e.key = "name" /\ (k + 1) % 3 = 1
    BY <1>1, <1>3, Thirds
  <2>2. PICK name \in Name : name = e.value
    BY <2>1, EntriesOfKeys
  <2>3. s = Add(q, name)
    BY <1>1, <2>1, <2>2 DEF Tell
  <2>4. /\ s \in Seq(Record) /\ Len(s) = Len(q) + 1
        /\ \A i \in 1 .. Len(q) : s[i] = q[i]
        /\ s[Len(q) + 1] = [name |-> name, ip |-> Unset, addr |-> Unset]
    <3>1. PICK a : a = Add(q, name)
      OBVIOUS
    <3>2. /\ a \in Seq(Record) /\ Len(a) = Len(q) + 1
          /\ \A i \in 1 .. Len(q) : a[i] = q[i]
          /\ a[Len(q) + 1] = [name |-> name, ip |-> Unset, addr |-> Unset]
      BY <2>2, <3>1, NameAdds
    <3>3. s = a
      BY <2>3, <3>1
    <3> HIDE DEF s
    <3> QED BY <3>2, <3>3
  <2>5. \A i \in 1 .. Len(q) : q[i] \in Interface
    BY <1>2, <1>3 DEF Midway
  <2>6. Owed(h, k + 1, "ip") /\ Owed(h, k + 1, "addr")
    BY <2>1 DEF Owed
  <2> HIDE DEF s
  <2>7. s # <<>> /\ Len(s) - 1 = Len(q) /\ s[Len(s)].ip = Unset /\ s[Len(s)].addr = Unset
    BY <1>2, <2>4
  <2>8. Midway(s, h, k + 1)
    BY <2>1, <2>4, <2>5, <2>6, <2>7 DEF Midway
  <2>9. Extends(q, s)
    BY <1>2, <2>4 DEF Extends
  <2> QED BY <2>4, <2>8, <2>9 DEF s
<1>4. CASE k % 3 # 0
  <2>1. PICK key, value : key = e.key /\ value = e.value
    OBVIOUS
  <2>2. e.key # "name"
    BY <1>1, <1>4, Thirds
  <2>3. (key = "ip" /\ value \in Ip) \/ (key = "addr" /\ value \in Mac)
    <3>1. (e.key = "ip" /\ e.value \in Ip) \/ (e.key = "addr" /\ e.value \in Mac)
      BY <2>2, EntriesOfKeys
    <3> QED BY <2>1, <3>1
  <2>4. s = Set(q, key, value)
    BY <1>1, <2>1, <2>2 DEF Tell
  <2>5. q # <<>> /\ Len(q) \in 1 .. Len(q)
    BY <1>2, <1>4 DEF Midway
  <2>6. /\ s \in Seq(Record) /\ Len(s) = Len(q) /\ \A i \in 1 .. Len(q) - 1 : s[i] = q[i]
        /\ s[Len(q)].name = q[Len(q)].name
        /\ key = "ip" => s[Len(q)].ip = value /\ s[Len(q)].addr = q[Len(q)].addr
        /\ key = "addr" => s[Len(q)].addr = value /\ s[Len(q)].ip = q[Len(q)].ip
    BY <2>3, <2>4, <2>5, KeySets
  <2>7. /\ IF Owed(h, k, "ip") THEN q[Len(q)].ip = Unset ELSE q[Len(q)].ip \in Ip
        /\ IF Owed(h, k, "addr") THEN q[Len(q)].addr = Unset ELSE q[Len(q)].addr \in Mac
    BY <1>4 DEF Midway
  <2>8. key = h[k + 1].key
    BY <1>1, <2>1
  <2>9. CASE k % 3 = 1
    <3>1. (k + 1) % 3 = 2 /\ k + 1 + 1 = k + 2
      BY <1>2, <2>9, Thirds
    <3>2. h[k + 2].key \in {"ip", "addr"} /\ h[k + 2].key # key
      <4>1. h[k + 2] \in Entry /\ h[k + 2].key # "name" /\ h[k + 2].key # key
        BY <2>8, <2>9, Thirds
      <4> QED BY <4>1, EntriesOfKeys
    <3>3. /\ Owed(h, k, "ip") /\ Owed(h, k, "addr")
          /\ Owed(h, k + 1, "ip") <=> key = "addr"
          /\ Owed(h, k + 1, "addr") <=> key = "ip"
      BY <2>3, <2>9, <3>1, <3>2 DEF Owed
    <3>4. Midway(s, h, k + 1)
      <4> HIDE DEF s
      <4>1. \A i \in 1 .. Len(s) - 1 : s[i] \in Interface
        BY <2>6 DEF Midway
      <4>2. /\ IF Owed(h, k + 1, "ip") THEN s[Len(s)].ip = Unset ELSE s[Len(s)].ip \in Ip
            /\ IF Owed(h, k + 1, "addr") THEN s[Len(s)].addr = Unset ELSE s[Len(s)].addr \in Mac
        BY <2>3, <2>6, <2>7, <3>3
      <4>3. s # <<>>
        BY <2>5, <2>6
      <4> QED BY <3>1, <4>1, <4>2, <4>3 DEF Midway
    <3>5. Extends(q, s)
      <4> HIDE DEF s
      <4>1. \A i \in 1 .. Len(q) : i = Len(q) \/ i \in 1 .. Len(q) - 1
        BY <1>2, LastOrBefore
      <4>2. /\ q[Len(q)].ip = Unset \/ q[Len(q)].ip = s[Len(q)].ip
            /\ q[Len(q)].addr = Unset \/ q[Len(q)].addr = s[Len(q)].addr
        BY <2>3, <2>6, <2>7, <3>3
      <4>3. \A i \in 1 .. Len(q) : /\ s[i].name = q[i].name
                                   /\ q[i].ip = Unset \/ q[i].ip = s[i].ip
                                   /\ q[i].addr = Unset \/ q[i].addr = s[i].addr
        BY <2>6, <4>1, <4>2
      <4> QED BY <1>2, <2>6, <4>3 DEF Extends
    <3> QED BY <2>6, <3>4, <3>5
  <2>10. CASE k % 3 = 2
    <3>1. (k + 1) % 3 = 0
      BY <1>2, <2>10, Thirds
    <3>2. /\ Owed(h, k, "ip") <=> key = "ip"
          /\ Owed(h, k, "addr") <=> key = "addr"
      BY <2>8, <2>10 DEF Owed
    <3> HIDE DEF s
    <3>3. s[Len(s)].ip \in Ip /\ s[Len(s)].addr \in Mac /\ s[Len(s)] \in Record
      BY <2>3, <2>5, <2>6, <2>7, <3>2
    <3>4. \A i \in 1 .. Len(s) : s[i] \in Interface
      <4>1. s[Len(s)] \in Interface
        BY <3>3 DEF Record, Interface
      <4>2. \A i \in 1 .. Len(s) - 1 : s[i] \in Interface
        BY <2>6 DEF Midway
      <4>3. Len(s) \in Nat
        BY <2>6
      <4> QED BY <4>1, <4>2, <4>3, LastOrBefore
    <3>5. s \in Seq(Interface)
      BY <2>6, <3>4
    <3>6. Midway(s, h, k + 1)
      BY <3>1, <3>4, <3>5 DEF Midway
    <3>7. Extends(q, s)
      <4>1. \A i \in 1 .. Len(q) : i = Len(q) \/ i \in 1 .. Len(q) - 1
        BY <1>2, LastOrBefore
      <4>2. /\ q[Len(q)].ip = Unset \/ q[Len(q)].ip = s[Len(q)].ip
            /\ q[Len(q)].addr = Unset \/ q[Len(q)].addr = s[Len(q)].addr
        BY <2>3, <2>6, <2>7, <3>2
      <4>3. \A i \in 1 .. Len(q) : /\ s[i].name = q[i].name
                                   /\ q[i].ip = Unset \/ q[i].ip = s[i].ip
                                   /\ q[i].addr = Unset \/ q[i].addr = s[i].addr
        BY <2>6, <4>1, <4>2
      <4> QED BY <1>2, <2>6, <4>3 DEF Extends
    <3> QED BY <2>6, <3>6, <3>7 DEF s
  <2> QED BY <1>4, <2>9, <2>10, Thirds
<1> QED BY <1>3, <1>4

\* The address the router is known by is one of its interfaces'.
LEMMA SmallestIpFound ==
    ASSUME NEW list \in Seq(Interface)
    PROVE  /\ SmallestIp(list) \in Ip \cup {0}
           /\ list # <<>> => \E i \in DOMAIN list : list[i].ip = SmallestIp(list)
<1> DEFINE S == Nat
           n == Len(list)
           next(k, x) == IF x = 0 \/ list[k].ip < x THEN list[k].ip ELSE x
           step == [k \in 1 .. n |-> [x \in S |-> next(k, x)]]
<1>1. n \in Nat /\ DOMAIN list = 1 .. n
  OBVIOUS
<1>2. \A k \in 1 .. n : list[k].ip \in Ip /\ list[k].ip \in Nat \ {0}
  <2>1. \A k \in 1 .. n : list[k] \in Interface
    BY <1>1
  <2> QED BY <2>1, VnsSessionAssumption DEF Interface
<1>3. PICK f \in [0 .. n -> S] : Loop(f, n, 0, step)
  <2>1. step \in [1 .. n -> [S -> S]]
    BY <1>2
  <2>2. 0 \in S
    OBVIOUS
  <2> HIDE DEF S, n, step
  <2> QED BY <1>1, <2>1, <2>2, LoopExists
<1>4. f[0] = 0 /\ \A k \in 1 .. n : f[k] = next(k, f[k - 1])
  <2> HIDE DEF n, S, next
  <2>1. \A k \in 1 .. n : k - 1 \in 0 .. n /\ f[k - 1] \in S
    BY <1>1
  <2> QED BY <1>3, <2>1 DEF Loop
<1> HIDE DEF step
<1> DEFINE Def(g) ==
        g = [k \in 0 .. n |-> IF k = 0 THEN 0
                              ELSE IF g[k - 1] = 0 \/ list[k].ip < g[k - 1] THEN list[k].ip
                              ELSE g[k - 1]]
           l == CHOOSE g : Def(g)
<1>5. Def(f)
  <2> DEFINE m == [k \in 0 .. n |->
                      IF k = 0 THEN 0
                      ELSE IF f[k - 1] = 0 \/ list[k].ip < f[k - 1] THEN list[k].ip
                      ELSE f[k - 1]]
  <2>1. \A k \in 0 .. n : f[k] = m[k]
    BY <1>1, <1>4
  <2>2. f = m
    BY <1>3, <2>1
  <2> QED BY <2>2
<1>6. Def(l)
  <2> HIDE DEF Def
  <2> QED BY <1>5
<1>7. SmallestIp(list) = l[n]
  BY DEF SmallestIp
<1> HIDE DEF l
<1>8. l[0] = 0 /\ \A k \in 1 .. n : l[k] = next(k, l[k - 1])
  <2>1. \A k \in 0 .. n : l[k] = IF k = 0 THEN 0 ELSE next(k, l[k - 1])
    <3> HIDE DEF n
    <3> QED BY <1>6, Zenon
  <2> HIDE DEF next, Def, n
  <2> QED BY <1>1, <2>1
<1> HIDE DEF Def, next
<1> DEFINE T == {k \in 0 .. n : /\ k = 0 => l[k] = 0
                                /\ k > 0 => \E i \in 1 .. n : l[k] = list[i].ip}
<1>9. 0 \in T
  BY <1>1, <1>8
<1>10. ASSUME NEW k \in 1 .. n, k - 1 \in T PROVE k \in T
  <2>1. l[k] = list[k].ip \/ (l[k] = l[k - 1] /\ l[k - 1] # 0)
    BY <1>8 DEF next
  <2>2. l[k - 1] # 0 => \E i \in 1 .. n : l[k - 1] = list[i].ip
    BY <1>1, <1>10
  <2> QED BY <1>1, <2>1, <2>2
<1>11. 0 .. n \subseteq T
  <2> HIDE DEF T, n
  <2> QED BY <1>1, <1>9, <1>10, Counting
<1>12. n \in T
  BY <1>1, <1>11
<1>13. CASE n = 0
  BY <1>1, <1>7, <1>12, <1>13
<1>14. CASE n # 0
  <2>1. PICK i \in 1 .. n : l[n] = list[i].ip
    BY <1>1, <1>12, <1>14
  <2> QED BY <1>1, <1>2, <1>7, <2>1
<1> QED BY <1>13, <1>14

\* A table that loads has one line per route.
LEMMA LinesAreNames ==
    ASSUME NEW f \in Files, Loads(f)
    PROVE  Lines(f) \in Seq(Name)
<1> DEFINE T == {i \in 1 .. Len(f) : f[i] = Blank}
           s == Lines(f)
<1>1. f \in Seq(Name \cup {Blank, Garbled}) /\ Len(f) \in Nat /\ DOMAIN f = 1 .. Len(f)
  BY VnsSessionAssumption
<1>2. ASSUME NEW line \in Sequence!Range(s) PROVE line # Garbled
  BY DEF Loads
<1>3. CASE Blank \notin Sequence!Range(f)
  <2>1. s = f
    BY <1>3 DEF Lines
  <2>2. \A i \in 1 .. Len(f) : f[i] \in Name
    <3>1. \A i \in 1 .. Len(f) : f[i] \in Sequence!Range(f) /\ f[i] \in Name \cup {Blank, Garbled}
      BY <1>1 DEF Sequence!Range
    <3> QED BY <1>2, <1>3, <2>1, <3>1
  <2> QED BY <1>1, <2>1, <2>2
<1>4. CASE Blank \in Sequence!Range(f)
  <2>1. T \subseteq Nat /\ T # {}
    BY <1>1, <1>4 DEF Sequence!Range
  <2>2. PICK m : m = Sequence!Min(T) /\ Least(T, m)
    BY <2>1, MinIsLeast
  <2>3. s = SubSeq(f, 1, m - 1)
    <3>1. Sequence!SelectInSeq(f, LAMBDA line : line = Blank) = m
      BY <2>1, <2>2 DEF Sequence!SelectInSeq
    <3> QED BY <1>4, <3>1 DEF Lines
  <2>4. m \in 1 .. Len(f) /\ \A i \in 1 .. m - 1 : f[i] # Blank
    <3>1. m \in 1 .. Len(f) /\ \A y \in 1 .. Len(f) : f[y] = Blank => m <= y
      BY <2>2 DEF Least
    <3>2. ASSUME NEW i \in 1 .. m - 1 PROVE i \in 1 .. Len(f) /\ ~(m <= i)
      BY <1>1, <3>1
    <3> HIDE DEF T
    <3> QED BY <3>1, <3>2
  <2>5. Len(s) = m - 1 /\ DOMAIN s = 1 .. m - 1 /\ \A i \in 1 .. m - 1 : s[i] = f[i]
    BY <1>1, <2>3, <2>4
  <2>6. \A i \in 1 .. m - 1 : s[i] \in Name
    <3>1. \A i \in 1 .. m - 1 : s[i] \in Sequence!Range(s) /\ f[i] \in Name \cup {Blank, Garbled}
      BY <1>1, <2>4, <2>5 DEF Sequence!Range
    <3> QED BY <1>2, <2>4, <2>5, <3>1
  <2>7. SubSeq(f, 1, m - 1) \in Seq(Name)
    <3>1. \A i \in 1 .. m - 1 : f[i] \in Name
      BY <2>5, <2>6
    <3> QED BY <1>1, <2>4, <3>1, SubSeqProperties
  <2> QED BY <2>3, <2>7
<1> QED BY <1>3, <1>4

\* n + 1 names need n + 1 records.
LEMMA NamesFit ==
    ASSUME NEW list \in Seq(Record), NEW n \in Nat, \A m \in 0 .. n : Found(list, m) # 0
    PROVE  n < Len(list)
<1> DEFINE S == 0 .. n
           T == 1 .. Len(list)
           f == [m \in S |-> Found(list, m)]
<1>1. Len(list) \in Nat /\ DOMAIN list = T
  OBVIOUS
<1>2. \A m \in S : Found(list, m) \in T /\ list[Found(list, m)].name = m
  BY <1>1, FoundIsFirst, FoundOrZero
<1>3. f \in [S -> T]
  BY <1>2
<1>4. \A x, y \in S : f[x] = f[y] => x = y
  BY <1>2
<1>5. /\ IsFiniteSet(S) /\ Cardinality(S) = n + 1
      /\ IsFiniteSet(T) /\ Cardinality(T) = Len(list)
  <2>1. Cardinality(0 .. n) = n + 1 /\ IsFiniteSet(0 .. n)
    BY FS_Interval
  <2>2. IsFiniteSet(1 .. Len(list)) /\ Cardinality(1 .. Len(list)) = Len(list)
    <3>1. PICK l \in Nat : l = Len(list)
      BY <1>1
    <3>2. IsFiniteSet(1 .. l) /\ Cardinality(1 .. l) = IF 1 > l THEN 0 ELSE l - 1 + 1
      BY FS_Interval
    <3> QED BY <3>1, <3>2
  <2> QED BY <2>1, <2>2
<1> HIDE DEF S, T, f
<1>6. ~(Cardinality(T) < Cardinality(S))
  BY <1>3, <1>4, <1>5, FS_PigeonHole
<1> QED BY <1>1, <1>5, <1>6

-----------------------------------------------------------------------------
(* The inductive invariant.                                                  *)

\* Hardware is told in the loop alone, and only there does PWOSPF begin.
NotBegun == phase \in {"start", "request", "status", "rtable"} => inits = 0 /\ ifList = <<>>

Looping == phase \in {"loop", "hwinfo"}

\* A static router has a table to be static with.
StaticTable == Looping /\ ~dynamic => Len(rt) > 1

\* A description is followed to its end.
HalfTold == phase = "hwinfo" => hw \in Hardware /\ Midway(ifList, hw, told)

\* Every route, every source and every target is that of a record Lookup finds, but
\* for routes out of an eth0 the router lacks.
RoutesFound ==
    phase = "loop" /\ inits > 0 /\ ifList # <<>> =>
        \A n \in Sequence!Range(rt) : Found(ifList, n) # 0 \/ (dynamic /\ n = 0)

SourcesFound ==
    \A f \in sent : /\ Found(ifList, f[1]) # 0
                    /\ f[2] = Unset \/ ifList[Found(ifList, f[1])].addr = f[2]

TargetsFound ==
    \A a \in asked : /\ Found(ifList, a[1]) # 0
                     /\ ifList[Found(ifList, a[1])].ip = a[2]

\* All interfaces have been counted, and one of them gave the router its identity.
AllCounted ==
    phase = "loop" /\ dynamic /\ inits > 0 =>
        /\ ifaceCount >= Len(ifList)
        /\ ifList # <<>> => \E i \in DOMAIN ifList : ifList[i].ip = routerId

\* A table offered for the default host is the one in use, and grows at its end.
OfferUsed ==
    Looping /\ template =>
        /\ offered \in [host : Host, table : Files]
        /\ offered.host = DefaultHost =>
              Loads(offered.table) /\ Begins(Lines(offered.table), rt)

SessionInv ==
    /\ TypeOK /\ NotBegun /\ StaticTable /\ HalfTold /\ RoutesFound /\ AllCounted
    /\ SourcesFound /\ TargetsFound /\ OfferUsed

LEMMA SessionInvBegins == Init => SessionInv
<1> SUFFICES ASSUME Init PROVE SessionInv
  OBVIOUS
<1>1. TypeOK
  <2>1. /\ rt \in Seq(Name) /\ ifList \in Seq(Record)
        /\ hw \in Hardware \cup {<<>>} /\ told \in 0 .. Len(hw)
        /\ asked \subseteq Name \X Ip /\ sent \subseteq Name \X (Mac \cup {Unset})
        /\ inits \in Nat /\ ifaceCount \in Nat /\ routerId \in Ip \cup {0}
    BY DEF Init
  <2>2. /\ phase \in Phase /\ phase # "loop"
        /\ template \in BOOLEAN /\ host \in Host /\ dynamic \in BOOLEAN
        /\ file \in [Host -> Files \cup {NoFile}]
        /\ offered \in [host : Host, table : Files] \cup {NoFile}
    BY DEF Init, Phase
  <2> QED BY <2>1, <2>2 DEF TypeOK
<1>2. NotBegun /\ StaticTable /\ HalfTold /\ RoutesFound /\ AllCounted /\ OfferUsed
  BY DEF Init, Looping, NotBegun, StaticTable, HalfTold, RoutesFound, AllCounted, OfferUsed
<1>3. SourcesFound /\ TargetsFound
  BY DEF Init, SourcesFound, TargetsFound
<1> QED BY <1>1, <1>2, <1>3 DEF SessionInv

\* Of a step that neither tells hardware nor sends, only phase, table and mode count.
LEMMA TrafficStays ==
    ASSUME SourcesFound, TargetsFound, UNCHANGED <<ifList, asked, sent>>
    PROVE  SourcesFound' /\ TargetsFound'
BY DEF SourcesFound, TargetsFound

\* Outside the loop nothing is claimed of the tables.
LEMMA OutsideLoop ==
    ASSUME phase' \notin {"loop", "hwinfo"}
    PROVE  StaticTable' /\ HalfTold' /\ RoutesFound' /\ AllCounted' /\ OfferUsed'
BY DEF Looping, StaticTable, HalfTold, RoutesFound, AllCounted, OfferUsed

LEMMA StartKeeps == SessionInv /\ Start => SessionInv'
<1> SUFFICES ASSUME SessionInv, Start PROVE SessionInv'
  OBVIOUS
<1>1. /\ phase = "start" /\ phase' \in {"request", "ended"}
      /\ UNCHANGED <<template, host, file, offered, dynamic>>
      /\ UNCHANGED <<hw, told, ifList, inits, ifaceCount, routerId>>
      /\ UNCHANGED <<asked, sent>>
  BY DEF Start, started, hardware, telling, traffic
<1>2. rt' = rt \/ (Loads(file[host]) /\ rt' = Lines(file[host]))
  BY DEF Start
<1>3. rt' \in Seq(Name)
  <2>1. rt \in Seq(Name) /\ (Loads(file[host]) => file[host] \in Files)
    BY DEF SessionInv, TypeOK, Loads
  <2> QED BY <1>2, <2>1, LinesAreNames
<1>4. TypeOK'
  BY <1>1, <1>3 DEF SessionInv, TypeOK, Phase
<1>5. NotBegun'
  BY <1>1 DEF SessionInv, NotBegun
<1> QED BY <1>1, <1>4, <1>5, OutsideLoop, TrafficStays DEF SessionInv

\* The steps that move the main thread on before the loop, or out of it.
LEMMA PhaseKeeps ==
    ASSUME SessionInv, Running, phase' \in {"status", "rtable", "ended"},
           phase' \in {"status", "rtable"} => phase \in {"request", "status"},
           UNCHANGED <<started, table, dynamic, hardware, traffic>>
    PROVE  SessionInv'
<1>1. /\ UNCHANGED <<template, host, file, offered, rt, dynamic>>
      /\ UNCHANGED <<hw, told, ifList, inits, ifaceCount, routerId>>
      /\ UNCHANGED <<asked, sent>>
  BY DEF started, table, hardware, telling, traffic
<1>2. TypeOK'
  BY <1>1 DEF SessionInv, TypeOK, Phase
<1>3. NotBegun'
  BY <1>1 DEF SessionInv, NotBegun
<1> QED BY <1>1, <1>2, <1>3, OutsideLoop, TrafficStays DEF SessionInv

\* sr_init and the first turn of the loop.
LEMMA EnterLoopKeeps ==
    ASSUME SessionInv, TypeOK', inits = 0, NEW routes \in Seq(Name), EnterLoop(routes),
           UNCHANGED <<ifList, inits, asked, sent>>, OfferUsed'
    PROVE  SessionInv'
<1>1. inits' = 0 /\ phase' = "loop" /\ rt' = routes /\ dynamic' = Mode(routes)
  BY DEF EnterLoop
<1>2. NotBegun' /\ HalfTold' /\ RoutesFound' /\ AllCounted'
  BY <1>1 DEF NotBegun, HalfTold, RoutesFound, AllCounted
<1>3. StaticTable'
  <2> SUFFICES ASSUME ~dynamic' PROVE Len(rt') > 1
    BY DEF StaticTable
  <2>1. ~(Len(routes) <= 1)
    BY <1>1, Zenon DEF Mode
  <2> QED BY <1>1, <2>1
<1> QED BY <1>2, <1>3, TrafficStays DEF SessionInv

LEMMA AuthStatusKeeps == SessionInv /\ AuthStatus => SessionInv'
<1> SUFFICES ASSUME SessionInv, AuthStatus PROVE SessionInv'
  OBVIOUS
<1>1. /\ phase = "status" /\ inits = 0 /\ ifList = <<>> /\ rt \in Seq(Name)
      /\ UNCHANGED <<template, host, file, offered>>
      /\ UNCHANGED <<hw, told, ifList, inits, ifaceCount, routerId>>
      /\ UNCHANGED <<asked, sent>>
  BY DEF AuthStatus, started, hardware, telling, traffic, SessionInv, NotBegun, TypeOK
<1>2. CASE template
  <2>1. phase' = "rtable" /\ UNCHANGED <<rt, dynamic>>
    BY <1>2 DEF AuthStatus
  <2> QED BY <1>1, <2>1, PhaseKeeps DEF Running, started, table, hardware, telling, traffic
<1>3. CASE ~template
  <2>1. EnterLoop(rt)
    BY <1>3 DEF AuthStatus
  <2>2. phase' = "loop" /\ rt' = rt /\ dynamic' \in BOOLEAN
    BY <2>1 DEF EnterLoop, Mode, SessionInv, TypeOK
  <2>3. TypeOK'
    BY <1>1, <2>2 DEF SessionInv, TypeOK, Phase
  <2>4. OfferUsed'
    BY <1>1, <1>3 DEF OfferUsed
  <2> QED BY <1>1, <2>1, <2>3, <2>4, EnterLoopKeeps
<1> QED BY <1>2, <1>3

LEMMA RtableKeeps ==
    ASSUME SessionInv, NEW f \in Files, NEW id \in Host, Rtable(f, id)
    PROVE  SessionInv'
<1>1. /\ phase \in {"rtable", "loop"} /\ file' = [file EXCEPT ![id] = f]
      /\ UNCHANGED <<template, host>>
      /\ UNCHANGED <<hw, told, ifList, inits, ifaceCount, routerId>>
      /\ UNCHANGED <<asked, sent>>
  BY DEF Rtable, started, hardware, telling, traffic
<1>2. file' \in [Host -> Files \cup {NoFile}] /\ file'[id] = f
  BY <1>1 DEF SessionInv, TypeOK
<1>3. CASE phase = "loop"
  <2>1. UNCHANGED <<phase, offered, rt, dynamic>>
    BY <1>3 DEF Rtable
  <2>2. TypeOK'
    BY <1>1, <1>2, <2>1 DEF SessionInv, TypeOK
  <2>3. NotBegun' /\ StaticTable' /\ OfferUsed'
    BY <1>1, <2>1 DEF SessionInv, NotBegun, Looping, StaticTable, OfferUsed
  <2>4. HalfTold' /\ RoutesFound' /\ AllCounted'
    BY <1>1, <2>1 DEF SessionInv, HalfTold, RoutesFound, AllCounted
  <2> QED BY <1>1, <2>2, <2>3, <2>4, TrafficStays DEF SessionInv
<1>4. CASE phase = "rtable"
  <2> DEFINE g == file'[DefaultHost]
             o == [host |-> id, table |-> f]
  <2>1. /\ offered' = o /\ inits = 0 /\ ifList = <<>>
        /\ IF Loads(g) THEN EnterLoop(Lines(g)) ELSE phase' = "ended" /\ UNCHANGED <<rt, dynamic>>
    BY <1>4 DEF Rtable, SessionInv, NotBegun
  <2>2. o \in [host : Host, table : Files] /\ o.host = id /\ o.table = f
    OBVIOUS
  <2> HIDE DEF o
  <2>3. CASE Loads(g)
    <3>1. EnterLoop(Lines(g)) /\ g \in Files
      BY <1>2, <2>1, <2>3, VnsSessionAssumption DEF Loads
    <3>2. Lines(g) \in Seq(Name)
      BY <2>3, <3>1, LinesAreNames
    <3>3. phase' = "loop" /\ rt' = Lines(g) /\ dynamic' \in BOOLEAN
      BY <3>1 DEF EnterLoop, Mode, SessionInv, TypeOK
    <3>4. TypeOK'
      BY <1>1, <1>2, <2>1, <2>2, <3>2, <3>3 DEF SessionInv, TypeOK, Phase
    <3>5. OfferUsed'
      <4> SUFFICES ASSUME o.host = DefaultHost
                   PROVE  Loads(o.table) /\ Begins(Lines(o.table), rt')
        BY <1>1, <2>1, <2>2 DEF OfferUsed
      <4>1. g = o.table
        BY <1>2, <2>2
      <4>2. Begins(Lines(g), Lines(g))
        BY <3>2 DEF Begins
      <4> HIDE DEF g
      <4> QED BY <2>3, <3>3, <4>1, <4>2
    <3> HIDE DEF g
    <3> QED BY <1>1, <2>1, <3>1, <3>2, <3>4, <3>5, EnterLoopKeeps
  <2>4. CASE ~Loads(g)
    <3>1. phase' = "ended" /\ UNCHANGED <<rt, dynamic>>
      BY <2>1, <2>4
    <3>2. TypeOK'
      BY <1>1, <1>2, <2>1, <2>2, <3>1 DEF SessionInv, TypeOK, Phase
    <3>3. NotBegun'
      BY <3>1 DEF NotBegun
    <3> QED BY <1>1, <3>1, <3>2, <3>3, OutsideLoop, TrafficStays DEF SessionInv
  <2> QED BY <2>3, <2>4
<1> QED BY <1>1, <1>3, <1>4

LEMMA HwInfoKeeps ==
    ASSUME SessionInv, NEW h \in Hardware, HwInfo(h)
    PROVE  SessionInv'
<1>1. /\ phase = "loop" /\ phase' = "hwinfo" /\ hw' = h /\ told' = 0
      /\ UNCHANGED <<template, host, file, offered, rt, dynamic>>
      /\ UNCHANGED <<ifList, inits, ifaceCount, routerId>>
      /\ UNCHANGED <<asked, sent>>
  BY DEF HwInfo, started, table, traffic
<1>2. Len(h) \in Nat /\ Len(ifList) \in Nat
  <2>1. Orderly(h) /\ ifList \in Seq(Record)
    BY VnsSessionAssumption DEF SessionInv, TypeOK
  <2> QED BY <2>1 DEF Orderly
<1>3. TypeOK'
  <2>1. told' \in 0 .. Len(hw') /\ hw' \in Hardware \cup {<<>>}
    BY <1>1, <1>2
  <2> QED BY <1>1, <2>1 DEF SessionInv, TypeOK, Phase
<1>4. HalfTold'
  <2>1. PICK list \in Seq(Interface) : list = ifList
    BY <1>1 DEF SessionInv, TypeOK
  <2>2. 0 % 3 = 0
    OBVIOUS
  <2>3. Midway(list, h, 0)
    BY <2>2 DEF Midway
  <2> QED BY <1>1, <2>1, <2>3 DEF HalfTold
<1>5. NotBegun' /\ RoutesFound' /\ AllCounted'
  BY <1>1 DEF NotBegun, RoutesFound, AllCounted
<1>6. StaticTable' /\ OfferUsed'
  BY <1>1 DEF SessionInv, Looping, StaticTable, OfferUsed
<1> QED BY <1>1, <1>3, <1>4, <1>5, <1>6, TrafficStays DEF SessionInv

\* What has been sent and asked stays so when the list is told further.
LEMMA TrafficSurvives ==
    ASSUME SourcesFound, TargetsFound, asked \subseteq Name \X Ip,
           ifList \in Seq(Record), ifList' \in Seq(Record),
           Extends(ifList, ifList'), UNCHANGED <<asked, sent>>
    PROVE  SourcesFound' /\ TargetsFound'
<1>1. PICK p \in Seq(Record), q \in Seq(Record) : p = ifList /\ q = ifList'
  OBVIOUS
<1>2. ASSUME NEW name, Found(p, name) # 0
      PROVE  /\ Found(q, name) = Found(p, name)
             /\ p[Found(p, name)].ip \in {Unset, q[Found(p, name)].ip}
             /\ p[Found(p, name)].addr \in {Unset, q[Found(p, name)].addr}
  <2>1. Extends(p, q)
    BY <1>1
  <2>2. Found(q, name) = Found(p, name) /\ Found(p, name) \in 1 .. Len(p)
    BY <1>2, <2>1, FoundStays
  <2> QED BY <2>1, <2>2 DEF Extends
<1>3. SourcesFound'
  BY <1>1, <1>2 DEF SourcesFound
<1>4. TargetsFound'
  <2> SUFFICES ASSUME NEW a \in asked
               PROVE  Found(q, a[1]) # 0 /\ q[Found(q, a[1])].ip = a[2]
    BY <1>1 DEF TargetsFound
  <2>1. Found(p, a[1]) # 0 /\ p[Found(p, a[1])].ip = a[2]
    BY <1>1 DEF TargetsFound
  <2>2. a[2] # Unset
    BY VnsSessionAssumption
  <2> QED BY <1>2, <2>1, <2>2
<1> QED BY <1>3, <1>4

LEMMA TellEntryKeeps == SessionInv /\ TellEntry => SessionInv'
<1> SUFFICES ASSUME SessionInv, TellEntry PROVE SessionInv'
  OBVIOUS
<1>1. /\ phase = "hwinfo" /\ phase' = "hwinfo" /\ told < Len(hw) /\ told' = told + 1
      /\ ifList' = Tell(ifList, hw[told + 1])
      /\ UNCHANGED <<template, host, file, offered, rt, dynamic, hw>>
      /\ UNCHANGED <<inits, ifaceCount, routerId>>
      /\ UNCHANGED <<asked, sent>>
  BY DEF TellEntry, started, table, traffic
<1>2. PICK h, k, list :
          /\ h = hw /\ k = told /\ list = ifList
          /\ h \in Hardware /\ list \in Seq(Record) /\ Midway(list, h, k)
  <2>1. hw \in Hardware /\ Midway(ifList, hw, told)
    BY <1>1 DEF SessionInv, HalfTold
  <2>2. ifList \in Seq(Record)
    BY DEF SessionInv, TypeOK
  <2> QED BY <2>1, <2>2, Zenon
<1>3. Orderly(h) /\ Len(h) \in Nat
  <2>1. Orderly(h)
    BY <1>2, VnsSessionAssumption
  <2> QED BY <2>1 DEF Orderly
<1>4. k \in 0 .. Len(h) - 1
  <2>1. k \in 0 .. Len(h) /\ k < Len(h)
    BY <1>1, <1>2 DEF SessionInv, TypeOK
  <2> QED BY <1>3, <2>1
<1>5. PICK longer : longer = Tell(list, h[k + 1])
  OBVIOUS
<1>6. longer \in Seq(Record) /\ Midway(longer, h, k + 1) /\ Extends(list, longer)
  BY <1>2, <1>3, <1>4, <1>5, TellGoesOn
<1>7. ifList' = longer /\ told' = k + 1 /\ hw' = h
  BY <1>1, <1>2, <1>5
<1>8. TypeOK'
  <2>1. told' \in 0 .. Len(hw')
    BY <1>3, <1>4, <1>7
  <2> QED BY <1>1, <1>6, <1>7, <2>1 DEF SessionInv, TypeOK, Phase
<1>9. NotBegun' /\ RoutesFound' /\ AllCounted'
  BY <1>1 DEF NotBegun, RoutesFound, AllCounted
<1>10. StaticTable' /\ OfferUsed'
  BY <1>1 DEF SessionInv, Looping, StaticTable, OfferUsed
<1>11. HalfTold'
  BY <1>2, <1>6, <1>7 DEF HalfTold
<1>12. SourcesFound' /\ TargetsFound'
  BY <1>1, <1>2, <1>6, <1>7, TrafficSurvives DEF SessionInv, TypeOK
<1> QED BY <1>8, <1>9, <1>10, <1>11, <1>12 DEF SessionInv

\* A table that passes the check is on the interfaces.
LEMMA VerifiedFound ==
    ASSUME NEW list \in Seq(Interface), NEW routes, Verified(list, routes),
           list # <<>>, routes # <<>>, NEW n \in Sequence!Range(routes)
    PROVE  Found(list, n) # 0
<1>1. PICK i \in DOMAIN list : list[i].name = n
  BY DEF Verified
<1>2. Named(list, n) # {}
  BY <1>1 DEF Named
<1> QED BY <1>2, CompleteIsRecord, FoundIsFirst

\* A table with names added to it.
LEMMA GrownTable ==
    ASSUME NEW routes \in Seq(Name), NEW names \in Seq(Name)
    PROVE  /\ routes \o names \in Seq(Name)
           /\ Begins(routes, routes \o names)
           /\ \A n \in Sequence!Range(routes \o names) :
                 n \in Sequence!Range(routes) \/ n \in Sequence!Range(names)
<1> DEFINE longer == routes \o names
<1>1. /\ longer \in Seq(Name) /\ Len(longer) = Len(routes) + Len(names)
      /\ \A i \in 1 .. Len(longer) :
            longer[i] = IF i <= Len(routes) THEN routes[i] ELSE names[i - Len(routes)]
  <2>1. /\ routes \o names \in Seq(Name)
        /\ Len(routes \o names) = Len(routes) + Len(names)
        /\ \A i \in 1 .. Len(routes) + Len(names) :
              (routes \o names)[i] = IF i <= Len(routes) THEN routes[i] ELSE names[i - Len(routes)]
    BY ConcatProperties
  <2> QED BY <2>1
<1>2. /\ Len(routes) \in Nat /\ DOMAIN routes = 1 .. Len(routes)
      /\ Len(names) \in Nat /\ DOMAIN names = 1 .. Len(names)
  OBVIOUS
<1>3. DOMAIN longer = 1 .. Len(longer)
  BY <1>1
<1> HIDE DEF longer
<1>4. Begins(routes, longer)
  BY <1>1, <1>2 DEF Begins
<1>5. ASSUME NEW n \in Sequence!Range(longer)
      PROVE  n \in Sequence!Range(routes) \/ n \in Sequence!Range(names)
  <2>1. PICK j \in 1 .. Len(longer) : n = longer[j]
    BY <1>3 DEF Sequence!Range
  <2>2. CASE j <= Len(routes)
    <3>1. j \in 1 .. Len(routes) /\ n = routes[j]
      BY <1>1, <1>2, <2>1, <2>2
    <3> QED BY <1>2, <3>1 DEF Sequence!Range
  <2>3. CASE ~(j <= Len(routes))
    <3>1. j - Len(routes) \in 1 .. Len(names)
      BY <1>1, <1>2, <2>1, <2>3
    <3>2. n = names[j - Len(routes)]
      BY <1>1, <2>1, <2>3
    <3> QED BY <1>2, <3>1, <3>2 DEF Sequence!Range
  <2> QED BY <2>2, <2>3
<1> QED BY <1>1, <1>4, <1>5 DEF longer

LEMMA NamesOfList ==
    ASSUME NEW list \in Seq(Interface)
    PROVE  /\ [i \in DOMAIN list |-> list[i].name] \in Seq(Name)
           /\ \A n \in Sequence!Range([i \in DOMAIN list |-> list[i].name]) :
                 Found(list, n) # 0
<1> DEFINE names == [i \in DOMAIN list |-> list[i].name]
<1>1. DOMAIN list = 1 .. Len(list) /\ Len(list) \in Nat
  OBVIOUS
<1>2. \A i \in 1 .. Len(list) : list[i].name \in Name
  <2>1. \A i \in 1 .. Len(list) : list[i] \in Interface
    BY <1>1
  <2> QED BY <2>1 DEF Interface
<1>3. names \in Seq(Name)
  BY <1>1, <1>2
<1>4. ASSUME NEW n \in Sequence!Range(names) PROVE Found(list, n) # 0
  <2>1. PICK i \in 1 .. Len(list) : n = list[i].name
    BY <1>1 DEF Sequence!Range
  <2>2. Named(list, n) # {}
    BY <2>1 DEF Named
  <2> QED BY <2>2, CompleteIsRecord, FoundIsFirst
<1> QED BY <1>3, <1>4

LEMMA BeginsOn ==
    ASSUME NEW S, NEW p \in Seq(S), NEW q \in Seq(S), NEW r \in Seq(S), Begins(p, q), Begins(q, r)
    PROVE  Begins(p, r)
<1>1. Len(p) \in Nat /\ Len(q) \in Nat /\ Len(r) \in Nat
  OBVIOUS
<1>2. \A i \in 1 .. Len(p) : i \in 1 .. Len(q)
  BY <1>1 DEF Begins
<1> QED BY <1>1, <1>2 DEF Begins

\* What is offered stays the beginning of a table that grows.
LEMMA OfferStays ==
    ASSUME SessionInv, Looping, UNCHANGED <<template, offered>>,
           rt' \in Seq(Name), Begins(rt, rt')
    PROVE  OfferUsed'
<1> SUFFICES ASSUME template
             PROVE  /\ offered \in [host : Host, table : Files]
                    /\ offered.host = DefaultHost =>
                          Loads(offered.table) /\ Begins(Lines(offered.table), rt')
  BY DEF OfferUsed
<1>1. /\ offered \in [host : Host, table : Files]
      /\ offered.host = DefaultHost =>
            Loads(offered.table) /\ Begins(Lines(offered.table), rt)
  BY DEF SessionInv, OfferUsed
<1>2. ASSUME offered.host = DefaultHost PROVE Begins(Lines(offered.table), rt')
  <2>1. Loads(offered.table) /\ offered.table \in Files /\ Begins(Lines(offered.table), rt)
    BY <1>1, <1>2
  <2>2. Lines(offered.table) \in Seq(Name) /\ rt \in Seq(Name)
    BY <2>1, LinesAreNames DEF SessionInv, TypeOK
  <2> QED BY <2>1, <2>2, BeginsOn
<1> QED BY <1>1, <1>2

LEMMA VerifyKeeps == SessionInv /\ Verify => SessionInv'
<1> SUFFICES ASSUME SessionInv, Verify PROVE SessionInv'
  OBVIOUS
<1>1. /\ phase = "hwinfo" /\ told = Len(hw) /\ hw' = <<>> /\ told' = 0
      /\ UNCHANGED <<template, host, file, offered, ifList>>
      /\ UNCHANGED <<asked, sent>>
  BY DEF Verify, started, traffic
<1>2. PICK list \in Seq(Interface) : list = ifList
  <2>1. hw \in Hardware /\ Midway(ifList, hw, told)
    BY <1>1 DEF SessionInv, HalfTold
  <2>2. told % 3 = 0
    BY <1>1, <2>1, VnsSessionAssumption DEF Orderly
  <2> QED BY <2>1, <2>2 DEF Midway
<1>3. hw' \in Hardware \cup {<<>>} /\ told' \in 0 .. Len(hw')
  BY <1>1
<1>4. SourcesFound' /\ TargetsFound'
  BY <1>1, TrafficStays DEF SessionInv
<1>5. CASE ~Verified(ifList, rt)
  <2>1. phase' = "ended" /\ UNCHANGED <<rt, dynamic, inits, ifaceCount, routerId>>
    BY <1>5 DEF Verify
  <2>2. TypeOK'
    BY <1>1, <1>3, <2>1 DEF SessionInv, TypeOK, Phase
  <2>3. NotBegun'
    BY <2>1 DEF NotBegun
  <2> QED BY <1>4, <2>1, <2>2, <2>3, OutsideLoop DEF SessionInv
<1>6. CASE Verified(ifList, rt)
  <2>1. /\ phase' = "loop" /\ inits' = inits + 1 /\ dynamic' = Mode(rt)
        /\ IF dynamic'
           THEN /\ ifaceCount' = Counted(list) /\ routerId' = SmallestIp(list)
                /\ rt' = rt \o [i \in DOMAIN list |-> list[i].name]
           ELSE UNCHANGED <<ifaceCount, routerId, rt>>
    BY <1>2, <1>6 DEF Verify, PwospfInit
  <2>2. /\ rt \in Seq(Name) /\ inits \in Nat /\ ifaceCount \in Nat /\ routerId \in Ip \cup {0}
        /\ dynamic \in BOOLEAN /\ Len(list) \in Nat /\ Len(rt) \in Nat
    BY DEF SessionInv, TypeOK
  <2>3. /\ rt' \in Seq(Name) /\ Begins(rt, rt')
        /\ \A n \in Sequence!Range(rt') : n \in Sequence!Range(rt) \/ Found(list, n) # 0
    <3>1. CASE dynamic'
      BY <2>1, <2>2, <3>1, NamesOfList, GrownTable
    <3>2. CASE ~dynamic'
      BY <2>1, <2>2, <3>2 DEF Begins
    <3> QED BY <3>1, <3>2
  <2>4. ifaceCount' \in Nat /\ routerId' \in Ip \cup {0} /\ dynamic' \in BOOLEAN
    <3>1. ifaceCount' \in Nat /\ routerId' \in Ip \cup {0}
      BY <2>1, <2>2, SmallestIpFound DEF Counted
    <3>2. dynamic' \in BOOLEAN
      BY <2>1, <2>2 DEF Mode
    <3> QED BY <3>1, <3>2
  <2>5. TypeOK'
    BY <1>1, <1>2, <1>3, <2>1, <2>2, <2>3, <2>4 DEF SessionInv, TypeOK, Phase
  <2>6. NotBegun' /\ HalfTold'
    BY <2>1 DEF NotBegun, HalfTold
  <2>7. StaticTable'
    <3> SUFFICES ASSUME ~dynamic' PROVE Len(rt') > 1
      BY DEF StaticTable
    <3>1. ~(Len(rt) <= 1)
      BY <2>1, Zenon DEF Mode
    <3> QED BY <2>1, <2>2, <3>1
  <2>8. RoutesFound'
    <3> SUFFICES ASSUME list # <<>>, NEW n \in Sequence!Range(rt') PROVE Found(list, n) # 0
      BY <1>1, <1>2 DEF RoutesFound
    <3>1. CASE n \in Sequence!Range(rt)
      <4>1. rt # <<>>
        BY <3>1 DEF Sequence!Range
      <4> QED BY <1>2, <1>6, <3>1, <4>1, VerifiedFound
    <3> QED BY <2>3, <3>1
  <2>9. AllCounted'
    <3> SUFFICES ASSUME dynamic'
                 PROVE  /\ ifaceCount' >= Len(list)
                        /\ list # <<>> => \E i \in DOMAIN list : list[i].ip = routerId'
      BY <1>1, <1>2 DEF AllCounted
    <3>1. ifaceCount' = ifaceCount + Len(list) /\ routerId' = SmallestIp(list)
      BY <2>1 DEF Counted
    <3> QED BY <2>2, <3>1, SmallestIpFound
  <2>10. OfferUsed'
    BY <1>1, <2>3, OfferStays DEF Looping
  <2> QED BY <1>4, <2>5, <2>6, <2>7, <2>8, <2>9, <2>10 DEF SessionInv
<1> QED BY <1>5, <1>6

LEMMA LearnRoutesKeeps ==
    ASSUME SessionInv, NEW names \in Seq(Name), LearnRoutes(names)
    PROVE  SessionInv'
<1>1. /\ phase = "loop" /\ dynamic /\ rt' = rt \o names
      /\ \A n \in Sequence!Range(names) : n = 0 \/ Lookup(n) # 0
      /\ UNCHANGED <<phase, template, host, file, offered, dynamic>>
      /\ UNCHANGED <<hw, told, ifList, inits, ifaceCount, routerId>>
      /\ UNCHANGED <<asked, sent>>
  BY DEF LearnRoutes, started, hardware, telling, traffic
<1>2. rt \in Seq(Name)
  BY DEF SessionInv, TypeOK
<1>3. /\ rt' \in Seq(Name) /\ Begins(rt, rt')
      /\ \A n \in Sequence!Range(rt') :
            n \in Sequence!Range(rt) \/ n \in Sequence!Range(names)
  BY <1>1, <1>2, GrownTable
<1>4. TypeOK'
  BY <1>1, <1>3 DEF SessionInv, TypeOK
<1>5. NotBegun' /\ StaticTable' /\ HalfTold' /\ AllCounted'
  BY <1>1 DEF SessionInv, NotBegun, StaticTable, HalfTold, AllCounted
<1>6. RoutesFound'
  <2> SUFFICES ASSUME inits > 0, ifList # <<>>, NEW n \in Sequence!Range(rt')
               PROVE  Found(ifList, n) # 0 \/ n = 0
    BY <1>1 DEF RoutesFound
  <2>1. CASE n \in Sequence!Range(rt)
    BY <1>1, <2>1 DEF SessionInv, RoutesFound
  <2>2. CASE n \in Sequence!Range(names)
    BY <1>1, <2>2, LookupFinds
  <2> QED BY <1>3, <2>1, <2>2
<1>7. OfferUsed'
  BY <1>1, <1>3, OfferStays DEF Looping
<1> QED BY <1>1, <1>4, <1>5, <1>6, <1>7, TrafficStays DEF SessionInv

LEMMA ArpRequestKeeps ==
    ASSUME SessionInv, NEW name \in Name, NEW ip \in Ip, ArpRequest(name, ip)
    PROVE  SessionInv'
<1>1. /\ phase = "loop" /\ UNCHANGED <<template, host, file, offered, rt, dynamic>>
      /\ UNCHANGED <<hw, told, ifList, inits, ifaceCount, routerId>>
      /\ UNCHANGED sent
  BY DEF ArpRequest, started, table, hardware, telling
<1>2. PICK i : i = Found(ifList, name)
  OBVIOUS
<1>3. \/ i = 0 /\ phase' = "ended" /\ asked' = asked
      \/ i # 0 /\ ip = ifList[i].ip /\ asked' = asked \cup {<<name, ip>>} /\ phase' = phase
  BY <1>2, LookupFinds DEF ArpRequest
<1>4. asked' \subseteq Name \X Ip
  BY <1>3 DEF SessionInv, TypeOK
<1>5. TypeOK'
  BY <1>1, <1>3, <1>4 DEF SessionInv, TypeOK, Phase
<1>6. NotBegun' /\ StaticTable' /\ OfferUsed'
  BY <1>1, <1>3 DEF SessionInv, NotBegun, Looping, StaticTable, OfferUsed
<1>7. HalfTold' /\ RoutesFound' /\ AllCounted'
  BY <1>1, <1>3 DEF SessionInv, HalfTold, RoutesFound, AllCounted
<1>8. SourcesFound'
  BY <1>1 DEF SessionInv, SourcesFound
<1>9. TargetsFound'
  <2>1. \A a \in asked' : a \in asked \/ (a[1] = name /\ a[2] = ip /\ i # 0 /\ ip = ifList[i].ip)
    BY <1>3
  <2> QED BY <1>1, <1>2, <2>1 DEF SessionInv, TargetsFound
<1> QED BY <1>5, <1>6, <1>7, <1>8, <1>9 DEF SessionInv

LEMMA SendHelloKeeps ==
    ASSUME SessionInv, NEW i \in DOMAIN ifList, SendHello(i)
    PROVE  SessionInv'
<1> DEFINE f == <<ifList[i].name, ifList[i].addr>>
<1>1. /\ sent' = sent \cup {f}
      /\ UNCHANGED <<phase, template, host, file, offered, rt, dynamic>>
      /\ UNCHANGED <<hw, told, ifList, inits, ifaceCount, routerId>>
      /\ UNCHANGED asked
  BY DEF SendHello, started, table, hardware, telling
<1>2. /\ f \in Name \X (Mac \cup {Unset}) /\ Found(ifList, f[1]) # 0
      /\ ifList[Found(ifList, f[1])].addr = f[2]
  <2>1. PICK list \in Seq(Record) : list = ifList
    BY DEF SessionInv, TypeOK
  <2>2. i \in 1 .. Len(list) /\ list[i] \in Record
    BY <2>1
  <2>3. f \in Name \X (Mac \cup {Unset}) /\ f[1] = list[i].name /\ f[2] = list[i].addr
    BY <2>1, <2>2 DEF Record
  <2>4. Found(list, f[1]) # 0
    <3>1. i \in Named(list, f[1])
      BY <2>2, <2>3 DEF Named
    <3> QED BY <3>1, FoundIsFirst
  <2>5. ifList[Found(ifList, ifList[i].name)].addr = ifList[i].addr
    BY LookupFinds, Zenon DEF Matches, SendHello
  <2> QED BY <2>1, <2>3, <2>4, <2>5
<1> HIDE DEF f
<1>3. sent' \subseteq Name \X (Mac \cup {Unset})
  BY <1>1, <1>2 DEF SessionInv, TypeOK
<1>4. TypeOK'
  BY <1>1, <1>3 DEF SessionInv, TypeOK
<1>5. NotBegun' /\ StaticTable' /\ OfferUsed'
  BY <1>1 DEF SessionInv, NotBegun, Looping, StaticTable, OfferUsed
<1>6. HalfTold' /\ RoutesFound' /\ AllCounted'
  BY <1>1 DEF SessionInv, HalfTold, RoutesFound, AllCounted
<1>7. TargetsFound'
  BY <1>1 DEF SessionInv, TargetsFound
<1>8. SourcesFound'
  BY <1>1, <1>2 DEF SessionInv, SourcesFound
<1> QED BY <1>4, <1>5, <1>6, <1>7, <1>8 DEF SessionInv

LEMMA SessionInvKept == SessionInv /\ [Next]_vars => SessionInv'
<1> SUFFICES ASSUME SessionInv, [Next]_vars PROVE SessionInv'
  OBVIOUS
<1>1. CASE Start
  BY <1>1, StartKeeps
<1>2. CASE End
  BY <1>2, PhaseKeeps DEF End
<1>3. CASE AuthRequest
  BY <1>3, PhaseKeeps DEF AuthRequest, Running
<1>4. CASE AuthStatus
  BY <1>4, AuthStatusKeeps
<1>5. CASE TellEntry
  BY <1>5, TellEntryKeeps
<1>6. CASE Verify
  BY <1>6, VerifyKeeps
<1>7. CASE \E f \in Files, id \in Host : Rtable(f, id)
  BY <1>7, RtableKeeps
<1>8. CASE \E h \in Hardware : HwInfo(h)
  BY <1>8, HwInfoKeeps
<1>9. CASE \E names \in Sequence!SeqOf(Name, MaxRoutes) : LearnRoutes(names)
  <2>1. Sequence!SeqOf(Name, MaxRoutes) \subseteq Seq(Name)
    BY VnsSessionAssumption DEF Sequence!SeqOf
  <2> QED BY <1>9, <2>1, LearnRoutesKeeps
<1>10. CASE \E name \in Name, ip \in Ip : ArpRequest(name, ip)
  BY <1>10, ArpRequestKeeps
<1>11. CASE \E i \in DOMAIN ifList : SendHello(i)
  BY <1>11, SendHelloKeeps
<1>12. CASE UNCHANGED vars
  <2>1. /\ UNCHANGED <<phase, template, host, file, offered, rt, dynamic>>
        /\ UNCHANGED <<hw, told, ifList, inits, ifaceCount, routerId>>
        /\ UNCHANGED <<asked, sent>>
    BY <1>12 DEF vars
  <2>2. TypeOK'
    BY <2>1 DEF SessionInv, TypeOK
  <2>3. NotBegun' /\ StaticTable' /\ OfferUsed'
    BY <2>1 DEF SessionInv, NotBegun, Looping, StaticTable, OfferUsed
  <2>4. HalfTold' /\ RoutesFound' /\ AllCounted'
    BY <2>1 DEF SessionInv, HalfTold, RoutesFound, AllCounted
  <2> QED BY <2>1, <2>2, <2>3, <2>4, TrafficStays DEF SessionInv
<1> QED BY <1>1, <1>2, <1>3, <1>4, <1>5, <1>6, <1>7, <1>8, <1>9, <1>10, <1>11, <1>12, Zenon
        DEF Next

LEMMA SessionInvariance == Spec => []SessionInv
<1> QED BY SessionInvBegins, SessionInvKept, PTL DEF Spec

-----------------------------------------------------------------------------
(* What follows.                                                             *)

\* TypeOK: every record of the interface list is complete whenever a command has been
\* handled, though sr_handle_hwinfo describes it key by key after adding it.
THEOREM SessionTypeCorrect == Spec => []TypeOK
<1>1. SessionInv => TypeOK
  BY DEF SessionInv
<1> QED BY <1>1, SessionInvariance, PTL

\* TableOnInterfaces: whatever tables, hardware and routes are told in whatever order,
\* the loop goes on only while every route is on an interface, but for those a dynamic
\* router learns out of an eth0 nobody told it.
THEOREM RoutesHaveInterfaces == Spec => []TableOnInterfaces
<1>1. SessionInv => TableOnInterfaces
  BY LookupFinds DEF SessionInv, RoutesFound, TableOnInterfaces
<1> QED BY <1>1, SessionInvariance, PTL

\* ReadyForPwospf: however often pwospf_init runs, the digit of an interface is an
\* index into neighbour[], if the lower digits are taken too, and the router goes by
\* an address of its own.
THEOREM PwospfIsReady == Spec => []ReadyForPwospf
<1>1. SessionInv => ReadyForPwospf
  <2> SUFFICES ASSUME SessionInv, phase = "loop", dynamic, inits > 0
               PROVE  /\ \A n \in Name : (\A m \in 0 .. n : Lookup(m) # 0) => n < ifaceCount
                      /\ ifList # <<>> => \E i \in DOMAIN ifList : ifList[i].ip = routerId
    BY DEF ReadyForPwospf
  <2>1. /\ ifaceCount >= Len(ifList) /\ ifaceCount \in Nat /\ Len(ifList) \in Nat
        /\ ifList # <<>> => \E i \in DOMAIN ifList : ifList[i].ip = routerId
    BY DEF SessionInv, AllCounted, TypeOK
  <2>2. ASSUME NEW n \in Name, \A m \in 0 .. n : Lookup(m) # 0
        PROVE  n < ifaceCount
    <3>1. PICK list \in Seq(Record) : list = ifList
      BY DEF SessionInv, TypeOK
    <3>2. n \in Nat /\ \A m \in 0 .. n : Found(list, m) # 0
      BY <2>2, <3>1, LookupFinds, VnsSessionAssumption
    <3>3. n < Len(list)
      BY <3>2, NamesFit
    <3> QED BY <2>1, <3>1, <3>2, <3>3
  <2> QED BY <2>1, <2>2
<1> QED BY <1>1, SessionInvariance, PTL

\* OneSource: the records a later description adds for a name never change the
\* hardware address the name has spoken with, unless it spoke before it had one.
THEOREM SourcesNeverChange == Spec => []OneSource
<1>1. SessionInv => OneSource
  BY LookupFinds DEF SessionInv, SourcesFound, OneSource
<1> QED BY <1>1, SessionInvariance, PTL

\* ArpForOwnAddress: an ARP request once let through is one the router would still
\* answer.
THEOREM TargetsNeverChange == Spec => []ArpForOwnAddress
<1>1. SessionInv => ArpForOwnAddress
  BY LookupFinds DEF SessionInv, TargetsFound, ArpForOwnAddress
<1> QED BY <1>1, SessionInvariance, PTL

LEMMA BeginningIsPrefix ==
    ASSUME NEW S, NEW p \in Seq(S), NEW q \in Seq(S), Begins(p, q)
    PROVE  Sequence!IsPrefix(p, q)
<1>1. Len(p) \in Nat /\ Len(q) \in Nat /\ Len(p) <= Len(q) /\ \A i \in 1 .. Len(p) : q[i] = p[i]
  BY DEF Begins
<1>2. SubSeq(p, 1, Len(p)) = SubSeq(q, 1, Len(p))
  BY <1>1
<1> QED BY <1>1, <1>2 DEF Sequence!IsPrefix

\* OwnTableUsed: a router opened on a template routes by the table of this session, if
\* that was sent for the default host.
THEOREM SessionTableIsUsed == Spec => []OwnTableUsed
<1>1. SessionInv => OwnTableUsed
  <2> SUFFICES ASSUME SessionInv, phase = "loop", template, offered.host = DefaultHost
               PROVE  Sequence!IsPrefix(Lines(offered.table), rt)
    BY DEF OwnTableUsed
  <2>1. /\ offered.table \in Files /\ Loads(offered.table)
        /\ Begins(Lines(offered.table), rt)
    BY DEF SessionInv, OfferUsed, Looping
  <2>2. Lines(offered.table) \in Seq(Name) /\ rt \in Seq(Name)
    BY <2>1, LinesAreNames DEF SessionInv, TypeOK
  <2> QED BY <2>1, <2>2, BeginningIsPrefix
<1> QED BY <1>1, SessionInvariance, PTL

\* ModeStays: no pwospf_init of the loop turns a static router dynamic or back.
THEOREM ModeNeverChanges == Spec => ModeStays
<1>1. ASSUME SessionInv, [Next]_vars, Looping PROVE dynamic' = dynamic
  <2>1. dynamic \in BOOLEAN /\ (~dynamic => Len(rt) > 1) /\ Len(rt) \in Nat
    BY <1>1 DEF SessionInv, TypeOK, StaticTable
  <2>2. Mode(rt) = dynamic
    <3>1. CASE dynamic
      BY <3>1 DEF Mode
    <3>2. CASE ~dynamic
      <4>1. ~(Len(rt) <= 1)
        BY <2>1, <3>2
      <4> QED BY <2>1, <3>2, <4>1 DEF Mode
    <3> QED BY <3>1, <3>2
  <2>3. CASE Verify
    <3>1. dynamic' = dynamic \/ dynamic' = Mode(rt)
      BY <2>3 DEF Verify, PwospfInit
    <3> QED BY <2>2, <3>1
  <2>4. CASE End \/ TellEntry \/ \E h \in Hardware : HwInfo(h)
    BY <2>4 DEF End, TellEntry, HwInfo
  <2>5. CASE Start \/ AuthRequest \/ AuthStatus
    BY <1>1, <2>5 DEF Looping, Start, AuthRequest, AuthStatus
  <2>6. CASE \E f \in Files, id \in Host : Rtable(f, id)
    BY <1>1, <2>6 DEF Looping, Rtable
  <2>7. CASE \E names \in Sequence!SeqOf(Name, MaxRoutes) : LearnRoutes(names)
    BY <2>7 DEF LearnRoutes
  <2>8. CASE \E name \in Name, ip \in Ip : ArpRequest(name, ip)
    BY <2>8 DEF ArpRequest
  <2>9. CASE \E i \in DOMAIN ifList : SendHello(i)
    BY <2>9 DEF SendHello
  <2>10. CASE UNCHANGED vars
    BY <2>10 DEF vars
  <2> QED BY <1>1, <2>3, <2>4, <2>5, <2>6, <2>7, <2>8, <2>9, <2>10, Zenon DEF Next
<1>2. SessionInv /\ [Next]_vars => [phase = "loop" \/ phase = "hwinfo" => dynamic' = dynamic]_vars
  BY <1>1 DEF Looping
<1> QED BY <1>2, SessionInvariance, PTL DEF Spec, ModeStays
==============================================================================
