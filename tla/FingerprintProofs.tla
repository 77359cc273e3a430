------------------------- MODULE FingerprintProofs -------------------------
(***************************************************************************)
(* What a client says of itself is sound, for any number of connections in *)
(* any interleaving, any profile that is registered, any definition of a   *)
(* custom client and any capture of trust anchors.                         *)
(***************************************************************************)
EXTENDS Fingerprint, FiniteSetTheorems, WellFoundedInduction, TLAPS

-----------------------------------------------------------------------------
(* Induction *)

\* Sums, for places where the provers would look at too much else.
LEMMA SumsGroup ==
  /\ \A a, b, c, l \in Nat : a = b + c => l + a = (l + b) + c
  /\ \A i, l \in Nat : i + (l + 1) = i + 1 + l
OBVIOUS

\* Adding to a bound keeps it one.
LEMMA SumsGrow == \A a, b, c, d \in Nat : a <= b /\ d = b + c => a <= d
OBVIOUS

Shifted(a, b, c, x, y) ==
  /\ (a + x) - y = ((b + x) - y) + c
  /\ c = x => a = ((b + x) - y) + y
  /\ c = y => (a + x) - y = b + x

\* What exchanging two summands does to a sum they are both in.
LEMMA SumsMove ==
  ASSUME NEW a \in Nat, NEW b \in Nat, NEW c \in Nat, NEW x \in Nat, NEW y \in Nat,
         a = b + c
  PROVE  Shifted(a, b, c, x, y)
BY DEF Shifted

\* Taking away no more than there is leaves a natural number.
LEMMA SumsStay ==
  ASSUME NEW c \in Nat, NEW x \in Nat, NEW y \in Nat, y <= c
  PROVE  (c + x) - y \in Nat
OBVIOUS

\* A set of numbers has a least one.
LEMMA NatMin ==
  ASSUME NEW T \in SUBSET Nat, T # {}
  PROVE  \E n \in T : \A m \in T : n <= m
<1>1. \E n \in T : \A m \in T : ~(<<m, n>> \in OpToRel(<, Nat))
  BY WFMin, NatLessThanWellFounded, Zenon
<1>2. \A m, n \in Nat : m < n => <<m, n>> \in OpToRel(<, Nat)
  BY DEF OpToRel
<1>3. \E n \in T : \A m \in T : ~(m < n)
  BY <1>1, <1>2, Zenon
<1> QED
  BY <1>3

\* What holds of a number if it holds of those before it holds of all.
LEMMA Upwards ==
  ASSUME NEW m \in Nat, NEW n \in Nat, NEW S,
         \A i \in m .. n : (\A j \in m .. n : j < i => j \in S) => i \in S
  PROVE  \A i \in m .. n : i \in S
<1> DEFINE T == {i \in m .. n : i \notin S}
<1>1. SUFFICES ASSUME T # {} PROVE FALSE
  OBVIOUS
<1>2. T \in SUBSET Nat
  OBVIOUS
<1>3. PICK i \in T : \A k \in T : i <= k
  BY <1>1, <1>2, NatMin
<1>4. \A j \in m .. n : j < i => j \in S
  BY <1>3
<1> QED
  BY <1>3, <1>4

\* The same from the end.
LEMMA Downwards ==
  ASSUME NEW m \in Nat, NEW n \in Nat, NEW S,
         \A i \in m .. n : (\A j \in m .. n : i < j => j \in S) => i \in S
  PROVE  \A i \in m .. n : i \in S
<1> DEFINE R == {i \in m .. n : m + n - i \in S}
<1>1. \A i \in m .. n : (\A j \in m .. n : j < i => j \in R) => i \in R
  <2> TAKE i \in m .. n
  <2> HAVE \A j \in m .. n : j < i => j \in R
  <2>1. m + n - i \in m .. n
    OBVIOUS
  <2>2. ASSUME NEW j \in m .. n, m + n - i < j PROVE j \in S
    <3>1. m + n - j \in m .. n /\ m + n - j < i /\ m + n - (m + n - j) = j
      BY <2>2
    <3> QED
      BY <3>1
  <2>3. m + n - i \in S
    BY <2>1, <2>2
  <2> QED
    BY <2>3
<1>2. \A i \in m .. n : i \in R
  <2> HIDE DEF R
  <2> QED
    BY <1>1, Upwards
<1> TAKE i \in m .. n
<1>3. m + n - i \in m .. n /\ m + n - (m + n - i) = i
  OBVIOUS
<1>4. m + n - i \in R
  BY <1>2, <1>3
<1> QED
  BY <1>3, <1>4

-----------------------------------------------------------------------------
(* splitTrustAnchors *)

\* The bounds of a byte, stated once so that its numerals stay out of the way.
LEMMA BytesAreNumbers == \A b \in Byte : b \in Nat /\ b <= 255
BY DEF Byte

\* What is read from the i-th byte on, given what is read from later ones.
Read(list, f, i) ==
  IF i = Len(list) + 1 THEN << >>
  ELSE LET end == i + 1 + list[i]
       IN  IF end > Len(list) + 1 THEN None
           ELSE LET others == f[end]
                IN  IF others = None THEN None
                    ELSE <<SubSeq(list, i, end - 1)>> \o others

\* The loop ends: there is a function that gives what is read from each byte on.
LEMMA ReadingEnds ==
  ASSUME NEW list \in Seq(Byte)
  PROVE  \E f : f = [i \in 1 .. Len(list) + 1 |-> Read(list, f, i)]
<1> DEFINE n == Len(list) + 1
           Runs(k) == \E f : f = [i \in k .. n |-> Read(list, f, i)]
           S == {k \in 1 .. n : Runs(k)}
<1>0. n \in Nat /\ n >= 1 /\ \A i \in 1 .. n : i # n => list[i] \in Nat
  <2>1. Len(list) \in Nat
    OBVIOUS
  <2>2. ASSUME NEW i \in 1 .. n, i # n PROVE list[i] \in Nat
    <3>1. i \in 1 .. Len(list)
      BY <2>1, <2>2
    <3>2. list[i] \in Byte
      BY <3>1
    <3> QED
      BY <3>2, BytesAreNumbers
  <2> QED
    BY <2>1, <2>2
<1>1. Runs(n)
  <2> DEFINE f == [i \in n .. n |-> << >>]
  <2>1. f = [i \in n .. n |-> Read(list, f, i)]
    BY <1>0 DEF Read
  <2> QED
    BY <2>1
<1>2. ASSUME NEW k \in 1 .. n, k # n, Runs(k + 1) PROVE Runs(k)
  <2>1. PICK f : f = [i \in k + 1 .. n |-> Read(list, f, i)]
    BY <1>2
  <2> DEFINE g == [i \in k .. n |-> IF i = k THEN Read(list, f, k) ELSE f[i]]
  <2>2. ASSUME NEW i \in k .. n PROVE g[i] = Read(list, g, i)
    <3>1. i # n => list[i] \in Nat
      BY <1>0
    <3>2. i # n /\ i + 1 + list[i] <= n => g[i + 1 + list[i]] = f[i + 1 + list[i]]
      BY <1>0, <3>1
    <3>3. Read(list, g, i) = Read(list, f, i)
      <4>1. CASE i = n
        BY <4>1 DEF Read
      <4>2. CASE i # n /\ i + 1 + list[i] > n
        BY <4>2 DEF Read
      <4>3. CASE i # n /\ i + 1 + list[i] <= n
        <5> HIDE DEF g
        <5> QED
          BY <3>2, <4>3 DEF Read
      <4> QED
        BY <1>0, <3>1, <4>1, <4>2, <4>3
    <3>4. ASSUME i # k PROVE f[i] = Read(list, f, i)
      <4>1. i \in k + 1 .. n
        BY <1>0, <3>4
      <4> QED
        BY <2>1, <4>1, Zenon
    <3> QED
      BY <3>3, <3>4
  <2> HIDE DEF g
  <2>3. g = [i \in k .. n |-> g[i]]
    BY DEF g
  <2>4. g = [i \in k .. n |-> Read(list, g, i)]
    BY <2>2, <2>3
  <2> QED
    BY <2>4
<1> HIDE DEF Runs, n
<1>3. \A k \in 1 .. n : (\A j \in 1 .. n : k < j => j \in S) => k \in S
  <2> TAKE k \in 1 .. n
  <2> HAVE \A j \in 1 .. n : k < j => j \in S
  <2>1. k # n => k + 1 \in 1 .. n /\ k < k + 1
    BY <1>0
  <2> QED
    BY <1>1, <1>2, <2>1
<1>4. \A k \in 1 .. n : k \in S
  <2> HIDE DEF S
  <2> QED
    BY <1>0, <1>3, Downwards
<1>5. Runs(1)
  BY <1>0, <1>4
<1> QED
  BY <1>5 DEF Runs, n

\* f gives what is read from each byte of list on.
Reads(f, list) == \A i \in 1 .. Len(list) + 1 : f[i] = Read(list, f, i)

\* The recursive function in RecordsFrom exists, so it is what it says.
LEMMA RecordsAreRead ==
  ASSUME NEW list \in Seq(Byte)
  PROVE  \E f : Reads(f, list) /\ RecordsFrom(list) = f[1]
<1> DEFINE rest == CHOOSE f : f = [i \in 1 .. Len(list) + 1 |->
                     IF i = Len(list) + 1 THEN << >>
                     ELSE LET end == i + 1 + list[i]
                          IN  IF end > Len(list) + 1 THEN None
                              ELSE LET others == f[end]
                                   IN  IF others = None THEN None
                                       ELSE <<SubSeq(list, i, end - 1)>> \o others]
<1>1. RecordsFrom(list) = rest[1]
  BY DEF RecordsFrom
<1>2. rest = [i \in 1 .. Len(list) + 1 |-> Read(list, rest, i)]
  BY ReadingEnds, Zenon DEF Read
<1> HIDE DEF rest
<1>3. Reads(rest, list)
  BY <1>2, Zenon DEF Reads
<1> QED
  BY <1>1, <1>3, Zenon

\* A record is as long as its first byte says.
Record == {r \in Seq(Byte) : Len(r) >= 1 /\ Len(r) = r[1] + 1}

\* p tells where the records of a list end, the last one after total bytes.
Offsets(p, records, total) ==
  /\ p \in [0 .. Len(records) -> Nat]
  /\ p[0] = 0
  /\ \A k \in 1 .. Len(records) : p[k] = p[k - 1] + Len(records[k])
  /\ p[Len(records)] = total

\* The lengths that two bytes can say.
Lengths == {t \in Nat : t < 65536}

\* Records that fit into a payload.
Anchored(records) ==
  /\ records \in Seq(Record)
  /\ \E t \in Lengths : \E p : Offsets(p, records, t)

\* A record put in front of others moves their offsets by its length.
LEMMA RecordBefore ==
  ASSUME NEW r \in Record, NEW s \in Seq(Record), NEW p, NEW t \in Nat,
         Offsets(p, s, t)
  PROVE  /\ <<r>> \o s \in Seq(Record)
         /\ \E q : Offsets(q, <<r>> \o s, t + Len(r))
<1> DEFINE u == <<r>> \o s
           q == [k \in 0 .. Len(u) |-> IF k = 0 THEN 0 ELSE Len(r) + p[k - 1]]
<1>0. Len(r) \in Nat /\ Len(s) \in Nat
  BY DEF Record
<1>1. u \in Seq(Record) /\ Len(u) = Len(s) + 1 /\ u[1] = r
  OBVIOUS
<1>2. \A k \in 1 .. Len(s) : u[k + 1] = s[k]
  OBVIOUS
<1> HIDE DEF u
<1>3. ASSUME NEW k \in 0 .. Len(s) PROVE p[k] \in Nat
  BY DEF Offsets
<1>4. q \in [0 .. Len(u) -> Nat]
  <2>1. ASSUME NEW k \in 0 .. Len(u), k # 0 PROVE p[k - 1] \in Nat
    BY <1>0, <1>1, <1>3, <2>1
  <2> QED
    BY <1>0, <2>1
<1>5. q[0] = 0
  BY <1>0, <1>1
<1>6. ASSUME NEW k \in 1 .. Len(u) PROVE q[k] = q[k - 1] + Len(u[k])
  <2>1. CASE k = 1
    <3>1. p[0] = 0
      BY DEF Offsets
    <3>2. q[1] = Len(r) + p[0] /\ q[0] = 0
      BY <1>0, <1>1
    <3> QED
      BY <1>0, <1>1, <2>1, <3>1, <3>2
  <2>2. CASE k # 1
    <3>1. k - 1 \in 1 .. Len(s) /\ k \in 0 .. Len(u) /\ k - 1 \in 0 .. Len(u)
      BY <1>0, <1>1, <2>2
    <3>2. p[k - 1] = p[k - 2] + Len(s[k - 1])
      BY <3>1 DEF Offsets
    <3>3. u[k] = s[k - 1]
      BY <1>2, <3>1
    <3>4. q[k] = Len(r) + p[k - 1] /\ q[k - 1] = Len(r) + p[k - 2]
      BY <3>1, <2>2
    <3>5. p[k - 1] \in Nat /\ p[k - 2] \in Nat
      BY <1>0, <1>3, <3>1
    <3>6. s[k - 1] \in Record
      BY <3>1
    <3>7. Len(s[k - 1]) \in Nat
      BY <3>6 DEF Record
    <3>8. Len(r) + p[k - 1] = (Len(r) + p[k - 2]) + Len(s[k - 1])
      <4>1. \A a, b, c, l \in Nat : a = b + c => l + a = (l + b) + c
        BY SumsGroup
      <4> QED
        BY <1>0, <3>2, <3>5, <3>7, <4>1
    <3> QED
      BY <3>3, <3>4, <3>8, Zenon
  <2> QED
    BY <2>1, <2>2
<1>7. q[Len(u)] = t + Len(r)
  BY <1>0, <1>1 DEF Offsets
<1>8. Offsets(q, u, t + Len(r))
  <2> HIDE DEF q
  <2> QED
    BY <1>4, <1>5, <1>6, <1>7 DEF Offsets
<1> QED
  BY <1>1, <1>8 DEF u

\* The bytes from i on, as many as the first of them says, are a record.
LEMMA CutRecord ==
  ASSUME NEW list \in Seq(Byte), NEW i \in 1 .. Len(list),
         i + list[i] <= Len(list)
  PROVE  /\ list[i] \in Nat
         /\ SubSeq(list, i, i + list[i]) \in Record
         /\ Len(SubSeq(list, i, i + list[i])) = list[i] + 1
         /\ \A k \in 1 .. list[i] + 1 :
              SubSeq(list, i, i + list[i])[k] = list[i + k - 1]
<1> DEFINE r == SubSeq(list, i, i + list[i])
<1>1. list[i] \in Byte
  OBVIOUS
<1>2. list[i] \in Nat
  BY <1>1, BytesAreNumbers
<1>3. Len(r) = list[i] + 1
  BY <1>2
<1>4. \A k \in 1 .. list[i] + 1 : r[k] = list[i + k - 1]
  BY <1>2
<1>5. r \in Seq(Byte)
  BY <1>2
<1>6. r[1] = list[i]
  BY <1>2, <1>4
<1> HIDE DEF r
<1>7. r \in Record
  BY <1>2, <1>3, <1>5, <1>6 DEF Record
<1> QED
  BY <1>2, <1>3, <1>4, <1>7 DEF r

\* What is read from i on: a record r of k + 1 bytes and what is read behind it.
ReadsOne(list, f, i, k, r) ==
  /\ k = list[i]
  /\ f[i] = IF i + 1 + k > Len(list) + 1 THEN None
            ELSE IF f[i + 1 + k] = None THEN None
            ELSE <<r>> \o f[i + 1 + k]
  /\ i + 1 + k <= Len(list) + 1 =>
       /\ r \in Record /\ Len(r) = k + 1
       /\ \A j \in 1 .. k + 1 : r[j] = list[i + j - 1]

\* One round of splitTrustAnchors: the record at i is cut out, or none is.
LEMMA ReadStep ==
  ASSUME NEW list \in Seq(Byte), NEW f, Reads(f, list), NEW i \in 1 .. Len(list)
  PROVE  \E k \in Nat : \E r : ReadsOne(list, f, i, k, r)
<1>1. list[i] \in Byte
  OBVIOUS
<1>2. PICK k \in Nat : k = list[i]
  BY <1>1, BytesAreNumbers
<1>3. i \in Nat /\ (i + 1 + k) - 1 = i + k
  OBVIOUS
<1>4. i \in 1 .. Len(list) + 1 /\ i # Len(list) + 1
  OBVIOUS
<1>5. f[i] = Read(list, f, i)
  BY <1>4 DEF Reads
<1>6. Read(list, f, i) =
        IF i + 1 + k > Len(list) + 1 THEN None
        ELSE IF f[i + 1 + k] = None THEN None
        ELSE <<SubSeq(list, i, (i + 1 + k) - 1)>> \o f[i + 1 + k]
  <2>1. Read(list, f, i) =
          IF i + 1 + list[i] > Len(list) + 1 THEN None
          ELSE IF f[i + 1 + list[i]] = None THEN None
          ELSE <<SubSeq(list, i, (i + 1 + list[i]) - 1)>> \o f[i + 1 + list[i]]
    BY <1>4, Zenon DEF Read
  <2> QED
    BY <1>2, <2>1, Zenon
<1>7. PICK r : r = SubSeq(list, i, i + k)
  OBVIOUS
<1>8. f[i] = IF i + 1 + k > Len(list) + 1 THEN None
             ELSE IF f[i + 1 + k] = None THEN None
             ELSE <<r>> \o f[i + 1 + k]
  BY <1>3, <1>5, <1>6, <1>7, Zenon
<1>9. ASSUME i + 1 + k <= Len(list) + 1
      PROVE  /\ r \in Record /\ Len(r) = k + 1
             /\ \A j \in 1 .. k + 1 : r[j] = list[i + j - 1]
  <2>1. Len(list) \in Nat
    OBVIOUS
  <2>2. i + k <= Len(list)
    BY <1>3, <1>9, <2>1
  <2> QED
    BY <1>2, <1>7, <2>2, CutRecord
<1> QED
  BY <1>2, <1>8, <1>9 DEF ReadsOne

\* What is read is None or a list of records, which take up the rest of the list.
LEMMA ReadRecords ==
  ASSUME NEW list \in Seq(Byte), NEW f, Reads(f, list)
  PROVE  \A i \in 1 .. Len(list) + 1 : f[i] # None =>
           /\ f[i] \in Seq(Record)
           /\ \E p : Offsets(p, f[i], Len(list) + 1 - i)
<1> DEFINE n == Len(list) + 1
           Good(i) == f[i] # None =>
                        /\ f[i] \in Seq(Record)
                        /\ \E p : Offsets(p, f[i], n - i)
           S == {i \in 1 .. n : Good(i)}
<1>0. n \in Nat /\ Len(list) \in Nat /\ n = Len(list) + 1
  OBVIOUS
<1>a. \A i \in 1 .. n : f[i] = Read(list, f, i)
  BY DEF Reads
<1> HIDE DEF n
<1>1. ASSUME NEW i \in 1 .. n, \A j \in 1 .. n : i < j => Good(j)
      PROVE  Good(i)
  <2>1. CASE i = n
    <3>1. f[i] = << >>
      BY <1>0, <1>a, <2>1 DEF Read
    <3>2. Offsets([k \in 0 .. 0 |-> 0], << >>, 0)
      BY DEF Offsets
    <3> QED
      BY <1>0, <2>1, <3>1, <3>2
  <2>2. CASE i # n
    <3> SUFFICES ASSUME f[i] # None
                 PROVE  /\ f[i] \in Seq(Record)
                        /\ \E p : Offsets(p, f[i], n - i)
      OBVIOUS
    <3>1. i \in 1 .. Len(list)
      BY <1>0, <2>2
    <3>a. PICK k \in Nat : \E r : ReadsOne(list, f, i, k, r)
      BY <3>1, ReadStep
    <3>2. PICK r : ReadsOne(list, f, i, k, r)
      BY <3>a
    <3> DEFINE end == i + 1 + k
    <3>3. end \in Nat /\ i < end /\ end = i + 1 + k
      OBVIOUS
    <3>4. f[i] = IF end > n THEN None
                 ELSE IF f[end] = None THEN None ELSE <<r>> \o f[end]
      BY <1>0, <3>2 DEF ReadsOne
    <3>5. end <= n => r \in Record /\ Len(r) = k + 1
      BY <1>0, <3>2 DEF ReadsOne
    <3> HIDE DEF end
    <3>6. end \in 1 .. n /\ f[end] # None /\ f[i] = <<r>> \o f[end]
      BY <1>0, <3>3, <3>4
    <3>7. r \in Record /\ Len(r) = k + 1
      BY <3>5, <3>6
    <3>8. PICK p : f[end] \in Seq(Record) /\ Offsets(p, f[end], n - end)
      BY <1>1, <3>3, <3>6
    <3>9. n - end \in Nat /\ (n - end) + Len(r) = n - i
      BY <1>0, <3>3, <3>6, <3>7
    <3>10. /\ <<r>> \o f[end] \in Seq(Record)
           /\ \E q : Offsets(q, <<r>> \o f[end], (n - end) + Len(r))
      BY <3>7, <3>8, <3>9, RecordBefore
    <3> QED
      BY <3>6, <3>9, <3>10
  <2> QED
    BY <2>1, <2>2
<1> HIDE DEF Good
<1>2. \A i \in 1 .. n : (\A j \in 1 .. n : i < j => j \in S) => i \in S
  BY <1>1
<1>3. 1 \in Nat /\ n \in Nat
  BY <1>0
<1>4. \A i \in 1 .. n : i \in S
  <2> HIDE DEF S
  <2> QED
    BY <1>2, <1>3, Downwards
<1> QED
  BY <1>4 DEF Good, n

\* A list of records is not the answer to a capture that is refused.
LEMMA RecordsAreNotNone ==
  ASSUME NEW s \in Seq(Record)
  PROVE  s # None
<1>1. Record \subseteq Seq(Byte)
  BY DEF Record
<1>2. s \in Seq(Seq(Byte))
  BY <1>1
<1> QED
  BY <1>2, NoneAssumption

\* A payload is not the absence of one.
LEMMA BytesAreNotNone ==
  ASSUME NEW s \in Seq(Byte)
  PROVE  s # None
<1>1. \A b \in Byte : b \in Nat
  BY BytesAreNumbers
<1>2. s \in Seq(Nat)
  BY <1>1
<1> QED
  BY <1>2, NoneAssumption

\* The loop refuses a list if and only if it cannot be cut into records.
LEMMA ReadIfCut ==
  ASSUME NEW list \in Seq(Byte)
  PROVE  RecordsFrom(list) # None <=>
           \E cuts \in SUBSET (1 .. Len(list) + 1) :
             /\ 1 \in cuts
             /\ \A i \in cuts \ {Len(list) + 1} : i + 1 + list[i] \in cuts
<1> DEFINE n == Len(list) + 1
<1>0. n \in Nat /\ Len(list) \in Nat /\ n = Len(list) + 1 /\ 1 \in 1 .. n
  OBVIOUS
<1>1. PICK f : Reads(f, list) /\ RecordsFrom(list) = f[1]
  BY RecordsAreRead
<1> DEFINE Step(i, end, r) ==
             /\ i < end /\ end = i + 1 + list[i]
             /\ f[i] = IF end > n THEN None
                       ELSE IF f[end] = None THEN None ELSE <<r>> \o f[end]
             /\ end <= n => r \in Record
<1>2. \A i \in 1 .. n : f[i] = Read(list, f, i)
  BY <1>1 DEF Reads
<1>3. \A i \in 1 .. n : f[i] # None => f[i] \in Seq(Record)
  BY <1>1, ReadRecords
<1> HIDE DEF n
<1>4. ASSUME NEW i \in 1 .. n, i # n
      PROVE  \E end \in Nat : \E r : Step(i, end, r)
  <2>1. i \in 1 .. Len(list)
    BY <1>0, <1>4
  <2>2. PICK k \in Nat : \E r : ReadsOne(list, f, i, k, r)
    BY <1>1, <2>1, ReadStep
  <2>3. PICK r : ReadsOne(list, f, i, k, r)
    BY <2>2
  <2>4. i + 1 + k \in Nat /\ i < i + 1 + k
    OBVIOUS
  <2> QED
    BY <1>0, <2>3, <2>4 DEF ReadsOne
<1>6. ASSUME f[1] # None
      PROVE  \E cuts \in SUBSET (1 .. n) :
               1 \in cuts /\ \A i \in cuts \ {n} : i + 1 + list[i] \in cuts
  <2> DEFINE cuts == {i \in 1 .. n : f[i] # None}
  <2>1. cuts \in SUBSET (1 .. n) /\ 1 \in cuts
    BY <1>0, <1>6
  <2>2. ASSUME NEW i \in cuts \ {n} PROVE i + 1 + list[i] \in cuts
    <3>1. i \in 1 .. n /\ i # n /\ f[i] # None
      OBVIOUS
    <3>2. PICK end \in Nat : /\ i < end /\ end = i + 1 + list[i]
                             /\ ~(end > n) /\ f[end] # None
      BY <1>4, <3>1
    <3>3. end \in 1 .. n
      BY <1>0, <3>1, <3>2
    <3> QED
      BY <3>2, <3>3
  <2> HIDE DEF cuts
  <2> QED
    BY <2>1, <2>2
<1>7. ASSUME NEW cuts \in SUBSET (1 .. n), 1 \in cuts,
             \A i \in cuts \ {n} : i + 1 + list[i] \in cuts
      PROVE  f[1] # None
  <2> DEFINE S == {i \in 1 .. n : i \in cuts => f[i] # None}
  <2>1. ASSUME NEW i \in 1 .. n, \A j \in 1 .. n : i < j => j \in S, i \in cuts
        PROVE  f[i] # None
    <3>1. CASE i = n
      <4>1. f[i] = << >>
        BY <1>0, <1>2, <3>1 DEF Read
      <4>2. << >> \in Seq(Record)
        OBVIOUS
      <4> QED
        BY <4>1, <4>2, RecordsAreNotNone
    <3>2. CASE i # n
      <4>a. PICK end \in Nat : \E r : Step(i, end, r)
        BY <1>4, <3>2
      <4>2. PICK r : Step(i, end, r)
        BY <4>a
      <4>1. end \in cuts
        BY <1>7, <2>1, <3>2, <4>2
      <4>3. end \in 1 .. n /\ end <= n
        BY <4>1
      <4>4. f[end] # None
        BY <2>1, <4>1, <4>2, <4>3
      <4>5. f[end] \in Seq(Record)
        BY <1>3, <4>3, <4>4
      <4>6. f[i] = <<r>> \o f[end]
        BY <1>0, <4>2, <4>3, <4>4
      <4>7. <<r>> \o f[end] \in Seq(Record)
        BY <4>2, <4>3, <4>5
      <4> QED
        BY <4>6, <4>7, RecordsAreNotNone
    <3> QED
      BY <3>1, <3>2
  <2>2. \A i \in 1 .. n : (\A j \in 1 .. n : i < j => j \in S) => i \in S
    BY <2>1
  <2>3. 1 \in Nat /\ n \in Nat
    BY <1>0
  <2>4. \A i \in 1 .. n : i \in S
    <3> HIDE DEF S
    <3> QED
      BY <2>2, <2>3, Downwards
  <2> QED
    BY <1>0, <1>7, <2>4
<1> QED
  BY <1>0, <1>1, <1>6, <1>7

\* splitTrustAnchors accepts what is a list of anchors and nothing else; the
\* records it returns take up the list.
LEMMA SplitAccepts ==
  ASSUME NEW capture \in Seq(Byte)
  PROVE  /\ splitTrustAnchors(capture) # None <=> IsAnchorList(capture)
         /\ splitTrustAnchors(capture) # None =>
              Anchored(splitTrustAnchors(capture))
<1> DEFINE list == SubSeq(capture, 3, Len(capture))
<1>1. capture # None
  BY BytesAreNotNone
<1>2. CASE Len(capture) < 2
  BY <1>1, <1>2 DEF splitTrustAnchors, IsAnchorList
<1>3. CASE Len(capture) >= 2
  <2>1. list \in Seq(Byte)
    BY <1>3
  <2>2. /\ capture[1] \in Nat /\ capture[1] <= 255
        /\ capture[2] \in Nat /\ capture[2] <= 255
    <3>1. capture[1] \in Byte /\ capture[2] \in Byte
      BY <1>3
    <3> QED
      BY <3>1, BytesAreNumbers
  <2>3. splitTrustAnchors(capture) =
          IF 256 * capture[1] + capture[2] # Len(list) THEN None
          ELSE RecordsFrom(list)
    BY <1>1, <1>3 DEF splitTrustAnchors
  <2>4. IsAnchorList(capture) <=>
          /\ 256 * capture[1] + capture[2] = Len(list)
          /\ \E cuts \in SUBSET (1 .. Len(list) + 1) :
               /\ 1 \in cuts
               /\ \A i \in cuts \ {Len(list) + 1} : i + 1 + list[i] \in cuts
    BY <1>3 DEF IsAnchorList
  <2> HIDE DEF list
  <2>5. CASE 256 * capture[1] + capture[2] # Len(list)
    BY <2>3, <2>4, <2>5
  <2>6. CASE 256 * capture[1] + capture[2] = Len(list)
    <3>1. splitTrustAnchors(capture) = RecordsFrom(list)
      BY <2>3, <2>6
    <3>2. splitTrustAnchors(capture) # None <=> IsAnchorList(capture)
      BY <2>1, <2>4, <2>6, <3>1, ReadIfCut
    <3>3. ASSUME RecordsFrom(list) # None
          PROVE  /\ RecordsFrom(list) \in Seq(Record)
                 /\ \E p : Offsets(p, RecordsFrom(list), Len(list))
      <4>1. PICK f : Reads(f, list) /\ RecordsFrom(list) = f[1]
        BY <2>1, RecordsAreRead
      <4>2. Len(list) \in Nat /\ 1 \in 1 .. Len(list) + 1
            /\ Len(list) + 1 - 1 = Len(list)
        BY <2>1
      <4> QED
        BY <2>1, <3>3, <4>1, <4>2, ReadRecords
    <3>4. Len(list) \in Lengths
      <4>1. \A a, b \in Nat : a <= 255 /\ b <= 255 =>
              256 * a + b \in Nat /\ 256 * a + b < 65536
        OBVIOUS
      <4> QED
        BY <2>2, <2>6, <4>1 DEF Lengths
    <3> QED
      BY <3>1, <3>2, <3>3, <3>4 DEF Anchored
  <2> QED
    BY <2>5, <2>6
<1> QED
  BY <1>2, <1>3

-----------------------------------------------------------------------------
(* Records that are put together *)

\* One round of the loop in FlattenSeq.
Flat(s, f, i) == IF i = 1 THEN s[i] ELSE f[i - 1] \o s[i]

\* The recursive function behind FlattenSeq exists for any number of records.
LEMMA FlatEnds ==
  ASSUME NEW n \in Nat, n >= 1, NEW s
  PROVE  \E f : f = [i \in 1 .. n |-> Flat(s, f, i)]
<1> DEFINE Runs(k) == \E f : f = [i \in 1 .. k |-> Flat(s, f, i)]
           S == {k \in 1 .. n : Runs(k)}
<1>1. Runs(1)
  <2> DEFINE f == [i \in 1 .. 1 |-> s[1]]
  <2>1. f = [i \in 1 .. 1 |-> Flat(s, f, i)]
    BY DEF Flat
  <2> QED
    BY <2>1
<1>2. ASSUME NEW k \in 1 .. n, k # 1, Runs(k - 1) PROVE Runs(k)
  <2>1. PICK f : f = [i \in 1 .. k - 1 |-> Flat(s, f, i)]
    BY <1>2
  <2> DEFINE g == [i \in 1 .. k |-> IF i = k THEN Flat(s, f, k) ELSE f[i]]
  <2>2. ASSUME NEW i \in 1 .. k PROVE g[i] = Flat(s, g, i)
    <3>1. i # 1 => g[i - 1] = f[i - 1]
      OBVIOUS
    <3>2. Flat(s, g, i) = Flat(s, f, i)
      <4> HIDE DEF g
      <4> QED
        BY <3>1 DEF Flat
    <3>3. ASSUME i # k PROVE f[i] = Flat(s, f, i)
      <4>1. i \in 1 .. k - 1
        BY <3>3
      <4> QED
        BY <2>1, <4>1, Zenon
    <3> QED
      BY <3>2, <3>3
  <2> HIDE DEF g
  <2>3. g = [i \in 1 .. k |-> g[i]]
    BY DEF g
  <2>4. g = [i \in 1 .. k |-> Flat(s, g, i)]
    BY <2>2, <2>3
  <2> QED
    BY <2>4
<1> HIDE DEF Runs
<1>3. \A k \in 1 .. n : (\A j \in 1 .. n : j < k => j \in S) => k \in S
  <2> TAKE k \in 1 .. n
  <2> HAVE \A j \in 1 .. n : j < k => j \in S
  <2>1. k # 1 => k - 1 \in 1 .. n /\ k - 1 < k
    OBVIOUS
  <2> QED
    BY <1>1, <1>2, <2>1
<1>4. 1 \in Nat /\ n \in Nat /\ n \in 1 .. n
  OBVIOUS
<1>5. \A k \in 1 .. n : k \in S
  <2> HIDE DEF S
  <2> QED
    BY <1>3, <1>4, Upwards
<1>6. Runs(n)
  BY <1>4, <1>5
<1> QED
  BY <1>6 DEF Runs

\* Sequences of one length with the same elements are the same.
LEMMA SameElements ==
  ASSUME NEW X, NEW a \in Seq(X), NEW b \in Seq(X), Len(a) = Len(b),
         \A i \in 1 .. Len(b) : a[i] = b[i]
  PROVE  a = b
OBVIOUS

\* The bytes of list, up to the m-th record, are those of the records of s.
Holds(list, s, p, m) ==
  /\ list \in Seq(Byte)
  /\ Len(list) = p[m]
  /\ \A k \in 1 .. m : p[k] <= p[m]
  /\ \A k \in 1 .. m : \A j \in 1 .. Len(s[k]) : list[p[k - 1] + j] = s[k][j]

\* The records laid end to end: each is found at its offset, whole.
LEMMA FlattenHolds ==
  ASSUME NEW s \in Seq(Record), NEW p, NEW t \in Nat, Offsets(p, s, t)
  PROVE  Holds(FlattenSeq(s), s, p, Len(s))
<1> DEFINE n == Len(s)
<1>0. n \in Nat /\ n = Len(s) /\ p[0] = 0
  BY DEF Offsets
<1>a. \A k \in 0 .. n : p[k] \in Nat
  BY DEF Offsets
<1>b. \A k \in 1 .. n : p[k] = p[k - 1] + Len(s[k])
  BY DEF Offsets
<1>c. ASSUME NEW k \in 1 .. n
      PROVE  s[k] \in Seq(Byte) /\ Len(s[k]) \in Nat
  <2>1. s[k] \in Record
    OBVIOUS
  <2> QED
    BY <2>1 DEF Record
<1>1. CASE n = 0
  <2>1. FlattenSeq(s) = s /\ s = << >>
    BY <1>1 DEF FlattenSeq
  <2> QED
    BY <1>0, <1>1, <2>1 DEF Holds
<1>2. CASE n # 0
  <2> DEFINE fl == CHOOSE f : f = [i \in 1 .. Len(s) |->
                                     IF i = 1 THEN s[i] ELSE f[i - 1] \o s[i]]
  <2>1. FlattenSeq(s) = fl[n]
    BY <1>2 DEF FlattenSeq
  <2>2. fl = [i \in 1 .. n |-> Flat(s, fl, i)]
    <3>1. n >= 1
      BY <1>0, <1>2
    <3> QED
      BY <1>0, <3>1, FlatEnds, Zenon DEF Flat
  <2> HIDE DEF fl, n
  <2>3. \A i \in 1 .. n : fl[i] = Flat(s, fl, i)
    BY <2>2, Zenon
  <2> DEFINE S == {m \in 1 .. n : Holds(fl[m], s, p, m)}
  <2>4. ASSUME NEW m \in 1 .. n, m # 1, Holds(fl[m - 1], s, p, m - 1)
        PROVE  Holds(fl[m], s, p, m)
    <3> DEFINE old == fl[m - 1]
               r == s[m]
    <3>1. fl[m] = old \o r
      BY <2>3, <2>4 DEF Flat
    <3>2. old \in Seq(Byte) /\ Len(old) = p[m - 1]
      BY <2>4 DEF Holds
    <3>3. \A k \in 1 .. m - 1 : p[k] <= p[m - 1]
      BY <2>4 DEF Holds
    <3>4. \A k \in 1 .. m - 1 :
            \A j \in 1 .. Len(s[k]) : old[p[k - 1] + j] = s[k][j]
      BY <2>4 DEF Holds
    <3>5. r \in Seq(Byte) /\ Len(r) \in Nat
      BY <1>c
    <3>6. p[m] = p[m - 1] + Len(r) /\ p[m - 1] \in Nat /\ p[m] \in Nat
      BY <1>0, <1>a, <1>b, <2>4
    <3> HIDE DEF old, r
    <3> DEFINE new == old \o r
    <3>7. /\ new \in Seq(Byte) /\ Len(new) = p[m]
          /\ \A i \in 1 .. p[m - 1] : new[i] = old[i]
          /\ \A j \in 1 .. Len(r) : new[p[m - 1] + j] = r[j]
      <4>1. PICK l \in Nat : l = p[m - 1]
        BY <3>6
      <4>2. l = Len(old)
        BY <3>2, <4>1
      <4>a. old \in Seq(Byte) /\ r \in Seq(Byte)
        BY <3>2, <3>5
      <4>3. /\ new \in Seq(Byte) /\ Len(new) = l + Len(r)
            /\ \A i \in 1 .. l : new[i] = old[i]
            /\ \A j \in 1 .. Len(r) : new[l + j] = r[j]
        BY <4>a, <4>2
      <4> QED
        BY <3>6, <4>1, <4>3, Zenon
    <3> HIDE DEF new
    <3>8. ASSUME NEW k \in 1 .. m PROVE p[k] <= p[m]
      <4>1. k # m => k \in 1 .. m - 1 /\ p[k] \in Nat
        BY <1>0, <1>a
      <4> QED
        BY <3>3, <3>5, <3>6, <4>1
    <3>9. ASSUME NEW k \in 1 .. m, NEW j \in 1 .. Len(s[k])
          PROVE  new[p[k - 1] + j] = s[k][j]
      <4>1. CASE k = m
        BY <3>7, <4>1 DEF r
      <4>2. CASE k # m
        <5>1. k \in 1 .. m - 1 /\ k \in 1 .. n /\ k - 1 \in 0 .. n
          BY <1>0, <4>2
        <5>2. p[k] = p[k - 1] + Len(s[k]) /\ p[k - 1] \in Nat /\ Len(s[k]) \in Nat
          BY <1>a, <1>b, <1>c, <5>1
        <5>3. p[k] <= p[m - 1]
          BY <3>3, <5>1
        <5>4. p[k - 1] + j \in 1 .. p[m - 1]
          <6>1. \A a, l, q \in Nat :
                  a + l <= q => \A i \in 1 .. l : a + i \in 1 .. q
            OBVIOUS
          <6>2. p[k - 1] + Len(s[k]) <= p[m - 1]
            BY <5>2, <5>3
          <6> QED
            BY <3>6, <5>2, <6>1, <6>2
        <5> QED
          BY <3>4, <3>7, <5>1, <5>4
      <4> QED
        BY <4>1, <4>2
    <3>10. fl[m] = new
      BY <3>1 DEF new
    <3> QED
      BY <3>7, <3>8, <3>9, <3>10 DEF Holds
  <2>5. ASSUME 1 \in 1 .. n PROVE Holds(fl[1], s, p, 1)
    <3>1. fl[1] = s[1]
      BY <2>3, <2>5 DEF Flat
    <3>2. s[1] \in Seq(Byte) /\ Len(s[1]) \in Nat /\ p[1] = p[0] + Len(s[1])
      BY <1>b, <1>c, <2>5
    <3>3. \A k \in 1 .. 1 : k = 1 /\ k - 1 = 0
      OBVIOUS
    <3>4. \A j \in 1 .. Len(s[1]) : p[0] + j = j
      BY <1>0
    <3>5. Len(s[1]) = p[1] /\ p[1] <= p[1]
      BY <1>0, <3>2
    <3> QED
      BY <3>1, <3>2, <3>3, <3>4, <3>5 DEF Holds
  <2>6. \A m \in 1 .. n : (\A j \in 1 .. n : j < m => j \in S) => m \in S
    <3> TAKE m \in 1 .. n
    <3> HAVE \A j \in 1 .. n : j < m => j \in S
    <3>1. m # 1 => m - 1 \in 1 .. n /\ m - 1 < m
      BY <1>0
    <3> QED
      BY <2>4, <2>5, <3>1
  <2>7. 1 \in Nat /\ n \in Nat /\ n \in 1 .. n
    BY <1>0, <1>2
  <2>8. \A m \in 1 .. n : m \in S
    <3> HIDE DEF S
    <3> QED
      BY <2>6, <2>7, Upwards
  <2> QED
    BY <1>0, <2>1, <2>7, <2>8
<1> QED
  BY <1>1, <1>2

\* Records that were put together are read back as they were.
LEMMA ReadBack ==
  ASSUME NEW s \in Seq(Record), NEW p, NEW t \in Nat, Offsets(p, s, t),
         NEW list, Holds(list, s, p, Len(s))
  PROVE  RecordsFrom(list) = s
<1> DEFINE n == Len(s)
<1>0. n \in Nat /\ n = Len(s) /\ p[0] = 0
  BY DEF Offsets
<1>a. \A k \in 0 .. n : p[k] \in Nat
  BY DEF Offsets
<1>b. \A k \in 1 .. n : p[k] = p[k - 1] + Len(s[k])
  BY DEF Offsets
<1>c. list \in Seq(Byte) /\ Len(list) = p[n] /\ Len(list) \in Nat
  BY DEF Holds
<1>d. \A k \in 1 .. n : p[k] <= p[n]
  BY DEF Holds
<1>e. \A k \in 1 .. n : \A j \in 1 .. Len(s[k]) : list[p[k - 1] + j] = s[k][j]
  BY DEF Holds
<1>1. PICK f : Reads(f, list) /\ RecordsFrom(list) = f[1]
  BY <1>c, RecordsAreRead
<1> HIDE DEF n
<1> DEFINE Back(k, b) == /\ b \in Seq(Record) /\ Len(b) = n - k
                         /\ \A j \in 1 .. n - k : b[j] = s[k + j]
           S == {k \in 0 .. n : Back(k, f[p[k] + 1])}
<1>2. ASSUME NEW k \in 0 .. n, k = n PROVE Back(k, f[p[k] + 1])
  <2>1. p[k] + 1 \in 1 .. Len(list) + 1 /\ p[k] + 1 = Len(list) + 1
    BY <1>c, <1>2
  <2>2. f[p[k] + 1] = Read(list, f, p[k] + 1)
    BY <1>1, <2>1 DEF Reads
  <2>3. f[p[k] + 1] = << >>
    BY <2>1, <2>2 DEF Read
  <2>4. n - k = 0
    BY <1>0, <1>2
  <2> QED
    BY <2>3, <2>4
<1>3. ASSUME NEW k \in 0 .. n, k # n, Back(k + 1, f[p[k + 1] + 1])
      PROVE  Back(k, f[p[k] + 1])
  <2>1. PICK r : r = s[k + 1]
    OBVIOUS
  <2>3. k + 1 \in 1 .. n /\ (k + 1) - 1 = k /\ k + 1 \in 0 .. n
    BY <1>0, <1>3
  <2>4. r \in Record
    BY <1>0, <2>1, <2>3
  <2>5. r \in Seq(Byte) /\ Len(r) \in Nat /\ Len(r) >= 1 /\ Len(r) = r[1] + 1
        /\ r[1] \in Nat
    <3>1. r \in Seq(Byte) /\ Len(r) \in Nat /\ Len(r) >= 1 /\ Len(r) = r[1] + 1
      BY <2>4 DEF Record
    <3>2. r[1] \in Byte
      BY <3>1
    <3> QED
      BY <3>1, <3>2, BytesAreNumbers
  <2>6. p[k] \in Nat /\ p[k + 1] = p[k] + Len(r) /\ p[k + 1] <= Len(list)
    <3>1. p[k + 1] = p[(k + 1) - 1] + Len(s[k + 1]) /\ p[k + 1] <= p[n]
      BY <1>b, <1>d, <2>3
    <3> QED
      BY <1>a, <1>c, <2>1, <2>3, <3>1
  <2>0. PICK i \in Nat : i = p[k] + 1
    BY <2>6
  <2>2. PICK e \in Nat : e = p[k + 1] + 1
    BY <2>5, <2>6
  <2>7. i \in 1 .. Len(list) /\ e = i + Len(r) /\ e <= Len(list) + 1
    <3>1. \A a, l, m \in Nat : l >= 1 /\ a + l <= m =>
            a + 1 \in 1 .. m /\ a + l + 1 = a + 1 + l /\ a + l + 1 <= m + 1
      OBVIOUS
    <3>2. p[k] + Len(r) <= Len(list)
      BY <2>6
    <3>3. i \in 1 .. Len(list) /\ p[k] + Len(r) + 1 = i + Len(r)
          /\ p[k] + Len(r) + 1 <= Len(list) + 1
      BY <1>c, <2>0, <2>5, <2>6, <3>1, <3>2
    <3> QED
      BY <2>2, <2>6, <3>3
  <2>8. \A j \in 1 .. Len(r) : list[p[k] + j] = r[j]
    BY <1>e, <2>1, <2>3
  <2>9. \A j \in 1 .. Len(r) : list[i + j - 1] = r[j]
    <3>1. \A j \in 1 .. Len(r) : i + j - 1 = p[k] + j
      <4>1. PICK a \in Nat : a = p[k]
        BY <2>6
      <4>2. PICK m \in Nat : m = Len(r)
        BY <2>5
      <4>3. i = a + 1
        BY <2>0, <4>1
      <4>4. \A j \in 1 .. m : i + j - 1 = a + j
        BY <4>3
      <4> QED
        BY <4>1, <4>2, <4>4, Zenon
    <3> QED
      BY <2>8, <3>1, Zenon
  <2>10. list[i] = r[1]
    <3>1. 1 \in 1 .. Len(r) /\ p[k] + 1 = i
      BY <2>0, <2>5
    <3> QED
      BY <2>8, <3>1
  <2>11. PICK l \in Nat : \E q : ReadsOne(list, f, i, l, q)
    BY <1>1, <1>c, <2>7, ReadStep
  <2>12. PICK q : ReadsOne(list, f, i, l, q)
    BY <2>11
  <2>13. l = r[1] /\ l + 1 = Len(r) /\ i + 1 + l = e
    <3>1. l = r[1]
      BY <2>10, <2>12, Zenon DEF ReadsOne
    <3>2. l + 1 = Len(r)
      BY <2>5, <3>1
    <3>3. i + (l + 1) = i + 1 + l
      BY <2>0, <2>11, SumsGroup, Zenon
    <3> QED
      BY <2>7, <3>1, <3>2, <3>3, Zenon
  <2>14. q \in Record /\ Len(q) = Len(r) /\ \A j \in 1 .. Len(r) : q[j] = list[i + j - 1]
    BY <2>7, <2>12, <2>13 DEF ReadsOne
  <2>15. q = r
    <3>1. q \in Seq(Byte)
      BY <2>14 DEF Record
    <3>2. \A j \in 1 .. Len(r) : q[j] = r[j]
      BY <2>9, <2>14
    <3>3. r \in Seq(Byte) /\ Len(q) = Len(r)
      BY <2>5, <2>14
    <3> QED
      BY <3>1, <3>2, <3>3, SameElements
  <2>16. Back(k + 1, f[e])
    BY <1>3, <2>2
  <2>17. f[e] # None
    BY <2>16, RecordsAreNotNone
  <2>18. f[i] = <<r>> \o f[e]
    <3>1. f[i] = IF i + 1 + l > Len(list) + 1 THEN None
                 ELSE IF f[i + 1 + l] = None THEN None
                 ELSE <<q>> \o f[i + 1 + l]
      BY <2>12, Zenon DEF ReadsOne
    <3>2. ~(e > Len(list) + 1)
      BY <1>c, <2>7
    <3> QED
      BY <2>13, <2>15, <2>17, <3>1, <3>2, Zenon
  <2>19. Back(k, <<r>> \o f[e])
    <3> DEFINE b == f[e]
    <3>1. b \in Seq(Record) /\ Len(b) = n - (k + 1)
      BY <2>16
    <3>2. \A j \in 1 .. n - (k + 1) : b[j] = s[(k + 1) + j]
      BY <2>16
    <3> HIDE DEF b
    <3> DEFINE c == <<r>> \o b
    <3>3. c \in Seq(Record) /\ Len(c) = Len(b) + 1 /\ c[1] = r
      BY <2>4, <3>1
    <3>4. \A j \in 1 .. Len(b) : c[j + 1] = b[j]
      BY <2>4, <3>1
    <3> HIDE DEF c
    <3>5. Len(c) = n - k
      BY <1>0, <3>1, <3>3
    <3>6. ASSUME NEW j \in 1 .. n - k PROVE c[j] = s[k + j]
      <4>1. CASE j = 1
        BY <2>1, <3>3, <4>1
      <4>2. CASE j # 1
        <5>1. j - 1 \in 1 .. Len(b) /\ (j - 1) + 1 = j /\ (k + 1) + (j - 1) = k + j
          BY <1>0, <3>1, <4>2
        <5>2. c[(j - 1) + 1] = b[j - 1] /\ b[j - 1] = s[(k + 1) + (j - 1)]
          BY <3>1, <3>2, <3>4, <5>1
        <5> QED
          BY <5>1, <5>2
      <4> QED
        BY <4>1, <4>2
    <3>7. Back(k, c)
      BY <3>3, <3>5, <3>6
    <3> QED
      BY <3>7 DEF b, c
  <2> QED
    BY <2>0, <2>18, <2>19
<1> HIDE DEF Back
<1>4. \A k \in 0 .. n : (\A j \in 0 .. n : k < j => j \in S) => k \in S
  <2> TAKE k \in 0 .. n
  <2> HAVE \A j \in 0 .. n : k < j => j \in S
  <2>1. k # n => k + 1 \in 0 .. n /\ k < k + 1
    BY <1>0
  <2> QED
    BY <1>2, <1>3, <2>1
<1>5. 0 \in Nat /\ n \in Nat /\ 0 \in 0 .. n
  BY <1>0
<1>6. \A k \in 0 .. n : k \in S
  <2> HIDE DEF S
  <2> QED
    BY <1>4, <1>5, Downwards
<1>7. Back(0, f[1])
  BY <1>0, <1>5, <1>6
<1>8. /\ f[1] \in Seq(Record) /\ Len(f[1]) = n
      /\ \A j \in 1 .. n : f[1][j] = s[j]
  BY <1>0, <1>7 DEF Back
<1>9. f[1] = s
  BY <1>0, <1>8
<1> QED
  BY <1>1, <1>9

-----------------------------------------------------------------------------
(* shuffleTrustAnchors *)

\* One round of the loop in Shuffled.
Round(records, draw, f, i) ==
  IF i > Len(records) THEN records
  ELSE LET s == f[i + 1]
       IN  [s EXCEPT ![i] = s[draw[i]], ![draw[i]] = s[i]]

\* The recursive function in Shuffled exists for any number of records.
LEMMA ShuffleEnds ==
  ASSUME NEW records, NEW draw, Len(records) \in Nat, Len(records) >= 1
  PROVE  \E f : f = [i \in 2 .. Len(records) + 1 |-> Round(records, draw, f, i)]
<1> DEFINE n == Len(records) + 1
           Runs(k) == \E f : f = [i \in k .. n |-> Round(records, draw, f, i)]
           S == {k \in 2 .. n : Runs(k)}
<1>0. n \in Nat /\ n >= 2 /\ n > Len(records)
      /\ \A i \in 2 .. n : i # n => ~(i > Len(records))
  OBVIOUS
<1> HIDE DEF n
<1>1. Runs(n)
  <2> DEFINE f == [i \in n .. n |-> records]
  <2>1. f = [i \in n .. n |-> Round(records, draw, f, i)]
    BY <1>0 DEF Round
  <2> QED
    BY <2>1
<1>2. ASSUME NEW k \in 2 .. n, k # n, Runs(k + 1) PROVE Runs(k)
  <2>1. PICK f : f = [i \in k + 1 .. n |-> Round(records, draw, f, i)]
    BY <1>2
  <2> DEFINE g == [i \in k .. n |->
                     IF i = k THEN Round(records, draw, f, k) ELSE f[i]]
  <2>2. ASSUME NEW i \in k .. n PROVE g[i] = Round(records, draw, g, i)
    <3>1. i # n => g[i + 1] = f[i + 1]
      BY <1>0
    <3>2. Round(records, draw, g, i) = Round(records, draw, f, i)
      <4> HIDE DEF g
      <4>1. CASE i = n
        BY <1>0, <4>1 DEF Round
      <4>2. CASE i # n
        BY <3>1, <4>2 DEF Round
      <4> QED
        BY <4>1, <4>2
    <3>3. ASSUME i # k PROVE f[i] = Round(records, draw, f, i)
      <4>1. i \in k + 1 .. n
        BY <1>0, <3>3
      <4> QED
        BY <2>1, <4>1, Zenon
    <3> QED
      BY <3>2, <3>3
  <2> HIDE DEF g
  <2>3. g = [i \in k .. n |-> g[i]]
    BY DEF g
  <2>4. g = [i \in k .. n |-> Round(records, draw, g, i)]
    BY <2>2, <2>3
  <2> QED
    BY <2>4
<1> HIDE DEF Runs
<1>3. \A k \in 2 .. n : (\A j \in 2 .. n : k < j => j \in S) => k \in S
  <2> TAKE k \in 2 .. n
  <2> HAVE \A j \in 2 .. n : k < j => j \in S
  <2>1. k # n => k + 1 \in 2 .. n /\ k < k + 1
    BY <1>0
  <2> QED
    BY <1>1, <1>2, <2>1
<1>4. 2 \in Nat /\ n \in Nat /\ 2 \in 2 .. n
  BY <1>0
<1>5. \A k \in 2 .. n : k \in S
  <2> HIDE DEF S
  <2> QED
    BY <1>3, <1>4, Downwards
<1>6. Runs(2)
  BY <1>4, <1>5
<1> QED
  BY <1>6 DEF Runs, n

Swap(s, i, j) == [s EXCEPT ![i] = s[j], ![j] = s[i]]

\* f gives the records before each round.
Swaps(f, records, draw) ==
  /\ f[Len(records) + 1] = records
  /\ \A i \in 2 .. Len(records) : f[i] = Swap(f[i + 1], i, draw[i])

\* Shuffled is the last round of the swaps, so rounds can be counted down.
LEMMA ShuffledIs ==
  ASSUME NEW records, NEW draw, Len(records) \in Nat, Len(records) >= 1
  PROVE  \E f : Swaps(f, records, draw) /\ Shuffled(records, draw) = f[2]
<1> DEFINE swapped == CHOOSE f : f = [i \in 2 .. Len(records) + 1 |->
                                        Round(records, draw, f, i)]
<1>1. Shuffled(records, draw) = swapped[2]
  <2>1. records # << >>
    OBVIOUS
  <2> QED
    BY <2>1 DEF Shuffled, Round
<1>2. swapped = [i \in 2 .. Len(records) + 1 |-> Round(records, draw, swapped, i)]
  BY ShuffleEnds, Zenon
<1> HIDE DEF swapped
<1>3. \A i \in 2 .. Len(records) + 1 : swapped[i] = Round(records, draw, swapped, i)
  BY <1>2, Zenon
<1>4. swapped[Len(records) + 1] = records
  <2>1. Len(records) + 1 \in 2 .. Len(records) + 1 /\ Len(records) + 1 > Len(records)
    OBVIOUS
  <2> QED
    BY <1>3, <2>1 DEF Round
<1>5. ASSUME NEW i \in 2 .. Len(records)
      PROVE  swapped[i] = Swap(swapped[i + 1], i, draw[i])
  <2>1. i \in 2 .. Len(records) + 1 /\ ~(i > Len(records))
    OBVIOUS
  <2> QED
    BY <1>3, <2>1 DEF Round, Swap
<1> QED
  BY <1>1, <1>4, <1>5 DEF Swaps

Exchanged(u, s, i, j) ==
  \A k \in 1 .. Len(s) : u[k] = s[IF k = i THEN j ELSE IF k = j THEN i ELSE k]

\* A swap exchanges two places and leaves the rest.
LEMMA SwapIs ==
  ASSUME NEW X, NEW s \in Seq(X), NEW i \in 1 .. Len(s), NEW j \in 1 .. Len(s)
  PROVE  /\ Swap(s, i, j) \in Seq(X) /\ Len(Swap(s, i, j)) = Len(s)
         /\ Exchanged(Swap(s, i, j), s, i, j)
BY DEF Swap, Exchanged

\* What is where after a swap.
LEMMA Swapped ==
  ASSUME NEW X, NEW s \in Seq(X), NEW i \in 1 .. Len(s), NEW j \in 1 .. Len(s)
  PROVE  /\ Swap(s, i, j)[i] = s[j]
         /\ \A k \in 1 .. Len(s) : k # i /\ k # j => Swap(s, i, j)[k] = s[k]
<1>1. Swap(s, i, j)[i] = s[j]
  BY DEF Swap
<1>2. ASSUME NEW k \in 1 .. Len(s), k # i, k # j
      PROVE  Swap(s, i, j)[k] = s[k]
  BY <1>2 DEF Swap
<1> QED
  BY <1>1, <1>2

\* A swap does not repeat anything.
LEMMA SwapDistinct ==
  ASSUME NEW X, NEW s \in Seq(X), NEW i \in 1 .. Len(s), NEW j \in 1 .. Len(s),
         Distinct(s)
  PROVE  Distinct(Swap(s, i, j))
<1> DEFINE u == Swap(s, i, j)
           other(k) == IF k = i THEN j ELSE IF k = j THEN i ELSE k
<1>1. u \in Seq(X) /\ Len(u) = Len(s) /\ \A k \in 1 .. Len(s) : u[k] = s[other(k)]
  <2>1. u \in Seq(X) /\ Len(u) = Len(s) /\ Exchanged(u, s, i, j)
    BY SwapIs
  <2> QED
    BY <2>1, Zenon DEF Exchanged
<1>2. \A k \in 1 .. Len(s) : other(k) \in 1 .. Len(s)
  OBVIOUS
<1>3. \A k, l \in 1 .. Len(s) : other(k) = other(l) => k = l
  OBVIOUS
<1> HIDE DEF u, other
<1>4. \A k, l \in 1 .. Len(s) : s[k] = s[l] => k = l
  BY DEF Distinct
<1>5. \A k, l \in 1 .. Len(s) : u[k] = u[l] => k = l
  BY <1>1, <1>2, <1>3, <1>4
<1>6. DOMAIN u = 1 .. Len(s)
  BY <1>1
<1>7. Distinct(u)
  BY <1>5, <1>6 DEF Distinct
<1> QED
  BY <1>7 DEF u

\* t has the elements of s in another order.
Rearranges(t, s) ==
  /\ Len(t) = Len(s)
  /\ \E b \in Bijection(1 .. Len(s), 1 .. Len(s)) :
       \A k \in 1 .. Len(s) : t[k] = s[b[k]]

\* A swap of a rearrangement is a rearrangement.
LEMMA SwapRearranges ==
  ASSUME NEW X, NEW s, NEW t \in Seq(X), Len(s) \in Nat, Rearranges(t, s),
         NEW i \in 1 .. Len(t), NEW j \in 1 .. Len(t)
  PROVE  Rearranges(Swap(t, i, j), s)
<1> DEFINE n == Len(s)
           other(k) == IF k = i THEN j ELSE IF k = j THEN i ELSE k
<1>1. Len(t) = n /\ n \in Nat
  BY DEF Rearranges
<1>2. PICK b \in Bijection(1 .. n, 1 .. n) : \A k \in 1 .. n : t[k] = s[b[k]]
  BY DEF Rearranges
<1>3. /\ b \in [1 .. n -> 1 .. n]
      /\ \A k, l \in 1 .. n : b[k] = b[l] => k = l
      /\ \A k \in 1 .. n : \E l \in 1 .. n : b[l] = k
  BY <1>2 DEF Bijection, Injection, Surjection, IsInjective
<1> HIDE DEF n
<1> DEFINE c == [k \in 1 .. n |-> b[other(k)]]
<1>4. i \in 1 .. n /\ j \in 1 .. n /\ \A k \in 1 .. n : other(k) \in 1 .. n
  BY <1>1
<1>5. /\ \A k, l \in 1 .. n : other(k) = other(l) => k = l
      /\ \A k \in 1 .. n : other(other(k)) = k
  OBVIOUS
<1>6. \A k \in 1 .. n : Swap(t, i, j)[k] = t[other(k)]
  <2>1. \A k \in 1 .. Len(t) : Swap(t, i, j)[k] = t[other(k)]
    <3>1. Exchanged(Swap(t, i, j), t, i, j)
      BY SwapIs
    <3> QED
      BY <3>1, Zenon DEF Exchanged
  <2> QED
    BY <1>1, <2>1
<1> HIDE DEF other
<1>7. c \in [1 .. n -> 1 .. n]
  BY <1>3, <1>4
<1>8. \A k, l \in 1 .. n : c[k] = c[l] => k = l
  BY <1>3, <1>4, <1>5
<1>9. ASSUME NEW k \in 1 .. n PROVE \E l \in 1 .. n : c[l] = k
  <2>1. PICK l \in 1 .. n : b[l] = k
    BY <1>3
  <2>2. other(l) \in 1 .. n /\ c[other(l)] = b[l]
    BY <1>4, <1>5
  <2> QED
    BY <2>1, <2>2
<1>10. \A k \in 1 .. n : Swap(t, i, j)[k] = s[c[k]]
  BY <1>2, <1>4, <1>6
<1> HIDE DEF c
<1>11. c \in Bijection(1 .. n, 1 .. n)
  BY <1>7, <1>8, <1>9 DEF Bijection, Injection, Surjection, IsInjective
<1>12. Len(Swap(t, i, j)) = n
  BY <1>1, SwapIs
<1> QED
  BY <1>10, <1>11, <1>12 DEF Rearranges, n

\* Things of the lengths L come to the places p.
Summed(p, L, n) == \A k \in 1 .. n : p[k] = p[k - 1] + L[k]

\* Places grow along a list.
LEMMA PlacesGrow ==
  ASSUME NEW n \in Nat, NEW p \in [0 .. n -> Nat], NEW L \in [1 .. n -> Nat],
         Summed(p, L, n)
  PROVE  \A l \in 0 .. n : \A k \in 0 .. l : p[k] <= p[l]
<1> DEFINE S == {l \in 0 .. n : \A k \in 0 .. l : p[k] <= p[l]}
<1>1. ASSUME NEW l \in 0 .. n, \A m \in 0 .. n : m < l => m \in S
      PROVE  l \in S
  <2>1. CASE l = 0
    BY <2>1
  <2>2. CASE l # 0
    <3>1. l \in 1 .. n /\ l - 1 \in 0 .. n /\ l - 1 < l
      BY <2>2
    <3>2. p[l] = p[l - 1] + L[l] /\ p[l - 1] \in Nat /\ L[l] \in Nat
      BY <3>1 DEF Summed
    <3>3. l - 1 \in S
      BY <1>1, <3>1
    <3>4. ASSUME NEW k \in 0 .. l PROVE p[k] <= p[l]
      <4>1. CASE k = l
        BY <4>1
      <4>2. CASE k # l
        <5>1. k \in 0 .. l - 1 /\ k \in 0 .. n
          BY <3>1, <4>2
        <5>2. p[k] <= p[l - 1] /\ p[k] \in Nat
          BY <3>3, <5>1
        <5> QED
          BY <3>2, <5>2, SumsGrow, Zenon
      <4> QED
        BY <4>1, <4>2
    <3> QED
      BY <3>4
  <2> QED
    BY <2>1, <2>2
<1>2. \A l \in 0 .. n : (\A m \in 0 .. n : m < l => m \in S) => l \in S
  BY <1>1
<1>3. 0 \in Nat
  OBVIOUS
<1>4. \A l \in 0 .. n : l \in S
  <2> HIDE DEF S
  <2> QED
    BY <1>2, <1>3, Upwards
<1> QED
  BY <1>4

\* Places for the lengths L after those at i and j have changed places.
Moved(q, p, L, n, i, j) ==
  /\ q \in [0 .. n -> Nat]
  /\ q[0] = 0 /\ q[n] = p[n]
  /\ \A k \in 1 .. n :
       q[k] = q[k - 1] + L[IF k = i THEN j ELSE IF k = j THEN i ELSE k]

\* A swap moves the records between the two, and the end stays where it is.
LEMMA PlacesAfterSwap ==
  ASSUME NEW n \in Nat, NEW p \in [0 .. n -> Nat], NEW L \in [1 .. n -> Nat],
         p[0] = 0, Summed(p, L, n),
         NEW i \in 1 .. n, NEW j \in 1 .. n, j < i
  PROVE  \E q : Moved(q, p, L, n, i, j)
<1>1. PICK x \in Nat, y \in Nat : x = L[i] /\ y = L[j]
  OBVIOUS
<1> DEFINE q == [k \in 0 .. n |-> IF j <= k /\ k < i THEN (p[k] + x) - y
                                  ELSE p[k]]
<1>2. ASSUME NEW k \in 0 .. n PROVE q[k] \in Nat
  <2>1. CASE j <= k /\ k < i
    <3>1. j \in 0 .. k /\ k \in 0 .. n /\ j \in 0 .. n /\ j - 1 \in 0 .. n
      BY <2>1
    <3>2. p[j] <= p[k]
      BY <3>1, PlacesGrow
    <3>3. p[j] = p[j - 1] + y
      BY <1>1 DEF Summed
    <3>4. PICK a \in Nat, b \in Nat, c \in Nat : a = p[j - 1] /\ b = p[j] /\ c = p[k]
      BY <3>1
    <3>5. q[k] = (c + x) - y
      BY <2>1, <3>4
    <3>6. y <= c
      BY <3>2, <3>3, <3>4
    <3>7. (c + x) - y \in Nat
      BY <3>6, SumsStay
    <3> QED
      BY <3>5, <3>7, Zenon
  <2>2. CASE ~(j <= k /\ k < i)
    BY <2>2
  <2> QED
    BY <2>1, <2>2
<1>3. q \in [0 .. n -> Nat]
  BY <1>2
<1>4. q[0] = 0 /\ q[n] = p[n]
  OBVIOUS
<1>5. ASSUME NEW k \in 1 .. n
      PROVE  q[k] = q[k - 1] + L[IF k = i THEN j ELSE IF k = j THEN i ELSE k]
  <2>1. k \in 0 .. n /\ k - 1 \in 0 .. n
    OBVIOUS
  <2>2. PICK a \in Nat, b \in Nat, c \in Nat :
           a = p[k] /\ b = p[k - 1] /\ c = L[k] /\ a = b + c
    <3>1. p[k] = p[k - 1] + L[k]
      BY DEF Summed
    <3>2. p[k] \in Nat /\ p[k - 1] \in Nat /\ L[k] \in Nat
      BY <2>1
    <3> QED
      BY <3>1, <3>2, Zenon
  <2>3. q[k] = IF j <= k /\ k < i THEN (a + x) - y ELSE a
    BY <2>1, <2>2
  <2>4. q[k - 1] = IF j <= k - 1 /\ k - 1 < i THEN (b + x) - y ELSE b
    BY <2>1, <2>2
  <2> DEFINE l == L[IF k = i THEN j ELSE IF k = j THEN i ELSE k]
  <2> SUFFICES q[k] = q[k - 1] + l
    OBVIOUS
  <2> HIDE DEF q, l
  <2>a. a = b + c
    BY <2>2, Zenon
  <2>b. Shifted(a, b, c, x, y)
    BY <2>a, SumsMove
  <2>5. CASE k = i
    <3>1. q[k] = a /\ q[k - 1] = (b + x) - y /\ c = x
      BY <1>1, <2>2, <2>3, <2>4, <2>5
    <3>2. a = ((b + x) - y) + y
      BY <2>b, <3>1, Zenon DEF Shifted
    <3>3. l = y
      BY <1>1, <2>5 DEF l
    <3> QED
      BY <3>1, <3>2, <3>3, Zenon
  <2>6. CASE k = j
    <3>1. q[k] = (a + x) - y /\ q[k - 1] = b /\ c = y /\ k # i
      BY <1>1, <2>2, <2>3, <2>4, <2>6
    <3>2. (a + x) - y = b + x
      BY <2>b, <3>1, Zenon DEF Shifted
    <3>3. l = x
      BY <1>1, <2>6, <3>1 DEF l
    <3> QED
      BY <3>1, <3>2, <3>3, Zenon
  <2>7. CASE k # i /\ k # j
    <3>1. CASE j <= k /\ k < i
      <4>1. q[k] = (a + x) - y /\ q[k - 1] = (b + x) - y
        BY <2>3, <2>4, <2>7, <3>1
      <4>2. (a + x) - y = ((b + x) - y) + c
        BY <2>b, Zenon DEF Shifted
      <4>3. l = c
        BY <2>2, <2>7 DEF l
      <4> QED
        BY <4>1, <4>2, <4>3, Zenon
    <3>2. CASE ~(j <= k /\ k < i)
      <4>1. q[k] = a /\ q[k - 1] = b
        BY <2>3, <2>4, <2>7, <3>2
      <4> QED
        BY <2>2, <2>7, <4>1 DEF l
    <3> QED
      BY <3>1, <3>2
  <2> QED
    BY <2>5, <2>6, <2>7
<1> HIDE DEF q
<1>6. Moved(q, p, L, n, i, j)
  BY <1>3, <1>4, <1>5 DEF Moved
<1> QED
  BY <1>6

\* Swapping two records keeps the total length, wherever the offsets go.
LEMMA SwapOffsets ==
  ASSUME NEW s \in Seq(Record), NEW t \in Nat, NEW p, Offsets(p, s, t),
         NEW i \in 1 .. Len(s), NEW j \in 1 .. Len(s), j <= i
  PROVE  \E q : Offsets(q, Swap(s, i, j), t)
<1> DEFINE n == Len(s)
           u == Swap(s, i, j)
           L == [k \in 1 .. n |-> Len(s[k])]
<1>0. n \in Nat
  OBVIOUS
<1>a. u \in Seq(Record) /\ Len(u) = n /\ Exchanged(u, s, i, j)
  BY SwapIs
<1>1. /\ u \in Seq(Record) /\ Len(u) = n
      /\ \A k \in 1 .. n : u[k] = s[IF k = i THEN j ELSE IF k = j THEN i ELSE k]
  BY <1>a, Zenon DEF Exchanged
<1>2. /\ p \in [0 .. n -> Nat] /\ p[0] = 0 /\ p[n] = t
      /\ \A k \in 1 .. n : p[k] = p[k - 1] + L[k]
  BY DEF Offsets
<1>3. L \in [1 .. n -> Nat]
  <2>1. ASSUME NEW k \in 1 .. n PROVE Len(s[k]) \in Nat
    <3>1. s[k] \in Record
      OBVIOUS
    <3> QED
      BY <3>1 DEF Record
  <2> QED
    BY <2>1
<1>4. \A k \in 1 .. n : L[k] = Len(s[k])
  OBVIOUS
<1>5. CASE j = i
  <2>1. \A k \in 1 .. n : u[k] = s[k]
    BY <1>1, <1>5
  <2>2. Offsets(p, u, t)
    <3> HIDE DEF u
    <3> QED
      BY <1>0, <1>1, <1>2, <1>4, <2>1 DEF Offsets
  <2> QED
    BY <2>2
<1>6. CASE j < i
  <2> HIDE DEF n, u, L
  <2>a. i \in 1 .. n /\ j \in 1 .. n
    BY DEF n
  <2>b. PICK q : Moved(q, p, L, n, i, j)
    <3>1. Summed(p, L, n)
      BY <1>2 DEF Summed
    <3> QED
      BY <1>0, <1>2, <1>3, <1>6, <2>a, <3>1, PlacesAfterSwap
  <2>1. /\ q \in [0 .. n -> Nat]
        /\ q[0] = 0 /\ q[n] = p[n]
        /\ \A k \in 1 .. n :
             q[k] = q[k - 1] + L[IF k = i THEN j ELSE IF k = j THEN i ELSE k]
    BY <2>b DEF Moved
  <2>2. ASSUME NEW k \in 1 .. n PROVE q[k] = q[k - 1] + Len(u[k])
    <3> DEFINE m == IF k = i THEN j ELSE IF k = j THEN i ELSE k
    <3>1. m \in 1 .. n
      BY <2>a
    <3>2. q[k] = q[k - 1] + L[m] /\ u[k] = s[m]
      BY <1>1, <2>1
    <3> HIDE DEF m
    <3> QED
      BY <1>4, <3>1, <3>2
  <2>3. Offsets(q, u, t)
    BY <1>1, <1>2, <2>1, <2>2 DEF Offsets
  <2> QED
    BY <2>3 DEF u
<1> QED
  BY <1>0, <1>5, <1>6

\* t has the records of s, in another order, and is as long.
Good(t, s, total) ==
  /\ t \in Seq(Record)
  /\ Rearranges(t, s)
  /\ \E q : Offsets(q, t, total)

\* A round of the shuffle keeps what the shuffle promises.
LEMMA SwapGood ==
  ASSUME NEW s, Len(s) \in Nat, NEW total \in Nat, NEW t, Good(t, s, total),
         NEW i \in 1 .. Len(s), NEW j \in 1 .. Len(s), j <= i
  PROVE  Good(Swap(t, i, j), s, total)
<1>1. t \in Seq(Record) /\ Rearranges(t, s) /\ Len(t) = Len(s)
  BY DEF Good, Rearranges
<1>2. i \in 1 .. Len(t) /\ j \in 1 .. Len(t)
  BY <1>1
<1>3. PICK q : Offsets(q, t, total)
  BY DEF Good
<1>4. Swap(t, i, j) \in Seq(Record)
  BY <1>1, <1>2, SwapIs
<1>5. Rearranges(Swap(t, i, j), s)
  BY <1>1, <1>2, SwapRearranges
<1>6. \E r : Offsets(r, Swap(t, i, j), total)
  BY <1>1, <1>2, <1>3, SwapOffsets
<1> QED
  BY <1>4, <1>5, <1>6 DEF Good

\* Before the first round nothing has moved.
LEMMA RearrangesItself ==
  ASSUME NEW s, Len(s) \in Nat
  PROVE  Rearranges(s, s)
<1> DEFINE b == [k \in 1 .. Len(s) |-> k]
<1>1. b \in Bijection(1 .. Len(s), 1 .. Len(s))
  BY DEF Bijection, Injection, Surjection, IsInjective
<1>2. \A k \in 1 .. Len(s) : s[k] = s[b[k]]
  OBVIOUS
<1> HIDE DEF b
<1> QED
  BY <1>1, <1>2 DEF Rearranges

\* A shuffle keeps the records and their total length.
LEMMA ShuffleKeeps ==
  ASSUME NEW records \in Seq(Record), NEW draw \in Draws(Len(records)),
         NEW t \in Nat, NEW p, Offsets(p, records, t)
  PROVE  Good(Shuffled(records, draw), records, t)
<1> DEFINE n == Len(records)
<1>0. n \in Nat
  OBVIOUS
<1>1. Good(records, records, t)
  BY RearrangesItself DEF Good
<1>2. CASE n = 0
  <2>1. records = << >>
    BY <1>2
  <2>2. Shuffled(records, draw) = records
    BY <2>1 DEF Shuffled
  <2> QED
    BY <1>1, <2>2
<1>3. CASE n # 0
  <2>a. Len(records) \in Nat /\ Len(records) >= 1
    BY <1>3
  <2>1. PICK f : Swaps(f, records, draw) /\ Shuffled(records, draw) = f[2]
    BY <2>a, ShuffledIs
  <2> DEFINE S == {i \in 2 .. n + 1 : Good(f[i], records, t)}
  <2>2. ASSUME NEW i \in 2 .. n + 1, \A j \in 2 .. n + 1 : i < j => j \in S
        PROVE  i \in S
    <3>1. CASE i = n + 1
      BY <1>1, <2>1, <3>1 DEF Swaps
    <3>2. CASE i # n + 1
      <4>1. i \in 2 .. n /\ i + 1 \in 2 .. n + 1 /\ i < i + 1
        BY <3>2
      <4>2. Good(f[i + 1], records, t)
        BY <2>2, <4>1
      <4>3. i \in 1 .. Len(records) /\ draw[i] \in 1 .. Len(records) /\ draw[i] <= i
        BY <4>1 DEF Draws
      <4>4. f[i] = Swap(f[i + 1], i, draw[i])
        BY <2>1, <4>1 DEF Swaps
      <4> QED
        BY <1>0, <4>2, <4>3, <4>4, SwapGood
    <3> QED
      BY <3>1, <3>2
  <2>3. \A i \in 2 .. n + 1 : (\A j \in 2 .. n + 1 : i < j => j \in S) => i \in S
    BY <2>2
  <2>4. 2 \in Nat /\ n + 1 \in Nat /\ 2 \in 2 .. n + 1
    BY <1>0, <1>3
  <2>5. \A i \in 2 .. n + 1 : i \in S
    <3> HIDE DEF S, n
    <3> QED
      BY <2>3, <2>4, Downwards
  <2> QED
    BY <2>1, <2>4, <2>5
<1> QED
  BY <1>2, <1>3

\* The bytes that say a length.
High(t) == t \div 256
Low(t) == t % 256
Says(high, low) == 256 * high + low

\* A length of up to 65535 survives being written into two bytes.
LEMMA TwoBytes ==
  ASSUME NEW t \in Lengths
  PROVE  /\ t % 65536 = t
         /\ High(t) \in Byte /\ Low(t) \in Byte /\ Says(High(t), Low(t)) = t
<1>1. t \in Nat /\ t < 65536
  BY DEF Lengths
<1>2. High(t) \in Nat /\ High(t) <= 255
  BY <1>1 DEF High
<1>3. Low(t) \in Nat /\ Low(t) <= 255
  BY <1>1 DEF Low
<1>4. Says(High(t), Low(t)) = t
  BY <1>1 DEF High, Low, Says
<1>5. t % 65536 = t
  BY <1>1
<1> QED
  BY <1>2, <1>3, <1>4, <1>5 DEF Byte

\* A payload with the length of its list is read from the list.
LEMMA ReadPayload ==
  ASSUME NEW list \in Seq(Byte), NEW high \in Byte, NEW low \in Byte,
         Says(high, low) = Len(list)
  PROVE  /\ <<high, low>> \o list \in Seq(Byte)
         /\ splitTrustAnchors(<<high, low>> \o list) = RecordsFrom(list)
<1> DEFINE t == Len(list)
           payload == <<high, low>> \o list
           tail == SubSeq(payload, 3, Len(payload))
<1>1. payload \in Seq(Byte) /\ Len(payload) = t + 2 /\ t \in Nat
  OBVIOUS
<1>2. payload[1] = high /\ payload[2] = low
  OBVIOUS
<1>3. \A k \in 1 .. t : payload[k + 2] = list[k]
  OBVIOUS
<1> HIDE DEF payload
<1>4. tail = list
  <2>1. /\ tail \in Seq(Byte)
        /\ Len(tail) = t
        /\ \A k \in 1 .. t : tail[k] = payload[k + 2]
    BY <1>1
  <2> HIDE DEF tail
  <2> QED
    BY <1>3, <2>1, SameElements
<1>5. payload # None
  BY <1>1, BytesAreNotNone
<1>6. 256 * payload[1] + payload[2] = Len(tail) /\ ~(Len(payload) < 2)
  BY <1>1, <1>2, <1>4 DEF Says
<1>7. splitTrustAnchors(payload) = RecordsFrom(tail)
  BY <1>5, <1>6 DEF splitTrustAnchors
<1> HIDE DEF tail
<1>8. payload \in Seq(Byte) /\ splitTrustAnchors(payload) = RecordsFrom(list)
  BY <1>1, <1>4, <1>7
<1> QED
  BY <1>8 DEF payload

\* The payload of a shuffle is its length and the records.
LEMMA ShuffledPayload ==
  ASSUME NEW records, NEW draw, NEW t \in Lengths,
         Len(FlattenSeq(Shuffled(records, draw))) = t
  PROVE  shuffleTrustAnchors(records, draw)
           = <<High(t), Low(t)>> \o FlattenSeq(Shuffled(records, draw))
<1>1. t % 65536 = t
  BY TwoBytes
<1> QED
  BY <1>1 DEF shuffleTrustAnchors, High, Low

\* What is written can be read again.
LEMMA RoundTrip ==
  ASSUME NEW records \in Seq(Record), NEW draw \in Draws(Len(records)),
         NEW t \in Lengths, NEW p, Offsets(p, records, t)
  PROVE  /\ shuffleTrustAnchors(records, draw) \in Seq(Byte)
         /\ splitTrustAnchors(shuffleTrustAnchors(records, draw))
              = Shuffled(records, draw)
<1> DEFINE s == Shuffled(records, draw)
<1>1. t \in Nat
  BY DEF Lengths
<1>2. Good(s, records, t)
  BY <1>1, ShuffleKeeps
<1> HIDE DEF s
<1>3. s \in Seq(Record)
  BY <1>2 DEF Good
<1>4. PICK q : Offsets(q, s, t)
  BY <1>2 DEF Good
<1> DEFINE list == FlattenSeq(s)
<1>5. Holds(list, s, q, Len(s))
  BY <1>1, <1>3, <1>4, FlattenHolds
<1> HIDE DEF list
<1>6. RecordsFrom(list) = s
  BY <1>1, <1>3, <1>4, <1>5, ReadBack
<1>7. list \in Seq(Byte) /\ Len(list) = t
  BY <1>4, <1>5 DEF Holds, Offsets
<1>8. High(t) \in Byte /\ Low(t) \in Byte /\ Says(High(t), Low(t)) = Len(list)
  BY <1>7, TwoBytes
<1>9. shuffleTrustAnchors(records, draw) = <<High(t), Low(t)>> \o list
  BY <1>7, ShuffledPayload DEF list, s
<1>10. /\ <<High(t), Low(t)>> \o list \in Seq(Byte)
       /\ splitTrustAnchors(<<High(t), Low(t)>> \o list) = RecordsFrom(list)
  BY <1>7, <1>8, ReadPayload
<1> QED
  BY <1>6, <1>9, <1>10 DEF s

-----------------------------------------------------------------------------
(* What a client gets *)

\* The identity is a draw.
LEMMA SomeDraw ==
  ASSUME NEW n \in Nat
  PROVE  \E d : d \in Draws(n)
<1> DEFINE d == [i \in 2 .. n |-> i]
<1>1. d \in Draws(n)
  BY DEF Draws
<1> QED
  BY <1>1

\* Every capture that is a list of anchors gives a payload, and no other does.
LEMMA PayloadExists ==
  ASSUME NEW capture \in Seq(Byte)
  PROVE  BuildTrustAnchorsPayload(capture) = {} <=> ~IsAnchorList(capture)
<1> DEFINE records == splitTrustAnchors(capture)
<1>1. CASE records = None
  <2>1. ~IsAnchorList(capture)
    BY <1>1, SplitAccepts
  <2>2. BuildTrustAnchorsPayload(capture) = {}
    BY <1>1 DEF BuildTrustAnchorsPayload
  <2> QED
    BY <2>1, <2>2
<1>2. CASE records # None
  <2>1. IsAnchorList(capture) /\ Anchored(records)
    BY <1>2, SplitAccepts
  <2>2. BuildTrustAnchorsPayload(capture) =
          {shuffleTrustAnchors(records, d) : d \in Draws(Len(records))}
    BY <1>2 DEF BuildTrustAnchorsPayload
  <2> HIDE DEF records
  <2>3. Len(records) \in Nat
    BY <2>1 DEF Anchored
  <2>4. PICK d : d \in Draws(Len(records))
    BY <2>3, SomeDraw
  <2>5. BuildTrustAnchorsPayload(capture) # {}
    BY <2>2, <2>4
  <2> QED
    BY <2>1, <2>5
<1> QED
  BY <1>1, <1>2

\* A payload is one of its capture's records in another order.
LEMMA PayloadHolds ==
  ASSUME NEW capture \in Seq(Byte),
         NEW payload \in BuildTrustAnchorsPayload(capture)
  PROVE  /\ payload \in Seq(Byte)
         /\ Anchored(splitTrustAnchors(capture))
         /\ splitTrustAnchors(payload) \in Seq(Record)
         /\ splitTrustAnchors(payload) # None
         /\ Rearranges(splitTrustAnchors(payload), splitTrustAnchors(capture))
<1> DEFINE records == splitTrustAnchors(capture)
<1>1. records # None
  BY DEF BuildTrustAnchorsPayload
<1>2. Anchored(records)
  BY <1>1, SplitAccepts
<1>3. BuildTrustAnchorsPayload(capture) =
        {shuffleTrustAnchors(records, d) : d \in Draws(Len(records))}
  BY <1>1 DEF BuildTrustAnchorsPayload
<1> SUFFICES /\ payload \in Seq(Byte)
             /\ splitTrustAnchors(payload) \in Seq(Record)
             /\ splitTrustAnchors(payload) # None
             /\ Rearranges(splitTrustAnchors(payload), records)
  BY <1>2
<1> HIDE DEF records
<1>4. PICK draw \in Draws(Len(records)) :
         payload = shuffleTrustAnchors(records, draw)
  BY <1>3
<1>a. PICK t \in Lengths : \E p : Offsets(p, records, t)
  BY <1>2 DEF Anchored
<1>5. PICK p : Offsets(p, records, t)
  BY <1>a
<1>6. records \in Seq(Record) /\ t \in Nat
  BY <1>2 DEF Anchored, Lengths
<1>7. payload \in Seq(Byte) /\ splitTrustAnchors(payload) = Shuffled(records, draw)
  BY <1>4, <1>5, <1>6, RoundTrip
<1>8. Good(Shuffled(records, draw), records, t)
  BY <1>5, <1>6, ShuffleKeeps
<1>9. Shuffled(records, draw) \in Seq(Record) /\ Rearranges(Shuffled(records, draw), records)
  BY <1>8 DEF Good
<1>10. Shuffled(records, draw) # None
  BY <1>9, RecordsAreNotNone
<1> QED
  BY <1>7, <1>9, <1>10

\* Another order has everything as often.
LEMMA CountsStay ==
  ASSUME NEW X, NEW s \in Seq(X), NEW t \in Seq(X), Rearranges(t, s), NEW r
  PROVE  Count(t, r) = Count(s, r)
<1> DEFINE n == Len(s)
           A == {k \in DOMAIN t : t[k] = r}
           B == {k \in DOMAIN s : s[k] = r}
<1>1. n \in Nat /\ DOMAIN s = 1 .. n /\ DOMAIN t = 1 .. n
  BY DEF Rearranges
<1>2. PICK b \in Bijection(1 .. n, 1 .. n) : \A k \in 1 .. n : t[k] = s[b[k]]
  BY DEF Rearranges
<1>3. /\ b \in [1 .. n -> 1 .. n]
      /\ \A k, l \in 1 .. n : b[k] = b[l] => k = l
      /\ \A k \in 1 .. n : \E l \in 1 .. n : b[l] = k
  BY <1>2 DEF Bijection, Injection, Surjection, IsInjective
<1> DEFINE c == [k \in A |-> b[k]]
<1> HIDE DEF n
<1>4. c \in [A -> B]
  BY <1>1, <1>2, <1>3
<1>5. \A k, l \in A : c[k] = c[l] => k = l
  BY <1>1, <1>3
<1>6. \A k \in B : \E l \in A : c[l] = k
  <2> TAKE k \in B
  <2>1. PICK l \in 1 .. n : b[l] = k
    BY <1>1, <1>3
  <2>2. l \in A /\ c[l] = k
    BY <1>1, <1>2, <2>1
  <2> QED
    BY <2>2
<1>7. IsFiniteSet(A)
  <2>1. 1 \in Int /\ n \in Int
    BY <1>1
  <2>2. IsFiniteSet(1 .. n)
    BY <2>1, FS_Interval
  <2>3. A \in SUBSET (1 .. n)
    BY <1>1
  <2> HIDE DEF A
  <2> QED
    BY <2>2, <2>3, FS_Subset
<1> HIDE DEF c, A, B
<1>8. c \in Bijection(A, B)
  BY <1>4, <1>5, <1>6 DEF Bijection, Injection, Surjection, IsInjective
<1>9. ExistsBijection(A, B)
  BY <1>8 DEF ExistsBijection
<1>10. Cardinality(B) = Cardinality(A)
  BY <1>7, <1>9, FS_Bijection
<1> QED
  BY <1>10 DEF Count, A, B

-----------------------------------------------------------------------------
(* Every order comes from one draw *)

\* Later rounds leave a position alone.
LEMMA LaterRounds ==
  ASSUME NEW X, NEW s \in Seq(X), NEW draw \in Draws(Len(s)), NEW f,
         Swaps(f, s, draw)
  PROVE  /\ \A i \in 2 .. Len(s) + 1 : f[i] \in Seq(X) /\ Len(f[i]) = Len(s)
         /\ \A i \in 2 .. Len(s) + 1 : \A k \in i .. Len(s) : f[2][k] = f[i][k]
<1> DEFINE n == Len(s)
           T == {i \in 2 .. n + 1 : f[i] \in Seq(X) /\ Len(f[i]) = n}
           S == {i \in 2 .. n + 1 : \A k \in i .. n : f[2][k] = f[i][k]}
<1>0. n \in Nat /\ 2 \in Nat /\ n + 1 \in Nat
  OBVIOUS
<1>1. ASSUME NEW i \in 2 .. n
      PROVE  /\ i + 1 \in 2 .. n + 1 /\ i \in 1 .. n
             /\ draw[i] \in 1 .. n /\ draw[i] <= i
             /\ f[i] = Swap(f[i + 1], i, draw[i])
  BY DEF Draws, Swaps
<1>2. \A i \in 2 .. n + 1 : (\A j \in 2 .. n + 1 : i < j => j \in T) => i \in T
  <2> TAKE i \in 2 .. n + 1
  <2> HAVE \A j \in 2 .. n + 1 : i < j => j \in T
  <2>1. CASE i = n + 1
    BY <2>1 DEF Swaps
  <2>2. CASE i # n + 1
    <3>1. i \in 2 .. n /\ i < i + 1
      BY <2>2
    <3>2. f[i + 1] \in Seq(X) /\ Len(f[i + 1]) = n
      BY <1>1, <3>1
    <3>3. i \in 1 .. n /\ draw[i] \in 1 .. n /\ f[i] = Swap(f[i + 1], i, draw[i])
      BY <1>1, <3>1
    <3>4. f[i] \in Seq(X) /\ Len(f[i]) = n
      BY <3>2, <3>3, SwapIs
    <3> QED
      BY <3>4
  <2> QED
    BY <2>1, <2>2
<1>3. \A i \in 2 .. n + 1 : i \in T
  <2> HIDE DEF T, n
  <2> QED
    BY <1>0, <1>2, Downwards
<1>4. \A i \in 2 .. n + 1 : (\A j \in 2 .. n + 1 : j < i => j \in S) => i \in S
  <2> TAKE i \in 2 .. n + 1
  <2> HAVE \A j \in 2 .. n + 1 : j < i => j \in S
  <2>1. CASE i = 2
    BY <2>1
  <2>2. CASE i # 2
    <3> DEFINE h == i - 1
    <3>1. h \in 2 .. n /\ h \in 2 .. n + 1 /\ h < i /\ h + 1 = i
      BY <2>2
    <3>2. h \in S
      BY <3>1
    <3>3. f[h] = Swap(f[i], h, draw[h]) /\ h \in 1 .. n
          /\ draw[h] \in 1 .. n /\ draw[h] <= h
      BY <1>1, <3>1
    <3>4. f[i] \in Seq(X) /\ Len(f[i]) = n
      BY <1>3
    <3>5. ASSUME NEW k \in i .. n PROVE f[2][k] = f[i][k]
      <4>1. k \in h .. n /\ k \in 1 .. n /\ k # h /\ k # draw[h]
        BY <3>1, <3>3
      <4>2. f[2][k] = f[h][k]
        BY <3>2, <4>1
      <4>3. f[h][k] = f[i][k]
        <5> DEFINE a == f[i]
                   j == draw[h]
        <5>1. a \in Seq(X) /\ h \in 1 .. Len(a) /\ j \in 1 .. Len(a) /\ k \in 1 .. Len(a)
          BY <3>3, <3>4, <4>1
        <5>2. k # h /\ k # j /\ f[h] = Swap(a, h, j)
          BY <3>3, <4>1
        <5> HIDE DEF a, j, h, n
        <5>3. Swap(a, h, j)[k] = a[k]
          BY <5>1, <5>2, Swapped
        <5> QED
          BY <5>2, <5>3 DEF a
      <4> QED
        BY <4>2, <4>3
    <3> QED
      BY <3>5
  <2> QED
    BY <2>1, <2>2
<1>5. \A i \in 2 .. n + 1 : i \in S
  <2> HIDE DEF S, n
  <2> QED
    BY <1>0, <1>4, Upwards
<1> QED
  BY <1>3, <1>5

\* A shuffle of different things can be undone: it tells the draw.
LEMMA ShuffleTellsDraw ==
  ASSUME NEW X, NEW s \in Seq(X), Distinct(s),
         NEW d \in Draws(Len(s)), NEW e \in Draws(Len(s)),
         Shuffled(s, d) = Shuffled(s, e)
  PROVE  d = e
<1> DEFINE n == Len(s)
<1>0. n \in Nat /\ 2 \in Nat /\ n + 1 \in Nat
  OBVIOUS
<1>1. d \in [2 .. n -> 1 .. n] /\ e \in [2 .. n -> 1 .. n]
  BY DEF Draws
<1>2. CASE n = 0
  BY <1>1, <1>2
<1>3. CASE n # 0
  <2>1. Len(s) \in Nat /\ Len(s) >= 1
    BY <1>3
  <2>2. PICK f : Swaps(f, s, d) /\ Shuffled(s, d) = f[2]
    BY <2>1, ShuffledIs
  <2>3. PICK g : Swaps(g, s, e) /\ Shuffled(s, e) = g[2]
    BY <2>1, ShuffledIs
  <2>4. f[2] = g[2]
    BY <2>2, <2>3
  <2>5. /\ \A i \in 2 .. n + 1 : f[i] \in Seq(X) /\ Len(f[i]) = n
        /\ \A i \in 2 .. n + 1 : \A k \in i .. n : f[2][k] = f[i][k]
    BY <2>2, LaterRounds
  <2>6. /\ \A i \in 2 .. n + 1 : g[i] \in Seq(X) /\ Len(g[i]) = n
        /\ \A i \in 2 .. n + 1 : \A k \in i .. n : g[2][k] = g[i][k]
    BY <2>3, LaterRounds
  <2> DEFINE S == {i \in 2 .. n + 1 : /\ f[i] = g[i] /\ Distinct(f[i])
                                      /\ i <= n => d[i] = e[i]}
  <2>7. \A i \in 2 .. n + 1 : (\A j \in 2 .. n + 1 : i < j => j \in S) => i \in S
    <3> TAKE i \in 2 .. n + 1
    <3> HAVE \A j \in 2 .. n + 1 : i < j => j \in S
    <3>1. CASE i = n + 1
      BY <1>0, <2>2, <2>3, <3>1 DEF Swaps
    <3>2. CASE i # n + 1
      <4>1. /\ i \in 2 .. n /\ i \in i .. n /\ i \in 1 .. n
            /\ i + 1 \in 2 .. n + 1 /\ i < i + 1
        BY <3>2
      <4>2. f[i + 1] = g[i + 1] /\ Distinct(f[i + 1])
        BY <4>1
      <4> DEFINE r == f[i + 1]
      <4>3. r \in Seq(X) /\ Len(r) = n
        BY <2>5, <4>1
      <4>4. d[i] \in 1 .. n /\ e[i] \in 1 .. n
        BY <1>1, <4>1
      <4>5. f[i] = Swap(r, i, d[i]) /\ g[i] = Swap(r, i, e[i])
        BY <2>2, <2>3, <4>1, <4>2 DEF Swaps
      <4>6. f[i][i] = g[i][i]
        BY <2>4, <2>5, <2>6, <4>1
      <4> HIDE DEF r
      <4>7. \A j \in 1 .. n : Swap(r, i, j)[i] = r[j]
        BY <4>1, <4>3, Swapped
      <4>8. d[i] = e[i]
        <5>1. r[d[i]] = r[e[i]]
          BY <4>4, <4>5, <4>6, <4>7, Zenon
        <5>2. DOMAIN r = 1 .. n
          BY <4>3
        <5>3. \A k, l \in 1 .. n : r[k] = r[l] => k = l
          BY <4>2, <5>2, Zenon DEF Distinct, r
        <5> QED
          BY <4>4, <5>1, <5>3, Zenon
      <4>9. Distinct(Swap(r, i, d[i]))
        <5>1. Distinct(r)
          BY <4>2 DEF r
        <5> QED
          BY <4>1, <4>3, <4>4, <5>1, SwapDistinct
      <4> QED
        BY <4>5, <4>8, <4>9
    <3> QED
      BY <3>1, <3>2
  <2>8. \A i \in 2 .. n + 1 : i \in S
    <3> HIDE DEF S, n
    <3> QED
      BY <1>0, <2>7, Downwards
  <2>9. \A i \in 2 .. n : d[i] = e[i]
    BY <2>8
  <2> QED
    BY <1>1, <2>9
<1> QED
  BY <1>2, <1>3

-----------------------------------------------------------------------------
(* Names and what they stand for *)

\* One round of the loop that resolves names.
Resolved(table, names, f, i) ==
  IF i = 0 THEN << >>
  ELSE IF names[i] \in DOMAIN table
  THEN Append(f[i - 1], table[names[i]])
  ELSE f[i - 1]

\* The recursive function in ResolveSeq exists for any number of names.
LEMMA ResolvingEnds ==
  ASSUME NEW n \in Nat, NEW table, NEW names
  PROVE  \E f : f = [i \in 0 .. n |-> Resolved(table, names, f, i)]
<1> DEFINE Runs(k) == \E f : f = [i \in 0 .. k |-> Resolved(table, names, f, i)]
           S == {k \in 0 .. n : Runs(k)}
<1>1. Runs(0)
  <2> DEFINE f == [i \in 0 .. 0 |-> << >>]
  <2>1. f = [i \in 0 .. 0 |-> Resolved(table, names, f, i)]
    BY DEF Resolved
  <2> QED
    BY <2>1
<1>2. ASSUME NEW k \in 0 .. n, k # 0, Runs(k - 1) PROVE Runs(k)
  <2>1. PICK f : f = [i \in 0 .. k - 1 |-> Resolved(table, names, f, i)]
    BY <1>2
  <2> DEFINE g == [i \in 0 .. k |-> IF i = k THEN Resolved(table, names, f, i) ELSE f[i]]
  <2>2. \A i \in 0 .. k - 1 : g[i] = f[i]
    BY <1>2
  <2>3. ASSUME NEW i \in 0 .. k PROVE g[i] = Resolved(table, names, g, i)
    <3>1. Resolved(table, names, g, i) = Resolved(table, names, f, i)
      <4>1. CASE i = 0
        BY <4>1 DEF Resolved
      <4>2. CASE i # 0
        <5>1. i - 1 \in 0 .. k - 1
          BY <1>2, <4>2
        <5>2. g[i - 1] = f[i - 1]
          BY <2>2, <5>1
        <5> HIDE DEF g
        <5> QED
          BY <5>2 DEF Resolved
      <4> QED
        BY <4>1, <4>2
    <3>2. CASE i = k
      <4>1. g[i] = Resolved(table, names, f, i)
        BY <3>2
      <4> QED
        BY <3>1, <4>1
    <3>3. CASE i # k
      <4>1. i \in 0 .. k - 1
        BY <3>3
      <4>2. f[i] = Resolved(table, names, f, i)
        BY <2>1, <4>1, Zenon
      <4>3. g[i] = f[i]
        BY <2>2, <4>1
      <4> QED
        BY <3>1, <4>2, <4>3
    <3> QED
      BY <3>2, <3>3
  <2> HIDE DEF g
  <2>4. g = [i \in 0 .. k |-> g[i]]
    BY DEF g
  <2>5. g = [i \in 0 .. k |-> Resolved(table, names, g, i)]
    BY <2>3, <2>4
  <2> QED
    BY <2>5
<1> HIDE DEF Runs
<1>3. \A k \in 0 .. n : (\A j \in 0 .. n : j < k => j \in S) => k \in S
  <2> TAKE k \in 0 .. n
  <2> HAVE \A j \in 0 .. n : j < k => j \in S
  <2>1. k # 0 => k - 1 \in 0 .. n /\ k - 1 < k
    OBVIOUS
  <2> QED
    BY <1>1, <1>2, <2>1
<1>4. 0 \in Nat /\ n \in 0 .. n
  OBVIOUS
<1>5. \A k \in 0 .. n : k \in S
  <2> HIDE DEF S
  <2> QED
    BY <1>3, <1>4, Upwards
<1>6. Runs(n)
  BY <1>4, <1>5
<1> QED
  BY <1>6 DEF Runs

\* ResolveSeq is the last round of its loop over the names.
LEMMA ResolveSeqIs ==
  ASSUME NEW table, NEW names, Len(names) \in Nat
  PROVE  \E f : /\ \A i \in 0 .. Len(names) : f[i] = Resolved(table, names, f, i)
                /\ ResolveSeq(table, names) = f[Len(names)]
<1> DEFINE resolved == CHOOSE f : f = [i \in 0 .. Len(names) |->
                                         Resolved(table, names, f, i)]
<1>1. ResolveSeq(table, names) = resolved[Len(names)]
  BY DEF ResolveSeq, Resolved
<1>2. resolved = [i \in 0 .. Len(names) |-> Resolved(table, names, resolved, i)]
  <2>1. \E f : f = [i \in 0 .. Len(names) |-> Resolved(table, names, f, i)]
    BY ResolvingEnds
  <2> QED
    BY <2>1, Zenon
<1> HIDE DEF resolved
<1>3. \A i \in 0 .. Len(names) : resolved[i] = Resolved(table, names, resolved, i)
  BY <1>2, Zenon
<1> QED
  BY <1>1, <1>3

\* The first i names have been resolved into r.
ResolvedTo(table, names, i, r) ==
  /\ r \in Seq({table[x] : x \in DOMAIN table})
  /\ Elements(r) =
       {table[x] : x \in {names[k] : k \in 1 .. i} \cap DOMAIN table}
  /\ Distinct(names) /\ Distinct(table) => Distinct(r)

\* Appending adds one element, and repeats none that is new.
LEMMA ElementsAfterAppend ==
  ASSUME NEW X, NEW s \in Seq(X), NEW x \in X
  PROVE  /\ Append(s, x) \in Seq(X)
         /\ Elements(Append(s, x)) = Elements(s) \cup {x}
         /\ Distinct(s) /\ x \notin Elements(s) => Distinct(Append(s, x))
<1> DEFINE n == Len(s)
           t == Append(s, x)
<1>1. /\ n \in Nat /\ DOMAIN s = 1 .. n /\ t \in Seq(X) /\ DOMAIN t = 1 .. n + 1
      /\ \A i \in 1 .. n : t[i] = s[i]
      /\ t[n + 1] = x
  OBVIOUS
<1>a. 1 .. n + 1 = (1 .. n) \cup {n + 1}
  BY <1>1
<1> HIDE DEF n, t
<1>2. Elements(t) = Elements(s) \cup {x}
  BY <1>1, <1>a DEF Elements
<1>3. ASSUME Distinct(s), x \notin Elements(s) PROVE Distinct(t)
  <2> SUFFICES ASSUME NEW i \in 1 .. n + 1, NEW j \in 1 .. n + 1, t[i] = t[j]
               PROVE  i = j
    BY <1>1 DEF Distinct
  <2>1. \A k, l \in 1 .. n : s[k] = s[l] => k = l
    BY <1>1, <1>3 DEF Distinct
  <2>2. \A k \in 1 .. n : s[k] # x
    BY <1>1, <1>3 DEF Elements
  <2> QED
    BY <1>1, <1>a, <2>1, <2>2
<1> QED
  BY <1>1, <1>2, <1>3 DEF t

\* A round of ResolveSeq: a name in the table is appended, another is skipped.
LEMMA ResolveStep ==
  ASSUME NEW X, NEW table, NEW names \in Seq(X), NEW i \in 1 .. Len(names),
         NEW r, ResolvedTo(table, names, i - 1, r)
  PROVE  ResolvedTo(table, names, i, IF names[i] \in DOMAIN table
                                     THEN Append(r, table[names[i]]) ELSE r)
<1> DEFINE Y == {table[x] : x \in DOMAIN table}
           before == {names[k] : k \in 1 .. i - 1}
<1>1. /\ r \in Seq(Y)
      /\ Elements(r) = {table[x] : x \in before \cap DOMAIN table}
      /\ Distinct(names) /\ Distinct(table) => Distinct(r)
  BY DEF ResolvedTo
<1>2. {names[k] : k \in 1 .. i} = before \cup {names[i]}
  <2>1. 1 .. i = (1 .. i - 1) \cup {i}
    OBVIOUS
  <2> QED
    BY <2>1
<1>3. Distinct(names) => names[i] \notin before
  <2>1. DOMAIN names = 1 .. Len(names)
    OBVIOUS
  <2>2. \A k \in 1 .. i - 1 : k \in 1 .. Len(names) /\ k # i
    OBVIOUS
  <2> QED
    BY <2>1, <2>2 DEF Distinct
<1> HIDE DEF before
<1>4. CASE names[i] \notin DOMAIN table
  BY <1>1, <1>2, <1>4 DEF ResolvedTo
<1>5. CASE names[i] \in DOMAIN table
  <2>1. table[names[i]] \in Y
    BY <1>5
  <2>2. Distinct(names) /\ Distinct(table) => table[names[i]] \notin Elements(r)
    BY <1>1, <1>3, <1>5 DEF Distinct
  <2> HIDE DEF Y
  <2> DEFINE y == table[names[i]]
             u == Append(r, y)
  <2> HIDE DEF y
  <2>3. /\ u \in Seq(Y) /\ Elements(u) = Elements(r) \cup {y}
        /\ Distinct(r) /\ y \notin Elements(r) => Distinct(u)
    BY <1>1, <2>1, ElementsAfterAppend DEF y
  <2> HIDE DEF u
  <2>4. Elements(u) = {table[x] : x \in {names[k] : k \in 1 .. i} \cap DOMAIN table}
    BY <1>1, <1>2, <1>5, <2>3 DEF y
  <2>5. ResolvedTo(table, names, i, u)
    BY <1>1, <2>2, <2>3, <2>4 DEF ResolvedTo, Y, y
  <2> QED
    BY <1>5, <2>5 DEF u, y
<1> QED
  BY <1>4, <1>5

\* The known names are resolved, each once if each is named once.
LEMMA ResolveSeqGood ==
  ASSUME NEW X, NEW table, NEW names \in Seq(X)
  PROVE  /\ ResolveSeq(table, names) \in Seq({table[x] : x \in DOMAIN table})
         /\ Elements(ResolveSeq(table, names)) = ResolveSet(table, Elements(names))
         /\ Distinct(names) /\ Distinct(table) => Distinct(ResolveSeq(table, names))
<1> DEFINE n == Len(names)
<1>0. n \in Nat /\ 0 \in Nat /\ DOMAIN names = 1 .. n /\ n \in 0 .. n
  OBVIOUS
<1>1. PICK f : /\ \A i \in 0 .. n : f[i] = Resolved(table, names, f, i)
               /\ ResolveSeq(table, names) = f[n]
  BY <1>0, ResolveSeqIs
<1> DEFINE S == {i \in 0 .. n : ResolvedTo(table, names, i, f[i])}
<1>2. ResolvedTo(table, names, 0, << >>)
  <2>1. << >> \in Seq({table[x] : x \in DOMAIN table}) /\ Distinct(<< >>)
    BY DEF Distinct
  <2>2. Elements(<< >>) = {} /\ 1 .. 0 = {}
    BY DEF Elements
  <2> QED
    BY <2>1, <2>2 DEF ResolvedTo
<1>3. \A i \in 0 .. n : (\A j \in 0 .. n : j < i => j \in S) => i \in S
  <2> TAKE i \in 0 .. n
  <2> HAVE \A j \in 0 .. n : j < i => j \in S
  <2>1. f[i] = Resolved(table, names, f, i)
    BY <1>1
  <2>2. CASE i = 0
    <3>1. f[i] = << >>
      BY <2>1, <2>2 DEF Resolved
    <3> QED
      BY <1>2, <2>2, <3>1
  <2>3. CASE i # 0
    <3>1. i \in 1 .. Len(names) /\ i - 1 \in 0 .. n /\ i - 1 < i
      BY <2>3
    <3>2. ResolvedTo(table, names, i - 1, f[i - 1])
      BY <3>1
    <3>3. f[i] = IF names[i] \in DOMAIN table
                 THEN Append(f[i - 1], table[names[i]]) ELSE f[i - 1]
      BY <2>1, <2>3 DEF Resolved
    <3>4. ResolvedTo(table, names, i, f[i])
      BY <3>1, <3>2, <3>3, ResolveStep
    <3> QED
      BY <3>4
  <2> QED
    BY <2>2, <2>3
<1>4. \A i \in 0 .. n : i \in S
  <2> HIDE DEF S, n
  <2> QED
    BY <1>0, <1>3, Upwards
<1>5. ResolvedTo(table, names, n, ResolveSeq(table, names))
  BY <1>0, <1>1, <1>4
<1>6. {names[k] : k \in 1 .. n} = Elements(names)
  BY <1>0 DEF Elements
<1> HIDE DEF n
<1> QED
  BY <1>5, <1>6 DEF ResolvedTo, ResolveSet

-----------------------------------------------------------------------------
(* Profiles *)

\* The extensions a hello is made from have no reserved value but the mark that
\* stands for one.
ExtensionsFit(extensions) ==
  extensions # None =>
    /\ extensions \in Seq(Nat)
    /\ Elements(extensions) \cap ReservedValues \subseteq {GREASE}

\* A reserved value is no number of an extension that is told apart here.
LEMMA ReservedApart ==
  ASSUME NEW v \in ReservedValues
  PROVE  /\ v \notin {0, 5, 10, 11, 13, 16, 18, 21, 23, 27, 28, 34, 35, 41, 42, 43,
                      44, 45, 51}
         /\ v \notin {13172, 17513, 17613, 51764, 65037, 65281}
<1>0. PICK w \in 0 .. 15 : v = 4112 * w + 2570
  BY DEF ReservedValues
<1>1. w \in Nat /\ w <= 15 /\ v = 4112 * w + 2570
  BY <1>0
<1>2. v \notin {0, 5, 10, 11, 13, 16, 18, 21, 23, 27, 28, 34, 35, 41, 42, 43, 44, 45,
                51}
  <2>1. v \in Nat /\ v > 60
    BY <1>1
  <2> QED
    BY <2>1
<1>3. v # 13172 /\ v # 17513 /\ v # 17613
  BY <1>1
<1>4. v # 51764 /\ v # 65037 /\ v # 65281
  BY <1>1
<1> QED
  BY <1>2, <1>3, <1>4

\* The table of extensions ja3.go chooses from has no reserved value in it.
LEMMA ExtMapApart ==
  ASSUME NEW def, NEW a
  PROVE  ExtMap(def, a) \cap ReservedValues = {}
<1>1. ExtMap(def, a) \subseteq
        {0, 5, 10, 11, 13, 16, 18, 21, 23, 27, 28, 34, 35, 41, 42, 43, 44, 45, 51}
          \cup {13172, 17513, 17613, 51764, 65037, 65281}
  BY DEF ExtMap, getExtensionBaseMap, Padding, PreSharedKey, PSKKeyExchangeModes,
         SupportedCurves, SignatureAlgorithms, ALPN, SupportedVersions, KeyShares,
         ALPS, extensionTrustAnchors
<1> QED
  BY <1>1, ReservedApart

\* The extensions of a custom client are like those of a profile.
LEMMA CustomExtensions ==
  ASSUME NEW def \in CustomTlsClient, NEW a
  PROVE  ExtensionsFit(CustomProfile(def, a).extensions)
<1> DEFINE e == CustomProfile(def, a).extensions
<1>1. e = IF SpecFails(def, a) THEN None ELSE def.extensions
  BY DEF CustomProfile
<1>2. def.extensions \in Seq(Nat)
  BY DEF CustomTlsClient
<1> SUFFICES ASSUME e # None
             PROVE  e \in Seq(Nat) /\ Elements(e) \cap ReservedValues \subseteq {GREASE}
  BY DEF ExtensionsFit
<1>3. e = def.extensions /\ ~SpecFails(def, a)
  BY <1>1
<1> HIDE DEF e
<1>4. \A i \in DOMAIN e : e[i] \in ExtMap(def, a) \cup {GREASE}
  BY <1>3 DEF SpecFails
<1>5. Elements(e) \cap ReservedValues \subseteq {GREASE}
  BY <1>4, ExtMapApart DEF Elements
<1> QED
  BY <1>2, <1>3, <1>5

\* The tables of mapper.go give no two settings one number.
LEMMA TablesAreDistinct == Distinct(H2SettingsMap) /\ Distinct(H3SettingsMap)
<1>1. Distinct(H2SettingsMap)
  BY DEF Distinct, H2SettingsMap
<1>2. Distinct(H3SettingsMap)
  BY DEF Distinct, H3SettingsMap
<1> QED
  BY <1>1, <1>2

\* The HTTP/2 side of a custom client: what its definition orders, it orders.
LEMMA CustomPreface ==
  ASSUME NEW def \in CustomTlsClient, NEW a
  PROVE  /\ CustomProfile(def, a).http2.settings # None
         /\ OrderFits(def.h2SettingsOrder, def.h2Settings) =>
              OrderFits(CustomProfile(def, a).http2.settingsOrder,
                        CustomProfile(def, a).http2.settings)
<1> DEFINE h == CustomProfile(def, a).http2
<1>1. /\ h.settings = ResolveSet(H2SettingsMap, def.h2Settings)
      /\ h.settingsOrder = ResolveSeq(H2SettingsMap, def.h2SettingsOrder)
  BY DEF CustomProfile
<1> HIDE DEF h
<1>2. h.settings # None
  <2>1. \A x \in DOMAIN H2SettingsMap : H2SettingsMap[x] \in 1 .. 9
    BY DEF H2SettingsMap
  <2>2. h.settings \in SUBSET (1 .. 9)
    BY <1>1, <2>1 DEF ResolveSet
  <2> QED
    BY <2>2, FingerprintAssumption
<1>3. def.h2SettingsOrder \in Seq(STRING)
  BY DEF CustomTlsClient
<1>4. ASSUME OrderFits(def.h2SettingsOrder, def.h2Settings)
      PROVE  OrderFits(h.settingsOrder, h.settings)
  <2>1. Elements(def.h2SettingsOrder) = def.h2Settings /\ Distinct(def.h2SettingsOrder)
    BY <1>4 DEF OrderFits
  <2>2. /\ Elements(h.settingsOrder)
             = ResolveSet(H2SettingsMap, Elements(def.h2SettingsOrder))
        /\ Distinct(def.h2SettingsOrder) /\ Distinct(H2SettingsMap) =>
             Distinct(h.settingsOrder)
    <3> DEFINE r == ResolveSeq(H2SettingsMap, def.h2SettingsOrder)
    <3>1. /\ Elements(r) = ResolveSet(H2SettingsMap, Elements(def.h2SettingsOrder))
          /\ Distinct(def.h2SettingsOrder) /\ Distinct(H2SettingsMap) => Distinct(r)
      BY <1>3, ResolveSeqGood
    <3> HIDE DEF r
    <3>2. h.settingsOrder = r
      BY <1>1 DEF r
    <3> QED
      BY <3>1, <3>2
  <2> QED
    BY <1>1, <2>1, <2>2, TablesAreDistinct DEF OrderFits
<1> QED
  BY <1>2, <1>4 DEF h

\* The HTTP/3 side of a custom client orders known settings.
LEMMA CustomHttp3 ==
  ASSUME NEW def \in CustomTlsClient, NEW a
  PROVE  CustomProfile(def, a).http3.settingsOrder \in Seq(KnownSettings)
<1>1. CustomProfile(def, a).http3.settingsOrder
        = ResolveSeq(H3SettingsMap, def.h3SettingsOrder)
  BY DEF CustomProfile, Http3
<1>2. def.h3SettingsOrder \in Seq(STRING)
  BY DEF CustomTlsClient
<1>3. ResolveSeq(H3SettingsMap, def.h3SettingsOrder)
        \in Seq({H3SettingsMap[x] : x \in DOMAIN H3SettingsMap})
  BY <1>2, ResolveSeqGood
<1>4. {H3SettingsMap[x] : x \in DOMAIN H3SettingsMap} \subseteq KnownSettings
  BY DEF H3SettingsMap, KnownSettings
<1> QED
  BY <1>1, <1>3, <1>4

\* A profile without HTTP/2 settings is like the default one apart from them.
Without == [DefaultClientProfile EXCEPT !.http2.settings = None]

\* A profile without settings is otherwise the default one.
LEMMA WithoutSettings ==
  /\ Without.extensions = DefaultClientProfile.extensions
  /\ Without.groups = DefaultClientProfile.groups
  /\ Without.http3 = DefaultClientProfile.http3
  /\ Without.http2.settings = None
  /\ FramesFit(Without.http2) <=> FramesFit(DefaultClientProfile.http2)
<1> DEFINE p == DefaultClientProfile
<1>1. /\ DOMAIN p = {"extensions", "groups", "anchors", "greaseSignature", "http2",
                     "http3"}
      /\ DOMAIN p.http2 = {"settings", "settingsOrder", "pseudoHeaderOrder",
                           "priorities", "headerPriority"}
  BY DEF DefaultClientProfile, Chrome_150, Profile, Http2
<1> HIDE DEF p
<1>2. Without = [p EXCEPT !.http2.settings = None]
  BY DEF Without, p
<1>3. /\ Without.extensions = p.extensions /\ Without.groups = p.groups
      /\ Without.http3 = p.http3
      /\ Without.http2 = [p.http2 EXCEPT !.settings = None]
  BY <1>1, <1>2
<1>4. /\ Without.http2.settings = None
      /\ Without.http2.pseudoHeaderOrder = p.http2.pseudoHeaderOrder
      /\ Without.http2.priorities = p.http2.priorities
      /\ Without.http2.headerPriority = p.http2.headerPriority
  BY <1>1, <1>3
<1>5. FramesFit(Without.http2) <=> FramesFit(p.http2)
  BY <1>4 DEF FramesFit
<1> QED
  BY <1>3, <1>4, <1>5 DEF p

\* A walk through the four settings meets each once.
LEMMA WalkIsDistinct ==
  ASSUME NEW o \in [1 .. 4 -> DefaultSettings], Elements(o) = DefaultSettings
  PROVE  Distinct(o)
<1>1. DefaultSettings = {1, 3, 4, 5}
  BY DEF DefaultSettings
<1>2. Cardinality(DefaultSettings) = 4 /\ IsFiniteSet(DefaultSettings)
  <2>1. IsFiniteSet({}) /\ Cardinality({}) = 0
    BY FS_EmptySet
  <2>2. IsFiniteSet({1}) /\ Cardinality({1}) = 1
    BY FS_Singleton
  <2>3. IsFiniteSet({1} \cup {3}) /\ Cardinality({1} \cup {3}) = 2
    <3>1. /\ IsFiniteSet({1} \cup {3})
          /\ Cardinality({1} \cup {3}) = IF 3 \in {1} THEN Cardinality({1})
                                         ELSE Cardinality({1}) + 1
      BY <2>2, FS_AddElement, Zenon
    <3> QED
      BY <2>2, <3>1
  <2>4. IsFiniteSet(({1} \cup {3}) \cup {4}) /\ Cardinality(({1} \cup {3}) \cup {4}) = 3
    <3>1. /\ IsFiniteSet(({1} \cup {3}) \cup {4})
          /\ Cardinality(({1} \cup {3}) \cup {4})
               = IF 4 \in {1} \cup {3} THEN Cardinality({1} \cup {3})
                 ELSE Cardinality({1} \cup {3}) + 1
      BY <2>3, FS_AddElement, Zenon
    <3> QED
      BY <2>3, <3>1
  <2>5. /\ IsFiniteSet((({1} \cup {3}) \cup {4}) \cup {5})
        /\ Cardinality((({1} \cup {3}) \cup {4}) \cup {5}) = 4
    <3> DEFINE T == ({1} \cup {3}) \cup {4}
    <3>1. /\ IsFiniteSet(T \cup {5})
          /\ Cardinality(T \cup {5}) = IF 5 \in T THEN Cardinality(T)
                                       ELSE Cardinality(T) + 1
      BY <2>4, FS_AddElement, Zenon
    <3> QED
      BY <2>4, <3>1
  <2>6. (({1} \cup {3}) \cup {4}) \cup {5} = DefaultSettings
    BY <1>1
  <2> QED
    BY <2>5, <2>6
<1>3. IsFiniteSet(1 .. 4) /\ Cardinality(1 .. 4) = 4
  <2>1. PICK a \in Int, b \in Int : a = 1 /\ b = 4
    OBVIOUS
  <2>2. /\ IsFiniteSet(a .. b)
        /\ Cardinality(a .. b) = IF a > b THEN 0 ELSE b - a + 1
    BY FS_Interval, Zenon
  <2>3. ~(a > b) /\ b - a + 1 = 4
    BY <2>1
  <2>4. IsFiniteSet(a .. b) /\ Cardinality(a .. b) = 4
    BY <2>2, <2>3
  <2> QED
    BY <2>1, <2>4, Zenon
<1>4. o \in Surjection(1 .. 4, DefaultSettings)
  <2>1. DOMAIN o = 1 .. 4
    OBVIOUS
  <2>2. \A t \in DefaultSettings : \E i \in 1 .. 4 : o[i] = t
    BY <2>1 DEF Elements
  <2> QED
    BY <2>2 DEF Surjection
<1>5. o \in Injection(1 .. 4, DefaultSettings)
  BY <1>2, <1>3, <1>4, FS_Surjection
<1> QED
  BY <1>5 DEF Injection, IsInjective, Distinct

\* The reserved signature scheme is one of the sixteen values.
LEMMA SchemeIsReserved ==
  ASSUME NEW seed \in Nat
  PROVE  randomGREASESignatureScheme(seed) \in ReservedValues
<1>1. PICK b \in Nat : b = seed % 256 /\ b <= 255
  OBVIOUS
<1>2. PICK w \in Nat : w = b \div 16 /\ w <= 15
  BY <1>1
<1>3. randomGREASESignatureScheme(seed) = 256 * (16 * w + 10) + (16 * w + 10)
  BY <1>1, <1>2 DEF randomGREASESignatureScheme
<1>4. 256 * (16 * w + 10) + (16 * w + 10) = 4112 * w + 2570
  BY <1>2
<1>5. w \in 0 .. 15
  BY <1>2
<1> QED
  BY <1>3, <1>4, <1>5 DEF ReservedValues

\* Two zeros are a list without anchors.
LEMMA NoAnchors == <<0, 0>> \in Seq(Byte) /\ IsAnchorList(<<0, 0>>)
<1> DEFINE zeros == <<0, 0>>
           list == SubSeq(zeros, 3, Len(zeros))
<1>1. zeros \in Seq(Byte) /\ Len(zeros) = 2 /\ zeros[1] = 0 /\ zeros[2] = 0
  BY DEF Byte
<1>2. list = << >> /\ Len(list) = 0
  BY <1>1
<1>3. 256 * zeros[1] + zeros[2] = Len(list)
  BY <1>1, <1>2
<1>4. \E cuts \in SUBSET (1 .. Len(list) + 1) :
        /\ 1 \in cuts
        /\ \A i \in cuts \ {Len(list) + 1} : i + 1 + list[i] \in cuts
  <2>1. {1} \in SUBSET (1 .. 0 + 1) /\ {1} \ {0 + 1} = {}
    OBVIOUS
  <2> HIDE DEF list
  <2> QED
    BY <1>2, <2>1
<1>5. IsAnchorList(zeros)
  BY <1>1, <1>3, <1>4 DEF IsAnchorList
<1> QED
  BY <1>1, <1>5

-----------------------------------------------------------------------------
(* The inductive invariant *)

States == {"idle", "built", "applied", "failed", "sent", "h2", "h3"}

\* The domains of the functions, and what has not begun.
Shape ==
  /\ pc \in [Conns -> States]
  /\ DOMAIN spec = Conns /\ DOMAIN hello = Conns
  /\ DOMAIN sent = Conns /\ DOMAIN drawn = Conns
  /\ client = "none" => custom = None /\ anchors = None /\ ~session
  /\ client \in {"none", "refused"} => \A c \in Conns : pc[c] = "idle"
  /\ session => resumes

\* There is a client, or there was one before a factory ended the process.
Running == client = "ready" \/ \E c \in Conns : pc[c] # "idle"

\* The settings of HTTP/2 are listed once each, if they are given at all.
PrefaceFits ==
  /\ custom = None => FramesFit(profile.http2)
  /\ profile.http2.settings # None
       /\ (custom # None => OrderFits(custom.h2SettingsOrder, custom.h2Settings))
     => OrderFits(profile.http2.settingsOrder, profile.http2.settings)

\* Those of HTTP/3 are known ones, and a built-in profile lists what is sent.
Http3Fits ==
  /\ profile.http3.settingsOrder \in Seq(KnownSettings)
  /\ custom = None /\ profile.http3.settingsOrder # <<>> =>
       Elements(profile.http3.settingsOrder) =
         profile.http3.settings \cup {51}
           \cup (IF profile.http3.priorityParam > 0 THEN {6} ELSE {})

\* The profile of a client.
Profiled ==
  Running =>
    /\ ExtensionsFit(profile.extensions)
    /\ custom = None /\ profile.extensions # None =>
         Acceptable(profile.extensions, profile.groups)
    /\ PrefaceFits
    /\ Http3Fits
    /\ http3Settings = profile.http3.settings
    /\ resumes => supportsSessionResumption(profile)

\* The anchors are drawn from the capture; there is none to draw from two zeros.
Anchoring ==
  /\ chrome152TrustAnchors \in
       BuildTrustAnchorsPayload(chrome152TrustAnchorsCapture)
  /\ anchors # None =>
       /\ Capture \in Seq(Byte)
       /\ anchors \in BuildTrustAnchorsPayload(Capture)
            \/ (anchors = Capture /\ Capture = <<0, 0>>)
  /\ custom # None =>
       /\ custom \in Definitions
       /\ client = "refused" <=> Payloads(custom) = {}

\* The places of the reserved values.
Greased(extensions) == {i \in DOMAIN extensions : extensions[i] = GREASE}

\* A hello with these values, and with a session or without.
HelloWith(extensions, values, presented) ==
  [i \in {j \in DOMAIN extensions : extensions[j] = PreSharedKey => presented} |->
     IF extensions[i] = GREASE THEN values[i] ELSE extensions[i]]

\* A connection whose hello is not sent has what the factory returned for it,
Built(c) ==
  /\ profile.extensions # None
  /\ spec[c] = SpecOf(c)
  /\ sent[c].anchors = anchors
  /\ sent[c].signature \in SignatureOf

\* and values of its own once they are drawn, which are in its objects.
Applied(c) ==
  /\ drawn[c] \in Injection(Greased(profile.extensions), ReservedExts)
  /\ \A i \in Greased(profile.extensions) :
       <<c, i>> \in DOMAIN object /\ object[<<c, i>>] = drawn[c][i]

\* It sends the extensions with those values.
Sent(c) ==
  IF profile.extensions = None THEN hello[c] = <<>> /\ drawn[c] = <<>>
  ELSE /\ drawn[c] \in Injection(Greased(profile.extensions), ReservedExts)
       /\ \E presented \in BOOLEAN :
            hello[c] = HelloWith(profile.extensions, drawn[c], presented)

SentPreface(c) ==
  /\ sent[c].settings = IF profile.http2.settings = None THEN DefaultSettings
                        ELSE profile.http2.settings
  /\ sent[c].order \in SettingsOrders

SentHttp3(c) ==
  \E settings \in {getHttp3Settings, http3Settings}, g \in ReservedSettings :
    sent[c] = Transport3(settings, g)

Connection(c) ==
  /\ pc[c] = "idle" => hello[c] = <<>> /\ drawn[c] = <<>>
  /\ pc[c] \in {"built", "applied"} => Built(c)
  /\ pc[c] = "applied" => Applied(c)
  /\ pc[c] = "sent" => Sent(c)
  /\ pc[c] = "h2" => SentPreface(c)
  /\ pc[c] = "h3" => SentHttp3(c)

IInv ==
  /\ Shape
  /\ Profiled
  /\ Anchoring
  /\ \A c \in Conns : Connection(c)

-----------------------------------------------------------------------------
(* The invariant holds *)

\* The invariant holds before there is a client.
LEMMA InitIInv == Init => IInv
<1> SUFFICES ASSUME Init PROVE IInv
  OBVIOUS
<1>1. Shape
  BY DEF Init, Shape, States
<1>2. Profiled
  BY DEF Init, Profiled, Running
<1>3. Anchoring
  BY DEF Init, Anchoring
<1>4. \A c \in Conns : Connection(c)
  BY DEF Init, Connection
<1> QED
  BY <1>1, <1>2, <1>3, <1>4 DEF IInv

\* What a new client has whatever its profile is.
LEMMA NewClientKeeps ==
  ASSUME IInv, NEW p, NEW payload, NEW disable, NewClient(p, payload, disable)
  PROVE  /\ Shape'
         /\ \A c \in Conns : Connection(c)'
         /\ http3Settings' = profile'.http3.settings
         /\ resumes' => supportsSessionResumption(profile')
<1>1. /\ client = "none" /\ client' = "ready" /\ profile' = p /\ anchors' = payload
      /\ resumes' = (~disable /\ supportsSessionResumption(p))
      /\ http3Settings' = p.http3.settings
      /\ session' = session
      /\ pc' = pc /\ spec' = spec /\ object' = object /\ hello' = hello
      /\ sent' = sent /\ drawn' = drawn
  BY DEF NewClient, connVars
<1>2. \A c \in Conns : pc[c] = "idle"
  BY <1>1 DEF IInv, Shape
<1>3. Shape'
  BY <1>1 DEF IInv, Shape
<1>4. ASSUME NEW c \in Conns PROVE Connection(c)'
  <2>1. pc'[c] = "idle" /\ hello'[c] = << >> /\ drawn'[c] = << >>
    BY <1>1, <1>2 DEF IInv, Connection
  <2> QED
    BY <2>1 DEF Connection
<1>5. resumes' => supportsSessionResumption(profile')
  BY <1>1
<1> QED
  BY <1>1, <1>3, <1>4, <1>5

\* What the steps of a connection leave as it is.
LEMMA ClientStays ==
  ASSUME IInv, Running,
         UNCHANGED <<chrome152TrustAnchors, custom, profile, anchors, resumes,
                     maxResponseHeaderBytes, http3Settings>>,
         client' = client \/ (client = "ready" /\ client' = "panicked")
  PROVE  Profiled' /\ Anchoring'
<1>1. Profiled'
  <2>1. /\ ExtensionsFit(profile.extensions)
        /\ custom = None /\ profile.extensions # None =>
             Acceptable(profile.extensions, profile.groups)
        /\ PrefaceFits
        /\ Http3Fits
        /\ http3Settings = profile.http3.settings
        /\ resumes => supportsSessionResumption(profile)
    BY DEF IInv, Profiled
  <2>2. PrefaceFits' /\ Http3Fits'
    BY <2>1 DEF PrefaceFits, Http3Fits
  <2> QED
    BY <2>1, <2>2 DEF Profiled
<1>2. Anchoring'
  <2>1. Anchoring
    BY DEF IInv
  <2>2. client' = "refused" <=> client = "refused"
    OBVIOUS
  <2>3. Capture' = Capture
    BY DEF Capture
  <2> QED
    BY <2>1, <2>2, <2>3 DEF Anchoring
<1> QED
  BY <1>1, <1>2

\* A client with a registered profile satisfies it,
LEMMA NewBuiltInIInv ==
  ASSUME IInv, NEW identifier, NEW disable, NewBuiltIn(identifier, disable)
  PROVE  IInv'
<1> DEFINE p == getTlsClientProfile(identifier)
<1>1. NewClient(p, BuiltInAnchors(p), disable) /\ custom' = custom
  BY DEF NewBuiltIn
<1>2. SoundProfile(p)
  BY ProfilesAssumption DEF getTlsClientProfile
<1> HIDE DEF p
<1>3. /\ Shape'
      /\ \A c \in Conns : Connection(c)'
      /\ http3Settings' = profile'.http3.settings
      /\ resumes' => supportsSessionResumption(profile')
  BY <1>1, NewClientKeeps
<1>4. /\ custom' = None /\ profile' = p /\ anchors' = BuiltInAnchors(p)
      /\ chrome152TrustAnchors' = chrome152TrustAnchors
  BY <1>1 DEF IInv, Shape, NewClient
<1>5. Profiled'
  <2>1. ExtensionsFit(p.extensions)
    BY <1>2 DEF SoundProfile, ExtensionsFit
  <2>2. p.extensions # None => Acceptable(p.extensions, p.groups)
    BY <1>2 DEF SoundProfile
  <2>3. PrefaceFits'
    BY <1>2, <1>4 DEF SoundProfile, PrefaceFits
  <2>4. Http3Fits'
    BY <1>2, <1>4 DEF SoundProfile, Http3Fits
  <2> QED
    BY <1>3, <1>4, <2>1, <2>2, <2>3, <2>4 DEF Profiled
<1>6. Anchoring'
  <2>1. /\ chrome152TrustAnchors \in
             BuildTrustAnchorsPayload(chrome152TrustAnchorsCapture)
        /\ chrome152TrustAnchorsCapture \in Seq(Byte)
    BY CaptureAssumption DEF IInv, Anchoring
  <2>2. chrome152TrustAnchorsCapture # None
    BY <2>1, BytesAreNotNone
  <2>3. p.anchors \in {None, chrome152TrustAnchorsCapture, <<0, 0>>}
    BY <1>2 DEF SoundProfile
  <2>4. Capture' = IF p.anchors = None THEN << >> ELSE p.anchors
    BY <1>4 DEF Capture
  <2>5. CASE p.anchors = None
    <3>1. anchors' = None
      BY <1>4, <2>2, <2>5 DEF BuiltInAnchors
    <3> QED
      BY <1>4, <2>1, <3>1 DEF Anchoring
  <2>6. CASE p.anchors = chrome152TrustAnchorsCapture
    <3>1. anchors' = chrome152TrustAnchors
      BY <1>4, <2>6 DEF BuiltInAnchors
    <3>2. Capture' = chrome152TrustAnchorsCapture
      BY <2>2, <2>4, <2>6
    <3> QED
      BY <1>4, <2>1, <3>1, <3>2 DEF Anchoring
  <2>7. CASE p.anchors = <<0, 0>> /\ p.anchors # chrome152TrustAnchorsCapture
    <3>1. anchors' = <<0, 0>>
      BY <1>4, <2>7 DEF BuiltInAnchors
    <3>2. <<0, 0>> \in Seq(Byte) /\ <<0, 0>> # None
      BY NoAnchors, BytesAreNotNone
    <3>3. Capture' = <<0, 0>>
      BY <2>4, <2>7, <3>2
    <3> QED
      BY <1>4, <2>1, <3>1, <3>2, <3>3 DEF Anchoring
  <2> QED
    BY <2>3, <2>5, <2>6, <2>7
<1> QED
  BY <1>3, <1>5, <1>6 DEF IInv

\* and one whose profile has no HTTP/2 settings.
LEMMA NewWithoutSettingsIInv ==
  ASSUME IInv, NewWithoutSettings
  PROVE  IInv'
<1>1. NewClient(Without, None, TRUE) /\ custom' = custom
  BY DEF NewWithoutSettings, Without
<1>2. SoundProfile(DefaultClientProfile)
  BY ProfilesAssumption
<1>3. /\ Shape'
      /\ \A c \in Conns : Connection(c)'
      /\ http3Settings' = profile'.http3.settings
      /\ resumes' => supportsSessionResumption(profile')
  BY <1>1, NewClientKeeps
<1>4. /\ custom' = None /\ profile' = Without /\ anchors' = None
      /\ chrome152TrustAnchors' = chrome152TrustAnchors
  BY <1>1 DEF IInv, Shape, NewClient
<1>5. Profiled'
  <2>1. ExtensionsFit(profile'.extensions)
    BY <1>2, <1>4, WithoutSettings DEF SoundProfile, ExtensionsFit
  <2>2. profile'.extensions # None => Acceptable(profile'.extensions, profile'.groups)
    BY <1>2, <1>4, WithoutSettings DEF SoundProfile
  <2>3. PrefaceFits'
    BY <1>2, <1>4, WithoutSettings DEF SoundProfile, PrefaceFits
  <2>4. Http3Fits'
    BY <1>2, <1>4, WithoutSettings DEF SoundProfile, Http3Fits
  <2> QED
    BY <1>3, <2>1, <2>2, <2>3, <2>4 DEF Profiled
<1>6. Anchoring'
  BY <1>4 DEF IInv, Anchoring
<1> QED
  BY <1>3, <1>5, <1>6 DEF IInv

\* A definition that can be given is a CustomTlsClient.
LEMMA DefinitionType ==
  ASSUME NEW def \in Definitions
  PROVE  /\ def \in CustomTlsClient /\ def # None
         /\ def.trustAnchorsPayload \in Seq(Byte) \cup {None}
BY FingerprintAssumption DEF CustomTlsClient

\* A client of a custom definition satisfies it, sound or not,
LEMMA NewCustomIInv ==
  ASSUME IInv, NEW def \in Definitions, NEW disable, NewCustom(def, disable)
  PROVE  IInv'
<1>1. PICK payload \in Payloads(def) :
         NewClient(CustomProfile(def, payload), payload, disable)
  BY DEF NewCustom
<1>2. custom' = def
  BY DEF NewCustom
<1> DEFINE p == CustomProfile(def, payload)
<1>3. /\ Shape'
      /\ \A c \in Conns : Connection(c)'
      /\ http3Settings' = profile'.http3.settings
      /\ resumes' => supportsSessionResumption(profile')
  BY <1>1, NewClientKeeps
<1>4. /\ profile' = p /\ anchors' = payload /\ client' = "ready"
      /\ chrome152TrustAnchors' = chrome152TrustAnchors
  BY <1>1 DEF NewClient
<1>5. /\ def \in CustomTlsClient
      /\ def.trustAnchorsPayload \in Seq(Byte) \cup {None}
  BY DefinitionType
<1>6. def # None
  BY DefinitionType
<1>7. Profiled'
  <2>1. ExtensionsFit(p.extensions)
    BY <1>5, CustomExtensions
  <2>2. OrderFits(def.h2SettingsOrder, def.h2Settings) =>
          OrderFits(p.http2.settingsOrder, p.http2.settings)
    BY <1>5, CustomPreface
  <2>3. p.http3.settingsOrder \in Seq(KnownSettings)
    BY <1>5, CustomHttp3
  <2> HIDE DEF p
  <2>4. PrefaceFits'
    BY <1>2, <1>4, <1>6, <2>2 DEF PrefaceFits
  <2>5. Http3Fits'
    BY <1>2, <1>4, <1>6, <2>3 DEF Http3Fits
  <2> QED
    BY <1>2, <1>3, <1>4, <1>6, <2>1, <2>4, <2>5 DEF Profiled
<1>8. Anchoring'
  <2>1. Capture' = def.trustAnchorsPayload
    BY <1>2, <1>6 DEF Capture
  <2>2. Payloads(def) # {} /\ client' # "refused"
    BY <1>1, <1>4
  <2>3. CASE def.trustAnchorsPayload = << >>
    <3>1. anchors' = None
      BY <1>1, <1>4, <2>3 DEF Payloads
    <3> QED
      BY <1>2, <1>4, <2>2, <3>1 DEF IInv, Anchoring
  <2>4. CASE def.trustAnchorsPayload # << >>
    <3>1. anchors' \in BuildTrustAnchorsPayload(def.trustAnchorsPayload)
      BY <1>1, <1>4, <2>4 DEF Payloads
    <3>2. def.trustAnchorsPayload # None
      BY <3>1 DEF BuildTrustAnchorsPayload, splitTrustAnchors
    <3> QED
      BY <1>2, <1>4, <1>5, <2>1, <2>2, <3>1, <3>2 DEF IInv, Anchoring
  <2> QED
    BY <2>3, <2>4
<1> QED
  BY <1>3, <1>7, <1>8 DEF IInv

\* and so does the refusal of one.
LEMMA NewCustomFailsIInv ==
  ASSUME IInv, NEW def \in Definitions, NEW disable, NewCustomFails(def, disable)
  PROVE  IInv'
<1>1. /\ client = "none" /\ custom' = def
      /\ \/ Payloads(def) = {} /\ client' = "refused"
         \/ Payloads(def) # {} /\ client' = "panicked"
      /\ UNCHANGED <<chrome152TrustAnchors, profile, anchors, resumes,
                     maxResponseHeaderBytes, session, http3Settings, connVars>>
  BY DEF NewCustomFails
<1>2. /\ UNCHANGED <<pc, spec, object, hello, sent, drawn>>
      /\ \A c \in Conns : pc[c] = "idle"
  BY <1>1 DEF connVars, IInv, Shape
<1>3. Shape'
  BY <1>1, <1>2 DEF IInv, Shape
<1>4. Profiled'
  BY <1>1, <1>2 DEF Profiled, Running
<1>5. anchors = None
  BY <1>1 DEF IInv, Shape
<1>6. Anchoring'
  BY <1>1, <1>5 DEF IInv, Anchoring
<1>7. ASSUME NEW c \in Conns PROVE Connection(c)'
  <2>1. pc'[c] = "idle" /\ hello'[c] = << >> /\ drawn'[c] = << >>
    BY <1>2 DEF IInv, Connection
  <2> QED
    BY <2>1 DEF Connection
<1> QED
  BY <1>3, <1>4, <1>6, <1>7 DEF IInv

\* The objects of connection d are kept.
ObjectsKept(d) ==
  \A i : <<d, i>> \in DOMAIN object =>
    <<d, i>> \in DOMAIN object' /\ object'[<<d, i>>] = object[<<d, i>>]

\* The steps of others do not touch a connection.
LEMMA ConnectionStays ==
  ASSUME NEW d \in Conns, Connection(d), ObjectsKept(d),
         UNCHANGED <<custom, profile, anchors, maxResponseHeaderBytes,
                     http3Settings>>,
         pc'[d] = pc[d], spec'[d] = spec[d], hello'[d] = hello[d],
         sent'[d] = sent[d], drawn'[d] = drawn[d]
  PROVE  Connection(d)'
<1>1. pc'[d] = "idle" => hello'[d] = << >> /\ drawn'[d] = << >>
  BY DEF Connection
<1>2. pc'[d] \in {"built", "applied"} => Built(d)'
  <2>1. SpecOf(d)' = SpecOf(d) /\ SignatureOf' = SignatureOf
    BY DEF SpecOf, SignatureOf
  <2> QED
    BY <2>1 DEF Connection, Built
<1>3. pc'[d] = "applied" => Applied(d)'
  BY DEF Connection, Applied, ObjectsKept
<1>4. pc'[d] = "sent" => Sent(d)'
  BY DEF Connection, Sent
<1>5. pc'[d] = "h2" => SentPreface(d)'
  <2>1. SettingsOrders' = SettingsOrders
    BY DEF SettingsOrders
  <2> QED
    BY <2>1 DEF Connection, SentPreface
<1>6. pc'[d] = "h3" => SentHttp3(d)'
  <2> SUFFICES ASSUME pc[d] = "h3" PROVE SentHttp3(d)'
    OBVIOUS
  <2>1. PICK settings \in {getHttp3Settings, http3Settings}, g \in ReservedSettings :
           sent[d] = Transport3(settings, g)
    BY DEF Connection, SentHttp3
  <2>2. sent'[d] = Transport3(settings, g)'
    <3>1. FieldSectionLimit' = FieldSectionLimit
      BY DEF FieldSectionLimit, profileDefaultMaxResponseHeaderBytes
    <3> QED
      BY <2>1, <3>1 DEF Transport3
  <2>3. getHttp3Settings' = getHttp3Settings /\ ReservedSettings' = ReservedSettings
    BY DEF getHttp3Settings, ReservedSettings
  <2>4. settings \in {getHttp3Settings', http3Settings'} /\ g \in ReservedSettings'
    BY <2>1, <2>3
  <2> QED
    BY <2>2, <2>4 DEF SentHttp3
<1> QED
  BY <1>1, <1>2, <1>3, <1>4, <1>5, <1>6 DEF Connection

\* The shape after connection c has gone on.
LEMMA ShapeStays ==
  ASSUME IInv, Running, NEW c \in Conns, NEW state \in States,
         pc' = [pc EXCEPT ![c] = state],
         DOMAIN spec' = Conns, DOMAIN hello' = Conns, DOMAIN sent' = Conns,
         DOMAIN drawn' = Conns, session' = session, resumes' = resumes,
         client' = client \/ (client = "ready" /\ client' = "panicked")
  PROVE  Shape'
<1>1. client \notin {"none", "refused"}
  BY DEF IInv, Shape, Running
<1>2. client' \notin {"none", "refused"}
  BY <1>1
<1>3. pc' \in [Conns -> States]
  BY DEF IInv, Shape
<1>4. session' => resumes'
  BY DEF IInv, Shape
<1> QED
  BY <1>2, <1>3, <1>4 DEF Shape

\* A step of connection c that keeps the objects of others.
LEMMA ConnectionStep ==
  ASSUME IInv, Running, NEW c \in Conns, NEW state \in States,
         pc' = [pc EXCEPT ![c] = state],
         UNCHANGED <<chrome152TrustAnchors, custom, profile, anchors, resumes,
                     session, maxResponseHeaderBytes, http3Settings>>,
         client' = client \/ (client = "ready" /\ client' = "panicked"),
         DOMAIN spec' = Conns, DOMAIN hello' = Conns, DOMAIN sent' = Conns,
         DOMAIN drawn' = Conns,
         \A d \in Conns \ {c} :
           /\ spec'[d] = spec[d] /\ hello'[d] = hello[d] /\ sent'[d] = sent[d]
           /\ drawn'[d] = drawn[d] /\ ObjectsKept(d),
         Connection(c)'
  PROVE  IInv'
<1>1. Profiled' /\ Anchoring'
  BY ClientStays
<1>2. Shape'
  BY ShapeStays
<1>3. ASSUME NEW d \in Conns PROVE Connection(d)'
  <2>1. CASE d = c
    BY <2>1
  <2>2. CASE d # c
    <3>1. pc'[d] = pc[d]
      BY <2>2 DEF IInv, Shape
    <3>2. /\ spec'[d] = spec[d] /\ hello'[d] = hello[d] /\ sent'[d] = sent[d]
          /\ drawn'[d] = drawn[d] /\ ObjectsKept(d)
      BY <2>2
    <3>3. Connection(d)
      BY DEF IInv
    <3> QED
      BY <3>1, <3>2, <3>3, ConnectionStays
  <2> QED
    BY <2>1, <2>2
<1> QED
  BY <1>1, <1>2, <1>3 DEF IInv

\* A dial gives its connection extension objects of its own.
LEMMA DialIInv ==
  ASSUME IInv, NEW c \in Conns, Dial(c)
  PROVE  IInv'
<1>1. /\ client = "ready" /\ pc[c] = "idle" /\ profile.extensions # None
      /\ pc' = [pc EXCEPT ![c] = "built"]
      /\ spec' = [spec EXCEPT ![c] = SpecOf(c)]
      /\ UNCHANGED <<chrome152TrustAnchors, custom, profile, anchors, resumes,
                     client, maxResponseHeaderBytes, session, http3Settings,
                     object, hello, drawn>>
  BY DEF Dial, clientVars
<1>2. PICK a \in AnchorsOf, s \in SignatureOf :
         sent' = [sent EXCEPT ![c] = [anchors |-> a, signature |-> s]]
  BY DEF Dial
<1>3. /\ DOMAIN pc = Conns /\ DOMAIN spec = Conns /\ DOMAIN hello = Conns
      /\ DOMAIN sent = Conns /\ DOMAIN drawn = Conns
  BY DEF IInv, Shape
<1>4. Connection(c)'
  <2>1. pc'[c] = "built" /\ spec'[c] = SpecOf(c)
    BY <1>1, <1>3
  <2>2. sent'[c] = [anchors |-> a, signature |-> s]
    BY <1>2, <1>3
  <2>3. sent'[c].anchors = anchors' /\ sent'[c].signature \in SignatureOf
    BY <1>1, <1>2, <2>2 DEF AnchorsOf
  <2>4. SpecOf(c)' = SpecOf(c) /\ SignatureOf' = SignatureOf
    BY <1>1 DEF SpecOf, SignatureOf
  <2>5. Built(c)'
    BY <1>1, <2>1, <2>3, <2>4 DEF Built
  <2> QED
    BY <2>1, <2>5 DEF Connection
<1>5. ASSUME NEW d \in Conns \ {c}
      PROVE  /\ spec'[d] = spec[d] /\ hello'[d] = hello[d] /\ sent'[d] = sent[d]
             /\ drawn'[d] = drawn[d] /\ ObjectsKept(d)
  BY <1>1, <1>2, <1>3 DEF ObjectsKept
<1>6. DOMAIN spec' = Conns /\ DOMAIN hello' = Conns /\ DOMAIN sent' = Conns
      /\ DOMAIN drawn' = Conns
  BY <1>1, <1>2, <1>3
<1>7. Running /\ "built" \in States
  BY <1>1 DEF Running, States
<1> QED
  BY <1>1, <1>4, <1>5, <1>6, <1>7, ConnectionStep

\* A factory that fails leaves no connection behind.
LEMMA DialFailsIInv ==
  ASSUME IInv, NEW c \in Conns, DialFails(c)
  PROVE  IInv'
<1>1. /\ client = "ready" /\ pc' = [pc EXCEPT ![c] = "failed"]
      /\ client' = client \/ (client = "ready" /\ client' = "panicked")
      /\ UNCHANGED <<chrome152TrustAnchors, custom, profile, anchors, resumes,
                     session, maxResponseHeaderBytes, http3Settings, spec,
                     object, hello, sent, drawn>>
  BY DEF DialFails
<1>2. /\ DOMAIN pc = Conns /\ DOMAIN spec = Conns /\ DOMAIN hello = Conns
      /\ DOMAIN sent = Conns /\ DOMAIN drawn = Conns
  BY DEF IInv, Shape
<1>3. Connection(c)'
  <2>1. pc'[c] = "failed"
    BY <1>1, <1>2
  <2> QED
    BY <2>1 DEF Connection
<1>4. \A d \in Conns : ObjectsKept(d)
  BY <1>1 DEF ObjectsKept
<1>5. Running /\ "failed" \in States
  BY <1>1 DEF Running, States
<1> QED
  BY <1>1, <1>2, <1>3, <1>4, <1>5, ConnectionStep

\* A hello built into utls has no factory to share objects through.
LEMMA UtlsHelloIInv ==
  ASSUME IInv, NEW c \in Conns, UtlsHello(c)
  PROVE  IInv'
<1>1. /\ client = "ready" /\ pc[c] = "idle" /\ profile.extensions = None
      /\ pc' = [pc EXCEPT ![c] = "sent"]
      /\ UNCHANGED <<chrome152TrustAnchors, custom, profile, anchors, resumes,
                     client, maxResponseHeaderBytes, session, http3Settings,
                     spec, object, hello, sent, drawn>>
  BY DEF UtlsHello, clientVars
<1>2. /\ DOMAIN pc = Conns /\ DOMAIN spec = Conns /\ DOMAIN hello = Conns
      /\ DOMAIN sent = Conns /\ DOMAIN drawn = Conns
  BY DEF IInv, Shape
<1>3. Connection(c)'
  <2>1. pc'[c] = "sent"
    BY <1>1, <1>2
  <2>2. hello[c] = << >> /\ drawn[c] = << >>
    BY <1>1 DEF IInv, Connection
  <2>3. Sent(c)'
    BY <1>1, <2>2 DEF Sent
  <2> QED
    BY <2>1, <2>3 DEF Connection
<1>4. \A d \in Conns : ObjectsKept(d)
  BY <1>1 DEF ObjectsKept
<1>5. Running /\ "sent" \in States
  BY <1>1 DEF Running, States
<1> QED
  BY <1>1, <1>2, <1>3, <1>4, <1>5, ConnectionStep

\* What a factory returned has the extensions of the profile, place by place.
LEMMA SpecIs ==
  ASSUME NEW c, spec[c] = SpecOf(c)
  PROVE  /\ DOMAIN spec[c] = DOMAIN profile.extensions
         /\ \A i \in DOMAIN profile.extensions :
              /\ spec[c][i].ext = profile.extensions[i]
              /\ spec[c][i].object = <<c, i>>
         /\ GreasePositions(spec[c]) = Greased(profile.extensions)
<1>1. DOMAIN spec[c] = DOMAIN profile.extensions
  BY DEF SpecOf
<1>2. \A i \in DOMAIN profile.extensions :
        spec[c][i] = [ext |-> profile.extensions[i], object |-> <<c, i>>]
  BY DEF SpecOf
<1>3. \A i \in DOMAIN profile.extensions :
        spec[c][i].ext = profile.extensions[i] /\ spec[c][i].object = <<c, i>>
  <2> TAKE i \in DOMAIN profile.extensions
  <2>1. spec[c][i] = [ext |-> profile.extensions[i], object |-> <<c, i>>]
    BY <1>2
  <2> QED
    BY <2>1
<1>4. GreasePositions(spec[c]) = Greased(profile.extensions)
  BY <1>1, <1>3 DEF GreasePositions, Greased
<1> QED
  BY <1>1, <1>3, <1>4

\* The values go to objects of c.
Owned(c, s, values) ==
  /\ DOMAIN values \subseteq Nat
  /\ \A i \in DOMAIN values : s[i].object = <<c, i>>

\* What is drawn for c is written into its objects and into no others.
LEMMA WrittenIs ==
  ASSUME NEW c, NEW s, NEW values, Owned(c, s, values)
  PROVE  /\ \A i \in DOMAIN values : Written(s, values, <<c, i>>) = values[i]
         /\ \A d, i : d # c => Written(s, values, <<d, i>>) = object[<<d, i>>]
<1> USE DEF Owned
<1>1. ASSUME NEW i \in DOMAIN values
      PROVE  Written(s, values, <<c, i>>) = values[i]
  <2> DEFINE at == {k \in DOMAIN values : s[k].object = <<c, i>>}
  <2>1. at = {i}
    OBVIOUS
  <2>2. Written(s, values, <<c, i>>) =
          IF at = {} THEN object[<<c, i>>]
          ELSE values[CHOOSE k \in at : \A j \in at : j <= k]
    BY DEF Written
  <2> HIDE DEF at
  <2>3. (CHOOSE k \in at : \A j \in at : j <= k) = i
    <3>1. i \in Nat /\ i <= i
      OBVIOUS
    <3>2. \E k \in at : \A j \in at : j <= k
      BY <2>1, <3>1
    <3> QED
      BY <2>1, <3>2
  <2> QED
    BY <2>1, <2>2, <2>3
<1>2. ASSUME NEW d, NEW i, d # c
      PROVE  Written(s, values, <<d, i>>) = object[<<d, i>>]
  <2>1. {k \in DOMAIN values : s[k].object = <<d, i>>} = {}
    BY <1>2
  <2> QED
    BY <2>1 DEF Written
<1> QED
  BY <1>1, <1>2

\* utls writes what it draws into objects of this connection alone.
LEMMA ApplyPresetIInv ==
  ASSUME IInv, NEW c \in Conns, ApplyPreset(c)
  PROVE  IInv'
<1> DEFINE at == GreasePositions(spec[c])
<1>1. /\ pc[c] = "built"
      /\ UNCHANGED <<chrome152TrustAnchors, custom, profile, anchors, resumes,
                     client, maxResponseHeaderBytes, session, http3Settings,
                     spec, hello, sent>>
  BY DEF ApplyPreset, clientVars
<1>2. /\ DOMAIN pc = Conns /\ DOMAIN spec = Conns /\ DOMAIN hello = Conns
      /\ DOMAIN sent = Conns /\ DOMAIN drawn = Conns
  BY DEF IInv, Shape
<1>3. Running /\ "failed" \in States /\ "applied" \in States
  BY <1>1 DEF Running, States
<1>4. Built(c)
  BY <1>1 DEF IInv, Connection
<1>5. CASE pc' = [pc EXCEPT ![c] = "failed"] /\ UNCHANGED <<object, drawn>>
  <2>1. pc'[c] = "failed"
    BY <1>2, <1>5
  <2>2. Connection(c)'
    BY <2>1 DEF Connection
  <2>3. \A d \in Conns : ObjectsKept(d)
    BY <1>5 DEF ObjectsKept
  <2> QED
    BY <1>1, <1>2, <1>3, <1>5, <2>2, <2>3, ConnectionStep
<1>6. ASSUME pc' = [pc EXCEPT ![c] = "applied"],
             NEW v \in Injection(at, ReservedExts),
             drawn' = [drawn EXCEPT ![c] = v],
             object' = [o \in DOMAIN object \cup {spec[c][i].object : i \in at} |->
                          Written(spec[c], v, o)]
      PROVE  IInv'
  <2>1. profile.extensions # None /\ spec[c] = SpecOf(c)
    BY <1>4 DEF Built
  <2>2. /\ \A i \in DOMAIN profile.extensions : spec[c][i].object = <<c, i>>
        /\ at = Greased(profile.extensions)
    BY <2>1, SpecIs
  <2>3. DOMAIN profile.extensions \subseteq Nat
    <3>1. profile.extensions \in Seq(Nat)
      BY <1>3, <2>1 DEF IInv, Profiled, ExtensionsFit
    <3> QED
      BY <3>1
  <2>4. DOMAIN v = at /\ at \subseteq DOMAIN profile.extensions
    BY <2>2 DEF Injection, Greased
  <2> HIDE DEF at
  <2>5. /\ \A i \in at : Written(spec[c], v, <<c, i>>) = v[i]
        /\ \A d, i : d # c => Written(spec[c], v, <<d, i>>) = object[<<d, i>>]
    <3>1. Owned(c, spec[c], v)
      BY <2>2, <2>3, <2>4 DEF Owned
    <3> QED
      BY <2>4, <3>1, WrittenIs
  <2>6. ASSUME NEW d \in Conns \ {c} PROVE ObjectsKept(d)
    BY <1>6, <2>5 DEF ObjectsKept
  <2>7. pc'[c] = "applied" /\ drawn'[c] = v
    BY <1>2, <1>6
  <2>8. \A i \in at : <<c, i>> \in DOMAIN object' /\ object'[<<c, i>>] = v[i]
    BY <1>6, <2>2, <2>4, <2>5
  <2>9. Applied(c)'
    BY <1>1, <1>6, <2>2, <2>7, <2>8 DEF Applied
  <2>10. Built(c)'
    <3>1. SpecOf(c)' = SpecOf(c) /\ SignatureOf' = SignatureOf
      BY <1>1 DEF SpecOf, SignatureOf
    <3> QED
      BY <1>1, <1>4, <3>1 DEF Built
  <2>11. Connection(c)'
    BY <2>7, <2>9, <2>10 DEF Connection
  <2>12. DOMAIN drawn' = Conns /\ \A d \in Conns \ {c} : drawn'[d] = drawn[d]
    BY <1>2, <1>6
  <2> QED
    BY <1>1, <1>2, <1>3, <1>6, <2>6, <2>11, <2>12, ConnectionStep
<1> QED
  BY <1>5, <1>6 DEF ApplyPreset

\* The hello that is sent, with a session if there is one.
LEMMA SendHelloIs ==
  ASSUME IInv, NEW c \in Conns, SendHello(c)
  PROVE  /\ profile.extensions # None
         /\ drawn[c] \in Injection(Greased(profile.extensions), ReservedExts)
         /\ hello'[c] = HelloWith(profile.extensions, drawn[c], resumes /\ session)
<1> DEFINE s == spec[c]
           e == profile.extensions
           out == {i \in DOMAIN s : s[i].ext = PreSharedKey => resumes /\ session}
           in == {i \in DOMAIN e : e[i] = PreSharedKey => (resumes /\ session)}
<1>1. pc[c] = "applied"
  BY DEF SendHello
<1>2. Built(c) /\ Applied(c)
  BY <1>1 DEF IInv, Connection
<1>3. /\ e # None
      /\ drawn[c] \in Injection(Greased(e), ReservedExts)
      /\ \A i \in Greased(e) : object[<<c, i>>] = drawn[c][i]
  BY <1>2 DEF Built, Applied
<1>4. /\ DOMAIN s = DOMAIN e
      /\ \A i \in DOMAIN e : s[i].ext = e[i] /\ s[i].object = <<c, i>>
  BY <1>2, SpecIs DEF Built
<1>5. hello'[c] = [i \in out |-> IF s[i].ext = GREASE THEN object[s[i].object]
                                 ELSE s[i].ext]
  BY DEF SendHello, IInv, Shape
<1>6. out = in
  BY <1>4
<1> HIDE DEF s, e
<1>7. \A i \in in : (IF s[i].ext = GREASE THEN object[s[i].object] ELSE s[i].ext)
                      = (IF e[i] = GREASE THEN drawn[c][i] ELSE e[i])
  BY <1>3, <1>4 DEF Greased
<1> HIDE DEF in, out
<1>8. hello'[c] = [i \in in |-> IF e[i] = GREASE THEN drawn[c][i] ELSE e[i]]
  BY <1>5, <1>6, <1>7
<1> QED
  BY <1>3, <1>8 DEF HelloWith, in, e

\* A hello is made of the objects of its connection.
LEMMA SendHelloIInv ==
  ASSUME IInv, NEW c \in Conns, SendHello(c)
  PROVE  IInv'
<1>1. /\ pc[c] = "applied" /\ pc' = [pc EXCEPT ![c] = "sent"]
      /\ UNCHANGED <<chrome152TrustAnchors, custom, profile, anchors, resumes,
                     client, maxResponseHeaderBytes, session, http3Settings,
                     spec, object, sent, drawn>>
      /\ DOMAIN hello' = DOMAIN hello
      /\ \A d \in Conns \ {c} : hello'[d] = hello[d]
  BY DEF SendHello, clientVars, IInv, Shape
<1>2. /\ DOMAIN pc = Conns /\ DOMAIN spec = Conns /\ DOMAIN hello = Conns
      /\ DOMAIN sent = Conns /\ DOMAIN drawn = Conns
  BY DEF IInv, Shape
<1>3. Connection(c)'
  <2>1. pc'[c] = "sent"
    BY <1>1, <1>2
  <2>2. /\ profile.extensions # None
        /\ drawn[c] \in Injection(Greased(profile.extensions), ReservedExts)
        /\ hello'[c] = HelloWith(profile.extensions, drawn[c], resumes /\ session)
    BY SendHelloIs
  <2>3. (resumes /\ session) \in BOOLEAN
    OBVIOUS
  <2>4. \E presented \in BOOLEAN :
          hello'[c] = HelloWith(profile.extensions, drawn[c], presented)
    BY <2>2, <2>3
  <2>5. Sent(c)'
    BY <1>1, <2>2, <2>4 DEF Sent
  <2> QED
    BY <2>1, <2>5 DEF Connection
<1>4. \A d \in Conns : ObjectsKept(d)
  BY <1>1 DEF ObjectsKept
<1>5. Running /\ "sent" \in States
  BY <1>1 DEF Running, States
<1> QED
  BY <1>1, <1>2, <1>3, <1>4, <1>5, ConnectionStep

\* A ticket is kept only by a client with a session cache.
LEMMA TicketArrivesIInv ==
  ASSUME IInv, NEW c \in Conns, TicketArrives(c)
  PROVE  IInv'
<1>1. /\ pc[c] = "sent" /\ resumes /\ session' = TRUE
      /\ UNCHANGED <<chrome152TrustAnchors, custom, profile, anchors, resumes,
                     client, maxResponseHeaderBytes, http3Settings, pc, spec,
                     object, hello, sent, drawn>>
  BY DEF TicketArrives, clientVars, connVars
<1>2. Running
  BY <1>1 DEF Running
<1>3. Profiled' /\ Anchoring'
  BY <1>1, <1>2, ClientStays
<1>4. Shape'
  BY <1>1 DEF IInv, Shape
<1>5. ASSUME NEW d \in Conns PROVE Connection(d)'
  <2>1. Connection(d) /\ ObjectsKept(d)
    BY <1>1 DEF IInv, ObjectsKept
  <2> QED
    BY <1>1, <2>1, ConnectionStays
<1> QED
  BY <1>3, <1>4, <1>5 DEF IInv

\* An HTTP/2 transport takes the settings of the profile.
LEMMA Http2TransportIInv ==
  ASSUME IInv, NEW c \in Conns, Http2Transport(c)
  PROVE  IInv'
<1>1. /\ pc[c] = "sent" /\ pc' = [pc EXCEPT ![c] = "h2"]
      /\ UNCHANGED <<chrome152TrustAnchors, custom, profile, anchors, resumes,
                     client, maxResponseHeaderBytes, session, http3Settings,
                     spec, object, hello, drawn>>
  BY DEF Http2Transport, clientVars
<1> DEFINE settings == IF profile.http2.settings = None THEN DefaultSettings
                       ELSE profile.http2.settings
<1>2. PICK order \in SettingsOrders :
         sent' = [sent EXCEPT ![c] = [settings |-> settings, order |-> order]]
  BY DEF Http2Transport
<1>3. /\ DOMAIN pc = Conns /\ DOMAIN spec = Conns /\ DOMAIN hello = Conns
      /\ DOMAIN sent = Conns /\ DOMAIN drawn = Conns
  BY DEF IInv, Shape
<1>4. Connection(c)'
  <2>1. pc'[c] = "h2"
    BY <1>1, <1>3
  <2>2. sent'[c] = [settings |-> settings, order |-> order]
    BY <1>2, <1>3
  <2>3. SettingsOrders' = SettingsOrders
    BY <1>1 DEF SettingsOrders
  <2>4. sent'[c].settings = settings /\ sent'[c].order \in SettingsOrders'
    BY <1>2, <2>2, <2>3
  <2>5. SentPreface(c)'
    BY <1>1, <2>4 DEF SentPreface
  <2> QED
    BY <2>1, <2>5 DEF Connection
<1>5. \A d \in Conns : ObjectsKept(d)
  BY <1>1 DEF ObjectsKept
<1>6. Running /\ "h2" \in States
  BY <1>1 DEF Running, States
<1>7. DOMAIN sent' = Conns /\ \A d \in Conns \ {c} : sent'[d] = sent[d]
  BY <1>2, <1>3
<1> QED
  BY <1>1, <1>3, <1>4, <1>5, <1>6, <1>7, ConnectionStep

\* An HTTP/3 transport takes those of the profile and adds one reserved setting.
LEMMA Http3TransportIInv ==
  ASSUME IInv, NEW c \in Conns, Http3Transport(c)
  PROVE  IInv'
<1>1. /\ client = "ready" /\ pc[c] = "idle"
      /\ UNCHANGED <<chrome152TrustAnchors, custom, profile, anchors, resumes,
                     client, maxResponseHeaderBytes, session, http3Settings,
                     spec, object, hello, drawn>>
  BY DEF Http3Transport, buildHTTP3Transport, clientVars
<1>2. \/ pc' = [pc EXCEPT ![c] = "failed"] /\ sent' = sent
      \/ /\ pc' = [pc EXCEPT ![c] = "h3"]
         /\ \E settings \in {getHttp3Settings, http3Settings},
               g \in ReservedSettings :
              sent' = [sent EXCEPT ![c] = Transport3(settings, g)]
  BY DEF Http3Transport, buildHTTP3Transport
<1>3. /\ DOMAIN pc = Conns /\ DOMAIN spec = Conns /\ DOMAIN hello = Conns
      /\ DOMAIN sent = Conns /\ DOMAIN drawn = Conns
  BY DEF IInv, Shape
<1>4. \A d \in Conns : ObjectsKept(d)
  BY <1>1 DEF ObjectsKept
<1>5. Running /\ "h3" \in States /\ "failed" \in States
  BY <1>1 DEF Running, States
<1>6. CASE pc' = [pc EXCEPT ![c] = "failed"] /\ sent' = sent
  <2>1. pc'[c] = "failed"
    BY <1>3, <1>6
  <2>2. Connection(c)'
    BY <2>1 DEF Connection
  <2> QED
    BY <1>1, <1>3, <1>4, <1>5, <1>6, <2>2, ConnectionStep
<1>7. ASSUME pc' = [pc EXCEPT ![c] = "h3"],
             NEW settings \in {getHttp3Settings, http3Settings},
             NEW g \in ReservedSettings,
             sent' = [sent EXCEPT ![c] = Transport3(settings, g)]
      PROVE  IInv'
  <2>1. pc'[c] = "h3"
    BY <1>3, <1>7
  <2>2. sent'[c] = Transport3(settings, g)
    BY <1>3, <1>7
  <2>3. sent'[c] = Transport3(settings, g)'
    <3>1. FieldSectionLimit' = FieldSectionLimit
      BY <1>1 DEF FieldSectionLimit, profileDefaultMaxResponseHeaderBytes
    <3> QED
      BY <1>1, <2>2, <3>1 DEF Transport3
  <2>4. getHttp3Settings' = getHttp3Settings /\ ReservedSettings' = ReservedSettings
    BY <1>1 DEF getHttp3Settings, ReservedSettings
  <2>5. settings \in {getHttp3Settings', http3Settings'} /\ g \in ReservedSettings'
    BY <1>1, <1>7, <2>4
  <2>6. SentHttp3(c)'
    BY <2>3, <2>5 DEF SentHttp3
  <2>7. Connection(c)'
    BY <2>1, <2>6 DEF Connection
  <2>8. DOMAIN sent' = Conns /\ \A d \in Conns \ {c} : sent'[d] = sent[d]
    BY <1>3, <1>7
  <2> QED
    BY <1>1, <1>3, <1>4, <1>5, <1>7, <2>7, <2>8, ConnectionStep
<1> QED
  BY <1>2, <1>6, <1>7

\* A step that changes nothing preserves it.
LEMMA StutterIInv ==
  ASSUME IInv, UNCHANGED vars
  PROVE  IInv'
<1>1. UNCHANGED <<chrome152TrustAnchors, custom, profile, anchors, resumes,
                  client, maxResponseHeaderBytes, session, http3Settings, pc,
                  spec, object, hello, sent, drawn>>
  BY DEF vars, clientVars, connVars
<1>2. Running' <=> Running
  BY <1>1 DEF Running
<1>3. Shape'
  BY <1>1 DEF IInv, Shape
<1>4. Profiled'
  BY <1>1, <1>2 DEF IInv, Profiled, PrefaceFits, Http3Fits
<1>5. Anchoring'
  BY <1>1 DEF IInv, Anchoring, Capture
<1>6. ASSUME NEW d \in Conns PROVE Connection(d)'
  <2>1. Connection(d) /\ ObjectsKept(d)
    BY <1>1 DEF IInv, ObjectsKept
  <2> QED
    BY <1>1, <2>1, ConnectionStays
<1> QED
  BY <1>3, <1>4, <1>5, <1>6 DEF IInv

\* Every step preserves the invariant.
LEMMA NextIInv == IInv /\ [Next]_vars => IInv'
<1> SUFFICES ASSUME IInv, [Next]_vars PROVE IInv'
  OBVIOUS
<1>1. CASE \E identifier \in Identifiers, disable \in BOOLEAN :
             NewBuiltIn(identifier, disable)
  BY <1>1, NewBuiltInIInv
<1>2. CASE NewWithoutSettings
  BY <1>2, NewWithoutSettingsIInv
<1>3. CASE \E def \in Definitions, disable \in BOOLEAN :
             NewCustom(def, disable) \/ NewCustomFails(def, disable)
  BY <1>3, NewCustomIInv, NewCustomFailsIInv
<1>4. ASSUME NEW c \in Conns,
             \/ Dial(c) \/ DialFails(c) \/ UtlsHello(c) \/ ApplyPreset(c)
             \/ SendHello(c) \/ TicketArrives(c)
             \/ Http2Transport(c) \/ Http3Transport(c)
      PROVE  IInv'
  BY <1>4, DialIInv, DialFailsIInv, UtlsHelloIInv, ApplyPresetIInv, SendHelloIInv,
     TicketArrivesIInv, Http2TransportIInv, Http3TransportIInv
<1>5. CASE UNCHANGED vars
  BY <1>5, StutterIInv
<1> QED
  BY <1>1, <1>2, <1>3, <1>4, <1>5 DEF Next

\* The invariant holds: whatever connections do, each has what the factory
\* returned and utls drew for it, and the profile stays what the client was made
\* with (the SpecFactory of a profile, and those of ja3.go).
THEOREM Invariance == Spec => []IInv
<1>1. Init => IInv
  BY InitIInv
<1>2. IInv /\ [Next]_vars => IInv'
  BY NextIInv
<1> QED
  BY <1>1, <1>2, PTL DEF Spec

-----------------------------------------------------------------------------
(* What the invariant says of hellos *)

\* Each place of a hello has the extension of the profile, or a value drawn for
\* the place.
Placed(e, v, presented, h) ==
  /\ DOMAIN h = {j \in DOMAIN e : e[j] = PreSharedKey => presented}
  /\ Greased(e) \subseteq DOMAIN h
  /\ DOMAIN v = Greased(e)
  /\ \A i \in Greased(e) : h[i] = v[i] /\ v[i] \in ReservedExts
  /\ \A i \in DOMAIN h \ Greased(e) : h[i] = e[i]
  /\ \A i, j \in Greased(e) : v[i] = v[j] => i = j

\* Each extension of a hello comes from one place of the spec, in its order.
LEMMA HelloPlaces ==
  ASSUME NEW e \in Seq(Nat), NEW v \in Injection(Greased(e), ReservedExts),
         NEW presented \in BOOLEAN
  PROVE  Placed(e, v, presented, HelloWith(e, v, presented))
<1> DEFINE h == HelloWith(e, v, presented)
<1>1. DOMAIN h = {j \in DOMAIN e : e[j] = PreSharedKey => presented}
  BY DEF HelloWith
<1>2. \A i \in DOMAIN h : h[i] = IF e[i] = GREASE THEN v[i] ELSE e[i]
  BY DEF HelloWith
<1> HIDE DEF h
<1>3. GREASE # PreSharedKey
  BY DEF GREASE, PreSharedKey
<1>4. Greased(e) \subseteq DOMAIN h
  BY <1>1, <1>3 DEF Greased
<1>5. \A i \in DOMAIN h \ Greased(e) : h[i] = e[i]
  BY <1>1, <1>2 DEF Greased
<1>6. /\ DOMAIN v = Greased(e)
      /\ \A i \in Greased(e) : v[i] \in ReservedExts
      /\ \A i, j \in Greased(e) : v[i] = v[j] => i = j
  BY DEF Injection, IsInjective
<1>7. \A i \in Greased(e) : h[i] = v[i]
  BY <1>2, <1>4 DEF Greased
<1> QED
  BY <1>1, <1>4, <1>5, <1>6, <1>7 DEF h, Placed

\* A connection has begun, so there is a profile.
LEMMA BegunIsRunning ==
  ASSUME IInv, NEW c \in Conns, pc[c] # "idle"
  PROVE  /\ ExtensionsFit(profile.extensions)
         /\ custom = None /\ profile.extensions # None =>
              Acceptable(profile.extensions, profile.groups)
         /\ PrefaceFits
         /\ Http3Fits
         /\ http3Settings = profile.http3.settings
         /\ resumes => supportsSessionResumption(profile)
<1>1. Running
  BY DEF Running
<1> QED
  BY <1>1 DEF IInv, Profiled

\* The reserved values of a hello are those that were drawn.
LEMMA HelloReserved ==
  ASSUME NEW e \in Seq(Nat), Elements(e) \cap ReservedValues \subseteq {GREASE},
         NEW v \in Injection(Greased(e), ReservedExts), NEW presented \in BOOLEAN
  PROVE  Elements(HelloWith(e, v, presented)) \cap ReservedExts = Elements(v)
<1> DEFINE h == HelloWith(e, v, presented)
<1>0. Placed(e, v, presented, h)
  BY HelloPlaces
<1> HIDE DEF h
<1>1. /\ DOMAIN h = {j \in DOMAIN e : e[j] = PreSharedKey => presented}
      /\ Greased(e) \subseteq DOMAIN h
      /\ DOMAIN v = Greased(e)
      /\ \A i \in Greased(e) : h[i] = v[i] /\ v[i] \in ReservedExts
      /\ \A i \in DOMAIN h \ Greased(e) : h[i] = e[i]
  BY <1>0 DEF Placed
<1>2. ReservedExts \subseteq ReservedValues
  BY FingerprintAssumption
<1>3. ASSUME NEW i \in DOMAIN h \ Greased(e)
      PROVE  h[i] \notin ReservedExts
  <2>1. i \in DOMAIN e /\ h[i] = e[i]
    BY <1>1
  <2>2. e[i] # GREASE /\ e[i] \in Elements(e)
    BY <2>1 DEF Greased, Elements
  <2> QED
    BY <1>2, <2>1, <2>2
<1>4. ASSUME NEW x \in Elements(h), x \in ReservedExts
      PROVE  x \in Elements(v)
  <2>1. PICK i \in DOMAIN h : x = h[i]
    BY DEF Elements
  <2>2. i \in Greased(e)
    BY <1>3, <1>4, <2>1
  <2> QED
    BY <1>1, <2>1, <2>2 DEF Elements
<1>5. ASSUME NEW x \in Elements(v)
      PROVE  x \in Elements(h) /\ x \in ReservedExts
  <2>1. PICK i \in Greased(e) : x = v[i]
    BY <1>1 DEF Elements
  <2>2. i \in DOMAIN h /\ h[i] = x /\ x \in ReservedExts
    BY <1>1, <2>1
  <2> QED
    BY <2>2 DEF Elements
<1> QED
  BY <1>4, <1>5 DEF h

\* Ownership of objects gives every hello its own reserved values.
LEMMA IInvDrawnForIt == IInv => DrawnForIt
<1> SUFFICES ASSUME IInv, NEW c \in Conns
             PROVE  /\ pc[c] = "sent" =>
                         Elements(hello[c]) \cap ReservedExts = Elements(drawn[c])
                    /\ pc[c] = "built" /\ profile.greaseSignature =>
                         sent[c].signature \in ReservedValues
  BY DEF DrawnForIt
<1>1. ASSUME pc[c] = "sent"
      PROVE  Elements(hello[c]) \cap ReservedExts = Elements(drawn[c])
  <2>1. Sent(c) /\ ExtensionsFit(profile.extensions)
    BY <1>1, BegunIsRunning DEF IInv, Connection
  <2>2. CASE profile.extensions = None
    BY <2>1, <2>2 DEF Sent, Elements
  <2>3. CASE profile.extensions # None
    <3>1. PICK presented \in BOOLEAN :
             hello[c] = HelloWith(profile.extensions, drawn[c], presented)
      BY <2>1, <2>3 DEF Sent
    <3>2. /\ drawn[c] \in Injection(Greased(profile.extensions), ReservedExts)
          /\ profile.extensions \in Seq(Nat)
          /\ Elements(profile.extensions) \cap ReservedValues \subseteq {GREASE}
      BY <2>1, <2>3 DEF Sent, ExtensionsFit
    <3> QED
      BY <3>1, <3>2, HelloReserved
  <2> QED
    BY <2>2, <2>3
<1>2. ASSUME pc[c] = "built", profile.greaseSignature
      PROVE  sent[c].signature \in ReservedValues
  <2>1. sent[c].signature \in SignatureOf
    BY <1>2 DEF IInv, Connection, Built
  <2>2. CASE custom = None
    <3>1. PICK s \in Seeds : sent[c].signature = randomGREASESignatureScheme(s)
      BY <1>2, <2>1, <2>2 DEF SignatureOf
    <3>2. s \in Nat
      BY FingerprintAssumption
    <3> QED
      BY <3>1, <3>2, SchemeIsReserved
  <2>3. CASE custom # None
    <3>1. sent[c].signature \in {GREASE} \cup ReservedExts
      BY <1>2, <2>1, <2>3 DEF SignatureOf
    <3>2. GREASE \in ReservedValues
      <4>1. 0 \in 0 .. 15 /\ GREASE = 4112 * 0 + 2570
        BY DEF GREASE
      <4> QED
        BY <4>1 DEF ReservedValues
    <3> QED
      BY <3>1, <3>2, FingerprintAssumption
  <2> QED
    BY <2>2, <2>3
<1> QED
  BY <1>1, <1>2

\* A hello has the reserved values that were drawn for its own connection, and no
\* others, whatever other connections draw in between (utls ApplyPreset on the
\* extension objects of a SpecFactory); a reserved signature scheme is one of the
\* sixteen values (grease.go, randomGREASESignatureScheme).
THEOREM HellosHaveTheirOwnValues == Spec => []DrawnForIt
  BY Invariance, IInvDrawnForIt, PTL

\* A hello has the extensions of the profile that are neither reserved nor the
\* session, and no others but reserved values.
LEMMA HelloKeeps ==
  ASSUME NEW e \in Seq(Nat), NEW v \in Injection(Greased(e), ReservedExts),
         NEW presented \in BOOLEAN, NEW x, x \notin ReservedValues
  PROVE  LET h == HelloWith(e, v, presented)
         IN  /\ \A i \in DOMAIN h : i \in DOMAIN e /\ (h[i] = x => e[i] = x)
             /\ x \in Elements(h) => x \in Elements(e)
             /\ x # PreSharedKey /\ x \in Elements(e) => x \in Elements(h)
<1> DEFINE h == HelloWith(e, v, presented)
<1>0. Placed(e, v, presented, h)
  BY HelloPlaces
<1> HIDE DEF h
<1>1. /\ DOMAIN h = {j \in DOMAIN e : e[j] = PreSharedKey => presented}
      /\ \A i \in Greased(e) : h[i] = v[i] /\ v[i] \in ReservedExts
      /\ \A i \in DOMAIN h \ Greased(e) : h[i] = e[i]
  BY <1>0 DEF Placed
<1>2. \A i \in Greased(e) : h[i] # x
  BY <1>1, FingerprintAssumption
<1>3. \A i \in DOMAIN h : i \in DOMAIN e /\ (h[i] = x => e[i] = x)
  BY <1>1, <1>2
<1>4. x # GREASE
  <2>1. 0 \in 0 .. 15 /\ 4112 * 0 + 2570 = 2570
    OBVIOUS
  <2>2. GREASE \in ReservedValues
    BY <2>1 DEF GREASE, ReservedValues
  <2> QED
    BY <2>2
<1>5. ASSUME x # PreSharedKey, x \in Elements(e)
      PROVE  x \in Elements(h)
  <2>1. PICK i \in DOMAIN e : e[i] = x
    BY <1>5 DEF Elements
  <2>2. i \in DOMAIN h /\ i \notin Greased(e)
    BY <1>1, <1>4, <1>5, <2>1 DEF Greased
  <2>3. h[i] = x
    BY <1>1, <2>1, <2>2
  <2> QED
    BY <2>2, <2>3 DEF Elements
<1>6. x \in Elements(h) => x \in Elements(e)
  BY <1>3 DEF Elements
<1> QED
  BY <1>3, <1>5, <1>6 DEF h

\* The extensions the acceptance of a hello turns on are not reserved ones.
LEMMA AcceptanceApart ==
  /\ PreSharedKey \notin ReservedValues
  /\ \A x \in {PSKKeyExchangeModes, SupportedVersions, KeyShares, SupportedCurves,
               SignatureAlgorithms, ALPN} \cup ALPS :
       x \notin ReservedValues /\ x # PreSharedKey
<1>1. /\ PreSharedKey = 41 /\ PSKKeyExchangeModes = 45 /\ SupportedVersions = 43
      /\ KeyShares = 51 /\ SupportedCurves = 10 /\ SignatureAlgorithms = 13
      /\ ALPN = 16 /\ ALPS = {17513, 17613}
  BY DEF PreSharedKey, PSKKeyExchangeModes, SupportedVersions, KeyShares,
         SupportedCurves, SignatureAlgorithms, ALPN, ALPS
<1>2. \A x \in {41, 45, 43, 51, 10, 13, 16, 17513, 17613} : x \notin ReservedValues
  BY ReservedApart
<1>3. \A x \in {45, 43, 51, 10, 13, 16, 17513, 17613} : x # 41
  OBVIOUS
<1> QED
  BY <1>1, <1>2, <1>3

\* What a server asks of a spec, it finds in the hello.
LEMMA HelloAcceptable ==
  ASSUME NEW e \in Seq(Nat), NEW v \in Injection(Greased(e), ReservedExts),
         NEW presented \in BOOLEAN, NEW groups, Acceptable(e, groups)
  PROVE  Acceptable(HelloWith(e, v, presented), groups)
<1> DEFINE h == HelloWith(e, v, presented)
           Told == {PSKKeyExchangeModes, SupportedVersions, KeyShares,
                    SupportedCurves, SignatureAlgorithms, ALPN} \cup ALPS
<1>1. /\ \A i \in DOMAIN h : i \in DOMAIN e /\ (h[i] = PreSharedKey => e[i] = PreSharedKey)
      /\ PreSharedKey \in Elements(h) => PreSharedKey \in Elements(e)
  BY AcceptanceApart, HelloKeeps
<1>2. \A x \in Told : x \in Elements(h) <=> x \in Elements(e)
  BY AcceptanceApart, HelloKeeps
<1> HIDE DEF h
<1>3. /\ PSKKeyExchangeModes \in Elements(h) <=> PSKKeyExchangeModes \in Elements(e)
      /\ SupportedVersions \in Elements(h) <=> SupportedVersions \in Elements(e)
      /\ KeyShares \in Elements(h) <=> KeyShares \in Elements(e)
      /\ SupportedCurves \in Elements(h) <=> SupportedCurves \in Elements(e)
      /\ SignatureAlgorithms \in Elements(h) <=> SignatureAlgorithms \in Elements(e)
      /\ ALPN \in Elements(h) <=> ALPN \in Elements(e)
      /\ \A x \in ALPS : x \in Elements(h) <=> x \in Elements(e)
  BY <1>2
<1> HIDE DEF Told
<1>4. /\ \A i \in DOMAIN e : e[i] = PreSharedKey => \A j \in DOMAIN e : j <= i
      /\ PreSharedKey \in Elements(e) => PSKKeyExchangeModes \in Elements(e)
      /\ SupportedVersions \in Elements(e) =>
           /\ {KeyShares, SupportedCurves, SignatureAlgorithms} \subseteq Elements(e)
           /\ groups.keyShares # << >>
      /\ SharesOffered(groups)
      /\ Elements(e) \cap ALPS # {} => ALPN \in Elements(e)
  BY DEF Acceptable
<1>5. \A i \in DOMAIN h : h[i] = PreSharedKey => \A j \in DOMAIN h : j <= i
  BY <1>1, <1>4
<1>6. /\ PreSharedKey \in Elements(h) => PSKKeyExchangeModes \in Elements(h)
      /\ SupportedVersions \in Elements(h) =>
           /\ {KeyShares, SupportedCurves, SignatureAlgorithms} \subseteq Elements(h)
           /\ groups.keyShares # << >>
      /\ Elements(h) \cap ALPS # {} => ALPN \in Elements(h)
  BY <1>1, <1>3, <1>4
<1>7. Acceptable(h, groups)
  BY <1>4, <1>5, <1>6 DEF Acceptable
<1> QED
  BY <1>7 DEF h

\* A spec that names nothing twice makes a hello that sends nothing twice.
LEMMA HelloDistinct ==
  ASSUME NEW e \in Seq(Nat), Elements(e) \cap ReservedValues \subseteq {GREASE},
         NEW v \in Injection(Greased(e), ReservedExts),
         NEW presented \in BOOLEAN, NamedOnce(e)
  PROVE  Distinct(HelloWith(e, v, presented))
<1> DEFINE h == HelloWith(e, v, presented)
<1>0. Placed(e, v, presented, h)
  BY HelloPlaces
<1> HIDE DEF h
<1>1. /\ DOMAIN h \subseteq DOMAIN e
      /\ \A i \in Greased(e) : h[i] = v[i] /\ v[i] \in ReservedExts
      /\ \A i \in DOMAIN h \ Greased(e) : h[i] = e[i]
      /\ \A i, j \in Greased(e) : v[i] = v[j] => i = j
  BY <1>0 DEF Placed
<1>2. ASSUME NEW i \in DOMAIN h, i \notin Greased(e)
      PROVE  /\ h[i] = e[i] /\ e[i] # GREASE /\ i \in DOMAIN e
             /\ h[i] \notin ReservedValues
  <2>1. i \in DOMAIN e /\ h[i] = e[i]
    BY <1>1, <1>2
  <2>2. e[i] # GREASE /\ e[i] \in Elements(e)
    BY <1>2, <2>1 DEF Greased, Elements
  <2> QED
    BY <2>1, <2>2
<1>3. \A i \in Greased(e) : h[i] \in ReservedValues
  BY <1>1, FingerprintAssumption
<1> SUFFICES ASSUME NEW i \in DOMAIN h, NEW j \in DOMAIN h, h[i] = h[j]
             PROVE  i = j
  BY DEF Distinct, h
<1>4. CASE i \in Greased(e) /\ j \in Greased(e)
  BY <1>1, <1>4
<1>5. CASE i \notin Greased(e) /\ j \notin Greased(e)
  BY <1>2, <1>5 DEF NamedOnce
<1>6. (i \in Greased(e)) <=> (j \in Greased(e))
  BY <1>2, <1>3
<1> QED
  BY <1>4, <1>5, <1>6

\* The invariant gives well-formed hellos.
LEMMA IInvHelloWellFormed == IInv => HelloWellFormed
<1> SUFFICES ASSUME IInv, NEW c \in Conns, pc[c] = "sent",
                    profile.extensions # None
             PROVE  /\ NamedOnce(profile.extensions) => Distinct(hello[c])
                    /\ custom = None => Acceptable(hello[c], profile.groups)
  BY DEF HelloWellFormed
<1>1. /\ ExtensionsFit(profile.extensions)
      /\ custom = None => Acceptable(profile.extensions, profile.groups)
  BY BegunIsRunning
<1>2. Sent(c)
  BY DEF IInv, Connection
<1>3. PICK presented \in BOOLEAN :
         hello[c] = HelloWith(profile.extensions, drawn[c], presented)
  BY <1>2 DEF Sent
<1>4. /\ drawn[c] \in Injection(Greased(profile.extensions), ReservedExts)
      /\ profile.extensions \in Seq(Nat)
      /\ Elements(profile.extensions) \cap ReservedValues \subseteq {GREASE}
  BY <1>1, <1>2 DEF Sent, ExtensionsFit
<1>5. NamedOnce(profile.extensions) => Distinct(hello[c])
  BY <1>3, <1>4, HelloDistinct
<1>6. custom = None => Acceptable(hello[c], profile.groups)
  BY <1>1, <1>3, <1>4, HelloAcceptable
<1> QED
  BY <1>5, <1>6

\* No extension comes twice in a hello, two GREASE extensions included, and a
\* server can accept every hello of a built-in profile: with a session or without
\* one, and whatever is drawn (the ClientHelloSpecs of the profiles, and utls's
\* ApplyPreset).
THEOREM HellosAreWellFormed == Spec => []HelloWellFormed
  BY Invariance, IInvHelloWellFormed, PTL

-----------------------------------------------------------------------------
(* What it says of transports *)

\* The invariant gives complete first frames.
LEMMA IInvPrefaceComplete == IInv => PrefaceComplete
<1> DEFINE asked ==
             custom = None \/ OrderFits(custom.h2SettingsOrder, custom.h2Settings)
<1> SUFFICES ASSUME IInv, NEW c \in Conns, pc[c] = "h2"
             PROVE  /\ asked => OrderFits(sent[c].order, sent[c].settings)
                    /\ custom = None => FramesFit(profile.http2)
  BY DEF PrefaceComplete
<1>1. PrefaceFits
  BY BegunIsRunning
<1>2. /\ sent[c].settings = IF profile.http2.settings = None THEN DefaultSettings
                            ELSE profile.http2.settings
      /\ sent[c].order \in SettingsOrders
  BY DEF IInv, Connection, SentPreface
<1>3. ASSUME profile.http2.settings = None
      PROVE  OrderFits(sent[c].order, sent[c].settings)
  <2>1. /\ sent[c].order \in [1 .. 4 -> DefaultSettings]
        /\ Elements(sent[c].order) = DefaultSettings
    BY <1>2, <1>3 DEF SettingsOrders
  <2>2. Distinct(sent[c].order)
    BY <2>1, WalkIsDistinct
  <2> QED
    BY <1>2, <1>3, <2>1, <2>2 DEF OrderFits
<1>4. ASSUME profile.http2.settings # None, asked
      PROVE  OrderFits(sent[c].order, sent[c].settings)
  <2>1. /\ sent[c].order = profile.http2.settingsOrder
        /\ sent[c].settings = profile.http2.settings
    BY <1>2, <1>4 DEF SettingsOrders
  <2> QED
    BY <1>1, <1>4, <2>1 DEF PrefaceFits
<1>5. custom = None => FramesFit(profile.http2)
  BY <1>1 DEF PrefaceFits
<1> QED
  BY <1>3, <1>4, <1>5

\* The first frames of every HTTP/2 connection are complete: the order lists each
\* setting once, also when the defaults are taken in the order of a Go map, and
\* frames of registered profiles refer to streams that were declared (the HTTP/2
\* transport that dialTLSWithSetup builds).  The settings of custom clients are
\* ordered if their definition orders them (the tables of mapper.go).
THEOREM PrefacesAreComplete == Spec => []PrefaceComplete
  BY Invariance, IInvPrefaceComplete, PTL

\* The invariant gives HTTP/3 transports that are alike.
LEMMA IInvHttp3SettingsHold == IInv => Http3SettingsHold
<1> DEFINE S == profile.http3.settings
           order == profile.http3.settingsOrder
<1> SUFFICES ASSUME IInv, NEW c \in Conns, pc[c] = "h3",
                    order = << >> \/ S \subseteq Elements(order)
             PROVE  /\ sent[c].additional = S \cup ({sent[c].reserved} \ {None})
                    /\ order # << >> /\ Distinct(order) =>
                         /\ sent[c].additional \subseteq Elements(sent[c].order)
                         /\ Distinct(sent[c].order)
                         /\ custom = None =>
                              LET except ==
                                    IF sent[c].sendsMaxFieldSection
                                       <=> profile.http3.priorityParam > 0
                                    THEN {} ELSE {6}
                              IN  Elements(sent[c].order) \ except
                                    = SentSettings(sent[c]) \ except
  BY DEF Http3SettingsHold
<1>1. Http3Fits /\ http3Settings = S
  BY BegunIsRunning
<1>2. PICK settings \in {getHttp3Settings, http3Settings}, g \in ReservedSettings :
         sent[c] = Transport3(settings, g)
  BY DEF IInv, Connection, SentHttp3
<1>3. settings = S
  BY <1>1, <1>2 DEF getHttp3Settings
<1>4. /\ sent[c].additional = IF g = None THEN S ELSE S \cup {g}
      /\ sent[c].order = IF g = None \/ order = << >> THEN order ELSE Append(order, g)
      /\ sent[c].reserved = g
  BY <1>2, <1>3 DEF Transport3
<1>5. sent[c].additional = S \cup ({sent[c].reserved} \ {None})
  BY <1>4
<1> DEFINE sends == sent[c].sendsMaxFieldSection
           chrome == profile.http3.priorityParam > 0
<1>6. ASSUME order # << >>, Distinct(order)
      PROVE  /\ sent[c].additional \subseteq Elements(sent[c].order)
             /\ Distinct(sent[c].order)
             /\ custom = None =>
                  LET except == IF sends <=> chrome THEN {} ELSE {6}
                  IN  Elements(sent[c].order) \ except
                        = SentSettings(sent[c]) \ except
  <2> DEFINE more == IF g = None THEN {} ELSE {g}
  <2>1. order \in Seq(KnownSettings)
    BY <1>1 DEF Http3Fits
  <2>2. /\ Elements(sent[c].order) = Elements(order) \cup more
        /\ Distinct(sent[c].order)
    <3>1. CASE g = None
      BY <1>4, <1>6, <3>1
    <3>2. CASE g # None
      <4>1. g \in ReservedIds /\ g \notin KnownSettings
        BY <1>2, <3>2, ProfilesAssumption DEF ReservedSettings
      <4>2. Elements(order) \subseteq KnownSettings
        BY <2>1 DEF Elements
      <4>3. order \in Seq(KnownSettings \cup {g}) /\ g \notin Elements(order)
        BY <2>1, <4>1, <4>2
      <4>4. /\ Elements(Append(order, g)) = Elements(order) \cup {g}
            /\ Distinct(Append(order, g))
        BY <1>6, <4>3, ElementsAfterAppend
      <4> QED
        BY <1>4, <1>6, <3>2, <4>4
    <3> QED
      BY <3>1, <3>2
  <2>3. sent[c].additional = S \cup more
    BY <1>4
  <2>4. custom = None =>
          Elements(order) = S \cup {51} \cup (IF chrome THEN {6} ELSE {})
    BY <1>1, <1>6 DEF Http3Fits
  <2>5. S \subseteq Elements(order)
    BY <1>6
  <2>6. SentSettings(sent[c]) = (S \cup more) \cup {51}
          \cup (IF sends THEN {6} ELSE {})
    BY <1>4, <2>3 DEF SentSettings
  <2> HIDE DEF S, order, more, sends, chrome
  <2>7. sent[c].additional \subseteq Elements(sent[c].order)
    BY <2>2, <2>3, <2>5
  <2>8. ASSUME custom = None, sends <=> chrome
        PROVE  Elements(sent[c].order) = SentSettings(sent[c])
    BY <2>2, <2>4, <2>6, <2>8
  <2>9. ASSUME custom = None
        PROVE  Elements(sent[c].order) \ {6} = SentSettings(sent[c]) \ {6}
    BY <2>2, <2>4, <2>6, <2>9
  <2> QED
    BY <2>2, <2>7, <2>8, <2>9
<1> QED
  BY <1>5, <1>6

\* All HTTP/3 transports of a client look alike, whether a dial or the racer made
\* them: the settings of the profile and one reserved setting of their own, each
\* in the order once (roundtripper.go, buildHTTP3Transport and getHttp3Settings).
\* With any MaxResponseHeaderBytes, the order of a registered profile is at most
\* wrong about the limit of the field section, and right if none is asked for.
THEOREM Http3TransportsAreAlike == Spec => []Http3SettingsHold
  BY Invariance, IInvHttp3SettingsHold, PTL

-----------------------------------------------------------------------------
(* Sessions *)

\* A connection is sent by SendHello and by nothing else.
LEMMA OnlySendHelloSends ==
  ASSUME IInv, Next, NEW c \in Conns, pc[c] = "applied", pc'[c] = "sent"
  PROVE  SendHello(c)
<1>1. DOMAIN pc = Conns
  BY DEF IInv, Shape
<1>2. pc' # pc
  BY <1>1
<1>3. ~ \E identifier \in Identifiers, disable \in BOOLEAN :
          NewBuiltIn(identifier, disable)
  BY <1>2 DEF NewBuiltIn, NewClient, connVars
<1>4. ~ NewWithoutSettings
  BY <1>2 DEF NewWithoutSettings, NewClient, connVars
<1>5. ~ \E def \in Definitions, disable \in BOOLEAN :
          NewCustom(def, disable) \/ NewCustomFails(def, disable)
  BY <1>2 DEF NewCustom, NewCustomFails, NewClient, connVars
<1>6. PICK d \in Conns :
         \/ Dial(d) \/ DialFails(d) \/ UtlsHello(d) \/ ApplyPreset(d)
         \/ SendHello(d) \/ TicketArrives(d)
         \/ Http2Transport(d) \/ Http3Transport(d)
  BY <1>3, <1>4, <1>5 DEF Next
<1>7. ~Dial(d) /\ ~DialFails(d) /\ ~UtlsHello(d)
  BY <1>1 DEF Dial, DialFails, UtlsHello
<1>8. ~ApplyPreset(d)
  BY <1>1 DEF ApplyPreset
<1>9. ~TicketArrives(d)
  BY <1>2 DEF TicketArrives, connVars
<1>10. ~Http2Transport(d) /\ ~Http3Transport(d)
  BY <1>1 DEF Http2Transport, Http3Transport, buildHTTP3Transport
<1>11. SendHello(d) => d = c
  BY <1>1 DEF SendHello
<1> QED
  BY <1>6, <1>7, <1>8, <1>9, <1>10, <1>11

\* The hello that is sent has the session exactly if there is one.
LEMMA SessionInHello ==
  ASSUME IInv, NEW c \in Conns, SendHello(c)
  PROVE  PreSharedKey \in Elements(hello'[c]) <=> session
<1> DEFINE e == profile.extensions
           v == drawn[c]
<1>1. /\ e # None
      /\ v \in Injection(Greased(e), ReservedExts)
      /\ hello'[c] = HelloWith(e, v, resumes /\ session)
  BY SendHelloIs
<1>2. pc[c] # "idle"
  BY DEF SendHello
<1>3. e \in Seq(Nat) /\ (resumes => supportsSessionResumption(profile))
  BY <1>1, <1>2, BegunIsRunning DEF ExtensionsFit
<1>4. session => resumes
  BY DEF IInv, Shape
<1>5. session => PreSharedKey \in Elements(e)
  BY <1>3, <1>4 DEF supportsSessionResumption
<1>6. PICK presented \in BOOLEAN : presented = (resumes /\ session)
  OBVIOUS
<1> DEFINE h == HelloWith(e, v, presented)
<1>7. hello'[c] = h
  BY <1>1, <1>6
<1>8. Placed(e, v, presented, h)
  BY <1>1, <1>3, HelloPlaces
<1> HIDE DEF e, v, h
<1>9. PreSharedKey \notin ReservedExts /\ PreSharedKey # GREASE
  <2>1. PreSharedKey # GREASE
    BY DEF PreSharedKey, GREASE
  <2> QED
    BY <2>1, AcceptanceApart, FingerprintAssumption
<1>10. ASSUME session PROVE PreSharedKey \in Elements(h)
  <2>1. PICK i \in DOMAIN e : e[i] = PreSharedKey
    BY <1>5, <1>10 DEF Elements
  <2>2. presented
    BY <1>4, <1>6, <1>10
  <2>3. i \in DOMAIN h /\ i \notin Greased(e)
    BY <1>8, <1>9, <2>1, <2>2 DEF Placed, Greased
  <2>4. h[i] = PreSharedKey
    BY <1>8, <2>1, <2>3 DEF Placed
  <2> QED
    BY <2>3, <2>4 DEF Elements
<1>11. ASSUME PreSharedKey \in Elements(h) PROVE session
  <2>1. PICK i \in DOMAIN h : h[i] = PreSharedKey
    BY <1>11 DEF Elements
  <2>2. i \notin Greased(e)
    BY <1>8, <1>9, <2>1 DEF Placed
  <2>3. e[i] = PreSharedKey
    BY <1>8, <2>1, <2>2 DEF Placed
  <2>4. presented
    BY <1>8, <2>1, <2>3 DEF Placed
  <2> QED
    BY <1>6, <2>4
<1> QED
  BY <1>7, <1>10, <1>11

\* A session is kept to be presented: a hello has it exactly when there is one, so
\* a client whose hello has no place for it keeps none (roundtripper.go,
\* supportsSessionResumption and the clientSessionCache it decides on).
THEOREM SessionsArePresented == Spec => SessionsPresented
<1> DEFINE Presented == \A c \in Conns :
                          pc[c] = "applied" /\ pc'[c] = "sent" =>
                            (PreSharedKey \in Elements(hello'[c]) <=> session)
<1>1. IInv /\ [Next]_vars => [Presented]_vars
  BY OnlySendHelloSends, SessionInHello
<1> QED
  BY <1>1, Invariance, PTL DEF Spec, SessionsPresented

-----------------------------------------------------------------------------
(* Trust anchors *)

\* Captures are read for what they are,
LEMMA IInvCapturesRead == IInv => CapturesRead
<1> DEFINE capture == custom.trustAnchorsPayload
<1> SUFFICES ASSUME IInv, custom # None, capture # << >>
             PROVE  client = "refused" <=>
                      (capture = None \/ ~IsAnchorList(capture))
  BY DEF CapturesRead
<1>1. custom \in Definitions /\ (client = "refused" <=> Payloads(custom) = {})
  BY DEF IInv, Anchoring
<1>2. capture \in Seq(Byte) \cup {None}
  BY <1>1, DefinitionType
<1>3. Payloads(custom) = BuildTrustAnchorsPayload(capture)
  BY DEF Payloads
<1> HIDE DEF capture
<1>4. CASE capture = None
  <2>1. BuildTrustAnchorsPayload(capture) = {}
    BY <1>4 DEF BuildTrustAnchorsPayload, splitTrustAnchors
  <2> QED
    BY <1>1, <1>3, <1>4, <2>1
<1>5. CASE capture # None
  <2>1. capture \in Seq(Byte)
    BY <1>2, <1>5
  <2>2. BuildTrustAnchorsPayload(capture) = {} <=> ~IsAnchorList(capture)
    BY <2>1, PayloadExists
  <2> QED
    BY <1>1, <1>3, <1>5, <2>2
<1> QED
  BY <1>4, <1>5

\* A client with anchors has them from a list of records.
LEMMA AnchorsCome ==
  ASSUME IInv, anchors # None
  PROVE  /\ Anchored(splitTrustAnchors(Capture))
         /\ splitTrustAnchors(anchors) \in Seq(Record)
         /\ splitTrustAnchors(anchors) # None
         /\ Rearranges(splitTrustAnchors(anchors), splitTrustAnchors(Capture))
<1>1. /\ Capture \in Seq(Byte)
      /\ anchors \in BuildTrustAnchorsPayload(Capture)
           \/ (anchors = Capture /\ Capture = <<0, 0>>)
  BY DEF IInv, Anchoring
<1>2. CASE anchors \in BuildTrustAnchorsPayload(Capture)
  BY <1>1, <1>2, PayloadHolds
<1>3. CASE anchors = Capture /\ Capture = <<0, 0>>
  <2>1. splitTrustAnchors(Capture) # None /\ Anchored(splitTrustAnchors(Capture))
    BY <1>1, <1>3, NoAnchors, SplitAccepts
  <2>2. splitTrustAnchors(Capture) \in Seq(Record)
    BY <2>1 DEF Anchored
  <2>3. Rearranges(splitTrustAnchors(Capture), splitTrustAnchors(Capture))
    BY <2>2, RearrangesItself
  <2> QED
    BY <1>3, <2>1, <2>2, <2>3
<1> QED
  BY <1>1, <1>2, <1>3

\* their anchors are all kept,
LEMMA IInvAnchorsKept == IInv => AnchorsKept
<1> DEFINE was == splitTrustAnchors(Capture)
           now == splitTrustAnchors(anchors)
<1> SUFFICES ASSUME IInv, anchors # None
             PROVE  /\ now # None
                    /\ Len(now) = Len(was)
                    /\ \A r \in Elements(was) : Count(now, r) = Count(was, r)
  BY DEF AnchorsKept
<1>1. was \in Seq(Record) /\ now \in Seq(Record) /\ now # None /\ Rearranges(now, was)
  BY AnchorsCome DEF Anchored
<1> HIDE DEF was, now
<1>2. Len(now) = Len(was)
  BY <1>1 DEF Rearranges
<1>3. ASSUME NEW r \in Elements(was) PROVE Count(now, r) = Count(was, r)
  BY <1>1, CountsStay
<1> QED
  BY <1>1, <1>2, <1>3

\* every order comes out of one draw of the random source at most,
LEMMA IInvEveryOrderOnce == IInv => EveryOrderOnce
<1> DEFINE records == splitTrustAnchors(Capture)
<1> SUFFICES ASSUME IInv, anchors # None, Distinct(records),
                    NEW d \in Draws(Len(records)), NEW e \in Draws(Len(records)),
                    shuffleTrustAnchors(records, d) = shuffleTrustAnchors(records, e)
             PROVE  d = e
  BY DEF EveryOrderOnce
<1>1. Anchored(records)
  BY AnchorsCome
<1> HIDE DEF records
<1>2. PICK t \in Lengths : \E p : Offsets(p, records, t)
  BY <1>1 DEF Anchored
<1>3. PICK p : Offsets(p, records, t)
  BY <1>2
<1>4. records \in Seq(Record)
  BY <1>1 DEF Anchored
<1>5. /\ splitTrustAnchors(shuffleTrustAnchors(records, d)) = Shuffled(records, d)
      /\ splitTrustAnchors(shuffleTrustAnchors(records, e)) = Shuffled(records, e)
  BY <1>3, <1>4, RoundTrip
<1>6. Shuffled(records, d) = Shuffled(records, e)
  BY <1>5
<1> QED
  BY <1>4, <1>6, ShuffleTellsDraw

\* and together the anchors are sound.
LEMMA IInvAnchorsSound == IInv => AnchorsSound
<1> SUFFICES ASSUME IInv PROVE AnchorsSound
  OBVIOUS
<1>1. CapturesRead /\ AnchorsKept /\ EveryOrderOnce
  BY IInvCapturesRead, IInvAnchorsKept, IInvEveryOrderOnce
<1>2. OneAnchorOrder
  BY DEF IInv, Connection, Built, OneAnchorOrder
<1> QED
  BY <1>1, <1>2 DEF AnchorsSound

\* The trust anchors of a client are those of its capture, each as often as there,
\* in one order for all its hellos, and every order is as likely as any other; a
\* capture is refused exactly when it is no list of anchors (profiles'
\* BuildTrustAnchorsPayload, splitTrustAnchors and shuffleTrustAnchors).
THEOREM AnchorsAreSound == Spec => []AnchorsSound
  BY Invariance, IInvAnchorsSound, PTL

=============================================================================
