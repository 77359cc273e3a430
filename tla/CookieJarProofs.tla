-------------------------- MODULE CookieJarProofs --------------------------
(***************************************************************************)
(* The cookie jar keeps one cookie of a name per site, does not disturb    *)
(* what it has handed out, and does what CookieStore promises, for any     *)
(* hosts, names, lists of cookies and sizes of arrays.                     *)
(***************************************************************************)
EXTENDS CookieJar, WellFoundedInduction, TLAPS

-----------------------------------------------------------------------------
(* Loops that append to a list *)

\* A set of numbers has a least one.  It is what induction is made of here.
LEMMA NatMin ==
  ASSUME NEW T \in SUBSET Nat, T # {}
  PROVE  \E n \in T : \A m \in T : n <= m
<1>1. \E n \in T : \A m \in T : ~(<<m, n>> \in OpToRel(<, Nat))
  BY WFMin, NatLessThanWellFounded, Zenon
<1>2. \A m, n \in Nat : m < n => <<m, n>> \in OpToRel(<, Nat)
  BY DEF OpToRel
<1>3. \E n \in T : \A m \in T : ~(m < n)
  BY <1>1, <1>2, Zenon
<1> QED
  BY <1>3

\* One round of the loop in Keep.
Round(s, positions, f, i) ==
  IF i = 0 THEN << >>
  ELSE IF i \in positions THEN Append(f[i - 1], s[i]) ELSE f[i - 1]

\* The loop ends: there is a function that gives the list after each round.
LEMMA KeepEnds ==
  ASSUME NEW X, NEW s \in Seq(X), NEW K
  PROVE  \E f : f = [i \in 0 .. Len(s) |-> Round(s, K, f, i)]
<1> DEFINE Runs(n) == \E f : f = [i \in 0 .. n |-> Round(s, K, f, i)]
           T == {n \in Nat : ~Runs(n)}
<1>1. Runs(0)
  <2>1. [i \in 0 .. 0 |-> << >>] = [i \in 0 .. 0 |-> Round(s, K, [j \in 0 .. 0 |-> << >>], i)]
    BY DEF Round
  <2> QED
    BY <2>1
<1>2. ASSUME NEW n \in Nat, Runs(n) PROVE Runs(n + 1)
  <2>1. PICK f : f = [i \in 0 .. n |-> Round(s, K, f, i)]
    BY <1>2
  <2> DEFINE g == [i \in 0 .. n + 1 |->
                     IF i = n + 1 THEN Round(s, K, f, n + 1) ELSE f[i]]
  <2>2. ASSUME NEW i \in 0 .. n + 1 PROVE g[i] = Round(s, K, g, i)
    <3>1. CASE i = n + 1
      BY <3>1 DEF Round
    <3>2. CASE i # n + 1
      <4>1. i \in 0 .. n /\ f[i] = Round(s, K, f, i)
        BY <2>1, <3>2
      <4>2. i # 0 => g[i - 1] = f[i - 1]
        BY <4>1
      <4>3. g[i] = f[i]
        BY <4>1
      <4> QED
        BY <4>1, <4>2, <4>3 DEF Round
    <3> QED
      BY <3>1, <3>2
  <2> HIDE DEF g
  <2>3. g = [i \in 0 .. n + 1 |-> g[i]]
    BY DEF g
  <2>4. g = [i \in 0 .. n + 1 |-> Round(s, K, g, i)]
    BY <2>2, <2>3
  <2> QED
    BY <2>4
<1> HIDE DEF Runs
<1>3. T = {}
  <2>1. SUFFICES ASSUME T # {} PROVE FALSE
    OBVIOUS
  <2>2. PICK n \in T : \A m \in T : n <= m
    BY <2>1, NatMin
  <2>3. n # 0 /\ n \in Nat /\ ~Runs(n)
    BY <1>1
  <2>4. n - 1 \in Nat /\ n - 1 \notin T /\ (n - 1) + 1 = n
    BY <2>2, <2>3
  <2>5. Runs(n - 1)
    BY <2>4
  <2> QED
    BY <1>2, <2>3, <2>4, <2>5
<1>4. Runs(Len(s))
  BY <1>3
<1> QED
  BY <1>4 DEF Runs

\* f tells the positions of s that a list was made of, in their order: those of K
\* up to n, each of them.
Tells(f, s, K, n, list) ==
  /\ f \in Seq(K)
  /\ \A i \in 1 .. Len(f) : f[i] <= n
  /\ \A i, j \in 1 .. Len(f) : i < j => f[i] < f[j]
  /\ \A p \in K : p <= n => \E j \in 1 .. Len(f) : f[j] = p
  /\ list = [j \in 1 .. Len(f) |-> s[f[j]]]

\* Keep takes what is at the positions, in their order, and nothing else.
LEMMA KeepTakes ==
  ASSUME NEW X, NEW s \in Seq(X), NEW K \in SUBSET (1 .. Len(s))
  PROVE  \E f : Tells(f, s, K, Len(s), Keep(s, K))
<1> DEFINE kept == CHOOSE f : f = [i \in 0 .. Len(s) |->
                     IF i = 0 THEN << >>
                     ELSE IF i \in K THEN Append(f[i - 1], s[i]) ELSE f[i - 1]]
           Told(n) == \E f : Tells(f, s, K, n, kept[n])
           T == {n \in 0 .. Len(s) : ~Told(n)}
<1>1. Keep(s, K) = kept[Len(s)]
  BY DEF Keep
<1>2. kept = [i \in 0 .. Len(s) |->
                IF i = 0 THEN << >>
                ELSE IF i \in K THEN Append(kept[i - 1], s[i]) ELSE kept[i - 1]]
  BY KeepEnds DEF Round
<1> HIDE DEF kept
<1>0. Len(s) \in Nat
  OBVIOUS
<1>a. \A i \in 0 .. Len(s) :
        kept[i] = IF i = 0 THEN << >>
                  ELSE IF i \in K THEN Append(kept[i - 1], s[i]) ELSE kept[i - 1]
  BY <1>2, Zenon
<1>3. Told(0)
  <2>1. kept[0] = << >>
    BY <1>a, <1>0
  <2>2. Tells(<< >>, s, K, 0, << >>)
    BY DEF Tells
  <2> QED
    BY <2>1, <2>2
<1>4. ASSUME NEW n \in 1 .. Len(s), Told(n - 1) PROVE Told(n)
  <2>1. PICK f : Tells(f, s, K, n - 1, kept[n - 1])
    BY <1>4
  <2>2. kept[n] = IF n \in K THEN Append(kept[n - 1], s[n]) ELSE kept[n - 1]
    <3>1. n \in 0 .. Len(s) /\ n # 0
      BY <1>0
    <3> QED
      BY <1>a, <3>1, Zenon
  <2>a. /\ f \in Seq(K) /\ Len(f) \in Nat
        /\ \A i \in 1 .. Len(f) : f[i] \in K /\ f[i] \in 1 .. Len(s) /\ f[i] <= n - 1
    <3>1. f \in Seq(K) /\ \A i \in 1 .. Len(f) : f[i] <= n - 1
      BY <2>1 DEF Tells
    <3>2. \A i \in 1 .. Len(f) : f[i] \in K
      BY <3>1
    <3>3. \A p \in K : p \in 1 .. Len(s)
      OBVIOUS
    <3>4. Len(f) \in Nat
      BY <3>1
    <3> QED
      BY <3>1, <3>2, <3>3, <3>4, Zenon
  <2>b. \A i, j \in 1 .. Len(f) : i < j => f[i] < f[j]
    BY <2>1 DEF Tells
  <2>c. \A p \in K : p <= n - 1 => \E j \in 1 .. Len(f) : f[j] = p
    BY <2>1 DEF Tells
  <2>d. kept[n - 1] = [j \in 1 .. Len(f) |-> s[f[j]]]
    BY <2>1 DEF Tells
  <2>3. CASE n \in K
    <3> DEFINE g == Append(f, n)
    <3>1. /\ g \in Seq(K) /\ Len(g) = Len(f) + 1 /\ Len(f) \in Nat
          /\ g[Len(f) + 1] = n
          /\ \A i \in 1 .. Len(f) : g[i] = f[i] /\ f[i] \in K
      BY <2>a, <2>3
    <3> HIDE DEF g
    <3>2. \A i \in 1 .. Len(g) : g[i] <= n
      BY <2>a, <3>1
    <3>3. ASSUME NEW i \in 1 .. Len(g), NEW j \in 1 .. Len(g), i < j
          PROVE  g[i] < g[j]
      <4>1. i \in 1 .. Len(f) /\ f[i] \in 1 .. Len(s) /\ f[i] <= n - 1
        BY <2>a, <3>1, <3>3
      <4>2. CASE j = Len(f) + 1
        BY <3>1, <4>1, <4>2
      <4>3. CASE j # Len(f) + 1
        <5>1. j \in 1 .. Len(f)
          BY <3>1, <4>3
        <5>2. f[i] < f[j]
          BY <2>b, <3>3, <4>1, <5>1
        <5>3. g[i] = f[i] /\ g[j] = f[j]
          BY <3>1, <4>1, <5>1
        <5> QED
          BY <5>2, <5>3
      <4> QED
        BY <4>2, <4>3
    <3>4. ASSUME NEW p \in K, p <= n PROVE \E j \in 1 .. Len(g) : g[j] = p
      <4>1. CASE p = n
        BY <3>1, <4>1
      <4>2. CASE p # n
        <5>1. p <= n - 1
          BY <3>4, <4>2
        <5>2. PICK j \in 1 .. Len(f) : f[j] = p
          BY <2>c, <5>1
        <5> QED
          BY <3>1, <5>2
      <4> QED
        BY <4>1, <4>2
    <3>5. kept[n] = [j \in 1 .. Len(g) |-> s[g[j]]]
      <4> DEFINE old == [j \in 1 .. Len(f) |-> s[f[j]]]
                 new == [j \in 1 .. Len(g) |-> s[g[j]]]
      <4>1. kept[n - 1] = old /\ kept[n] = Append(old, s[n])
        BY <2>d, <2>2, <2>3
      <4>2. old \in Seq(X) /\ Len(old) = Len(f)
        BY <2>a
      <4>3. new \in Seq(X) /\ Len(new) = Len(f) + 1
        <5>1. \A j \in 1 .. Len(g) : g[j] \in 1 .. Len(s)
          BY <2>a, <3>1
        <5> QED
          BY <3>1, <5>1
      <4>4. \A j \in 1 .. Len(f) : new[j] = old[j]
        BY <3>1
      <4>5. new[Len(f) + 1] = s[n]
        BY <3>1
      <4>6. s[n] \in X
        OBVIOUS
      <4> HIDE DEF old, new
      <4>7. Append(old, s[n]) = new
        BY <3>1, <4>2, <4>3, <4>4, <4>5, <4>6
      <4> QED
        BY <4>1, <4>7 DEF new
    <3>6. Tells(g, s, K, n, kept[n])
      BY <3>1, <3>2, <3>3, <3>4, <3>5 DEF Tells
    <3> QED
      BY <3>6
  <2>4. CASE n \notin K
    <3>1. \A p \in K : p <= n => p <= n - 1
      BY <2>4
    <3>2. Tells(f, s, K, n, kept[n])
      <4>1. \A i \in 1 .. Len(f) : f[i] <= n
        BY <2>a
      <4>2. kept[n] = [j \in 1 .. Len(f) |-> s[f[j]]]
        BY <2>2, <2>4, <2>d
      <4> QED
        BY <2>a, <2>b, <2>c, <3>1, <4>1, <4>2 DEF Tells
    <3> QED
      BY <3>2
  <2> QED
    BY <2>3, <2>4
<1> HIDE DEF Told
<1>5. T = {}
  <2>1. SUFFICES ASSUME T # {} PROVE FALSE
    OBVIOUS
  <2>a. T \in SUBSET Nat
    OBVIOUS
  <2>2. PICK n \in T : \A m \in T : n <= m
    BY <2>1, <2>a, NatMin
  <2>3. n \in 1 .. Len(s) /\ ~Told(n)
    BY <1>3
  <2>4. n - 1 \in 0 .. Len(s) /\ n - 1 \notin T
    BY <1>0, <2>2, <2>3
  <2> QED
    BY <1>4, <2>3, <2>4
<1>6. Told(Len(s))
  BY <1>0, <1>5
<1> QED
  BY <1>1, <1>6 DEF Told

\* The same as facts about elements: nothing else is kept, nothing is lost, and
\* what has different names keeps them apart.
LEMMA KeptElements ==
  ASSUME NEW X, NEW s \in Seq(X), NEW K \in SUBSET DOMAIN s
  PROVE  /\ Keep(s, K) \in Seq(X)
         /\ \A j \in DOMAIN Keep(s, K) : \E p \in K : Keep(s, K)[j] = s[p]
         /\ \A p \in K : \E j \in DOMAIN Keep(s, K) : Keep(s, K)[j] = s[p]
         /\ (\A p, q \in K : s[p].name = s[q].name => p = q)
              => \A i, j \in DOMAIN Keep(s, K) :
                   Keep(s, K)[i].name = Keep(s, K)[j].name => i = j
<1> DEFINE list == Keep(s, K)
<1>1. DOMAIN s = 1 .. Len(s) /\ Len(s) \in Nat
  OBVIOUS
<1>2. PICK f : Tells(f, s, K, Len(s), list)
  BY <1>1, KeepTakes
<1> HIDE DEF list
<1>3. /\ f \in Seq(K) /\ Len(f) \in Nat
      /\ list = [j \in 1 .. Len(f) |-> s[f[j]]]
  BY <1>2 DEF Tells
<1>4. \A j \in 1 .. Len(f) : f[j] \in K
  BY <1>3
<1>5. DOMAIN list = 1 .. Len(f) /\ \A j \in 1 .. Len(f) : list[j] = s[f[j]]
  BY <1>3
<1>6. list \in Seq(X)
  <2>1. \A j \in 1 .. Len(f) : s[f[j]] \in X
    BY <1>4, <1>1
  <2> QED
    BY <1>3, <2>1
<1>7. \A j \in DOMAIN list : \E p \in K : list[j] = s[p]
  BY <1>4, <1>5, Zenon
<1>8. ASSUME NEW p \in K PROVE \E j \in DOMAIN list : list[j] = s[p]
  <2>1. p \in 1 .. Len(s) /\ p <= Len(s)
    BY <1>1
  <2>2. PICK j \in 1 .. Len(f) : f[j] = p
    BY <1>2, <2>1 DEF Tells
  <2> QED
    BY <1>5, <2>2
<1>9. ASSUME \A p, q \in K : s[p].name = s[q].name => p = q,
             NEW i \in DOMAIN list, NEW j \in DOMAIN list,
             list[i].name = list[j].name
      PROVE  i = j
  <2>a. i \in 1 .. Len(f) /\ j \in 1 .. Len(f)
    BY <1>5
  <2>b. f[i] \in K /\ f[j] \in K /\ s[f[i]].name = s[f[j]].name
    BY <1>4, <1>5, <1>9, <2>a
  <2>1. f[i] = f[j] /\ i \in 1 .. Len(f) /\ j \in 1 .. Len(f)
    BY <1>9, <2>a, <2>b
  <2>2. f[i] \in Nat /\ f[j] \in Nat
    BY <1>1, <1>4, <2>1
  <2>3. ~(i < j) /\ ~(j < i)
    BY <1>2, <2>1, <2>2 DEF Tells
  <2> QED
    BY <2>1, <2>3
<1> QED
  BY <1>6, <1>7, <1>8, <1>9 DEF list

\* A list has one cookie of a name.
OneOfName(list) ==
  \A i, j \in DOMAIN list : list[i].name = list[j].name => i = j

\* What is left of a list without the names of another.
LEMMA UnnamedCookies ==
  ASSUME NEW X, NEW s \in Seq(X), NEW other
  PROVE  /\ Unnamed(s, other) \in Seq(X)
         /\ \A j \in DOMAIN Unnamed(s, other) :
              /\ ~HasName(other, Unnamed(s, other)[j].name)
              /\ \E p \in DOMAIN s : Unnamed(s, other)[j] = s[p]
         /\ \A p \in DOMAIN s :
              ~HasName(other, s[p].name) =>
                \E j \in DOMAIN Unnamed(s, other) : Unnamed(s, other)[j] = s[p]
         /\ OneOfName(s) => OneOfName(Unnamed(s, other))
<1> DEFINE K == {i \in DOMAIN s : ~HasName(other, s[i].name)}
<1>1. K \in SUBSET DOMAIN s /\ Unnamed(s, other) = Keep(s, K)
  BY DEF Unnamed
<1>2. \A p \in K : p \in DOMAIN s /\ ~HasName(other, s[p].name)
  OBVIOUS
<1>3. \A p \in DOMAIN s : ~HasName(other, s[p].name) => p \in K
  OBVIOUS
<1> HIDE DEF K
<1>4. OneOfName(s) => \A p, q \in K : s[p].name = s[q].name => p = q
  BY <1>2 DEF OneOfName
<1>5. /\ Keep(s, K) \in Seq(X)
      /\ \A j \in DOMAIN Keep(s, K) : \E p \in K : Keep(s, K)[j] = s[p]
      /\ \A p \in K : \E j \in DOMAIN Keep(s, K) : Keep(s, K)[j] = s[p]
      /\ (\A p, q \in K : s[p].name = s[q].name => p = q)
           => OneOfName(Keep(s, K))
  BY <1>1, KeptElements, Zenon DEF OneOfName
<1> QED
  BY <1>1, <1>2, <1>3, <1>4, <1>5, ZenonT(60)

\* One list after another.
LEMMA JoinedCookies ==
  ASSUME NEW X, NEW a \in Seq(X), NEW b \in Seq(X)
  PROVE  /\ a \o b \in Seq(X)
         /\ \A j \in DOMAIN (a \o b) :
              \/ j \in DOMAIN a /\ (a \o b)[j] = a[j]
              \/ \E i \in DOMAIN b : j = Len(a) + i /\ (a \o b)[j] = b[i]
         /\ \A i \in DOMAIN a : i \in DOMAIN (a \o b) /\ (a \o b)[i] = a[i]
         /\ \A i \in DOMAIN b :
              Len(a) + i \in DOMAIN (a \o b) /\ (a \o b)[Len(a) + i] = b[i]
<1>1. /\ a \o b \in Seq(X) /\ Len(a \o b) = Len(a) + Len(b)
      /\ Len(a) \in Nat /\ Len(b) \in Nat
      /\ DOMAIN a = 1 .. Len(a) /\ DOMAIN b = 1 .. Len(b)
      /\ DOMAIN (a \o b) = 1 .. Len(a) + Len(b)
  OBVIOUS
<1>2. \A i \in 1 .. Len(a) : (a \o b)[i] = a[i]
  OBVIOUS
<1>3. \A i \in 1 .. Len(b) : (a \o b)[Len(a) + i] = b[i]
  OBVIOUS
<1>4. ASSUME NEW j \in DOMAIN (a \o b)
      PROVE  \/ j \in DOMAIN a /\ (a \o b)[j] = a[j]
             \/ \E i \in DOMAIN b : j = Len(a) + i /\ (a \o b)[j] = b[i]
  <2>1. CASE j <= Len(a)
    BY <1>1, <1>2, <2>1
  <2>2. CASE ~(j <= Len(a))
    <3>1. j - Len(a) \in 1 .. Len(b) /\ j = Len(a) + (j - Len(a))
      BY <1>1, <2>2
    <3> QED
      BY <1>1, <1>3, <3>1
  <2> QED
    BY <2>1, <2>2
<1>5. \A i \in 1 .. Len(a) : i \in 1 .. Len(a) + Len(b)
  BY <1>1
<1>6. \A i \in 1 .. Len(b) : Len(a) + i \in 1 .. Len(a) + Len(b)
  BY <1>1
<1> QED
  BY <1>1, <1>2, <1>3, <1>4, <1>5, <1>6

\* Lists that share no name, one after another.
LEMMA JoinedNames ==
  ASSUME NEW X, NEW a \in Seq(X), NEW b \in Seq(X),
         OneOfName(a), OneOfName(b),
         \A i \in DOMAIN a, j \in DOMAIN b : a[i].name # b[j].name
  PROVE  OneOfName(a \o b)
<1> DEFINE all == a \o b
<1>1. ASSUME NEW i \in DOMAIN all, NEW j \in DOMAIN all,
             all[i].name = all[j].name
      PROVE  i = j
  <2>1. /\ \/ i \in DOMAIN a /\ all[i] = a[i]
           \/ \E p \in DOMAIN b : i = Len(a) + p /\ all[i] = b[p]
        /\ \/ j \in DOMAIN a /\ all[j] = a[j]
           \/ \E q \in DOMAIN b : j = Len(a) + q /\ all[j] = b[q]
    BY JoinedCookies
  <2> HIDE DEF all
  <2>2. CASE i \in DOMAIN a /\ all[i] = a[i]
    <3>1. j \in DOMAIN a /\ all[j] = a[j]
      BY <1>1, <2>1, <2>2
    <3> QED
      BY <1>1, <2>2, <3>1 DEF OneOfName
  <2>3. ASSUME NEW p \in DOMAIN b, i = Len(a) + p /\ all[i] = b[p]
        PROVE  i = j
    <3>1. PICK q \in DOMAIN b : j = Len(a) + q /\ all[j] = b[q]
      BY <1>1, <2>1, <2>3
    <3>2. p = q
      BY <1>1, <2>3, <3>1 DEF OneOfName
    <3> QED
      BY <2>3, <3>1, <3>2
  <2> QED
    BY <2>1, <2>2, <2>3
<1> QED
  BY <1>1 DEF OneOfName

\* A name is kept where it comes first, and there only.
LEMMA FirstsAreKept ==
  ASSUME NEW X, NEW s \in Seq(X), NEW list, list = Keep(s, FirstOfName(s))
  PROVE  /\ list \in Seq(X)
         /\ OneOfName(list)
         /\ \A j \in DOMAIN list :
              \E b \in DOMAIN s :
                /\ list[j] = s[b]
                /\ \A c \in DOMAIN s : c < b => s[c].name # s[b].name
         /\ \A r \in DOMAIN s : HasName(list, s[r].name)
<1> DEFINE K == FirstOfName(s)
<1>0. list = Keep(s, K)
  OBVIOUS
<1>1. DOMAIN s = 1 .. Len(s) /\ Len(s) \in Nat
  OBVIOUS
<1>2. K \in SUBSET DOMAIN s
  BY DEF FirstOfName
<1>3. ASSUME NEW b \in DOMAIN s
      PROVE  b \in K <=> \A c \in DOMAIN s : c < b => s[c].name # s[b].name
  <2> DEFINE before == SubSeq(s, 1, b - 1)
  <2>1. /\ DOMAIN before = 1 .. b - 1
        /\ \A c \in 1 .. b - 1 : before[c] = s[c]
    BY <1>1
  <2>2. \A c : c \in 1 .. b - 1 <=> c \in DOMAIN s /\ c < b
    BY <1>1
  <2> HIDE DEF before
  <2>3. HasName(before, s[b].name)
          <=> \E c \in DOMAIN s : c < b /\ s[c].name = s[b].name
    BY <2>1, <2>2, Zenon DEF HasName
  <2>4. b \in K <=> ~HasName(before, s[b].name)
    BY DEF FirstOfName, before
  <2> QED
    BY <2>3, <2>4, Zenon
<1> HIDE DEF K
<1>4. ASSUME NEW p \in K, NEW q \in K, s[p].name = s[q].name
      PROVE  p = q
  <2>1. p \in DOMAIN s /\ q \in DOMAIN s
    BY <1>2
  <2>2. ~(p < q) /\ ~(q < p)
    BY <1>3, <1>4, <2>1
  <2> QED
    BY <1>1, <2>1, <2>2
<1>5. /\ list \in Seq(X)
      /\ \A j \in DOMAIN list : \E p \in K : list[j] = s[p]
      /\ \A p \in K : \E j \in DOMAIN list : list[j] = s[p]
      /\ OneOfName(list)
  <2>1. /\ Keep(s, K) \in Seq(X)
        /\ \A j \in DOMAIN Keep(s, K) : \E p \in K : Keep(s, K)[j] = s[p]
        /\ \A p \in K : \E j \in DOMAIN Keep(s, K) : Keep(s, K)[j] = s[p]
    BY <1>2, KeptElements, Zenon
  <2>2. OneOfName(Keep(s, K))
    BY <1>2, <1>4, KeptElements, Zenon DEF OneOfName
  <2> QED
    BY <1>0, <2>1, <2>2, Zenon
<1>6. ASSUME NEW r \in DOMAIN s PROVE HasName(list, s[r].name)
  <2> DEFINE T == {c \in DOMAIN s : s[c].name = s[r].name}
  <2>1. T \in SUBSET Nat /\ T # {}
    BY <1>1
  <2>2. PICK b \in T : \A c \in T : b <= c
    BY <2>1, NatMin
  <2>3. b \in DOMAIN s /\ s[b].name = s[r].name
    OBVIOUS
  <2>4. ASSUME NEW c \in DOMAIN s, c < b PROVE s[c].name # s[b].name
    <3>1. ~(b <= c)
      BY <1>1, <2>3, <2>4
    <3>2. c \notin T
      BY <2>2, <3>1
    <3> QED
      BY <2>3, <3>2
  <2>5. b \in K
    BY <1>3, <2>3, <2>4
  <2>6. PICK j \in DOMAIN list : list[j] = s[b]
    BY <1>5, <2>5
  <2> QED
    BY <2>3, <2>6 DEF HasName
<1>7. ASSUME NEW j \in DOMAIN list
      PROVE  \E b \in DOMAIN s :
               /\ list[j] = s[b]
               /\ \A c \in DOMAIN s : c < b => s[c].name # s[b].name
  <2>1. PICK b \in K : list[j] = s[b]
    BY <1>5
  <2>2. b \in DOMAIN s
    BY <1>2
  <2> QED
    BY <1>3, <2>1, <2>2, Zenon
<1> QED
  BY <1>5, <1>6, <1>7, Zenon

\* The cookies of a list that have a name and may enter the jar.
Candidates(list, n) ==
  {i \in DOMAIN list :
     list[i].name = n /\ (config.allowEmpty \/ list[i].value # None)}

\* What SetCookies makes of a list: the last candidate of each name.
LEMMA OfferedCookies ==
  ASSUME NEW X, NEW cookies \in Seq(X)
  PROVE  LET list == unique(nonEmpty(cookies))
         IN  /\ list \in Seq(X)
             /\ OneOfName(list)
             /\ \A j \in DOMAIN list :
                  \E p \in Candidates(cookies, list[j].name) :
                    /\ list[j] = cookies[p]
                    /\ \A q \in Candidates(cookies, list[j].name) : q <= p
             /\ \A n : Candidates(cookies, n) # {} => HasName(list, n)
<1> DEFINE K == {i \in DOMAIN cookies :
                   config.allowEmpty \/ cookies[i].value # None}
           some == nonEmpty(cookies)
           back == Reverse(some)
           list == unique(some)
<1>1. DOMAIN cookies = 1 .. Len(cookies) /\ Len(cookies) \in Nat
  OBVIOUS
<1>2. some = Keep(cookies, K) /\ K \in SUBSET (1 .. Len(cookies))
  BY <1>1 DEF nonEmpty
<1>3. \A n, p : p \in Candidates(cookies, n) <=> p \in K /\ cookies[p].name = n
  BY DEF Candidates
<1> HIDE DEF K, some
<1>4. PICK g : Tells(g, cookies, K, Len(cookies), some)
  BY <1>2, KeepTakes
<1>5. /\ g \in Seq(K) /\ Len(g) \in Nat
      /\ some = [j \in 1 .. Len(g) |-> cookies[g[j]]]
      /\ \A i, j \in 1 .. Len(g) : i < j => g[i] < g[j]
  BY <1>4 DEF Tells
<1>6. \A j \in 1 .. Len(g) : g[j] \in K
  BY <1>5
<1>7. \A p \in K : p \in 1 .. Len(cookies) /\ \E j \in 1 .. Len(g) : g[j] = p
  <2>1. \A p \in K : p \in 1 .. Len(cookies) /\ p <= Len(cookies)
    BY <1>1, <1>2
  <2> QED
    BY <1>4, <2>1 DEF Tells
<1>8. some \in Seq(X) /\ Len(some) = Len(g)
  <2>1. \A j \in 1 .. Len(g) : cookies[g[j]] \in X
    BY <1>1, <1>6, <1>7
  <2> QED
    BY <1>5, <2>1
<1>9. /\ back \in Seq(X) /\ DOMAIN back = 1 .. Len(g)
      /\ \A b \in 1 .. Len(g) :
           Len(g) - b + 1 \in 1 .. Len(g) /\ back[b] = cookies[g[Len(g) - b + 1]]
  BY <1>5, <1>8 DEF Reverse
<1>10. list = Keep(back, FirstOfName(back))
  BY DEF unique
<1> HIDE DEF list, back
<1>11. /\ list \in Seq(X)
       /\ OneOfName(list)
       /\ \A j \in DOMAIN list :
            \E b \in DOMAIN back :
              /\ list[j] = back[b]
              /\ \A c \in DOMAIN back : c < b => back[c].name # back[b].name
       /\ \A r \in DOMAIN back : HasName(list, back[r].name)
  <2>1. back \in Seq(X)
    BY <1>9
  <2> QED
    BY <2>1, <1>10, FirstsAreKept
<1>12. ASSUME NEW j \in DOMAIN list
       PROVE  \E p \in Candidates(cookies, list[j].name) :
                /\ list[j] = cookies[p]
                /\ \A q \in Candidates(cookies, list[j].name) : q <= p
  <2>1. PICK b \in DOMAIN back :
               /\ list[j] = back[b]
               /\ \A c \in DOMAIN back : c < b => back[c].name # back[b].name
    BY <1>11
  <2> DEFINE u == Len(g) - b + 1
             p == g[u]
  <2>2. u \in 1 .. Len(g) /\ list[j] = cookies[p] /\ p \in K
    BY <1>6, <1>9, <2>1
  <2>3. p \in Candidates(cookies, list[j].name)
    BY <1>3, <2>2
  <2>4. ASSUME NEW q \in Candidates(cookies, list[j].name) PROVE q <= p
    <3>1. q \in K /\ cookies[q].name = list[j].name
      BY <1>3
    <3>2. PICK t \in 1 .. Len(g) : g[t] = q
      BY <1>7, <3>1
    <3> DEFINE c == Len(g) - t + 1
    <3>3. c \in 1 .. Len(g) /\ Len(g) - c + 1 = t
      BY <1>5
    <3>4. c \in DOMAIN back /\ back[c] = cookies[q]
      BY <1>9, <3>2, <3>3
    <3>5. ~(c < b)
      BY <2>1, <3>1, <3>4
    <3>6. t <= u
      BY <1>5, <1>9, <3>5
    <3>7. p \in Nat /\ q \in Nat
      BY <1>1, <1>7, <2>2, <3>1
    <3> HIDE DEF p, u, c
    <3>8. CASE t = u
      BY <3>2, <3>7, <3>8 DEF p
    <3>9. CASE t < u
      BY <1>5, <2>2, <3>2, <3>7, <3>9 DEF p
    <3> QED
      BY <2>2, <3>6, <3>8, <3>9
  <2> QED
    BY <2>2, <2>3, <2>4
<1>13. ASSUME NEW n, Candidates(cookies, n) # {} PROVE HasName(list, n)
  <2>1. PICK q \in K : cookies[q].name = n
    BY <1>3, <1>13
  <2>2. PICK t \in 1 .. Len(g) : g[t] = q
    BY <1>7
  <2>3. Len(g) - t + 1 \in 1 .. Len(g) /\ Len(g) - (Len(g) - t + 1) + 1 = t
    BY <1>5
  <2>4. Len(g) - t + 1 \in DOMAIN back /\ back[Len(g) - t + 1] = cookies[q]
    BY <1>9, <2>2, <2>3
  <2> QED
    BY <1>11, <2>1, <2>4
<1> QED
  BY <1>11, <1>12, <1>13, Zenon DEF list, some

-----------------------------------------------------------------------------
(* Slices *)

Slices == [array : Seq(AnyCookie \cup {None}), len : Nat]

\* A slice is as long as it says, and has the first elements of its array.
LEMMA SliceIs ==
  ASSUME NEW s \in Slices, s.len <= Len(s.array)
  PROVE  /\ Len(Slice(s)) = s.len
         /\ DOMAIN Slice(s) = 1 .. s.len
         /\ \A i \in 1 .. s.len : Slice(s)[i] = s.array[i]
         /\ Slice(s) \in Seq(AnyCookie \cup {None})
<1>1. s.array \in Seq(AnyCookie \cup {None}) /\ s.len \in Nat
  BY DEF Slices
<1> DEFINE a == s.array
           n == s.len
<1>2. a \in Seq(AnyCookie \cup {None}) /\ n \in Nat /\ n <= Len(a)
  BY <1>1
<1> HIDE DEF a, n
<1>3. /\ Len(SubSeq(a, 1, n)) = n
      /\ DOMAIN SubSeq(a, 1, n) = 1 .. n
      /\ \A i \in 1 .. n : SubSeq(a, 1, n)[i] = a[i]
      /\ SubSeq(a, 1, n) \in Seq(AnyCookie \cup {None})
  BY <1>2
<1> QED
  BY <1>3 DEF a, n, Slice

\* A new array holds its list, with or without room to spare.
LEMMA NewSlice ==
  ASSUME NEW list \in Seq(AnyCookie), NEW spare \in Nat
  PROVE  LET s == [array |-> list \o [i \in 1 .. spare |-> None],
                   len |-> Len(list)]
         IN  s \in Slices /\ s.len <= Len(s.array) /\ Slice(s) = list
<1> DEFINE room == [i \in 1 .. spare |-> None]
           array == list \o room
<1>1. list \in Seq(AnyCookie \cup {None}) /\ room \in Seq(AnyCookie \cup {None})
  OBVIOUS
<1> HIDE DEF room
<1>2. /\ array \in Seq(AnyCookie \cup {None})
      /\ Len(list) \in Nat /\ Len(room) \in Nat
      /\ Len(array) = Len(list) + Len(room)
      /\ \A i \in 1 .. Len(list) : array[i] = list[i]
  BY <1>1
<1> HIDE DEF array
<1>3. SubSeq(array, 1, Len(list)) = list
  <2>1. /\ SubSeq(array, 1, Len(list)) \in Seq(AnyCookie \cup {None})
        /\ Len(SubSeq(array, 1, Len(list))) = Len(list)
        /\ \A i \in 1 .. Len(list) : SubSeq(array, 1, Len(list))[i] = list[i]
    BY <1>2
  <2> QED
    BY <1>1, <1>2, <2>1
<1>4. Len(list) <= Len(array)
  BY <1>2
<1> QED
  BY <1>2, <1>3, <1>4 DEF Slice, Slices, array, room

\* append in place leaves what was in the slice, and adds the rest.
LEMMA SliceInPlace ==
  ASSUME NEW old \in Slices, old.len <= Len(old.array),
         NEW all \in Seq(AnyCookie), old.len <= Len(all),
         Len(old.array) >= Len(all),
         \A i \in 1 .. old.len : all[i] = old.array[i]
  PROVE  LET s == [array |-> [i \in DOMAIN old.array |->
                                IF i <= Len(all) THEN all[i] ELSE old.array[i]],
                   len |-> Len(all)]
         IN  /\ s \in Slices /\ s.len <= Len(s.array) /\ Slice(s) = all
             /\ \A i \in 1 .. old.len : s.array[i] = old.array[i]
             /\ old.len <= s.len
<1> DEFINE a == old.array
           n == old.len
           array == [i \in DOMAIN a |-> IF i <= Len(all) THEN all[i] ELSE a[i]]
<1>1. /\ a \in Seq(AnyCookie \cup {None}) /\ n \in Nat /\ n <= Len(all)
      /\ Len(all) <= Len(a) /\ Len(a) \in Nat /\ Len(all) \in Nat
      /\ DOMAIN a = 1 .. Len(a)
      /\ \A i \in 1 .. n : all[i] = a[i]
  BY DEF Slices
<1> HIDE DEF a, n
<1>2. /\ \A i \in 1 .. Len(all) : all[i] \in AnyCookie
      /\ \A i \in 1 .. Len(a) : a[i] \in AnyCookie \cup {None}
  BY <1>1
<1>3. /\ array \in Seq(AnyCookie \cup {None}) /\ Len(array) = Len(a)
      /\ \A i \in 1 .. Len(all) : array[i] = all[i]
  BY <1>1, <1>2
<1> HIDE DEF array
<1>4. SubSeq(array, 1, Len(all)) = all
  <2>1. all \in Seq(AnyCookie \cup {None})
    BY <1>1, <1>2
  <2>2. /\ SubSeq(array, 1, Len(all)) \in Seq(AnyCookie \cup {None})
        /\ Len(SubSeq(array, 1, Len(all))) = Len(all)
        /\ \A i \in 1 .. Len(all) : SubSeq(array, 1, Len(all))[i] = all[i]
    BY <1>1, <1>3
  <2> QED
    BY <2>1, <2>2
<1>5. \A i \in 1 .. n : array[i] = a[i]
  BY <1>1, <1>3
<1>6. Len(all) <= Len(array) /\ n <= Len(all)
  BY <1>1, <1>3
<1> QED
  BY <1>1, <1>3, <1>4, <1>5, <1>6 DEF Slice, Slices, array, a, n

-----------------------------------------------------------------------------
(* The invariant *)

\* The list of a site has one cookie of a name.
OnePerName == \A k \in HostKeys : OneOfName(Slice(allCookies[k]))

\* What was handed out was no longer than the jar's slice of the same array is:
\* appends in place start behind it.
SnapshotFits ==
  snapshot # None => Len(snapshot.was) <= allCookies[snapshot.key].len

IInv ==
  /\ TypeOK
  /\ OnePerName
  /\ SnapshotFits
  /\ SnapshotsHold

\* The list of a site after SetCookies with the cookies of a list.
After(k, list) ==
  LET now == Slice(allCookies[k])
  IN  IF config.skipExisting THEN now \o Unnamed(list, now)
      ELSE Unnamed(now, list) \o list

\* Both ways to merge two lists keep the site and the names apart.
LEMMA MergedCookies ==
  ASSUME TypeOK, OnePerName, NEW h \in Hosts, NEW cookies \in Offers(h)
  PROVE  LET k == hostKey(h)
             list == unique(nonEmpty(cookies))
             now == Slice(allCookies[k])
         IN  /\ k \in HostKeys
             /\ now \in Seq(SiteCookie(k)) /\ OneOfName(now)
             /\ list \in Seq(SiteCookie(k)) /\ OneOfName(list)
             /\ After(k, list) \in Seq(SiteCookie(k))
             /\ OneOfName(After(k, list))
<1> DEFINE k == hostKey(h)
           list == unique(nonEmpty(cookies))
           now == Slice(allCookies[k])
           C == SiteCookie(k)
<1>1. k \in HostKeys
  BY DEF HostKeys
<1>2. cookies \in Seq(C)
  <2>1. cookies \in Seq(Cookie(h))
    BY CookieJarAssumption
  <2>2. Cookie(h) \subseteq C
    BY DEF SiteCookie
  <2> HIDE DEF C
  <2>3. \A i \in 1 .. Len(cookies) : cookies[i] \in Cookie(h)
    BY <2>1
  <2> QED
    BY <2>1, <2>2, <2>3
<1>3. now \in Seq(C) /\ OneOfName(now)
  BY <1>1 DEF TypeOK, OnePerName
<1> HIDE DEF k, C, now
<1>4. list \in Seq(C) /\ OneOfName(list)
  BY <1>2, OfferedCookies
<1> HIDE DEF list
<1>5. now \o Unnamed(list, now) \in Seq(C) /\ OneOfName(now \o Unnamed(list, now))
  <2> DEFINE new == Unnamed(list, now)
  <2>1. /\ new \in Seq(C) /\ OneOfName(new)
        /\ \A j \in DOMAIN new : ~HasName(now, new[j].name)
    BY <1>4, UnnamedCookies
  <2> HIDE DEF new
  <2>2. \A i \in DOMAIN now, j \in DOMAIN new : now[i].name # new[j].name
    BY <2>1 DEF HasName
  <2>3. now \o new \in Seq(C)
    BY <1>3, <2>1
  <2>4. OneOfName(now \o new)
    BY <1>3, <2>1, <2>2, JoinedNames
  <2> QED
    BY <2>3, <2>4 DEF new
<1>6. /\ Unnamed(now, list) \o list \in Seq(C)
      /\ OneOfName(Unnamed(now, list) \o list)
  <2> DEFINE rest == Unnamed(now, list)
  <2>1. /\ rest \in Seq(C) /\ OneOfName(rest)
        /\ \A j \in DOMAIN rest : ~HasName(list, rest[j].name)
    BY <1>3, UnnamedCookies
  <2> HIDE DEF rest
  <2>2. \A i \in DOMAIN rest, j \in DOMAIN list : rest[i].name # list[j].name
    BY <2>1 DEF HasName
  <2>3. rest \o list \in Seq(C)
    BY <1>4, <2>1
  <2>4. OneOfName(rest \o list)
    BY <1>4, <2>1, <2>2, JoinedNames
  <2> QED
    BY <2>3, <2>4 DEF rest
<1>7. After(k, list) \in Seq(C) /\ OneOfName(After(k, list))
  <2>1. After(k, list) = IF config.skipExisting THEN now \o Unnamed(list, now)
                         ELSE Unnamed(now, list) \o list
    BY DEF After, now
  <2> QED
    BY <1>5, <1>6, <2>1
<1> QED
  BY <1>1, <1>3, <1>4, <1>7 DEF k, C, now, list

\* What SetCookies does to the arrays.  Either the list of the site gets a new one,
\* and snapshots of it are left alone, or what it had stays in place.
LEMMA SetCookiesStep ==
  ASSUME IInv, NEW h \in Hosts, NEW cookies \in Offers(h), SetCookies(h, cookies)
  PROVE  LET k == hostKey(h)
             list == unique(nonEmpty(cookies))
         IN  /\ config \in Configs
             /\ allCookies' \in [HostKeys -> Slices]
             /\ \A j \in HostKeys : j # k => allCookies'[j] = allCookies[j]
             /\ allCookies'[k].len <= Len(allCookies'[k].array)
             /\ Slice(allCookies'[k]) = After(k, list)
             /\ \/ snapshot' = IF snapshot # None /\ snapshot.key = k
                               THEN None ELSE snapshot
                \/ /\ snapshot' = snapshot
                   /\ allCookies[k].len <= allCookies'[k].len
                   /\ \A i \in 1 .. allCookies[k].len :
                        allCookies'[k].array[i] = allCookies[k].array[i]
<1> DEFINE k == hostKey(h)
           list == unique(nonEmpty(cookies))
           now == Slice(allCookies[k])
           all == After(k, list)
<1>1. k \in HostKeys /\ list \in Seq(SiteCookie(k)) /\ now \in Seq(SiteCookie(k))
      /\ all \in Seq(SiteCookie(k))
  BY MergedCookies DEF IInv
<1>2. config \in Configs
  BY DEF IInv, TypeOK, SetCookies
<1>3. /\ allCookies \in [HostKeys -> Slices]
      /\ allCookies[k] \in Slices /\ allCookies[k].len <= Len(allCookies[k].array)
  BY <1>1 DEF IInv, TypeOK, Slices
<1>4. all \in Seq(AnyCookie)
  <2>1. SiteCookie(k) \subseteq AnyCookie
    BY DEF SiteCookie, AnyCookie
  <2>2. \A i \in 1 .. Len(all) : all[i] \in SiteCookie(k)
    BY <1>1
  <2> QED
    BY <1>1, <2>1, <2>2
<1>5. \/ ~config.skipExisting /\ Overwrite(k, list)
      \/ config.skipExisting /\ SkipExisting(k, list)
  BY DEF SetCookies
<1> HIDE DEF k, list
<1>6. ASSUME NEW spare \in Nat, NewArray(k, all, spare)
      PROVE  /\ allCookies' \in [HostKeys -> Slices]
             /\ \A j \in HostKeys : j # k => allCookies'[j] = allCookies[j]
             /\ allCookies'[k].len <= Len(allCookies'[k].array)
             /\ Slice(allCookies'[k]) = all
             /\ snapshot' = IF snapshot # None /\ snapshot.key = k
                            THEN None ELSE snapshot
  <2> DEFINE s == [array |-> all \o [i \in 1 .. spare |-> None],
                   len |-> Len(all)]
  <2>1. s \in Slices /\ s.len <= Len(s.array) /\ Slice(s) = all
    BY <1>4, NewSlice
  <2>2. allCookies' = [allCookies EXCEPT ![k] = s]
    BY <1>6 DEF NewArray
  <2>3. snapshot' = IF snapshot # None /\ snapshot.key = k
                    THEN None ELSE snapshot
    BY <1>6 DEF NewArray, LeaveArray
  <2> HIDE DEF s, all
  <2> QED
    BY <1>1, <1>3, <2>1, <2>2, <2>3
<1>7. CASE ~config.skipExisting /\ Overwrite(k, list)
  <2>1. NewArray(k, all, 0)
    BY <1>7 DEF Overwrite, After
  <2> QED
    BY <1>2, <1>6, <2>1 DEF k, list
<1>8. CASE config.skipExisting /\ SkipExisting(k, list)
  <2>1. all = now \o Unnamed(list, now)
    BY <1>8 DEF After
  <2>2. \/ /\ Len(allCookies[k].array) >= Len(all)
           /\ allCookies' = [allCookies EXCEPT ![k] =
                [array |-> [i \in DOMAIN allCookies[k].array |->
                              IF i <= Len(all) THEN all[i]
                              ELSE allCookies[k].array[i]],
                 len |-> Len(all)]]
           /\ UNCHANGED snapshot
        \/ \E spare \in 0 .. MaxSpare : NewArray(k, all, spare)
    BY <1>8, <2>1 DEF SkipExisting
  <2>3. CASE \E spare \in 0 .. MaxSpare : NewArray(k, all, spare)
    <3>1. PICK spare \in 0 .. MaxSpare : NewArray(k, all, spare)
      BY <2>3
    <3>2. spare \in Nat
      BY CookieJarAssumption
    <3> QED
      BY <1>2, <1>6, <3>1, <3>2 DEF k, list
  <2>4. CASE /\ Len(allCookies[k].array) >= Len(all)
             /\ allCookies' = [allCookies EXCEPT ![k] =
                  [array |-> [i \in DOMAIN allCookies[k].array |->
                                IF i <= Len(all) THEN all[i]
                                ELSE allCookies[k].array[i]],
                   len |-> Len(all)]]
             /\ UNCHANGED snapshot
    <3> DEFINE old == allCookies[k]
               s == [array |-> [i \in DOMAIN old.array |->
                                  IF i <= Len(all) THEN all[i] ELSE old.array[i]],
                     len |-> Len(all)]
    <3>1. /\ Len(now) = old.len /\ old.len \in Nat
          /\ \A i \in 1 .. old.len : now[i] = old.array[i]
      BY <1>3, SliceIs DEF Slices
    <3>2. Unnamed(list, now) \in Seq(SiteCookie(k))
      BY <1>1, UnnamedCookies
    <3>3. old.len <= Len(all) /\ \A i \in 1 .. old.len : all[i] = old.array[i]
      <4> DEFINE new == Unnamed(list, now)
      <4>1. /\ Len(now \o new) = Len(now) + Len(new) /\ Len(new) \in Nat
            /\ \A i \in 1 .. Len(now) : (now \o new)[i] = now[i]
        BY <1>1, <3>2
      <4> QED
        BY <2>1, <3>1, <4>1
    <3> HIDE DEF all, now
    <3>4. /\ s \in Slices /\ s.len <= Len(s.array) /\ Slice(s) = all
          /\ \A i \in 1 .. old.len : s.array[i] = old.array[i]
          /\ old.len <= s.len
      BY <1>3, <1>4, <2>4, <3>3, SliceInPlace
    <3>5. allCookies' = [allCookies EXCEPT ![k] = s]
      BY <2>4
    <3> HIDE DEF s
    <3>6. /\ allCookies' \in [HostKeys -> Slices] /\ allCookies'[k] = s
          /\ \A j \in HostKeys : j # k => allCookies'[j] = allCookies[j]
      BY <1>1, <1>3, <3>4, <3>5
    <3> QED
      BY <1>2, <2>4, <3>4, <3>6 DEF k, list, all
  <2> QED
    BY <2>2, <2>3, <2>4
<1> QED
  BY <1>5, <1>7, <1>8 DEF k, list

\* A jar without cookies.
LEMMA EmptyJar ==
  /\ Empty \in [HostKeys -> Slices]
  /\ \A k \in HostKeys :
       /\ Empty[k].len <= Len(Empty[k].array)
       /\ Slice(Empty[k]) \in Seq(SiteCookie(k))
       /\ OneOfName(Slice(Empty[k]))
<1>1. Nil \in Slices /\ Nil.len <= Len(Nil.array)
  BY DEF Nil, Slices
<1>2. Slice(Nil) = << >>
  BY DEF Slice, Nil
<1>3. \A X : << >> \in Seq(X)
  OBVIOUS
<1>4. OneOfName(<< >>)
  BY DEF OneOfName
<1>5. Empty = [k \in HostKeys |-> Nil]
  BY DEF Empty
<1> QED
  BY <1>1, <1>2, <1>3, <1>4, <1>5

\* The cookies of a site are cookies.
LEMMA SiteCookiesAreCookies ==
  ASSUME NEW k, NEW list \in Seq(SiteCookie(k))
  PROVE  list \in Seq(AnyCookie)
<1>1. SiteCookie(k) \subseteq AnyCookie
  BY DEF SiteCookie, AnyCookie
<1>2. \A i \in 1 .. Len(list) : list[i] \in SiteCookie(k)
  OBVIOUS
<1> QED
  BY <1>1, <1>2

\* NewCookieJar makes a jar without cookies.
LEMMA InitInv == Init => IInv
<1> SUFFICES ASSUME Init PROVE IInv
  OBVIOUS
<1>1. allCookies = Empty /\ config \in Configs \cup {None}
      /\ snapshot = None /\ sent = None
  BY DEF Init, NewCookieJar
<1> QED
  BY <1>1, EmptyJar
  DEF IInv, TypeOK, OnePerName, SnapshotFits, SnapshotsHold, Slices

\* A slice that is handed out, and what may happen to it, as long as nothing is
\* written to the part that it has.
LEMMA SnapshotStays ==
  ASSUME NEW old \in Slices, NEW new \in Slices,
         old.len <= Len(old.array), new.len <= Len(new.array),
         old.len <= new.len,
         \A i \in 1 .. old.len : new.array[i] = old.array[i],
         NEW was \in Seq(AnyCookie), Len(was) <= old.len,
         SubSeq(old.array, 1, Len(was)) = was
  PROVE  SubSeq(new.array, 1, Len(was)) = was
<1> DEFINE a == old.array
           b == new.array
           n == Len(was)
<1>1. /\ a \in Seq(AnyCookie \cup {None}) /\ b \in Seq(AnyCookie \cup {None})
      /\ old.len \in Nat /\ new.len \in Nat /\ Len(a) \in Nat /\ Len(b) \in Nat
      /\ n \in Nat
  BY DEF Slices
<1>2. n <= Len(a) /\ n <= Len(b) /\ \A i \in 1 .. n : b[i] = a[i]
  BY <1>1
<1> HIDE DEF a, b
<1>3. SubSeq(a, 1, n) = was
  BY DEF a
<1>4. \A i \in 1 .. n : SubSeq(a, 1, n)[i] = a[i] /\ SubSeq(b, 1, n)[i] = b[i]
  BY <1>1, <1>2
<1>5. SubSeq(b, 1, n) \in Seq(AnyCookie \cup {None}) /\ Len(SubSeq(b, 1, n)) = n
  BY <1>1, <1>2
<1>6. was \in Seq(AnyCookie \cup {None})
  OBVIOUS
<1>7. SubSeq(b, 1, n) = was
  BY <1>1, <1>2, <1>3, <1>4, <1>5, <1>6
<1> QED
  BY <1>7 DEF b

\* SetCookies keeps the invariant, with a new array or in place.
LEMMA SetCookiesInv ==
  ASSUME IInv, NEW h \in Hosts, NEW cookies \in Offers(h), SetCookies(h, cookies)
  PROVE  IInv'
<1> DEFINE k == hostKey(h)
           list == unique(nonEmpty(cookies))
<1>1. /\ allCookies' \in [HostKeys -> Slices]
      /\ \A j \in HostKeys : j # k => allCookies'[j] = allCookies[j]
      /\ allCookies'[k].len <= Len(allCookies'[k].array)
      /\ Slice(allCookies'[k]) = After(k, list)
      /\ \/ snapshot' = IF snapshot # None /\ snapshot.key = k
                        THEN None ELSE snapshot
         \/ /\ snapshot' = snapshot
            /\ allCookies[k].len <= allCookies'[k].len
            /\ \A i \in 1 .. allCookies[k].len :
                 allCookies'[k].array[i] = allCookies[k].array[i]
  BY SetCookiesStep
<1>2. /\ k \in HostKeys /\ After(k, list) \in Seq(SiteCookie(k))
      /\ OneOfName(After(k, list))
  BY MergedCookies DEF IInv
<1> HIDE DEF k, list
<1>3. config' = config /\ sent' = None
  BY DEF SetCookies
<1>4. /\ allCookies \in [HostKeys -> Slices]
      /\ config \in Configs \cup {None}
      /\ snapshot \in [key : HostKeys, was : Seq(AnyCookie)] \cup {None}
      /\ \A j \in HostKeys :
           /\ allCookies[j].len <= Len(allCookies[j].array)
           /\ Slice(allCookies[j]) \in Seq(SiteCookie(j))
  BY DEF IInv, TypeOK, Slices
<1>5. ASSUME NEW j \in HostKeys
      PROVE  /\ allCookies'[j].len <= Len(allCookies'[j].array)
             /\ Slice(allCookies'[j]) \in Seq(SiteCookie(j))
             /\ OneOfName(Slice(allCookies'[j]))
  <2>1. CASE j = k
    BY <1>1, <1>2, <2>1
  <2>2. CASE j # k
    BY <1>1, <1>4, <2>2 DEF IInv, OnePerName
  <2> QED
    BY <2>1, <2>2
<1>6. snapshot' \in {snapshot, None}
  BY <1>1
<1>7. TypeOK'
  BY <1>1, <1>3, <1>4, <1>5, <1>6 DEF TypeOK, Slices
<1>8. OnePerName'
  BY <1>5 DEF OnePerName
<1>9. ASSUME snapshot' # None
      PROVE  /\ Len(snapshot'.was) <= allCookies'[snapshot'.key].len
             /\ SubSeq(allCookies'[snapshot'.key].array, 1, Len(snapshot'.was))
                  = snapshot'.was
  <2>1. snapshot' = snapshot /\ snapshot # None
    BY <1>6, <1>9
  <2>2. snapshot.key \in HostKeys /\ snapshot.was \in Seq(AnyCookie)
    BY <1>4, <2>1
  <2>3. /\ Len(snapshot.was) <= allCookies[snapshot.key].len
        /\ SubSeq(allCookies[snapshot.key].array, 1, Len(snapshot.was))
             = snapshot.was
    BY <2>1 DEF IInv, SnapshotFits, SnapshotsHold
  <2>4. CASE snapshot.key # k
    <3>1. allCookies'[snapshot.key] = allCookies[snapshot.key]
      BY <1>1, <2>2, <2>4
    <3> QED
      BY <2>1, <2>3, <3>1
  <2>5. CASE snapshot.key = k
    <3> DEFINE old == allCookies[k]
               new == allCookies'[k]
               was == snapshot.was
    <3>1. /\ old.len <= new.len
          /\ \A i \in 1 .. old.len : new.array[i] = old.array[i]
      BY <1>1, <1>9, <2>1, <2>5
    <3>2. /\ old \in Slices /\ new \in Slices
          /\ old.len <= Len(old.array) /\ new.len <= Len(new.array)
          /\ old.len \in Nat /\ new.len \in Nat
      BY <1>1, <1>2, <1>4 DEF Slices
    <3>3. /\ was \in Seq(AnyCookie) /\ Len(was) <= old.len
          /\ SubSeq(old.array, 1, Len(was)) = was /\ Len(was) \in Nat
      BY <2>2, <2>3, <2>5
    <3> HIDE DEF old, new, was
    <3>4. SubSeq(new.array, 1, Len(was)) = was
      BY <3>1, <3>2, <3>3, SnapshotStays
    <3>5. Len(was) <= new.len
      BY <3>1, <3>2, <3>3
    <3> QED
      BY <2>1, <2>5, <3>4, <3>5 DEF new, was
  <2> QED
    BY <2>4, <2>5
<1> QED
  BY <1>7, <1>8, <1>9 DEF IInv, SnapshotFits, SnapshotsHold

\* Cookies keeps the invariant: what it returns is of the host's site.
LEMMA SendCookiesInv ==
  ASSUME IInv, NEW h \in Hosts, SendCookies(h)
  PROVE  IInv'
<1> DEFINE k == hostKey(h)
           now == Slice(allCookies[k])
           K == {i \in DOMAIN now : now[i].alive}
<1>1. k \in HostKeys
  BY DEF HostKeys
<1>2. now \in Seq(SiteCookie(k))
  BY <1>1 DEF IInv, TypeOK
<1>3. sent' = [host |-> h, cookies |-> Keep(now, K)]
  BY DEF SendCookies, notExpired
<1>4. K \in SUBSET DOMAIN now
  OBVIOUS
<1> HIDE DEF now, K
<1>5. Keep(now, K) \in Seq(SiteCookie(k))
  BY <1>2, <1>4, KeptElements
<1>6. Keep(now, K) \in Seq(AnyCookie)
  BY <1>5, SiteCookiesAreCookies
<1>7. /\ sent' \in [host : Hosts, cookies : Seq(AnyCookie)] \cup {None}
      /\ sent'.cookies \in Seq(SiteCookie(hostKey(sent'.host)))
  BY <1>3, <1>5, <1>6
<1>8. UNCHANGED <<config, allCookies, snapshot>>
  BY DEF SendCookies
<1>9. TypeOK'
  BY <1>7, <1>8 DEF IInv, TypeOK
<1> QED
  BY <1>8, <1>9 DEF IInv, OnePerName, SnapshotFits, SnapshotsHold

\* GetAllCookies keeps the invariant: what it hands out is what is there.
LEMMA GetAllCookiesInv ==
  ASSUME IInv, NEW k \in HostKeys, GetAllCookies(k)
  PROVE  IInv'
<1> DEFINE now == Slice(allCookies[k])
<1>1. /\ now \in Seq(SiteCookie(k)) /\ allCookies[k] \in Slices
      /\ allCookies[k].len <= Len(allCookies[k].array)
      /\ allCookies[k].len \in Nat
  BY DEF IInv, TypeOK, Slices
<1>2. now \in Seq(AnyCookie)
  BY <1>1, SiteCookiesAreCookies
<1>3. Len(now) = allCookies[k].len
  BY <1>1, SliceIs
<1>4. /\ snapshot' = [key |-> k, was |-> now] /\ sent' = None
      /\ UNCHANGED <<config, allCookies>>
  BY DEF GetAllCookies
<1>5. SubSeq(allCookies[k].array, 1, Len(now)) = now
  BY <1>3 DEF Slice
<1> HIDE DEF now
<1>6. TypeOK'
  BY <1>2, <1>4 DEF IInv, TypeOK
<1>7. OnePerName'
  BY <1>4 DEF IInv, OnePerName
<1>8. SnapshotFits' /\ SnapshotsHold'
  BY <1>1, <1>3, <1>4, <1>5 DEF SnapshotFits, SnapshotsHold
<1> QED
  BY <1>6, <1>7, <1>8 DEF IInv

\* So does another jar.
LEMMA SetCookieJarInv ==
  ASSUME NEW cfg, SetCookieJar(cfg)
  PROVE  IInv'
<1>1. /\ allCookies' = Empty /\ config' \in Configs \cup {None}
      /\ snapshot' = None /\ sent' = None
  BY DEF SetCookieJar, NewCookieJar
<1> QED
  BY <1>1, EmptyJar
  DEF IInv, TypeOK, OnePerName, SnapshotFits, SnapshotsHold, Slices

\* The invariant is inductive.
THEOREM Invariance == Spec => []IInv
<1>1. ASSUME IInv, [Next]_vars PROVE IInv'
  <2>1. ASSUME NEW h \in Hosts, NEW cookies \in Offers(h), SetCookies(h, cookies)
        PROVE  IInv'
    BY <1>1, <2>1, SetCookiesInv
  <2>2. ASSUME NEW h \in Hosts, SendCookies(h) PROVE IInv'
    BY <1>1, <2>2, SendCookiesInv
  <2>3. ASSUME NEW k \in HostKeys, GetAllCookies(k) PROVE IInv'
    BY <1>1, <2>3, GetAllCookiesInv
  <2>4. ASSUME NEW cfg, SetCookieJar(cfg) PROVE IInv'
    BY <2>4, SetCookieJarInv
  <2>5. CASE UNCHANGED vars
    BY <1>1, <2>5
    DEF vars, IInv, TypeOK, OnePerName, SnapshotFits, SnapshotsHold
  <2> QED
    BY <1>1, <2>1, <2>2, <2>3, <2>4, <2>5 DEF Next
<1> QED
  BY InitInv, <1>1, PTL DEF Spec

\* For the caller of GetAllCookies: whatever responses are appended to the arrays
\* of the slices it got, and however large these are, what it reads stays as it
\* was when the jar's mutex was released.
THEOREM SnapshotsAreStable == Spec => []SnapshotsHold
<1>1. IInv => SnapshotsHold
  BY DEF IInv
<1> QED
  BY Invariance, <1>1, PTL

\* Hosts with the same key have the same last two labels.
LEMMA SameKeySameSite ==
  ASSUME NEW g \in Hosts, NEW h \in Hosts, hostKey(g) = hostKey(h)
  PROVE  SubSeq(g, Len(g) - 1, Len(g)) = SubSeq(h, Len(h) - 1, Len(h))
<1>1. /\ g \in Seq({g[i] : i \in DOMAIN g})
      /\ h \in Seq({h[i] : i \in DOMAIN h})
  BY CookieJarAssumption
<1>2. ASSUME NEW X, NEW f \in Seq(X), Len(f) \in {2, 3}
      PROVE  Len(SubSeq(f, Len(f) - 1, Len(f))) = 2
  BY <1>2
<1>3. CASE Len(g) \in {2, 3} /\ Len(h) \in {2, 3}
  BY <1>3 DEF hostKey
<1>4. CASE Len(g) \in {2, 3} /\ Len(h) \notin {2, 3}
  <2>1. Len(hostKey(g)) = 2 /\ hostKey(h) = h
    BY <1>1, <1>2, <1>4 DEF hostKey
  <2> QED
    BY <1>4, <2>1
<1>5. CASE Len(g) \notin {2, 3} /\ Len(h) \in {2, 3}
  <2>1. Len(hostKey(h)) = 2 /\ hostKey(g) = g
    BY <1>1, <1>2, <1>5 DEF hostKey
  <2> QED
    BY <1>5, <2>1
<1>6. CASE Len(g) \notin {2, 3} /\ Len(h) \notin {2, 3}
  BY <1>6 DEF hostKey
<1> QED
  BY <1>3, <1>4, <1>5, <1>6

\* For SetCookies and Cookies: after any mix of responses, options and jars, a site
\* has one cookie of a name, and a request carries only cookies that hosts with
\* the same last two labels have set, whatever hosts there are.
THEOREM SitesKeepTheirCookies == Spec => []SiteHasItsCookies
<1>1. ASSUME IInv PROVE SiteHasItsCookies
  <2>1. ASSUME sent # None, NEW i \in DOMAIN sent.cookies,
               sent.cookies[i].value # None
        PROVE  LET v == sent.cookies[i].value
               IN  SubSeq(v, Len(v) - 1, Len(v))
                     = SubSeq(sent.host, Len(sent.host) - 1, Len(sent.host))
    <3>1. /\ sent.host \in Hosts
          /\ sent.cookies \in Seq(SiteCookie(hostKey(sent.host)))
      BY <1>1, <2>1 DEF IInv, TypeOK
    <3>2. sent.cookies[i] \in SiteCookie(hostKey(sent.host))
      BY <3>1
    <3>3. PICK g \in Hosts : /\ hostKey(g) = hostKey(sent.host)
                             /\ sent.cookies[i] \in Cookie(g)
      BY <3>2 DEF SiteCookie
    <3>4. sent.cookies[i].value = g
      BY <2>1, <3>3 DEF Cookie
    <3> QED
      BY <3>1, <3>3, <3>4, SameKeySameSite
  <2>2. OnePerName
    BY <1>1 DEF IInv
  <2> QED
    BY <2>1, <2>2 DEF SiteHasItsCookies, OnePerName, OneOfName
<1> QED
  BY Invariance, <1>1, PTL

-----------------------------------------------------------------------------
(* The jar implements CookieStore *)

\* If names are different, every cookie of a list is the one held by its name.
LEMMA HeldIs ==
  ASSUME NEW list, OneOfName(list), NEW i \in DOMAIN list
  PROVE  HeldIn(list, list[i].name) = list[i]
<1> DEFINE n == list[i].name
           x == CHOOSE j \in DOMAIN list : list[j].name = n
<1>1. x \in DOMAIN list /\ list[x].name = n
  BY Zenon
<1>2. x = i
  BY <1>1 DEF OneOfName
<1>3. HasName(list, n)
  BY DEF HasName
<1> QED
  BY <1>2, <1>3 DEF HeldIn

\* Nothing is held by a name that is not in the list.
LEMMA NotHeld ==
  ASSUME NEW list, NEW n, ~HasName(list, n)
  PROVE  HeldIn(list, n) = None
BY DEF HeldIn

\* A cookie that is held is in the list.
LEMMA HeldIsThere ==
  ASSUME NEW list, NEW n, HasName(list, n)
  PROVE  \E i \in DOMAIN list : list[i].name = n /\ HeldIn(list, n) = list[i]
<1> DEFINE x == CHOOSE j \in DOMAIN list : list[j].name = n
<1>1. x \in DOMAIN list /\ list[x].name = n
  BY Zenon DEF HasName
<1> QED
  BY <1>1 DEF HeldIn

\* The greatest of a set, if it is known.
LEMMA MaxIs ==
  ASSUME NEW S \in SUBSET Nat, NEW p \in S, \A q \in S : q <= p
  PROVE  Max(S) = p
<1> DEFINE m == CHOOSE x \in S : \A y \in S : x >= y
<1>1. \E x \in S : \A y \in S : x >= y
  <2>1. \A y \in S : p >= y
    OBVIOUS
  <2> QED
    BY <2>1
<1>2. m \in S /\ \A y \in S : m >= y
  BY <1>1, Zenon
<1>3. m = p
  <2>1. m >= p /\ m <= p
    BY <1>2
  <2>2. m \in Nat /\ p \in Nat
    BY <1>2
  <2> QED
    BY <2>1, <2>2
<1> QED
  BY <1>3 DEF Max

\* What a site holds after SetCookies is what Store says, name by name.
LEMMA MergedHolds ==
  ASSUME TypeOK, OnePerName, NEW h \in Hosts, NEW cookies \in Offers(h), NEW n
  PROVE  LET k == hostKey(h)
             now == Slice(allCookies[k])
             all == After(k, unique(nonEmpty(cookies)))
         IN  HeldIn(all, n) =
               IF \/ Candidates(cookies, n) = {}
                  \/ config.skipExisting /\ HeldIn(now, n) # None
               THEN HeldIn(now, n)
               ELSE cookies[Max(Candidates(cookies, n))]
<1> DEFINE k == hostKey(h)
           now == Slice(allCookies[k])
           list == unique(nonEmpty(cookies))
           all == After(k, list)
           C == SiteCookie(k)
           some == Candidates(cookies, n)
<1>1. /\ now \in Seq(C) /\ OneOfName(now) /\ list \in Seq(C) /\ OneOfName(list)
      /\ all \in Seq(C) /\ OneOfName(all)
  BY MergedCookies
<1>2. cookies \in Seq(Cookie(h))
  BY CookieJarAssumption
<1>3. /\ \A j \in DOMAIN list :
           \E p \in Candidates(cookies, list[j].name) :
             /\ list[j] = cookies[p]
             /\ \A q \in Candidates(cookies, list[j].name) : q <= p
      /\ Candidates(cookies, n) # {} => HasName(list, n)
  BY <1>2, OfferedCookies
<1>4. some \in SUBSET Nat
  BY <1>2 DEF Candidates
<1>5. all = IF config.skipExisting THEN now \o Unnamed(list, now)
            ELSE Unnamed(now, list) \o list
  BY DEF After
<1>6. None \notin C
  BY NoneAssumption DEF SiteCookie, AnyCookie
<1> HIDE DEF k, now, list, all, C
<1>7. \A j \in DOMAIN list : list[j].name = n => list[j] = cookies[Max(some)]
  <2> SUFFICES ASSUME NEW j \in DOMAIN list, list[j].name = n
               PROVE  list[j] = cookies[Max(some)]
    OBVIOUS
  <2>1. PICK p \in some : list[j] = cookies[p] /\ \A q \in some : q <= p
    BY <1>3
  <2>2. Max(some) = p
    BY <1>4, <2>1, MaxIs
  <2> QED
    BY <2>1, <2>2
<1>8. HasName(list, n) <=> some # {}
  BY <1>3 DEF HasName
<1> HIDE DEF some
<1>9. HeldIn(now, n) # None <=> HasName(now, n)
  <2>1. ASSUME HasName(now, n) PROVE HeldIn(now, n) # None
    <3>1. PICK i \in DOMAIN now : now[i].name = n /\ HeldIn(now, n) = now[i]
      BY <2>1, HeldIsThere
    <3>2. now[i] \in C
      BY <1>1
    <3> QED
      BY <1>6, <3>1, <3>2
  <2> QED
    BY <2>1, NotHeld
<1>10. \* a name that is in a part of the merged list
       ASSUME NEW e, e.name = n, \E j \in DOMAIN all : all[j] = e
       PROVE  HeldIn(all, n) = e
  <2>1. PICK j \in DOMAIN all : all[j] = e
    BY <1>10
  <2> QED
    BY <1>1, <1>10, <2>1, HeldIs
<1>11. CASE config.skipExisting
  <2> DEFINE new == Unnamed(list, now)
  <2>1. /\ new \in Seq(C)
        /\ \A j \in DOMAIN new : \E p \in DOMAIN list : new[j] = list[p]
        /\ \A p \in DOMAIN list :
             ~HasName(now, list[p].name) => \E j \in DOMAIN new : new[j] = list[p]
    <3> HIDE DEF new
    <3>1. /\ new \in Seq(C)
          /\ \A j \in DOMAIN new : /\ ~HasName(now, new[j].name)
                                   /\ \E p \in DOMAIN list : new[j] = list[p]
          /\ \A p \in DOMAIN list :
               ~HasName(now, list[p].name) => \E j \in DOMAIN new : new[j] = list[p]
      <4>1. list \in Seq(C)
        BY <1>1
      <4> QED
        BY <4>1, UnnamedCookies DEF new
    <3> QED
      BY <3>1, Zenon
  <2> HIDE DEF new
  <2>2. /\ all = now \o new
        /\ \A j \in DOMAIN all :
             \/ j \in DOMAIN now /\ all[j] = now[j]
             \/ \E i \in DOMAIN new : all[j] = new[i]
        /\ \A i \in DOMAIN now : i \in DOMAIN all /\ all[i] = now[i]
        /\ \A i \in DOMAIN new : \E j \in DOMAIN all : all[j] = new[i]
    <3>1. all = now \o new
      BY <1>5, <1>11 DEF new
    <3>2. /\ \A j \in DOMAIN (now \o new) :
               \/ j \in DOMAIN now /\ (now \o new)[j] = now[j]
               \/ \E i \in DOMAIN new :
                    j = Len(now) + i /\ (now \o new)[j] = new[i]
          /\ \A i \in DOMAIN now :
               i \in DOMAIN (now \o new) /\ (now \o new)[i] = now[i]
          /\ \A i \in DOMAIN new : /\ Len(now) + i \in DOMAIN (now \o new)
                                   /\ (now \o new)[Len(now) + i] = new[i]
      <4>1. now \in Seq(C) /\ new \in Seq(C)
        BY <1>1, <2>1
      <4> QED
        BY <4>1, JoinedCookies
    <3> QED
      BY <3>1, <3>2, Zenon
  <2>3. CASE HasName(now, n)
    <3>1. PICK i \in DOMAIN now : now[i].name = n /\ HeldIn(now, n) = now[i]
      BY <2>3, HeldIsThere
    <3>2. HeldIn(all, n) = now[i]
      BY <1>10, <2>2, <3>1
    <3> QED
      BY <1>9, <1>11, <2>3, <3>1, <3>2 DEF k, now, list, all, some
  <2>4. CASE ~HasName(now, n) /\ HasName(list, n)
    <3>1. PICK p \in DOMAIN list : list[p].name = n
      BY <2>4 DEF HasName
    <3>2. PICK i \in DOMAIN new : new[i] = list[p]
      BY <2>1, <2>4, <3>1
    <3>3. HeldIn(all, n) = list[p]
      BY <1>10, <2>2, <3>1, <3>2
    <3>4. HeldIn(all, n) = cookies[Max(some)]
      BY <1>7, <3>1, <3>3
    <3> QED
      BY <1>8, <1>9, <2>4, <3>4 DEF k, now, list, all, some
  <2>5. CASE ~HasName(now, n) /\ ~HasName(list, n)
    <3>1. ~HasName(all, n)
      BY <2>1, <2>2, <2>5 DEF HasName
    <3>2. HeldIn(all, n) = None /\ HeldIn(now, n) = None
      BY <2>5, <3>1, NotHeld
    <3> QED
      BY <1>8, <2>5, <3>2 DEF k, now, list, all, some
  <2> QED
    BY <2>3, <2>4, <2>5
<1>12. CASE ~config.skipExisting
  <2> DEFINE rest == Unnamed(now, list)
  <2>1. /\ rest \in Seq(C)
        /\ \A j \in DOMAIN rest : \E p \in DOMAIN now : rest[j] = now[p]
        /\ \A p \in DOMAIN now :
             ~HasName(list, now[p].name) => \E j \in DOMAIN rest : rest[j] = now[p]
    BY <1>1, UnnamedCookies
  <2> HIDE DEF rest
  <2>2. /\ \A j \in DOMAIN all :
             \/ \E i \in DOMAIN rest : all[j] = rest[i]
             \/ \E i \in DOMAIN list : all[j] = list[i]
        /\ \A i \in DOMAIN rest : \E j \in DOMAIN all : all[j] = rest[i]
        /\ \A i \in DOMAIN list : \E j \in DOMAIN all : all[j] = list[i]
    <3>1. all = rest \o list
      BY <1>5, <1>12 DEF rest
    <3>2. /\ \A j \in DOMAIN (rest \o list) :
               \/ j \in DOMAIN rest /\ (rest \o list)[j] = rest[j]
               \/ \E i \in DOMAIN list :
                    j = Len(rest) + i /\ (rest \o list)[j] = list[i]
          /\ \A i \in DOMAIN rest :
               i \in DOMAIN (rest \o list) /\ (rest \o list)[i] = rest[i]
          /\ \A i \in DOMAIN list : /\ Len(rest) + i \in DOMAIN (rest \o list)
                                    /\ (rest \o list)[Len(rest) + i] = list[i]
      <4>1. rest \in Seq(C) /\ list \in Seq(C)
        BY <1>1, <2>1
      <4> QED
        BY <4>1, JoinedCookies
    <3> QED
      BY <3>1, <3>2, Zenon
  <2>3. CASE HasName(list, n)
    <3>1. PICK p \in DOMAIN list : list[p].name = n
      BY <2>3 DEF HasName
    <3>2. HeldIn(all, n) = list[p]
      BY <1>10, <2>2, <3>1
    <3>3. HeldIn(all, n) = cookies[Max(some)]
      BY <1>7, <3>1, <3>2
    <3> QED
      BY <1>8, <1>12, <2>3, <3>3 DEF k, now, list, all, some
  <2>4. CASE ~HasName(list, n) /\ HasName(now, n)
    <3>1. PICK i \in DOMAIN now : now[i].name = n /\ HeldIn(now, n) = now[i]
      BY <2>4, HeldIsThere
    <3>2. PICK j \in DOMAIN rest : rest[j] = now[i]
      BY <2>1, <2>4, <3>1
    <3>3. HeldIn(all, n) = now[i]
      BY <1>10, <2>2, <3>1, <3>2
    <3> QED
      BY <1>8, <2>4, <3>1, <3>3 DEF k, now, list, all, some
  <2>5. CASE ~HasName(list, n) /\ ~HasName(now, n)
    <3>1. ~HasName(all, n)
      BY <2>1, <2>2, <2>5 DEF HasName
    <3>2. HeldIn(all, n) = None /\ HeldIn(now, n) = None
      BY <2>5, <3>1, NotHeld
    <3> QED
      BY <1>8, <2>5, <3>2 DEF k, now, list, all, some
  <2> QED
    BY <2>3, <2>4, <2>5
<1> QED
  BY <1>11, <1>12

\* What a request carries is what Send says.
LEMMA SentIsHeld ==
  ASSUME NEW k, NEW list \in Seq(SiteCookie(k)), OneOfName(list)
  PROVE  ToSet(notExpired(list)) =
           {HeldIn(list, n) : n \in {m \in Names : /\ HeldIn(list, m) # None
                                                   /\ HeldIn(list, m).alive}}
<1> DEFINE K == {i \in DOMAIN list : list[i].alive}
           living == {m \in Names : HeldIn(list, m) # None /\ HeldIn(list, m).alive}
<1>1. K \in SUBSET DOMAIN list /\ notExpired(list) = Keep(list, K)
  BY DEF notExpired
<1>2. \A i : i \in K <=> i \in DOMAIN list /\ list[i].alive
  OBVIOUS
<1> HIDE DEF K
<1>3. /\ \A j \in DOMAIN Keep(list, K) : \E p \in K : Keep(list, K)[j] = list[p]
      /\ \A p \in K : \E j \in DOMAIN Keep(list, K) : Keep(list, K)[j] = list[p]
  BY <1>1, KeptElements, Zenon
<1>4. ToSet(Keep(list, K)) = {list[p] : p \in K}
  BY <1>3 DEF ToSet
<1>5. ASSUME NEW p \in K PROVE list[p].name \in living /\ HeldIn(list, list[p].name) = list[p]
  <2>1. p \in DOMAIN list /\ list[p].alive
    BY <1>2
  <2>2. HeldIn(list, list[p].name) = list[p]
    BY <2>1, HeldIs
  <2>3. list[p] \in SiteCookie(k)
    BY <2>1
  <2>4. list[p] # None /\ list[p].name \in Names
    BY <2>3, NoneAssumption DEF SiteCookie, AnyCookie, Cookie
  <2> QED
    BY <2>1, <2>2, <2>4
<1>6. ASSUME NEW n \in living PROVE \E p \in K : HeldIn(list, n) = list[p]
  <2>1. HasName(list, n)
    BY NotHeld
  <2>2. PICK i \in DOMAIN list : list[i].name = n /\ HeldIn(list, n) = list[i]
    BY <2>1, HeldIsThere
  <2>3. i \in K
    BY <1>2, <2>2
  <2> QED
    BY <2>2, <2>3
<1> HIDE DEF living
<1>7. {list[p] : p \in K} = {HeldIn(list, n) : n \in living}
  BY <1>5, <1>6
<1> QED
  BY <1>1, <1>4, <1>7 DEF living

\* SetCookies is Store.
LEMMA StoreStep ==
  ASSUME IInv, NEW h \in Hosts, NEW cookies \in Offers(h), SetCookies(h, cookies)
  PROVE  Abstract!Store(h, cookies)
<1> DEFINE k == hostKey(h)
           list == unique(nonEmpty(cookies))
           now == Slice(allCookies[k])
           Kept(n) == \/ Candidates(cookies, n) = {}
                      \/ config.skipExisting /\ Held[k][n] # None
           New(n) == IF Kept(n) THEN Held[k][n]
                     ELSE cookies[Max(Candidates(cookies, n))]
<1>1. k \in HostKeys
  BY DEF HostKeys
<1>2. /\ \A j \in HostKeys : j # k => allCookies'[j] = allCookies[j]
      /\ Slice(allCookies'[k]) = After(k, list)
  BY SetCookiesStep
<1>3. \A n \in Names : Held[k][n] = HeldIn(now, n)
  BY <1>1 DEF Held
<1>4. \A n \in Names : HeldIn(After(k, list), n) = New(n)
  BY <1>3, MergedHolds DEF IInv
<1> HIDE DEF New, list
<1>5. Held' = [Held EXCEPT ![k] = [n \in Names |-> New(n)]]
  <2>1. Held' = [j \in HostKeys |-> [n \in Names |-> HeldIn(Slice(allCookies'[j]), n)]]
    BY DEF Held
  <2>2. [n \in Names |-> HeldIn(Slice(allCookies'[k]), n)] = [n \in Names |-> New(n)]
    BY <1>2, <1>4
  <2>3. \A j \in HostKeys : j # k =>
          [n \in Names |-> HeldIn(Slice(allCookies'[j]), n)] = Held[j]
    BY <1>2 DEF Held
  <2>4. Held = [j \in HostKeys |-> Held[j]]
    BY DEF Held
  <2> QED
    BY <1>1, <2>1, <2>2, <2>3, <2>4
<1>6. config # None /\ config' = config /\ sent' = None
  BY DEF SetCookies
<1>7. SentSet' = None
  BY <1>6 DEF SentSet
<1> QED
  BY <1>5, <1>6, <1>7
  DEF Abstract!Store, Abstract!Candidates, Abstract!Max, Max, Candidates, New

\* Cookies is Send.
LEMMA SendStep ==
  ASSUME IInv, NEW h \in Hosts, SendCookies(h)
  PROVE  Abstract!Send(h)
<1> DEFINE k == hostKey(h)
           now == Slice(allCookies[k])
           living == {m \in Names : Held[k][m] # None /\ Held[k][m].alive}
<1>1. k \in HostKeys
  BY DEF HostKeys
<1>2. now \in Seq(SiteCookie(k)) /\ OneOfName(now)
  BY <1>1 DEF IInv, TypeOK, OnePerName
<1>3. /\ sent' = [host |-> h, cookies |-> notExpired(now)]
      /\ UNCHANGED <<config, allCookies>>
  BY DEF SendCookies
<1>4. \A n \in Names : Held[k][n] = HeldIn(now, n)
  BY <1>1 DEF Held
<1>5. sent' \in [host : Hosts, cookies : Seq(AnyCookie)]
  <2> DEFINE K == {i \in DOMAIN now : now[i].alive}
  <2>1. K \in SUBSET DOMAIN now /\ notExpired(now) = Keep(now, K)
    BY DEF notExpired
  <2> HIDE DEF now, K
  <2>2. Keep(now, K) \in Seq(SiteCookie(k))
    BY <1>2, <2>1, KeptElements
  <2>3. notExpired(now) \in Seq(AnyCookie)
    BY <2>1, <2>2, SiteCookiesAreCookies
  <2> QED
    BY <1>3, <2>3
<1>6. sent' # None
  BY <1>5, NoneAssumption
<1>7. ToSet(notExpired(now)) = {Held[k][n] : n \in living}
  <2>1. living = {m \in Names : HeldIn(now, m) # None /\ HeldIn(now, m).alive}
    BY <1>4
  <2>2. {Held[k][n] : n \in living} = {HeldIn(now, n) : n \in living}
    <3>1. \A n \in living : Held[k][n] = HeldIn(now, n)
      BY <1>4
    <3> HIDE DEF living, now
    <3> QED
      BY <3>1
  <2> HIDE DEF living, now
  <2>3. ToSet(notExpired(now)) =
          {HeldIn(now, n) : n \in {m \in Names : /\ HeldIn(now, m) # None
                                                 /\ HeldIn(now, m).alive}}
    BY <1>2, SentIsHeld
  <2> QED
    BY <2>1, <2>2, <2>3
<1> HIDE DEF living, now
<1>8. SentSet' = [host |-> h, cookies |-> {Held[k][n] : n \in living}]
  <2>1. SentSet' = [sent' EXCEPT !.cookies = ToSet(@)]
    BY <1>6 DEF SentSet
  <2> QED
    BY <1>3, <1>7, <2>1
<1>9. Held' = Held
  BY <1>3 DEF Held
<1> QED
  BY <1>3, <1>8, <1>9 DEF Abstract!Send, living

\* GetAllCookies is Look: it concerns nobody's cookies.
LEMMA LookStep ==
  ASSUME NEW k, GetAllCookies(k)
  PROVE  Abstract!Look
<1>1. sent' = None /\ UNCHANGED <<config, allCookies>>
  BY DEF GetAllCookies
<1>2. SentSet' = None /\ Held' = Held
  BY <1>1 DEF SentSet, Held
<1> QED
  BY <1>1, <1>2 DEF Abstract!Look

\* The jar without cookies is the store without cookies.
LEMMA EmptyIsNothing ==
  [k \in HostKeys |-> [n \in Names |-> HeldIn(Slice(Empty[k]), n)]]
    = Abstract!Nothing
<1>1. \A k \in HostKeys, n \in Names : HeldIn(Slice(Empty[k]), n) = None
  <2>1. \A k \in HostKeys : Slice(Empty[k]) = << >>
    BY DEF Empty, Nil, Slice
  <2>2. \A n : ~HasName(<< >>, n)
    BY DEF HasName
  <2> QED
    BY <2>1, <2>2, NotHeld
<1> QED
  BY <1>1 DEF Abstract!Nothing

\* SetCookieJar is Replace.
LEMMA ReplaceStep ==
  ASSUME NEW cfg, SetCookieJar(cfg)
  PROVE  Abstract!Replace(cfg)
<1>1. config' = cfg /\ allCookies' = Empty /\ sent' = None
  BY DEF SetCookieJar
<1>2. Held' = Abstract!Nothing
  BY <1>1, EmptyIsNothing DEF Held
<1>3. SentSet' = None
  BY <1>1 DEF SentSet
<1> QED
  BY <1>1, <1>2, <1>3 DEF Abstract!Replace

\* For the jar as a whole: each operation does to the cookies by site and name what
\* CookieStore says it does for the same argument, for any lists with repeated,
\* empty and expired cookies and under all options.
THEOREM ImplementsCookieStore == Spec => StoreSpec
<1>1. ASSUME IInv
      PROVE  /\ \A h \in Hosts :
                  /\ SendCookies(h) => Abstract!Send(h)
                  /\ \A cookies \in Offers(h) :
                       SetCookies(h, cookies) => Abstract!Store(h, cookies)
             /\ \A k \in HostKeys : GetAllCookies(k) => Abstract!Look
             /\ \A cfg \in Configs \cup {None} :
                  SetCookieJar(cfg) => Abstract!Replace(cfg)
  <2>1. ASSUME NEW h \in Hosts, SendCookies(h) PROVE Abstract!Send(h)
    BY <1>1, <2>1, SendStep
  <2>2. ASSUME NEW h \in Hosts, NEW cookies \in Offers(h), SetCookies(h, cookies)
        PROVE  Abstract!Store(h, cookies)
    BY <1>1, <2>2, StoreStep
  <2>3. ASSUME NEW k \in HostKeys, GetAllCookies(k) PROVE Abstract!Look
    BY <2>3, LookStep
  <2>4. ASSUME NEW cfg, SetCookieJar(cfg) PROVE Abstract!Replace(cfg)
    BY <2>4, ReplaceStep
  <2> QED
    BY <2>1, <2>2, <2>3, <2>4
<1> QED
  BY Invariance, <1>1, PTL DEF StoreSpec

\* A whole life of the jar, with jars that replace it, is a life of CookieStore:
\* who only sets and sends cookies cannot tell the lists, their merging and
\* their arrays from a store of one cookie per site and name.
THEOREM RefinesCookieStore == Spec => Abstract!Spec
<1>1. Init => Abstract!Init
  <2> SUFFICES ASSUME Init PROVE Abstract!Init
    OBVIOUS
  <2>1. Held = Abstract!Nothing
    BY EmptyIsNothing DEF Init, Held
  <2>2. SentSet = None
    BY DEF Init, SentSet
  <2> QED
    BY <2>1, <2>2 DEF Init, NewCookieJar, Abstract!Init
<1>2. IInv /\ [Next]_vars => [Abstract!Next]_(Abstract!vars)
  <2> SUFFICES ASSUME IInv, [Next]_vars PROVE [Abstract!Next]_(Abstract!vars)
    OBVIOUS
  <2>1. ASSUME NEW h \in Hosts, NEW cookies \in Offers(h), SetCookies(h, cookies)
        PROVE  Abstract!Next
    BY <2>1, StoreStep DEF Abstract!Next
  <2>2. ASSUME NEW h \in Hosts, SendCookies(h) PROVE Abstract!Next
    BY <2>2, SendStep DEF Abstract!Next
  <2>3. ASSUME NEW k \in HostKeys, GetAllCookies(k) PROVE Abstract!Next
    BY <2>3, LookStep DEF Abstract!Next
  <2>4. ASSUME NEW cfg \in Configs \cup {None}, SetCookieJar(cfg)
        PROVE  Abstract!Next
    BY <2>4, ReplaceStep DEF Abstract!Next
  <2>5. ASSUME UNCHANGED vars PROVE UNCHANGED Abstract!vars
    BY <2>5 DEF vars, Abstract!vars, Held, SentSet
  <2> QED
    BY <2>1, <2>2, <2>3, <2>4, <2>5 DEF Next
<1> QED
  BY Invariance, <1>1, <1>2, PTL DEF Spec, Abstract!Spec

=============================================================================
