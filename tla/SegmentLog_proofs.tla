------------------------- MODULE SegmentLog_proofs --------------------------
(***************************************************************************)
(* Proofs about SegmentLog, for every set of messages and bodies, every    *)
(* limit and policy: what Recover's loop finds, that the tables are well   *)
(* formed, that every offset Recover has indexed can be read, that no      *)
(* half-record is, that a confirmed record is read for good while the file *)
(* is unharmed, and that the segment then implements RecordLog.            *)
(***************************************************************************)
EXTENDS SegmentLog, SequenceTheorems, WellFoundedInduction, TLAPS

-----------------------------------------------------------------------------
(* Sets of numbers.                                                        *)

LEMMA LeastNat ==
  ASSUME NEW S \in SUBSET Nat, S # {}
  PROVE  \E m \in S : \A y \in S : m <= y
<1>1. PICK m \in S : \A y \in S : ~ (<<y, m>> \in OpToRel(<, Nat))
  BY NatLessThanWellFounded, WFMin
<1>2. ASSUME NEW y \in S PROVE m <= y
  <2>1. ~(y < m) /\ y \in Nat /\ m \in Nat
    BY <1>1 DEF OpToRel
  <2> QED
    BY <2>1
<1> QED
  BY <1>2

\* The largest element of a set of numbers up to n.
LEMMA GreatestUpTo ==
  ASSUME NEW n \in Nat, NEW S \in SUBSET (0 .. n), S # {}
  PROVE  \E m \in S : \A y \in S : y <= m
<1> DEFINE T == {n - x : x \in S}
<1>1. T \in SUBSET Nat /\ T # {}
  <2>1. \A x \in S : n - x \in Nat
    OBVIOUS
  <2> QED
    BY <2>1
<1> HIDE DEF T
<1>2. PICK t \in T : \A y \in T : t <= y
  BY <1>1, LeastNat
<1> USE DEF T
<1>3. PICK m \in S : t = n - m
  OBVIOUS
<1>4. ASSUME NEW y \in S PROVE y <= m
  <2>1. t <= n - y
    BY <1>2
  <2> QED
    BY <1>3, <2>1
<1> QED
  BY <1>3, <1>4

LEMMA MaxUpTo ==
  ASSUME NEW n \in Nat, NEW S \in SUBSET (0 .. n), S # {}
  PROVE  Max(S) \in S /\ \A y \in S : y <= Max(S)
<1>1. PICK m \in S : \A y \in S : y <= m
  BY GreatestUpTo
<1>2. \A y \in S : m >= y
  BY <1>1
<1>3. Max(S) \in S /\ \A y \in S : Max(S) >= y
  BY <1>2 DEF Max
<1> QED
  BY <1>3

LEMMA MaxOfTwo ==
  ASSUME NEW a \in Nat, NEW b \in Nat
  PROVE  Max({a, b}) = IF a >= b THEN a ELSE b
<1>1. PICK n \in Nat : n = a + b
  OBVIOUS
<1>2. {a, b} \in SUBSET (0 .. n) /\ {a, b} # {}
  BY <1>1
<1>3. Max({a, b}) \in {a, b} /\ \A y \in {a, b} : y <= Max({a, b})
  BY <1>2, MaxUpTo
<1> QED
  BY <1>3

-----------------------------------------------------------------------------
(* A scan of positions 0 .. n: from a position of D it goes on at next[p]. *)

Steps(n, D, next) ==
    D \in SUBSET (0 .. n) /\ next \in [D -> 0 .. n] /\ \A p \in D : p < next[p]

\* Where a scan from p that has found s ends.
EndOf(next, p, s) == IF s = <<>> THEN p ELSE next[s[Len(s)]]

\* s is what a scan from p finds.
Finds(n, D, next, p, s) ==
    /\ s \in Seq(D)
    /\ s # <<>> => s[1] = p
    /\ \A i \in 1 .. Len(s) : p <= s[i]
    /\ \A i \in 1 .. Len(s) : i + 1 <= Len(s) => s[i + 1] = next[s[i]]
    /\ \A i, j \in 1 .. Len(s) : i < j => next[s[i]] <= s[j]
    /\ EndOf(next, p, s) \in p .. n /\ EndOf(next, p, s) \notin D

\* s is t with p in front.
Prefixes(D, p, t, s) ==
    /\ s = <<p>> \o t
    /\ s \in Seq(D) /\ Len(s) = Len(t) + 1 /\ s # <<>> /\ s[1] = p
    /\ \A i \in 1 .. Len(t) : s[i + 1] = t[i]

LEMMA Prefixed ==
  ASSUME NEW D, NEW p \in D, NEW t \in Seq(D)
  PROVE  \E s : Prefixes(D, p, t, s)
<1>1. PICK v \in Seq(D) : v = <<p>> /\ Len(v) = 1 /\ v[1] = p
  <2>1. <<p>> \in Seq(D) /\ Len(<<p>>) = 1 /\ <<p>>[1] = p
    OBVIOUS
  <2> QED
    BY <2>1, Zenon
<1>2. /\ v \o t \in Seq(D) /\ Len(v \o t) = Len(v) + Len(t)
      /\ \A i \in 1 .. Len(v) + Len(t) :
            (v \o t)[i] = IF i <= Len(v) THEN v[i] ELSE t[i - Len(v)]
  BY ConcatProperties
<1>3. PICK u \in Seq(D) :
         /\ u = v \o t /\ Len(u) = Len(v) + Len(t)
         /\ \A i \in 1 .. Len(v) + Len(t) : u[i] = IF i <= Len(v) THEN v[i] ELSE t[i - Len(v)]
  BY <1>2, Zenon
<1>4. Len(u) = Len(t) + 1 /\ Len(t) \in Nat
  BY <1>1, <1>3
<1>5. u[1] = p /\ \A i \in 1 .. Len(t) : u[i + 1] = t[i]
  BY <1>1, <1>3
<1>6. u # <<>>
  BY <1>4
<1>7. u = <<p>> \o t
  BY <1>1, <1>3
<1> QED
  BY <1>4, <1>5, <1>6, <1>7, Zenon DEF Prefixes

LEMMA FindsNothing ==
  ASSUME NEW n \in Nat, NEW D, NEW next, Steps(n, D, next), NEW p \in 0 .. n, p \notin D
  PROVE  Finds(n, D, next, p, <<>>)
<1>1. <<>> \in Seq(D) /\ Len(<<>>) = 0
  BY EmptySeq
<1>2. EndOf(next, p, <<>>) = p
  BY DEF EndOf
<1> QED
  BY <1>1, <1>2 DEF Finds

LEMMA FindsMore ==
  ASSUME NEW n \in Nat, NEW D, NEW next, Steps(n, D, next), NEW p \in D,
         NEW t, Finds(n, D, next, next[p], t)
  PROVE  Finds(n, D, next, p, <<p>> \o t)
<1>1. /\ D \in SUBSET (0 .. n) /\ next \in [D -> 0 .. n] /\ \A q \in D : q < next[q]
      /\ p \in 0 .. n /\ next[p] \in 0 .. n /\ p < next[p]
  BY DEF Steps
<1>2. /\ t \in Seq(D) /\ Len(t) \in Nat
      /\ t # <<>> => t[1] = next[p]
      /\ \A i \in 1 .. Len(t) : t[i] \in D /\ next[p] <= t[i]
      /\ \A i \in 1 .. Len(t) : i + 1 <= Len(t) => t[i + 1] = next[t[i]]
      /\ \A i, j \in 1 .. Len(t) : i < j => next[t[i]] <= t[j]
      /\ EndOf(next, next[p], t) \in next[p] .. n /\ EndOf(next, next[p], t) \notin D
  BY DEF Finds
<1>3. PICK s :
         /\ s = <<p>> \o t
         /\ s \in Seq(D) /\ Len(s) = Len(t) + 1 /\ s # <<>> /\ s[1] = p
         /\ \A i \in 1 .. Len(t) : s[i + 1] = t[i]
  <2>1. t \in Seq(D)
    BY <1>2
  <2>2. PICK s : Prefixes(D, p, t, s)
    BY <2>1, Prefixed
  <2> QED
    BY <2>2, Zenon DEF Prefixes
<1>4. \A i \in 1 .. Len(s) : i = 1 \/ (i - 1 \in 1 .. Len(t) /\ s[i] = t[i - 1])
  BY <1>2, <1>3
<1>5. ASSUME NEW i \in 1 .. Len(s) PROVE p <= s[i] /\ s[i] \in D
  <2>1. CASE i = 1
    BY <1>1, <1>3, <2>1
  <2>2. CASE i # 1
    <3>1. s[i] \in D /\ next[p] <= s[i]
      BY <1>2, <1>4, <2>2
    <3>2. s[i] \in 0 .. n
      BY <1>1, <3>1
    <3> QED
      BY <1>1, <3>1, <3>2
  <2> QED
    BY <2>1, <2>2
<1>6. t = <<>> <=> Len(t) = 0
  BY <1>2, EmptySeq
<1>7. ASSUME NEW i \in 1 .. Len(s), i + 1 <= Len(s) PROVE s[i + 1] = next[s[i]]
  <2>1. CASE i = 1
    BY <1>2, <1>3, <1>6, <1>7, <2>1
  <2>2. CASE i # 1
    <3>1. i - 1 \in 1 .. Len(t) /\ (i - 1) + 1 <= Len(t) /\ s[i] = t[i - 1] /\ s[i + 1] = t[i]
      BY <1>2, <1>3, <1>4, <1>7, <2>2
    <3> QED
      BY <1>2, <3>1
  <2> QED
    BY <2>1, <2>2
<1>8. ASSUME NEW i \in 1 .. Len(s), NEW j \in 1 .. Len(s), i < j PROVE next[s[i]] <= s[j]
  <2>1. j - 1 \in 1 .. Len(t) /\ s[j] = t[j - 1]
    BY <1>2, <1>3, <1>4, <1>8
  <2>2. CASE i = 1
    BY <1>2, <1>3, <2>1, <2>2
  <2>3. CASE i # 1
    <3>1. i - 1 \in 1 .. Len(t) /\ s[i] = t[i - 1] /\ i - 1 < j - 1
      BY <1>4, <1>8, <2>3
    <3> QED
      BY <1>2, <2>1, <3>1
  <2> QED
    BY <2>2, <2>3
<1>9. EndOf(next, p, s) = EndOf(next, next[p], t)
  <2>1. CASE t = <<>>
    <3>1. Len(s) = 1
      BY <1>3, <1>6, <2>1
    <3> QED
      BY <1>3, <2>1, <3>1 DEF EndOf
  <2>2. CASE t # <<>>
    <3>1. s[Len(s)] = t[Len(t)]
      BY <1>2, <1>3, <1>6, <2>2
    <3> QED
      BY <1>3, <2>2, <3>1 DEF EndOf
  <2> QED
    BY <2>1, <2>2
<1>10. EndOf(next, p, s) \in p .. n /\ EndOf(next, p, s) \notin D
  BY <1>1, <1>2, <1>9
<1> QED
  BY <1>3, <1>5, <1>7, <1>8, <1>10 DEF Finds

\* The equation of the scan, as a recursive function has it, has a solution.
LEMMA ScanExists ==
  ASSUME NEW n \in Nat, NEW D, NEW next, Steps(n, D, next)
  PROVE  \E g : g = [p \in 0 .. n |-> IF p \in D THEN <<p>> \o g[next[p]] ELSE <<>>]
<1> DEFINE Solves(m, g) ==
             g = [p \in m .. n |-> IF p \in D THEN <<p>> \o g[next[p]] ELSE <<>>]
           bad == {k \in 0 .. n + 1 : ~ \E g : Solves(n + 1 - k, g)}
<1>1. D \in SUBSET (0 .. n) /\ next \in [D -> 0 .. n] /\ \A p \in D : p < next[p]
  BY DEF Steps
<1>2. 0 \notin bad
  <2>1. n + 1 .. n = {}
    OBVIOUS
  <2>2. PICK g : g = [p \in {} |-> <<>>]
    OBVIOUS
  <2>3. Solves(n + 1, g)
    BY <2>1, <2>2
  <2>4. n + 1 - 0 = n + 1
    OBVIOUS
  <2> QED
    BY <2>3, <2>4
<1>3. ASSUME NEW k \in 0 .. n, k \notin bad PROVE k + 1 \notin bad
  <2> DEFINE m == n - k
  <2>1. m \in 0 .. n /\ n + 1 - k = m + 1 /\ n + 1 - (k + 1) = m
    OBVIOUS
  <2>2. PICK g : Solves(m + 1, g)
    BY <1>3, <2>1
  <2> HIDE DEF m
  <2> DEFINE h == [p \in m .. n |-> IF p = m THEN (IF m \in D THEN <<m>> \o g[next[m]] ELSE <<>>)
                                    ELSE g[p]]
  <2>3. \A p \in m + 1 .. n : h[p] = g[p] /\ p \in m .. n
    BY <2>1
  <2>4. \A p \in m .. n : p \in D => next[p] \in m + 1 .. n
    BY <1>1, <2>1
  <2>5. ASSUME NEW p \in m .. n
        PROVE  h[p] = IF p \in D THEN <<p>> \o h[next[p]] ELSE <<>>
    <3>1. p \in D => h[next[p]] = g[next[p]]
      BY <2>3, <2>4
    <3>2. CASE p = m
      <4>1. h[p] = IF p \in D THEN <<p>> \o g[next[p]] ELSE <<>>
        BY <3>2
      <4> HIDE DEF h
      <4> QED
        BY <3>1, <4>1
    <3>3. CASE p # m
      <4>1. p \in m + 1 .. n
        BY <2>1, <3>3
      <4>2. g[p] = IF p \in D THEN <<p>> \o g[next[p]] ELSE <<>>
        BY <2>2, <4>1
      <4>3. h[p] = g[p]
        BY <2>3, <4>1
      <4> HIDE DEF h
      <4> QED
        BY <3>1, <4>2, <4>3
    <3> QED
      BY <3>2, <3>3
  <2>6. Solves(m, h)
    <3>1. h = [p \in m .. n |-> h[p]]
      OBVIOUS
    <3> HIDE DEF h
    <3> QED
      BY <2>5, <3>1
  <2> QED
    BY <2>1, <2>6
<1>4. bad = {}
  <2> SUFFICES ASSUME bad # {} PROVE FALSE
    OBVIOUS
  <2>1. bad \in SUBSET Nat
    OBVIOUS
  <2>2. PICK k \in bad : \A y \in bad : k <= y
    <3> HIDE DEF bad
    <3> QED
      BY <2>1, LeastNat
  <2>3. k \in 0 .. n + 1
    BY <2>2
  <2> HIDE DEF bad
  <2>4. k # 0
    BY <1>2, <2>2
  <2>5. k - 1 \in 0 .. n /\ (k - 1) + 1 = k
    BY <2>3, <2>4
  <2>6. k - 1 \notin bad
    BY <2>2, <2>5
  <2> QED
    BY <1>3, <2>2, <2>5, <2>6
<1>5. n + 1 - (n + 1) = 0 /\ n + 1 \in 0 .. n + 1
  OBVIOUS
<1>6. \E g : Solves(n + 1 - (n + 1), g)
  <2>1. n + 1 \notin bad
    BY <1>4
  <2> HIDE DEF Solves
  <2> QED
    BY <1>5, <2>1
<1> QED
  BY <1>5, <1>6

\* And what a solution gives at p is what a scan from p finds.
LEMMA ScanFinds ==
  ASSUME NEW n \in Nat, NEW D, NEW next, Steps(n, D, next), NEW g,
         \A p \in 0 .. n : g[p] = IF p \in D THEN <<p>> \o g[next[p]] ELSE <<>>
  PROVE  \A p \in 0 .. n : Finds(n, D, next, p, g[p])
<1> DEFINE bad == {p \in 0 .. n : ~Finds(n, D, next, p, g[p])}
<1>1. D \in SUBSET (0 .. n) /\ next \in [D -> 0 .. n] /\ \A p \in D : p < next[p]
  BY DEF Steps
<1> SUFFICES ASSUME bad # {} PROVE FALSE
  OBVIOUS
<1>2. PICK p \in bad : \A y \in bad : y <= p
  <2>1. bad \in SUBSET (0 .. n)
    OBVIOUS
  <2> HIDE DEF bad
  <2> QED
    BY <2>1, GreatestUpTo
<1>3. p \in 0 .. n /\ ~Finds(n, D, next, p, g[p])
  BY <1>2
<1>4. CASE p \notin D
  <2>1. g[p] = <<>>
    BY <1>3, <1>4
  <2> QED
    BY <1>3, <1>4, <2>1, FindsNothing
<1>5. CASE p \in D
  <2>1. g[p] = <<p>> \o g[next[p]]
    BY <1>3, <1>5
  <2>2. next[p] \in 0 .. n /\ next[p] \notin bad
    BY <1>1, <1>2, <1>5
  <2>3. Finds(n, D, next, next[p], g[next[p]])
    BY <2>2
  <2>4. Finds(n, D, next, p, <<p>> \o g[next[p]])
    BY <1>5, <2>3, FindsMore
  <2> QED
    BY <1>3, <2>1, <2>4
<1> QED
  BY <1>4, <1>5

-----------------------------------------------------------------------------
(* Files of cells, and what Recover finds in one.                          *)

SizesCell == [part: {"sizes"}, body: Seq(STRING)]
IdsCell == [part: {"ids"}, offset: Nat, id: Ids]
BodyCell == [part: {"body"}, byte: STRING]
Cell == {Zero} \cup SizesCell \cup IdsCell \cup BodyCell

LEMMA CellKinds ==
  ASSUME NEW c \in Cell
  PROVE  /\ c.part = "sizes" => c.body \in Seq(STRING)
         /\ c.part = "ids" => c.offset \in Nat /\ c.id \in Ids
<1>1. CASE c = Zero
  BY <1>1 DEF Zero
<1>2. CASE c \in SizesCell
  BY <1>2 DEF SizesCell
<1>3. CASE c \in IdsCell
  BY <1>3 DEF IdsCell
<1>4. CASE c \in BodyCell
  BY <1>4 DEF BodyCell
<1> QED
  BY <1>1, <1>2, <1>3, <1>4 DEF Cell

\* Where a record is found, and where the loop goes on after it.
Found(f) == {p \in 0 .. Len(f) : Decodes(f, p)}
NextOf(f) == [p \in Found(f) |-> p + RecordSize(f, p)]

\* A record is at least its header, and is inside the file.
LEMMA DecodesInside ==
  ASSUME NEW f \in Seq(Cell), NEW p \in Nat, Decodes(f, p)
  PROVE  /\ RecordSize(f, p) \in Nat /\ 2 <= RecordSize(f, p)
         /\ p + RecordSize(f, p) \in 0 .. Len(f) /\ p \in 0 .. Len(f)
         /\ f[p + 1].body \in Seq(STRING)
         /\ f[p + 2].offset \in Nat /\ f[p + 2].id \in Ids
<1>1. /\ p + 2 <= Len(f) /\ f[p + 1].part = "sizes" /\ f[p + 2].part = "ids"
      /\ p + RecordSize(f, p) <= Len(f)
  BY DEF Decodes, HeaderAt
<1>2. Len(f) \in Nat /\ f[p + 1] \in Cell /\ f[p + 2] \in Cell
  <2>1. Len(f) \in Nat
    OBVIOUS
  <2>2. p + 1 \in 1 .. Len(f) /\ p + 2 \in 1 .. Len(f)
    BY <1>1, <2>1
  <2> QED
    BY <2>1, <2>2, ElementOfSeq
<1>3. f[p + 1].body \in Seq(STRING) /\ f[p + 2].offset \in Nat /\ f[p + 2].id \in Ids
  BY <1>1, <1>2, CellKinds
<1>4. Len(f[p + 1].body) \in Nat
  BY <1>3
<1>5. RecordSize(f, p) \in Nat /\ 2 <= RecordSize(f, p)
  BY <1>4 DEF RecordSize
<1> QED
  BY <1>1, <1>2, <1>3, <1>5

LEMMA RecoverSteps ==
  ASSUME NEW f \in Seq(Cell)
  PROVE  Len(f) \in Nat /\ Steps(Len(f), Found(f), NextOf(f))
<1>1. Len(f) \in Nat
  OBVIOUS
<1>2. ASSUME NEW p \in Found(f)
      PROVE  p + RecordSize(f, p) \in 0 .. Len(f) /\ p < p + RecordSize(f, p)
  <2>1. p \in Nat /\ Decodes(f, p)
    BY <1>1 DEF Found
  <2>2. RecordSize(f, p) \in Nat /\ 2 <= RecordSize(f, p) /\ p + RecordSize(f, p) \in 0 .. Len(f)
    BY <2>1, DecodesInside
  <2> QED
    BY <2>1, <2>2
<1>3. Found(f) \in SUBSET (0 .. Len(f))
  BY DEF Found
<1>4. NextOf(f) \in [Found(f) -> 0 .. Len(f)] /\ \A p \in Found(f) : p < NextOf(f)[p]
  BY <1>2 DEF NextOf
<1> QED
  BY <1>1, <1>3, <1>4 DEF Steps

\* Starts is what the scan from the start of the file finds.
LEMMA StartsFound ==
  ASSUME NEW f \in Seq(Cell)
  PROVE  Finds(Len(f), Found(f), NextOf(f), 0, Starts(f))
<1> DEFINE Loop(g) == [p \in 0 .. Len(f) |->
                          IF Decodes(f, p) THEN <<p>> \o g[p + RecordSize(f, p)] ELSE <<>>]
           from == CHOOSE g : g = Loop(g)
<1>1. Len(f) \in Nat /\ Steps(Len(f), Found(f), NextOf(f))
  BY RecoverSteps
<1>2. \A p \in 0 .. Len(f) : p \in Found(f) <=> Decodes(f, p)
  BY DEF Found
<1>3. \A p \in Found(f) : NextOf(f)[p] = p + RecordSize(f, p)
  BY DEF NextOf
<1>4. PICK g : g = [p \in 0 .. Len(f) |->
                      IF p \in Found(f) THEN <<p>> \o g[NextOf(f)[p]] ELSE <<>>]
  BY <1>1, ScanExists
<1>5. g = Loop(g)
  <2>1. Loop(g) = [p \in 0 .. Len(f) |->
                      IF p \in Found(f) THEN <<p>> \o g[NextOf(f)[p]] ELSE <<>>]
    BY <1>2, <1>3
  <2> QED
    BY <1>4, <2>1, Zenon
<1>6. from = Loop(from)
  <2> HIDE DEF Loop
  <2> QED
    BY <1>5, Zenon
<1>7. Starts(f) = from[0]
  BY DEF Starts
<1> HIDE DEF from
<1>8. \A p \in 0 .. Len(f) :
         from[p] = IF p \in Found(f) THEN <<p>> \o from[NextOf(f)[p]] ELSE <<>>
  <2> SUFFICES ASSUME NEW p \in 0 .. Len(f)
               PROVE  from[p] = IF p \in Found(f) THEN <<p>> \o from[NextOf(f)[p]] ELSE <<>>
    OBVIOUS
  <2>1. from[p] = IF Decodes(f, p) THEN <<p>> \o from[p + RecordSize(f, p)] ELSE <<>>
    BY <1>6
  <2> QED
    BY <1>2, <1>3, <2>1
<1>9. \A p \in 0 .. Len(f) : Finds(Len(f), Found(f), NextOf(f), p, from[p])
  BY <1>1, <1>8, ScanFinds
<1>10. 0 \in 0 .. Len(f)
  BY <1>1
<1> QED
  BY <1>7, <1>9, <1>10

\* Recover cuts the file behind the last record it has found, and every
\* record it has found lies before the cut.
LEMMA StartsInside ==
  ASSUME NEW f \in Seq(Cell)
  PROVE  /\ Len(Starts(f)) \in Nat /\ DOMAIN Starts(f) = 1 .. Len(Starts(f))
         /\ RecoveredEnd(f) \in 0 .. Len(f)
         /\ \A i \in 1 .. Len(Starts(f)) :
              /\ Starts(f)[i] \in Nat /\ Decodes(f, Starts(f)[i])
              /\ Starts(f)[i] + RecordSize(f, Starts(f)[i]) <= RecoveredEnd(f)
<1>1. Len(f) \in Nat /\ Steps(Len(f), Found(f), NextOf(f))
  BY RecoverSteps
<1>2. PICK n \in Nat, D \in {Found(f)}, next \in {NextOf(f)}, s \in {Starts(f)} :
         n = Len(f) /\ D = Found(f) /\ next = NextOf(f) /\ s = Starts(f)
  BY <1>1
<1>3. D \in SUBSET (0 .. n) /\ next \in [D -> 0 .. n] /\ \A p \in D : p < next[p]
  BY <1>1, <1>2 DEF Steps
<1>4. Finds(n, D, next, 0, s)
  BY <1>2, StartsFound
<1>5. /\ s \in Seq(D) /\ Len(s) \in Nat /\ \A i \in 1 .. Len(s) : s[i] \in D
      /\ \A i, j \in 1 .. Len(s) : i < j => next[s[i]] <= s[j]
      /\ EndOf(next, 0, s) \in 0 .. n
  BY <1>4 DEF Finds
<1>6. \A p \in D : next[p] = p + RecordSize(f, p) /\ Decodes(f, p) /\ p \in Nat
  BY <1>1, <1>2 DEF NextOf, Found
<1>7. s # <<>> => Len(s) \in 1 .. Len(s)
  BY <1>5, EmptySeq
<1>8. RecoveredEnd(f) = EndOf(next, 0, s)
  BY <1>2, <1>5, <1>6, <1>7 DEF RecoveredEnd, EndOf
<1>9. ASSUME NEW i \in 1 .. Len(s) PROVE next[s[i]] <= EndOf(next, 0, s)
  <2>1. s # <<>> /\ Len(s) \in 1 .. Len(s)
    BY <1>5, <1>7, EmptySeq
  <2>2. EndOf(next, 0, s) = next[s[Len(s)]]
    BY <2>1 DEF EndOf
  <2>3. next[s[i]] \in 0 .. n /\ next[s[Len(s)]] \in 0 .. n
    BY <1>3, <1>5, <2>1
  <2>4. CASE i = Len(s)
    BY <2>2, <2>3, <2>4
  <2>5. CASE i # Len(s)
    <3>1. i < Len(s)
      BY <1>5, <2>5
    <3>2. next[s[i]] <= s[Len(s)]
      BY <1>5, <2>1, <3>1
    <3>3. s[Len(s)] \in 0 .. n /\ s[Len(s)] < next[s[Len(s)]]
      BY <1>3, <1>5, <2>1
    <3> QED
      BY <2>2, <2>3, <3>2, <3>3
  <2> QED
    BY <2>4, <2>5
<1>10. DOMAIN s = 1 .. Len(s)
  BY <1>5
<1> QED
  BY <1>2, <1>5, <1>6, <1>8, <1>9, <1>10

\* A record decodes alike in two files that have its cells in common.
LEMMA SameRecord ==
  ASSUME NEW f \in Seq(Cell), NEW g \in Seq(Cell), NEW p \in Nat, Decodes(f, p),
         p + RecordSize(f, p) <= Len(g),
         \A i \in 1 .. Len(g) : i <= p + RecordSize(f, p) => g[i] = f[i]
  PROVE  /\ Decodes(g, p) /\ RecordSize(g, p) = RecordSize(f, p)
         /\ DecodeRecord(g, p) = DecodeRecord(f, p)
<1>1. Len(f) \in Nat /\ Len(g) \in Nat
  OBVIOUS
<1>2. /\ RecordSize(f, p) \in Nat /\ 2 <= RecordSize(f, p)
      /\ f[p + 1].body \in Seq(STRING)
  BY DecodesInside
<1>3. PICK b \in Seq(STRING) : b = f[p + 1].body /\ Len(b) \in Nat
  BY <1>2
<1>4. RecordSize(f, p) = 2 + Len(b)
  BY <1>3 DEF RecordSize
<1>5. g[p + 1] = f[p + 1] /\ g[p + 2] = f[p + 2] /\ p + 2 <= Len(g)
  <2>1. PICK z \in Nat : z = RecordSize(f, p) /\ 2 <= z
    BY <1>2
  <2>2. p + 1 \in 1 .. Len(g) /\ p + 2 \in 1 .. Len(g) /\ p + 1 <= p + z /\ p + 2 <= p + z
    BY <1>1, <2>1
  <2> QED
    BY <1>1, <2>1, <2>2
<1>6. RecordSize(g, p) = 2 + Len(b)
  BY <1>3, <1>5 DEF RecordSize
<1>7. ASSUME NEW i \in DOMAIN b
      PROVE  g[p + 2 + i] = [part |-> "body", byte |-> b[i]]
  <2>1. i \in 1 .. Len(b)
    BY <1>3
  <2>2. p + 2 + i \in 1 .. Len(g) /\ p + 2 + i <= p + RecordSize(f, p)
    BY <1>1, <1>3, <1>4, <2>1
  <2>3. f[p + 2 + i] = [part |-> "body", byte |-> b[i]]
    BY <1>3 DEF Decodes
  <2> QED
    BY <2>2, <2>3
<1>8. HeaderAt(g, p)
  BY <1>5 DEF HeaderAt, Decodes
<1>9. Decodes(g, p)
  <2>1. p + RecordSize(g, p) <= Len(g)
    BY <1>4, <1>6
  <2>2. g[p + 1].body = b
    BY <1>3, <1>5
  <2> QED
    BY <1>7, <1>8, <2>1, <2>2 DEF Decodes
<1> QED
  BY <1>4, <1>5, <1>6, <1>9 DEF DecodeRecord

\* A cut changes no cell before it.
LEMMA Cut ==
  ASSUME NEW f \in Seq(Cell), NEW e \in 0 .. Len(f)
  PROVE  /\ SubSeq(f, 1, e) \in Seq(Cell) /\ Len(SubSeq(f, 1, e)) = e
         /\ \A i \in 1 .. e : SubSeq(f, 1, e)[i] = f[i]
<1>1. Len(f) \in Nat
  OBVIOUS
<1>2. \A i \in 1 .. e : f[i] \in Cell
  BY <1>1
<1> QED
  BY <1>1, <1>2, SubSeqProperties

\* So a record before the cut still decodes.
LEMMA CutKeeps ==
  ASSUME NEW f \in Seq(Cell), NEW e \in 0 .. Len(f), NEW p \in Nat,
         Decodes(f, p), p + RecordSize(f, p) <= e
  PROVE  /\ Decodes(SubSeq(f, 1, e), p)
         /\ DecodeRecord(SubSeq(f, 1, e), p) = DecodeRecord(f, p)
<1>1. PICK g \in Seq(Cell) : g = SubSeq(f, 1, e) /\ Len(g) = e /\ \A i \in 1 .. e : g[i] = f[i]
  BY Cut, Zenon
<1>2. /\ p + RecordSize(f, p) <= Len(g)
      /\ \A i \in 1 .. Len(g) : i <= p + RecordSize(f, p) => g[i] = f[i]
  BY <1>1
<1>3. Decodes(g, p) /\ DecodeRecord(g, p) = DecodeRecord(f, p)
  BY <1>2, SameRecord
<1> QED
  BY <1>1, <1>3

\* The index holds, for each offset found, the last place where it was found.
LEMMA IndexFound ==
  ASSUME NEW f \in Seq(Cell), NEW o \in DOMAIN RecoveredIndex(f)
  PROVE  \E i \in 1 .. Len(Starts(f)) :
            /\ RecoveredIndex(f)[o] = Starts(f)[i]
            /\ DecodeRecord(f, Starts(f)[i]).offset = o
            /\ \A j \in 1 .. Len(Starts(f)) :
                 DecodeRecord(f, Starts(f)[j]).offset = o => Starts(f)[j] <= Starts(f)[i]
<1>1. PICK s : s = Starts(f) /\ DOMAIN s = 1 .. Len(s) /\ Len(s) \in Nat
               /\ \A i \in 1 .. Len(s) : s[i] \in 0 .. Len(f)
  <2>1. Len(Starts(f)) \in Nat /\ DOMAIN Starts(f) = 1 .. Len(Starts(f))
    BY StartsInside
  <2>2. \A i \in 1 .. Len(Starts(f)) : Starts(f)[i] \in Nat /\ Decodes(f, Starts(f)[i])
    BY StartsInside
  <2>3. \A i \in 1 .. Len(Starts(f)) : Starts(f)[i] \in 0 .. Len(f)
    BY <2>2, DecodesInside
  <2> QED
    BY <2>1, <2>3
<1>2. \A i \in 1 .. Len(s) : Records(f)[i] = DecodeRecord(f, s[i])
  BY <1>1 DEF Records
<1> DEFINE at(x) == {s[i] : i \in {j \in 1 .. Len(s) : DecodeRecord(f, s[j]).offset = x}}
<1>3. RecoveredIndex(f) =
        [x \in {DecodeRecord(f, s[i]).offset : i \in 1 .. Len(s)} |-> Max(at(x))]
  <2>1. {Records(f)[i].offset : i \in DOMAIN s} = {DecodeRecord(f, s[i]).offset : i \in 1 .. Len(s)}
    BY <1>1, <1>2
  <2>2. ASSUME NEW x
        PROVE  {s[i] : i \in {j \in DOMAIN s : Records(f)[j].offset = x}} = at(x)
    <3>1. {j \in DOMAIN s : Records(f)[j].offset = x}
            = {j \in 1 .. Len(s) : DecodeRecord(f, s[j]).offset = x}
      BY <1>1, <1>2
    <3> QED
      BY <3>1, Zenon
  <2> HIDE DEF at
  <2>3. RecoveredIndex(f) =
          [x \in {Records(f)[i].offset : i \in DOMAIN s} |->
             Max({s[i] : i \in {j \in DOMAIN s : Records(f)[j].offset = x}})]
    BY <1>1, Zenon DEF RecoveredIndex
  <2> QED
    BY <2>1, <2>2, <2>3, Zenon
<1>4. RecoveredIndex(f)[o] = Max(at(o)) /\ \E i \in 1 .. Len(s) : DecodeRecord(f, s[i]).offset = o
  <2> HIDE DEF at
  <2> QED
    BY <1>3
<1>5. at(o) # {} /\ at(o) \in SUBSET (0 .. Len(f)) /\ Len(f) \in Nat
  BY <1>1, <1>4
<1>6. Max(at(o)) \in at(o) /\ \A y \in at(o) : y <= Max(at(o))
  <2> HIDE DEF at
  <2> QED
    BY <1>5, MaxUpTo
<1>7. PICK i \in 1 .. Len(s) : Max(at(o)) = s[i] /\ DecodeRecord(f, s[i]).offset = o
  BY <1>6
<1>8. \A j \in 1 .. Len(s) : DecodeRecord(f, s[j]).offset = o => s[j] <= s[i]
  BY <1>6, <1>7
<1> QED
  BY <1>1, <1>4, <1>7, <1>8

LEMMA IndexDomain ==
  ASSUME NEW f \in Seq(Cell), NEW i \in 1 .. Len(Starts(f))
  PROVE  DecodeRecord(f, Starts(f)[i]).offset \in DOMAIN RecoveredIndex(f)
<1>1. DOMAIN Starts(f) = 1 .. Len(Starts(f))
  BY StartsInside
<1>2. Records(f)[i] = DecodeRecord(f, Starts(f)[i])
  BY <1>1 DEF Records
<1> QED
  BY <1>1, <1>2 DEF RecoveredIndex

\* Everything Recover indexes can be read in the file it leaves.
LEMMA RecoveredIsReadable ==
  ASSUME NEW f \in Seq(Cell), NEW o \in DOMAIN RecoveredIndex(f)
  PROVE  /\ o \in Nat /\ RecoveredIndex(f)[o] \in Nat
         /\ Decodes(SubSeq(f, 1, RecoveredEnd(f)), RecoveredIndex(f)[o])
         /\ DecodeRecord(SubSeq(f, 1, RecoveredEnd(f)), RecoveredIndex(f)[o]).offset = o
<1>1. PICK i \in 1 .. Len(Starts(f)) :
         RecoveredIndex(f)[o] = Starts(f)[i] /\ DecodeRecord(f, Starts(f)[i]).offset = o
  BY IndexFound
<1>2. PICK p \in Nat : p = Starts(f)[i] /\ Decodes(f, p) /\ p + RecordSize(f, p) <= RecoveredEnd(f)
  BY StartsInside
<1>3. PICK e \in 0 .. Len(f) : e = RecoveredEnd(f)
  BY StartsInside
<1>4. Decodes(SubSeq(f, 1, e), p) /\ DecodeRecord(SubSeq(f, 1, e), p) = DecodeRecord(f, p)
  BY <1>2, <1>3, CutKeeps
<1>5. f[p + 2].offset \in Nat
  BY <1>2, DecodesInside
<1>6. DecodeRecord(f, p).offset \in Nat
  BY <1>5 DEF DecodeRecord
<1> QED
  BY <1>1, <1>2, <1>3, <1>4, <1>6

-----------------------------------------------------------------------------
(* Types.                                                                  *)

LEMMA FunctionIsSeq ==
  ASSUME NEW S, NEW m \in Nat, NEW g \in [1 .. m -> S]
  PROVE  g \in Seq(S) /\ Len(g) = m /\ DOMAIN g = 1 .. m
OBVIOUS

LEMMA Encoded ==
  ASSUME NEW id \in Ids, NEW o \in Nat
  PROVE  /\ EncodeRecord(id, o) \in Seq(Cell)
         /\ Len(EncodeRecord(id, o)) = 2 + Len(Body[id]) /\ Len(Body[id]) \in Nat
         /\ EncodeRecord(id, o)[1] = [part |-> "sizes", body |-> Body[id]]
         /\ EncodeRecord(id, o)[2] = [part |-> "ids", offset |-> o, id |-> id]
         /\ \A i \in 1 .. Len(Body[id]) :
              EncodeRecord(id, o)[2 + i] = [part |-> "body", byte |-> Body[id][i]]
<1> DEFINE sizes == [part |-> "sizes", body |-> Body[id]]
           ids == [part |-> "ids", offset |-> o, id |-> id]
           bytes == [i \in DOMAIN Body[id] |-> [part |-> "body", byte |-> Body[id][i]]]
<1>1. Body[id] \in Seq(STRING) /\ Len(Body[id]) \in Nat /\ DOMAIN Body[id] = 1 .. Len(Body[id])
  BY BodyAssumption
<1>2. sizes \in Cell
  BY <1>1 DEF Cell, SizesCell
<1>3. ids \in Cell
  BY DEF Cell, IdsCell
<1>4. \A i \in 1 .. Len(Body[id]) : [part |-> "body", byte |-> Body[id][i]] \in Cell
  <2>1. \A i \in 1 .. Len(Body[id]) : Body[id][i] \in STRING
    BY <1>1
  <2> QED
    BY <2>1 DEF Cell, BodyCell
<1>5. /\ bytes \in [1 .. Len(Body[id]) -> Cell]
      /\ \A i \in 1 .. Len(Body[id]) : bytes[i] = [part |-> "body", byte |-> Body[id][i]]
  BY <1>1, <1>4
<1> HIDE DEF sizes, ids, bytes
<1>6. bytes \in Seq(Cell) /\ Len(bytes) = Len(Body[id])
  BY <1>1, <1>5, FunctionIsSeq
<1>7. PICK h \in Seq(Cell) : h = <<sizes, ids>> /\ Len(h) = 2 /\ h[1] = sizes /\ h[2] = ids
  <2>1. <<sizes, ids>> \in Seq(Cell) /\ Len(<<sizes, ids>>) = 2
    BY <1>2, <1>3
  <2>2. <<sizes, ids>>[1] = sizes /\ <<sizes, ids>>[2] = ids
    OBVIOUS
  <2> QED
    BY <2>1, <2>2, Zenon
<1>8. /\ h \o bytes \in Seq(Cell) /\ Len(h \o bytes) = Len(h) + Len(bytes)
      /\ \A i \in 1 .. Len(h) + Len(bytes) :
            (h \o bytes)[i] = IF i <= Len(h) THEN h[i] ELSE bytes[i - Len(h)]
  BY <1>6, ConcatProperties
<1>9. EncodeRecord(id, o) = h \o bytes
  BY <1>7 DEF EncodeRecord, sizes, ids, bytes
<1>10. PICK e \in Seq(Cell) :
          /\ e = EncodeRecord(id, o) /\ Len(e) = 2 + Len(bytes)
          /\ \A i \in 1 .. 2 + Len(bytes) : e[i] = IF i <= 2 THEN h[i] ELSE bytes[i - 2]
  BY <1>7, <1>8, <1>9, Zenon
<1>11. e[1] = sizes /\ e[2] = ids
  <2>1. 1 \in 1 .. 2 + Len(bytes) /\ 2 \in 1 .. 2 + Len(bytes) /\ 1 <= 2 /\ 2 <= 2
    BY <1>1, <1>6
  <2>2. e[1] = h[1] /\ e[2] = h[2]
    BY <1>10, <2>1
  <2> QED
    BY <1>7, <2>2
<1>12. \A i \in 1 .. Len(bytes) : e[2 + i] = bytes[i]
  BY <1>1, <1>6, <1>10
<1> QED
  BY <1>1, <1>5, <1>6, <1>10, <1>11, <1>12 DEF sizes, ids

SegmentInv ==
    /\ file \in Seq(Cell) /\ disk \in Seq(Cell)
    /\ dirty \subseteq 1 .. Len(file)
    /\ position \in 0 .. Len(file) /\ nextOffset \in Nat
    /\ DOMAIN index \subseteq Nat /\ \A o \in DOMAIN index : index[o] \in Nat
    /\ acked \subseteq written /\ written \subseteq Record

\* What a write of the first cells of a record does to the file.
LEMMA Written ==
  ASSUME SegmentInv, NEW id \in Ids, NEW count \in 0 .. Size(id), WriteAll(id, count)
  PROVE  /\ file' \in Seq(Cell) /\ Len(file') \in Nat
         /\ Len(file') = IF Len(file) >= position + count THEN Len(file) ELSE position + count
         /\ \A i \in 1 .. Len(file') :
              file'[i] = IF i \in position + 1 .. position + count
                         THEN Cells(id)[i - position] ELSE file[i]
         /\ written \subseteq written' /\ written' \subseteq Record
         /\ [offset |-> nextOffset, id |-> id] \in written'
<1>1. /\ file \in Seq(Cell) /\ Len(file) \in Nat /\ position \in 0 .. Len(file)
      /\ nextOffset \in Nat /\ written \subseteq Record
  BY DEF SegmentInv
<1>2. PICK e : e = Cells(id) /\ e \in Seq(Cell) /\ Len(e) \in Nat /\ Len(e) = Size(id)
  <2>1. Cells(id) \in Seq(Cell)
    BY <1>1, Encoded DEF Cells
  <2> QED
    BY <2>1 DEF Size
<1>3. count \in 0 .. Len(e) /\ count \in Nat
  BY <1>2
<1>4. PICK m \in Nat : m = Max({Len(file), position + count})
                       /\ m = IF Len(file) >= position + count THEN Len(file) ELSE position + count
  <2>1. PICK a \in Nat, b \in Nat : a = Len(file) /\ b = position + count
    BY <1>1, <1>3
  <2>2. Max({a, b}) = IF a >= b THEN a ELSE b
    BY MaxOfTwo
  <2> QED
    BY <2>1, <2>2
<1>5. file' = [i \in 1 .. m |-> IF i \in position + 1 .. position + count
                                THEN e[i - position] ELSE file[i]]
  BY <1>2, <1>4 DEF WriteAll
<1>6. ASSUME NEW i \in 1 .. m
      PROVE  (IF i \in position + 1 .. position + count THEN e[i - position] ELSE file[i]) \in Cell
  <2>1. CASE i \in position + 1 .. position + count
    <3>1. i - position \in 1 .. Len(e)
      BY <1>1, <1>3, <2>1
    <3> QED
      BY <1>2, <2>1, <3>1
  <2>2. CASE i \notin position + 1 .. position + count
    <3>1. i \in 1 .. Len(file)
      BY <1>1, <1>3, <1>4, <2>2
    <3> QED
      BY <1>1, <2>2, <3>1
  <2> QED
    BY <2>1, <2>2
<1>7. file' \in [1 .. m -> Cell]
  BY <1>5, <1>6
<1>8. file' \in Seq(Cell) /\ Len(file') = m
  BY <1>7, FunctionIsSeq
<1>9. written' = written \cup {[offset |-> nextOffset, id |-> id]}
  BY DEF WriteAll
<1>10. [offset |-> nextOffset, id |-> id] \in Record
  BY <1>1 DEF Record
<1> QED
  BY <1>1, <1>2, <1>4, <1>5, <1>8, <1>9, <1>10

\* What a sync leaves on the disk.
LEMMA SyncedCells ==
  ASSUME SegmentInv, file' \in Seq(Cell), NEW T
  PROVE  Synced(T) \in Seq(Cell) /\ Len(Synced(T)) = Len(file')
<1>1. PICK g \in Seq(Cell) : g = file'
  OBVIOUS
<1>2. Len(g) \in Nat /\ DOMAIN g = 1 .. Len(g) /\ \A i \in 1 .. Len(g) : g[i] \in Cell
  BY <1>1
<1>3. disk \in Seq(Cell) /\ Len(disk) \in Nat /\ \A i \in 1 .. Len(disk) : disk[i] \in Cell
  BY DEF SegmentInv
<1>4. Zero \in Cell
  BY DEF Cell
<1>5. Synced(T) = [i \in 1 .. Len(g) |->
                     IF i \in T THEN g[i] ELSE IF i <= Len(disk) THEN disk[i] ELSE Zero]
  BY <1>1, <1>2 DEF Synced
<1>6. \A i \in 1 .. Len(g) :
        (IF i \in T THEN g[i] ELSE IF i <= Len(disk) THEN disk[i] ELSE Zero) \in Cell
  BY <1>2, <1>3, <1>4
<1>7. Synced(T) \in [1 .. Len(g) -> Cell]
  BY <1>5, <1>6
<1> QED
  BY <1>1, <1>2, <1>7, FunctionIsSeq

\* Places written are in the file, and so are the places dirty before.
LEMMA TouchedCells ==
  ASSUME SegmentInv, NEW id \in Ids, NEW count \in 0 .. Size(id), WriteAll(id, count)
  PROVE  /\ Touched(count) \subseteq 1 .. Len(file')
         /\ position + count \in 0 .. Len(file')
<1>1. dirty \subseteq 1 .. Len(file) /\ Len(file) \in Nat /\ position \in 0 .. Len(file)
  BY DEF SegmentInv
<1>2. Size(id) \in Nat
  <2>1. nextOffset \in Nat
    BY DEF SegmentInv
  <2> QED
    BY <2>1, Encoded DEF Size, Cells
<1>3. /\ Len(file') \in Nat /\ count \in Nat
      /\ Len(file') = IF Len(file) >= position + count THEN Len(file) ELSE position + count
  <2>1. count \in Nat
    BY <1>2
  <2>2. /\ Len(file') \in Nat
        /\ Len(file') = IF Len(file) >= position + count THEN Len(file) ELSE position + count
    BY Written, Zenon
  <2> QED
    BY <2>1, <2>2
<1>4. \A i \in 1 .. Len(file) : i \in 1 .. Len(file')
  BY <1>1, <1>3
<1>5. \A i \in position + 1 .. position + count : i \in 1 .. Len(file')
  BY <1>1, <1>3
<1> QED
  BY <1>1, <1>3, <1>4, <1>5 DEF Touched

LEMMA RecoveredNextType ==
  ASSUME file \in Seq(Cell) PROVE RecoveredNext(file) \in Nat
<1>1. PICK n \in Nat : n = Len(Starts(file)) /\ DOMAIN Starts(file) = 1 .. n
  BY StartsInside
<1>2. Records(file) \in [1 .. n -> {DecodeRecord(file, Starts(file)[i]) : i \in 1 .. n}]
  BY <1>1 DEF Records
<1>3. Len(Records(file)) = n
  BY <1>2, FunctionIsSeq
<1>4. ASSUME Records(file) # <<>> PROVE n \in 1 .. n
  <2>1. n # 0
    BY <1>2, <1>3, <1>4, EmptySeq, FunctionIsSeq
  <2> QED
    BY <2>1
<1>5. ASSUME n \in 1 .. n PROVE Records(file)[n].offset \in Nat
  <2>1. PICK p \in Nat : p = Starts(file)[n] /\ Decodes(file, p)
    BY <1>1, <1>5, StartsInside
  <2>2. file[p + 2].offset \in Nat
    BY <2>1, DecodesInside
  <2>3. Records(file)[n] = DecodeRecord(file, p)
    BY <1>1, <1>5, <2>1 DEF Records
  <2> QED
    BY <2>2, <2>3 DEF DecodeRecord
<1> QED
  BY <1>3, <1>4, <1>5 DEF RecoveredNext

LEMMA OpenTypes ==
  ASSUME SegmentInv, OpenAndRecover PROVE SegmentInv'
<1>1. file \in Seq(Cell) /\ Len(file) \in Nat
  BY DEF SegmentInv
<1>2. PICK e \in 0 .. Len(file) : e = RecoveredEnd(file)
  BY <1>1, StartsInside
<1>3. file' = SubSeq(file, 1, e)
  BY <1>2 DEF OpenAndRecover
<1>4. file' \in Seq(Cell) /\ Len(file') = e
  <2>1. \A i \in 1 .. e : file[i] \in Cell
    BY <1>1
  <2> QED
    BY <1>1, <1>3, <2>1, SubSeqProperties
<1>5. dirty' \subseteq 1 .. Len(file') /\ position' \in 0 .. Len(file')
  BY <1>1, <1>4 DEF OpenAndRecover
<1>6. \A o \in DOMAIN RecoveredIndex(file) : o \in Nat /\ RecoveredIndex(file)[o] \in Nat
  BY <1>1, RecoveredIsReadable
<1>7. index' = RecoveredIndex(file)
  BY DEF OpenAndRecover
<1>8. RecoveredNext(file) \in Nat
  BY <1>1, RecoveredNextType
<1>9. nextOffset' \in Nat
  BY <1>8 DEF OpenAndRecover
<1>10. DOMAIN index' \subseteq Nat /\ \A o \in DOMAIN index' : index'[o] \in Nat
  BY <1>6, <1>7
<1>11. disk' \in Seq(Cell) /\ acked' \subseteq written' /\ written' \subseteq Record'
  BY DEF OpenAndRecover, SegmentInv, Record
<1> QED
  BY <1>4, <1>5, <1>9, <1>10, <1>11 DEF SegmentInv

LEMMA UncutTypes ==
  ASSUME SegmentInv, OpenUncut PROVE SegmentInv'
<1>1. file \in Seq(Cell) /\ Len(file) \in Nat
  BY DEF SegmentInv
<1>2. /\ position' = 0 /\ index' = RecoveredIndex(file) /\ nextOffset' = RecoveredNext(file)
      /\ UNCHANGED <<file, disk, dirty, acked, written>> /\ Record' = Record
  BY DEF OpenUncut, Record
<1>3. \A o \in DOMAIN RecoveredIndex(file) : o \in Nat /\ RecoveredIndex(file)[o] \in Nat
  BY <1>1, RecoveredIsReadable
<1>4. RecoveredNext(file) \in Nat
  BY <1>1, RecoveredNextType
<1>5. position' \in 0 .. Len(file')
  BY <1>1, <1>2
<1> QED
  BY <1>2, <1>3, <1>4, <1>5 DEF SegmentInv

\* The end of the process leaves an empty table and the position at 0.
LEMMA MemoryLost ==
  ASSUME SegmentInv, LoseMemory, NEW m \in Nat, m = Len(file')
  PROVE  /\ position' \in 0 .. Len(file') /\ nextOffset' \in Nat
         /\ DOMAIN index' \subseteq Nat /\ \A o \in DOMAIN index' : index'[o] \in Nat
         /\ acked' = acked
BY DEF LoseMemory, EmptyFn

LEMMA AppendTypes ==
  ASSUME SegmentInv, NEW id \in Ids, AppendRecord(id) PROVE SegmentInv'
<1>1. nextOffset \in Nat /\ position \in Nat
  BY DEF SegmentInv
<1>2. Size(id) \in 0 .. Size(id)
  BY <1>1, Encoded DEF Size, Cells
<1>3. WriteAll(id, Size(id)) /\ position' = position + Size(id) /\ IndexRecord(id)
  BY DEF AppendRecord
<1>4. /\ file' \in Seq(Cell) /\ Len(file') \in Nat
      /\ written \subseteq written' /\ written' \subseteq Record
      /\ [offset |-> nextOffset, id |-> id] \in written'
  BY <1>2, <1>3, Written
<1>5. Touched(Size(id)) \subseteq 1 .. Len(file') /\ position' \in 0 .. Len(file')
  BY <1>2, <1>3, TouchedCells
<1>6. disk' \in Seq(Cell) /\ dirty' \subseteq 1 .. Len(file')
  <2>1. Synced(Touched(Size(id))) \in Seq(Cell) /\ disk \in Seq(Cell)
    BY <1>4, SyncedCells DEF SegmentInv
  <2> QED
    BY <1>5, <2>1 DEF AppendRecord
<1>7. nextOffset' \in Nat /\ DOMAIN index' \subseteq Nat /\ \A o \in DOMAIN index' : index'[o] \in Nat
  BY <1>1, <1>3 DEF IndexRecord, SegmentInv
<1>8. acked' \subseteq written'
  BY <1>3, <1>4 DEF IndexRecord, SegmentInv
<1>9. Record' = Record
  BY DEF Record
<1> QED
  BY <1>4, <1>5, <1>6, <1>7, <1>8, <1>9 DEF SegmentInv

\* An append that fails, and one that the process ends in.
LEMMA FailedAppendTypes ==
  ASSUME SegmentInv, NEW id \in Ids, NEW count \in 0 .. Size(id), WriteAll(id, count),
         dirty' \subseteq Touched(count), disk' = disk, acked' = acked,
         \/ LoseMemory
         \/ position' = position + count /\ UNCHANGED <<nextOffset, index>>
  PROVE  SegmentInv'
<1>1. /\ file' \in Seq(Cell) /\ Len(file') \in Nat
      /\ written \subseteq written' /\ written' \subseteq Record
  BY Written
<1>2. Touched(count) \subseteq 1 .. Len(file') /\ position + count \in 0 .. Len(file')
  BY TouchedCells
<1>3. /\ position' \in 0 .. Len(file') /\ nextOffset' \in Nat
      /\ DOMAIN index' \subseteq Nat /\ \A o \in DOMAIN index' : index'[o] \in Nat
  <2>1. CASE LoseMemory
    BY <1>1, <2>1, MemoryLost
  <2>2. CASE position' = position + count /\ UNCHANGED <<nextOffset, index>>
    BY <1>2, <2>2 DEF SegmentInv
  <2> QED
    BY <2>1, <2>2
<1>4. Record' = Record
  BY DEF Record
<1> QED
  BY <1>1, <1>2, <1>3, <1>4 DEF SegmentInv

LEMMA PowerLossTypes ==
  ASSUME SegmentInv, NEW n \in 0 .. Len(file), PowerLoss(n) PROVE SegmentInv'
<1>1. /\ file \in Seq(Cell) /\ Len(file) \in Nat /\ \A i \in 1 .. Len(file) : file[i] \in Cell
      /\ disk \in Seq(Cell) /\ Len(disk) \in Nat /\ \A i \in 1 .. Len(disk) : disk[i] \in Cell
      /\ dirty \subseteq 1 .. Len(file)
  BY DEF SegmentInv
<1>2. PICK m \in Nat : m = Max({Len(disk), n}) /\ m = IF Len(disk) >= n THEN Len(disk) ELSE n
  <2>1. PICK a \in Nat : a = Len(disk)
    BY <1>1
  <2>2. n \in Nat
    BY <1>1
  <2> QED
    BY <2>1, <2>2, MaxOfTwo
<1>3. Zero \in Cell
  BY DEF Cell
<1>4. file' = [i \in 1 .. m |-> IF i <= n /\ i \in dirty THEN file[i]
                                ELSE IF i <= Len(disk) THEN disk[i] ELSE Zero]
  BY <1>2 DEF PowerLoss
<1>5. \A i \in 1 .. m : (IF i <= n /\ i \in dirty THEN file[i]
                         ELSE IF i <= Len(disk) THEN disk[i] ELSE Zero) \in Cell
  BY <1>1, <1>3
<1>6. file' \in [1 .. m -> Cell]
  BY <1>4, <1>5
<1>7. file' \in Seq(Cell) /\ Len(file') = m
  BY <1>6, FunctionIsSeq
<1>8. /\ position' \in 0 .. Len(file') /\ nextOffset' \in Nat
      /\ DOMAIN index' \subseteq Nat /\ \A o \in DOMAIN index' : index'[o] \in Nat
      /\ acked' = acked
  BY <1>7, MemoryLost DEF PowerLoss
<1>9. disk' = file' /\ dirty' = {} /\ written' = written /\ Record' = Record
  BY DEF PowerLoss, Record
<1> QED
  BY <1>7, <1>8, <1>9 DEF SegmentInv

LEMMA LoseFileTypes ==
  ASSUME SegmentInv, LoseFile PROVE SegmentInv'
<1>1. file' = <<>> /\ disk' = <<>> /\ dirty' = {} /\ written' = written /\ Record' = Record
  BY DEF LoseFile, Record
<1>2. file' \in Seq(Cell) /\ disk' \in Seq(Cell) /\ Len(file') = 0
  BY <1>1, EmptySeq
<1>3. PICK m \in Nat : m = Len(file')
  BY <1>2
<1>4. /\ position' \in 0 .. Len(file') /\ nextOffset' \in Nat
      /\ DOMAIN index' \subseteq Nat /\ \A o \in DOMAIN index' : index'[o] \in Nat
      /\ acked' = acked
  BY <1>3, MemoryLost DEF LoseFile
<1> QED
  BY <1>1, <1>2, <1>4 DEF SegmentInv

LEMMA SegmentInvInit ==
  Init => SegmentInv
<1> SUFFICES ASSUME Init PROVE SegmentInv
  OBVIOUS
<1>1. file = <<>> /\ disk = <<>> /\ dirty = {} /\ position = 0 /\ nextOffset = 0
  BY DEF Init
<1>2. file \in Seq(Cell) /\ disk \in Seq(Cell) /\ Len(file) = 0
  BY <1>1, EmptySeq
<1>3. DOMAIN index = {} /\ acked = {} /\ written = {}
  BY DEF Init, EmptyFn
<1> QED
  BY <1>1, <1>2, <1>3 DEF SegmentInv

LEMMA SegmentInvNext ==
  SegmentInv /\ [Next]_vars => SegmentInv'
<1> SUFFICES ASSUME SegmentInv, [Next]_vars PROVE SegmentInv'
  OBVIOUS
<1>1. CASE OpenAndRecover
  BY <1>1, OpenTypes
<1>2. CASE Crash
  <2>1. file \in Seq(Cell) /\ Len(file) \in Nat /\ Record' = Record
    BY DEF SegmentInv, Record
  <2>2. LoseMemory /\ UNCHANGED <<file, disk, dirty, written>>
    BY <1>2 DEF Crash
  <2>3. /\ position' \in 0 .. Len(file') /\ nextOffset' \in Nat
        /\ DOMAIN index' \subseteq Nat /\ \A o \in DOMAIN index' : index'[o] \in Nat
        /\ acked' = acked
    <3>1. PICK m \in Nat : m = Len(file')
      BY <2>1, <2>2
    <3> QED
      BY <2>2, <3>1, MemoryLost
  <2> QED
    BY <2>1, <2>2, <2>3 DEF SegmentInv
<1>3. ASSUME NEW n \in 0 .. Len(file), PowerLoss(n) PROVE SegmentInv'
  BY <1>3, PowerLossTypes
<1>4. ASSUME NEW id \in Ids PROVE Size(id) \in Nat
  <2>1. nextOffset \in Nat
    BY DEF SegmentInv
  <2> QED
    BY <2>1, Encoded DEF Size, Cells
<1>5. ASSUME NEW id \in Ids, AppendRecord(id) PROVE SegmentInv'
  BY <1>5, AppendTypes
<1>6. ASSUME NEW id \in Ids, NEW fault, AppendNotSynced(id, fault) PROVE SegmentInv'
  <2>1. Size(id) \in 0 .. Size(id)
    BY <1>4
  <2>2. /\ WriteAll(id, Size(id)) /\ position' = position + Size(id)
        /\ dirty' \subseteq Touched(Size(id)) /\ disk' = disk /\ acked' = acked
        /\ UNCHANGED <<nextOffset, index>>
    BY <1>6 DEF AppendNotSynced
  <2> QED
    BY <2>1, <2>2, FailedAppendTypes
<1>7. ASSUME NEW id \in Ids, NEW count \in 1 .. Size(id), AppendShort(id, count)
      PROVE  SegmentInv'
  <2>1. count \in 0 .. Size(id)
    BY <1>4
  <2>2. /\ WriteAll(id, count) /\ position' = position + count
        /\ dirty' \subseteq Touched(count) /\ disk' = disk /\ acked' = acked
        /\ UNCHANGED <<nextOffset, index>>
    BY <1>7 DEF AppendShort
  <2> QED
    BY <2>1, <2>2, FailedAppendTypes
<1>8. ASSUME NEW id \in Ids, NEW count \in 1 .. Size(id), CrashInAppend(id, count)
      PROVE  SegmentInv'
  <2>1. count \in 0 .. Size(id)
    BY <1>4
  <2>2. /\ WriteAll(id, count) /\ LoseMemory
        /\ dirty' \subseteq Touched(count) /\ disk' = disk /\ acked' = acked
    BY <1>8 DEF CrashInAppend, LoseMemory
  <2> QED
    BY <2>1, <2>2, FailedAppendTypes
<1>9. CASE UNCHANGED vars
  BY <1>9 DEF vars, memory, SegmentInv, Record
<1>10. CASE OpenUncut
  BY <1>10, UncutTypes
<1>11. CASE LoseFile
  BY <1>11, LoseFileTypes
<1> QED
  BY <1>1, <1>2, <1>3, <1>10, <1>11, <1>5, <1>6, <1>7, <1>8, <1>9 DEF Next

\* Whatever happens to the file, the tables are well formed: the file
\* position is never past the end of the file, so that a write leaves no
\* hole; every confirmed record is one that some Append was given.
THEOREM TypeCorrect ==
  Spec => []TypeOK
<1>1. SegmentInv => TypeOK
  <2> SUFFICES ASSUME SegmentInv PROVE TypeOK
    OBVIOUS
  <2>1. DOMAIN file = 1 .. Len(file)
    BY DEF SegmentInv
  <2> QED
    BY <2>1 DEF SegmentInv, TypeOK
<1>2. Spec => []SegmentInv
  BY SegmentInvInit, SegmentInvNext, PTL DEF Spec
<1> QED
  BY <1>1, <1>2, PTL

\* Recover leaves no offset it has indexed unreadable: whatever the file
\* holds, overwritten, torn or undone, each offset in the index of a segment
\* that has just been opened reads as a record with that offset.
THEOREM RecoverIsReadable ==
  Spec => RecoveredReadable
<1>1. ASSUME SegmentInv, [Next]_vars, ~open, open', NEW o \in DOMAIN index'
      PROVE  Readable(o)' /\ Read(o)'.offset = o
  <2>1. OpenAndRecover \/ OpenUncut
    BY <1>1 DEF Next, vars, memory, Crash, PowerLoss, LoseFile, LoseMemory, AppendRecord,
                AppendNotSynced, AppendShort, CrashInAppend, Admits
  <2>2. file \in Seq(Cell)
    BY <1>1 DEF SegmentInv
  <2>3. CASE OpenAndRecover
    <3>1. file' = SubSeq(file, 1, RecoveredEnd(file)) /\ index' = RecoveredIndex(file)
      BY <2>3 DEF OpenAndRecover
    <3>2. Decodes(file', index'[o]) /\ DecodeRecord(file', index'[o]).offset = o
      BY <1>1, <2>2, <3>1, RecoveredIsReadable
    <3> QED
      BY <1>1, <3>2 DEF Readable, Read
  <2>4. CASE OpenUncut
    <3>1. file' = file /\ index' = RecoveredIndex(file)
      BY <2>4 DEF OpenUncut
    <3>2. PICK i \in 1 .. Len(Starts(file)) :
             index'[o] = Starts(file)[i] /\ DecodeRecord(file, Starts(file)[i]).offset = o
      BY <1>1, <2>2, <3>1, IndexFound
    <3>3. Decodes(file, Starts(file)[i])
      BY <2>2, StartsInside
    <3>4. Decodes(file', index'[o]) /\ DecodeRecord(file', index'[o]).offset = o
      BY <3>1, <3>2, <3>3
    <3> QED
      BY <1>1, <3>4 DEF Readable, Read
  <2> QED
    BY <2>1, <2>3, <2>4
<1>2. SegmentInv /\ [Next]_vars =>
        [~open /\ open' => \A o \in DOMAIN index' : Readable(o)' /\ Read(o)'.offset = o]_vars
  BY <1>1
<1>3. Spec => []SegmentInv
  BY SegmentInvInit, SegmentInvNext, PTL DEF Spec
<1> QED
  BY <1>2, <1>3, PTL DEF Spec, RecoveredReadable

-----------------------------------------------------------------------------
(* No half of a record is read.                                            *)

\* The halves of a header that stand together are of one record of w, and
\* the sizes and the CRC are those of its body.
HeadersPaired(f, w) ==
    \A p \in 0 .. Len(f) : HeaderAt(f, p) =>
        DecodeRecord(f, p) \in w /\ f[p + 1].body = Body[f[p + 2].id]

\* Where headers are paired, what decodes is a record as it was written.
LEMMA PairedReads ==
  ASSUME NEW f \in Seq(Cell), NEW w \in SUBSET Record, HeadersPaired(f, w),
         NEW p \in Nat, Decodes(f, p)
  PROVE  /\ DecodeRecord(f, p) \in w
         /\ SubSeq(f, p + 1, p + RecordSize(f, p))
              = EncodeRecord(DecodeRecord(f, p).id, DecodeRecord(f, p).offset)
<1>1. Len(f) \in Nat /\ p \in 0 .. Len(f) /\ HeaderAt(f, p) /\ p + 2 <= Len(f)
  BY DecodesInside DEF Decodes, HeaderAt
<1>2. DecodeRecord(f, p) \in w /\ f[p + 1].body = Body[f[p + 2].id]
  BY <1>1 DEF HeadersPaired
<1>3. PICK o \in Nat, id \in Ids : DecodeRecord(f, p) = [offset |-> o, id |-> id]
                                   /\ o = f[p + 2].offset /\ id = f[p + 2].id
  BY DecodesInside DEF DecodeRecord
<1>4. PICK b : b = Body[id] /\ b \in Seq(STRING) /\ Len(b) \in Nat /\ DOMAIN b = 1 .. Len(b)
  BY BodyAssumption
<1>5. RecordSize(f, p) = 2 + Len(b) /\ f[p + 1].body = b
  BY <1>2, <1>3, <1>4 DEF RecordSize
<1>6. f[p + 1] \in Cell /\ f[p + 2] \in Cell /\ f[p + 1].part = "sizes" /\ f[p + 2].part = "ids"
  <2>1. p + 1 \in 1 .. Len(f) /\ p + 2 \in 1 .. Len(f)
    BY <1>1
  <2> QED
    BY <1>1, <2>1, ElementOfSeq DEF HeaderAt
<1>7. f[p + 1] = [part |-> "sizes", body |-> b]
  BY <1>5, <1>6 DEF Cell, SizesCell, IdsCell, BodyCell, Zero
<1>8. f[p + 2] = [part |-> "ids", offset |-> o, id |-> id]
  BY <1>3, <1>6 DEF Cell, SizesCell, IdsCell, BodyCell, Zero
<1>9. \A i \in 1 .. Len(b) : f[p + 2 + i] = [part |-> "body", byte |-> b[i]]
  BY <1>4, <1>5 DEF Decodes
<1>10. PICK e \in Seq(Cell) :
          /\ e = EncodeRecord(id, o) /\ Len(e) = 2 + Len(b)
          /\ e[1] = f[p + 1] /\ e[2] = f[p + 2]
          /\ \A i \in 1 .. Len(b) : e[2 + i] = f[p + 2 + i]
  <2>1. PICK e \in Seq(Cell) :
           /\ e = EncodeRecord(id, o) /\ Len(e) = 2 + Len(Body[id])
           /\ e[1] = [part |-> "sizes", body |-> Body[id]]
           /\ e[2] = [part |-> "ids", offset |-> o, id |-> id]
           /\ \A i \in 1 .. Len(Body[id]) : e[2 + i] = [part |-> "body", byte |-> Body[id][i]]
    BY Encoded
  <2>2. Len(e) = 2 + Len(b) /\ e[1] = f[p + 1] /\ e[2] = f[p + 2]
    BY <1>4, <1>7, <1>8, <2>1
  <2>3. \A i \in 1 .. Len(b) : e[2 + i] = f[p + 2 + i]
    BY <1>4, <1>9, <2>1
  <2> QED
    BY <2>1, <2>2, <2>3
<1>11. ASSUME NEW i \in 1 .. 2 + Len(b) PROVE e[i] = f[p + i]
  <2>1. CASE i = 1 \/ i = 2
    BY <1>10, <2>1
  <2>2. CASE i - 2 \in 1 .. Len(b)
    <3>1. PICK j \in 1 .. Len(b) : i = 2 + j
      BY <2>2
    <3>2. e[2 + j] = f[p + 2 + j]
      BY <1>10
    <3> QED
      BY <1>4, <3>1, <3>2
  <2> QED
    BY <1>4, <2>1, <2>2
<1>12. PICK s : s = SubSeq(f, p + 1, p + RecordSize(f, p))
  OBVIOUS
<1>13. s \in Seq(Cell) /\ Len(s) = 2 + Len(b) /\ \A i \in 1 .. 2 + Len(b) : s[i] = f[p + i]
  <2>1. PICK k \in Nat : k = Len(b)
    BY <1>4
  <2>2. p + 2 + k <= Len(f) /\ RecordSize(f, p) = 2 + k
    BY <1>5, <2>1 DEF Decodes
  <2>3. PICK m \in Nat, l \in Nat : m = p + 1 /\ l = p + RecordSize(f, p) /\ l = p + 2 + k
    <3>1. p + 1 \in Nat /\ p + 2 + k \in Nat /\ p + (2 + k) = p + 2 + k
      BY <2>1
    <3> QED
      BY <2>2, <3>1
  <2>4. \A i \in m .. l : f[i] \in Cell
    BY <1>1, <2>2, <2>3
  <2>5. s = SubSeq(f, m, l)
    BY <1>12, <2>3
  <2>6. /\ s \in Seq(Cell) /\ Len(s) = IF m <= l THEN l - m + 1 ELSE 0
        /\ \A i \in 1 .. l - m + 1 : s[i] = f[m + i - 1]
    BY <2>4, <2>5, SubSeqProperties
  <2>7. l - m + 1 = 2 + k /\ m <= l /\ \A i \in 1 .. 2 + k : m + i - 1 = p + i
    BY <2>3
  <2> QED
    BY <2>1, <2>6, <2>7
<1>14. s = e
  <2>1. Len(s) = Len(e) /\ \A i \in 1 .. Len(s) : s[i] = e[i]
    BY <1>10, <1>11, <1>13
  <2> QED
    BY <1>13, <2>1, SeqEqual
<1>15. DecodeRecord(f, p).id = id /\ DecodeRecord(f, p).offset = o
  BY <1>3
<1> QED
  BY <1>2, <1>10, <1>12, <1>14, <1>15

\* g is f with the first k cells of a record behind it.
Extended(f, g, id, o, k) ==
    /\ k \in 1 .. Len(EncodeRecord(id, o))
    /\ Len(g) = Len(f) + k
    /\ \A i \in 1 .. Len(f) : g[i] = f[i]
    /\ \A i \in 1 .. k : g[Len(f) + i] = EncodeRecord(id, o)[i]

\* The cells written: a first one, a second one, and others.
CellsWritten(f, g, id, o, k) ==
    /\ Len(f) \in Nat /\ Len(g) \in Nat /\ k \in Nat /\ 1 <= k /\ Len(g) = Len(f) + k
    /\ k <= 2 + Len(Body[id]) /\ Len(Body[id]) \in Nat
    /\ \A i \in 1 .. Len(f) : g[i] = f[i]
    /\ g[Len(f) + 1] = [part |-> "sizes", body |-> Body[id]]
    /\ 2 <= k => g[Len(f) + 2] = [part |-> "ids", offset |-> o, id |-> id]
    /\ \A i \in 3 .. k : g[Len(f) + i] = [part |-> "body", byte |-> Body[id][i - 2]]

LEMMA ExtendedCells ==
  ASSUME NEW f \in Seq(Cell), NEW g \in Seq(Cell), NEW id \in Ids, NEW o \in Nat, NEW k,
         Extended(f, g, id, o, k)
  PROVE  CellsWritten(f, g, id, o, k)
<1>1. PICK e \in Seq(Cell) :
         /\ e = EncodeRecord(id, o) /\ Len(e) = 2 + Len(Body[id]) /\ Len(Body[id]) \in Nat
         /\ e[1] = [part |-> "sizes", body |-> Body[id]]
         /\ e[2] = [part |-> "ids", offset |-> o, id |-> id]
         /\ \A i \in 1 .. Len(Body[id]) : e[2 + i] = [part |-> "body", byte |-> Body[id][i]]
  BY Encoded
<1>2. /\ k \in 1 .. 2 + Len(Body[id]) /\ Len(f) \in Nat /\ Len(g) \in Nat /\ Len(g) = Len(f) + k
      /\ \A i \in 1 .. Len(f) : g[i] = f[i]
      /\ \A i \in 1 .. k : g[Len(f) + i] = e[i]
  BY <1>1 DEF Extended
<1>3. ASSUME NEW i \in 3 .. k
      PROVE  g[Len(f) + i] = [part |-> "body", byte |-> Body[id][i - 2]]
  <2>1. i - 2 \in 1 .. Len(Body[id]) /\ 2 + (i - 2) = i /\ i \in 1 .. k
    BY <1>1, <1>2
  <2>2. e[i] = [part |-> "body", byte |-> Body[id][i - 2]]
    BY <1>1, <2>1
  <2> QED
    BY <1>2, <2>1, <2>2
<1>4. g[Len(f) + 1] = e[1] /\ (2 <= k => g[Len(f) + 2] = e[2])
  BY <1>1, <1>2
<1> QED
  BY <1>1, <1>2, <1>3, <1>4 DEF CellsWritten

LEMMA ExtendedPaired ==
  ASSUME NEW f \in Seq(Cell), NEW g \in Seq(Cell), NEW id \in Ids, NEW o \in Nat, NEW k,
         Extended(f, g, id, o, k), NEW w, NEW v, HeadersPaired(f, w), w \subseteq v,
         [offset |-> o, id |-> id] \in v
  PROVE  HeadersPaired(g, v)
<1>1. /\ Len(f) \in Nat /\ Len(g) \in Nat /\ k \in Nat /\ 1 <= k /\ Len(g) = Len(f) + k
      /\ \A i \in 1 .. Len(f) : g[i] = f[i]
      /\ g[Len(f) + 1] = [part |-> "sizes", body |-> Body[id]]
      /\ 2 <= k => g[Len(f) + 2] = [part |-> "ids", offset |-> o, id |-> id]
      /\ \A i \in 3 .. k : g[Len(f) + i] = [part |-> "body", byte |-> Body[id][i - 2]]
  <2>1. CellsWritten(f, g, id, o, k)
    BY ExtendedCells
  <2> QED
    BY <2>1, Zenon DEF CellsWritten
<1> SUFFICES ASSUME NEW p \in 0 .. Len(g), HeaderAt(g, p)
             PROVE  DecodeRecord(g, p) \in v /\ g[p + 1].body = Body[g[p + 2].id]
  BY DEF HeadersPaired
<1>2. p \in Nat /\ p + 2 <= Len(g) /\ g[p + 1].part = "sizes" /\ g[p + 2].part = "ids"
  BY <1>1 DEF HeaderAt
<1>3. CASE p + 2 <= Len(f)
  <2>1. g[p + 1] = f[p + 1] /\ g[p + 2] = f[p + 2] /\ p \in 0 .. Len(f)
    BY <1>1, <1>2, <1>3
  <2>2. HeaderAt(f, p)
    BY <1>2, <1>3, <2>1 DEF HeaderAt
  <2>3. DecodeRecord(f, p) \in w /\ f[p + 1].body = Body[f[p + 2].id]
    BY <2>1, <2>2 DEF HeadersPaired
  <2> QED
    BY <2>1, <2>3 DEF DecodeRecord
<1>4. CASE p + 2 = Len(f) + 1
  <2>1. g[p + 2].part = "sizes"
    BY <1>1, <1>4
  <2> QED
    BY <1>2, <2>1
<1>5. CASE p + 2 = Len(f) + 2
  <2>1. p = Len(f) /\ 2 <= k
    BY <1>1, <1>2, <1>5
  <2>2. /\ g[p + 1] = [part |-> "sizes", body |-> Body[id]]
        /\ g[p + 2] = [part |-> "ids", offset |-> o, id |-> id]
    BY <1>1, <2>1
  <2> QED
    BY <2>2 DEF DecodeRecord
<1>6. CASE p + 2 > Len(f) + 2
  <2>1. PICK i \in 3 .. k : p + 2 = Len(f) + i
    <3>1. p + 2 - Len(f) \in 3 .. k /\ p + 2 = Len(f) + (p + 2 - Len(f))
      BY <1>1, <1>2, <1>6
    <3> QED
      BY <3>1
  <2>2. g[p + 2] = [part |-> "body", byte |-> Body[id][i - 2]]
    BY <1>1, <2>1
  <2> QED
    BY <1>2, <2>2
<1> QED
  BY <1>1, <1>2, <1>3, <1>4, <1>5, <1>6

\* A file that starts as f does.
LEMMA PrefixPaired ==
  ASSUME NEW f \in Seq(Cell), NEW g \in Seq(Cell), NEW w, HeadersPaired(f, w),
         Len(g) <= Len(f), \A i \in 1 .. Len(g) : g[i] = f[i]
  PROVE  HeadersPaired(g, w)
<1>1. Len(f) \in Nat /\ Len(g) \in Nat
  OBVIOUS
<1> SUFFICES ASSUME NEW p \in 0 .. Len(g), HeaderAt(g, p)
             PROVE  DecodeRecord(g, p) \in w /\ g[p + 1].body = Body[g[p + 2].id]
  BY DEF HeadersPaired
<1>2. p + 2 <= Len(g) /\ g[p + 1].part = "sizes" /\ g[p + 2].part = "ids"
  BY DEF HeaderAt
<1>3. g[p + 1] = f[p + 1] /\ g[p + 2] = f[p + 2] /\ p \in 0 .. Len(f) /\ p + 2 <= Len(f)
  BY <1>1, <1>2
<1>4. HeaderAt(f, p)
  BY <1>2, <1>3 DEF HeaderAt
<1>5. DecodeRecord(f, p) \in w /\ f[p + 1].body = Body[f[p + 2].id]
  BY <1>3, <1>4 DEF HeadersPaired
<1> QED
  BY <1>3, <1>5 DEF DecodeRecord

\* A record written whole decodes where it was written.
LEMMA WrittenDecodes ==
  ASSUME NEW f \in Seq(Cell), NEW g \in Seq(Cell), NEW id \in Ids, NEW o \in Nat, NEW k,
         Extended(f, g, id, o, k), k = Len(EncodeRecord(id, o))
  PROVE  /\ Decodes(g, Len(f)) /\ DecodeRecord(g, Len(f)) = [offset |-> o, id |-> id]
         /\ RecordSize(g, Len(f)) = k
<1>1. PICK n \in Nat, b \in Seq(STRING) : /\ n = Len(f) /\ b = Body[id] /\ b \in Seq(STRING) /\ Len(b) \in Nat
                          /\ DOMAIN b = 1 .. Len(b)
  BY BodyAssumption
<1>2. /\ Len(g) = n + k /\ k \in Nat
      /\ g[n + 1] = [part |-> "sizes", body |-> b]
      /\ 2 <= k => g[n + 2] = [part |-> "ids", offset |-> o, id |-> id]
      /\ \A i \in 3 .. k : g[n + i] = [part |-> "body", byte |-> b[i - 2]]
  BY <1>1, ExtendedCells DEF CellsWritten
<1>3. k = 2 + Len(b)
  BY <1>1, Encoded
<1>4. g[n + 2] = [part |-> "ids", offset |-> o, id |-> id] /\ n + 2 <= Len(g)
  BY <1>1, <1>2, <1>3
<1>5. HeaderAt(g, n)
  BY <1>2, <1>4 DEF HeaderAt
<1>6. RecordSize(g, n) = k /\ g[n + 1].body = b
  BY <1>2, <1>3 DEF RecordSize
<1>7. ASSUME NEW i \in DOMAIN b
      PROVE  g[n + 2 + i] = [part |-> "body", byte |-> b[i]]
  <2>1. i \in 1 .. Len(b)
    BY <1>1
  <2>2. 2 + i \in 3 .. k /\ (2 + i) - 2 = i /\ n + (2 + i) = n + 2 + i
    <3>1. PICK m \in Nat : m = Len(b)
      BY <1>1
    <3>2. k = 2 + m /\ i \in 1 .. m
      BY <1>3, <2>1, <3>1
    <3> QED
      BY <3>2
  <2> QED
    BY <1>2, <2>2
<1>8. Decodes(g, n)
  <2>1. n + RecordSize(g, n) <= Len(g)
    BY <1>2, <1>6
  <2> QED
    BY <1>5, <1>6, <1>7, <2>1 DEF Decodes
<1>9. DecodeRecord(g, n) = [offset |-> o, id |-> id]
  BY <1>4 DEF DecodeRecord
<1> QED
  BY <1>1, <1>6, <1>8, <1>9

\* A file with nothing behind its first record's header and body; the first
\* record is whole, or there is no other.
LoneHeader(f) == \A i \in 3 .. Len(f) : f[i].part # "ids"
FirstWhole(f) == Decodes(f, 0) \/ LoneHeader(f)

\* File and disk have the same cells where both have one.
Agree(f, d) == \A i \in 1 .. Len(f) : i <= Len(d) => d[i] = f[i]

\* A cell that is not dirty is on the disk.
Backed(f, d, D) == \A i \in 1 .. Len(f) : i \notin D => i <= Len(d) /\ d[i] = f[i]

\* The file, the disk and the dirty cells of a segment that has met nothing
\* worse than a power loss; `end` is its position if it is open.  After a
\* recovery that has cut off the whole file the disk may still hold a torn
\* first record, and nothing else, under what is written next.
Sound(f, d, D, w, up, end) ==
    /\ HeadersPaired(f, w) /\ HeadersPaired(d, w)
    /\ Backed(f, d, D)
    /\ Agree(f, d) \/ LoneHeader(d)
    /\ FirstWhole(f) /\ FirstWhole(d)
    /\ Decodes(f, 0) \/ LoneHeader(d)
    /\ up => (end = Len(f) /\ Len(f) < Len(d) => LoneHeader(d))
    /\ up => (Len(f) = 0 \/ Decodes(f, 0))

LEMMA PairedMore ==
  ASSUME NEW f, NEW w, NEW v, HeadersPaired(f, w), w \subseteq v
  PROVE  HeadersPaired(f, v)
BY DEF HeadersPaired

LEMMA EmptyDecodesNothing ==
  ASSUME NEW f \in Seq(Cell), Len(f) = 0
  PROVE  ~Decodes(f, 0)
BY DEF Decodes, HeaderAt

\* The first record stays whole behind what is written at the end, and a
\* record written to an empty file is the first.
LEMMA ExtendedFirst ==
  ASSUME NEW f \in Seq(Cell), NEW g \in Seq(Cell), NEW id \in Ids, NEW o \in Nat, NEW k,
         Extended(f, g, id, o, k), Len(f) = 0 \/ Decodes(f, 0)
  PROVE  /\ FirstWhole(g)
         /\ Decodes(f, 0) => Decodes(g, 0)
         /\ k = Len(EncodeRecord(id, o)) => Decodes(g, 0)
<1>1. /\ Len(f) \in Nat /\ Len(g) \in Nat /\ k \in Nat /\ Len(g) = Len(f) + k
      /\ \A i \in 1 .. Len(f) : g[i] = f[i]
      /\ \A i \in 3 .. k : g[Len(f) + i] = [part |-> "body", byte |-> Body[id][i - 2]]
  <2>1. CellsWritten(f, g, id, o, k)
    BY ExtendedCells
  <2> QED
    BY <2>1, Zenon DEF CellsWritten
<1>2. CASE Decodes(f, 0)
  <2>1. PICK z \in Nat : z = RecordSize(f, 0) /\ 0 + z <= Len(f)
    BY <1>2, DecodesInside
  <2>2. 0 + z <= Len(g) /\ \A i \in 1 .. Len(g) : i <= 0 + z => g[i] = f[i]
    BY <1>1, <2>1
  <2>3. Decodes(g, 0)
    BY <1>2, <2>1, <2>2, SameRecord
  <2> QED
    BY <2>3 DEF FirstWhole
<1>3. CASE Len(f) = 0
  <2>1. LoneHeader(g)
    <3>1. ASSUME NEW i \in 3 .. Len(g) PROVE g[i].part # "ids"
      <4>1. i \in 3 .. k /\ Len(f) + i = i
        BY <1>1, <1>3
      <4>2. g[i] = [part |-> "body", byte |-> Body[id][i - 2]]
        BY <1>1, <4>1
      <4> QED
        BY <4>2
    <3> QED
      BY <3>1 DEF LoneHeader
  <2>2. ~Decodes(f, 0)
    BY <1>3, EmptyDecodesNothing
  <2>3. k = Len(EncodeRecord(id, o)) => Decodes(g, 0)
    BY <1>3, WrittenDecodes
  <2> QED
    BY <2>1, <2>2, <2>3 DEF FirstWhole
<1> QED
  BY <1>2, <1>3

\* A write of k cells of a record of m at the end of f, synced or not.
SoundlyWritten(f, g, d, D, v, k, m) ==
    /\ Sound(g, d, D \cup (Len(f) + 1 .. Len(f) + k), v, FALSE, 0)
    /\ k = m => /\ Sound(g, d, D \cup (Len(f) + 1 .. Len(f) + k), v, TRUE, Len(g))
                /\ Sound(g, g, {}, v, TRUE, Len(g))

LEMMA ExtendedSound ==
  ASSUME NEW f \in Seq(Cell), NEW g \in Seq(Cell), NEW d \in Seq(Cell), NEW D,
         NEW id \in Ids, NEW o \in Nat, NEW k, Extended(f, g, id, o, k),
         NEW w, NEW v, w \subseteq v, [offset |-> o, id |-> id] \in v,
         Sound(f, d, D, w, TRUE, Len(f))
  PROVE  SoundlyWritten(f, g, d, D, v, k, Len(EncodeRecord(id, o)))
<1> DEFINE T == D \cup (Len(f) + 1 .. Len(f) + k)
<1>1. /\ Len(f) \in Nat /\ Len(g) \in Nat /\ k \in Nat /\ 1 <= k /\ Len(g) = Len(f) + k
      /\ \A i \in 1 .. Len(f) : g[i] = f[i]
  <2>1. CellsWritten(f, g, id, o, k)
    BY ExtendedCells
  <2> QED
    BY <2>1, Zenon DEF CellsWritten
<1>2. Len(d) \in Nat
  OBVIOUS
<1>3. /\ HeadersPaired(f, w) /\ HeadersPaired(d, w) /\ Backed(f, d, D)
      /\ Agree(f, d) \/ LoneHeader(d)
      /\ FirstWhole(d)
      /\ Decodes(f, 0) \/ LoneHeader(d)
      /\ Len(f) < Len(d) => LoneHeader(d)
      /\ Len(f) = 0 \/ Decodes(f, 0)
  BY DEF Sound
<1>4. HeadersPaired(g, v) /\ HeadersPaired(d, v)
  BY <1>3, ExtendedPaired, PairedMore
<1>5. /\ FirstWhole(g)
      /\ Decodes(f, 0) => Decodes(g, 0)
      /\ k = Len(EncodeRecord(id, o)) => Decodes(g, 0)
  BY <1>3, ExtendedFirst
<1>6. Backed(g, d, T)
  <2> SUFFICES ASSUME NEW i \in 1 .. Len(g), i \notin T PROVE i <= Len(d) /\ d[i] = g[i]
    BY DEF Backed
  <2>1. i \in 1 .. Len(f) /\ i \notin D
    BY <1>1
  <2> QED
    BY <1>1, <1>3, <2>1 DEF Backed
<1>7. Agree(g, d) \/ LoneHeader(d)
  <2> SUFFICES ASSUME ~LoneHeader(d) PROVE Agree(g, d)
    OBVIOUS
  <2>1. Len(d) <= Len(f) /\ Agree(f, d)
    BY <1>1, <1>2, <1>3
  <2> QED
    BY <1>1, <1>2, <2>1 DEF Agree
<1>8. Len(g) < Len(d) => LoneHeader(d)
  BY <1>1, <1>2, <1>3
<1>9. Backed(g, g, {}) /\ Agree(g, g) /\ ~(Len(g) < Len(g))
  BY <1>1 DEF Backed, Agree
<1> HIDE DEF T
<1>10. Sound(g, d, T, v, FALSE, 0)
  BY <1>3, <1>4, <1>5, <1>6, <1>7, Zenon DEF Sound
<1>11. k = Len(EncodeRecord(id, o)) => Sound(g, d, T, v, TRUE, Len(g))
  BY <1>3, <1>4, <1>5, <1>6, <1>7, <1>8, Zenon DEF Sound
<1>12. k = Len(EncodeRecord(id, o)) => Sound(g, g, {}, v, TRUE, Len(g))
  BY <1>4, <1>5, <1>9, Zenon DEF Sound
<1> QED
  BY <1>10, <1>11, <1>12, Zenon DEF T, SoundlyWritten

\* Of the file the first n cells are left, and behind them those of the disk.
Joined(f, d, n, g) ==
    /\ Len(g) = IF Len(d) >= n THEN Len(d) ELSE n
    /\ \A i \in 1 .. Len(g) : g[i] = IF i <= n THEN f[i] ELSE d[i]

\* The halves of two headers do not meet where file and disk are joined.
LEMMA JoinedPaired ==
  ASSUME NEW f \in Seq(Cell), NEW d \in Seq(Cell), NEW n \in 0 .. Len(f), n # 1,
         NEW g \in Seq(Cell), Joined(f, d, n, g), NEW w,
         HeadersPaired(f, w), HeadersPaired(d, w), Agree(f, d) \/ LoneHeader(d)
  PROVE  HeadersPaired(g, w)
<1>1. /\ Len(f) \in Nat /\ Len(d) \in Nat /\ Len(g) \in Nat /\ n \in Nat /\ n <= Len(f)
      /\ Len(g) = IF Len(d) >= n THEN Len(d) ELSE n
      /\ \A i \in 1 .. Len(g) : g[i] = IF i <= n THEN f[i] ELSE d[i]
  BY DEF Joined
<1> SUFFICES ASSUME NEW p \in 0 .. Len(g), HeaderAt(g, p)
             PROVE  DecodeRecord(g, p) \in w /\ g[p + 1].body = Body[g[p + 2].id]
  BY DEF HeadersPaired
<1>2. p \in Nat /\ p + 2 <= Len(g) /\ g[p + 1].part = "sizes" /\ g[p + 2].part = "ids"
  BY <1>1 DEF HeaderAt
<1>3. p + 1 \in 1 .. Len(g) /\ p + 2 \in 1 .. Len(g)
  BY <1>1, <1>2
<1>4. ASSUME NEW h \in Seq(Cell), HeadersPaired(h, w), p + 2 <= Len(h),
             g[p + 1] = h[p + 1], g[p + 2] = h[p + 2]
      PROVE  DecodeRecord(g, p) \in w /\ g[p + 1].body = Body[g[p + 2].id]
  <2>1. Len(h) \in Nat
    OBVIOUS
  <2>2. HeaderAt(h, p) /\ p \in 0 .. Len(h)
    BY <1>2, <1>4, <2>1 DEF HeaderAt
  <2>3. DecodeRecord(h, p) \in w /\ h[p + 1].body = Body[h[p + 2].id]
    BY <1>4, <2>2 DEF HeadersPaired
  <2> QED
    BY <1>4, <2>3 DEF DecodeRecord
<1>5. CASE p + 2 <= n
  <2>1. g[p + 1] = f[p + 1] /\ g[p + 2] = f[p + 2] /\ p + 2 <= Len(f)
    BY <1>1, <1>2, <1>3, <1>5
  <2> QED
    BY <1>4, <2>1
<1>6. CASE p + 2 > n
  <2>1. Len(g) = Len(d) /\ g[p + 2] = d[p + 2] /\ p + 2 <= Len(d)
    BY <1>1, <1>2, <1>3, <1>6
  <2>2. CASE p + 1 > n
    <3>1. g[p + 1] = d[p + 1]
      BY <1>1, <1>2, <1>3, <2>2
    <3> QED
      BY <1>4, <2>1, <3>1
  <2>3. CASE p + 1 <= n
    <3>1. p + 1 = n /\ 2 <= n /\ g[p + 1] = f[p + 1] /\ p + 1 \in 1 .. Len(f)
      BY <1>1, <1>2, <1>3, <1>6, <2>3
    <3>2. ~LoneHeader(d)
      <4>1. p + 2 \in 3 .. Len(d)
        BY <1>1, <1>2, <2>1, <3>1
      <4> QED
        BY <1>2, <2>1, <4>1 DEF LoneHeader
    <3>3. d[p + 1] = f[p + 1]
      <4>1. p + 1 <= Len(d)
        BY <1>1, <1>2, <2>1
      <4> QED
        BY <3>1, <3>2, <4>1 DEF Agree
    <3> QED
      BY <1>4, <2>1, <3>1, <3>3
  <2> QED
    BY <1>1, <1>2, <2>2, <2>3
<1> QED
  BY <1>1, <1>2, <1>5, <1>6

\* Nor does a second record come to stand behind a torn first one.
LEMMA JoinedFirst ==
  ASSUME NEW f \in Seq(Cell), NEW d \in Seq(Cell), NEW n \in 0 .. Len(f),
         NEW g \in Seq(Cell), Joined(f, d, n, g),
         FirstWhole(f), FirstWhole(d), Agree(f, d) \/ LoneHeader(d),
         Decodes(f, 0) \/ LoneHeader(d)
  PROVE  FirstWhole(g)
<1>1. /\ Len(f) \in Nat /\ Len(d) \in Nat /\ Len(g) \in Nat /\ n \in Nat /\ n <= Len(f)
      /\ Len(g) = IF Len(d) >= n THEN Len(d) ELSE n
      /\ \A i \in 1 .. Len(g) : g[i] = IF i <= n THEN f[i] ELSE d[i]
  BY DEF Joined
<1>2. CASE ~Decodes(f, 0)
  <2>1. LoneHeader(f) /\ LoneHeader(d)
    BY <1>2 DEF FirstWhole
  <2>2. LoneHeader(g)
    BY <1>1, <2>1 DEF LoneHeader
  <2> QED
    BY <2>2 DEF FirstWhole
<1>3. CASE Decodes(f, 0)
  <2>1. PICK z \in Nat : z = RecordSize(f, 0) /\ 0 + z <= Len(f)
    BY <1>3, DecodesInside
  <2>2. CASE z <= n
    <3>1. 0 + z <= Len(g) /\ \A i \in 1 .. Len(g) : i <= 0 + z => g[i] = f[i]
      BY <1>1, <2>1, <2>2
    <3>2. Decodes(g, 0)
      BY <1>3, <2>1, <3>1, SameRecord
    <3> QED
      BY <3>2 DEF FirstWhole
  <2>3. CASE n < z
    <3>1. ASSUME NEW i \in 3 .. n PROVE f[i].part # "ids"
      <4>1. PICK b : b = f[1].body /\ b \in Seq(STRING) /\ Len(b) \in Nat /\ z = 2 + Len(b)
        <5>1. f[0 + 1].body \in Seq(STRING) /\ 0 + 1 = 1
          BY <1>3, DecodesInside
        <5> QED
          BY <2>1, <5>1 DEF RecordSize
      <4>2. i - 2 \in DOMAIN b /\ 0 + 2 + (i - 2) = i
        BY <1>1, <2>3, <4>1
      <4>3. f[0 + 2 + (i - 2)] = [part |-> "body", byte |-> b[i - 2]]
        BY <1>3, <4>1, <4>2 DEF Decodes
      <4> QED
        BY <4>2, <4>3
    <3>2. CASE LoneHeader(d)
      <4>1. LoneHeader(g)
        BY <1>1, <3>1, <3>2 DEF LoneHeader
      <4> QED
        BY <4>1 DEF FirstWhole
    <3>3. CASE Agree(f, d) /\ Len(d) < n
      <4>1. LoneHeader(g)
        BY <1>1, <3>1, <3>3 DEF LoneHeader
      <4> QED
        BY <4>1 DEF FirstWhole
    <3>4. CASE Agree(f, d) /\ n <= Len(d)
      <4>1. Len(g) = Len(d) /\ \A i \in 1 .. Len(g) : g[i] = d[i]
        BY <1>1, <3>4 DEF Agree
      <4>2. g = d
        BY <4>1, SeqEqual
      <4> QED
        BY <4>2
    <3> QED
      BY <1>1, <3>2, <3>3, <3>4
  <2> QED
    BY <1>1, <2>1, <2>2, <2>3
<1> QED
  BY <1>2, <1>3

LEMMA JoinedSound ==
  ASSUME NEW f \in Seq(Cell), NEW d \in Seq(Cell), NEW n \in 0 .. Len(f), n # 1,
         NEW g \in Seq(Cell), Joined(f, d, n, g), NEW w, NEW D, NEW up, NEW end,
         Sound(f, d, D, w, up, end)
  PROVE  Sound(g, g, {}, w, FALSE, 0)
<1>1. /\ HeadersPaired(f, w) /\ HeadersPaired(d, w) /\ FirstWhole(f) /\ FirstWhole(d)
      /\ Agree(f, d) \/ LoneHeader(d)
      /\ Decodes(f, 0) \/ LoneHeader(d)
  BY DEF Sound
<1>2. HeadersPaired(g, w) /\ FirstWhole(g)
  BY <1>1, JoinedPaired, JoinedFirst
<1>3. Backed(g, g, {}) /\ Agree(g, g)
  <2>1. Len(g) \in Nat
    OBVIOUS
  <2> QED
    BY <2>1 DEF Backed, Agree
<1>4. Decodes(g, 0) \/ LoneHeader(g)
  BY <1>2 DEF FirstWhole
<1> QED
  BY <1>2, <1>3, <1>4, Zenon DEF Sound

\* Recover finds the first record if there is one, and otherwise leaves an
\* empty file.
LEMMA RecoveredFirst ==
  ASSUME NEW f \in Seq(Cell)
  PROVE  IF Decodes(f, 0) THEN RecordSize(f, 0) <= RecoveredEnd(f) ELSE RecoveredEnd(f) = 0
<1>1. Finds(Len(f), Found(f), NextOf(f), 0, Starts(f)) /\ Len(f) \in Nat
  BY StartsFound
<1>2. 0 \in Found(f) <=> Decodes(f, 0)
  BY <1>1 DEF Found
<1>3. CASE Decodes(f, 0)
  <2>1. Starts(f) # <<>>
    BY <1>1, <1>2, <1>3 DEF Finds, EndOf
  <2>2. Len(Starts(f)) \in Nat /\ Len(Starts(f)) # 0
    BY <1>1, <2>1, EmptySeq DEF Finds
  <2>3. 1 \in 1 .. Len(Starts(f)) /\ Starts(f)[1] = 0
    BY <1>1, <2>1, <2>2 DEF Finds
  <2>4. 0 + RecordSize(f, 0) <= RecoveredEnd(f)
    BY <2>3, StartsInside
  <2>5. RecordSize(f, 0) \in Nat
    BY <1>3, DecodesInside
  <2> QED
    BY <1>3, <2>4, <2>5
<1>4. CASE ~Decodes(f, 0)
  <2>1. Starts(f) = <<>>
    <3> SUFFICES ASSUME Starts(f) # <<>> PROVE FALSE
      OBVIOUS
    <3>1. Len(Starts(f)) \in Nat /\ Len(Starts(f)) # 0
      BY <1>1, EmptySeq DEF Finds
    <3>2. 1 \in 1 .. Len(Starts(f)) /\ Starts(f)[1] = 0
      BY <1>1, <3>1 DEF Finds
    <3> QED
      BY <1>4, <3>2, StartsInside
  <2> QED
    BY <1>4, <2>1 DEF RecoveredEnd
<1> QED
  BY <1>3, <1>4

LEMMA RecoveredSound ==
  ASSUME NEW f \in Seq(Cell), NEW d \in Seq(Cell), NEW g,
         g = SubSeq(f, 1, RecoveredEnd(f)), NEW w, NEW D, NEW end,
         Sound(f, d, D, w, FALSE, end)
  PROVE  Sound(g, d, D \cap (1 .. Len(g)), w, TRUE, 0)
<1>1. PICK e \in 0 .. Len(f) : e = RecoveredEnd(f)
  BY StartsInside
<1>2. /\ Len(f) \in Nat /\ e \in Nat /\ e <= Len(f)
      /\ g \in Seq(Cell) /\ Len(g) = e /\ \A i \in 1 .. e : g[i] = f[i]
  BY <1>1, Cut
<1>3. /\ HeadersPaired(f, w) /\ HeadersPaired(d, w) /\ Backed(f, d, D)
      /\ FirstWhole(d)
      /\ Agree(f, d) \/ LoneHeader(d)
      /\ Decodes(f, 0) \/ LoneHeader(d)
  BY DEF Sound
<1>4. HeadersPaired(g, w)
  BY <1>2, <1>3, PrefixPaired
<1>5. Backed(g, d, D \cap (1 .. Len(g)))
  BY <1>2, <1>3 DEF Backed
<1>6. Agree(g, d) \/ LoneHeader(d)
  <2>1. Agree(f, d) => Agree(g, d)
    BY <1>2 DEF Agree
  <2> QED
    BY <1>3, <2>1
<1>7. IF Decodes(f, 0) THEN Decodes(g, 0) ELSE Len(g) = 0
  <2>1. CASE Decodes(f, 0)
    <3>1. PICK z \in Nat : z = RecordSize(f, 0) /\ z <= e
      BY <1>1, <2>1, RecoveredFirst, DecodesInside
    <3>2. 0 + RecordSize(f, 0) <= Len(g) /\ \A i \in 1 .. Len(g) : i <= 0 + RecordSize(f, 0) => g[i] = f[i]
      BY <1>2, <3>1
    <3> QED
      BY <1>2, <2>1, <3>2, SameRecord
  <2>2. CASE ~Decodes(f, 0)
    BY <1>1, <1>2, <2>2, RecoveredFirst
  <2> QED
    BY <2>1, <2>2
<1>8. FirstWhole(g)
  BY <1>2, <1>7 DEF FirstWhole, LoneHeader
<1>9. (Decodes(g, 0) \/ LoneHeader(d)) /\ (Len(g) = 0 \/ Decodes(g, 0))
  BY <1>3, <1>7
<1>10. 0 = Len(g) => LoneHeader(d)
  BY <1>2, <1>9, EmptyDecodesNothing
<1> QED
  BY <1>3, <1>4, <1>5, <1>6, <1>8, <1>9, <1>10, Zenon DEF Sound

\* Nothing has been written over, and no cell taken back.
OnlyAppended == past \cap {"overwrite", "power_loss"} = {}

PairedInv ==
    /\ OnlyAppended => HeadersPaired(file, written)
    /\ Unharmed => Sound(file, disk, dirty, written, open, position)

\* A write that does not start before the end of the file extends it.
LEMMA WriteExtends ==
  ASSUME SegmentInv, NEW id \in Ids, NEW count \in 1 .. Size(id), WriteAll(id, count),
         Overwrite = {}
  PROVE  /\ position = Len(file) /\ file' \in Seq(Cell)
         /\ Extended(file, file', id, nextOffset, count)
         /\ written \subseteq written' /\ [offset |-> nextOffset, id |-> id] \in written'
         /\ Size(id) = Len(EncodeRecord(id, nextOffset))
<1>1. /\ file \in Seq(Cell) /\ Len(file) \in Nat /\ position \in 0 .. Len(file)
      /\ nextOffset \in Nat
  BY DEF SegmentInv
<1>2. position = Len(file)
  BY <1>1 DEF Overwrite
<1>3. PICK e : e = Cells(id) /\ e = EncodeRecord(id, nextOffset) /\ Len(e) \in Nat /\ Len(e) = Size(id)
  BY <1>1, Encoded DEF Cells, Size
<1>4. count \in 1 .. Len(e) /\ count \in Nat /\ count \in 0 .. Size(id)
  BY <1>3
<1>5. /\ file' \in Seq(Cell) /\ Len(file') \in Nat
      /\ Len(file') = IF Len(file) >= position + count THEN Len(file) ELSE position + count
      /\ \A i \in 1 .. Len(file') :
           file'[i] = IF i \in position + 1 .. position + count
                      THEN Cells(id)[i - position] ELSE file[i]
      /\ written \subseteq written' /\ [offset |-> nextOffset, id |-> id] \in written'
  BY <1>4, Written
<1>6. PICK g \in Seq(Cell) : g = file'
  BY <1>5
<1>7. Len(g) = Len(file) + count
  BY <1>1, <1>2, <1>4, <1>5, <1>6
<1>8. \A i \in 1 .. Len(file) : g[i] = file[i]
  BY <1>1, <1>2, <1>4, <1>5, <1>6, <1>7
<1>9. ASSUME NEW i \in 1 .. count PROVE g[Len(file) + i] = e[i]
  <2>1. Len(file) + i \in 1 .. Len(g) /\ Len(file) + i \in position + 1 .. position + count
    BY <1>1, <1>2, <1>4, <1>7
  <2>2. PICK j \in Nat : j = Len(file) + i /\ j - position = i
    BY <1>1, <1>2
  <2>3. j \in 1 .. Len(file') /\ j \in position + 1 .. position + count
    BY <1>6, <2>1, <2>2
  <2>4. file'[j] = Cells(id)[j - position]
    BY <1>5, <2>3
  <2> QED
    BY <1>3, <1>6, <2>2, <2>4
<1>10. Extended(file, g, id, nextOffset, count)
  BY <1>3, <1>4, <1>7, <1>8, <1>9 DEF Extended
<1> QED
  BY <1>2, <1>3, <1>5, <1>6, <1>10

\* A sync that no earlier one has failed before leaves file and disk alike.
LEMMA SyncedIsFile ==
  ASSUME SegmentInv, NEW id \in Ids, NEW count \in 1 .. Size(id), WriteAll(id, count),
         Overwrite = {}, Backed(file, disk, dirty)
  PROVE  Synced(Touched(count)) = file'
<1>1. /\ position = Len(file) /\ file' \in Seq(Cell)
      /\ Extended(file, file', id, nextOffset, count)
  BY WriteExtends
<1>2. file \in Seq(Cell) /\ Len(file) \in Nat /\ Len(disk) \in Nat /\ nextOffset \in Nat
  BY DEF SegmentInv
<1>3. PICK g \in Seq(Cell), T \in {Touched(count)} : g = file' /\ T = Touched(count)
  BY <1>1
<1>4. /\ Len(g) = Len(file) + count /\ count \in Nat
      /\ \A i \in 1 .. Len(file) : g[i] = file[i]
  <2>1. CellsWritten(file, g, id, nextOffset, count)
    BY <1>1, <1>2, <1>3, ExtendedCells
  <2> QED
    BY <2>1, Zenon DEF CellsWritten
<1>5. Synced(T) = [i \in DOMAIN g |->
                     IF i \in T THEN g[i] ELSE IF i <= Len(disk) THEN disk[i] ELSE Zero]
  BY <1>3 DEF Synced
<1>6. DOMAIN g = 1 .. Len(g) /\ g = [i \in DOMAIN g |-> g[i]] /\ Len(g) \in Nat
  OBVIOUS
<1>7. ASSUME NEW i \in DOMAIN g
      PROVE  (IF i \in T THEN g[i] ELSE IF i <= Len(disk) THEN disk[i] ELSE Zero) = g[i]
  <2> SUFFICES ASSUME i \notin T PROVE i <= Len(disk) /\ disk[i] = g[i]
    OBVIOUS
  <2>1. i \notin dirty /\ i \notin position + 1 .. position + count
    BY <1>3 DEF Touched
  <2>2. i \in 1 .. Len(file)
    BY <1>1, <1>2, <1>4, <1>6, <2>1
  <2> QED
    BY <1>4, <2>1, <2>2 DEF Backed
<1>8. Synced(T) = g
  BY <1>5, <1>6, <1>7
<1> QED
  BY <1>3, <1>8

LEMMA PairedInvInit ==
  Init => PairedInv
<1> SUFFICES ASSUME Init PROVE PairedInv
  OBVIOUS
<1>1. file = <<>> /\ disk = <<>> /\ open = FALSE
  BY DEF Init
<1>2. file \in Seq(Cell) /\ disk \in Seq(Cell) /\ Len(file) = 0 /\ Len(disk) = 0
  BY <1>1, EmptySeq
<1>3. HeadersPaired(file, written) /\ HeadersPaired(disk, written)
  BY <1>2 DEF HeadersPaired, HeaderAt
<1>4. Backed(file, disk, dirty) /\ LoneHeader(file) /\ LoneHeader(disk)
  BY <1>2 DEF Backed, LoneHeader
<1> QED
  BY <1>1, <1>3, <1>4 DEF PairedInv, Sound, FirstWhole

\* A write: of a whole record, synced or not, or one the process ends in.
LEMMA PairedWrite ==
  ASSUME SegmentInv, PairedInv, NEW id \in Ids, NEW count \in 1 .. Size(id),
         WriteAll(id, count), open, past \cup Overwrite \subseteq past',
         Unharmed' =>
           \/ disk' = disk /\ dirty' = Touched(count) /\ ~open'
           \/ /\ count = Size(id) /\ position' = position + count
              /\ \/ disk' = disk /\ dirty' = Touched(count)
                 \/ disk' = Synced(Touched(count)) /\ dirty' = {}
  PROVE  PairedInv'
<1>1. file \in Seq(Cell) /\ disk \in Seq(Cell) /\ Len(file) \in Nat /\ nextOffset \in Nat
  BY DEF SegmentInv
<1>2. OnlyAppended' => OnlyAppended /\ Overwrite = {}
  BY DEF OnlyAppended, Overwrite
<1>3. Unharmed' => Unharmed /\ Overwrite = {}
  BY DEF Unharmed, Overwrite
<1>4. ASSUME Overwrite = {}
      PROVE  /\ position = Len(file) /\ file' \in Seq(Cell)
             /\ Extended(file, file', id, nextOffset, count)
             /\ written \subseteq written' /\ [offset |-> nextOffset, id |-> id] \in written'
             /\ Size(id) = Len(EncodeRecord(id, nextOffset))
  BY <1>4, WriteExtends
<1>5. ASSUME OnlyAppended' PROVE HeadersPaired(file', written')
  <2>1. HeadersPaired(file, written) /\ Overwrite = {}
    BY <1>2, <1>5 DEF PairedInv
  <2> QED
    BY <1>1, <1>4, <2>1, ExtendedPaired
<1>6. ASSUME Unharmed' PROVE Sound(file', disk', dirty', written', open', position')
  <2>1. Sound(file, disk, dirty, written, open, position) /\ Overwrite = {}
    BY <1>3, <1>6 DEF PairedInv
  <2>2. PICK g \in Seq(Cell), v \in {written'},
             D \in {dirty \cup (Len(file) + 1 .. Len(file) + count)}, k \in {count} :
           /\ g = file' /\ v = written' /\ k = count /\ position = Len(file)
           /\ D = dirty \cup (Len(file) + 1 .. Len(file) + k)
           /\ Extended(file, g, id, nextOffset, k)
           /\ written \subseteq v /\ [offset |-> nextOffset, id |-> id] \in v
    BY <1>4, <2>1
  <2>3. Sound(file, disk, dirty, written, TRUE, Len(file)) /\ Backed(file, disk, dirty)
    BY <2>1, <2>2 DEF Sound
  <2>4. /\ Sound(g, disk, D, v, FALSE, 0)
        /\ k = Size(id) => Sound(g, disk, D, v, TRUE, Len(g)) /\ Sound(g, g, {}, v, TRUE, Len(g))
    <3>1. Size(id) = Len(EncodeRecord(id, nextOffset))
      BY <1>4, <2>1
    <3>2. SoundlyWritten(file, g, disk, dirty, v, k, Len(EncodeRecord(id, nextOffset)))
      BY <1>1, <2>2, <2>3, ExtendedSound
    <3> QED
      BY <2>2, <3>1, <3>2 DEF SoundlyWritten
  <2>5. D = Touched(count) /\ Synced(Touched(count)) = g
    BY <2>1, <2>2, <2>3, SyncedIsFile DEF Touched
  <2>6. Len(g) = position + count
    BY <2>2 DEF Extended
  <2>7. CASE disk' = disk /\ dirty' = Touched(count) /\ ~open'
    BY <2>2, <2>4, <2>5, <2>7 DEF Sound
  <2>8. CASE count = Size(id) /\ position' = position + count
             /\ disk' = disk /\ dirty' = Touched(count)
    BY <2>2, <2>4, <2>5, <2>6, <2>8 DEF Sound
  <2>9. CASE count = Size(id) /\ position' = position + count
             /\ disk' = Synced(Touched(count)) /\ dirty' = {}
    BY <2>2, <2>4, <2>5, <2>6, <2>9 DEF Sound
  <2> QED
    BY <1>6, <2>7, <2>8, <2>9
<1> QED
  BY <1>5, <1>6 DEF PairedInv

\* What a power loss leaves, where every cell that is not dirty is on the disk.
LEMMA PowerLossJoins ==
  ASSUME SegmentInv, NEW n \in 0 .. Len(file), PowerLoss(n), Backed(file, disk, dirty),
         NEW g \in Seq(Cell), g = file'
  PROVE  Joined(file, disk, n, g)
<1>1. Len(file) \in Nat /\ Len(disk) \in Nat /\ n \in Nat
  BY DEF SegmentInv
<1>2. PICK m \in Nat : m = Max({Len(disk), n}) /\ m = IF Len(disk) >= n THEN Len(disk) ELSE n
  <2>1. PICK a \in Nat : a = Len(disk)
    BY <1>1
  <2> QED
    BY <1>1, <2>1, MaxOfTwo
<1>3. g = [i \in 1 .. m |-> IF i <= n /\ i \in dirty THEN file[i]
                            ELSE IF i <= Len(disk) THEN disk[i] ELSE Zero]
  BY <1>2 DEF PowerLoss
<1>4. Len(g) = m
  BY <1>2, <1>3
<1>5. ASSUME NEW i \in 1 .. m PROVE g[i] = IF i <= n THEN file[i] ELSE disk[i]
  <2>1. CASE i <= n /\ i \notin dirty
    <3>1. i \in 1 .. Len(file)
      BY <1>1, <2>1
    <3>2. i <= Len(disk) /\ disk[i] = file[i]
      BY <2>1, <3>1 DEF Backed
    <3> QED
      BY <1>3, <2>1, <3>2
  <2>2. CASE i <= n /\ i \in dirty
    BY <1>3, <2>2
  <2>3. CASE ~(i <= n)
    <3>1. i <= Len(disk)
      BY <1>1, <1>2, <2>3
    <3> QED
      BY <1>3, <2>3, <3>1
  <2> QED
    BY <2>1, <2>2, <2>3
<1> QED
  BY <1>2, <1>4, <1>5 DEF Joined

LEMMA PairedInvNext ==
  SegmentInv /\ PairedInv /\ [Next]_vars => PairedInv'
<1> SUFFICES ASSUME SegmentInv, PairedInv, [Next]_vars PROVE PairedInv'
  OBVIOUS
<1>1. /\ file \in Seq(Cell) /\ Len(file) \in Nat /\ disk \in Seq(Cell) /\ Len(disk) \in Nat
      /\ nextOffset \in Nat
  BY DEF SegmentInv
<1>2. ASSUME NEW id \in Ids PROVE Size(id) \in 1 .. Size(id) /\ Size(id) \in Nat
  <2>1. PICK n \in Nat : n = Len(Body[id]) /\ Size(id) = 2 + n
    BY <1>1, Encoded DEF Size, Cells
  <2> QED
    BY <2>1
<1>3. CASE OpenAndRecover
  <2>1. UNCHANGED <<disk, written, past>> /\ open' /\ position' = 0 /\ ~open
    BY <1>3 DEF OpenAndRecover
  <2>2. PICK g : /\ g = file' /\ g = SubSeq(file, 1, RecoveredEnd(file))
                 /\ dirty' = dirty \cap (1 .. Len(g))
    BY <1>3 DEF OpenAndRecover
  <2>3. PICK e \in 0 .. Len(file) : e = RecoveredEnd(file)
    BY <1>1, StartsInside
  <2>4. g \in Seq(Cell) /\ Len(g) = e /\ \A i \in 1 .. e : g[i] = file[i]
    BY <1>1, <2>2, <2>3, Cut
  <2>5. ASSUME OnlyAppended' PROVE HeadersPaired(file', written')
    <3>1. HeadersPaired(file, written)
      BY <2>1, <2>5 DEF OnlyAppended, PairedInv
    <3>2. HeadersPaired(g, written)
      BY <1>1, <2>4, <3>1, PrefixPaired
    <3> QED
      BY <2>1, <2>2, <3>2
  <2>6. ASSUME Unharmed' PROVE Sound(file', disk', dirty', written', open', position')
    <3>1. Sound(file, disk, dirty, written, open, position)
      BY <2>1, <2>6 DEF Unharmed, PairedInv
    <3>2. Sound(file, disk, dirty, written, FALSE, position)
      BY <2>1, <3>1 DEF Sound
    <3>3. Sound(g, disk, dirty \cap (1 .. Len(g)), written, TRUE, 0)
      BY <1>1, <2>2, <3>2, RecoveredSound
    <3> QED
      BY <2>1, <2>2, <3>3 DEF Sound
  <2> QED
    BY <2>5, <2>6 DEF PairedInv
<1>4. CASE Crash
  BY <1>4 DEF Crash, LoseMemory, PairedInv, OnlyAppended, Unharmed, Sound
<1>5. ASSUME NEW n \in 0 .. Len(file), PowerLoss(n) PROVE PairedInv'
  <2>1. /\ ~OnlyAppended' /\ n # 1 /\ ~open' /\ position' = 0
        /\ disk' = file' /\ dirty' = {} /\ written' = written
    BY <1>5 DEF PowerLoss, LoseMemory, OnlyAppended
  <2>2. Unharmed' => Unharmed
    BY <1>5 DEF PowerLoss, Unharmed
  <2>3. ASSUME Unharmed PROVE Sound(file', file', {}, written, FALSE, 0)
    <3>1. Sound(file, disk, dirty, written, open, position)
      BY <2>3 DEF PairedInv
    <3>2. PICK g \in Seq(Cell) : g = file'
      <4>1. SegmentInv'
        BY SegmentInvNext
      <4> QED
        BY <4>1 DEF SegmentInv
    <3>6. Joined(file, disk, n, g)
      BY <1>5, <3>1, <3>2, PowerLossJoins DEF Sound
    <3>7. Sound(g, g, {}, written, FALSE, 0)
      BY <1>1, <2>1, <3>1, <3>6, JoinedSound
    <3> QED
      BY <3>2, <3>7
  <2> QED
    BY <2>1, <2>2, <2>3 DEF PairedInv, Sound
<1>6. ASSUME NEW id \in Ids, AppendRecord(id) PROVE PairedInv'
  <2>1. /\ WriteAll(id, Size(id)) /\ position' = position + Size(id) /\ open
        /\ past \cup Overwrite \subseteq past'
        /\ \/ disk' = disk /\ dirty' = Touched(Size(id))
           \/ disk' = Synced(Touched(Size(id))) /\ dirty' = {}
    BY <1>6 DEF AppendRecord, Admits
  <2> QED
    BY <1>2, <2>1, PairedWrite
<1>7. ASSUME NEW id \in Ids, NEW fault \in {"fsync_file", "fsync_eio"}, AppendNotSynced(id, fault)
      PROVE  PairedInv'
  <2>1. /\ WriteAll(id, Size(id)) /\ position' = position + Size(id) /\ open
        /\ past \cup Overwrite \subseteq past' /\ disk' = disk
    BY <1>7 DEF AppendNotSynced, Admits
  <2>2. Unharmed' => dirty' = Touched(Size(id))
    BY <1>7 DEF AppendNotSynced, Unharmed
  <2> QED
    BY <1>2, <2>1, <2>2, PairedWrite
<1>8. ASSUME NEW id \in Ids, NEW count \in 1 .. Size(id), AppendShort(id, count)
      PROVE  PairedInv'
  <2>1. WriteAll(id, count) /\ open /\ past \cup Overwrite \subseteq past' /\ ~Unharmed'
    BY <1>8 DEF AppendShort, Admits, Unharmed
  <2> QED
    BY <2>1, PairedWrite
<1>9. ASSUME NEW id \in Ids, NEW count \in 1 .. Size(id), CrashInAppend(id, count)
      PROVE  PairedInv'
  <2>1. /\ WriteAll(id, count) /\ open /\ past \cup Overwrite \subseteq past' /\ ~open'
        /\ disk' = disk /\ dirty' = Touched(count)
    BY <1>9 DEF CrashInAppend, LoseMemory, Admits
  <2> QED
    BY <2>1, PairedWrite
<1>10. CASE UNCHANGED vars
  BY <1>10 DEF vars, memory, PairedInv, OnlyAppended, Unharmed
<1>11. CASE OpenUncut
  <2>1. UNCHANGED <<file, written>> /\ past' = past \cup {"not_cut"}
    BY <1>11 DEF OpenUncut
  <2>2. ~Unharmed' /\ (OnlyAppended' => OnlyAppended)
    BY <2>1 DEF Unharmed, OnlyAppended
  <2> QED
    BY <2>1, <2>2 DEF PairedInv
<1>12. CASE LoseFile
  <2>1. file' = <<>> /\ "lost_file" \in past'
    BY <1>12 DEF LoseFile
  <2>2. ~Unharmed' /\ Len(file') = 0
    BY <2>1 DEF Unharmed
  <2>3. HeadersPaired(file', written')
    BY <2>2 DEF HeadersPaired, HeaderAt
  <2> QED
    BY <2>2, <2>3 DEF PairedInv
<1> QED
  BY <1>3, <1>4, <1>5, <1>6, <1>7, <1>8, <1>9, <1>10, <1>11, <1>12 DEF Next

\* No half of a record is read: as long as nothing is written over and no
\* cell taken back, or nothing worse than a power loss has happened, what
\* Read returns is a record that some Append was given, with its own body.
\* The bodies, sizes and number of the records are arbitrary.
THEOREM NoHalfRecordIsRead ==
  Spec => []NoHalfRecord
<1>1. SegmentInv /\ PairedInv => NoHalfRecord
  <2> SUFFICES ASSUME SegmentInv, PairedInv, Unharmed \/ OnlyAppended,
                      NEW o \in DOMAIN index, Decodes(file, index[o])
               PROVE  /\ Read(o) \in written
                      /\ SubSeq(file, index[o] + 1, index[o] + RecordSize(file, index[o]))
                           = EncodeRecord(Read(o).id, Read(o).offset)
    BY DEF NoHalfRecord, OnlyAppended, Readable
  <2>1. HeadersPaired(file, written)
    BY DEF PairedInv, Sound
  <2>2. file \in Seq(Cell) /\ index[o] \in Nat /\ written \in SUBSET Record
    BY DEF SegmentInv
  <2> QED
    BY <2>1, <2>2, PairedReads DEF Read
<1>2. Spec => [](SegmentInv /\ PairedInv)
  BY SegmentInvInit, SegmentInvNext, PairedInvInit, PairedInvNext, PTL DEF Spec
<1> QED
  BY <1>1, <1>2, PTL

-----------------------------------------------------------------------------
(* The chain of records in a file.                                         *)

\* Where record i of the file ends, and where the loop looks for record i + 1.
EndAt(f, i) == Starts(f)[i] + RecordSize(f, Starts(f)[i])
After(f, i) == IF i = 0 THEN 0 ELSE EndAt(f, i)
RecordAt(f, i) == DecodeRecord(f, Starts(f)[i])

Chain(f) ==
    /\ Len(f) \in Nat /\ Len(Starts(f)) \in Nat
    /\ RecoveredEnd(f) \in Nat /\ RecoveredEnd(f) <= Len(f)
    /\ RecoveredEnd(f) = After(f, Len(Starts(f))) /\ ~Decodes(f, RecoveredEnd(f))
    /\ \A i \in 1 .. Len(Starts(f)) :
         /\ Starts(f)[i] \in Nat /\ EndAt(f, i) \in Nat /\ Decodes(f, Starts(f)[i])
         /\ Starts(f)[i] < EndAt(f, i) /\ EndAt(f, i) <= RecoveredEnd(f)
         /\ Starts(f)[i] = After(f, i - 1)
    /\ \A i, j \in 1 .. Len(Starts(f)) : i < j => EndAt(f, i) <= Starts(f)[j]

LEMMA StartsChain ==
  ASSUME NEW f \in Seq(Cell)
  PROVE  Chain(f)
<1>1. Len(f) \in Nat /\ Steps(Len(f), Found(f), NextOf(f))
  BY RecoverSteps
<1>2. PICK n \in Nat, D \in {Found(f)}, next \in {NextOf(f)}, s \in {Starts(f)} :
         n = Len(f) /\ D = Found(f) /\ next = NextOf(f) /\ s = Starts(f)
  BY <1>1
<1>3. D \in SUBSET (0 .. n) /\ next \in [D -> 0 .. n] /\ \A p \in D : p < next[p]
  BY <1>1, <1>2 DEF Steps
<1>4. Finds(n, D, next, 0, s)
  BY <1>2, StartsFound
<1>5. /\ s \in Seq(D) /\ Len(s) \in Nat /\ \A i \in 1 .. Len(s) : s[i] \in D
      /\ s # <<>> => s[1] = 0
      /\ \A i \in 1 .. Len(s) : i + 1 <= Len(s) => s[i + 1] = next[s[i]]
      /\ \A i, j \in 1 .. Len(s) : i < j => next[s[i]] <= s[j]
      /\ EndOf(next, 0, s) \in 0 .. n /\ EndOf(next, 0, s) \notin D
  BY <1>4 DEF Finds
<1>6. \A p \in D : next[p] = p + RecordSize(f, p) /\ Decodes(f, p) /\ p \in Nat
  BY <1>1, <1>2 DEF NextOf, Found
<1>7. \A i \in 1 .. Len(s) : EndAt(f, i) = next[s[i]]
  BY <1>2, <1>5, <1>6 DEF EndAt
<1>8. s = <<>> <=> Len(s) = 0
  BY <1>5, EmptySeq
<1>9. EndOf(next, 0, s) = After(f, Len(s))
  <2>1. CASE Len(s) = 0
    BY <1>8, <2>1 DEF EndOf, After
  <2>2. CASE Len(s) # 0
    <3>1. Len(s) \in 1 .. Len(s)
      BY <1>5, <2>2
    <3> QED
      BY <1>7, <1>8, <2>2, <3>1 DEF EndOf, After
  <2> QED
    BY <2>1, <2>2
<1>10. RecoveredEnd(f) = After(f, Len(s))
  BY <1>2, <1>8 DEF RecoveredEnd, After, EndAt
<1>11. /\ RecoveredEnd(f) \in Nat /\ RecoveredEnd(f) <= Len(f) /\ ~Decodes(f, RecoveredEnd(f))
  <2>1. RecoveredEnd(f) \in 0 .. n /\ RecoveredEnd(f) \notin D
    BY <1>5, <1>9, <1>10
  <2> QED
    BY <1>2, <2>1 DEF Found
<1>12. ASSUME NEW i \in 1 .. Len(s)
       PROVE  /\ s[i] \in Nat /\ EndAt(f, i) \in Nat /\ Decodes(f, s[i])
              /\ s[i] < EndAt(f, i) /\ EndAt(f, i) <= RecoveredEnd(f)
              /\ s[i] = After(f, i - 1)
  <2>1. s[i] \in Nat /\ EndAt(f, i) \in Nat /\ Decodes(f, s[i]) /\ s[i] < EndAt(f, i)
    <3>1. s[i] \in D /\ next[s[i]] \in 0 .. n
      BY <1>3, <1>5
    <3>2. EndAt(f, i) = next[s[i]] /\ s[i] < next[s[i]] /\ Decodes(f, s[i]) /\ s[i] \in Nat
      BY <1>3, <1>6, <1>7, <3>1
    <3> QED
      BY <3>1, <3>2
  <2>2. EndAt(f, i) <= RecoveredEnd(f)
    BY <1>2, StartsInside DEF EndAt
  <2>3. CASE i = 1
    BY <1>5, <1>8, <2>1, <2>2, <2>3 DEF After
  <2>4. CASE i # 1
    <3>1. i - 1 \in 1 .. Len(s) /\ (i - 1) + 1 = i /\ i - 1 # 0
      BY <1>5, <2>4
    <3>2. s[i] = next[s[i - 1]]
      BY <1>5, <3>1
    <3> QED
      BY <1>7, <2>1, <2>2, <3>1, <3>2 DEF After
  <2> QED
    BY <2>3, <2>4
<1>13. \A i, j \in 1 .. Len(s) : i < j => EndAt(f, i) <= s[j]
  BY <1>5, <1>7
<1> QED
  BY <1>1, <1>2, <1>5, <1>10, <1>11, <1>12, <1>13, Zenon DEF Chain

\* A whole record where record i ends is record i + 1.
LEMMA ChainGoesOn ==
  ASSUME NEW f \in Seq(Cell), NEW i \in Nat, i <= Len(Starts(f)), Decodes(f, After(f, i))
  PROVE  i + 1 \in 1 .. Len(Starts(f)) /\ Starts(f)[i + 1] = After(f, i)
<1>1. Chain(f)
  BY StartsChain
<1>2. /\ Len(Starts(f)) \in Nat /\ RecoveredEnd(f) = After(f, Len(Starts(f)))
      /\ ~Decodes(f, RecoveredEnd(f))
      /\ \A j \in 1 .. Len(Starts(f)) : Starts(f)[j] = After(f, j - 1)
  BY <1>1, Zenon DEF Chain
<1>3. i # Len(Starts(f))
  BY <1>2
<1>4. i + 1 \in 1 .. Len(Starts(f)) /\ (i + 1) - 1 = i
  BY <1>2, <1>3
<1>5. Starts(f)[i + 1] = After(f, (i + 1) - 1)
  BY <1>2, <1>4
<1> QED
  BY <1>4, <1>5

\* Record i of f is record i of g.
SameAt(f, g, i) ==
    /\ i \in 1 .. Len(Starts(g)) /\ Starts(g)[i] = Starts(f)[i]
    /\ EndAt(g, i) = EndAt(f, i) /\ RecordAt(g, i) = RecordAt(f, i)

\* Two files have the records in common that lie in cells they have in common.
LEMMA CommonRecords ==
  ASSUME NEW f \in Seq(Cell), NEW g \in Seq(Cell), NEW e \in Nat, e <= Len(f), e <= Len(g),
         \A i \in 1 .. e : g[i] = f[i]
  PROVE  \A i \in 1 .. Len(Starts(f)) : EndAt(f, i) <= e => SameAt(f, g, i)
<1> DEFINE bad == {i \in 1 .. Len(Starts(f)) : EndAt(f, i) <= e /\ ~SameAt(f, g, i)}
<1>1. Chain(f) /\ Chain(g)
  BY StartsChain
<1>2. /\ Len(f) \in Nat /\ Len(Starts(f)) \in Nat
      /\ \A i \in 1 .. Len(Starts(f)) :
           /\ Starts(f)[i] \in Nat /\ EndAt(f, i) \in Nat /\ Decodes(f, Starts(f)[i])
           /\ Starts(f)[i] < EndAt(f, i) /\ Starts(f)[i] = After(f, i - 1)
      /\ \A i, j \in 1 .. Len(Starts(f)) : i < j => EndAt(f, i) <= Starts(f)[j]
  BY <1>1, Zenon DEF Chain
<1>3. Len(g) \in Nat /\ Len(Starts(g)) \in Nat
  BY <1>1, Zenon DEF Chain
<1> SUFFICES ASSUME bad # {} PROVE FALSE
  OBVIOUS
<1>4. PICK i \in bad : \A y \in bad : i <= y
  <2>1. bad \in SUBSET Nat
    BY <1>2
  <2> HIDE DEF bad
  <2> QED
    BY <2>1, LeastNat
<1>5. i \in 1 .. Len(Starts(f)) /\ EndAt(f, i) <= e /\ ~SameAt(f, g, i) /\ i \in Nat
  BY <1>2, <1>4
<1>6. PICK p \in Nat : p = Starts(f)[i] /\ Decodes(f, p) /\ p + RecordSize(f, p) = EndAt(f, i)
  BY <1>2, <1>5 DEF EndAt
<1>7. /\ Decodes(g, p) /\ RecordSize(g, p) = RecordSize(f, p)
      /\ DecodeRecord(g, p) = DecodeRecord(f, p)
  <2>1. /\ p + RecordSize(f, p) <= Len(g)
        /\ \A j \in 1 .. Len(g) : j <= p + RecordSize(f, p) => g[j] = f[j]
    BY <1>2, <1>3, <1>5, <1>6
  <2> QED
    BY <1>6, <2>1, SameRecord
<1>8. i - 1 \in Nat /\ i - 1 <= Len(Starts(g)) /\ After(g, i - 1) = p
  <2>1. CASE i = 1
    BY <1>2, <1>3, <1>5, <1>6, <2>1 DEF After
  <2>2. CASE i # 1
    <3>1. PICK k \in Nat : k = i - 1 /\ k \in 1 .. Len(Starts(f)) /\ k < i /\ k # 0
      BY <1>2, <1>5, <2>2
    <3>2. EndAt(f, k) <= e
      <4>1. EndAt(f, k) \in Nat /\ EndAt(f, i) \in Nat /\ Starts(f)[i] \in Nat
        BY <1>2, <1>5, <3>1
      <4>2. EndAt(f, k) <= Starts(f)[i] /\ Starts(f)[i] < EndAt(f, i)
        BY <1>2, <1>5, <3>1
      <4> QED
        BY <1>5, <4>1, <4>2
    <3>3. k \notin bad
      BY <1>4, <1>5, <3>1
    <3>4. SameAt(f, g, k)
      BY <3>1, <3>2, <3>3
    <3>5. k \in 1 .. Len(Starts(g)) /\ EndAt(g, k) = EndAt(f, k)
      BY <3>4 DEF SameAt
    <3>6. Starts(f)[i] = After(f, k)
      BY <1>2, <1>5, <3>1
    <3> QED
      BY <1>3, <1>6, <3>1, <3>5, <3>6 DEF After
  <2> QED
    BY <2>1, <2>2
<1>9. i \in 1 .. Len(Starts(g)) /\ Starts(g)[i] = p
  <2>1. PICK k \in Nat : k = i - 1 /\ k + 1 = i
    BY <1>5, <1>8
  <2>2. k <= Len(Starts(g)) /\ After(g, k) = p
    BY <1>8, <2>1
  <2>3. k + 1 \in 1 .. Len(Starts(g)) /\ Starts(g)[k + 1] = p
    BY <1>7, <2>2, ChainGoesOn
  <2> QED
    BY <2>1, <2>3
<1>10. SameAt(f, g, i)
  BY <1>6, <1>7, <1>9 DEF SameAt, EndAt, RecordAt
<1> QED
  BY <1>5, <1>10

\* A write at the end of a file of whole records: the records that were there
\* stay where they are, and the new one comes behind them if it is whole.
ChainExtended(f, g, r, whole) ==
    /\ Len(f) \in Nat /\ Len(g) \in Nat /\ Len(Starts(f)) \in Nat
    /\ \A i \in 1 .. Len(Starts(f)) : SameAt(f, g, i) /\ EndAt(f, i) <= Len(f)
    /\ \/ Len(Starts(g)) = Len(Starts(f)) /\ ~whole
       \/ /\ Len(Starts(g)) = Len(Starts(f)) + 1 /\ RecordAt(g, Len(Starts(f)) + 1) = r
          /\ Starts(g)[Len(Starts(f)) + 1] = Len(f) /\ RecoveredEnd(g) = Len(g)

LEMMA ExtendedChain ==
  ASSUME NEW f \in Seq(Cell), NEW g \in Seq(Cell), NEW id \in Ids, NEW o \in Nat, NEW k,
         Extended(f, g, id, o, k), RecoveredEnd(f) = Len(f)
  PROVE  ChainExtended(f, g, [offset |-> o, id |-> id], k = Len(EncodeRecord(id, o)))
<1>1. Chain(f) /\ Chain(g)
  BY StartsChain
<1>2. PICK m \in Nat, l \in Nat : m = Len(Starts(f)) /\ l = Len(Starts(g))
  BY <1>1 DEF Chain
<1>3. /\ Len(f) \in Nat /\ Len(f) = After(f, m)
      /\ \A i \in 1 .. m : EndAt(f, i) <= Len(f)
  BY <1>1, <1>2 DEF Chain
<1>4. /\ Len(g) \in Nat /\ RecoveredEnd(g) = After(g, l)
      /\ \A i \in 1 .. l : Decodes(g, Starts(g)[i]) /\ Starts(g)[i] = After(g, i - 1)
  BY <1>1, <1>2 DEF Chain
<1>5. CellsWritten(f, g, id, o, k)
  BY ExtendedCells
<1>6. /\ k \in Nat /\ 1 <= k /\ Len(g) = Len(f) + k /\ Len(Body[id]) \in Nat
      /\ \A i \in 1 .. Len(f) : g[i] = f[i]
      /\ g[Len(f) + 1] = [part |-> "sizes", body |-> Body[id]]
      /\ 2 <= k => g[Len(f) + 2] = [part |-> "ids", offset |-> o, id |-> id]
      /\ k <= 2 + Len(Body[id])
  BY <1>5, Zenon DEF CellsWritten
<1>7. \A i \in 1 .. m : SameAt(f, g, i)
  <2>1. Len(f) <= Len(f) /\ Len(f) <= Len(g)
    BY <1>3, <1>6
  <2>2. \A i \in 1 .. m : EndAt(f, i) <= Len(f) => SameAt(f, g, i)
    BY <1>2, <1>3, <1>6, <2>1, CommonRecords
  <2> QED
    BY <1>3, <2>2
<1>8. m <= l /\ After(g, m) = Len(f)
  <2>1. CASE m = 0
    BY <1>3, <2>1 DEF After
  <2>2. CASE m # 0
    <3>1. m \in 1 .. m
      BY <2>2
    <3>2. m \in 1 .. l /\ EndAt(g, m) = EndAt(f, m)
      BY <1>2, <1>7, <3>1 DEF SameAt
    <3> QED
      BY <1>3, <2>2, <3>2 DEF After
  <2> QED
    BY <2>1, <2>2
<1>9. RecordSize(g, Len(f)) = 2 + Len(Body[id])
  BY <1>6 DEF RecordSize
<1>10. k = Len(EncodeRecord(id, o)) <=> k = 2 + Len(Body[id])
  BY Encoded
<1>11. Decodes(g, Len(f)) <=> k = 2 + Len(Body[id])
  <2>1. k = 2 + Len(Body[id]) => Decodes(g, Len(f))
    BY <1>10, WrittenDecodes
  <2>2. Decodes(g, Len(f)) => Len(f) + (2 + Len(Body[id])) <= Len(f) + k
    BY <1>6, <1>9 DEF Decodes
  <2> QED
    BY <1>3, <1>6, <2>1, <2>2
<1>12. CASE l = m
  <2>1. k # 2 + Len(Body[id])
    <3> SUFFICES ASSUME k = 2 + Len(Body[id]) PROVE FALSE
      OBVIOUS
    <3>1. Decodes(g, After(g, m)) /\ m <= Len(Starts(g))
      BY <1>2, <1>8, <1>11
    <3>2. m + 1 \in 1 .. Len(Starts(g))
      BY <3>1, ChainGoesOn
    <3> QED
      BY <1>2, <1>12, <3>2
  <2> QED
    BY <1>2, <1>3, <1>4, <1>7, <1>10, <1>12, <2>1 DEF ChainExtended
<1>13. CASE l # m
  <2>1. m + 1 \in 1 .. l /\ (m + 1) - 1 = m
    BY <1>8, <1>13
  <2>2. Starts(g)[m + 1] = Len(f) /\ Decodes(g, Len(f))
    BY <1>4, <1>8, <2>1
  <2>3. k = 2 + Len(Body[id]) /\ 2 <= k
    BY <1>6, <1>11, <2>2
  <2>4. RecordAt(g, m + 1) = [offset |-> o, id |-> id] /\ EndAt(g, m + 1) = Len(g)
    <3>1. DecodeRecord(g, Len(f)) = [offset |-> o, id |-> id] /\ RecordSize(g, Len(f)) = k
      BY <1>10, <2>3, WrittenDecodes
    <3> QED
      BY <1>6, <2>2, <3>1 DEF RecordAt, EndAt
  <2>5. l = m + 1
    <3> SUFFICES ASSUME l # m + 1 PROVE FALSE
      OBVIOUS
    <3>1. m + 2 \in 1 .. l /\ (m + 2) - 1 = m + 1 /\ m + 1 # 0
      BY <1>8, <1>13
    <3>2. Starts(g)[m + 2] = Len(g) /\ Decodes(g, Len(g))
      BY <1>4, <2>4, <3>1 DEF After
    <3>3. Len(g) + 2 <= Len(g)
      BY <3>2 DEF Decodes, HeaderAt
    <3> QED
      BY <1>4, <3>3
  <2>6. RecoveredEnd(g) = Len(g)
    BY <1>4, <2>4, <2>5 DEF After
  <2> QED
    BY <1>2, <1>3, <1>4, <1>7, <2>2, <2>4, <2>5, <2>6 DEF ChainExtended
<1> QED
  BY <1>12, <1>13

\* Record i is r, and no later one has its offset, or a lower one.
LastAt(f, r, i) ==
    /\ i \in 1 .. Len(Starts(f)) /\ RecordAt(f, i) = r
    /\ \A j \in 1 .. Len(Starts(f)) : i < j => r.offset < RecordAt(f, j).offset

LEMMA ExtendedLast ==
  ASSUME NEW f, NEW g, NEW r, NEW whole, ChainExtended(f, g, r, whole),
         NEW q, NEW i, LastAt(f, q, i), q.offset < r.offset
  PROVE  LastAt(g, q, i) /\ SameAt(f, g, i) /\ EndAt(f, i) <= Len(f)
<1>1. PICK m \in Nat : m = Len(Starts(f))
  BY DEF ChainExtended
<1>2. /\ \A j \in 1 .. m : SameAt(f, g, j) /\ EndAt(f, j) <= Len(f)
      /\ Len(Starts(g)) = m \/ (Len(Starts(g)) = m + 1 /\ RecordAt(g, m + 1) = r)
  BY <1>1, Zenon DEF ChainExtended
<1>3. /\ i \in 1 .. m /\ RecordAt(f, i) = q
      /\ \A j \in 1 .. m : i < j => q.offset < RecordAt(f, j).offset
  BY <1>1 DEF LastAt
<1>4. SameAt(f, g, i) /\ EndAt(f, i) <= Len(f)
  BY <1>2, <1>3
<1>5. i \in 1 .. Len(Starts(g)) /\ RecordAt(g, i) = q
  BY <1>3, <1>4 DEF SameAt
<1>6. ASSUME NEW j \in 1 .. Len(Starts(g)), i < j PROVE q.offset < RecordAt(g, j).offset
  <2>1. CASE j \in 1 .. m
    <3>1. RecordAt(g, j) = RecordAt(f, j)
      BY <1>2, <2>1 DEF SameAt
    <3> QED
      BY <1>3, <1>6, <2>1, <3>1
  <2>2. CASE j = m + 1 /\ RecordAt(g, m + 1) = r
    BY <2>2
  <2> QED
    BY <1>2, <2>1, <2>2
<1> QED
  BY <1>4, <1>5, <1>6 DEF LastAt

\* Every whole record on the disk is in the file, and they agree if there is
\* one; while the segment is open its file is made of whole records.
Filed(f, d, up, end) ==
    /\ RecoveredEnd(d) <= Len(f) /\ \A i \in 1 .. RecoveredEnd(d) : f[i] = d[i]
    /\ Decodes(d, 0) => Agree(f, d)
    /\ up => (end = Len(f) /\ Len(f) < Len(d) => ~Decodes(d, 0))
    /\ up => RecoveredEnd(f) = Len(f)

\* After a write of a record at the end of f, whole or not, synced or not.
FiledWritten(f, g, d, whole) ==
    /\ Filed(g, d, FALSE, 0)
    /\ whole => Filed(g, d, TRUE, Len(g)) /\ Filed(g, g, TRUE, Len(g))

LEMMA ExtendedFiled ==
  ASSUME NEW f \in Seq(Cell), NEW g \in Seq(Cell), NEW d \in Seq(Cell),
         NEW id \in Ids, NEW o \in Nat, NEW k, Extended(f, g, id, o, k),
         Filed(f, d, TRUE, Len(f))
  PROVE  FiledWritten(f, g, d, k = Len(EncodeRecord(id, o)))
<1>1. /\ RecoveredEnd(d) <= Len(f) /\ \A i \in 1 .. RecoveredEnd(d) : f[i] = d[i]
      /\ Decodes(d, 0) => Agree(f, d)
      /\ Len(f) < Len(d) => ~Decodes(d, 0)
      /\ RecoveredEnd(f) = Len(f)
  BY DEF Filed
<1>2. /\ Len(f) \in Nat /\ Len(g) \in Nat /\ k \in Nat /\ Len(g) = Len(f) + k
      /\ \A i \in 1 .. Len(f) : g[i] = f[i]
  <2>1. CellsWritten(f, g, id, o, k)
    BY ExtendedCells
  <2> QED
    BY <2>1, Zenon DEF CellsWritten
<1>3. Len(d) \in Nat /\ RecoveredEnd(d) \in 0 .. Len(d)
  BY StartsInside
<1>4. RecoveredEnd(d) <= Len(g) /\ \A i \in 1 .. RecoveredEnd(d) : g[i] = d[i]
  BY <1>1, <1>2, <1>3
<1>5. Decodes(d, 0) => Agree(g, d)
  BY <1>1, <1>2, <1>3 DEF Agree
<1>6. Len(g) < Len(d) => ~Decodes(d, 0)
  BY <1>1, <1>2, <1>3
<1>7. k = Len(EncodeRecord(id, o)) => RecoveredEnd(g) = Len(g)
  <2>1. ChainExtended(f, g, [offset |-> o, id |-> id], k = Len(EncodeRecord(id, o)))
    BY <1>1, ExtendedChain
  <2> QED
    BY <2>1 DEF ChainExtended
<1>8. Filed(g, d, FALSE, 0)
  BY <1>4, <1>5 DEF Filed
<1>9. k = Len(EncodeRecord(id, o)) => Filed(g, d, TRUE, Len(g))
  BY <1>4, <1>5, <1>6, <1>7 DEF Filed
<1>10. k = Len(EncodeRecord(id, o)) => Filed(g, g, TRUE, Len(g))
  <2> SUFFICES ASSUME RecoveredEnd(g) = Len(g) PROVE Filed(g, g, TRUE, Len(g))
    BY <1>7
  <2>1. Agree(g, g) /\ ~(Len(g) < Len(g)) /\ RecoveredEnd(g) <= Len(g)
    BY <1>2 DEF Agree
  <2> QED
    BY <2>1 DEF Filed
<1> QED
  BY <1>8, <1>9, <1>10 DEF FiledWritten

\* What Recover leaves: the same records, and nothing behind them.
RecoveredChain(f, g) ==
    /\ Len(Starts(f)) \in Nat /\ Len(Starts(g)) = Len(Starts(f))
    /\ \A i \in 1 .. Len(Starts(f)) : SameAt(f, g, i) /\ EndAt(f, i) <= Len(g)
    /\ RecoveredEnd(g) = Len(g)

LEMMA CutChain ==
  ASSUME NEW f \in Seq(Cell), NEW g, g = SubSeq(f, 1, RecoveredEnd(f))
  PROVE  RecoveredChain(f, g) /\ g \in Seq(Cell) /\ Len(g) = RecoveredEnd(f)
<1>1. PICK e \in 0 .. Len(f) : e = RecoveredEnd(f)
  BY StartsInside
<1>2. /\ Len(f) \in Nat /\ e \in Nat /\ e <= Len(f)
      /\ g \in Seq(Cell) /\ Len(g) = e /\ \A i \in 1 .. e : g[i] = f[i]
  BY <1>1, Cut
<1>3. Chain(f) /\ Chain(g)
  BY <1>2, StartsChain
<1>4. PICK m \in Nat, l \in Nat : m = Len(Starts(f)) /\ l = Len(Starts(g))
  BY <1>3 DEF Chain
<1>5. e = After(f, m) /\ \A i \in 1 .. m : EndAt(f, i) <= e
  BY <1>1, <1>3, <1>4 DEF Chain
<1>6. /\ RecoveredEnd(g) = After(g, l)
      /\ \A i \in 1 .. l : Decodes(g, Starts(g)[i]) /\ Starts(g)[i] = After(g, i - 1)
  BY <1>3, <1>4 DEF Chain
<1>7. \A i \in 1 .. m : SameAt(f, g, i)
  <2>1. e <= Len(g)
    BY <1>2
  <2>2. \A i \in 1 .. m : EndAt(f, i) <= e => SameAt(f, g, i)
    BY <1>2, <1>4, <2>1, CommonRecords
  <2> QED
    BY <1>5, <2>2
<1>8. m <= l /\ After(g, m) = e
  <2>1. CASE m = 0
    BY <1>5, <2>1 DEF After
  <2>2. CASE m # 0
    <3>1. m \in 1 .. m
      BY <2>2
    <3>2. m \in 1 .. l /\ EndAt(g, m) = EndAt(f, m)
      BY <1>4, <1>7, <3>1 DEF SameAt
    <3> QED
      BY <1>5, <2>2, <3>2 DEF After
  <2> QED
    BY <2>1, <2>2
<1>9. l = m
  <2> SUFFICES ASSUME l # m PROVE FALSE
    OBVIOUS
  <2>1. m + 1 \in 1 .. l /\ (m + 1) - 1 = m
    BY <1>8
  <2>2. Decodes(g, e)
    BY <1>6, <1>8, <2>1
  <2>3. e + 2 <= e
    BY <1>2, <2>2 DEF Decodes, HeaderAt
  <2> QED
    BY <2>3
<1> QED
  BY <1>1, <1>2, <1>4, <1>5, <1>6, <1>7, <1>8, <1>9 DEF RecoveredChain

LEMMA RecoveredFiled ==
  ASSUME NEW f \in Seq(Cell), NEW d \in Seq(Cell), NEW g, g = SubSeq(f, 1, RecoveredEnd(f)),
         NEW up, NEW end, Filed(f, d, up, end)
  PROVE  Filed(g, d, TRUE, 0)
<1>1. RecoveredChain(f, g) /\ g \in Seq(Cell) /\ Len(g) = RecoveredEnd(f)
  BY CutChain
<1>2. /\ RecoveredEnd(d) <= Len(f) /\ \A i \in 1 .. RecoveredEnd(d) : f[i] = d[i]
      /\ Decodes(d, 0) => Agree(f, d)
  BY DEF Filed
<1>3. Chain(d) /\ Chain(f)
  BY StartsChain
<1>4. PICK m \in Nat, a \in Nat, e \in Nat :
         m = Len(Starts(d)) /\ a = RecoveredEnd(d) /\ a = After(d, m) /\ e = RecoveredEnd(f)
  BY <1>3 DEF Chain
<1>5. Len(d) \in Nat /\ Len(f) \in Nat /\ a <= Len(d) /\ e <= Len(f)
  BY <1>3, <1>4 DEF Chain
<1>6. a <= e
  <2>1. CASE m = 0
    BY <1>4, <2>1 DEF After
  <2>2. CASE m # 0
    <3>1. m \in 1 .. m /\ EndAt(d, m) = a /\ a <= a
      BY <1>4, <2>2 DEF After
    <3>2. \A i \in 1 .. m : EndAt(d, i) <= a => SameAt(d, f, i)
      BY <1>2, <1>4, <1>5, CommonRecords
    <3>3. SameAt(d, f, m)
      BY <3>1, <3>2
    <3>4. m \in 1 .. Len(Starts(f)) /\ EndAt(f, m) = a
      BY <3>1, <3>3 DEF SameAt
    <3>5. EndAt(f, m) <= e
      BY <1>3, <1>4, <3>4 DEF Chain
    <3> QED
      BY <3>4, <3>5
  <2> QED
    BY <2>1, <2>2
<1>7. \A i \in 1 .. e : g[i] = f[i]
  <2>1. e \in 0 .. Len(f)
    BY <1>5
  <2> QED
    BY <1>4, <2>1, Cut
<1>8. a <= Len(g) /\ \A i \in 1 .. a : g[i] = d[i]
  BY <1>1, <1>2, <1>4, <1>6, <1>7
<1>9. Decodes(d, 0) => Agree(g, d)
  <2>1. Agree(f, d) => Agree(g, d)
    BY <1>1, <1>4, <1>5, <1>7 DEF Agree
  <2> QED
    BY <1>2, <2>1
<1>10. 0 = Len(g) => ~Decodes(d, 0)
  <2> SUFFICES ASSUME Decodes(d, 0), 0 = Len(g) PROVE FALSE
    OBVIOUS
  <2>1. RecordSize(d, 0) <= a /\ 2 <= RecordSize(d, 0) /\ RecordSize(d, 0) \in Nat
    BY <1>4, RecoveredFirst, DecodesInside
  <2> QED
    BY <1>1, <1>4, <1>6, <2>1
<1> QED
  BY <1>1, <1>4, <1>8, <1>9, <1>10 DEF Filed, RecoveredChain

\* A power loss keeps a record none of whose cells, or cells before it, are
\* dirty, and brings back none with its offset behind it.
LEMMA JoinedLast ==
  ASSUME NEW f \in Seq(Cell), NEW d \in Seq(Cell), NEW n \in 0 .. Len(f),
         NEW g \in Seq(Cell), Joined(f, d, n, g), NEW D, Backed(f, d, D),
         NEW up, NEW end, Filed(f, d, up, end),
         NEW r, NEW i, LastAt(f, r, i), \A c \in D : EndAt(f, i) < c
  PROVE  LastAt(g, r, i)
<1>1. Chain(f) /\ Chain(d) /\ Chain(g)
  BY StartsChain
<1>2. /\ Len(f) \in Nat /\ Len(d) \in Nat /\ Len(g) \in Nat /\ n \in Nat /\ n <= Len(f)
      /\ Len(g) = IF Len(d) >= n THEN Len(d) ELSE n
      /\ \A c \in 1 .. Len(g) : g[c] = IF c <= n THEN f[c] ELSE d[c]
  BY <1>1 DEF Joined, Chain
<1>3. /\ i \in 1 .. Len(Starts(f)) /\ RecordAt(f, i) = r
      /\ \A j \in 1 .. Len(Starts(f)) : i < j => r.offset < RecordAt(f, j).offset
  BY DEF LastAt
<1>4. PICK e \in Nat : e = EndAt(f, i) /\ 1 <= e /\ e <= Len(f)
  <2>1. Starts(f)[i] \in Nat /\ EndAt(f, i) \in Nat /\ Starts(f)[i] < EndAt(f, i)
    BY <1>1, <1>3 DEF Chain
  <2>2. EndAt(f, i) <= RecoveredEnd(f) /\ RecoveredEnd(f) <= Len(f) /\ RecoveredEnd(f) \in Nat
    BY <1>1, <1>3 DEF Chain
  <2> QED
    BY <1>2, <2>1, <2>2
<1>5. ASSUME NEW c \in 1 .. e PROVE c <= Len(d) /\ d[c] = f[c]
  <2>1. c \in 1 .. Len(f)
    BY <1>2, <1>4
  <2>2. c \notin D
    BY <1>4
  <2> QED
    BY <2>1, <2>2 DEF Backed
<1>6. e <= Len(d) /\ e <= Len(g) /\ \A c \in 1 .. e : g[c] = f[c]
  <2>1. e <= Len(d)
    BY <1>4, <1>5
  <2> QED
    BY <1>2, <1>4, <1>5, <2>1
<1>7. SameAt(f, g, i)
  <2>1. \A j \in 1 .. Len(Starts(f)) : EndAt(f, j) <= e => SameAt(f, g, j)
    BY <1>4, <1>6, CommonRecords
  <2> QED
    BY <1>3, <1>4, <2>1
<1>8. i \in 1 .. Len(Starts(g)) /\ RecordAt(g, i) = r
  BY <1>3, <1>7 DEF SameAt
<1>9. Agree(f, d)
  <2>1. \A j \in 1 .. Len(Starts(f)) : EndAt(f, j) <= e => SameAt(f, d, j)
    BY <1>4, <1>5, <1>6, CommonRecords
  <2>2. i \in 1 .. Len(Starts(d)) /\ Len(Starts(d)) \in Nat
    BY <1>1, <1>3, <1>4, <2>1 DEF SameAt, Chain
  <2>3. 1 \in 1 .. Len(Starts(d)) /\ 1 - 1 = 0
    BY <2>2
  <2>4. Decodes(d, 0)
    BY <1>1, <2>3 DEF Chain, After
  <2> QED
    BY <2>4 DEF Filed
<1>10. ASSUME NEW j \in 1 .. Len(Starts(g)) PROVE j \in 1 .. Len(Starts(f)) /\ RecordAt(f, j) = RecordAt(g, j)
  <2>1. EndAt(g, j) <= RecoveredEnd(g) /\ RecoveredEnd(g) <= Len(g) /\ RecoveredEnd(g) \in Nat
        /\ EndAt(g, j) \in Nat
    BY <1>1 DEF Chain
  <2>2. CASE n <= Len(d)
    <3>1. Len(g) = Len(d) /\ \A c \in 1 .. Len(g) : g[c] = d[c]
      BY <1>2, <1>9, <2>2 DEF Agree
    <3>2. g = d
      BY <3>1, SeqEqual
    <3>3. PICK a \in Nat : a = RecoveredEnd(g)
      BY <2>1
    <3>4. /\ a <= Len(f) /\ a <= Len(g) /\ EndAt(g, j) <= a
          /\ \A c \in 1 .. a : f[c] = g[c]
      BY <2>1, <3>2, <3>3 DEF Filed
    <3>5. SameAt(g, f, j)
      BY <3>4, CommonRecords
    <3> QED
      BY <3>5 DEF SameAt
  <2>3. CASE ~(n <= Len(d))
    <3>1. Len(g) = n /\ \A c \in 1 .. n : f[c] = g[c]
      BY <1>2, <2>3
    <3>2. EndAt(g, j) <= n /\ n <= Len(g)
      BY <1>2, <2>1, <3>1
    <3>3. SameAt(g, f, j)
      BY <1>2, <3>1, <3>2, CommonRecords
    <3> QED
      BY <3>3 DEF SameAt
  <2> QED
    BY <2>2, <2>3
<1>11. \A j \in 1 .. Len(Starts(g)) : i < j => r.offset < RecordAt(g, j).offset
  BY <1>3, <1>10
<1> QED
  BY <1>8, <1>11 DEF LastAt

\* Recover indexes the last record of an offset, and goes on behind it.
LEMMA IndexLast ==
  ASSUME NEW f \in Seq(Cell), NEW r \in Record, NEW i, LastAt(f, r, i)
  PROVE  /\ r.offset \in DOMAIN RecoveredIndex(f)
         /\ RecoveredIndex(f)[r.offset] = Starts(f)[i]
         /\ r.offset < RecoveredNext(f)
<1>1. /\ i \in 1 .. Len(Starts(f)) /\ RecordAt(f, i) = r
      /\ \A j \in 1 .. Len(Starts(f)) : i < j => r.offset < RecordAt(f, j).offset
  BY DEF LastAt
<1>2. Chain(f)
  BY StartsChain
<1>3. PICK n \in Nat : n = Len(Starts(f)) /\ i \in 1 .. n /\ i \in Nat /\ n \in 1 .. n
  BY <1>1, <1>2 DEF Chain
<1>4. r.offset \in Nat
  BY DEF Record
<1>5. r.offset \in DOMAIN RecoveredIndex(f)
  BY <1>1, IndexDomain DEF RecordAt
<1>6. PICK k \in 1 .. Len(Starts(f)) :
         /\ RecoveredIndex(f)[r.offset] = Starts(f)[k] /\ RecordAt(f, k).offset = r.offset
         /\ \A j \in 1 .. Len(Starts(f)) : RecordAt(f, j).offset = r.offset => Starts(f)[j] <= Starts(f)[k]
  BY <1>5, IndexFound DEF RecordAt
<1>7. k = i
  <2>1. ~(i < k)
    BY <1>1, <1>4, <1>6
  <2>2. Starts(f)[i] <= Starts(f)[k]
    BY <1>1, <1>6
  <2>3. ASSUME k < i PROVE FALSE
    <3>1. EndAt(f, k) <= Starts(f)[i]
      BY <1>1, <1>2, <1>6, <2>3 DEF Chain
    <3>2. Starts(f)[k] < EndAt(f, k) /\ Starts(f)[k] \in Nat /\ EndAt(f, k) \in Nat /\ Starts(f)[i] \in Nat
      BY <1>1, <1>2, <1>6 DEF Chain
    <3> QED
      BY <2>2, <3>1, <3>2
  <2> QED
    BY <1>3, <1>6, <2>1, <2>3
<1>8. r.offset < RecoveredNext(f)
  <2>1. DOMAIN Starts(f) = 1 .. n
    BY <1>3, StartsInside
  <2>2. Records(f) \in [1 .. n -> {RecordAt(f, j) : j \in 1 .. n}]
    BY <2>1 DEF Records, RecordAt
  <2>3. Len(Records(f)) = n /\ Records(f) \in Seq({RecordAt(f, j) : j \in 1 .. n})
    BY <2>2, FunctionIsSeq
  <2>4. Records(f) # <<>>
    BY <1>3, <2>3, EmptySeq
  <2>5. Records(f)[n] = RecordAt(f, n)
    BY <1>3, <2>1 DEF Records, RecordAt
  <2>6. RecoveredNext(f) = RecordAt(f, n).offset + 1
    BY <2>3, <2>4, <2>5 DEF RecoveredNext
  <2>7. RecordAt(f, n).offset \in Nat
    <3>1. PICK p \in Nat : p = Starts(f)[n] /\ Decodes(f, p)
      BY <1>2, <1>3 DEF Chain
    <3>2. f[p + 2].offset \in Nat
      BY <3>1, DecodesInside
    <3> QED
      BY <3>1, <3>2 DEF RecordAt, DecodeRecord
  <2>8. r.offset <= RecordAt(f, n).offset
    <3>1. CASE i = n
      BY <1>1, <1>4, <3>1
    <3>2. CASE i < n
      <4>1. r.offset < RecordAt(f, n).offset
        BY <1>1, <1>3, <3>2
      <4> QED
        BY <1>4, <2>7, <4>1
    <3> QED
      BY <1>3, <3>1, <3>2
  <2> QED
    BY <1>4, <2>6, <2>7, <2>8
<1> QED
  BY <1>5, <1>6, <1>7, <1>8

-----------------------------------------------------------------------------
(* What has been confirmed can be read.                                    *)

\* A confirmed record r is in the file f, the last with its offset, clean
\* under "always", and in the index ix of an open segment.
Held(f, D, pol, up, next, ix, r) ==
    \E i \in 1 .. Len(Starts(f)) :
        /\ LastAt(f, r, i)
        /\ pol = "always" => \A c \in D : EndAt(f, i) < c
        /\ up => r.offset < next /\ r.offset \in DOMAIN ix /\ ix[r.offset] = Starts(f)[i]

AckedInv ==
    Unharmed =>
        /\ Filed(file, disk, open, position)
        /\ \A r \in acked : Held(file, dirty, policy, open, nextOffset, index, r)

LEMMA AckedInvInit ==
  Init => AckedInv
<1> SUFFICES ASSUME Init PROVE AckedInv
  OBVIOUS
<1>1. file = disk /\ open = FALSE /\ acked = {}
  BY DEF Init
<1>2. file \in Seq(Cell)
  BY SegmentInvInit DEF SegmentInv
<1>3. Len(file) \in Nat /\ RecoveredEnd(file) <= Len(file) /\ Agree(file, file)
  BY <1>2, StartsInside DEF Agree
<1> QED
  BY <1>1, <1>3 DEF AckedInv, Filed

\* The index changes at the next offset only, which may go up by one.
IndexKept(next, more, ix, iy) ==
    /\ more = next \/ more = next + 1
    /\ DOMAIN ix \subseteq DOMAIN iy
    /\ \A o \in DOMAIN ix : o # next => iy[o] = ix[o]

\* A record held before a write at the end is held after it.
LEMMA ExtendedHeld ==
  ASSUME NEW f \in Seq(Cell), NEW g \in Seq(Cell), NEW r, NEW whole, ChainExtended(f, g, r, whole),
         NEW D, NEW E, E \subseteq D \cup (Len(f) + 1 .. Len(g)), NEW pol, NEW next \in Nat,
         r.offset = next, NEW ix, NEW q \in Record, Held(f, D, pol, TRUE, next, ix, q),
         NEW up, NEW more, NEW iy, up => IndexKept(next, more, ix, iy)
  PROVE  Held(g, E, pol, up, more, iy, q)
<1>1. PICK i \in 1 .. Len(Starts(f)) :
         /\ LastAt(f, q, i)
         /\ pol = "always" => \A c \in D : EndAt(f, i) < c
         /\ q.offset < next /\ q.offset \in DOMAIN ix /\ ix[q.offset] = Starts(f)[i]
  BY DEF Held
<1>2. LastAt(g, q, i) /\ SameAt(f, g, i) /\ EndAt(f, i) <= Len(f)
  BY <1>1, ExtendedLast
<1>3. i \in 1 .. Len(Starts(g)) /\ Starts(g)[i] = Starts(f)[i] /\ EndAt(g, i) = EndAt(f, i)
  BY <1>2 DEF SameAt
<1>4. EndAt(f, i) \in Nat /\ Len(f) \in Nat /\ Len(g) \in Nat
  <2>1. Chain(f)
    BY StartsChain
  <2> QED
    BY <1>1, <2>1 DEF Chain
<1>5. ASSUME pol = "always", NEW c \in E PROVE EndAt(g, i) < c
  <2>1. CASE c \in D
    BY <1>1, <1>3, <1>5, <2>1
  <2>2. CASE c \in Len(f) + 1 .. Len(g)
    BY <1>2, <1>3, <1>4, <2>2
  <2> QED
    BY <2>1, <2>2
<1>6. ASSUME up PROVE q.offset < more /\ q.offset \in DOMAIN iy /\ iy[q.offset] = Starts(g)[i]
  <2>1. q.offset \in Nat
    BY DEF Record
  <2>2. q.offset < more /\ q.offset # next
    BY <1>1, <1>6, <2>1 DEF IndexKept
  <2> QED
    BY <1>1, <1>3, <1>6, <2>2 DEF IndexKept
<1> QED
  BY <1>2, <1>3, <1>5, <1>6 DEF Held

\* A write: of a whole record, confirmed or not, or one the process ends in.
LEMMA AckedWrite ==
  ASSUME SegmentInv, PairedInv, AckedInv, NEW id \in Ids, NEW count \in 1 .. Size(id),
         WriteAll(id, count), open, past \cup Overwrite \subseteq past', policy' = policy,
         Unharmed' =>
           \/ disk' = disk /\ dirty' = Touched(count) /\ ~open' /\ acked' = acked
           \/ /\ count = Size(id) /\ position' = position + count
              /\ \/ disk' = disk /\ dirty' = Touched(count)
                 \/ disk' = Synced(Touched(count)) /\ dirty' = {}
              /\ \/ UNCHANGED <<nextOffset, index, acked>>
                 \/ IndexRecord(id) /\ (policy = "always" => dirty' = {})
  PROVE  AckedInv'
<1> SUFFICES ASSUME Unharmed'
             PROVE  /\ Filed(file', disk', open', position')
                    /\ \A r \in acked' : Held(file', dirty', policy', open', nextOffset', index', r)
  BY DEF AckedInv
<1>1. Unharmed /\ Overwrite = {}
  BY DEF Unharmed, Overwrite
<1>2. /\ file \in Seq(Cell) /\ disk \in Seq(Cell) /\ Len(file) \in Nat /\ nextOffset \in Nat
      /\ acked \subseteq Record
  BY DEF SegmentInv
<1>3. PICK g \in Seq(Cell), k \in {count} :
         /\ g = file' /\ k = count /\ position = Len(file)
         /\ Extended(file, g, id, nextOffset, k)
         /\ Size(id) = Len(EncodeRecord(id, nextOffset))
  BY <1>1, WriteExtends
<1>4. /\ Filed(file, disk, TRUE, Len(file)) /\ RecoveredEnd(file) = Len(file)
      /\ \A r \in acked : Held(file, dirty, policy, TRUE, nextOffset, index, r)
  BY <1>1, <1>3 DEF AckedInv, Filed, Held
<1>5. Len(g) = Len(file) + k /\ Len(g) \in Nat
  BY <1>3 DEF Extended
<1>6. Synced(Touched(count)) = g
  BY <1>1, <1>3, SyncedIsFile DEF PairedInv, Sound
<1>7. Touched(count) = dirty \cup (Len(file) + 1 .. Len(g))
  BY <1>3, <1>5 DEF Touched
<1> DEFINE new == [offset |-> nextOffset, id |-> id]
           whole == k = Len(EncodeRecord(id, nextOffset))
<1>8. FiledWritten(file, g, disk, whole)
  BY <1>2, <1>3, <1>4, ExtendedFiled
<1>9. ChainExtended(file, g, new, whole)
  BY <1>2, <1>3, <1>4, ExtendedChain
<1>10. new.offset = nextOffset
  OBVIOUS
<1>11. Filed(g, disk, FALSE, 0) /\ (whole => Filed(g, disk, TRUE, Len(g)) /\ Filed(g, g, TRUE, Len(g)))
  BY <1>8 DEF FiledWritten
<1> HIDE DEF new, whole
<1>12. whole <=> count = Size(id)
  BY <1>3 DEF whole
<1>13. Filed(file', disk', open', position')
  <2>1. CASE disk' = disk /\ ~open'
    BY <1>3, <1>11, <2>1 DEF Filed
  <2>2. CASE whole /\ position' = Len(g) /\ (disk' = disk \/ disk' = g)
    BY <1>3, <1>11, <2>2 DEF Filed
  <2>3. position + count = Len(g)
    BY <1>3, <1>5
  <2> QED
    BY <1>6, <1>12, <2>1, <2>2, <2>3
<1>14. dirty' \subseteq dirty \cup (Len(file) + 1 .. Len(g))
  BY <1>7
<1>15. ASSUME NEW r \in acked
       PROVE  Held(file', dirty', policy', open', nextOffset', index', r)
  <2>1. Held(file, dirty, policy, TRUE, nextOffset, index, r) /\ r \in Record
    BY <1>2, <1>4
  <2>2. open' => IndexKept(nextOffset, nextOffset', index, index')
    BY DEF IndexRecord, IndexKept
  <2>3. PICK E, up, more, iy :
           /\ E = dirty' /\ up = open' /\ more = nextOffset' /\ iy = index'
           /\ E \subseteq dirty \cup (Len(file) + 1 .. Len(g))
           /\ up => IndexKept(nextOffset, more, index, iy)
    BY <1>14, <2>2
  <2>4. Held(g, E, policy, up, more, iy, r)
    BY <1>2, <1>9, <1>10, <2>1, <2>3, ExtendedHeld
  <2>5. Held(g, dirty', policy, open', nextOffset', index', r)
    BY <2>3, <2>4
  <2> QED
    BY <1>3, <2>5
<1>16. ASSUME whole, IndexRecord(id), policy = "always" => dirty' = {}
       PROVE  Held(file', dirty', policy', open', nextOffset', index', new)
  <2>1. PICK m \in Nat :
           /\ m = Len(Starts(file)) /\ Len(Starts(g)) = m + 1 /\ RecordAt(g, m + 1) = new
           /\ Starts(g)[m + 1] = Len(file)
    BY <1>9, <1>16 DEF ChainExtended
  <2>2. m + 1 \in 1 .. Len(Starts(g)) /\ \A j \in 1 .. Len(Starts(g)) : ~(m + 1 < j)
    BY <2>1
  <2>3. LastAt(g, new, m + 1)
    BY <2>1, <2>2 DEF LastAt
  <2>4. /\ new.offset < nextOffset' /\ new.offset \in DOMAIN index'
        /\ index'[new.offset] = position
    BY <1>2, <1>10, <1>16 DEF IndexRecord
  <2> QED
    BY <1>3, <1>16, <2>1, <2>2, <2>3, <2>4 DEF Held
<1>17. ASSUME NEW r \in acked', r \notin acked
       PROVE  Held(file', dirty', policy', open', nextOffset', index', r)
  <2>1. count = Size(id) /\ IndexRecord(id) /\ (policy = "always" => dirty' = {})
    BY <1>17
  <2>2. r = new
    BY <1>17, <2>1 DEF IndexRecord, new
  <2> QED
    BY <1>12, <1>16, <2>1, <2>2
<1> QED
  BY <1>13, <1>15, <1>17

LEMMA AckedInvNext ==
  SegmentInv /\ PairedInv /\ AckedInv /\ [Next]_vars => AckedInv'
<1> SUFFICES ASSUME SegmentInv, PairedInv, AckedInv, [Next]_vars PROVE AckedInv'
  OBVIOUS
<1>1. /\ file \in Seq(Cell) /\ Len(file) \in Nat /\ disk \in Seq(Cell) /\ Len(disk) \in Nat
      /\ nextOffset \in Nat /\ acked \subseteq Record
  BY DEF SegmentInv
<1>2. ASSUME NEW id \in Ids PROVE Size(id) \in 1 .. Size(id) /\ Size(id) \in Nat
  <2>1. PICK n \in Nat : n = Len(Body[id]) /\ Size(id) = 2 + n
    BY <1>1, Encoded DEF Size, Cells
  <2> QED
    BY <2>1
<1>3. CASE OpenAndRecover
  <2> SUFFICES ASSUME Unharmed'
               PROVE  /\ Filed(file', disk', open', position')
                      /\ \A r \in acked' : Held(file', dirty', policy', open', nextOffset', index', r)
    BY DEF AckedInv
  <2>1. /\ UNCHANGED <<policy, disk, acked, past>> /\ open' /\ position' = 0 /\ Unharmed
        /\ index' = RecoveredIndex(file) /\ nextOffset' = RecoveredNext(file)
        /\ dirty' \subseteq dirty
    BY <1>3 DEF OpenAndRecover, Unharmed
  <2>2. PICK g : g = file' /\ g = SubSeq(file, 1, RecoveredEnd(file))
    BY <1>3 DEF OpenAndRecover
  <2>3. /\ Filed(file, disk, open, position)
        /\ \A r \in acked : Held(file, dirty, policy, open, nextOffset, index, r)
    BY <2>1 DEF AckedInv
  <2>4. Filed(g, disk, TRUE, 0)
    BY <1>1, <2>2, <2>3, RecoveredFiled
  <2>5. RecoveredChain(file, g)
    BY <1>1, <2>2, CutChain
  <2>6. ASSUME NEW r \in acked
        PROVE  Held(g, dirty', policy, TRUE, RecoveredNext(file), RecoveredIndex(file), r)
    <3>1. PICK i \in 1 .. Len(Starts(file)) :
             LastAt(file, r, i) /\ (policy = "always" => \A c \in dirty : EndAt(file, i) < c)
      BY <2>3, <2>6 DEF Held
    <3>2. /\ r.offset \in DOMAIN RecoveredIndex(file)
          /\ RecoveredIndex(file)[r.offset] = Starts(file)[i]
          /\ r.offset < RecoveredNext(file)
      BY <1>1, <3>1, IndexLast
    <3>3. \A j \in 1 .. Len(Starts(file)) :
             /\ j \in 1 .. Len(Starts(g)) /\ Starts(g)[j] = Starts(file)[j]
             /\ EndAt(g, j) = EndAt(file, j) /\ RecordAt(g, j) = RecordAt(file, j)
      BY <2>5 DEF RecoveredChain, SameAt
    <3>4. Len(Starts(g)) = Len(Starts(file))
      BY <2>5 DEF RecoveredChain
    <3>5. LastAt(g, r, i)
      BY <3>1, <3>3, <3>4 DEF LastAt
    <3> QED
      BY <2>1, <3>1, <3>2, <3>3, <3>5 DEF Held
  <2>7. Filed(file', disk', open', position')
    BY <2>1, <2>2, <2>4 DEF Filed
  <2>8. \A r \in acked' : Held(file', dirty', policy', open', nextOffset', index', r)
    BY <2>1, <2>2, <2>6 DEF Held
  <2> QED
    BY <2>7, <2>8
<1>4. CASE Crash
  <2>1. /\ UNCHANGED <<file, disk, dirty, policy, acked, past>> /\ ~open'
    BY <1>4 DEF Crash, LoseMemory
  <2>2. Unharmed' => Unharmed
    BY <2>1 DEF Unharmed
  <2>3. Filed(file, disk, open, position) => Filed(file', disk', open', position')
    BY <2>1 DEF Filed
  <2>4. \A r \in acked : Held(file, dirty, policy, open, nextOffset, index, r) =>
                         Held(file', dirty', policy', open', nextOffset', index', r)
    BY <2>1 DEF Held
  <2> QED
    BY <2>1, <2>2, <2>3, <2>4 DEF AckedInv
<1>5. ASSUME NEW n \in 0 .. Len(file), PowerLoss(n) PROVE AckedInv'
  <2> SUFFICES ASSUME Unharmed'
               PROVE  /\ Filed(file', disk', open', position')
                      /\ \A r \in acked' : Held(file', dirty', policy', open', nextOffset', index', r)
    BY DEF AckedInv
  <2>1. /\ ~open' /\ position' = 0 /\ disk' = file' /\ dirty' = {}
        /\ acked' = acked /\ policy' = policy
    BY <1>5 DEF PowerLoss, LoseMemory
  <2>2. Unharmed /\ (policy = "always" \/ dirty = {})
    BY <1>5 DEF PowerLoss, Unharmed
  <2>3. /\ Backed(file, disk, dirty) /\ Filed(file, disk, open, position)
        /\ \A r \in acked : Held(file, dirty, policy, open, nextOffset, index, r)
    BY <2>2 DEF AckedInv, PairedInv, Sound
  <2>4. PICK g \in Seq(Cell) : g = file'
    <3>1. SegmentInv'
      BY SegmentInvNext
    <3> QED
      BY <3>1 DEF SegmentInv
  <2>5. Joined(file, disk, n, g)
    BY <1>5, <2>3, <2>4, PowerLossJoins
  <2>6. Filed(g, g, FALSE, 0)
    <3>1. Len(g) \in Nat /\ RecoveredEnd(g) <= Len(g) /\ Agree(g, g)
      BY StartsInside DEF Agree
    <3> QED
      BY <3>1 DEF Filed
  <2>7. ASSUME NEW r \in acked PROVE Held(g, {}, policy, FALSE, nextOffset, index, r)
    <3>1. PICK i \in 1 .. Len(Starts(file)) :
             LastAt(file, r, i) /\ (policy = "always" => \A c \in dirty : EndAt(file, i) < c)
      BY <2>3, <2>7 DEF Held
    <3>2. \A c \in dirty : EndAt(file, i) < c
      BY <2>2, <3>1
    <3>3. LastAt(g, r, i)
      BY <1>1, <2>3, <2>5, <3>1, <3>2, JoinedLast
    <3> QED
      BY <3>3 DEF Held, LastAt
  <2>8. Filed(file', disk', open', position')
    BY <2>1, <2>4, <2>6 DEF Filed
  <2>9. \A r \in acked' : Held(file', dirty', policy', open', nextOffset', index', r)
    BY <2>1, <2>4, <2>7 DEF Held
  <2> QED
    BY <2>8, <2>9
<1>6. ASSUME NEW id \in Ids, AppendRecord(id) PROVE AckedInv'
  <2>1. /\ WriteAll(id, Size(id)) /\ position' = position + Size(id) /\ open /\ policy' = policy
        /\ past \cup Overwrite \subseteq past'
        /\ \/ disk' = disk /\ dirty' = Touched(Size(id)) /\ policy # "always"
           \/ disk' = Synced(Touched(Size(id))) /\ dirty' = {}
        /\ IndexRecord(id)
    BY <1>6 DEF AppendRecord, Admits
  <2> QED
    BY <1>2, <2>1, AckedWrite
<1>7. ASSUME NEW id \in Ids, NEW fault \in {"fsync_file", "fsync_eio"}, AppendNotSynced(id, fault)
      PROVE  AckedInv'
  <2>1. /\ WriteAll(id, Size(id)) /\ position' = position + Size(id) /\ open /\ policy' = policy
        /\ past \cup Overwrite \subseteq past' /\ disk' = disk
        /\ UNCHANGED <<nextOffset, index, acked>>
    BY <1>7 DEF AppendNotSynced, Admits
  <2>2. Unharmed' => dirty' = Touched(Size(id))
    BY <1>7 DEF AppendNotSynced, Unharmed
  <2> QED
    BY <1>2, <2>1, <2>2, AckedWrite
<1>8. ASSUME NEW id \in Ids, NEW count \in 1 .. Size(id), AppendShort(id, count)
      PROVE  AckedInv'
  <2>1. ~Unharmed'
    BY <1>8 DEF AppendShort, Unharmed
  <2> QED
    BY <2>1 DEF AckedInv
<1>9. ASSUME NEW id \in Ids, NEW count \in 1 .. Size(id), CrashInAppend(id, count)
      PROVE  AckedInv'
  <2>1. /\ WriteAll(id, count) /\ open /\ past \cup Overwrite \subseteq past' /\ ~open'
        /\ disk' = disk /\ dirty' = Touched(count) /\ acked' = acked /\ policy' = policy
    BY <1>9 DEF CrashInAppend, LoseMemory, Admits
  <2> QED
    BY <2>1, AckedWrite
<1>10. CASE UNCHANGED vars
  BY <1>10 DEF vars, memory, AckedInv, Unharmed
<1>11. CASE OpenUncut
  BY <1>11 DEF OpenUncut, Unharmed, AckedInv
<1>12. CASE LoseFile
  BY <1>12 DEF LoseFile, Unharmed, AckedInv
<1> QED
  BY <1>3, <1>4, <1>5, <1>6, <1>7, <1>8, <1>9, <1>10, <1>11, <1>12 DEF Next

\* What Append has returned reads as its own record for good, in the running
\* process and in any later one, as long as the segment is written at its
\* end, no write(2) fails half-way and no sync is lost; crashes inside an
\* append, syncs that fail cleanly and, under "always", power losses
\* included.  For any records, limits and number of restarts.
THEOREM AckedIsReadable ==
  Spec => []AckedReadableUnharmed
<1>1. SegmentInv /\ AckedInv => AckedReadableUnharmed
  <2> SUFFICES ASSUME SegmentInv, AckedInv, Unharmed, NEW r \in acked
               PROVE  IF open THEN Readable(r.offset) /\ Read(r.offset) = r
                      ELSE /\ r.offset \in DOMAIN RecoveredIndex(file)
                           /\ DecodeRecord(file, RecoveredIndex(file)[r.offset]) = r
    BY DEF AckedReadableUnharmed, AckedReadable
  <2>1. file \in Seq(Cell) /\ r \in Record
    BY DEF SegmentInv
  <2>2. PICK i \in 1 .. Len(Starts(file)) :
           /\ LastAt(file, r, i)
           /\ open => r.offset \in DOMAIN index /\ index[r.offset] = Starts(file)[i]
    BY DEF AckedInv, Held
  <2>3. Decodes(file, Starts(file)[i]) /\ DecodeRecord(file, Starts(file)[i]) = r
    BY <2>1, <2>2, StartsInside DEF LastAt, RecordAt
  <2>4. r.offset \in DOMAIN RecoveredIndex(file) /\ RecoveredIndex(file)[r.offset] = Starts(file)[i]
    BY <2>1, <2>2, IndexLast
  <2> QED
    BY <2>2, <2>3, <2>4 DEF Readable, Read
<1>2. Spec => [](SegmentInv /\ PairedInv /\ AckedInv)
  BY SegmentInvInit, SegmentInvNext, PairedInvInit, PairedInvNext, AckedInvInit, AckedInvNext,
     PTL DEF Spec
<1> QED
  BY <1>1, <1>2, PTL

-----------------------------------------------------------------------------
(* The segment is the log the engine takes it to be.                       *)

LEMMA RecordsOf ==
  ASSUME NEW f \in Seq(Cell)
  PROVE  /\ Records(f) \in Seq(Record) /\ Len(Records(f)) = Len(Starts(f)) /\ Len(Starts(f)) \in Nat
         /\ DOMAIN Records(f) = 1 .. Len(Starts(f))
         /\ \A i \in 1 .. Len(Starts(f)) : Records(f)[i] = RecordAt(f, i) /\ RecordAt(f, i) \in Record
<1>1. PICK n \in Nat : n = Len(Starts(f)) /\ DOMAIN Starts(f) = 1 .. n
  BY StartsInside
<1>2. ASSUME NEW i \in 1 .. n PROVE RecordAt(f, i) \in Record
  <2>1. PICK p \in Nat : p = Starts(f)[i] /\ Decodes(f, p)
    BY <1>1, StartsInside
  <2>2. f[p + 2].offset \in Nat /\ f[p + 2].id \in Ids
    BY <2>1, DecodesInside
  <2> QED
    BY <2>1, <2>2 DEF RecordAt, DecodeRecord, Record
<1>3. Records(f) = [i \in 1 .. n |-> RecordAt(f, i)]
  BY <1>1 DEF Records, RecordAt
<1>4. Records(f) \in [1 .. n -> Record] /\ \A i \in 1 .. n : Records(f)[i] = RecordAt(f, i)
  BY <1>2, <1>3
<1>5. Records(f) \in Seq(Record) /\ Len(Records(f)) = n /\ DOMAIN Records(f) = 1 .. n
  BY <1>4, FunctionIsSeq
<1> QED
  BY <1>1, <1>2, <1>4, <1>5

\* The first k records of f are all of g's.
LEMMA FirstRecords ==
  ASSUME NEW f \in Seq(Cell), NEW g \in Seq(Cell), Len(Starts(g)) <= Len(Starts(f)),
         \A i \in 1 .. Len(Starts(g)) : RecordAt(g, i) = RecordAt(f, i)
  PROVE  Records(g) = SubSeq(Records(f), 1, Len(Starts(g)))
<1>1. PICK s \in Seq(Record), t \in Seq(Record), k \in Nat, m \in Nat :
         /\ s = Records(f) /\ t = Records(g) /\ Len(s) = m /\ Len(t) = k
         /\ m = Len(Starts(f)) /\ k = Len(Starts(g)) /\ k <= m
         /\ \A i \in 1 .. m : s[i] = RecordAt(f, i)
         /\ \A i \in 1 .. k : t[i] = RecordAt(g, i)
  BY RecordsOf
<1>2. \A i \in 1 .. k : s[i] \in Record /\ t[i] = s[i]
  BY <1>1
<1>3. PICK u \in Seq(Record) : u = SubSeq(s, 1, k) /\ Len(u) = k /\ \A i \in 1 .. k : u[i] = s[i]
  <2>1. SubSeq(s, 1, k) \in Seq(Record) /\ Len(SubSeq(s, 1, k)) = k
    BY <1>2, SubSeqProperties
  <2>2. \A i \in 1 .. k : SubSeq(s, 1, k)[i] = s[i]
    BY <1>2, SubSeqProperties
  <2> QED
    BY <2>1, <2>2, Zenon
<1>4. u = t
  <2>1. Len(u) = Len(t) /\ \A i \in 1 .. Len(u) : u[i] = t[i]
    BY <1>1, <1>2, <1>3
  <2> QED
    BY <2>1, SeqEqual
<1> QED
  BY <1>1, <1>3, <1>4

\* g has the records of f and one more.
LEMMA OneMoreRecord ==
  ASSUME NEW f \in Seq(Cell), NEW g \in Seq(Cell), Len(Starts(g)) = Len(Starts(f)) + 1,
         \A i \in 1 .. Len(Starts(f)) : RecordAt(g, i) = RecordAt(f, i)
  PROVE  Records(g) = Append(Records(f), RecordAt(g, Len(Starts(f)) + 1))
<1>1. PICK s \in Seq(Record), t \in Seq(Record), m \in Nat :
         /\ s = Records(f) /\ t = Records(g) /\ Len(s) = m /\ Len(t) = m + 1
         /\ m = Len(Starts(f))
         /\ \A i \in 1 .. m : s[i] = RecordAt(f, i)
         /\ \A i \in 1 .. m + 1 : t[i] = RecordAt(g, i) /\ RecordAt(g, i) \in Record
  <2>1. /\ Records(f) \in Seq(Record) /\ Len(Records(f)) = Len(Starts(f)) /\ Len(Starts(f)) \in Nat
        /\ \A i \in 1 .. Len(Starts(f)) : Records(f)[i] = RecordAt(f, i)
    BY RecordsOf
  <2>2. /\ Records(g) \in Seq(Record) /\ Len(Records(g)) = Len(Starts(f)) + 1
        /\ \A i \in 1 .. Len(Starts(f)) + 1 : Records(g)[i] = RecordAt(g, i) /\ RecordAt(g, i) \in Record
    BY RecordsOf
  <2> QED
    BY <2>1, <2>2, Zenon
<1>2. m + 1 \in 1 .. m + 1 /\ \A i \in 1 .. m : i \in 1 .. m + 1
  BY <1>1
<1>3. PICK r \in Record : r = RecordAt(g, m + 1) /\ t[m + 1] = r
  BY <1>1, <1>2
<1>4. PICK u \in Seq(Record) :
         u = Append(s, r) /\ Len(u) = m + 1 /\ u[m + 1] = r /\ \A i \in 1 .. m : u[i] = s[i]
  <2>1. Append(s, r) \in Seq(Record) /\ Len(Append(s, r)) = Len(s) + 1
    BY AppendProperties
  <2>2. Append(s, r)[Len(s) + 1] = r /\ \A i \in 1 .. Len(s) : Append(s, r)[i] = s[i]
    BY AppendProperties
  <2> QED
    BY <1>1, <2>1, <2>2, Zenon
<1>5. \A i \in 1 .. m : t[i] = s[i]
  BY <1>1, <1>2
<1>6. u = t
  <2>1. Len(u) = Len(t) /\ \A i \in 1 .. Len(u) : u[i] = t[i]
    BY <1>1, <1>3, <1>4, <1>5
  <2> QED
    BY <2>1, SeqEqual
<1> QED
  BY <1>1, <1>3, <1>4, <1>6

\* The last of the records of f that is in A.
LastOf(f, A) ==
    LET last == {i \in DOMAIN Records(f) : Records(f)[i] \in A}
    IN  IF last = {} THEN 0 ELSE Max(last)

LEMMA LastOfIs ==
  ASSUME NEW f \in Seq(Cell), NEW A
  PROVE  /\ LastOf(f, A) \in 0 .. Len(Starts(f))
         /\ LastOf(f, A) # 0 => RecordAt(f, LastOf(f, A)) \in A
         /\ \A i \in 1 .. Len(Starts(f)) : RecordAt(f, i) \in A => i <= LastOf(f, A)
<1>1. PICK n \in Nat : /\ n = Len(Starts(f)) /\ DOMAIN Records(f) = 1 .. n
                       /\ \A i \in 1 .. n : Records(f)[i] = RecordAt(f, i)
  BY RecordsOf
<1>2. PICK last \in SUBSET (1 .. n) : last = {i \in 1 .. n : RecordAt(f, i) \in A}
  OBVIOUS
<1>3. LastOf(f, A) = IF last = {} THEN 0 ELSE Max(last)
  BY <1>1, <1>2 DEF LastOf
<1>4. CASE last = {}
  BY <1>1, <1>2, <1>3, <1>4
<1>5. CASE last # {}
  <2>1. last \in SUBSET (0 .. n)
    OBVIOUS
  <2>2. Max(last) \in last /\ \A y \in last : y <= Max(last)
    BY <1>5, <2>1, MaxUpTo
  <2> QED
    BY <1>1, <1>2, <1>3, <1>5, <2>2
<1> QED
  BY <1>4, <1>5

\* If every record of A is the last of its offset, and at the same place in f
\* and in g, then so is the last of them.
LEMMA SameLastOf ==
  ASSUME NEW f \in Seq(Cell), NEW g \in Seq(Cell), NEW A \in SUBSET Record,
         \A r \in A : \E i \in Nat : LastAt(f, r, i) /\ LastAt(g, r, i)
  PROVE  LastOf(g, A) = LastOf(f, A)
<1>1. PICK m \in Nat, l \in Nat, a \in Nat, b \in Nat :
         m = Len(Starts(f)) /\ l = Len(Starts(g)) /\ a = LastOf(f, A) /\ b = LastOf(g, A)
  <2>1. Len(Starts(f)) \in Nat /\ Len(Starts(g)) \in Nat
    BY StartsInside
  <2>2. LastOf(f, A) \in Nat /\ LastOf(g, A) \in Nat
    BY <2>1, LastOfIs
  <2> QED
    BY <2>1, <2>2
<1>2. /\ a <= m /\ (a # 0 => RecordAt(f, a) \in A)
      /\ \A i \in 1 .. m : RecordAt(f, i) \in A => i <= a
  BY <1>1, LastOfIs
<1>3. /\ b <= l /\ (b # 0 => RecordAt(g, b) \in A)
      /\ \A i \in 1 .. l : RecordAt(g, i) \in A => i <= b
  BY <1>1, LastOfIs
<1>4. a <= b
  <2> SUFFICES ASSUME a # 0 PROVE a <= b
    BY <1>1
  <2>1. PICK r \in A, i \in Nat : r = RecordAt(f, a) /\ LastAt(f, r, i) /\ LastAt(g, r, i)
    BY <1>2
  <2>2. /\ i \in 1 .. m /\ RecordAt(f, i) = r
        /\ \A j \in 1 .. m : i < j => r.offset < RecordAt(f, j).offset
        /\ i \in 1 .. l /\ RecordAt(g, i) = r
    BY <1>1, <2>1 DEF LastAt
  <2>3. r.offset \in Nat
    BY DEF Record
  <2>4. ~(i < a)
    <3>1. a \in 1 .. m
      BY <1>2
    <3>2. i < a => r.offset < r.offset
      BY <2>1, <2>2, <3>1
    <3> QED
      BY <2>3, <3>2
  <2>5. i <= b
    BY <1>3, <2>2
  <2> QED
    BY <2>4, <2>5
<1>5. b <= a
  <2> SUFFICES ASSUME b # 0 PROVE b <= a
    BY <1>1
  <2>1. PICK r \in A, i \in Nat : r = RecordAt(g, b) /\ LastAt(f, r, i) /\ LastAt(g, r, i)
    BY <1>3
  <2>2. /\ i \in 1 .. l /\ RecordAt(g, i) = r
        /\ \A j \in 1 .. l : i < j => r.offset < RecordAt(g, j).offset
        /\ i \in 1 .. m /\ RecordAt(f, i) = r
    BY <1>1, <2>1 DEF LastAt
  <2>3. r.offset \in Nat
    BY DEF Record
  <2>4. ~(i < b)
    <3>1. b \in 1 .. l
      BY <1>3
    <3>2. i < b => r.offset < r.offset
      BY <2>1, <2>2, <3>1
    <3> QED
      BY <2>3, <3>2
  <2>5. i <= a
    BY <1>2, <2>2
  <2> QED
    BY <2>4, <2>5
<1> QED
  BY <1>1, <1>4, <1>5

\* The records of g are the first records of f.
Shortened(f, g) ==
    /\ Len(Starts(g)) <= Len(Starts(f))
    /\ \A i \in 1 .. Len(Starts(g)) : RecordAt(g, i) = RecordAt(f, i)

\* They are those of f and one more, whose second half of a header is in f.
Completed(f, g) ==
    /\ Len(Starts(g)) = Len(Starts(f)) + 1
    /\ \A i \in 1 .. Len(Starts(f)) : RecordAt(g, i) = RecordAt(f, i)
    /\ \E j \in 1 .. Len(f) :
         /\ f[j].part = "ids"
         /\ RecordAt(g, Len(Starts(f)) + 1) = [offset |-> f[j].offset, id |-> f[j].id]

\* A file whose whole records are all in f.
LEMMA PrefixShortened ==
  ASSUME NEW f \in Seq(Cell), NEW g \in Seq(Cell), RecoveredEnd(g) <= Len(f),
         \A i \in 1 .. RecoveredEnd(g) : f[i] = g[i]
  PROVE  Shortened(f, g)
<1>1. Chain(f) /\ Chain(g)
  BY StartsChain
<1>2. PICK e \in Nat, k \in Nat, m \in Nat :
         e = RecoveredEnd(g) /\ k = Len(Starts(g)) /\ m = Len(Starts(f)) /\ e <= Len(g)
  BY <1>1 DEF Chain
<1>3. \A i \in 1 .. k : EndAt(g, i) <= e
  BY <1>1, <1>2 DEF Chain
<1>4. \A i \in 1 .. Len(Starts(g)) : EndAt(g, i) <= e => SameAt(g, f, i)
  <2>1. e <= Len(f) /\ e <= Len(g) /\ \A i \in 1 .. e : f[i] = g[i]
    BY <1>2
  <2> QED
    BY <2>1, CommonRecords
<1>5. \A i \in 1 .. k : i \in 1 .. m /\ RecordAt(f, i) = RecordAt(g, i)
  BY <1>2, <1>3, <1>4 DEF SameAt
<1>6. k <= m
  <2>1. CASE k = 0
    BY <2>1
  <2>2. CASE k # 0
    <3>1. k \in 1 .. k
      BY <2>2
    <3> QED
      BY <1>5, <3>1
  <2> QED
    BY <2>1, <2>2
<1> QED
  BY <1>2, <1>5, <1>6 DEF Shortened

\* A record whose header lies before n and that ends behind it.
LEMMA TornCompleted ==
  ASSUME NEW f \in Seq(Cell), NEW g \in Seq(Cell), NEW n \in Nat, n <= Len(f), n <= Len(g),
         \A i \in 1 .. n : g[i] = f[i],
         NEW k \in Nat, Len(Starts(g)) = k + 1, Starts(g)[k + 1] + 2 <= n
  PROVE  \/ Shortened(f, g)
         \/ Completed(f, g) /\ RecoveredEnd(f) < Len(f)
<1>1. Chain(f) /\ Chain(g)
  BY StartsChain
<1>2. PICK m \in Nat : m = Len(Starts(f)) /\ Len(f) \in Nat /\ RecoveredEnd(f) = After(f, m)
  BY <1>1 DEF Chain
<1>3. PICK p \in Nat : p = Starts(g)[k + 1] /\ p = After(g, k) /\ Decodes(g, p) /\ p + 2 <= n
  <2>1. k + 1 \in 1 .. Len(Starts(g)) /\ (k + 1) - 1 = k
    OBVIOUS
  <2>2. Starts(g)[k + 1] \in Nat /\ Decodes(g, Starts(g)[k + 1]) /\ Starts(g)[k + 1] = After(g, k)
    BY <1>1, <2>1 DEF Chain
  <2> QED
    BY <2>2
<1>4. ASSUME NEW i \in 1 .. k PROVE SameAt(g, f, i)
  <2>1. i \in 1 .. Len(Starts(g)) /\ k + 1 \in 1 .. Len(Starts(g)) /\ i < k + 1
    OBVIOUS
  <2>2. EndAt(g, i) \in Nat /\ EndAt(g, i) <= Starts(g)[k + 1]
    BY <1>1, <2>1 DEF Chain
  <2>3. EndAt(g, i) <= n
    BY <1>3, <2>2
  <2>4. \A j \in 1 .. Len(Starts(g)) : EndAt(g, j) <= n => SameAt(g, f, j)
    BY CommonRecords
  <2> QED
    BY <2>1, <2>3, <2>4
<1>5. k <= m /\ After(f, k) = p
  <2>1. CASE k = 0
    BY <1>2, <1>3, <2>1 DEF After
  <2>2. CASE k # 0
    <3>1. k \in 1 .. k
      BY <2>2
    <3>2. k \in 1 .. m /\ EndAt(f, k) = EndAt(g, k)
      BY <1>2, <1>4, <3>1 DEF SameAt
    <3> QED
      BY <1>3, <2>2, <3>2 DEF After
  <2> QED
    BY <2>1, <2>2
<1>6. g[p + 1] = f[p + 1] /\ g[p + 2] = f[p + 2] /\ p + 2 \in 1 .. Len(f)
  <2>1. p + 1 \in 1 .. n /\ p + 2 \in 1 .. n
    BY <1>3
  <2> QED
    BY <1>2, <2>1
<1>7. RecordAt(g, k + 1) = [offset |-> f[p + 2].offset, id |-> f[p + 2].id]
  BY <1>3, <1>6 DEF RecordAt, DecodeRecord
<1>8. CASE k < m
  <2>1. k + 1 \in 1 .. m /\ (k + 1) - 1 = k
    BY <1>8
  <2>2. Starts(f)[k + 1] = p
    BY <1>1, <1>2, <1>5, <2>1 DEF Chain
  <2>3. RecordAt(f, k + 1) = RecordAt(g, k + 1)
    BY <1>7, <2>2 DEF RecordAt, DecodeRecord
  <2>4. \A i \in 1 .. k + 1 : RecordAt(g, i) = RecordAt(f, i)
    <3>1. \A i \in 1 .. k : RecordAt(g, i) = RecordAt(f, i)
      BY <1>4 DEF SameAt
    <3> QED
      BY <2>3, <3>1
  <2> QED
    BY <1>2, <1>8, <2>4 DEF Shortened
<1>9. CASE k = m
  <2>1. RecoveredEnd(f) = p /\ p < Len(f)
    BY <1>2, <1>3, <1>5, <1>9
  <2>2. f[p + 2].part = "ids"
    BY <1>3, <1>6 DEF Decodes, HeaderAt
  <2>3. \A i \in 1 .. m : RecordAt(g, i) = RecordAt(f, i)
    BY <1>4, <1>9 DEF SameAt
  <2> QED
    BY <1>2, <1>6, <1>7, <1>9, <2>1, <2>2, <2>3 DEF Completed
<1> QED
  BY <1>2, <1>5, <1>8, <1>9

\* What a power loss makes of the records.
LEMMA JoinedRecords ==
  ASSUME NEW f \in Seq(Cell), NEW d \in Seq(Cell), NEW n \in 0 .. Len(f), n # 1,
         NEW g \in Seq(Cell), Joined(f, d, n, g),
         NEW up, NEW end, Filed(f, d, up, end), Agree(f, d) \/ LoneHeader(d)
  PROVE  \/ Shortened(f, g)
         \/ Completed(f, g) /\ ~up /\ ~Agree(f, d) /\ ~Decodes(d, 0)
<1>1. Chain(f) /\ Chain(d) /\ Chain(g)
  BY StartsChain
<1>2. /\ Len(f) \in Nat /\ Len(d) \in Nat /\ Len(g) \in Nat /\ n \in Nat /\ n <= Len(f)
      /\ Len(g) = IF Len(d) >= n THEN Len(d) ELSE n
      /\ \A i \in 1 .. Len(g) : g[i] = IF i <= n THEN f[i] ELSE d[i]
  BY <1>1 DEF Joined, Chain
<1>3. PICK e \in Nat, k \in Nat : e = RecoveredEnd(g) /\ k = Len(Starts(g)) /\ e <= Len(g) /\ e = After(g, k)
  BY <1>1 DEF Chain
<1>4. n <= Len(g) /\ \A i \in 1 .. n : g[i] = f[i]
  BY <1>2
<1>5. CASE e <= n
  <2>1. e <= Len(f) /\ \A i \in 1 .. e : f[i] = g[i]
    BY <1>2, <1>4, <1>5
  <2> QED
    BY <1>3, <2>1, PrefixShortened
<1>6. CASE e > n /\ Agree(f, d)
  <2>1. Len(g) = Len(d) /\ \A i \in 1 .. Len(g) : g[i] = d[i]
    BY <1>2, <1>3, <1>6 DEF Agree
  <2>2. g = d
    BY <2>1, SeqEqual
  <2>3. RecoveredEnd(g) <= Len(f) /\ \A i \in 1 .. RecoveredEnd(g) : f[i] = g[i]
    BY <2>2 DEF Filed
  <2> QED
    BY <2>3, PrefixShortened
<1>7. CASE e > n /\ ~Agree(f, d)
  <2>1. LoneHeader(d) /\ ~Decodes(d, 0)
    BY <1>7 DEF Filed
  <2>2. PICK j \in Nat : k = j + 1
    <3>1. k # 0
      BY <1>2, <1>3, <1>7 DEF After
    <3>2. k - 1 \in Nat /\ k = (k - 1) + 1
      BY <3>1
    <3> QED
      BY <3>2
  <2>3. PICK p \in Nat : p = Starts(g)[j + 1] /\ Decodes(g, p)
    <3>1. j + 1 \in 1 .. Len(Starts(g))
      BY <1>3, <2>2
    <3> QED
      BY <1>1, <3>1 DEF Chain
  <2>4. p + 2 <= n
    <3> SUFFICES ASSUME p + 2 > n PROVE FALSE
      BY <1>2
    <3>1. p + 2 <= Len(g) /\ g[p + 2].part = "ids"
      BY <2>3 DEF Decodes, HeaderAt
    <3>2. Len(g) = Len(d) /\ g[p + 2] = d[p + 2]
      BY <1>2, <3>1
    <3>3. p + 2 \notin 3 .. Len(d)
      BY <2>1, <3>1, <3>2 DEF LoneHeader
    <3>4. p = 0 /\ n = 0
      BY <1>2, <3>1, <3>2, <3>3
    <3>5. \A i \in 1 .. Len(g) : g[i] = d[i]
      BY <1>2, <3>4
    <3>6. g = d
      BY <3>2, <3>5, SeqEqual
    <3> QED
      BY <2>1, <2>3, <3>4, <3>6
  <2>5. Shortened(f, g) \/ (Completed(f, g) /\ RecoveredEnd(f) < Len(f))
    BY <1>2, <1>3, <1>4, <2>2, <2>3, <2>4, TornCompleted
  <2>6. RecoveredEnd(f) < Len(f) => ~up
    BY <1>2 DEF Filed
  <2> QED
    BY <1>7, <2>1, <2>5, <2>6
<1> QED
  BY <1>2, <1>3, <1>5, <1>6, <1>7

\* Every header in f is of a record with offset 0.
AllFirst(f) == \A i \in 1 .. Len(f) : f[i].part = "ids" => f[i].offset = 0

\* A closed segment has no next offset; as long as no record is whole on the
\* disk, every header, in the file and on the disk, is of a first record.
OffsetInv ==
    /\ ~open => nextOffset = 0
    /\ (Unharmed /\ policy = "always" /\ ~Decodes(disk, 0)) =>
          /\ AllFirst(file) /\ AllFirst(disk)
          /\ (open /\ position = Len(file)) => nextOffset = 0

LEMMA ExtendedAllFirst ==
  ASSUME NEW f \in Seq(Cell), NEW g \in Seq(Cell), NEW id \in Ids, NEW k,
         Extended(f, g, id, 0, k), AllFirst(f)
  PROVE  AllFirst(g)
<1>1. CellsWritten(f, g, id, 0, k)
  BY ExtendedCells
<1>2. /\ Len(f) \in Nat /\ k \in Nat /\ Len(g) = Len(f) + k
      /\ \A i \in 1 .. Len(f) : g[i] = f[i]
      /\ g[Len(f) + 1] = [part |-> "sizes", body |-> Body[id]]
      /\ 2 <= k => g[Len(f) + 2] = [part |-> "ids", offset |-> 0, id |-> id]
      /\ \A i \in 3 .. k : g[Len(f) + i] = [part |-> "body", byte |-> Body[id][i - 2]]
  BY <1>1, Zenon DEF CellsWritten
<1> SUFFICES ASSUME NEW i \in 1 .. Len(g), g[i].part = "ids" PROVE g[i].offset = 0
  BY DEF AllFirst
<1>3. CASE i <= Len(f)
  <2>1. i \in 1 .. Len(f)
    BY <1>2, <1>3
  <2> QED
    BY <1>2, <2>1 DEF AllFirst
<1>4. CASE i = Len(f) + 1
  BY <1>2, <1>4
<1>5. CASE i = Len(f) + 2
  BY <1>2, <1>5
<1>6. CASE i > Len(f) + 2
  <2>1. PICK j \in 3 .. k : i = Len(f) + j
    <3>1. i - Len(f) \in 3 .. k /\ i = Len(f) + (i - Len(f))
      BY <1>2, <1>6
    <3> QED
      BY <3>1
  <2>2. \A l \in 3 .. k : g[Len(f) + l] = [part |-> "body", byte |-> Body[id][l - 2]]
    BY <1>2
  <2>3. g[i] = [part |-> "body", byte |-> Body[id][j - 2]]
    BY <2>1, <2>2, Zenon
  <2>4. g[i].part = "body"
    BY <2>3
  <2> QED
    BY <2>4
<1> QED
  BY <1>2, <1>3, <1>4, <1>5, <1>6

LEMMA JoinedAllFirst ==
  ASSUME NEW f \in Seq(Cell), NEW d \in Seq(Cell), NEW n \in 0 .. Len(f),
         NEW g \in Seq(Cell), Joined(f, d, n, g),
         AllFirst(f), AllFirst(d)
  PROVE  AllFirst(g)
<1>1. /\ Len(f) \in Nat /\ Len(d) \in Nat /\ Len(g) \in Nat /\ n \in Nat /\ n <= Len(f)
      /\ Len(g) = IF Len(d) >= n THEN Len(d) ELSE n
      /\ \A i \in 1 .. Len(g) : g[i] = IF i <= n THEN f[i] ELSE d[i]
  BY DEF Joined
<1>2. ASSUME NEW i \in 1 .. Len(g), g[i].part = "ids" PROVE g[i].offset = 0
  <2>1. CASE i <= n
    <3>1. i \in 1 .. Len(f) /\ g[i] = f[i]
      BY <1>1, <2>1
    <3> QED
      BY <1>2, <3>1 DEF AllFirst
  <2>2. CASE ~(i <= n)
    <3>1. i \in 1 .. Len(d) /\ g[i] = d[i]
      BY <1>1, <2>2
    <3> QED
      BY <1>2, <3>1 DEF AllFirst
  <2> QED
    BY <2>1, <2>2
<1> QED
  BY <1>2 DEF AllFirst

\* A first record that is whole on the disk is not lost.
LEMMA JoinedDecodes ==
  ASSUME NEW f \in Seq(Cell), NEW d \in Seq(Cell), NEW n \in 0 .. Len(f),
         NEW g \in Seq(Cell), Joined(f, d, n, g), Agree(f, d), Decodes(d, 0)
  PROVE  Decodes(g, 0)
<1>1. /\ Len(f) \in Nat /\ Len(d) \in Nat /\ Len(g) \in Nat /\ n \in Nat /\ n <= Len(f)
      /\ Len(g) = IF Len(d) >= n THEN Len(d) ELSE n
      /\ \A i \in 1 .. Len(g) : g[i] = IF i <= n THEN f[i] ELSE d[i]
  BY DEF Joined
<1>2. \A i \in 1 .. Len(g) : i <= Len(d) => g[i] = d[i]
  BY <1>1 DEF Agree
<1>3. PICK z \in Nat : z = RecordSize(d, 0) /\ 0 + z <= Len(d)
  BY DecodesInside
<1>4. 0 + RecordSize(d, 0) <= Len(g) /\ \A i \in 1 .. Len(g) : i <= 0 + RecordSize(d, 0) => g[i] = d[i]
  BY <1>1, <1>2, <1>3
<1> QED
  BY <1>4, SameRecord

LEMMA OffsetInvInit ==
  Init => OffsetInv
<1> SUFFICES ASSUME Init PROVE OffsetInv
  OBVIOUS
<1>1. file = <<>> /\ disk = <<>> /\ nextOffset = 0
  BY DEF Init
<1>2. Len(file) = 0 /\ Len(disk) = 0
  BY <1>1
<1> QED
  BY <1>1, <1>2 DEF OffsetInv, AllFirst

\* A record that is not synced, whole or not.
LEMMA OffsetWrite ==
  ASSUME SegmentInv, OffsetInv, NEW id \in Ids, NEW count \in 1 .. Size(id), WriteAll(id, count),
         open, past \cup Overwrite \subseteq past', policy' = policy, disk' = disk,
         IF open' THEN nextOffset' = nextOffset ELSE nextOffset' = 0
  PROVE  OffsetInv'
<1> SUFFICES ASSUME Unharmed', policy' = "always", ~Decodes(disk', 0)
             PROVE  /\ AllFirst(file') /\ AllFirst(disk')
                    /\ (open' /\ position' = Len(file')) => nextOffset' = 0
  BY DEF OffsetInv
<1>1. Unharmed /\ Overwrite = {}
  BY DEF Unharmed, Overwrite
<1>2. position = Len(file) /\ file' \in Seq(Cell) /\ Extended(file, file', id, nextOffset, count)
  BY <1>1, WriteExtends
<1>3. AllFirst(file) /\ AllFirst(disk) /\ nextOffset = 0
  BY <1>1, <1>2 DEF OffsetInv
<1>4. PICK g \in Seq(Cell) : g = file' /\ Extended(file, g, id, 0, count)
  BY <1>2, <1>3
<1>5. AllFirst(g)
  <2>1. file \in Seq(Cell)
    BY DEF SegmentInv
  <2> QED
    BY <1>3, <1>4, <2>1, ExtendedAllFirst
<1> QED
  BY <1>3, <1>4, <1>5 DEF AllFirst

LEMMA OffsetInvNext ==
  SegmentInv /\ PairedInv /\ AckedInv /\ OffsetInv /\ [Next]_vars => OffsetInv'
<1> SUFFICES ASSUME SegmentInv, PairedInv, AckedInv, OffsetInv, [Next]_vars PROVE OffsetInv'
  OBVIOUS
<1>1. /\ file \in Seq(Cell) /\ Len(file) \in Nat /\ disk \in Seq(Cell) /\ Len(disk) \in Nat
      /\ nextOffset \in Nat
  BY DEF SegmentInv
<1>2. ASSUME NEW id \in Ids PROVE Size(id) \in 1 .. Size(id) /\ Size(id) \in Nat
  <2>1. PICK n \in Nat : n = Len(Body[id]) /\ Size(id) = 2 + n
    BY <1>1, Encoded DEF Size, Cells
  <2> QED
    BY <2>1
<1>3. CASE OpenAndRecover
  <2>1. /\ UNCHANGED <<policy, disk, past>> /\ open' /\ position' = 0
        /\ nextOffset' = RecoveredNext(file) /\ ~open
    BY <1>3 DEF OpenAndRecover
  <2>2. PICK g \in Seq(Cell), e \in 0 .. Len(file) :
           /\ g = file' /\ e = RecoveredEnd(file) /\ Len(g) = e /\ \A i \in 1 .. e : g[i] = file[i]
    <3>1. PICK e \in 0 .. Len(file) : e = RecoveredEnd(file)
      BY <1>1, StartsInside
    <3>2. /\ SubSeq(file, 1, e) \in Seq(Cell) /\ Len(SubSeq(file, 1, e)) = e
          /\ \A i \in 1 .. e : SubSeq(file, 1, e)[i] = file[i]
      BY <1>1, Cut
    <3>3. file' = SubSeq(file, 1, e)
      BY <1>3, <3>1 DEF OpenAndRecover
    <3> QED
      BY <3>1, <3>2, <3>3, Zenon
  <2>3. AllFirst(file) => AllFirst(g)
    BY <1>1, <2>2 DEF AllFirst
  <2>4. Len(g) = 0 => RecoveredNext(file) = 0
    <3> SUFFICES ASSUME Len(g) = 0 PROVE RecoveredNext(file) = 0
      OBVIOUS
    <3>1. Chain(file)
      BY <1>1, StartsChain
    <3>2. PICK m \in Nat : m = Len(Starts(file)) /\ RecoveredEnd(file) = After(file, m)
      BY <3>1 DEF Chain
    <3>3. m = 0
      <4> SUFFICES ASSUME m # 0 PROVE FALSE
        OBVIOUS
      <4>1. m \in 1 .. m
        OBVIOUS
      <4>2. Starts(file)[m] \in Nat /\ EndAt(file, m) \in Nat /\ Starts(file)[m] < EndAt(file, m)
        BY <3>1, <3>2, <4>1 DEF Chain
      <4> QED
        BY <2>2, <3>2, <4>2 DEF After
    <3>4. Records(file) \in Seq(Record) /\ Len(Records(file)) = 0
      BY <1>1, <3>2, <3>3, RecordsOf
    <3>5. Records(file) = <<>>
      BY <3>4, EmptySeq
    <3> QED
      BY <3>5 DEF RecoveredNext
  <2>5. Unharmed' <=> Unharmed
    BY <2>1 DEF Unharmed
  <2> QED
    BY <2>1, <2>2, <2>3, <2>4, <2>5 DEF OffsetInv, AllFirst
<1>4. CASE Crash
  <2>1. UNCHANGED <<file, disk, policy, past>> /\ ~open' /\ nextOffset' = 0
    BY <1>4 DEF Crash, LoseMemory
  <2> QED
    BY <2>1 DEF OffsetInv, AllFirst, Unharmed
<1>5. ASSUME NEW n \in 0 .. Len(file), PowerLoss(n) PROVE OffsetInv'
  <2>1. ~open' /\ nextOffset' = 0 /\ disk' = file' /\ policy' = policy
    BY <1>5 DEF PowerLoss, LoseMemory
  <2> SUFFICES ASSUME Unharmed', policy' = "always", ~Decodes(disk', 0)
               PROVE  AllFirst(file') /\ AllFirst(disk')
    BY <2>1 DEF OffsetInv
  <2>2. Unharmed
    BY <1>5 DEF PowerLoss, Unharmed
  <2>3. /\ Backed(file, disk, dirty) /\ Filed(file, disk, open, position)
    BY <2>2 DEF AckedInv, PairedInv, Sound
  <2>4. PICK g \in Seq(Cell) : g = file'
    <3>1. SegmentInv'
      BY SegmentInvNext
    <3> QED
      BY <3>1 DEF SegmentInv
  <2>5. Joined(file, disk, n, g)
    BY <1>5, <2>3, <2>4, PowerLossJoins
  <2>6. ~Decodes(disk, 0)
    <3> SUFFICES ASSUME Decodes(disk, 0) PROVE FALSE
      OBVIOUS
    <3>1. Agree(file, disk)
      BY <2>3 DEF Filed
    <3>2. Decodes(g, 0)
      BY <1>1, <2>5, <3>1, JoinedDecodes
    <3> QED
      BY <2>1, <2>4, <3>2
  <2>7. AllFirst(file) /\ AllFirst(disk)
    BY <2>1, <2>2, <2>6 DEF OffsetInv
  <2>8. AllFirst(g)
    BY <1>1, <2>5, <2>7, JoinedAllFirst
  <2> QED
    BY <2>1, <2>4, <2>8
<1>6. ASSUME NEW id \in Ids, AppendRecord(id) PROVE OffsetInv'
  <2>1. /\ WriteAll(id, Size(id)) /\ open /\ open' = open /\ policy' = policy
        /\ past \cup Overwrite \subseteq past'
        /\ policy = "always" => disk' = Synced(Touched(Size(id)))
    BY <1>6 DEF AppendRecord, Admits
  <2> SUFFICES ASSUME Unharmed', policy = "always" PROVE Decodes(disk', 0)
    BY <2>1 DEF OffsetInv
  <2>2. Unharmed /\ Overwrite = {}
    BY <2>1 DEF Unharmed, Overwrite
  <2>3. PICK g \in Seq(Cell) :
           g = file' /\ Extended(file, g, id, nextOffset, Size(id))
           /\ Size(id) = Len(EncodeRecord(id, nextOffset)) /\ position = Len(file)
    BY <1>2, <2>1, <2>2, WriteExtends
  <2>4. Filed(file, disk, open, position) /\ Backed(file, disk, dirty)
    BY <2>2 DEF AckedInv, PairedInv, Sound
  <2>5. disk' = g
    BY <1>2, <2>1, <2>2, <2>3, <2>4, SyncedIsFile
  <2>6. RecoveredEnd(file) = Len(file)
    BY <2>1, <2>4 DEF Filed
  <2>7. ChainExtended(file, g, [offset |-> nextOffset, id |-> id], TRUE)
    <3>1. PICK k \in Nat : k = Size(id)
      BY <1>2
    <3>2. Extended(file, g, id, nextOffset, k) /\ k = Len(EncodeRecord(id, nextOffset))
      BY <2>3, <3>1
    <3>3. ChainExtended(file, g, [offset |-> nextOffset, id |-> id], k = Len(EncodeRecord(id, nextOffset)))
      BY <1>1, <2>6, <3>2, ExtendedChain
    <3> QED
      BY <3>2, <3>3
  <2>8. 1 \in 1 .. Len(Starts(g)) /\ 1 - 1 = 0
    BY <2>7 DEF ChainExtended
  <2>9. Chain(g)
    BY StartsChain
  <2>10. Decodes(g, 0)
    BY <2>8, <2>9 DEF Chain, After
  <2> QED
    BY <2>5, <2>10
<1>7. ASSUME NEW id \in Ids, NEW fault \in {"fsync_file", "fsync_eio"}, AppendNotSynced(id, fault)
      PROVE  OffsetInv'
  <2>1. /\ WriteAll(id, Size(id)) /\ open /\ open' = open /\ policy' = policy
        /\ past \cup Overwrite \subseteq past' /\ disk' = disk /\ nextOffset' = nextOffset
    BY <1>7 DEF AppendNotSynced, Admits
  <2> QED
    BY <1>2, <2>1, OffsetWrite
<1>8. ASSUME NEW id \in Ids, NEW count \in 1 .. Size(id), AppendShort(id, count)
      PROVE  OffsetInv'
  <2>1. /\ WriteAll(id, count) /\ open /\ open' = open /\ policy' = policy
        /\ past \cup Overwrite \subseteq past' /\ disk' = disk /\ nextOffset' = nextOffset
    BY <1>8 DEF AppendShort, Admits
  <2> QED
    BY <2>1, OffsetWrite
<1>9. ASSUME NEW id \in Ids, NEW count \in 1 .. Size(id), CrashInAppend(id, count)
      PROVE  OffsetInv'
  <2>1. /\ WriteAll(id, count) /\ open /\ past \cup Overwrite \subseteq past' /\ ~open'
        /\ disk' = disk /\ nextOffset' = 0 /\ policy' = policy
    BY <1>9 DEF CrashInAppend, LoseMemory, Admits
  <2> QED
    BY <2>1, OffsetWrite
<1>10. CASE UNCHANGED vars
  BY <1>10 DEF vars, memory, OffsetInv, Unharmed, AllFirst
<1>11. CASE OpenUncut
  BY <1>11 DEF OpenUncut, Unharmed, OffsetInv
<1>12. CASE LoseFile
  BY <1>12 DEF LoseFile, LoseMemory, Unharmed, OffsetInv
<1> QED
  BY <1>3, <1>4, <1>5, <1>6, <1>7, <1>8, <1>9, <1>10, <1>11, <1>12 DEF Next

\* The steps of the segment are steps of the log.
logView == <<Records(file), Confirmed, nextOffset, open, Unharmed>>

\* Of an append: the old records, the new one behind them if it is there, and
\* no change of what was confirmed before.
WrittenRecords(f, g, r, whole, A) ==
    /\ \/ Records(g) = Append(Records(f), r)
       \/ Records(g) = Records(f) /\ ~whole
    /\ LastOf(g, A) = LastOf(f, A)
    /\ Len(Records(f)) \in Nat
    /\ whole => LastOf(g, A \cup {r}) = Len(Records(g))

LEMMA ExtendedRecords ==
  ASSUME NEW f \in Seq(Cell), NEW g \in Seq(Cell), NEW r \in Record, NEW whole,
         ChainExtended(f, g, r, whole), NEW A \in SUBSET Record,
         \A q \in A : q.offset < r.offset /\ \E i \in Nat : LastAt(f, q, i)
  PROVE  WrittenRecords(f, g, r, whole, A)
<1>1. PICK m \in Nat, l \in Nat :
         m = Len(Starts(f)) /\ l = Len(Starts(g)) /\ Len(Records(f)) = m /\ Len(Records(g)) = l
  BY RecordsOf
<1>2. /\ \A i \in 1 .. m : SameAt(f, g, i)
      /\ \/ l = m /\ ~whole
         \/ l = m + 1 /\ RecordAt(g, m + 1) = r
  BY <1>1, Zenon DEF ChainExtended
<1>3. \A i \in 1 .. m : RecordAt(g, i) = RecordAt(f, i)
  BY <1>2 DEF SameAt
<1>4. LastOf(g, A) = LastOf(f, A)
  <2>1. ASSUME NEW q \in A PROVE \E i \in Nat : LastAt(f, q, i) /\ LastAt(g, q, i)
    <3>1. PICK i \in Nat : LastAt(f, q, i) /\ q.offset < r.offset
      BY <2>1
    <3>2. LastAt(g, q, i)
      BY <3>1, ExtendedLast
    <3> QED
      BY <3>1, <3>2
  <2> QED
    BY <2>1, SameLastOf
<1>5. CASE l = m /\ ~whole
  <2>1. PICK s \in Seq(Record), t \in Seq(Record) :
           /\ s = Records(f) /\ t = Records(g) /\ Len(s) = m /\ Len(t) = m
           /\ \A i \in 1 .. m : t[i] = s[i]
    BY <1>1, <1>3, <1>5, RecordsOf
  <2>2. s = t
    BY <2>1, SeqEqual
  <2> QED
    BY <1>1, <1>4, <1>5, <2>1, <2>2 DEF WrittenRecords
<1>6. CASE l = m + 1 /\ RecordAt(g, m + 1) = r
  <2>1. Records(g) = Append(Records(f), r)
    BY <1>1, <1>3, <1>6, OneMoreRecord
  <2>2. LastOf(g, A \cup {r}) = l
    <3>1. l \in 1 .. Len(Starts(g)) /\ RecordAt(g, l) \in A \cup {r}
      BY <1>1, <1>6
    <3>2. /\ LastOf(g, A \cup {r}) \in 0 .. Len(Starts(g))
          /\ \A i \in 1 .. Len(Starts(g)) : RecordAt(g, i) \in A \cup {r} => i <= LastOf(g, A \cup {r})
      BY LastOfIs
    <3>3. PICK x \in 0 .. l : x = LastOf(g, A \cup {r})
      BY <1>1, <3>2
    <3>4. l <= x
      BY <3>1, <3>2, <3>3
    <3> QED
      BY <3>3, <3>4
  <2> QED
    BY <1>1, <1>4, <2>1, <2>2 DEF WrittenRecords
<1> QED
  BY <1>2, <1>5, <1>6

\* The records in the file after a step that writes.
LEMMA WrittenIs ==
  ASSUME SegmentInv, PairedInv, AckedInv, NEW id \in Ids, NEW count \in 1 .. Size(id),
         WriteAll(id, count), open, past \cup Overwrite \subseteq past', Unharmed'
  PROVE  /\ Unharmed /\ file' \in Seq(Cell)
         /\ WrittenRecords(file, file', [offset |-> nextOffset, id |-> id], count = Size(id), acked)
<1>1. Unharmed /\ Overwrite = {}
  BY DEF Unharmed, Overwrite
<1>2. /\ file \in Seq(Cell) /\ nextOffset \in Nat /\ acked \in SUBSET Record
  BY DEF SegmentInv
<1>3. PICK g \in Seq(Cell) :
         g = file' /\ Extended(file, g, id, nextOffset, count)
         /\ Size(id) = Len(EncodeRecord(id, nextOffset)) /\ position = Len(file)
  BY <1>1, WriteExtends
<1>4. RecoveredEnd(file) = Len(file)
  BY <1>1 DEF AckedInv, Filed
<1>5. PICK r \in Record : r = [offset |-> nextOffset, id |-> id] /\ r.offset = nextOffset
  <2>1. [offset |-> nextOffset, id |-> id] \in Record
    BY <1>2 DEF Record
  <2> QED
    BY <2>1
<1>6. ChainExtended(file, g, r, count = Len(EncodeRecord(id, nextOffset)))
  BY <1>2, <1>3, <1>4, <1>5, ExtendedChain
<1>7. ASSUME NEW q \in acked PROVE q.offset < r.offset /\ \E i \in Nat : LastAt(file, q, i)
  <2>1. Held(file, dirty, policy, open, nextOffset, index, q)
    BY <1>1 DEF AckedInv
  <2>2. PICK i \in 1 .. Len(Starts(file)) : LastAt(file, q, i) /\ q.offset < nextOffset
    BY <2>1 DEF Held
  <2>3. i \in Nat
    OBVIOUS
  <2> QED
    BY <1>5, <2>2, <2>3
<1>8. PICK whole \in BOOLEAN : whole <=> count = Size(id)
  OBVIOUS
<1>9. ChainExtended(file, g, r, whole)
  BY <1>3, <1>6, <1>8 DEF ChainExtended
<1>10. WrittenRecords(file, g, r, whole, acked)
  BY <1>2, <1>7, <1>9, ExtendedRecords
<1>11. WrittenRecords(file, g, r, count = Size(id), acked)
  BY <1>8, <1>10 DEF WrittenRecords
<1> QED
  BY <1>1, <1>3, <1>5, <1>11

LEMMA LogWrites ==
  ASSUME SegmentInv, PairedInv, AckedInv, NEW id \in Ids, NEW count \in 1 .. Size(id),
         WriteAll(id, count), open, past \cup Overwrite \subseteq past', Unharmed',
         \/ open' /\ count = Size(id) /\ IndexRecord(id)
         \/ open' /\ count = Size(id) /\ UNCHANGED <<nextOffset, acked>>
         \/ ~open' /\ nextOffset' = 0 /\ UNCHANGED acked
  PROVE  Log!Next
<1>1. PICK r : r = [offset |-> nextOffset, id |-> id] /\ r = [id |-> id, offset |-> nextOffset]
  OBVIOUS
<1>2. Unharmed /\ WrittenRecords(file, file', r, count = Size(id), acked)
  BY <1>1, WrittenIs
<1>3. /\ Records(file') = Append(Records(file), r) \/ (Records(file') = Records(file) /\ count # Size(id))
      /\ LastOf(file', acked) = LastOf(file, acked)
      /\ count = Size(id) => LastOf(file', acked \cup {r}) = Len(Records(file'))
  BY <1>2 DEF WrittenRecords
<1>4. Confirmed = LastOf(file, acked) /\ Confirmed' = LastOf(file', acked')
  BY DEF Confirmed, LastOf
<1>5. file \in Seq(Cell)
  BY DEF SegmentInv
<1>6. CASE open' /\ count = Size(id) /\ IndexRecord(id)
  <2>1. acked' = acked \cup {r} /\ nextOffset' = nextOffset + 1
    BY <1>1, <1>6 DEF IndexRecord
  <2>2. Confirmed' = Len(Records(file'))
    BY <1>3, <1>4, <1>6, <2>1
  <2>3. Log!Append_(id)
    BY <1>1, <1>3, <1>6, <2>1, <2>2 DEF Log!Append_, Log!Written
  <2> QED
    BY <1>2, <2>3 DEF Log!Next
<1>7. CASE open' /\ count = Size(id) /\ UNCHANGED <<nextOffset, acked>>
  <2>1. Log!AppendUnconfirmed(id)
    BY <1>1, <1>3, <1>4, <1>7 DEF Log!AppendUnconfirmed, Log!Written
  <2> QED
    BY <1>2, <2>1 DEF Log!Next
<1>8. CASE ~open' /\ nextOffset' = 0 /\ UNCHANGED acked
  <2>1. Confirmed' = Confirmed
    BY <1>3, <1>4, <1>8
  <2>2. \/ \E n \in Confirmed .. Len(Records(file)) : Records(file') = SubSeq(Records(file), 1, n)
        \/ Records(file') = Append(Records(file), r)
    <3> SUFFICES ASSUME Records(file') = Records(file)
                 PROVE  \E n \in Confirmed .. Len(Records(file)) : Records(file') = SubSeq(Records(file), 1, n)
      BY <1>3
    <3>1. PICK s \in Seq(Record), m \in Nat : s = Records(file) /\ m = Len(s) /\ m = Len(Starts(file))
      BY <1>5, RecordsOf
    <3>2. SubSeq(s, 1, m) = s
      BY <3>1, SubSeqFull
    <3>3. Confirmed \in 0 .. m
      BY <1>4, <1>5, <3>1, LastOfIs
    <3>4. m \in Confirmed .. m
      BY <3>3
    <3> QED
      BY <3>1, <3>2, <3>4
  <2>3. Log!Close
    BY <1>1, <1>8, <2>1, <2>2 DEF Log!Close, Log!Written
  <2> QED
    BY <1>2, <2>3 DEF Log!Next
<1> QED
  BY <1>6, <1>7, <1>8

LEMMA LogPowerLoss ==
  ASSUME SegmentInv, PairedInv, AckedInv, OffsetInv, SegmentInv',
         NEW n \in 0 .. Len(file), PowerLoss(n), Unharmed'
  PROVE  Log!Next
<1>1. ~open' /\ nextOffset' = 0 /\ acked' = acked /\ n # 1
  BY DEF PowerLoss, LoseMemory
<1>2. Unharmed /\ (policy = "always" \/ dirty = {})
  BY DEF PowerLoss, Unharmed
<1>3. /\ Backed(file, disk, dirty) /\ Filed(file, disk, open, position)
      /\ Agree(file, disk) \/ LoneHeader(disk)
      /\ \A r \in acked : Held(file, dirty, policy, open, nextOffset, index, r)
  BY <1>2 DEF AckedInv, PairedInv, Sound
<1>4. PICK g \in Seq(Cell) : g = file'
  BY DEF SegmentInv
<1>5. /\ file \in Seq(Cell) /\ disk \in Seq(Cell) /\ acked \in SUBSET Record
  BY DEF SegmentInv
<1>6. Joined(file, disk, n, g)
  BY <1>3, <1>4, PowerLossJoins
<1>7. Confirmed = LastOf(file, acked) /\ Confirmed' = LastOf(g, acked)
  BY <1>1, <1>4 DEF Confirmed, LastOf
<1>8. Confirmed' = Confirmed
  <2>1. ASSUME NEW r \in acked PROVE \E i \in Nat : LastAt(file, r, i) /\ LastAt(g, r, i)
    <3>1. PICK i \in 1 .. Len(Starts(file)) :
             LastAt(file, r, i) /\ (policy = "always" => \A c \in dirty : EndAt(file, i) < c)
      BY <1>3, <2>1 DEF Held
    <3>2. \A c \in dirty : EndAt(file, i) < c
      BY <1>2, <3>1
    <3>3. LastAt(g, r, i)
      BY <1>3, <1>5, <1>6, <3>1, <3>2, JoinedLast
    <3>4. i \in Nat
      OBVIOUS
    <3> QED
      BY <3>1, <3>3, <3>4
  <2> QED
    BY <1>5, <1>7, <2>1, SameLastOf
<1>9. \/ Shortened(file, g)
      \/ Completed(file, g) /\ ~open /\ ~Agree(file, disk) /\ ~Decodes(disk, 0)
  BY <1>1, <1>3, <1>5, <1>6, JoinedRecords
<1>10. CASE Shortened(file, g)
  <2>1. PICK k \in Nat, m \in Nat :
           k = Len(Starts(g)) /\ m = Len(Starts(file)) /\ m = Len(Records(file))
    BY <1>5, RecordsOf
  <2>2. k <= m /\ Records(g) = SubSeq(Records(file), 1, k)
    BY <1>5, <1>10, <2>1, FirstRecords DEF Shortened
  <2>3. Confirmed \in 0 .. k
    BY <1>7, <1>8, <2>1, LastOfIs
  <2>4. k \in Confirmed .. Len(Records(file))
    BY <2>1, <2>2, <2>3
  <2>5. Log!Close
    BY <1>1, <1>4, <1>8, <2>2, <2>4 DEF Log!Close
  <2> QED
    BY <1>2, <2>5 DEF Log!Next
<1>11. CASE Completed(file, g) /\ ~open /\ ~Agree(file, disk) /\ ~Decodes(disk, 0)
  <2>1. PICK j \in 1 .. Len(file) :
           /\ file[j].part = "ids"
           /\ RecordAt(g, Len(Starts(file)) + 1) = [offset |-> file[j].offset, id |-> file[j].id]
    BY <1>11 DEF Completed
  <2>2. policy = "always"
    <3>1. dirty # {}
      BY <1>3, <1>11 DEF Backed, Agree
    <3> QED
      BY <1>2, <3>1
  <2>3. nextOffset = 0 /\ file[j].offset = 0
    BY <1>2, <1>11, <2>1, <2>2 DEF OffsetInv, AllFirst
  <2>4. PICK id \in Ids : id = file[j].id
    <3>1. file[j] \in Cell
      BY <1>5
    <3> QED
      BY <2>1, <3>1, CellKinds
  <2>5. RecordAt(g, Len(Starts(file)) + 1) = [id |-> id, offset |-> nextOffset]
    BY <2>1, <2>3, <2>4
  <2>6. Records(g) = Append(Records(file), [id |-> id, offset |-> nextOffset])
    BY <1>5, <1>11, <2>5, OneMoreRecord DEF Completed
  <2>7. Log!Close
    BY <1>1, <1>4, <1>8, <2>6 DEF Log!Close, Log!Written
  <2> QED
    BY <1>2, <2>7 DEF Log!Next
<1> QED
  BY <1>9, <1>10, <1>11

LEMMA LogNext ==
  SegmentInv /\ PairedInv /\ AckedInv /\ OffsetInv /\ [Next]_vars => [Log!Next]_logView
<1> SUFFICES ASSUME SegmentInv, PairedInv, AckedInv, OffsetInv, [Next]_vars
             PROVE  Log!Next \/ UNCHANGED logView
  OBVIOUS
<1>1. /\ file \in Seq(Cell) /\ Len(file) \in Nat /\ nextOffset \in Nat /\ acked \in SUBSET Record
  BY DEF SegmentInv
<1>2. ASSUME NEW id \in Ids PROVE Size(id) \in 1 .. Size(id) /\ Size(id) \in Nat
  <2>1. PICK n \in Nat : n = Len(Body[id]) /\ Size(id) = 2 + n
    BY <1>1, Encoded DEF Size, Cells
  <2> QED
    BY <2>1
<1>3. ~Unharmed' => Log!Next
  BY DEF Log!Next
<1>4. CASE OpenAndRecover
  <2> SUFFICES ASSUME Unharmed' PROVE Log!Next
    BY <1>3
  <2>1. /\ open' /\ ~open /\ nextOffset' = RecoveredNext(file) /\ acked' = acked /\ Unharmed
    BY <1>4 DEF OpenAndRecover, Unharmed
  <2>2. PICK g : g = file' /\ g = SubSeq(file, 1, RecoveredEnd(file))
    BY <1>4 DEF OpenAndRecover
  <2>3. RecoveredChain(file, g) /\ g \in Seq(Cell)
    BY <1>1, <2>2, CutChain
  <2>4. /\ Len(Starts(file)) \in Nat /\ Len(Starts(g)) = Len(Starts(file))
        /\ \A i \in 1 .. Len(Starts(file)) : RecordAt(g, i) = RecordAt(file, i)
    BY <2>3 DEF RecoveredChain, SameAt
  <2>5. PICK s \in Seq(Record), t \in Seq(Record) :
           /\ s = Records(file) /\ t = Records(g) /\ Len(s) = Len(t)
           /\ \A i \in 1 .. Len(s) : s[i] = t[i]
    BY <1>1, <2>3, <2>4, RecordsOf
  <2>6. Records(file') = Records(file)
    BY <2>2, <2>5, SeqEqual
  <2>7. Confirmed' = Confirmed
    BY <2>1, <2>6 DEF Confirmed
  <2>8. Log!Reopen
    BY <2>1, <2>6, <2>7 DEF Log!Reopen, Log!NextOffset, RecoveredNext
  <2> QED
    BY <2>1, <2>8 DEF Log!Next
<1>5. CASE Crash
  <2> SUFFICES ASSUME Unharmed' PROVE Log!Next
    BY <1>3
  <2>1. UNCHANGED <<file, acked>> /\ ~open' /\ nextOffset' = 0 /\ Unharmed
    BY <1>5 DEF Crash, LoseMemory, Unharmed
  <2>2. Confirmed' = Confirmed /\ Confirmed = LastOf(file, acked)
    BY <2>1 DEF Confirmed, LastOf
  <2>3. PICK s \in Seq(Record), m \in Nat : s = Records(file) /\ m = Len(s) /\ m = Len(Starts(file))
    BY <1>1, RecordsOf
  <2>4. SubSeq(s, 1, m) = s
    BY <2>3, SubSeqFull
  <2>5. Confirmed \in 0 .. m
    BY <1>1, <2>2, <2>3, LastOfIs
  <2>6. m \in Confirmed .. m
    BY <2>5
  <2>7. Log!Close
    BY <2>1, <2>2, <2>3, <2>4, <2>6 DEF Log!Close
  <2> QED
    BY <2>1, <2>7 DEF Log!Next
<1>6. ASSUME NEW n \in 0 .. Len(file), PowerLoss(n) PROVE Log!Next
  <2>1. SegmentInv'
    BY SegmentInvNext
  <2> QED
    BY <1>3, <1>6, <2>1, LogPowerLoss
<1>7. ASSUME NEW id \in Ids, AppendRecord(id) PROVE Log!Next
  <2>1. /\ WriteAll(id, Size(id)) /\ open /\ open' = open /\ past \cup Overwrite \subseteq past'
        /\ IndexRecord(id)
    BY <1>7 DEF AppendRecord, Admits
  <2> QED
    BY <1>2, <1>3, <2>1, LogWrites
<1>8. ASSUME NEW id \in Ids, NEW fault \in {"fsync_file", "fsync_eio"}, AppendNotSynced(id, fault)
      PROVE  Log!Next
  <2>1. /\ WriteAll(id, Size(id)) /\ open /\ open' = open /\ past \cup Overwrite \subseteq past'
        /\ UNCHANGED <<nextOffset, acked>>
    BY <1>8 DEF AppendNotSynced, Admits
  <2> QED
    BY <1>2, <1>3, <2>1, LogWrites
<1>9. ASSUME NEW id \in Ids, NEW count \in 1 .. Size(id), AppendShort(id, count)
      PROVE  Log!Next
  <2>1. ~Unharmed'
    BY <1>9 DEF AppendShort, Unharmed
  <2> QED
    BY <1>3, <2>1
<1>10. ASSUME NEW id \in Ids, NEW count \in 1 .. Size(id), CrashInAppend(id, count)
       PROVE  Log!Next
  <2>1. /\ WriteAll(id, count) /\ open /\ past \cup Overwrite \subseteq past'
        /\ ~open' /\ nextOffset' = 0 /\ UNCHANGED acked
    BY <1>10 DEF CrashInAppend, LoseMemory, Admits
  <2> QED
    BY <1>3, <2>1, LogWrites
<1>11. CASE UNCHANGED vars
  BY <1>11 DEF vars, memory, logView, Confirmed, Unharmed
<1>12. CASE OpenUncut \/ LoseFile
  <2>1. ~Unharmed'
    BY <1>12 DEF OpenUncut, LoseFile, Unharmed
  <2> QED
    BY <1>3, <2>1
<1> QED
  BY <1>4, <1>5, <1>6, <1>7, <1>8, <1>9, <1>10, <1>11, <1>12 DEF Next

\* Unharmed, the segment is the log of whole records that QueueEngine takes it
\* to be: an append puts one record behind the others, a reopen gives back the
\* same records, and the end of a process or of the machine loses none that
\* was confirmed.  For any records, limits, faults and number of restarts.
THEOREM SegmentIsLog ==
  Spec => LogSpec
<1>1. Init => Log!Init
  <2> SUFFICES ASSUME Init PROVE Log!Init
    OBVIOUS
  <2>1. file = <<>> /\ acked = {} /\ nextOffset = 0 /\ ~open /\ past = {}
    BY DEF Init
  <2>2. file \in Seq(Cell) /\ Len(file) = 0
    BY <2>1
  <2>3. ~Decodes(file, 0)
    BY <2>2 DEF Decodes, HeaderAt
  <2>4. RecoveredEnd(file) = 0 /\ Chain(file)
    BY <2>2, <2>3, RecoveredFirst, StartsChain
  <2>5. PICK m \in Nat : m = Len(Starts(file))
    BY <2>4 DEF Chain
  <2>6. m = 0
    <3> SUFFICES ASSUME m # 0 PROVE FALSE
      OBVIOUS
    <3>1. m \in 1 .. m
      OBVIOUS
    <3>2. Starts(file)[m] \in Nat /\ EndAt(file, m) \in Nat /\ Starts(file)[m] < EndAt(file, m)
          /\ EndAt(file, m) <= RecoveredEnd(file)
      BY <2>4, <2>5, <3>1 DEF Chain
    <3> QED
      BY <2>4, <3>2
  <2>7. Records(file) \in Seq(Record) /\ Len(Records(file)) = 0
    BY <2>2, <2>5, <2>6, RecordsOf
  <2>8. Records(file) = <<>>
    BY <2>7, EmptySeq
  <2>9. Confirmed = 0
    BY <2>1 DEF Confirmed
  <2>10. Unharmed
    BY <2>1 DEF Unharmed
  <2> QED
    BY <2>1, <2>8, <2>9, <2>10 DEF Log!Init
<1>2. Spec => [](SegmentInv /\ PairedInv /\ AckedInv /\ OffsetInv)
  BY SegmentInvInit, SegmentInvNext, PairedInvInit, PairedInvNext, AckedInvInit, AckedInvNext,
     OffsetInvInit, OffsetInvNext, PTL DEF Spec
<1> QED
  BY <1>1, <1>2, LogNext, PTL DEF Spec, LogSpec, Log!Spec, Log!logVars, logView
=============================================================================
