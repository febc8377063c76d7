------------------------- MODULE GroupFiles_proofs --------------------------
(***************************************************************************)
(* Proofs about the files of a group (GroupFiles), for every policy, set   *)
(* of faults and bound: what a crash, a failed call and a power loss leave *)
(* is a whole snapshot and, while nothing follows an event cut short, a    *)
(* group that fails to load or is up to date.                              *)
(*                                                                         *)
(* The invariant has three parts: the snapshot on its way to its name      *)
(* (FileInv), the numbers in it (SeqInv), and the events file, described   *)
(* by its sound prefix instead of by LoadTransitions' reading of it        *)
(* (EventsInv).                                                            *)
(***************************************************************************)
EXTENDS GroupFiles, FiniteSetTheorems, SequenceTheorems, WellFoundedInduction, TLAPS

\* A snapshot as PersistGroupState writes it.
Good == {s \in [next: 1 .. MaxSequence + 1, state: 0 .. MaxSequence] : s.state < s.next}

Piece == [part: {"sequence", "rest", "fragment"}, of: 0 .. MaxSequence]

\* The types, with the bounds that make the loaded numbers well defined.
Types ==
    /\ policy \in Policies
    /\ events \in Seq(Piece)
    /\ tmp \in {NoTmp, Torn} \cup Good
    /\ final \in {Torn} \cup Good
    /\ onDisk \subseteq {Torn} \cup Good
    /\ tmpSynced \in BOOLEAN /\ finalSynced \in BOOLEAN
    /\ pc \in {"down", "failed", "idle", "persist", "write", "sync", "rename", "syncdir"}
    /\ state \in Nat /\ nextSeq \in 1 .. MaxSequence + 1 /\ state < nextSeq
    /\ confirmed \in Nat /\ applied \in Nat

\* The steps of DurableWriteFile: a file is renamed once it has been written
\* and, if syncs are asked for, synced.
FileInv ==
    /\ pc \in {"sync", "rename"} => tmp = Current
    /\ pc \in {"sync", "syncdir"} => policy # "never"
    /\ policy # "never" =>
          /\ Torn \notin onDisk /\ final \in onDisk
          /\ pc = "rename" => tmpSynced
          /\ pc = "syncdir" => finalSynced /\ final = Current
    /\ "power_loss" \notin past => final # Torn

\* Every snapshot a power loss may leave is past the confirmed sequence.
SeqInv ==
    policy # "never" =>
        /\ \A s \in onDisk : confirmed < s.next
        /\ pc \notin {"down", "failed"} => confirmed < nextSeq

\* The first n events of the file are whole, and all there is but for a
\* part of a sequence.
Sound(f, n) ==
    /\ \A i \in 1 .. n : Whole(f, i)
    /\ \/ Len(f) = 2 * n
       \/ Len(f) = 2 * n + 1 /\ f[2 * n + 1] = Fragment

\* A sound file ends in a transition no older than the last one applied.
EventsInv ==
    /\ "power_loss" \notin past =>
          /\ \A n \in Nat : Sound(events, n) =>
                IF n = 0 THEN applied = 0 ELSE applied <= events[2 * n].of
          /\ pc \notin {"down", "failed"} /\ (\E n \in Nat : Sound(events, n)) =>
                applied < nextSeq
    /\ past = {} => \E n \in Nat : Sound(events, n) /\ Len(events) = 2 * n

Inv == Types /\ FileInv /\ SeqInv /\ EventsInv
-----------------------------------------------------------------------------
(* LoadTransitions: a file loads when it is sound, and yields the sequences *)
(* of its events.                                                          *)

LEMMA LeastNat ==
  ASSUME NEW S \in SUBSET Nat, S # {}
  PROVE  \E m \in S : \A y \in S : m <= y
<1>1. PICK m \in S : \A y \in S : ~ (<<y, m>> \in OpToRel(<, Nat))
  BY NatLessThanWellFounded, WFMin
<1>2. ASSUME NEW y \in S PROVE m <= y
  <2>1. ~(y < m) /\ y \in Nat /\ m \in Nat
    BY <1>1 DEF OpToRel
  <2> QED
    BY <2>1
<1> QED
  BY <1>2

LEMMA WholePrefix ==
  ASSUME NEW f \in Seq(Piece)
  PROVE  /\ WholeEvents(f) \in Nat
         /\ \A j \in 1 .. WholeEvents(f) : Whole(f, j)
         /\ ~Whole(f, WholeEvents(f) + 1)
<1> DEFINE bad == {i \in Nat \ {0} : ~Whole(f, i)}
           S == {i \in 1 .. Len(f) : \A j \in 1 .. i : Whole(f, j)}
<1>1. Len(f) \in Nat /\ Len(f) + 1 \in bad
  BY DEF Whole
<1>2. PICK b \in bad : \A y \in bad : b <= y
  <2>1. bad \in SUBSET Nat /\ bad # {}
    BY <1>1
  <2> HIDE DEF bad
  <2> QED
    BY <2>1, LeastNat
<1>3. \A j \in 1 .. b - 1 : Whole(f, j)
  BY <1>2
<1>4. b <= Len(f) + 1
  BY <1>1, <1>2
<1>5. S = 1 .. b - 1
  BY <1>1, <1>2, <1>3, <1>4
<1>6. Cardinality(1 .. b - 1) = b - 1
  BY <1>2, FS_Interval
<1>7. WholeEvents(f) = b - 1
  BY <1>5, <1>6 DEF WholeEvents
<1> QED
  BY <1>2, <1>3, <1>7

LEMMA SoundCount ==
  ASSUME NEW f \in Seq(Piece), NEW n \in Nat, Sound(f, n)
  PROVE  WholeEvents(f) = n
<1>1. \A i \in 1 .. n : Whole(f, i)
  BY DEF Sound
<1>2. ~Whole(f, n + 1)
  BY DEF Sound, Whole
<1>3. PICK m \in Nat : m = WholeEvents(f)
  BY WholePrefix
<1>4. (\A j \in 1 .. m : Whole(f, j)) /\ ~Whole(f, m + 1)
  BY <1>3, WholePrefix
<1>5. ~(m < n) /\ ~(n < m)
  BY <1>1, <1>2, <1>4
<1> QED
  BY <1>3, <1>5

\* What is left after n events.
LEMMA Remainder ==
  ASSUME NEW f \in Seq(Piece), NEW n \in Nat, 2 * n <= Len(f)
  PROVE  /\ SubSeq(f, 2 * n + 1, Len(f)) \in Seq(Piece)
         /\ Len(SubSeq(f, 2 * n + 1, Len(f))) = Len(f) - 2 * n
         /\ 2 * n < Len(f) => SubSeq(f, 2 * n + 1, Len(f))[1] = f[2 * n + 1]
<1>1. Len(f) \in Nat /\ \A i \in 2 * n + 1 .. Len(f) : f[i] \in Piece
  OBVIOUS
<1>2. PICK a \in Int, b \in Int : a = 2 * n + 1 /\ b = Len(f)
  BY <1>1
<1>3. /\ SubSeq(f, a, b) \in Seq(Piece)
      /\ Len(SubSeq(f, a, b)) = IF a <= b THEN b - a + 1 ELSE 0
      /\ \A i \in 1 .. b - a + 1 : SubSeq(f, a, b)[i] = f[a + i - 1]
  BY <1>1, <1>2, SubSeqProperties
<1>r. PICK r \in Seq(Piece) :
         /\ r = SubSeq(f, a, b)
         /\ Len(r) = IF a <= b THEN b - a + 1 ELSE 0
         /\ \A i \in 1 .. b - a + 1 : r[i] = f[a + i - 1]
  BY <1>3, Zenon
<1>4. 2 * n < Len(f) => r[1] = f[2 * n + 1]
  BY <1>1, <1>2, <1>r
<1>5. Len(r) = Len(f) - 2 * n
  <2>1. Len(r) = IF a <= b THEN b - a + 1 ELSE 0
    BY <1>r, Zenon
  <2>2. 2 * n <= Len(f) /\ a = 2 * n + 1 /\ b = Len(f)
    BY <1>2
  <2>3. a <= b => Len(r) = b - a + 1
    BY <2>1
  <2>4. ~(a <= b) => Len(r) = 0
    BY <2>1
  <2> QED
    BY <1>1, <2>2, <2>3, <2>4
<1>6. r = SubSeq(f, 2 * n + 1, Len(f))
  BY <1>2, <1>r, Zenon
<1> QED
  BY <1>4, <1>5, <1>6, Zenon

\* A sequence of at most one piece.
LEMMA ShortSeq ==
  ASSUME NEW r \in Seq(Piece)
  PROVE  /\ r = <<>> <=> Len(r) = 0
         /\ \A x \in Piece : r = <<x>> <=> Len(r) = 1 /\ r[1] = x
<1>1. r = <<>> <=> Len(r) = 0
  BY EmptySeq
<1>2. ASSUME NEW x \in Piece, Len(r) = 1, r[1] = x PROVE r = <<x>>
  <2>1. <<x>> \in Seq(Piece) /\ Len(<<x>>) = 1 /\ <<x>>[1] = x
    OBVIOUS
  <2>2. \A i \in 1 .. Len(r) : r[i] = <<x>>[i]
    BY <1>2, <2>1
  <2>3. Len(r) = Len(<<x>>)
    BY <1>2, <2>1
  <2> QED
    BY <2>1, <2>2, <2>3, SeqEqual
<1> QED
  BY <1>1, <1>2

LEMMA FragmentIsPiece == Fragment \in Piece
BY BoundsAssumption DEF Fragment, Piece

\* A sound file loads, with one sequence for each event.
LEMMA SoundLoads ==
  ASSUME NEW f \in Seq(Piece), NEW n \in Nat, Sound(f, n)
  PROVE  LoadTransitions(f) = {Read([i \in 1 .. n |-> f[2 * i].of])}
<1>1. WholeEvents(f) = n
  BY SoundCount
<1>2. 2 * n <= Len(f)
  BY DEF Sound
<1>3. PICK r \in Seq(Piece) :
         /\ r = SubSeq(f, 2 * n + 1, Len(f)) /\ Len(r) = Len(f) - 2 * n
         /\ 2 * n < Len(f) => r[1] = f[2 * n + 1]
  BY <1>2, Remainder
<1>4. Len(r) = 0 \/ (Len(r) = 1 /\ r[1] = Fragment)
  <2>1. /\ Len(r) = Len(f) - 2 * n
        /\ 2 * n < Len(f) => r[1] = f[2 * n + 1]
    BY <1>3
  <2>2. Len(f) \in Nat
    OBVIOUS
  <2>3. CASE Len(f) = 2 * n
    BY <2>1, <2>3
  <2>4. CASE Len(f) = 2 * n + 1 /\ f[2 * n + 1] = Fragment
    <3>1. 2 * n < Len(f) /\ Len(f) - 2 * n = 1
      BY <2>4
    <3> QED
      BY <2>1, <2>4, <3>1
  <2> QED
    BY <2>3, <2>4 DEF Sound
<1>5. r \in {<<>>, <<Fragment>>}
  BY <1>4, ShortSeq, FragmentIsPiece, Zenon
<1> QED
  BY <1>1, <1>3, <1>5, Zenon DEF LoadTransitions

\* Where every event is read in step, only a sound file loads.
LEMMA LoadsSound ==
  ASSUME NEW f \in Seq(Piece), InStep(f), NEW t \in LoadTransitions(f), t.ok
  PROVE  Sound(f, WholeEvents(f))
<1>1. PICK m \in Nat : m = WholeEvents(f)
  BY WholePrefix
<1>2. (\A j \in 1 .. m : Whole(f, j)) /\ ~Whole(f, m + 1)
  BY <1>1, WholePrefix
<1>3. 2 * m <= Len(f)
  BY <1>2 DEF Whole
<1>4. PICK r \in Seq(Piece) :
         /\ r = SubSeq(f, 2 * m + 1, Len(f)) /\ Len(r) = Len(f) - 2 * m
         /\ 2 * m < Len(f) => r[1] = f[2 * m + 1]
  BY <1>3, Remainder
<1>5. r \in {<<>>, <<Fragment>>}
  <2>1. SUFFICES ASSUME r \notin {<<>>, <<Fragment>>} PROVE FALSE
    OBVIOUS
  <2>2. t \in {FailedRead}
    BY <1>1, <1>4, <2>1, Zenon DEF LoadTransitions
  <2> QED
    BY <2>2 DEF FailedRead
<1>6. \/ Len(f) = 2 * m
      \/ Len(f) = 2 * m + 1 /\ f[2 * m + 1] = Fragment
  <2>1. Len(r) = 0 \/ (Len(r) = 1 /\ r[1] = Fragment)
    BY <1>5, ShortSeq, FragmentIsPiece, Zenon
  <2>2. /\ Len(r) = Len(f) - 2 * m
        /\ 2 * m < Len(f) => r[1] = f[2 * m + 1]
    BY <1>4
  <2> QED
    BY <1>3, <2>1, <2>2
<1> QED
  BY <1>1, <1>2, <1>6 DEF Sound

-----------------------------------------------------------------------------
(* LoadGroupState's numbers.                                               *)

LEMMA MaxOfBounded ==
  ASSUME NEW S \in SUBSET Nat, S # {}, NEW b \in Nat, \A x \in S : x <= b
  PROVE  Max(S) \in S /\ \A x \in S : x <= Max(S)
<1> DEFINE U == {u \in Nat : \A x \in S : x <= u}
<1>1. U \in SUBSET Nat /\ U # {}
  OBVIOUS
<1>2. PICK m \in U : \A u \in U : m <= u
  BY <1>1, LeastNat
<1>3. m \in Nat /\ \A x \in S : x <= m
  BY <1>2
<1>4. m \in S
  <2>1. SUFFICES ASSUME m \notin S PROVE FALSE
    OBVIOUS
  <2>2. \A x \in S : x \in Nat /\ x < m
    BY <1>3, <2>1
  <2>x. PICK z \in S : z \in Nat /\ z < m
    BY <2>2
  <2>3. m - 1 \in Nat /\ \A x \in S : x <= m - 1
    BY <1>3, <2>2, <2>x
  <2>4. m - 1 \in U
    BY <2>3
  <2> QED
    BY <1>2, <1>3, <2>4
<1> HIDE DEF U
<1> QED
  BY <1>3, <1>4 DEF Max

\* Whatever is read, the sequences are ones that were given out.
LEMMA LoadedSequences ==
  ASSUME NEW f \in Seq(Piece), NEW t \in LoadTransitions(f)
  PROVE  t.sequences \in Seq(0 .. MaxSequence)
<1> DEFINE n == WholeEvents(f)
           first == [i \in 1 .. n |-> f[2 * i].of]
<1>1. n \in Nat /\ \A i \in 1 .. n : Whole(f, i)
  BY WholePrefix
<1>2. \A i \in 1 .. n : f[2 * i].of \in 0 .. MaxSequence
  <2>1. SUFFICES ASSUME NEW i \in 1 .. n PROVE f[2 * i].of \in 0 .. MaxSequence
    OBVIOUS
  <2>2. PICK m \in Nat : m = i /\ 2 * m <= Len(f) /\ m >= 1
    <3> HIDE DEF n
    <3> QED
      BY <1>1 DEF Whole
  <2>3. f[2 * m] \in Piece
    BY <2>2
  <2> QED
    BY <2>2, <2>3 DEF Piece
<1>3. first \in Seq(0 .. MaxSequence)
  <2> HIDE DEF n
  <2> QED
    BY <1>1, <1>2
<1>4. ASSUME NEW i \in 1 .. Len(f) PROVE f[i].of \in 0 .. MaxSequence
  <2>1. f[i] \in Piece
    BY <1>4
  <2> QED
    BY <2>1 DEF Piece
<1>5. \/ t = FailedRead \/ t = Read(first)
      \/ \E i \in 2 * n + 3 .. Len(f) : t = Read(Append(first, f[i].of))
  BY Zenon DEF LoadTransitions
<1>6. ASSUME NEW i \in 2 * n + 3 .. Len(f) PROVE f[i].of \in 0 .. MaxSequence
  <2>1. Len(f) \in Nat
    OBVIOUS
  <2>2. i \in 1 .. Len(f)
    <3> HIDE DEF n
    <3> QED
      BY <1>1, <2>1
  <2> QED
    BY <1>4, <2>2
<1> HIDE DEF n, first
<1>7. \A i \in 2 * n + 3 .. Len(f) : Append(first, f[i].of) \in Seq(0 .. MaxSequence)
  BY <1>3, <1>6
<1>8. \A q : Read(q).sequences = q
  BY DEF Read
<1>9. CASE t = FailedRead
  BY <1>9 DEF FailedRead
<1>10. CASE t = Read(first)
  BY <1>3, <1>8, <1>10
<1>11. ASSUME NEW i \in 2 * n + 3 .. Len(f), t = Read(Append(first, f[i].of))
       PROVE  t.sequences \in Seq(0 .. MaxSequence)
  BY <1>7, <1>8, <1>11
<1> QED
  BY <1>5, <1>9, <1>10, <1>11

\* What such sequences and a snapshot load to.
LEMMA LoadedNumbers ==
  ASSUME NEW q \in Seq(0 .. MaxSequence), NEW s \in Good
  PROVE  /\ LoadedNext(s, q) \in 1 .. MaxSequence + 1
         /\ s.next <= LoadedNext(s, q)
         /\ LoadedState(s, q) = IF Len(q) = 0 THEN s.state ELSE q[Len(q)]
         /\ LoadedState(s, q) \in Nat /\ LoadedState(s, q) < LoadedNext(s, q)
<1> DEFINE S == {s.next} \cup {q[i] + 1 : i \in DOMAIN q}
<1>3. \A i \in DOMAIN q : q[i] \in 0 .. MaxSequence
  <2>1. ASSUME NEW T, NEW p \in Seq(T) PROVE \A i \in DOMAIN p : p[i] \in T
    OBVIOUS
  <2> QED
    BY <2>1, Zenon
<1>4. s.next \in 1 .. MaxSequence + 1 /\ s.state \in 0 .. MaxSequence /\ s.state < s.next
  BY DEF Good
<1>5. S \subseteq 1 .. MaxSequence + 1 /\ s.next \in S
  BY <1>3, <1>4, BoundsAssumption
<1>6. Max(S) \in S /\ \A x \in S : x <= Max(S)
  <2>1. S \in SUBSET Nat /\ S # {} /\ MaxSequence + 1 \in Nat /\ \A x \in S : x <= MaxSequence + 1
    <3> HIDE DEF S
    <3> QED
      BY <1>5, BoundsAssumption
  <2> HIDE DEF S
  <2> QED
    BY <2>1, MaxOfBounded
<1>7. LoadedNext(s, q) = Max(S)
  BY DEF LoadedNext
<1>8. LoadedNext(s, q) \in 1 .. MaxSequence + 1 /\ s.next <= LoadedNext(s, q)
  <2> HIDE DEF S
  <2> QED
    BY <1>5, <1>6, <1>7
<1>9. CASE Len(q) = 0
  <2>1. q = <<>>
    BY <1>9, EmptySeq
  <2>2. LoadedState(s, q) = s.state
    BY <2>1 DEF LoadedState
  <2>3. LoadedState(s, q) \in Nat /\ LoadedState(s, q) < LoadedNext(s, q)
    BY <2>2, <1>4, <1>8, BoundsAssumption
  <2> QED
    BY <2>2, <2>3, <1>8, <1>9
<1>10. CASE Len(q) # 0
  <2>1. Len(q) \in DOMAIN q /\ q # <<>>
    BY <1>10
  <2>3. LoadedState(s, q) = q[Len(q)]
    BY <2>1 DEF LoadedState
  <2>4. q[Len(q)] + 1 \in S /\ q[Len(q)] \in 0 .. MaxSequence
    BY <1>3, <2>1
  <2>5. q[Len(q)] + 1 <= LoadedNext(s, q)
    <3> HIDE DEF S
    <3> QED
      BY <1>6, <1>7, <2>4
  <2>6. LoadedState(s, q) \in Nat /\ LoadedState(s, q) < LoadedNext(s, q)
    BY <2>3, <2>4, <2>5, <1>8, BoundsAssumption
  <2> QED
    BY <2>3, <2>6, <1>8, <1>10
<1> QED
  BY <1>9, <1>10

\* A sound file loads to its last event.
LEMMA SoundState ==
  ASSUME NEW f \in Seq(Piece), NEW n \in Nat, Sound(f, n), NEW s \in Good,
         NEW t \in LoadTransitions(f)
  PROVE  t.ok /\ LoadedState(s, t.sequences) = IF n = 0 THEN s.state ELSE f[2 * n].of
<1>1. t = Read([i \in 1 .. n |-> f[2 * i].of])
  BY SoundLoads
<1>2. PICK q \in Seq(0 .. MaxSequence) : q = t.sequences
  BY LoadedSequences
<1>3. q = [i \in 1 .. n |-> f[2 * i].of] /\ t.ok
  BY <1>1, <1>2 DEF Read
<1>4. Len(q) = n /\ (n # 0 => q[n] = f[2 * n].of)
  BY <1>3
<1>5. LoadedState(s, q) = IF Len(q) = 0 THEN s.state ELSE q[Len(q)]
  BY LoadedNumbers
<1> QED
  BY <1>2, <1>3, <1>4, <1>5

-----------------------------------------------------------------------------
(* Appends: what a sound file may grow into.                               *)

LEMMA PiecesType ==
  ASSUME NEW k \in 1 .. MaxSequence
  PROVE  /\ Pieces(k) \in Seq(Piece) /\ Len(Pieces(k)) = 2
         /\ Pieces(k)[1] = [part |-> "sequence", of |-> k]
         /\ Pieces(k)[2] = [part |-> "rest", of |-> k]
         /\ Pieces(k)[1] \in Piece
BY BoundsAssumption DEF Pieces, Piece

\* A piece added to a file, as SMT sees it.
LEMMA AddOne ==
  ASSUME NEW f \in Seq(Piece), NEW x \in Piece
  PROVE  /\ f \o <<x>> \in Seq(Piece) /\ Len(f \o <<x>>) = Len(f) + 1
         /\ \A i \in 1 .. Len(f) : (f \o <<x>>)[i] = f[i]
         /\ (f \o <<x>>)[Len(f) + 1] = x
OBVIOUS

LEMMA SoundFragment ==
  ASSUME NEW f \in Seq(Piece), NEW n \in Nat, Sound(f \o <<Fragment>>, n)
  PROVE  Sound(f, n) /\ \A i \in 1 .. 2 * n : (f \o <<Fragment>>)[i] = f[i]
<1>1. PICK g \in Seq(Piece) : g = f \o <<Fragment>>
  BY AddOne, FragmentIsPiece
<1>2. /\ Len(g) = Len(f) + 1 /\ g[Len(f) + 1] = Fragment
      /\ \A i \in 1 .. Len(f) : g[i] = f[i]
  BY <1>1, AddOne, FragmentIsPiece
<1>3. Sound(g, n) /\ Len(f) \in Nat
  BY <1>1
<1>4. Len(g) # 2 * n
  <2>1. SUFFICES ASSUME Len(g) = 2 * n PROVE FALSE
    OBVIOUS
  <2>2. n \in 1 .. n /\ Whole(g, n)
    BY <1>2, <1>3, <2>1 DEF Sound
  <2>3. g[2 * n].part = "rest" /\ g[2 * n] = Fragment
    BY <1>2, <2>1, <2>2 DEF Whole
  <2> QED
    BY <2>3 DEF Fragment
<1>5. Len(f) = 2 * n
  BY <1>2, <1>3, <1>4 DEF Sound
<1>6. \A i \in 1 .. n : Whole(f, i)
  BY <1>2, <1>3, <1>5 DEF Sound, Whole
<1> QED
  BY <1>1, <1>2, <1>5, <1>6 DEF Sound

\* An event cut after its sequence never loads again.
LEMMA SoundSequence ==
  ASSUME NEW f \in Seq(Piece), NEW k \in 1 .. MaxSequence, NEW n \in Nat
  PROVE  ~Sound(f \o <<Pieces(k)[1]>>, n)
<1>1. PICK g \in Seq(Piece) : g = f \o <<Pieces(k)[1]>>
  BY AddOne, PiecesType
<1>2. Len(g) = Len(f) + 1 /\ g[Len(f) + 1] = [part |-> "sequence", of |-> k]
  BY <1>1, AddOne, PiecesType
<1>3. SUFFICES ASSUME Sound(g, n) PROVE FALSE
  BY <1>1
<1>4. CASE Len(g) = 2 * n
  <2>1. n \in 1 .. n /\ Whole(g, n)
    BY <1>2, <1>3, <1>4 DEF Sound
  <2>2. g[2 * n].part = "rest" /\ g[2 * n].part = "sequence"
    BY <1>2, <1>4, <2>1 DEF Whole
  <2> QED
    BY <2>2
<1>5. CASE Len(g) = 2 * n + 1 /\ g[2 * n + 1] = Fragment
  BY <1>2, <1>5 DEF Fragment
<1> QED
  BY <1>3, <1>4, <1>5 DEF Sound

\* A whole event at the end of the file.
LEMMA AddEvent ==
  ASSUME NEW f \in Seq(Piece), NEW k \in 1 .. MaxSequence
  PROVE  /\ f \o Pieces(k) \in Seq(Piece) /\ Len(f \o Pieces(k)) = Len(f) + 2
         /\ \A i \in 1 .. Len(f) : (f \o Pieces(k))[i] = f[i]
         /\ (f \o Pieces(k))[Len(f) + 1] = [part |-> "sequence", of |-> k]
         /\ (f \o Pieces(k))[Len(f) + 2] = [part |-> "rest", of |-> k]
<1>1. PICK p \in Seq(Piece) :
         /\ p = Pieces(k) /\ Len(p) = 2
         /\ p[1] = [part |-> "sequence", of |-> k] /\ p[2] = [part |-> "rest", of |-> k]
  BY PiecesType
<1>2. /\ f \o p \in Seq(Piece) /\ Len(f \o p) = Len(f) + 2
      /\ \A i \in 1 .. Len(f) + 2 :
            (f \o p)[i] = IF i <= Len(f) THEN f[i] ELSE p[i - Len(f)]
  <2>1. /\ f \o p \in Seq(Piece) /\ Len(f \o p) = Len(f) + Len(p)
        /\ \A i \in 1 .. Len(f) + Len(p) :
              (f \o p)[i] = IF i <= Len(f) THEN f[i] ELSE p[i - Len(f)]
    BY ConcatProperties
  <2>2. Len(p) = 2
    BY <1>1
  <2> QED
    BY <2>1, <2>2, Zenon
<1>3. (f \o p)[Len(f) + 1] = p[1] /\ (f \o p)[Len(f) + 2] = p[2]
  BY <1>2
<1> QED
  BY <1>1, <1>2, <1>3

LEMMA SoundEvent ==
  ASSUME NEW f \in Seq(Piece), NEW k \in 1 .. MaxSequence, NEW n \in Nat,
         Sound(f \o Pieces(k), n)
  PROVE  /\ n # 0 /\ (f \o Pieces(k))[2 * n].of = k
         /\ n - 1 \in Nat /\ Sound(f, n - 1)
<1>1. PICK g \in Seq(Piece) : g = f \o Pieces(k)
  BY AddEvent
<1>2. /\ Len(g) = Len(f) + 2
      /\ g[Len(f) + 2] = [part |-> "rest", of |-> k]
  BY <1>1, AddEvent
<1>3. Sound(g, n) /\ Len(f) \in Nat
  BY <1>1
<1>4. ~(Len(g) = 2 * n + 1 /\ g[2 * n + 1] = Fragment)
  BY <1>2 DEF Fragment
<1>5. Len(g) = 2 * n
  BY <1>3, <1>4 DEF Sound
<1>6. Len(f) + 2 = 2 * n
  BY <1>2, <1>5
<1>7. g[2 * n].of = k
  BY <1>2, <1>6
<1>8. n # 0 /\ n - 1 \in Nat /\ Len(f) = 2 * (n - 1)
  BY <1>3, <1>6
<1>9. \A i \in 1 .. n - 1 : Whole(f, i)
  <2>1. SUFFICES ASSUME NEW i \in 1 .. n - 1 PROVE Whole(f, i)
    OBVIOUS
  <2>2. Whole(g, i)
    BY <1>3, <1>8 DEF Sound
  <2>3. 2 * i <= Len(f) /\ 2 * i \in 1 .. Len(f) /\ 2 * i - 1 \in 1 .. Len(f)
    BY <1>8
  <2>4. \A j \in 1 .. Len(f) : g[j] = f[j]
    BY <1>1, AddEvent
  <2> QED
    BY <2>2, <2>3, <2>4 DEF Whole
<1> QED
  BY <1>1, <1>7, <1>8, <1>9 DEF Sound

LEMMA EventKeepsWhole ==
  ASSUME NEW f \in Seq(Piece), NEW k \in 1 .. MaxSequence, NEW n \in Nat,
         Sound(f, n), Len(f) = 2 * n
  PROVE  Sound(f \o Pieces(k), n + 1) /\ Len(f \o Pieces(k)) = 2 * (n + 1)
<1>1. PICK g \in Seq(Piece) : g = f \o Pieces(k)
  BY AddEvent
<1>2. /\ Len(g) = Len(f) + 2
      /\ \A i \in 1 .. Len(f) : g[i] = f[i]
      /\ g[Len(f) + 1] = [part |-> "sequence", of |-> k]
      /\ g[Len(f) + 2] = [part |-> "rest", of |-> k]
  BY <1>1, AddEvent
<1>3. \A i \in 1 .. n : Whole(g, i)
  BY <1>2 DEF Sound, Whole
<1>4. Whole(g, n + 1)
  BY <1>2 DEF Whole
<1> QED
  BY <1>1, <1>2, <1>3, <1>4 DEF Sound

-----------------------------------------------------------------------------
(* The invariant, action by action.                                        *)

LEMMA Distinct == Torn \notin Good /\ NoTmp \notin Good /\ NoFile \in Good
<1>1. \A s \in Good : DOMAIN s = {"next", "state"}
  BY DEF Good
<1>2. DOMAIN Torn = {"torn"} /\ DOMAIN NoTmp = {"tmp"}
  BY DEF Torn, NoTmp
<1>3. NoFile \in Good
  BY BoundsAssumption DEF NoFile, Good
<1> QED
  BY <1>1, <1>2, <1>3

LEMMA InitInv == ASSUME Init PROVE Inv
<1>1. Types
  <2>1. nextSeq \in 1 .. MaxSequence + 1 /\ state < nextSeq
    BY BoundsAssumption DEF Init
  <2>2. final \in Good /\ onDisk \subseteq Good /\ events \in Seq(Piece)
    BY Distinct DEF Init
  <2> QED
    BY <2>1, <2>2 DEF Init, Types
<1>2. FileInv /\ SeqInv
  BY Distinct DEF Init, FileInv, SeqInv, NoFile
<1>3. EventsInv
  <2>1. Len(events) = 0 /\ events \in Seq(Piece)
    BY DEF Init
  <2>2. Sound(events, 0) /\ \A n \in Nat : Sound(events, n) => n = 0
    BY <2>1 DEF Sound
  <2> QED
    BY <2>1, <2>2 DEF Init, EventsInv
<1> QED
  BY <1>1, <1>2, <1>3 DEF Inv

\* The group that loads is no older than the events and the snapshot.
LEMMA LoadInv == ASSUME Inv, LoadGroupState PROVE Inv'
<1>0. UNCHANGED <<policy, events, snapshotFile, applied, confirmed, past, restarts>>
  BY DEF LoadGroupState
<1>t. PICK t \in LoadTransitions(events) :
         IF final # Torn /\ t.ok
         THEN /\ pc' = "idle" /\ state' = LoadedState(final, t.sequences)
              /\ nextSeq' \in LoadedNexts(final, t.sequences)
         ELSE pc' = "failed" /\ UNCHANGED memory
  BY DEF LoadGroupState
<1>d. pc = "down"
  BY DEF LoadGroupState
<1>1. CASE ~(final # Torn /\ t.ok)
  <2>1. pc' = "failed" /\ UNCHANGED memory
    BY <1>1, <1>t
  <2>2. Types' /\ FileInv' /\ SeqInv'
    BY <1>0, <1>d, <2>1 DEF Inv, Types, FileInv, SeqInv, snapshotFile, memory, Current
  <2>3. EventsInv'
    BY <1>0, <2>1 DEF Inv, EventsInv
  <2> QED
    BY <2>2, <2>3 DEF Inv
<1>2. CASE final # Torn /\ t.ok
  <2>0. /\ pc' = "idle" /\ state' = LoadedState(final, t.sequences)
        /\ nextSeq' \in LoadedNexts(final, t.sequences)
    BY <1>2, <1>t
  <2>1. events \in Seq(Piece) /\ final \in Good
    BY <1>2 DEF Inv, Types
  <2>q. PICK q \in Seq(0 .. MaxSequence) : q = t.sequences
    BY <2>1, LoadedSequences
  <2>2. /\ LoadedNext(final, q) \in 1 .. MaxSequence + 1 /\ final.next <= LoadedNext(final, q)
        /\ LoadedState(final, q) \in Nat /\ LoadedState(final, q) < LoadedNext(final, q)
    BY <2>1, LoadedNumbers
  <2>n. LoadedNext(final, q) <= nextSeq' /\ nextSeq' \in 1 .. MaxSequence + 1
    <3>1. \/ nextSeq' = LoadedNext(final, q)
          \/ nextSeq' \in LoadedNext(final, q) .. MaxSequence + 1
      BY <2>0, <2>q DEF LoadedNexts
    <3> QED
      BY <3>1, <2>2, BoundsAssumption
  <2>6. final.next \in Nat /\ confirmed \in Nat /\ nextSeq' \in Nat /\ LoadedNext(final, q) \in Nat
    BY <2>1, <2>2, <2>n, BoundsAssumption DEF Good, Inv, Types
  <2>3. final.next <= nextSeq' /\ state' \in Nat /\ state' < nextSeq'
    BY <2>0, <2>q, <2>2, <2>n, <2>6
  <2>4. Types'
    BY <1>0, <2>0, <2>n, <2>3 DEF Inv, Types, snapshotFile
  <2>5. FileInv'
    BY <1>0, <2>0 DEF Inv, FileInv, snapshotFile
  <2>7. policy # "never" => confirmed < nextSeq'
    <3>1. policy # "never" => confirmed < final.next
      BY DEF Inv, FileInv, SeqInv
    <3> QED
      BY <3>1, <2>3, <2>6
  <2>8. SeqInv'
    BY <1>0, <2>0, <2>7 DEF Inv, SeqInv, snapshotFile
  <2>9. ASSUME "power_loss" \notin past, NEW n \in Nat, Sound(events, n)
        PROVE  applied < nextSeq'
    <3>1. IF n = 0 THEN applied = 0 ELSE applied <= events[2 * n].of
      BY <2>9 DEF Inv, EventsInv
    <3>2. applied \in Nat
      BY DEF Inv, Types
    <3>3. state' = IF n = 0 THEN final.state ELSE events[2 * n].of
      BY <2>0, <2>1, <2>9, SoundState
    <3> QED
      BY <2>3, <2>6, <3>1, <3>2, <3>3
  <2>10. EventsInv'
    BY <1>0, <2>0, <2>9 DEF Inv, EventsInv
  <2> QED
    BY <2>4, <2>5, <2>8, <2>10 DEF Inv
<1> QED
  BY <1>1, <1>2

LEMMA AppendInv ==
  ASSUME Inv, NEW client \in BOOLEAN, NEW fault,
         AppendTransition(client, fault)
  PROVE  Inv'
<1>0. /\ UNCHANGED <<policy, snapshotFile, confirmed, restarts>>
      /\ pc = "idle" /\ pc' \in {"idle", "persist"}
      /\ nextSeq' = nextSeq + 1
      /\ state' \in {state, nextSeq} /\ applied' \in {applied, nextSeq}
      /\ past' = IF fault \in CutShort THEN past \cup {"torn_event"} ELSE past
  BY DEF AppendTransition
<1>1. PICK k \in 1 .. MaxSequence : k = nextSeq
  BY BoundsAssumption DEF AppendTransition, Inv, Types
<1>2. PICK w : /\ events' = events \o w
               /\ \/ w = <<>> /\ fault = "before_log_append"
                  \/ w = <<Fragment>> /\ fault = "few_bytes"
                  \/ w = <<Pieces(k)[1]>> /\ fault = "short_event"
                  \/ w = Pieces(k) /\ fault \notin {"before_log_append"} \cup CutShort
  <2>1. events' = events \o Written(k, fault)
    BY <1>1 DEF AppendTransition
  <2>2. \/ Written(k, fault) = <<>> /\ fault = "before_log_append"
        \/ Written(k, fault) = <<Fragment>> /\ fault = "few_bytes"
        \/ Written(k, fault) = <<Pieces(k)[1]>> /\ fault = "short_event"
        \/ Written(k, fault) = Pieces(k) /\ fault \notin {"before_log_append"} \cup CutShort
    BY DEF Written, CutShort
  <2> QED
    BY <2>1, <2>2
<1>3. events \in Seq(Piece) /\ state \in Nat /\ applied \in Nat /\ nextSeq \in Nat
  BY <1>1, BoundsAssumption DEF Inv, Types
<1>4. events' \in Seq(Piece)
  <2>1. CASE w = <<>>
    BY <2>1, <1>2, <1>3, ConcatEmptySeq
  <2>2. CASE w = <<Fragment>>
    BY <2>2, <1>2, <1>3, AddOne, FragmentIsPiece
  <2>3. CASE w = <<Pieces(k)[1]>>
    BY <2>3, <1>2, <1>3, AddOne, PiecesType
  <2>4. CASE w = Pieces(k)
    BY <2>4, <1>2, <1>3, AddEvent
  <2> QED
    BY <1>2, <2>1, <2>2, <2>3, <2>4
<1>5. Types'
  <2>1. /\ nextSeq' \in 1 .. MaxSequence + 1 /\ state' < nextSeq'
        /\ state' \in Nat /\ applied' \in Nat
    BY <1>0, <1>1, <1>3, BoundsAssumption DEF Inv, Types
  <2> QED
    BY <1>0, <1>4, <2>1 DEF Inv, Types, snapshotFile
<1>6. FileInv'
  BY <1>0 DEF Inv, FileInv, snapshotFile
<1>7. SeqInv'
  <2>1. confirmed \in Nat
    BY DEF Inv, Types
  <2> QED
    BY <1>0, <1>3, <2>1 DEF Inv, SeqInv, snapshotFile
<1>s. ASSUME NEW n \in Nat, Sound(events', n) PROVE \E m \in Nat : Sound(events, m)
  <2>1. CASE w = <<>>
    BY <2>1, <1>2, <1>3, <1>s, ConcatEmptySeq
  <2>2. CASE w = <<Fragment>>
    BY <2>2, <1>2, <1>3, <1>s, SoundFragment
  <2>3. CASE w = <<Pieces(k)[1]>>
    BY <2>3, <1>2, <1>3, <1>s, SoundSequence
  <2>4. CASE w = Pieces(k)
    BY <2>4, <1>2, <1>3, <1>s, SoundEvent
  <2> QED
    BY <1>2, <2>1, <2>2, <2>3, <2>4
<1>p. "power_loss" \notin past' => "power_loss" \notin past
  BY <1>0
<1>8. ASSUME "power_loss" \notin past', NEW n \in Nat, Sound(events', n)
      PROVE  applied < nextSeq
  <2>1. \E m \in Nat : Sound(events, m)
    BY <1>8, <1>s
  <2> QED
    BY <1>0, <1>p, <1>8, <2>1 DEF Inv, EventsInv
<1>9. ASSUME "power_loss" \notin past', NEW n \in Nat, Sound(events', n)
      PROVE  IF n = 0 THEN applied' = 0 ELSE applied' <= events'[2 * n].of
  <2>1. ASSUME w # Pieces(k) PROVE applied' = applied
    BY <2>1, <1>2 DEF AppendTransition
  <2>2. \A m \in Nat : Sound(events, m) =>
           IF m = 0 THEN applied = 0 ELSE applied <= events[2 * m].of
    BY <1>p, <1>9 DEF Inv, EventsInv
  <2>3. CASE w = <<>>
    <3>1. events' = events /\ w # Pieces(k)
      BY <2>3, <1>2, <1>3, ConcatEmptySeq DEF Pieces
    <3> QED
      BY <3>1, <2>1, <2>2, <1>9
  <2>4. CASE w = <<Fragment>>
    <3>1. Len(w) = 1 /\ Len(Pieces(k)) = 2
      BY <2>4 DEF Pieces
    <3>2. w # Pieces(k)
      BY <3>1
    <3>3. Sound(events, n) /\ \A i \in 1 .. 2 * n : events'[i] = events[i]
      BY <2>4, <1>2, <1>3, <1>9, SoundFragment
    <3> QED
      BY <3>2, <3>3, <2>1, <2>2
  <2>5. CASE w = <<Pieces(k)[1]>>
    BY <2>5, <1>2, <1>3, <1>9, SoundSequence
  <2>6. CASE w = Pieces(k)
    <3>1. n # 0 /\ events'[2 * n].of = k
      BY <2>6, <1>2, <1>3, <1>9, SoundEvent
    <3>2. applied' <= k
      BY <1>0, <1>1, <1>3, <1>8, <1>9
    <3> QED
      BY <3>1, <3>2
  <2> QED
    BY <1>2, <2>3, <2>4, <2>5, <2>6
<1>10. ASSUME past' = {} PROVE \E n \in Nat : Sound(events', n) /\ Len(events') = 2 * n
  <2>1. past = {} /\ fault \notin {"few_bytes", "short_event"}
    BY <1>0, <1>10 DEF CutShort
  <2>2. PICK n \in Nat : Sound(events, n) /\ Len(events) = 2 * n
    BY <2>1 DEF Inv, EventsInv
  <2>3. CASE w = <<>>
    BY <2>2, <2>3, <1>2, <1>3, ConcatEmptySeq
  <2>4. CASE w = Pieces(k)
    <3>1. Sound(events', n + 1) /\ Len(events') = 2 * (n + 1)
      BY <2>2, <2>4, <1>2, <1>3, EventKeepsWhole
    <3> QED
      BY <3>1
  <2> QED
    BY <1>2, <2>1, <2>3, <2>4
<1>11. ASSUME "power_loss" \notin past', NEW n \in Nat, Sound(events', n)
       PROVE  applied' < nextSeq'
  BY <1>0, <1>3, <1>8, <1>11
<1>12. EventsInv'
  <2>1. "power_loss" \notin past' =>
          /\ \A n \in Nat : Sound(events', n) =>
                IF n = 0 THEN applied' = 0 ELSE applied' <= events'[2 * n].of
          /\ (\E n \in Nat : Sound(events', n)) => applied' < nextSeq'
    BY <1>9, <1>11
  <2> QED
    BY <2>1, <1>10 DEF EventsInv, Sound, Whole
<1> QED
  BY <1>5, <1>6, <1>7, <1>12 DEF Inv

\* What is in memory can be written as a snapshot.
LEMMA CurrentIsGood == ASSUME Inv PROVE Current \in Good
<1>1. nextSeq \in 1 .. MaxSequence + 1 /\ state \in 0 .. MaxSequence /\ state < nextSeq
  BY BoundsAssumption DEF Inv, Types
<1> QED
  BY <1>1 DEF Current, Good

LEMMA OpenInv == ASSUME Inv, NEW fault, OpenTmp(fault) PROVE Inv'
<1>0. UNCHANGED <<policy, events, final, finalSynced, onDisk, memory, applied,
                  confirmed, past>>
  BY DEF OpenTmp, Fails
<1>1. /\ pc = "persist" /\ pc' \in {"write", "idle"}
      /\ (tmp' = Torn /\ tmpSynced' = FALSE) \/ UNCHANGED <<tmp, tmpSynced>>
  BY DEF OpenTmp, Fails
<1>2. Types'
  BY <1>0, <1>1 DEF Inv, Types, memory
<1>3. FileInv' /\ SeqInv' /\ EventsInv'
  BY <1>0, <1>1 DEF Inv, FileInv, SeqInv, EventsInv, memory
<1> QED
  BY <1>2, <1>3 DEF Inv

LEMMA WriteInv == ASSUME Inv, NEW fault, WriteTmp(fault) PROVE Inv'
<1>0. UNCHANGED <<policy, events, tmpSynced, final, finalSynced, onDisk, memory,
                  applied, confirmed, past>>
  BY DEF WriteTmp, Fails
<1>1. /\ pc = "write"
      /\ \/ tmp' = Current /\ pc' = IF policy = "never" THEN "rename" ELSE "sync"
         \/ tmp' = tmp /\ pc' = "idle"
  BY DEF WriteTmp, Fails
<1>2. Current' = Current
  BY <1>0 DEF Current, memory
<1>3. Types'
  BY <1>0, <1>1, CurrentIsGood DEF Inv, Types, memory
<1>4. FileInv'
  BY <1>0, <1>1, <1>2 DEF Inv, FileInv
<1>5. SeqInv' /\ EventsInv'
  BY <1>0, <1>1 DEF Inv, SeqInv, EventsInv, memory
<1> QED
  BY <1>3, <1>4, <1>5 DEF Inv

LEMMA SyncInv == ASSUME Inv, NEW fault, SyncTmp(fault) PROVE Inv'
<1>0. UNCHANGED <<policy, events, tmp, final, finalSynced, onDisk, memory,
                  applied, confirmed, past>>
  BY DEF SyncTmp, Fails
<1>1. /\ pc = "sync"
      /\ \/ tmpSynced' = TRUE /\ pc' = "rename"
         \/ tmpSynced' = tmpSynced /\ pc' = "idle"
  BY DEF SyncTmp, Fails
<1>2. Current' = Current
  BY <1>0 DEF Current, memory
<1>3. Types'
  BY <1>0, <1>1 DEF Inv, Types, memory
<1>4. FileInv'
  BY <1>0, <1>1, <1>2 DEF Inv, FileInv
<1>5. SeqInv' /\ EventsInv'
  BY <1>0, <1>1 DEF Inv, SeqInv, EventsInv, memory
<1> QED
  BY <1>3, <1>4, <1>5 DEF Inv

LEMMA RenameInv == ASSUME Inv, NEW fault, Rename(fault) PROVE Inv'
<1>0. UNCHANGED <<policy, events, memory, applied, past>> /\ pc = "rename"
  BY DEF Rename
<1>1. Current' = Current /\ tmp = Current /\ Current \in Good
  BY <1>0, CurrentIsGood DEF Current, memory, Inv, FileInv
<1>2. CASE fault # "none"
  <2>1. pc' = "idle" /\ UNCHANGED <<confirmed, snapshotFile>>
    BY <1>2 DEF Rename, Fails
  <2>2. Types' /\ FileInv'
    BY <1>0, <2>1 DEF Inv, Types, FileInv, memory, snapshotFile
  <2>3. SeqInv' /\ EventsInv'
    BY <1>0, <2>1 DEF Inv, SeqInv, EventsInv, memory, snapshotFile
  <2> QED
    BY <2>2, <2>3 DEF Inv
<1>3. CASE fault = "none"
  <2>1. /\ final' = Current /\ finalSynced' = tmpSynced
        /\ tmp' = NoTmp /\ tmpSynced' = FALSE
        /\ onDisk' = onDisk \cup Readings(Current, tmpSynced)
        /\ IF policy = "never" THEN pc' = "idle" /\ confirmed' = state
           ELSE pc' = "syncdir" /\ confirmed' = confirmed
    BY <1>1, <1>3 DEF Rename, Succeeds
  <2>2. onDisk' \subseteq onDisk \cup {Current, Torn} /\ Current \in onDisk'
    BY <2>1 DEF Readings
  <2>3. policy # "never" => onDisk' = onDisk \cup {Current}
    BY <1>0, <2>1 DEF Readings, Inv, FileInv
  <2>4. Types'
    BY <1>0, <1>1, <2>1, <2>2 DEF Inv, Types, memory
  <2>5. FileInv'
    BY <1>0, <1>1, <2>1, <2>2, <2>3, Distinct DEF Inv, FileInv
  <2>6. SeqInv'
    <3>1. policy # "never" => confirmed < Current.next
      BY <1>0 DEF Inv, SeqInv, Current
    <3> QED
      BY <1>0, <2>1, <2>3, <3>1 DEF Inv, SeqInv, memory, Current
  <2>7. EventsInv'
    BY <1>0 DEF Inv, EventsInv, memory
  <2> QED
    BY <2>4, <2>5, <2>6, <2>7 DEF Inv
<1> QED
  BY <1>2, <1>3

LEMMA SyncDirInv == ASSUME Inv, NEW fault, SyncDir(fault) PROVE Inv'
<1>0. /\ UNCHANGED <<policy, events, tmp, tmpSynced, final, finalSynced, memory, applied, past>>
      /\ pc = "syncdir" /\ pc' = "idle"
  BY DEF SyncDir, Fails, Succeeds
<1>1. /\ policy # "never" /\ finalSynced /\ final = Current /\ Current \in Good
      /\ Current' = Current
  BY <1>0, CurrentIsGood DEF Inv, FileInv, Current, memory
<1>2. \/ confirmed' = confirmed /\ onDisk' = onDisk
      \/ confirmed' = state /\ onDisk' = {Current}
  BY <1>1 DEF SyncDir, Fails, Succeeds, Readings
<1>3. Types'
  BY <1>0, <1>1, <1>2 DEF Inv, Types, memory
<1>4. FileInv'
  BY <1>0, <1>1, <1>2, Distinct DEF Inv, FileInv
<1>5. SeqInv'
  <2>1. Current.next = nextSeq /\ state < nextSeq
    BY DEF Current, Inv, Types
  <2> QED
    BY <1>0, <1>2, <2>1 DEF Inv, SeqInv, memory
<1>6. EventsInv'
  BY <1>0 DEF Inv, EventsInv, memory
<1> QED
  BY <1>3, <1>4, <1>5, <1>6 DEF Inv

LEMMA CrashInv == ASSUME Inv, Crash PROVE Inv'
<1>0. /\ pc' = "down" /\ state' = 0 /\ nextSeq' = 1
      /\ UNCHANGED <<policy, applied, confirmed, events, snapshotFile, past>>
  BY DEF Crash, LoseMemory
<1>1. Types'
  BY <1>0, BoundsAssumption DEF Inv, Types, snapshotFile
<1>2. FileInv' /\ SeqInv'
  BY <1>0 DEF Inv, FileInv, SeqInv, snapshotFile
<1>3. EventsInv'
  BY <1>0 DEF Inv, EventsInv
<1> QED
  BY <1>1, <1>2, <1>3 DEF Inv

\* A power loss leaves a prefix of the events file, or a little more.
LEMMA PowerLossInv == ASSUME Inv, PowerLoss PROVE Inv'
<1>0. /\ pc' = "down" /\ state' = 0 /\ nextSeq' = 1
      /\ UNCHANGED <<policy, applied, confirmed>>
      /\ final' \in onDisk /\ onDisk' = {final'} /\ finalSynced' = TRUE
      /\ tmp' \in {NoTmp, Torn} /\ tmpSynced' = FALSE
      /\ "power_loss" \in past'
  BY DEF PowerLoss, LoseMemory
<1>1. events' \in Seq(Piece)
  <2>1. PICK n \in 0 .. Len(events), tail \in {<<>>, <<Fragment>>} :
           events' = SubSeq(events, 1, n) \o tail
    BY DEF PowerLoss
  <2>2. events \in Seq(Piece)
    BY DEF Inv, Types
  <2>3. \A i \in 1 .. n : events[i] \in Piece
    BY <2>2
  <2>4. SubSeq(events, 1, n) \in Seq(Piece)
    BY <2>2, <2>3, SubSeqProperties
  <2>5. <<>> \in Seq(Piece) /\ <<Fragment>> \in Seq(Piece)
    BY FragmentIsPiece
  <2> QED
    BY <2>1, <2>4, <2>5, ConcatProperties
<1>2. Types'
  <2>1. final' \in {Torn} \cup Good /\ onDisk' \subseteq {Torn} \cup Good
    BY <1>0 DEF Inv, Types
  <2>2. nextSeq' \in 1 .. MaxSequence + 1 /\ state' \in Nat /\ state' < nextSeq'
    BY <1>0, BoundsAssumption
  <2> QED
    BY <1>0, <1>1, <2>1, <2>2 DEF Inv, Types
<1>3. FileInv' /\ SeqInv'
  BY <1>0 DEF Inv, FileInv, SeqInv
<1>4. EventsInv'
  BY <1>0 DEF EventsInv
<1> QED
  BY <1>2, <1>3, <1>4 DEF Inv

LEMMA NextInv == ASSUME Inv, [Next]_vars PROVE Inv'
<1>1. CASE UNCHANGED vars
  <2>1. Types' /\ FileInv' /\ SeqInv'
    BY <1>1 DEF Inv, Types, FileInv, SeqInv, vars, snapshotFile, memory, Current
  <2>2. EventsInv'
    BY <1>1 DEF Inv, EventsInv, vars, memory
  <2> QED
    BY <2>1, <2>2 DEF Inv
<1>2. CASE Next
  BY <1>2, LoadInv, CrashInv, PowerLossInv, AppendInv, OpenInv, WriteInv, SyncInv,
     RenameInv, SyncDirInv DEF Next
<1> QED
  BY <1>1, <1>2

LEMMA InvHolds == Spec => []Inv
BY InitInv, NextInv, PTL DEF Spec

-----------------------------------------------------------------------------
(* The theorems.                                                           *)

\* A snapshot read back has the numbers of the group it was written from, and
\* what is in memory follows from it and the events.
THEOREM TypeCorrect == Spec => []TypeOK
<1>1. Inv => TypeOK
  <2>1. SUFFICES ASSUME Inv PROVE TypeOK
    OBVIOUS
  <2>2. Good \subseteq Snapshot
    BY BoundsAssumption DEF Good, Snapshot
  <2> QED
    BY <2>1, <2>2, BoundsAssumption DEF TypeOK, Inv, Types
<1> QED
  BY <1>1, InvHolds, PTL

\* DurableWriteFile and DurableRename: with syncs, no crash, failed call or
\* power loss at any step leaves a torn snapshot under the group's name.
THEOREM SnapshotIsWhole == Spec => []SnapshotWhole
<1>1. Inv => SnapshotWhole
  BY DEF Inv, FileInv, SnapshotWhole
<1> QED
  BY <1>1, InvHolds, PTL

\* With syncs, a group that loads gives out sequences above every confirmed
\* one, whatever the power loss has taken of the events file.
THEOREM SequencesAreFresh == Spec => []SequenceNotReused
<1>1. Inv => SequenceNotReused
  BY DEF Inv, SeqInv, SequenceNotReused
<1> QED
  BY <1>1, InvHolds, PTL

\* AppendTransition and LoadTransitions: after crashes, failed appends and an
\* event cut short the group fails to load or is no older than the last
\* transition that took effect, while nothing follows the cut event.
THEOREM DivergenceIsReported == Spec => []NoSilentDivergence
<1>1. Inv => NoSilentDivergence
  <2>1. SUFFICES ASSUME Inv, "power_loss" \notin past, InStep(events),
                        NEW t \in LoadTransitions(events), final # Torn, t.ok
                 PROVE  applied <= LoadedState(final, t.sequences)
    BY DEF NoSilentDivergence, LoadsSince
  <2>2. events \in Seq(Piece) /\ final \in Good
    BY <2>1 DEF Inv, Types
  <2>3. PICK n \in Nat : Sound(events, n)
    BY <2>1, <2>2, LoadsSound, WholePrefix
  <2>4. LoadedState(final, t.sequences) = IF n = 0 THEN final.state ELSE events[2 * n].of
    BY <2>1, <2>2, <2>3, SoundState
  <2>5. IF n = 0 THEN applied = 0 ELSE applied <= events[2 * n].of
    BY <2>1, <2>3 DEF Inv, EventsInv
  <2>6. final.state \in Nat
    BY <2>2, BoundsAssumption DEF Good
  <2> QED
    BY <2>4, <2>5, <2>6
<1> QED
  BY <1>1, InvHolds, PTL

\* Nothing but a torn event or a power loss keeps a group from loading: a
\* crash between any two steps of any call, or a failed call, does not.
THEOREM CrashesAreRecovered == Spec => []CrashRecoverable
<1>1. Inv => CrashRecoverable
  <2>1. SUFFICES ASSUME Inv, past = {}, NEW t \in LoadTransitions(events)
                 PROVE  final # Torn /\ t.ok
    BY SoundLoads DEF CrashRecoverable, Inv, Types, EventsInv, FileInv
  <2>2. final # Torn
    BY <2>1 DEF Inv, FileInv
  <2>3. PICK n \in Nat : Sound(events, n)
    BY <2>1 DEF Inv, EventsInv
  <2>4. t.ok
    BY <2>1, <2>2, <2>3, SoundState DEF Inv, Types
  <2> QED
    BY <2>2, <2>4
<1> QED
  BY <1>1, InvHolds, PTL

\* The steps of PersistGroupState implement a file that is replaced as a
\* whole (AtomicFile): the rename is the only step a reader sees, and the sync
\* of the directory the one that confirms it.
THEOREM SnapshotIsAtomic == Spec => AtomicSpec
<1>0. Good \subseteq Snapshot
  BY BoundsAssumption DEF Good, Snapshot
<1>1. Init => Atomic!Init
  BY <1>0, Distinct DEF Init, Atomic!Init
<1>2. ASSUME Inv, [Next]_vars PROVE [Atomic!Next]_(Atomic!fileVars)
  <2>1. policy' = policy
    BY <1>2 DEF Next, vars, LoadGroupState, Crash, PowerLoss, LoseMemory, AppendTransition,
       OpenTmp, WriteTmp, SyncTmp, Rename, SyncDir
  <2>2. CASE policy = "never"
    BY <2>1, <2>2 DEF Atomic!Next
  <2>3. CASE UNCHANGED <<final, onDisk>>
    BY <2>1, <2>3 DEF Atomic!fileVars
  <2>4. ASSUME policy # "never", NEW fault, Rename(fault) PROVE [Atomic!Next]_(Atomic!fileVars)
    <3>1. tmp = Current /\ Current \in Snapshot /\ tmpSynced
      BY <1>0, <1>2, <2>4, CurrentIsGood DEF Inv, FileInv, Rename
    <3>2. CASE fault = "none"
      <4>1. final' = Current /\ onDisk' = onDisk \cup {Current}
        BY <2>4, <3>1, <3>2 DEF Rename, Readings
      <4> QED
        BY <2>1, <3>1, <4>1 DEF Atomic!Next, Atomic!Replace
    <3>3. CASE fault # "none"
      BY <2>1, <2>4, <3>3 DEF Rename, snapshotFile, Atomic!fileVars
    <3> QED
      BY <3>2, <3>3
  <2>5. ASSUME policy # "never", NEW fault, SyncDir(fault) PROVE [Atomic!Next]_(Atomic!fileVars)
    <3>1. finalSynced /\ final' = final
      BY <1>2, <2>5 DEF Inv, FileInv, SyncDir
    <3>2. CASE fault = "none"
      <4>1. onDisk' = {final}
        BY <2>5, <3>1, <3>2 DEF SyncDir, Readings
      <4> QED
        BY <2>1, <3>1, <4>1 DEF Atomic!Next, Atomic!Confirm
    <3>3. CASE fault # "none"
      BY <2>1, <2>5, <3>1, <3>3 DEF SyncDir, Atomic!fileVars
    <3> QED
      BY <3>2, <3>3
  <2>6. CASE PowerLoss
    BY <2>1, <2>6 DEF PowerLoss, Atomic!Next, Atomic!PowerLoss
  <2>7. \/ UNCHANGED <<final, onDisk>> \/ PowerLoss
        \/ (\E fault : Rename(fault)) \/ (\E fault : SyncDir(fault))
    BY <1>2 DEF Next, vars, snapshotFile, LoadGroupState, Crash, AppendTransition, OpenTmp,
       WriteTmp, SyncTmp
  <2> QED
    BY <2>2, <2>3, <2>4, <2>5, <2>6, <2>7
<1> QED
  BY <1>1, <1>2, InvHolds, PTL DEF Spec, AtomicSpec, Atomic!Spec
=============================================================================
