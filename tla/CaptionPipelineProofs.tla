------------------------- MODULE CaptionPipelineProofs -------------------------
(***************************************************************************)
(* Proofs about the caption pipeline (CaptionPipeline), for recordings of   *)
(* any length and any words, windows and chunks of any size, and whatever    *)
(* the speech service hears of a window.                                      *)
(*                                                                           *)
(* What is proved of the recursive functions of the stitcher, the segmenter,  *)
(* the codec and the lookup rests on induction over the numbers, which the     *)
(* first section gets from the well-foundedness of <.  A recursive function   *)
(* is a CHOOSE: each comes with a lemma that says that it exists and which     *)
(* equations it satisfies.                                                     *)
(***************************************************************************)
EXTENDS CaptionPipeline, SequenceTheorems, FiniteSetTheorems, WellFoundedInduction, TLAPS

(* The order of the natural numbers, as a relation *)
Less == {p \in Nat \X Nat : p[1] < p[2]}

(* Any numbers have a least one. *)
LEMMA LeastElement ==
    ASSUME NEW T \in SUBSET Nat, T # {}
    PROVE  \E m \in T : \A k \in T : m <= k
<1>1. IsWellFoundedOn(Less, Nat)
    BY NatLessThanWellFounded DEF OpToRel, Less
<1>2. PICK m \in T : \A k \in T : ~(<<k, m>> \in Less)
    BY <1>1, WFMin
<1>3. ASSUME NEW k \in T PROVE m <= k
  <2>1. ~(<<k, m>> \in Less) /\ k \in Nat /\ m \in Nat
    BY <1>2
  <2>2. <<k, m>> \in Nat \X Nat /\ <<k, m>>[1] = k /\ <<k, m>>[2] = m
    BY <2>1
  <2>3. ~(k < m)
    BY <2>1, <2>2 DEF Less
  <2> QED BY <2>1, <2>3
<1> QED BY <1>3

(* Induction over the numbers up to N, with a set in the place of a predicate *)
LEMMA Induction ==
    ASSUME NEW N \in Nat, NEW T, 0 \in T, \A n \in 1..N : n - 1 \in T => n \in T
    PROVE  0..N \subseteq T
<1> DEFINE Out == (0..N) \ T
<1>1. SUFFICES ASSUME Out # {} PROVE FALSE
    OBVIOUS
<1>2. Out \in SUBSET Nat
    OBVIOUS
<1> HIDE DEF Out
<1>3. PICK m \in Out : \A k \in Out : m <= k
    BY <1>1, <1>2, LeastElement
<1>4. m \in 1..N /\ m - 1 \in 0..N /\ m \notin T
    BY DEF Out
<1>5. m - 1 \in Out
    BY <1>4 DEF Out
<1> QED BY <1>3, <1>4, <1>5

(* f begins with base, and Step makes each of its values from the one before. *)
Recurses(f, N, V, base, Step) ==
    f \in [0..N -> V] /\ f[0] = base /\ \A n \in 1..N : f[n] = Step[<<n, f[n - 1]>>]

(* There is such a function for any base and step. *)
LEMMA RecursionExists ==
    ASSUME NEW N \in Nat, NEW V, NEW base \in V, NEW Step \in [(1..N) \X V -> V]
    PROVE  \E f : Recurses(f, N, V, base, Step)
<1> DEFINE T == {m \in 0..N : \E f \in [0..N -> V] :
                     f[0] = base /\ \A n \in 1..m : f[n] = Step[<<n, f[n - 1]>>]}
<1>1. 0 \in T
  <2> DEFINE f == [n \in 0..N |-> base]
  <2>1. f \in [0..N -> V] /\ f[0] = base /\ 1..0 = {}
    OBVIOUS
  <2> HIDE DEF f
  <2> QED BY <2>1, 0 \in 0..N
<1>2. ASSUME NEW m \in 1..N, m - 1 \in T PROVE m \in T
  <2>1. PICK g \in [0..N -> V] :
            g[0] = base /\ \A n \in 1..(m - 1) : g[n] = Step[<<n, g[n - 1]>>]
    BY <1>2
  <2> DEFINE f == [n \in 0..N |-> IF n = m THEN Step[<<m, g[m - 1]>>] ELSE g[n]]
  <2>2. f \in [0..N -> V]
    OBVIOUS
  <2>3. f[m] = Step[<<m, f[m - 1]>>]
    <3>1. m \in 0..N /\ m - 1 \in 0..N /\ m - 1 # m
      OBVIOUS
    <3>2. f[m] = Step[<<m, g[m - 1]>>] /\ f[m - 1] = g[m - 1]
      BY <3>1
    <3> QED BY <3>2
  <2>4. ASSUME NEW n \in 0..(m - 1) PROVE f[n] = g[n]
    OBVIOUS
  <2> HIDE DEF f
  <2>5. ASSUME NEW n \in 1..m PROVE f[n] = Step[<<n, f[n - 1]>>]
    <3>1. CASE n = m
      BY <2>3, <3>1
    <3>2. CASE n # m
      <4>1. n \in 1..(m - 1) /\ n \in 0..(m - 1) /\ n - 1 \in 0..(m - 1)
        BY <3>2
      <4> QED BY <2>1, <2>4, <4>1
    <3> QED BY <3>1, <3>2
  <2> QED BY <2>1, <2>2, <2>4, <2>5
<1> HIDE DEF T
<1>3. 0..N \subseteq T
    BY <1>1, <1>2, Induction
<1>4. N \in T
    BY <1>3
<1> QED BY <1>4 DEF T, Recurses

(* What holds before the first step and is kept by every step holds after each. *)
LEMMA StaysIn ==
    ASSUME NEW N \in Nat, NEW V, NEW F, F[0] \in V,
           \A n \in 1..N : F[n - 1] \in V => F[n] \in V
    PROVE  \A n \in 0..N : F[n] \in V
<1> DEFINE T == {n \in 0..N : F[n] \in V}
<1>1. 0 \in T
    OBVIOUS
<1>2. ASSUME NEW n \in 1..N, n - 1 \in T PROVE n \in T
    BY <1>2
<1> HIDE DEF T
<1>3. 0..N \subseteq T
    BY <1>1, <1>2, Induction
<1> QED BY <1>3 DEF T

(* f is the recursion of Among: what is chosen of the first n, of the set S. *)
AmongBy(f, seq, chosen, S) ==
    /\ f \in [0..Len(seq) -> Seq(S)]
    /\ f[0] = <<>>
    /\ \A n \in 1..Len(seq) : f[n] = IF n \in chosen THEN Append(f[n - 1], seq[n]) ELSE f[n - 1]
    /\ Among(seq, chosen) = f[Len(seq)]

(* There is such a function, and Among is its last value. *)
LEMMA AmongRecursion ==
    ASSUME NEW R, NEW S, NEW seq \in Seq(R), NEW chosen,
           \A i \in chosen : i \in 1..Len(seq) => seq[i] \in S
    PROVE  \E f : AmongBy(f, seq, chosen, S)
<1> DEFINE N == Len(seq)
           V == Seq(S)
           base == <<>>
           After(s, n) == IF n \in chosen THEN Append(s, seq[n]) ELSE s
           F == CHOOSE f : f = [n \in 0..N |-> IF n = 0 THEN base ELSE After(f[n - 1], n)]
           Step == [p \in (1..N) \X V |-> After(p[2], p[1])]
<1>1. N \in Nat /\ base \in V
    OBVIOUS
<1>2. \A n \in 1..N, s \in V : After(s, n) \in V
    OBVIOUS
<1>3. Among(seq, chosen) = F[N]
    BY Zenon DEF Among
<1> HIDE DEF N, V, base, After, AmongBy
<1>4. Step \in [(1..N) \X V -> V]
    BY <1>2
<1>5. \A n \in 1..N, s \in V : Step[<<n, s>>] = After(s, n)
    OBVIOUS
<1> HIDE DEF Step
<1>6. PICK g : Recurses(g, N, V, base, Step)
    BY <1>1, <1>4, RecursionExists
<1>7. g = [n \in 0..N |-> IF n = 0 THEN base ELSE After(g[n - 1], n)]
  <2>1. g \in [0..N -> V] /\ g[0] = base /\ \A n \in 1..N : g[n] = Step[<<n, g[n - 1]>>]
    BY <1>6 DEF Recurses
  <2>2. \A n \in 1..N : n - 1 \in 0..N
    BY <1>1
  <2>3. \A n \in 1..N : g[n] = After(g[n - 1], n)
    BY <1>5, <2>1, <2>2
  <2>4. \A n \in 0..N : n = 0 \/ n \in 1..N
    BY <1>1
  <2> QED BY <2>1, <2>3, <2>4
<1>8. F = [n \in 0..N |-> IF n = 0 THEN base ELSE After(F[n - 1], n)]
    BY <1>7
<1> HIDE DEF F
<1>9. F[0] = base /\ \A n \in 1..N : F[n] = After(F[n - 1], n)
    BY <1>1, <1>8
<1>10. \A n \in 0..N : F[n] \in V
    BY <1>1, <1>2, <1>9, StaysIn
<1>11. F \in [0..N -> V]
    BY <1>8, <1>10
<1> QED BY <1>3, <1>9, <1>11 DEF N, V, base, After, AmongBy

(* Among makes a sequence of what it chooses. *)
LEMMA AmongIsSeq ==
    ASSUME NEW R, NEW S, NEW seq \in Seq(R), NEW chosen,
           \A i \in chosen : i \in 1..Len(seq) => seq[i] \in S
    PROVE  Among(seq, chosen) \in Seq(S)
<1>2. Len(seq) \in Nat
    OBVIOUS
<1>3. PICK f : AmongBy(f, seq, chosen, S)
    BY AmongRecursion
<1> QED BY <1>2, <1>3 DEF AmongBy

(* Insert makes a sequence of words of one. *)
LEMMA InsertIsSeq ==
    ASSUME NEW words \in Seq(Words), NEW w \in Words
    PROVE  Insert(words, w) \in Seq(Words)
<1> DEFINE before == {i \in DOMAIN words : Before(words[i], w)}
           n == Cardinality(before)
<1>1. Len(words) \in Nat
    OBVIOUS
<1>2. IsFiniteSet(1..Len(words)) /\ Cardinality(1..Len(words)) = Len(words)
    BY <1>1, FS_Interval
<1>3. before \subseteq 1..Len(words)
    OBVIOUS
<1> HIDE DEF before
<1>4. n \in 0..Len(words)
  <2>1. IsFiniteSet(before) /\ n <= Len(words)
    BY <1>2, <1>3, FS_Subset
  <2>2. n \in Nat
    BY <2>1, FS_CardinalityType
  <2> QED BY <1>1, <2>1, <2>2
<1>5. Insert(words, w) = SubSeq(words, 1, n) \o <<w>> \o SubSeq(words, n + 1, Len(words))
    BY Zenon DEF Insert, before
<1> HIDE DEF n
<1>6. SubSeq(words, 1, n) \in Seq(Words)
    BY <1>1, <1>4
<1>7. SubSeq(words, n + 1, Len(words)) \in Seq(Words)
    BY <1>1, <1>4
<1>8. <<w>> \in Seq(Words)
    OBVIOUS
<1> QED BY <1>5, <1>6, <1>7, <1>8

(* The recursion of Sorted, the insertion sort of pushWindow *)
LEMMA SortedRecursion ==
    ASSUME NEW words \in Seq(Words)
    PROVE  \E f \in [0..Len(words) -> Seq(Words)] :
               /\ f[0] = <<>>
               /\ \A n \in 1..Len(words) : f[n] = Insert(f[n - 1], words[n])
               /\ Sorted(words) = f[Len(words)]
<1> DEFINE N == Len(words)
           V == Seq(Words)
           base == <<>>
           After(s, n) == Insert(s, words[n])
           F == CHOOSE f : f = [n \in 0..N |-> IF n = 0 THEN base ELSE After(f[n - 1], n)]
           Step == [p \in (1..N) \X V |-> After(p[2], p[1])]
<1>1. N \in Nat /\ base \in V
    OBVIOUS
<1>2. \A n \in 1..N, s \in V : After(s, n) \in V
    BY InsertIsSeq
<1>3. Sorted(words) = F[N]
    BY Zenon DEF Sorted
<1> HIDE DEF N, V, base, After
<1>4. Step \in [(1..N) \X V -> V]
    BY <1>2
<1>5. \A n \in 1..N, s \in V : Step[<<n, s>>] = After(s, n)
    OBVIOUS
<1> HIDE DEF Step
<1>6. PICK g : Recurses(g, N, V, base, Step)
    BY <1>1, <1>4, RecursionExists
<1>7. g = [n \in 0..N |-> IF n = 0 THEN base ELSE After(g[n - 1], n)]
  <2>1. g \in [0..N -> V] /\ g[0] = base /\ \A n \in 1..N : g[n] = Step[<<n, g[n - 1]>>]
    BY <1>6 DEF Recurses
  <2>2. \A n \in 1..N : n - 1 \in 0..N
    BY <1>1
  <2>3. \A n \in 1..N : g[n] = After(g[n - 1], n)
    BY <1>5, <2>1, <2>2
  <2>4. \A n \in 0..N : n = 0 \/ n \in 1..N
    BY <1>1
  <2> QED BY <2>1, <2>3, <2>4
<1>8. F = [n \in 0..N |-> IF n = 0 THEN base ELSE After(F[n - 1], n)]
    BY <1>7
<1> HIDE DEF F
<1>9. F[0] = base /\ \A n \in 1..N : F[n] = After(F[n - 1], n)
    BY <1>1, <1>8
<1>10. \A n \in 0..N : F[n] \in V
    BY <1>1, <1>2, <1>9, StaysIn
<1>11. F \in [0..N -> V]
    BY <1>8, <1>10
<1> QED BY <1>3, <1>9, <1>11 DEF N, V, base, After

(* Sorted keeps the words. *)
LEMMA SortedIsSeq ==
    ASSUME NEW words \in Seq(Words)
    PROVE  Sorted(words) \in Seq(Words)
<1>1. Len(words) \in Nat
    OBVIOUS
<1>2. PICK f \in [0..Len(words) -> Seq(Words)] : Sorted(words) = f[Len(words)]
    BY SortedRecursion
<1> QED BY <1>1, <1>2

(* The states of the stitcher *)
Stitchers ==
    [tail : Seq(Words), last : {<<>>} \union {<<w>> : w \in Words}, out : Seq(Words)]

(* What normalize makes of a word is a word, and starts no earlier than the last one. *)
LEMMA NormalizedType ==
    ASSUME NEW s \in Stitchers, NEW w \in Words
    PROVE  /\ Normalized(s, w) \in Stitchers
           /\ Normalized(s, w).tail = s.tail
           /\ \E v \in Words : /\ Normalized(s, w).last = <<v>>
                               /\ Normalized(s, w).out = Append(s.out, v)
                               /\ s.last # <<>> => v.start >= s.last[1].start
<1> DEFINE v == IF s.last # <<>> /\ w.start < s.last[1].start
                THEN [w EXCEPT !.start = s.last[1].start,
                               !.end = Larger(s.last[1].start + 1, @)]
                ELSE w
<1>1. w \in [text : STRING, start : Nat, end : Nat, stop : BOOLEAN] /\ w.start <= w.end
    BY DEF Words
<1>2. ASSUME s.last # <<>> PROVE s.last[1] \in Words /\ s.last[1].start \in Nat
    BY <1>2 DEF Stitchers, Words
<1>3. v \in Words /\ (s.last # <<>> => v.start >= s.last[1].start)
  <2>1. CASE s.last # <<>> /\ w.start < s.last[1].start
    <3>1. Larger(s.last[1].start + 1, w.end) \in Nat
          /\ s.last[1].start <= Larger(s.last[1].start + 1, w.end)
      BY <1>1, <1>2, <2>1 DEF Larger
    <3>2. v = [w EXCEPT !.start = s.last[1].start, !.end = Larger(s.last[1].start + 1, w.end)]
      BY <2>1
    <3> HIDE DEF v
    <3>3. v \in [text : STRING, start : Nat, end : Nat, stop : BOOLEAN]
          /\ v.start = s.last[1].start /\ v.start <= v.end
      BY <1>1, <1>2, <2>1, <3>1, <3>2
    <3> QED BY <1>2, <2>1, <3>3 DEF Words
  <2>2. CASE ~(s.last # <<>> /\ w.start < s.last[1].start)
    BY <1>1, <1>2, <2>2
  <2> QED BY <2>1, <2>2
<1>4. Normalized(s, w) = [s EXCEPT !.last = <<v>>, !.out = Append(@, v)]
    BY DEF Normalized
<1> HIDE DEF v
<1>5. /\ Normalized(s, w) \in Stitchers /\ Normalized(s, w).tail = s.tail
      /\ Normalized(s, w).last = <<v>> /\ Normalized(s, w).out = Append(s.out, v)
  <2>1. s.tail \in Seq(Words) /\ s.out \in Seq(Words)
        /\ s = [tail |-> s.tail, last |-> s.last, out |-> s.out]
    BY DEF Stitchers
  <2>2. Normalized(s, w) = [tail |-> s.tail, last |-> <<v>>, out |-> Append(s.out, v)]
    BY <1>4, <2>1
  <2>3. Append(s.out, v) \in Seq(Words) /\ <<v>> \in {<<>>} \union {<<x>> : x \in Words}
    BY <1>3, <2>1
  <2> QED BY <2>1, <2>2, <2>3 DEF Stitchers
<1> QED BY <1>3, <1>5

(* The recursion of Emit, the loop of normalize *)
LEMMA EmitRecursion ==
    ASSUME NEW stitcher \in Stitchers, NEW words \in Seq(Words)
    PROVE  \E f \in [0..Len(words) -> Stitchers] :
               /\ f[0] = [stitcher EXCEPT !.out = <<>>]
               /\ \A n \in 1..Len(words) : f[n] = Normalized(f[n - 1], words[n])
               /\ Emit(stitcher, words) = f[Len(words)]
<1> DEFINE N == Len(words)
           V == Stitchers
           base == [stitcher EXCEPT !.out = <<>>]
           After(s, n) == Normalized(s, words[n])
           F == CHOOSE f : f = [n \in 0..N |-> IF n = 0 THEN base ELSE After(f[n - 1], n)]
           Step == [p \in (1..N) \X V |-> After(p[2], p[1])]
<1>1. N \in Nat /\ base \in V
  <2>1. <<>> \in Seq(Words)
    OBVIOUS
  <2>2. base = [tail |-> stitcher.tail, last |-> stitcher.last, out |-> <<>>]
    BY DEF Stitchers
  <2>3. stitcher.tail \in Seq(Words) /\ stitcher.last \in {<<>>} \union {<<w>> : w \in Words}
    BY DEF Stitchers
  <2>4. base \in V
    BY <2>1, <2>2, <2>3 DEF Stitchers
  <2> QED BY <2>4
<1>2. \A n \in 1..N, s \in V : After(s, n) \in V
  <2>1. \A n \in 1..N : words[n] \in Words
    OBVIOUS
  <2> QED BY <2>1, NormalizedType
<1>3. Emit(stitcher, words) = F[N]
    BY Zenon DEF Emit
<1> HIDE DEF N, V, base, After
<1>4. Step \in [(1..N) \X V -> V]
    BY <1>2
<1>5. \A n \in 1..N, s \in V : Step[<<n, s>>] = After(s, n)
    OBVIOUS
<1> HIDE DEF Step
<1>6. PICK g : Recurses(g, N, V, base, Step)
    BY <1>1, <1>4, RecursionExists
<1>7. g = [n \in 0..N |-> IF n = 0 THEN base ELSE After(g[n - 1], n)]
  <2>1. g \in [0..N -> V] /\ g[0] = base /\ \A n \in 1..N : g[n] = Step[<<n, g[n - 1]>>]
    BY <1>6 DEF Recurses
  <2>2. \A n \in 1..N : n - 1 \in 0..N
    BY <1>1
  <2>3. \A n \in 1..N : g[n] = After(g[n - 1], n)
    BY <1>5, <2>1, <2>2
  <2>4. \A n \in 0..N : n = 0 \/ n \in 1..N
    BY <1>1
  <2> QED BY <2>1, <2>3, <2>4
<1>8. F = [n \in 0..N |-> IF n = 0 THEN base ELSE After(F[n - 1], n)]
    BY <1>7
<1> HIDE DEF F
<1>9. F[0] = base /\ \A n \in 1..N : F[n] = After(F[n - 1], n)
    BY <1>1, <1>8
<1>10. \A n \in 0..N : F[n] \in V
    BY <1>1, <1>2, <1>9, StaysIn
<1>11. F \in [0..N -> V]
    BY <1>8, <1>10
<1> QED BY <1>3, <1>9, <1>11 DEF N, V, base, After

(* The states of the segmenter *)
Segments == [start : Nat, end : Nat, text : Seq(STRING)]

(* The states of the segmenter *)
Segmenters ==
    [current : Segments, previous : Nat \union {-1}, boundary : BOOLEAN,
     rejected : BOOLEAN, segments : Seq(Segments)]

(* Flush and PushWord go from a state of the segmenter to another. *)
LEMMA FlushType ==
    ASSUME NEW seg \in Segmenters, NEW limit \in {<<>>} \union {<<n>> : n \in Nat}
    PROVE  Flush(seg, limit) \in Segmenters
<1>1. NoSegment \in Segments
    BY DEF NoSegment, Segments
<1> DEFINE natural == Larger(seg.current.start + 1, seg.current.end + Linger)
           end == IF limit = <<>> THEN natural ELSE Smaller(natural, limit[1])
<1>2. seg.current.start \in Nat /\ seg.current.end \in Nat /\ Linger \in Nat
    BY TimesAssumption DEF Segmenters, Segments
<1>3. natural \in Nat
    BY <1>2 DEF Larger
<1> HIDE DEF natural
<1>4. end \in Nat
    BY <1>3 DEF Smaller
<1>5. [seg.current EXCEPT !.end = end] \in Segments
    BY <1>4 DEF Segmenters, Segments
<1>6. CASE seg.current = NoSegment
    BY <1>6 DEF Flush
<1>7. CASE seg.current # NoSegment
  <2>1. Flush(seg, limit) = [seg EXCEPT !.current = NoSegment, !.boundary = FALSE,
                                        !.rejected = @ \/ end <= seg.current.start,
                                        !.segments = Append(@, [seg.current EXCEPT !.end = end])]
    BY <1>7 DEF Flush, natural
  <2> HIDE DEF end
  <2>2. Append(seg.segments, [seg.current EXCEPT !.end = end]) \in Seq(Segments)
    BY <1>5 DEF Segmenters
  <2>3. (seg.rejected \/ end <= seg.current.start) \in BOOLEAN
    OBVIOUS
  <2>4. seg.previous \in Nat \union {-1}
        /\ seg = [current |-> seg.current, previous |-> seg.previous, boundary |-> seg.boundary,
                  rejected |-> seg.rejected, segments |-> seg.segments]
    BY DEF Segmenters
  <2>5. Flush(seg, limit) =
          [current |-> NoSegment, previous |-> seg.previous, boundary |-> FALSE,
           rejected |-> seg.rejected \/ end <= seg.current.start,
           segments |-> Append(seg.segments, [seg.current EXCEPT !.end = end])]
    BY <2>1, <2>4
  <2> QED BY <1>1, <2>2, <2>3, <2>4, <2>5 DEF Segmenters
<1> QED BY <1>6, <1>7

(* A word that is pushed, refused or not, leaves a state of the segmenter. *)
LEMMA PushWordType ==
    ASSUME NEW seg \in Segmenters, NEW w \in Words
    PROVE  PushWord(seg, w) \in Segmenters
<1> DEFINE flushed == IF ShouldFlushBefore(seg, w) THEN Flush(seg, <<w.start>>) ELSE seg
<1>1. w.start \in Nat /\ w.end \in Nat /\ w.text \in STRING /\ w.stop \in BOOLEAN
    BY DEF Words
<1>2. flushed \in Segmenters
    BY <1>1, FlushType
<1>3. PushWord(seg, w) =
        [flushed EXCEPT
            !.current = IF flushed.current = NoSegment
                        THEN [start |-> w.start, end |-> w.end, text |-> <<w.text>>]
                        ELSE [flushed.current EXCEPT !.end = Larger(@, w.end),
                                                     !.text = Append(@, w.text)],
            !.previous = w.start,
            !.boundary = w.stop,
            !.rejected = @ \/ Refused(seg, w)]
    BY Zenon DEF PushWord
<1> HIDE DEF flushed
<1>4. Refused(seg, w) \in BOOLEAN
    BY DEF Refused
<1>5. [start |-> w.start, end |-> w.end, text |-> <<w.text>>] \in Segments
    BY <1>1 DEF Segments
<1>6. [flushed.current EXCEPT !.end = Larger(@, w.end), !.text = Append(@, w.text)] \in Segments
  <2>1. flushed.current \in Segments /\ flushed.current.end \in Nat
        /\ flushed.current.text \in Seq(STRING)
    BY <1>2 DEF Segmenters, Segments
  <2>2. Larger(flushed.current.end, w.end) \in Nat
        /\ Append(flushed.current.text, w.text) \in Seq(STRING)
    BY <1>1, <2>1 DEF Larger
  <2> QED BY <2>1, <2>2 DEF Segments
<1> QED BY <1>1, <1>2, <1>3, <1>4, <1>5, <1>6 DEF Segmenters

(* The recursion of PushAll, the pushes of one window *)
LEMMA PushRecursion ==
    ASSUME NEW seg \in Segmenters, NEW words \in Seq(Words)
    PROVE  \E f \in [0..Len(words) -> Segmenters] :
               /\ f[0] = seg
               /\ \A n \in 1..Len(words) : f[n] = PushWord(f[n - 1], words[n])
               /\ PushAll(seg, words) = f[Len(words)]
<1> DEFINE N == Len(words)
           V == Segmenters
           base == seg
           After(s, n) == PushWord(s, words[n])
           F == CHOOSE f : f = [n \in 0..N |-> IF n = 0 THEN base ELSE After(f[n - 1], n)]
           Step == [p \in (1..N) \X V |-> After(p[2], p[1])]
<1>1. N \in Nat /\ base \in V
    OBVIOUS
<1>2. \A n \in 1..N, s \in V : After(s, n) \in V
    BY PushWordType
<1>3. PushAll(seg, words) = F[N]
    BY Zenon DEF PushAll
<1> HIDE DEF N, V, base, After
<1>4. Step \in [(1..N) \X V -> V]
    BY <1>2
<1>5. \A n \in 1..N, s \in V : Step[<<n, s>>] = After(s, n)
    OBVIOUS
<1> HIDE DEF Step
<1>6. PICK g : Recurses(g, N, V, base, Step)
    BY <1>1, <1>4, RecursionExists
<1>7. g = [n \in 0..N |-> IF n = 0 THEN base ELSE After(g[n - 1], n)]
  <2>1. g \in [0..N -> V] /\ g[0] = base /\ \A n \in 1..N : g[n] = Step[<<n, g[n - 1]>>]
    BY <1>6 DEF Recurses
  <2>2. \A n \in 1..N : n - 1 \in 0..N
    BY <1>1
  <2>3. \A n \in 1..N : g[n] = After(g[n - 1], n)
    BY <1>5, <2>1, <2>2
  <2>4. \A n \in 0..N : n = 0 \/ n \in 1..N
    BY <1>1
  <2> QED BY <2>1, <2>3, <2>4
<1>8. F = [n \in 0..N |-> IF n = 0 THEN base ELSE After(F[n - 1], n)]
    BY <1>7
<1> HIDE DEF F
<1>9. F[0] = base /\ \A n \in 1..N : F[n] = After(F[n - 1], n)
    BY <1>1, <1>8
<1>10. \A n \in 0..N : F[n] \in V
    BY <1>1, <1>2, <1>9, StaysIn
<1>11. F \in [0..N -> V]
    BY <1>8, <1>10
<1> QED BY <1>3, <1>9, <1>11 DEF N, V, base, After

--------------------------------------------------------------------------------
(* The stitcher emits in order. *)

(* A sequence of words goes on after the last one. *)
InOrder(words, last) ==
    \A i \in 1..Len(words) :
        IF i = 1 THEN last # <<>> => words[1].start >= last[1].start
        ELSE words[i].start >= words[i - 1].start

(* The last word of all that were emitted *)
LastOf(words, last) == IF words = <<>> THEN last ELSE <<words[Len(words)]>>

(* Whatever order they come in, the words are emitted in the order of their starts. *)
LEMMA EmitSound ==
    ASSUME NEW stitcher \in Stitchers, NEW words \in Seq(Words)
    PROVE  LET e == Emit(stitcher, words)
           IN  /\ e \in Stitchers /\ e.tail = stitcher.tail
               /\ InOrder(e.out, stitcher.last) /\ e.last = LastOf(e.out, stitcher.last)
<1> DEFINE V == {s \in Stitchers : /\ s.tail = stitcher.tail
                                   /\ InOrder(s.out, stitcher.last)
                                   /\ s.last = LastOf(s.out, stitcher.last)}
           N == Len(words)
<1>1. N \in Nat
    OBVIOUS
<1>2. PICK f \in [0..N -> Stitchers] :
          /\ f[0] = [stitcher EXCEPT !.out = <<>>]
          /\ \A n \in 1..N : f[n] = Normalized(f[n - 1], words[n])
          /\ Emit(stitcher, words) = f[N]
    BY EmitRecursion
<1>3. f[0] \in V
  <2>1. f[0] \in Stitchers /\ f[0].tail = stitcher.tail /\ f[0].last = stitcher.last /\ f[0].out = <<>>
    <3>1. stitcher.tail \in Seq(Words) /\ stitcher.last \in {<<>>} \union {<<w>> : w \in Words}
          /\ stitcher = [tail |-> stitcher.tail, last |-> stitcher.last, out |-> stitcher.out]
      BY DEF Stitchers
    <3>2. f[0] = [tail |-> stitcher.tail, last |-> stitcher.last, out |-> <<>>] /\ f[0] \in Stitchers
      BY <1>1, <1>2, <3>1
    <3> QED BY <3>2
  <2> QED BY <2>1 DEF InOrder, LastOf
<1>4. ASSUME NEW n \in 1..N, f[n - 1] \in V PROVE f[n] \in V
  <2> DEFINE s == f[n - 1]
  <2>1. s \in Stitchers /\ s.tail = stitcher.tail /\ InOrder(s.out, stitcher.last)
        /\ s.last = LastOf(s.out, stitcher.last)
    BY <1>4
  <2> DEFINE w == words[n]
  <2>2. w \in Words /\ f[n] = Normalized(s, w)
    BY <1>1, <1>2
  <2> HIDE DEF s, w
  <2>3. PICK v \in Words : /\ f[n].last = <<v>> /\ f[n].out = Append(s.out, v)
                           /\ s.last # <<>> => v.start >= s.last[1].start
    <3>1. \E v \in Words : /\ Normalized(s, w).last = <<v>>
                           /\ Normalized(s, w).out = Append(s.out, v)
                           /\ s.last # <<>> => v.start >= s.last[1].start
      BY <2>1, <2>2, NormalizedType, Zenon
    <3> QED BY <2>2, <3>1, Zenon
  <2>4. f[n] \in Stitchers /\ f[n].tail = s.tail
    BY <2>1, <2>2, NormalizedType
  <2>5. s.out \in Seq(Words) /\ Len(s.out) \in Nat
    BY <2>1 DEF Stitchers
  <2> DEFINE out == Append(s.out, v)
  <2>6. /\ out # <<>> /\ Len(out) = Len(s.out) + 1 /\ out[Len(s.out) + 1] = v
        /\ \A i \in 1..Len(s.out) : out[i] = s.out[i]
    BY <2>5, AppendProperties
  <2> HIDE DEF out
  <2>7. LastOf(out, stitcher.last) = <<v>>
    BY <2>5, <2>6 DEF LastOf
  <2>8. ASSUME NEW i \in 1..Len(out)
        PROVE  IF i = 1 THEN stitcher.last # <<>> => out[1].start >= stitcher.last[1].start
               ELSE out[i].start >= out[i - 1].start
    <3>1. CASE i \in 1..Len(s.out)
      <4>1. i # 1 => i - 1 \in 1..Len(s.out)
        BY <2>5, <3>1
      <4>2. out[i] = s.out[i] /\ (i # 1 => out[i - 1] = s.out[i - 1])
        BY <2>6, <3>1, <4>1
      <4>3. IF i = 1 THEN stitcher.last # <<>> => s.out[1].start >= stitcher.last[1].start
            ELSE s.out[i].start >= s.out[i - 1].start
        BY <2>1, <3>1 DEF InOrder
      <4> QED BY <4>2, <4>3
    <3>2. CASE i = Len(s.out) + 1
      <4>1. CASE s.out = <<>>
        BY <2>1, <2>3, <2>6, <3>2, <4>1 DEF LastOf
      <4>2. CASE s.out # <<>>
        <5>1. s.last = <<s.out[Len(s.out)]>> /\ Len(s.out) \in 1..Len(s.out)
          BY <2>1, <2>5, <4>2 DEF LastOf
        <5>2. v.start >= s.out[Len(s.out)].start
          BY <2>3, <5>1
        <5>3. out[i] = v /\ out[i - 1] = s.out[Len(s.out)] /\ i # 1
          BY <2>5, <2>6, <3>2, <5>1
        <5> QED BY <5>2, <5>3
      <4> QED BY <4>1, <4>2
    <3> QED BY <2>5, <2>6, <3>1, <3>2
  <2>9. InOrder(out, stitcher.last)
    BY <2>8 DEF InOrder
  <2> QED BY <2>1, <2>3, <2>4, <2>7, <2>9 DEF out
<1> HIDE DEF V
<1>5. \A n \in 0..N : f[n] \in V
    BY <1>1, <1>3, <1>4, StaysIn
<1>6. Emit(stitcher, words) \in V
    BY <1>1, <1>2, <1>5
<1> QED BY <1>6 DEF V

(* A window keeps no more words back than it may, and emits in order. *)
LEMMA PushWindowSound ==
    ASSUME NEW stitcher \in Stitchers, NEW words \in Seq(Words), NEW logicalEnd
    PROVE  LET s == PushWindow(stitcher, words, logicalEnd)
           IN  /\ s \in Stitchers /\ Len(s.tail) <= TailWords
               /\ InOrder(s.out, stitcher.last) /\ s.last = LastOf(s.out, stitcher.last)
<1> DEFINE current == Sorted(words)
           replayed == ReplayedPriorIndices(stitcher.tail, current)
           prior == Among(stitcher.tail, DOMAIN stitcher.tail \ replayed)
           merged == Sorted(prior \o current)
           ready == {i \in DOMAIN merged : merged[i].end < logicalEnd - TailTime}
           early == Among(merged, ready)
           late == Among(merged, DOMAIN merged \ ready)
           overflow == Larger(0, Len(late) - TailWords)
           tail == SubSeq(late, overflow + 1, Len(late))
           emitted == Emit(stitcher, early \o SubSeq(late, 1, overflow))
<1>1. PushWindow(stitcher, words, logicalEnd) = [emitted EXCEPT !.tail = tail]
    BY Zenon DEF PushWindow
<1>2. current \in Seq(Words)
    BY SortedIsSeq
<1> HIDE DEF current, replayed
<1>3. prior \in Seq(Words)
  <2>1. stitcher.tail \in Seq(Words)
    BY DEF Stitchers
  <2> QED BY <2>1, AmongIsSeq
<1> HIDE DEF prior
<1>4. merged \in Seq(Words)
  <2>1. prior \o current \in Seq(Words)
    BY <1>2, <1>3
  <2> QED BY <2>1, SortedIsSeq
<1> HIDE DEF merged, ready
<1>5. early \in Seq(Words) /\ late \in Seq(Words)
    BY <1>4, AmongIsSeq
<1> HIDE DEF early, late
<1>6. overflow \in 0..Len(late) /\ Len(late) - overflow <= TailWords /\ Len(late) \in Nat
    BY <1>5, TimesAssumption DEF Larger
<1> HIDE DEF overflow
<1>7. tail \in Seq(Words) /\ Len(tail) <= TailWords
    BY <1>5, <1>6, TimesAssumption
<1>8. early \o SubSeq(late, 1, overflow) \in Seq(Words)
  <2>1. SubSeq(late, 1, overflow) \in Seq(Words)
    BY <1>5, <1>6
  <2> QED BY <1>5, <2>1
<1>9. /\ emitted \in Stitchers
      /\ InOrder(emitted.out, stitcher.last) /\ emitted.last = LastOf(emitted.out, stitcher.last)
    BY <1>8, EmitSound
<1> HIDE DEF emitted, tail
<1>10. [emitted EXCEPT !.tail = tail] = [tail |-> tail, last |-> emitted.last, out |-> emitted.out]
    BY <1>9 DEF Stitchers
<1>11. emitted.out \in Seq(Words) /\ emitted.last \in {<<>>} \union {<<w>> : w \in Words}
    BY <1>9 DEF Stitchers
<1> QED BY <1>1, <1>7, <1>9, <1>10, <1>11 DEF Stitchers

--------------------------------------------------------------------------------
(* The segmenter makes segments that follow one another, and refuses no word in order. *)

(* Every segment lasts, says something and ends before the next one starts. *)
Ordered(segments) ==
    \A i \in 1..Len(segments) :
        /\ segments[i].start < segments[i].end /\ segments[i].text # <<>>
        /\ i > 1 => segments[i - 1].end <= segments[i].start

(* Every segment of the sequence has ended by a time. *)
EndedBy(segments, time) == segments # <<>> => segments[Len(segments)].end <= time

(* The segmenter has refused nothing, and can close its current segment at any later time. *)
SegmenterSound(seg) ==
    /\ ~seg.rejected /\ Ordered(seg.segments)
    /\ IF seg.current = NoSegment THEN seg.segments = <<>>
       ELSE /\ seg.current.text # <<>> /\ seg.current.start <= seg.previous
            /\ EndedBy(seg.segments, seg.current.start)

(* A segment that starts when the others have ended goes on with them. *)
LEMMA OrderedAppend ==
    ASSUME NEW segments \in Seq(Segments), Ordered(segments),
           NEW s \in Segments, s.start < s.end, s.text # <<>>, EndedBy(segments, s.start)
    PROVE  LET more == Append(segments, s)
           IN  /\ more \in Seq(Segments) /\ Ordered(more)
               /\ \A time \in Nat : s.end <= time => EndedBy(more, time)
<1> DEFINE more == Append(segments, s)
           n == Len(segments)
<1>1. n \in Nat
    OBVIOUS
<1>2. /\ more \in Seq(Segments) /\ Len(more) = n + 1 /\ more[n + 1] = s
      /\ \A i \in 1..n : more[i] = segments[i]
    BY AppendProperties
<1> HIDE DEF more
<1>3. ASSUME NEW i \in 1..(n + 1)
      PROVE  /\ more[i].start < more[i].end /\ more[i].text # <<>>
             /\ i > 1 => more[i - 1].end <= more[i].start
  <2>1. CASE i \in 1..n
    <3>1. more[i] = segments[i] /\ (i > 1 => i - 1 \in 1..n)
      BY <1>1, <1>2, <2>1
    <3>2. i > 1 => more[i - 1] = segments[i - 1]
      BY <1>2, <3>1
    <3> QED BY <2>1, <3>1, <3>2 DEF Ordered
  <2>2. CASE i = n + 1
    <3>1. more[i] = s
      BY <1>2, <2>2
    <3>2. ASSUME i > 1 PROVE more[i - 1].end <= s.start
      <4>1. n \in 1..n /\ segments # <<>> /\ i - 1 = n
        BY <1>1, <2>2, <3>2
      <4> QED BY <1>2, <4>1 DEF EndedBy
    <3> QED BY <3>1, <3>2
  <2> QED BY <1>1, <2>1, <2>2
<1>4. Ordered(more)
    BY <1>2, <1>3 DEF Ordered
<1> QED BY <1>2, <1>4 DEF EndedBy, more

(* Flush closes the segment before the limit, which has to be after its start. *)
LEMMA FlushSound ==
    ASSUME NEW seg \in Segmenters, SegmenterSound(seg), seg.current # NoSegment,
           NEW limit \in {<<>>} \union {<<n>> : n \in Nat},
           limit # <<>> => limit[1] > seg.current.start
    PROVE  LET closed == Flush(seg, limit)
           IN  /\ closed \in Segmenters /\ ~closed.rejected /\ Ordered(closed.segments)
               /\ closed.current = NoSegment
               /\ limit # <<>> => EndedBy(closed.segments, limit[1])
<1> DEFINE natural == Larger(seg.current.start + 1, seg.current.end + Linger)
           end == IF limit = <<>> THEN natural ELSE Smaller(natural, limit[1])
           last == [seg.current EXCEPT !.end = end]
           closed == Flush(seg, limit)
<1>1. /\ seg.current \in Segments /\ seg.current.start \in Nat /\ seg.current.end \in Nat
      /\ Linger \in Nat /\ seg.segments \in Seq(Segments) /\ seg.rejected \in BOOLEAN
    BY TimesAssumption DEF Segmenters, Segments
<1>2. natural \in Nat /\ natural > seg.current.start
    BY <1>1 DEF Larger
<1>3. closed = [seg EXCEPT !.current = NoSegment, !.boundary = FALSE,
                           !.rejected = @ \/ end <= seg.current.start,
                           !.segments = Append(@, last)]
    BY Zenon DEF Flush
<1> HIDE DEF natural
<1>4. end \in Nat /\ end > seg.current.start /\ (limit # <<>> => end <= limit[1] /\ limit[1] \in Nat)
    BY <1>2 DEF Smaller
<1> HIDE DEF end
<1>5. last \in Segments /\ last.start = seg.current.start /\ last.end = end
      /\ last.text = seg.current.text
    BY <1>1, <1>4 DEF Segments
<1> HIDE DEF last
<1>6. closed.current = NoSegment /\ closed.segments = Append(seg.segments, last)
      /\ closed.rejected = (seg.rejected \/ end <= seg.current.start)
    BY <1>3 DEF Segmenters
<1>7. ~closed.rejected
    BY <1>1, <1>4, <1>6 DEF SegmenterSound
<1>8. closed \in Segmenters
    BY FlushType
<1> HIDE DEF closed
<1>9. Ordered(seg.segments) /\ EndedBy(seg.segments, last.start) /\ last.text # <<>>
    BY <1>5 DEF SegmenterSound
<1>10. /\ Ordered(closed.segments)
       /\ \A time \in Nat : last.end <= time => EndedBy(closed.segments, time)
    BY <1>1, <1>4, <1>5, <1>6, <1>9, OrderedAppend
<1> QED BY <1>4, <1>5, <1>6, <1>7, <1>8, <1>10 DEF closed

(* A word that starts no earlier than the one before is taken. *)
LEMMA PushWordSound ==
    ASSUME NEW seg \in Segmenters, SegmenterSound(seg), NEW w \in Words, w.start >= seg.previous
    PROVE  SegmenterSound(PushWord(seg, w)) /\ PushWord(seg, w).previous = w.start
<1> DEFINE flushed == IF ShouldFlushBefore(seg, w) THEN Flush(seg, <<w.start>>) ELSE seg
           pushed == PushWord(seg, w)
<1>1. w.start \in Nat /\ w.end \in Nat /\ w.text \in STRING /\ w.start <= w.end
    BY DEF Words
<1>2. ~Refused(seg, w)
  <2>1. seg.previous \in Int
    BY DEF Segmenters
  <2> QED BY <1>1, <2>1 DEF Refused
<1>3. pushed =
        [flushed EXCEPT
            !.current = IF flushed.current = NoSegment
                        THEN [start |-> w.start, end |-> w.end, text |-> <<w.text>>]
                        ELSE [flushed.current EXCEPT !.end = Larger(@, w.end),
                                                     !.text = Append(@, w.text)],
            !.previous = w.start,
            !.boundary = w.stop,
            !.rejected = @ \/ Refused(seg, w)]
    BY Zenon DEF PushWord
<1>4. /\ flushed \in Segmenters /\ ~flushed.rejected /\ Ordered(flushed.segments)
      /\ \/ flushed.current = NoSegment /\ EndedBy(flushed.segments, w.start)
         \/ /\ flushed.current # NoSegment /\ flushed.current.text # <<>>
            /\ flushed.current.start <= w.start
            /\ EndedBy(flushed.segments, flushed.current.start)
  <2>1. CASE ShouldFlushBefore(seg, w)
    <3>1. seg.current # NoSegment /\ w.start > seg.current.start
      BY <2>1 DEF ShouldFlushBefore
    <3>2. <<w.start>> \in {<<>>} \union {<<n>> : n \in Nat} /\ <<w.start>> # <<>> /\ <<w.start>>[1] = w.start
      BY <1>1
    <3>3. flushed = Flush(seg, <<w.start>>)
      BY <2>1
    <3> HIDE DEF flushed
    <3> QED BY <3>1, <3>2, <3>3, FlushSound
  <2>2. CASE ~ShouldFlushBefore(seg, w)
    <3>1. flushed = seg
      BY <2>2
    <3>2. seg.previous \in Int /\ seg.current.start \in Nat
      BY DEF Segmenters, Segments
    <3>3. CASE seg.current = NoSegment
      BY <3>1, <3>3 DEF SegmenterSound, EndedBy
    <3>4. CASE seg.current # NoSegment
      BY <1>1, <3>1, <3>2, <3>4 DEF SegmenterSound
    <3> QED BY <3>3, <3>4
  <2> QED BY <2>1, <2>2
<1> HIDE DEF flushed
<1>5. /\ pushed.previous = w.start /\ pushed.segments = flushed.segments
      /\ pushed.rejected = (flushed.rejected \/ Refused(seg, w))
      /\ pushed.current = IF flushed.current = NoSegment
                          THEN [start |-> w.start, end |-> w.end, text |-> <<w.text>>]
                          ELSE [flushed.current EXCEPT !.end = Larger(@, w.end),
                                                       !.text = Append(@, w.text)]
    BY <1>3, <1>4 DEF Segmenters
<1> HIDE DEF pushed
<1>6. /\ pushed.current.text # <<>> /\ pushed.current.start <= w.start
      /\ EndedBy(flushed.segments, pushed.current.start)
  <2>1. CASE flushed.current = NoSegment
    BY <1>1, <1>4, <1>5, <2>1
  <2>2. CASE flushed.current # NoSegment
    <3>1. flushed.current \in [start : Nat, end : Nat, text : Seq(STRING)]
      BY <1>4 DEF Segmenters, Segments
    <3>2. pushed.current.start = flushed.current.start
          /\ pushed.current.text = Append(flushed.current.text, w.text)
      BY <1>5, <2>2, <3>1
    <3>3. Append(flushed.current.text, w.text) # <<>>
      BY <1>1, <3>1, AppendProperties
    <3> QED BY <1>4, <2>2, <3>2, <3>3
  <2> QED BY <2>1, <2>2
<1>7. pushed.current # NoSegment
    BY <1>6 DEF NoSegment
<1> QED BY <1>2, <1>4, <1>5, <1>6, <1>7 DEF SegmenterSound, pushed

(* The segmenter has seen the last word that the stitcher emitted. *)
Follows(seg, last) == seg.previous = IF last = <<>> THEN -1 ELSE last[1].start

(* The words of a window are taken, all of them, when the stitcher emitted them. *)
LEMMA PushAllSound ==
    ASSUME NEW seg \in Segmenters, SegmenterSound(seg), NEW words \in Seq(Words),
           NEW last \in {<<>>} \union {<<w>> : w \in Words}, Follows(seg, last),
           InOrder(words, last)
    PROVE  LET pushed == PushAll(seg, words)
           IN  /\ pushed \in Segmenters /\ SegmenterSound(pushed)
               /\ Follows(pushed, LastOf(words, last))
<1> DEFINE N == Len(words)
<1>1. N \in Nat /\ \A n \in 1..N : words[n] \in Words
    OBVIOUS
<1>2. PICK f \in [0..N -> Segmenters] :
          /\ f[0] = seg
          /\ \A n \in 1..N : f[n] = PushWord(f[n - 1], words[n])
          /\ PushAll(seg, words) = f[N]
    BY PushRecursion
<1> DEFINE T == {n \in 0..N : /\ SegmenterSound(f[n])
                              /\ f[n].previous = IF n = 0 THEN seg.previous ELSE words[n].start}
<1>3. 0 \in T
    BY <1>1, <1>2
<1>4. ASSUME NEW n \in 1..N, n - 1 \in T PROVE n \in T
  <2> DEFINE s == f[n - 1]
             w == words[n]
  <2>1. /\ s \in Segmenters /\ SegmenterSound(s) /\ w \in Words /\ n \in 0..N
        /\ f[n] = PushWord(s, w)
        /\ s.previous = IF n = 1 THEN seg.previous ELSE words[n - 1].start
    BY <1>1, <1>2, <1>4
  <2>2. w.start >= s.previous
    <3>1. CASE n = 1
      <4>1. last # <<>> => w.start >= last[1].start
        BY <1>1, <3>1 DEF InOrder
      <4>2. w.start \in Nat
        BY <2>1 DEF Words
      <4> QED BY <2>1, <3>1, <4>1, <4>2 DEF Follows
    <3>2. CASE n # 1
      BY <1>1, <2>1, <3>2 DEF InOrder
    <3> QED BY <3>1, <3>2
  <2> HIDE DEF s
  <2>3. SegmenterSound(PushWord(s, w)) /\ PushWord(s, w).previous = w.start
    BY <2>1, <2>2, PushWordSound
  <2> QED BY <2>1, <2>3
<1> HIDE DEF T
<1>5. 0..N \subseteq T
    BY <1>1, <1>3, <1>4, Induction
<1>6. N \in T /\ N \in 0..N
    BY <1>1, <1>5
<1>7. /\ f[N] \in Segmenters /\ SegmenterSound(f[N])
      /\ f[N].previous = IF N = 0 THEN seg.previous ELSE words[N].start
    BY <1>2, <1>6 DEF T
<1>8. words = <<>> <=> N = 0
    OBVIOUS
<1>9. Follows(f[N], LastOf(words, last))
    BY <1>7, <1>8 DEF Follows, LastOf
<1> QED BY <1>2, <1>7, <1>9

(* What clampSegmentsToDuration leaves of them is what the codec accepts. *)
LEMMA ClampEncodable ==
    ASSUME NEW segments \in Seq(Segments), Ordered(segments), NEW duration \in Nat
    PROVE  /\ Clamp(segments, duration) \in Seq(Segments)
           /\ Encodable(duration, Clamp(segments, duration))
<1> DEFINE N == Len(segments)
           chosen == {i \in DOMAIN segments : segments[i].start < duration}
           inside == Among(segments, chosen)
           Early == {s \in Segments : s.start < duration}
           Clamped == [i \in DOMAIN inside |-> [inside[i] EXCEPT !.end = Smaller(@, duration)]]
<1>1. N \in Nat /\ \A n \in 1..N : segments[n] \in Segments
    OBVIOUS
<1>2. \A i \in chosen : i \in 1..N => segments[i] \in Early
    OBVIOUS
<1>3. Clamp(segments, duration) = Clamped
    BY Zenon DEF Clamp
<1> HIDE DEF chosen, Early
<1>4. PICK f : AmongBy(f, segments, chosen, Early)
    BY <1>2, AmongRecursion
<1>5. /\ f \in [0..N -> Seq(Early)] /\ f[0] = <<>> /\ inside = f[N]
      /\ \A n \in 1..N : f[n] = IF n \in chosen THEN Append(f[n - 1], segments[n]) ELSE f[n - 1]
    BY <1>4 DEF AmongBy
<1> HIDE DEF inside
<1> DEFINE T == {n \in 0..N : Ordered(f[n]) /\ (n = 0 => f[n] = <<>>)
                              /\ (n > 0 => EndedBy(f[n], segments[n].end))}
<1>6. 0 \in T
    BY <1>1, <1>5 DEF Ordered
<1>7. ASSUME NEW n \in 1..N, n - 1 \in T PROVE n \in T
  <2> DEFINE kept == f[n - 1]
             s == segments[n]
  <2>1. n - 1 \in 0..N /\ n \in 0..N
    BY <1>1
  <2>2. kept \in Seq(Segments) /\ Ordered(kept) /\ (n = 1 => kept = <<>>)
        /\ (n > 1 => EndedBy(kept, segments[n - 1].end))
    <3>1. kept \in Seq(Early) /\ Early \subseteq Segments
      BY <1>5, <2>1 DEF Early
    <3> QED BY <1>7, <3>1
  <2>3. /\ s \in Segments /\ s.start < s.end /\ s.text # <<>> /\ s.start \in Nat /\ s.end \in Nat
        /\ n > 1 => segments[n - 1].end <= s.start /\ segments[n - 1].end \in Nat
    <3>1. n > 1 => segments[n - 1] \in Segments
      BY <1>1
    <3> QED BY <1>1, <3>1 DEF Ordered, Segments
  <2>4. f[n] = IF n \in chosen THEN Append(kept, s) ELSE kept
    BY <1>5
  <2> HIDE DEF kept, s
  <2>5. EndedBy(kept, s.start)
    <3>1. CASE n = 1
      BY <2>2, <3>1 DEF EndedBy
    <3>2. CASE n # 1
      <4>1. kept # <<>> => kept[Len(kept)] \in Segments
        BY <2>2
      <4>2. n > 1
        BY <1>1, <3>2
      <4>3. EndedBy(kept, segments[n - 1].end) /\ segments[n - 1].end <= s.start
            /\ segments[n - 1].end \in Nat /\ s.start \in Nat
        BY <2>2, <2>3, <4>2
      <4>4. ASSUME kept # <<>> PROVE kept[Len(kept)].end <= s.start
        <5> DEFINE e == kept[Len(kept)].end
                   p == segments[n - 1].end
        <5>1. e \in Nat
          BY <4>1, <4>4 DEF Segments
        <5>2. e <= p /\ p <= s.start /\ p \in Nat /\ s.start \in Nat
          BY <4>3, <4>4 DEF EndedBy
        <5> HIDE DEF e, p
        <5>3. e <= s.start
          BY <5>1, <5>2
        <5> QED BY <5>3 DEF e
      <4> QED BY <4>4 DEF EndedBy
    <3> QED BY <3>1, <3>2
  <2>6. CASE n \in chosen
    <3>1. Ordered(Append(kept, s)) /\ EndedBy(Append(kept, s), s.end)
      BY <2>2, <2>3, <2>5, OrderedAppend
    <3>2. f[n] = Append(kept, s) /\ n # 0
      BY <1>1, <2>4, <2>6
    <3> QED BY <2>1, <3>1, <3>2 DEF s
  <2>7. CASE n \notin chosen
    <3>1. kept # <<>> => kept[Len(kept)] \in Segments
      BY <2>2
    <3>2. EndedBy(kept, s.end)
      BY <2>3, <2>5, <3>1 DEF EndedBy, Segments
    <3> QED BY <2>1, <2>2, <2>4, <2>7, <3>2 DEF s
  <2> QED BY <2>6, <2>7
<1> HIDE DEF T
<1>8. 0..N \subseteq T
    BY <1>1, <1>6, <1>7, Induction
<1>9. Ordered(inside) /\ inside \in Seq(Early)
    BY <1>1, <1>5, <1>8 DEF T
<1>10. DOMAIN inside = 1..Len(inside) /\ Len(inside) \in Nat
    BY <1>9
<1>11. ASSUME NEW i \in 1..Len(inside)
       PROVE  /\ Clamped[i] \in Segments /\ Clamped[i].start < Clamped[i].end
              /\ Clamped[i].text # <<>> /\ Clamped[i].end <= duration
              /\ Clamped[i].start = inside[i].start /\ Clamped[i].end <= inside[i].end
              /\ Clamped[i].end \in Nat /\ inside[i].end \in Nat /\ inside[i].start \in Nat
  <2>1. inside[i] \in Segments /\ inside[i].start < duration
    BY <1>9, <1>10 DEF Early
  <2>2. /\ inside[i].start \in Nat /\ inside[i].end \in Nat /\ inside[i].text \in Seq(STRING)
        /\ inside[i].start < inside[i].end /\ inside[i].text # <<>>
    BY <1>9, <1>10, <2>1 DEF Ordered, Segments
  <2>3. Clamped[i] = [inside[i] EXCEPT !.end = Smaller(inside[i].end, duration)]
    BY <1>10
  <2>4. Smaller(inside[i].end, duration) \in Nat /\ inside[i].start < Smaller(inside[i].end, duration)
        /\ Smaller(inside[i].end, duration) <= duration
        /\ Smaller(inside[i].end, duration) <= inside[i].end
    BY <2>1, <2>2 DEF Smaller
  <2> HIDE DEF Clamped
  <2> QED BY <2>1, <2>2, <2>3, <2>4 DEF Segments
<1>12. Clamped \in Seq(Segments) /\ Len(Clamped) = Len(inside) /\ DOMAIN Clamped = 1..Len(inside)
  <2>1. Clamped \in [1..Len(inside) -> Segments]
    BY <1>10, <1>11
  <2> HIDE DEF Clamped
  <2> QED BY <1>10, <2>1
<1>13. ASSUME NEW i \in 1..Len(inside), i > 1
       PROVE  Clamped[i].start >= Clamped[i - 1].end
  <2>1. i - 1 \in 1..Len(inside)
    BY <1>10, <1>13
  <2>2. inside[i - 1].end <= inside[i].start
    BY <1>9, <1>13 DEF Ordered
  <2> HIDE DEF Clamped
  <2> QED BY <1>11, <2>1, <2>2
<1> HIDE DEF Clamped
<1>14. Clamped # <<>> => duration >= Last(Clamped).end
  <2>1. ASSUME Clamped # <<>> PROVE Len(Clamped) \in 1..Len(inside)
    BY <1>10, <1>12, <2>1
  <2> QED BY <1>11, <1>12, <2>1 DEF Last
<1>15. Encodable(duration, Clamped)
    BY <1>11, <1>12, <1>13, <1>14 DEF Encodable
<1> QED BY <1>3, <1>12, <1>15

--------------------------------------------------------------------------------
(* What is kept of the words: the stitcher's tail is bounded, and the segmenter can take *)
(* whatever the stitcher emits next.                                                       *)
CaptionsSound ==
    /\ captions \in [stitcher : Stitchers, segmenter : Segmenters]
    /\ Len(captions.stitcher.tail) <= TailWords
    /\ SegmenterSound(captions.segmenter)
    /\ Follows(captions.segmenter, captions.stitcher.last)

(* What is made of the words at the end is accepted. *)
LEMMA FinishedAccepted ==
    ASSUME CaptionsSound, decode.read \in Nat
    PROVE  Accepted(Finished) /\ Finished.duration = decode.read /\ Finished.segments \in Seq(Segments)
<1> DEFINE stitcher == FinishStitcher(captions.stitcher)
           pushed == PushAll(captions.segmenter, stitcher.out)
           segmenter == Flush(pushed, <<>>)
<1>1. /\ captions.stitcher \in Stitchers /\ captions.segmenter \in Segmenters
      /\ captions.stitcher.tail \in Seq(Words) /\ SegmenterSound(captions.segmenter)
      /\ captions.stitcher.last \in {<<>>} \union {<<w>> : w \in Words}
      /\ Follows(captions.segmenter, captions.stitcher.last)
    BY DEF CaptionsSound, Stitchers
<1>2. stitcher.out \in Seq(Words) /\ InOrder(stitcher.out, captions.stitcher.last)
  <2> DEFINE e == Emit(captions.stitcher, captions.stitcher.tail)
  <2>1. e \in Stitchers /\ InOrder(e.out, captions.stitcher.last)
    BY <1>1, EmitSound
  <2>2. stitcher = [e EXCEPT !.tail = <<>>]
    BY DEF FinishStitcher
  <2> HIDE DEF e
  <2>3. stitcher.out = e.out /\ e.out \in Seq(Words)
    BY <2>1, <2>2 DEF Stitchers
  <2> QED BY <2>1, <2>3
<1> HIDE DEF stitcher
<1>3. pushed \in Segmenters /\ SegmenterSound(pushed)
    BY <1>1, <1>2, PushAllSound
<1> HIDE DEF pushed
<1>4. segmenter \in Segmenters /\ ~segmenter.rejected /\ Ordered(segmenter.segments)
  <2>1. CASE pushed.current = NoSegment
    <3>1. segmenter = pushed
      BY <2>1 DEF Flush
    <3> QED BY <1>3, <3>1 DEF SegmenterSound
  <2>2. CASE pushed.current # NoSegment
    <3> DEFINE none == <<>>
    <3>1. none \in {<<>>} \union {<<n>> : n \in Nat} /\ none = <<>>
      OBVIOUS
    <3> HIDE DEF none
    <3>2. Flush(pushed, none) \in Segmenters /\ ~Flush(pushed, none).rejected
          /\ Ordered(Flush(pushed, none).segments)
      BY <1>3, <2>2, <3>1, FlushSound
    <3> QED BY <3>1, <3>2
  <2> QED BY <2>1, <2>2
<1> HIDE DEF segmenter
<1>5. Finished = [rejected |-> segmenter.rejected, duration |-> decode.read,
                  segments |-> Clamp(segmenter.segments, decode.read)]
    BY Zenon DEF Finished, stitcher, pushed, segmenter
<1>6. segmenter.segments \in Seq(Segments)
    BY <1>4 DEF Segmenters
<1>7. /\ Clamp(segmenter.segments, decode.read) \in Seq(Segments)
      /\ Encodable(decode.read, Clamp(segmenter.segments, decode.read))
    BY <1>4, <1>6, ClampEncodable
<1> QED BY <1>4, <1>5, <1>7 DEF Accepted

(* The captions before anything was heard *)
LEMMA NothingHeard ==
    /\ [stitcher |-> Nobody, segmenter |-> NewSegmenter] \in [stitcher : Stitchers, segmenter : Segmenters]
    /\ Len(Nobody.tail) <= TailWords
    /\ SegmenterSound(NewSegmenter) /\ Follows(NewSegmenter, Nobody.last)
<1>1. <<>> \in Seq(Words) /\ <<>> \in Seq(Segments) /\ <<>> \in Seq(STRING)
    OBVIOUS
<1>2. Nobody \in Stitchers
    BY <1>1 DEF Nobody, Stitchers
<1>3. NoSegment \in Segments
    BY <1>1 DEF NoSegment, Segments
<1>4. NewSegmenter \in Segmenters
    BY <1>1, <1>3 DEF NewSegmenter, Segmenters
<1>5. SegmenterSound(NewSegmenter) /\ Follows(NewSegmenter, Nobody.last) /\ Len(Nobody.tail) = 0
    BY DEF SegmenterSound, Ordered, NewSegmenter, Follows, Nobody
<1> QED BY <1>2, <1>4, <1>5, TimesAssumption

(* What the service may hear is words, of a sequence of words. *)
LEMMA HearingsAreWords ==
    ASSUME NEW words \in Seq(Words), NEW first \in Nat, NEW last \in Nat, first <= last,
           NEW heard \in Hearings(words, first, last)
    PROVE  heard \in Seq(Words)
<1> DEFINE there == {i \in DOMAIN words : words[i].end > first /\ words[i].start < last}
           cut == {i \in there : words[i].start < first \/ words[i].end > last}
           Part(w) == [w EXCEPT !.start = Larger(@, first), !.end = Smaller(@, last)]
           Late(w, d) == [w EXCEPT !.start = Smaller(@ + d, last), !.end = Smaller(@ + d, last)]
           Said(drift) == [i \in DOMAIN words |->
                              IF i \in there \ cut THEN Late(words[i], drift[i]) ELSE Part(words[i])]
<1>1. PICK some \in SUBSET cut, drift \in [there \ cut -> Drifts] :
          heard = Among(Said(drift), some \union (there \ cut))
  <2>1. heard \in UNION {{Among(Said(drift), h) : drift \in [there \ cut -> Drifts]} :
                             h \in {some \union (there \ cut) : some \in SUBSET cut}}
    BY Zenon DEF Hearings
  <2> HIDE DEF there, cut, Said
  <2> QED BY <2>1
<1>2. ASSUME NEW w \in Words, NEW d \in Nat PROVE Late(w, d) \in Words
  <2>1. w \in [text : STRING, start : Nat, end : Nat, stop : BOOLEAN] /\ w.start <= w.end
    BY DEF Words
  <2>2. /\ Smaller(w.start + d, last) \in Nat /\ Smaller(w.end + d, last) \in Nat
        /\ Smaller(w.start + d, last) <= Smaller(w.end + d, last)
    BY <2>1 DEF Smaller
  <2>3. /\ Late(w, d) \in [text : STRING, start : Nat, end : Nat, stop : BOOLEAN]
        /\ Late(w, d).start = Smaller(w.start + d, last)
        /\ Late(w, d).end = Smaller(w.end + d, last)
    BY <2>1, <2>2
  <2> HIDE DEF Late
  <2> QED BY <2>2, <2>3 DEF Words
<1>3. ASSUME NEW w \in Words, w.end > first, w.start < last PROVE Part(w) \in Words
  <2>1. w \in [text : STRING, start : Nat, end : Nat, stop : BOOLEAN] /\ w.start <= w.end
    BY DEF Words
  <2>2. /\ Larger(w.start, first) \in Nat /\ Smaller(w.end, last) \in Nat
        /\ Larger(w.start, first) <= Smaller(w.end, last)
    BY <1>3, <2>1 DEF Smaller, Larger
  <2>3. /\ Part(w) \in [text : STRING, start : Nat, end : Nat, stop : BOOLEAN]
        /\ Part(w).start = Larger(w.start, first) /\ Part(w).end = Smaller(w.end, last)
    BY <2>1, <2>2
  <2> HIDE DEF Part
  <2> QED BY <2>2, <2>3 DEF Words
<1> DEFINE all == Said(drift)
           R == {all[i] : i \in DOMAIN words}
<1>4. DOMAIN words = 1..Len(words) /\ Len(words) \in Nat /\ \A i \in DOMAIN words : words[i] \in Words
    OBVIOUS
<1>5. ASSUME NEW i \in some \union (there \ cut) PROVE i \in DOMAIN words /\ all[i] \in Words
  <2>1. i \in there /\ words[i] \in Words /\ words[i].end > first /\ words[i].start < last
    BY <1>1, <1>4
  <2>2. CASE i \in there \ cut
    <3>1. drift[i] \in Nat /\ all[i] = Late(words[i], drift[i])
      BY <1>1, <2>1, <2>2, BoundsAssumption
    <3> QED BY <1>2, <2>1, <3>1
  <2>3. CASE i \notin there \ cut
    <3>1. all[i] = Part(words[i])
      BY <2>1, <2>3
    <3> HIDE DEF Part, all
    <3> QED BY <1>3, <2>1, <3>1
  <2> QED BY <2>2, <2>3
<1>6. all \in Seq(R) /\ Len(all) = Len(words)
  <2>1. all \in [1..Len(words) -> R]
    BY <1>4
  <2> HIDE DEF all, R
  <2> QED BY <1>4, <2>1
<1> HIDE DEF R
<1>7. Among(all, some \union (there \ cut)) \in Seq(Words)
  <2> DEFINE chosen == some \union (there \ cut)
  <2>1. \A i \in chosen : i \in 1..Len(all) => all[i] \in Words
    BY <1>5
  <2> HIDE DEF chosen, all
  <2>2. Among(all, chosen) \in Seq(Words)
    BY <1>6, <2>1, AmongIsSeq
  <2> QED BY <2>2 DEF chosen
<1> QED BY <1>1, <1>7

(* A window that is heard keeps what the captions need. *)
LEMMA HearSound ==
    ASSUME CaptionsSound, said.recording \in Recordings, decode.buffer \in Nat, InputEnd \in Nat,
           decode.buffer <= InputEnd, Hear
    PROVE  CaptionsSound' /\ UNCHANGED job
<1>1. PICK words \in Hearings(said.recording.words, decode.buffer, InputEnd) :
          LET stitcher == PushWindow(captions.stitcher, words, LogicalEnd)
          IN  /\ captions' = [stitcher |-> [stitcher EXCEPT !.out = <<>>],
                              segmenter |-> PushAll(captions.segmenter, stitcher.out)]
              /\ UNCHANGED job
    BY DEF Hear
<1> DEFINE stitcher == PushWindow(captions.stitcher, words, LogicalEnd)
           pushed == PushAll(captions.segmenter, stitcher.out)
<1>2. words \in Seq(Words)
    BY RecordingsAssumption, HearingsAreWords
<1>3. captions' = [stitcher |-> [stitcher EXCEPT !.out = <<>>], segmenter |-> pushed] /\ UNCHANGED job
    BY <1>1
<1>4. /\ captions.stitcher \in Stitchers /\ captions.segmenter \in Segmenters
      /\ SegmenterSound(captions.segmenter)
      /\ Follows(captions.segmenter, captions.stitcher.last)
      /\ captions.stitcher.last \in {<<>>} \union {<<w>> : w \in Words}
    BY DEF CaptionsSound, Stitchers
<1>5. /\ stitcher \in Stitchers /\ Len(stitcher.tail) <= TailWords
      /\ InOrder(stitcher.out, captions.stitcher.last)
      /\ stitcher.last = LastOf(stitcher.out, captions.stitcher.last)
    BY <1>2, <1>4, PushWindowSound
<1> HIDE DEF stitcher
<1>6. /\ stitcher.out \in Seq(Words) /\ stitcher.tail \in Seq(Words)
      /\ stitcher.last \in {<<>>} \union {<<w>> : w \in Words}
      /\ stitcher = [tail |-> stitcher.tail, last |-> stitcher.last, out |-> stitcher.out]
    BY <1>5 DEF Stitchers
<1>7. pushed \in Segmenters /\ SegmenterSound(pushed) /\ Follows(pushed, stitcher.last)
    BY <1>4, <1>5, <1>6, PushAllSound
<1> HIDE DEF pushed
<1> DEFINE quiet == [tail |-> stitcher.tail, last |-> stitcher.last, out |-> <<>>]
<1>8. [stitcher EXCEPT !.out = <<>>] = quiet
    BY <1>6
<1>9. quiet \in Stitchers /\ quiet.tail = stitcher.tail /\ quiet.last = stitcher.last
  <2>1. <<>> \in Seq(Words)
    OBVIOUS
  <2> QED BY <1>6, <2>1 DEF Stitchers
<1>10. captions' = [stitcher |-> quiet, segmenter |-> pushed]
    BY <1>3, <1>8
<1> HIDE DEF quiet
<1> QED BY <1>3, <1>5, <1>7, <1>9, <1>10 DEF CaptionsSound

--------------------------------------------------------------------------------
(* The inductive invariant of the pipeline *)

(* The states of decode *)
Decodes ==
    [at : {"reading", "window", "last", "input", "exit", "stopping", "draining", "over"},
     read : Nat, buffer : Nat, logical : Nat, good : BOOLEAN]

(* The types of the machine; its times and amounts are any numbers. *)
Types ==
    /\ said \in [recording : Recordings, local : BOOLEAN]
    /\ decode \in Decodes
    /\ ffmpeg \in [alive : BOOLEAN, code : {0, 1}, out : Nat, kill : {"no", "asked", "forced"}]
    /\ pump \in [at : {"reading", "writing", "failing", "cancelling", "stuck", "settled"},
                 failed : BOOLEAN, whole : BOOLEAN, fed : BOOLEAN]
    /\ job \in [signal : {"none", "cancelled", "speech"}, lifecycle : BOOLEAN,
                outcome : {"none", "completed", "failed"}]

(* What is read was written, and what is kept of it begins a context before the next  *)
(* window; another read is asked for only when that window is not full.                 *)
Amounts ==
    /\ decode.read <= Length /\ ffmpeg.out <= Length
    /\ ~ffmpeg.alive => decode.read <= ffmpeg.out
    /\ decode.buffer <= decode.logical /\ decode.logical <= decode.buffer + Context
    /\ decode.at = "reading" => decode.read < decode.logical + Window + Context
    /\ decode.at = "last" => decode.logical < decode.read
    /\ \E most \in Chunks : /\ \A n \in Chunks : n <= most
                            /\ decode.read - decode.buffer < Window + 2 * Context + most

(* Where transcode is, FFmpeg and its input are as far as it relies on. *)
Ending ==
    /\ decode.at \in {"last", "input", "exit"} =>
           ~ffmpeg.alive /\ decode.read = ffmpeg.out
    /\ decode.at = "exit" => pump.at = "settled" /\ ~pump.failed
    /\ decode.at = "draining" => ~ffmpeg.alive
    /\ decode.at = "over" => ~ffmpeg.alive /\ pump.at = "settled"
    /\ decode.good => decode.at = "over" /\ (job.signal = "none" => decode.read = Length)

(* FFmpeg ends well early only when its input did, and an input that ended early      *)
(* failed, unless the attempt is aborted.                                               *)
Early ==
    /\ ~ffmpeg.alive /\ ffmpeg.code = 0 /\ ffmpeg.out < Length =>
           pump.at \in {"failing", "cancelling", "settled"} /\ ~pump.whole
    /\ pump.whole => pump.at = "settled"
    /\ pump.at \in {"cancelling", "stuck"} \/ (pump.at = "settled" /\ ~pump.whole /\ ~pump.failed) =>
           job.signal # "none" \/ (decode.at \in {"stopping", "draining", "over"} /\ ~decode.good)

(* The machine around the captions: transcode, FFmpeg, the pump and the attempt *)
Machine == Types /\ Amounts /\ Ending /\ Early

(* The pipeline starts in order. *)
LEMMA MachineInit == Init => Machine
<1>1. SUFFICES ASSUME Init PROVE Machine
    OBVIOUS
<1>2. PICK recording \in Recordings, local \in BOOLEAN :
          /\ said = [recording |-> recording, local |-> local]
          /\ pump = [at |-> IF local THEN "settled" ELSE "reading",
                     failed |-> FALSE, whole |-> local, fed |-> local]
    BY <1>1 DEF Init
<1>3. /\ decode = [at |-> "reading", read |-> 0, buffer |-> 0, logical |-> 0, good |-> FALSE]
      /\ ffmpeg = [alive |-> TRUE, code |-> 0, out |-> 0, kill |-> "no"]
      /\ job = [signal |-> "none", lifecycle |-> FALSE, outcome |-> "none"]
    BY <1>1 DEF Init
<1>4. Length \in Nat
    BY <1>2, RecordingsAssumption DEF Length
<1>5. Types
    BY <1>2, <1>3 DEF Types, Decodes
<1>6. Amounts
  <2>1. PICK most \in Chunks : \A n \in Chunks : n <= most
    BY BoundsAssumption
  <2>2. most \in Nat /\ Window \in Nat /\ Context \in Nat /\ Window > 0
    BY BoundsAssumption, TimesAssumption
  <2>3. decode.read - decode.buffer < Window + 2 * Context + most
    BY <1>3, <2>2
  <2> QED BY <1>3, <1>4, <2>1, <2>2, <2>3 DEF Amounts
<1>7. Ending /\ Early
    BY <1>2, <1>3 DEF Ending, Early
<1> QED BY <1>5, <1>6, <1>7 DEF Machine

(* The types of what does not change *)
LEMMA StaticTypes ==
    ASSUME Types
    PROVE  /\ Length \in Nat /\ Window \in Nat \ {0} /\ Context \in Nat
           /\ Window > 2 * Context /\ Chunks \subseteq Nat
    BY RecordingsAssumption, TimesAssumption, BoundsAssumption DEF Types, Decodes, Length

(* A failure leaves everything stopped or stopping, whatever it happens in. *)
LEMMA FailMachine ==
    ASSUME Machine, NEW signal \in {"none", "cancelled", "speech"},
           signal = job.signal \/ signal # "none",
           decode.at \in {"reading", "window", "last", "input", "exit"},
           Fail(signal), UNCHANGED said
    PROVE  Machine'
<1> USE DEF Machine
<1>1. /\ decode' = [decode EXCEPT !.at = "stopping"]
      /\ job' = [job EXCEPT !.signal = signal, !.lifecycle = TRUE]
      /\ ffmpeg' = Asked /\ pump' = Cancelled(pump)
    BY DEF Fail
<1>2. Types'
  <2>1. Cancelled(pump) \in [at : {"reading", "writing", "failing", "cancelling", "stuck", "settled"},
                             failed : BOOLEAN, whole : BOOLEAN, fed : BOOLEAN]
    BY DEF Types, Decodes, Cancelled
  <2> QED BY <1>1, <2>1 DEF Types, Decodes, Asked
<1>3. /\ decode'.read = decode.read /\ decode'.buffer = decode.buffer /\ decode'.good = decode.good
      /\ decode'.logical = decode.logical /\ decode'.at = "stopping" /\ Length' = Length
      /\ ffmpeg'.alive = ffmpeg.alive /\ ffmpeg'.code = ffmpeg.code /\ ffmpeg'.out = ffmpeg.out
      /\ job'.signal = signal
    BY <1>1 DEF Types, Decodes, Asked, Length
<1>4. /\ pump'.whole = pump.whole /\ pump'.failed = pump.failed
      /\ pump'.at = CASE pump.at = "reading" -> "cancelling"
                      [] pump.at = "writing" -> "stuck" [] OTHER -> pump.at
    BY <1>1 DEF Types, Decodes, Cancelled
<1>5. Amounts'
    BY <1>3 DEF Amounts
<1>6. Ending' /\ Early'
  <2>1. ~decode.good
    BY DEF Ending
  <2> QED BY <1>3, <1>4, <2>1 DEF Ending, Early
<1> QED BY <1>2, <1>5, <1>6

(* Another window, another read, or the end of an attempt that was aborted; d is what  *)
(* transcodePcmWindows goes on with.                                                     *)
LEMMA GoOnMachine ==
    ASSUME Machine, decode.at \in {"reading", "window"},
           NEW d \in Decodes, d.good = decode.good,
           d.read <= Length, ~ffmpeg.alive => d.read <= ffmpeg.out,
           d.buffer <= d.logical, d.logical <= d.buffer + Context,
           \E most \in Chunks : (\A n \in Chunks : n <= most)
                                /\ d.read - d.buffer < Window + 2 * Context + most,
           GoOn(d), ~job.lifecycle => UNCHANGED job
    PROVE  Machine'
<1>1. CASE job.lifecycle
  <2>1. Fail(job.signal) /\ UNCHANGED said
    BY <1>1 DEF GoOn
  <2>2. job.signal \in {"none", "cancelled", "speech"}
    BY DEF Machine, Types, Decodes
  <2> QED BY <2>1, <2>2, FailMachine
<1>2. CASE ~job.lifecycle
  <2>1. /\ decode' = [d EXCEPT !.at = IF FullWindow(d) THEN "window" ELSE "reading"]
        /\ UNCHANGED <<said, ffmpeg, pump, job>>
    BY <1>2 DEF GoOn
  <2>2. FullWindow(d) <=> d.read >= d.logical + Window + Context
    BY StaticTypes DEF FullWindow, AvailableEnd, Queued, WindowEnd, Machine, Decodes
  <2>3. /\ decode'.read = d.read /\ decode'.buffer = d.buffer /\ decode'.logical = d.logical
        /\ decode'.good = decode.good
        /\ decode'.at = IF FullWindow(d) THEN "window" ELSE "reading"
    BY <2>1 DEF Decodes
  <2>4. Types'
    BY <2>1 DEF Machine, Types, Decodes
  <2>5. Amounts'
    <3>1. decode'.at = "reading" => d.read < d.logical + Window + Context
      BY <2>2, <2>3, StaticTypes DEF Machine, Decodes
    <3>2. decode'.at # "last" /\ Length' = Length
      BY <2>1, <2>3 DEF Length
    <3>3. ffmpeg.out <= Length
      BY DEF Machine, Amounts
    <3> QED BY <2>1, <2>3, <3>1, <3>2, <3>3 DEF Amounts
  <2>6. Ending' /\ Early'
    <3>1. ~decode.good
      BY DEF Machine, Ending
    <3>2. decode'.at \in {"window", "reading"} /\ Length' = Length
      BY <2>1, <2>3 DEF Length
    <3> QED BY <2>1, <2>3, <3>1, <3>2 DEF Machine, Ending, Early
  <2> QED BY <2>4, <2>5, <2>6 DEF Machine
<1> QED BY <1>1, <1>2

(* Steps that leave what was read as it is, and the length *)
LEMMA AmountsKept ==
    ASSUME Amounts, UNCHANGED said, decode'.read = decode.read, decode'.buffer = decode.buffer,
           decode'.logical = decode.logical, decode'.at # "last" \/ decode.at = decode'.at,
           decode'.at # "reading" \/ decode.at = decode'.at,
           ffmpeg'.alive = ffmpeg.alive /\ ffmpeg'.out = ffmpeg.out
    PROVE  Amounts'
    BY DEF Amounts, Length

(* A read of PCM: what is kept grows by no more than a chunk. *)
LEMMA ReadPcmMachine == ASSUME Machine, NEW n \in Chunks, ReadPcm(n) PROVE Machine'
<1> DEFINE d == [decode EXCEPT !.read = Smaller(@ + n, Available)]
<1>1. /\ decode.at = "reading" /\ decode.read < Available
      /\ GoOn(d) /\ (job.lifecycle \/ UNCHANGED job)
    BY DEF ReadPcm
<1>2. /\ n \in Nat /\ decode.read \in Nat /\ decode.buffer \in Nat /\ decode.logical \in Nat
      /\ Length \in Nat /\ Window \in Nat /\ Context \in Nat /\ ffmpeg.out \in Nat
      /\ decode \in Decodes
    BY StaticTypes DEF Machine, Types, Decodes
<1>3. LET read == Smaller(decode.read + n, Available)
      IN  /\ read \in Nat /\ read <= Length /\ (~ffmpeg.alive => read <= ffmpeg.out)
          /\ read <= decode.read + n
    BY <1>1, <1>2 DEF Available, Smaller, Machine, Amounts
<1>4. /\ d \in Decodes /\ d.read = Smaller(decode.read + n, Available)
      /\ d.buffer = decode.buffer /\ d.logical = decode.logical /\ d.good = decode.good
    BY <1>2, <1>3 DEF Decodes
<1> HIDE DEF d
<1>5. PICK most \in Chunks : \A m \in Chunks : m <= most
    BY DEF Machine, Amounts
<1>6. d.read - d.buffer < Window + 2 * Context + most
  <2>1. n <= most /\ most \in Nat
    BY <1>5, StaticTypes DEF Machine
  <2>2. decode.read < decode.logical + Window + Context /\ decode.logical <= decode.buffer + Context
    BY <1>1 DEF Machine, Amounts
  <2> QED BY <1>2, <1>3, <1>4, <2>1, <2>2
<1>7. decode.buffer <= decode.logical /\ decode.logical <= decode.buffer + Context
    BY DEF Machine, Amounts
<1> QED BY <1>1, <1>3, <1>4, <1>5, <1>6, <1>7, GoOnMachine

(* The end of FFmpeg's output *)
LEMMA ReadEofMachine == ASSUME Machine, ReadEof PROVE Machine'
<1> DEFINE rest == decode.logical < decode.read
<1>1. /\ decode.at = "reading" /\ ~ffmpeg.alive /\ decode.read = ffmpeg.out /\ UNCHANGED said
      /\ \/ (ffmpeg.code # 0 \/ (rest /\ job.lifecycle)) /\ Fail(job.signal)
         \/ /\ decode' = [decode EXCEPT !.at = IF rest THEN "last" ELSE "input"]
            /\ UNCHANGED <<ffmpeg, pump, job>>
    BY DEF ReadEof
<1>2. CASE Fail(job.signal)
  <2>1. job.signal \in {"none", "cancelled", "speech"}
    BY DEF Machine, Types, Decodes
  <2> QED BY <1>1, <1>2, <2>1, FailMachine
<1>3. CASE /\ decode' = [decode EXCEPT !.at = IF rest THEN "last" ELSE "input"]
           /\ UNCHANGED <<ffmpeg, pump, job>>
  <2>1. /\ decode'.read = decode.read /\ decode'.buffer = decode.buffer
        /\ decode'.logical = decode.logical /\ decode'.good = decode.good
        /\ decode'.at = IF rest THEN "last" ELSE "input"
    BY <1>3 DEF Machine, Types, Decodes
  <2>2. Types'
    BY <1>1, <1>3 DEF Machine, Types, Decodes
  <2>3. Amounts'
    BY <1>1, <1>3, <2>1 DEF Machine, Amounts, Length
  <2>4. ~decode.good
    BY <1>1 DEF Machine, Ending
  <2>5. decode'.at \in {"last", "input"} /\ Length' = Length
    BY <1>1, <2>1 DEF Length
  <2>6. Ending' /\ Early'
    BY <1>1, <1>3, <2>1, <2>4, <2>5 DEF Machine, Ending, Early
  <2> QED BY <2>2, <2>3, <2>6 DEF Machine
<1> QED BY <1>1, <1>2, <1>3

(* A window was heard: what is kept begins a context before the next one. *)
LEMMA HearWindowMachine == ASSUME Machine, HearWindow PROVE Machine'
<1> DEFINE d == Advanced(decode)
<1>1. decode.at = "window" /\ ~job.lifecycle /\ GoOn(d) /\ UNCHANGED job
    BY DEF HearWindow, Hear
<1>2. /\ decode.read \in Nat /\ decode.buffer \in Nat /\ decode.logical \in Nat
      /\ Length \in Nat /\ Window \in Nat /\ Context \in Nat /\ Window > 2 * Context
      /\ decode \in Decodes
    BY StaticTypes DEF Machine, Types, Decodes
<1>3. WindowEnd(decode) - Context \in Nat /\ WindowEnd(decode) \in Nat
    BY <1>2 DEF WindowEnd
<1>4. /\ d \in Decodes /\ d.read = decode.read /\ d.good = decode.good
      /\ d.buffer = WindowEnd(decode) - Context /\ d.logical = WindowEnd(decode)
    BY <1>2, <1>3 DEF Advanced, Decodes
<1> HIDE DEF d
<1>5. PICK most \in Chunks : (\A m \in Chunks : m <= most)
                             /\ decode.read - decode.buffer < Window + 2 * Context + most
    BY DEF Machine, Amounts
<1>6. /\ d.read - d.buffer < Window + 2 * Context + most
      /\ d.buffer <= d.logical /\ d.logical <= d.buffer + Context
  <2>1. most \in Nat /\ decode.buffer <= decode.logical
    BY <1>5, StaticTypes DEF Machine, Amounts
  <2> QED BY <1>2, <1>4, <1>5, <2>1 DEF WindowEnd
<1>7. d.read <= Length /\ (~ffmpeg.alive => d.read <= ffmpeg.out)
    BY <1>4 DEF Machine, Amounts
<1> QED BY <1>1, <1>4, <1>5, <1>6, <1>7, GoOnMachine

(* Steps of transcode that only go on to another await *)
LEMMA GoesOnMachine ==
    ASSUME Machine, decode' \in Decodes, UNCHANGED <<said, ffmpeg, pump, job>>,
           decode'.at \in {"input", "exit", "draining", "over"},
           decode'.read = decode.read, decode'.buffer = decode.buffer,
           decode'.logical = decode.logical,
           /\ decode'.at \in {"input", "exit"} =>
                  decode.at \in {"last", "input", "exit"} /\ ~decode'.good
           /\ decode'.at = "exit" => pump.at = "settled" /\ ~pump.failed
           /\ decode'.at \in {"draining", "over"} => ~ffmpeg.alive
           /\ decode'.at = "over" => pump.at = "settled"
           /\ decode'.at \in {"draining", "over"} =>
                  \/ ~decode'.good /\ decode.at \in {"stopping", "draining", "over"}
                  \/ decode'.at = "over" /\ decode.at = "exit" /\ ffmpeg.code = 0
    PROVE  Machine'
<1>1. Types'
    BY DEF Machine, Types
<1>2. Amounts'
    BY AmountsKept DEF Machine
<1>3. Length' = Length
    BY DEF Length
<1>4. Ending'
  <2>1. decode'.good /\ job.signal = "none" => decode.read = Length
    <3>1. SUFFICES ASSUME decode'.good, job.signal = "none", decode.read # Length PROVE FALSE
      OBVIOUS
    <3>2. decode.at = "exit" /\ ffmpeg.code = 0 /\ ~ffmpeg.alive
      BY <3>1
    <3>3. decode.read = ffmpeg.out /\ pump.at = "settled" /\ ~pump.failed
      BY <3>2 DEF Machine, Ending
    <3>4. ffmpeg.out < Length
      BY <3>1, <3>3, StaticTypes DEF Machine, Types, Amounts
    <3> QED BY <3>1, <3>2, <3>3, <3>4 DEF Machine, Early
  <2> QED BY <1>3, <2>1 DEF Machine, Ending
<1>5. Early'
    BY <1>3 DEF Machine, Early, Ending
<1> QED BY <1>1, <1>2, <1>4, <1>5 DEF Machine

(* The end of transcode, after the PCM was read *)
LEMMA EndMachine ==
    ASSUME Machine, HearLast \/ AwaitInput \/ AwaitExit \/ Stopped \/ Drained
    PROVE  Machine'
<1>1. decode \in Decodes /\ job.signal \in {"none", "cancelled", "speech"}
    BY DEF Machine, Types
<1>2. CASE HearLast
  <2>1. /\ decode.at = "last" /\ decode' = [decode EXCEPT !.at = "input"]
        /\ UNCHANGED <<said, ffmpeg, pump, job>>
    BY <1>2 DEF HearLast, Hear
  <2>2. ~decode.good
    BY <2>1 DEF Machine, Ending
  <2> QED BY <1>1, <2>1, <2>2, GoesOnMachine DEF Decodes
<1>3. CASE AwaitInput
  <2>1. decode.at = "input" /\ pump.at = "settled" /\ UNCHANGED said
    BY <1>3 DEF AwaitInput
  <2>2. CASE pump.failed
    BY <1>1, <1>3, <2>1, <2>2, FailMachine DEF AwaitInput
  <2>3. CASE ~pump.failed
    <3>1. decode' = [decode EXCEPT !.at = "exit"] /\ UNCHANGED <<said, ffmpeg, pump, job>>
      BY <1>3, <2>3 DEF AwaitInput
    <3>2. ~decode.good
      BY <2>1 DEF Machine, Ending
    <3> QED BY <1>1, <2>1, <2>3, <3>1, <3>2, GoesOnMachine DEF Decodes
  <2> QED BY <2>2, <2>3
<1>4. CASE AwaitExit
  <2>1. decode.at = "exit" /\ ~ffmpeg.alive /\ UNCHANGED said
    BY <1>4 DEF AwaitExit
  <2>2. CASE ffmpeg.code # 0 \/ (pump.fed /\ decode.read = 0)
    BY <1>1, <1>4, <2>1, <2>2, FailMachine DEF AwaitExit
  <2>3. CASE ~(ffmpeg.code # 0 \/ (pump.fed /\ decode.read = 0))
    <3>1. /\ decode' = [decode EXCEPT !.at = "over", !.good = TRUE]
          /\ UNCHANGED <<said, ffmpeg, pump, job>>
      BY <1>4, <2>3 DEF AwaitExit
    <3>2. pump.at = "settled"
      BY <2>1 DEF Machine, Ending
    <3> QED BY <1>1, <2>1, <2>3, <3>1, <3>2, GoesOnMachine DEF Decodes
  <2> QED BY <2>2, <2>3
<1>5. CASE Stopped
  <2>1. /\ decode.at = "stopping" /\ ~ffmpeg.alive /\ decode' = [decode EXCEPT !.at = "draining"]
        /\ UNCHANGED <<said, ffmpeg, pump, job>>
    BY <1>5 DEF Stopped
  <2>2. ~decode.good
    BY <2>1 DEF Machine, Ending
  <2> QED BY <1>1, <2>1, <2>2, GoesOnMachine DEF Decodes
<1>6. CASE Drained
  <2>1. /\ decode.at = "draining" /\ pump.at = "settled" /\ decode' = [decode EXCEPT !.at = "over"]
        /\ UNCHANGED <<said, ffmpeg, pump, job>>
    BY <1>6 DEF Drained
  <2>2. ~decode.good /\ ~ffmpeg.alive
    BY <2>1 DEF Machine, Ending
  <2> QED BY <1>1, <2>1, <2>2, GoesOnMachine DEF Decodes
<1> QED BY <1>2, <1>3, <1>4, <1>5, <1>6

(* A failure of the service, or an attempt that is aborted while it hears *)
LEMMA HearFailsMachine ==
    ASSUME Machine, HeardTooLate \/ HearFails
    PROVE  Machine'
<1>1. job.signal \in {"none", "cancelled", "speech"}
    BY DEF Machine, Types
<1>2. CASE HeardTooLate
    BY <1>1, <1>2, FailMachine DEF HeardTooLate
<1>3. CASE HearFails
    BY <1>3, FailMachine DEF HearFails
<1> QED BY <1>2, <1>3

(* The steps of pumpInput *)
LEMMA PumpMachine ==
    ASSUME Machine,
           \/ PumpReads \/ PumpWritten \/ PumpEnds
           \/ PumpFails \/ PumpFailed \/ PumpCancelled
    PROVE  Machine'
<1>1. /\ UNCHANGED <<said, decode>> /\ Length' = Length
      /\ ffmpeg' \in {ffmpeg, Asked} /\ job' \in {job, [job EXCEPT !.lifecycle = TRUE]}
    BY DEF PumpReads, PumpWritten, PumpEnds, PumpFails, PumpFailed, PumpCancelled, Length
<1>2. /\ ffmpeg'.alive = ffmpeg.alive /\ ffmpeg'.code = ffmpeg.code /\ ffmpeg'.out = ffmpeg.out
      /\ ffmpeg' \in [alive : BOOLEAN, code : {0, 1}, out : Nat, kill : {"no", "asked", "forced"}]
    BY <1>1 DEF Asked, Machine, Types
<1>3. /\ job'.signal = job.signal
      /\ job' \in [signal : {"none", "cancelled", "speech"}, lifecycle : BOOLEAN,
                   outcome : {"none", "completed", "failed"}]
    BY <1>1 DEF Machine, Types
<1>4. \E at \in {"reading", "writing", "failing", "cancelling", "stuck", "settled"},
         failed \in BOOLEAN, whole \in BOOLEAN, fed \in BOOLEAN :
          /\ pump' = [at |-> at, failed |-> failed, whole |-> whole, fed |-> fed]
          /\ pump.at # "settled" /\ (whole => pump.whole \/ (at = "settled" /\ pump.at = "reading"))
          /\ pump.at \in {"failing", "cancelling"} =>
                 at \in {"failing", "cancelling", "settled"} /\ ~whole
          /\ at \in {"cancelling", "stuck"} \/ (at = "settled" /\ ~whole /\ ~failed) =>
                 pump.at \in {"cancelling", "stuck"}
  <2>1. /\ pump = [at |-> pump.at, failed |-> pump.failed, whole |-> pump.whole, fed |-> pump.fed]
        /\ pump.failed \in BOOLEAN /\ pump.whole \in BOOLEAN /\ pump.fed \in BOOLEAN
        /\ pump.whole => pump.at = "settled"
    BY DEF Machine, Types, Early
  <2>2. CASE PumpReads
    BY <2>1, <2>2 DEF PumpReads
  <2>3. CASE PumpWritten
    BY <2>1, <2>3 DEF PumpWritten
  <2>4. CASE PumpEnds
    BY <2>1, <2>4 DEF PumpEnds
  <2>5. CASE PumpFails
    BY <2>1, <2>5 DEF PumpFails
  <2>6. CASE PumpFailed
    BY <2>1, <2>6 DEF PumpFailed
  <2>7. CASE PumpCancelled
    BY <2>1, <2>7 DEF PumpCancelled
  <2> QED BY <2>2, <2>3, <2>4, <2>5, <2>6, <2>7
<1>5. PICK at \in {"reading", "writing", "failing", "cancelling", "stuck", "settled"},
           failed \in BOOLEAN, whole \in BOOLEAN, fed \in BOOLEAN :
          /\ pump' = [at |-> at, failed |-> failed, whole |-> whole, fed |-> fed]
          /\ pump.at # "settled" /\ (whole => pump.whole \/ (at = "settled" /\ pump.at = "reading"))
          /\ pump.at \in {"failing", "cancelling"} =>
                 at \in {"failing", "cancelling", "settled"} /\ ~whole
          /\ at \in {"cancelling", "stuck"} \/ (at = "settled" /\ ~whole /\ ~failed) =>
                 pump.at \in {"cancelling", "stuck"}
    BY <1>4
<1>6. Types'
    BY <1>1, <1>2, <1>3, <1>5 DEF Machine, Types
<1>7. Amounts'
    BY <1>1, <1>2, AmountsKept DEF Machine
<1>8. Ending'
    BY <1>1, <1>2, <1>3, <1>5 DEF Machine, Ending
<1>9. Early'
    BY <1>1, <1>2, <1>3, <1>5 DEF Machine, Early
<1> QED BY <1>6, <1>7, <1>8, <1>9 DEF Machine

(* The steps of FFmpeg *)
LEMMA FfmpegMachine ==
    ASSUME Machine, FfmpegEnds \/ FfmpegDies \/ KillFfmpeg
    PROVE  Machine'
<1>1. UNCHANGED <<said, decode, pump, job>> /\ Length' = Length /\ ffmpeg.alive
    BY DEF FfmpegEnds, FfmpegDies, KillFfmpeg, Length
<1>2. CASE KillFfmpeg
  <2>1. /\ ffmpeg'.alive = ffmpeg.alive /\ ffmpeg'.code = ffmpeg.code /\ ffmpeg'.out = ffmpeg.out
        /\ Types'
    BY <1>1, <1>2 DEF KillFfmpeg, Machine, Types
  <2> QED BY <1>1, <2>1 DEF Machine, Amounts, Ending, Early
<1>3. CASE FfmpegEnds \/ FfmpegDies
  <2>1. PICK code \in {0, 1}, out \in decode.read..Length :
            /\ Exits(code, out)
            /\ code = 0 => \/ out = Length
                           \/ pump.at \in {"failing", "cancelling", "settled"} /\ ~pump.whole
    BY <1>3 DEF FfmpegEnds, FfmpegDies
  <2>2. out \in Nat /\ decode.read <= out /\ out <= Length
    BY StaticTypes DEF Machine, Types, Decodes
  <2>3. ffmpeg' = [ffmpeg EXCEPT !.alive = FALSE, !.code = code, !.out = out]
    BY <2>1 DEF Exits
  <2>4. ~ffmpeg'.alive /\ ffmpeg'.code = code /\ ffmpeg'.out = out /\ Types'
    BY <1>1, <2>2, <2>3 DEF Machine, Types
  <2>5. Amounts'
    BY <1>1, <2>2, <2>4 DEF Machine, Amounts
  <2>6. Ending'
    BY <1>1, <2>4 DEF Machine, Ending
  <2>7. Early'
    BY <1>1, <2>1, <2>2, <2>4 DEF Machine, Early
  <2> QED BY <2>4, <2>5, <2>6, <2>7 DEF Machine
<1> QED BY <1>2, <1>3

(* The attempt is cancelled, or comes to its outcome. *)
LEMMA JobMachine ==
    ASSUME Machine, Abort \/ Complete \/ Failed
    PROVE  Machine'
<1>1. UNCHANGED <<said, decode>> /\ Length' = Length
    BY DEF Abort, Complete, Failed, Length
<1>2. CASE Complete \/ Failed
  <2>1. /\ UNCHANGED <<said, decode, ffmpeg, pump>>
        /\ job' \in {[job EXCEPT !.outcome = o] : o \in {"completed", "failed"}}
    BY <1>2 DEF Complete, Failed
  <2>2. job'.signal = job.signal /\ Types'
    BY <2>1 DEF Machine, Types
  <2> QED BY <1>1, <2>1, <2>2 DEF Machine, Amounts, Ending, Early
<1>3. CASE Abort
  <2>1. /\ job' \in {[job EXCEPT !.signal = "cancelled"],
                     [job EXCEPT !.signal = "cancelled", !.lifecycle = TRUE]}
        /\ ffmpeg' \in {ffmpeg, Asked} /\ pump' \in {pump, Cancelled(pump)}
    BY <1>3 DEF Abort
  <2>2. /\ ffmpeg'.alive = ffmpeg.alive /\ ffmpeg'.code = ffmpeg.code /\ ffmpeg'.out = ffmpeg.out
        /\ ffmpeg' \in [alive : BOOLEAN, code : {0, 1}, out : Nat, kill : {"no", "asked", "forced"}]
    BY <2>1 DEF Asked, Machine, Types
  <2>3. /\ pump'.whole = pump.whole /\ pump'.failed = pump.failed
        /\ pump'.at \in {pump.at, CASE pump.at = "reading" -> "cancelling"
                                     [] pump.at = "writing" -> "stuck" [] OTHER -> pump.at}
        /\ pump' \in [at : {"reading", "writing", "failing", "cancelling", "stuck", "settled"},
                      failed : BOOLEAN, whole : BOOLEAN, fed : BOOLEAN]
    BY <2>1 DEF Cancelled, Machine, Types
  <2>4. job'.signal = "cancelled" /\ Types'
    BY <1>1, <2>1, <2>2, <2>3 DEF Machine, Types
  <2>5. Amounts'
    BY <1>1, <2>2, AmountsKept DEF Machine
  <2>6. Ending'
    BY <1>1, <2>2, <2>3, <2>4 DEF Machine, Ending
  <2>7. Early'
    BY <1>1, <2>2, <2>3, <2>4 DEF Machine, Early
  <2> QED BY <2>4, <2>5, <2>6, <2>7 DEF Machine
<1> QED BY <1>2, <1>3

(* Every step keeps the invariant of the machine. *)
LEMMA MachineStep == Machine /\ [Next]_vars => Machine'
<1>1. SUFFICES ASSUME Machine, [Next]_vars PROVE Machine'
    OBVIOUS
<1>2. CASE UNCHANGED vars
    BY <1>1, <1>2 DEF vars, Machine, Types, Amounts, Ending, Early, Length
<1>3. CASE \E n \in Chunks : ReadPcm(n)
    BY <1>1, <1>3, ReadPcmMachine
<1>4. CASE ReadEof
    BY <1>1, <1>4, ReadEofMachine
<1>5. CASE HearWindow
    BY <1>1, <1>5, HearWindowMachine
<1>6. CASE HearLast \/ AwaitInput \/ AwaitExit \/ Stopped \/ Drained
    BY <1>1, <1>6, EndMachine
<1>7. CASE HeardTooLate \/ HearFails
    BY <1>1, <1>7, HearFailsMachine
<1>8. CASE \/ PumpReads \/ PumpWritten \/ PumpEnds
           \/ PumpFails \/ PumpFailed \/ PumpCancelled
    BY <1>1, <1>8, PumpMachine
<1>9. CASE FfmpegEnds \/ FfmpegDies \/ KillFfmpeg
    BY <1>1, <1>9, FfmpegMachine
<1>10. CASE Abort \/ Complete \/ Failed
    BY <1>1, <1>10, JobMachine
<1>11. CASE Over
    BY <1>2, <1>11 DEF Over
<1> QED BY <1>1, <1>2, <1>3, <1>4, <1>5, <1>6, <1>7, <1>8, <1>9, <1>10, <1>11 DEF Next

--------------------------------------------------------------------------------
(* CaptionLookup finds what shows. *)

(* The segments of a track, or their records: they last, and follow one another. *)
Showable(r) ==
    \A i \in 1..Len(r) :
        /\ r[i].start \in Nat /\ r[i].end \in Nat /\ r[i].start < r[i].end
        /\ i > 1 => r[i - 1].end <= r[i].start

(* Any two of them follow one another, and not only neighbours. *)
LEMMA Apart ==
    ASSUME NEW R, NEW r \in Seq(R), Showable(r)
    PROVE  \A i, j \in 1..Len(r) : i < j => r[i].end <= r[j].start
<1> DEFINE N == Len(r)
           T == {j \in 0..N : \A i \in 1..N : i < j => r[i].end <= r[j].start}
<1>1. N \in Nat
    OBVIOUS
<1>2. 0 \in T
    BY <1>1
<1>3. ASSUME NEW j \in 1..N, j - 1 \in T PROVE j \in T
  <2>1. ASSUME NEW i \in 1..N, i < j PROVE r[i].end <= r[j].start
    <3>1. j > 1 /\ j - 1 \in 1..N /\ (i = j - 1 \/ i < j - 1)
      BY <1>1, <2>1
    <3>2. r[j - 1].end <= r[j].start /\ r[i].end \in Nat /\ r[j].start \in Nat
          /\ r[j - 1].start \in Nat /\ r[j - 1].end \in Nat /\ r[j - 1].start < r[j - 1].end
      BY <3>1 DEF Showable
    <3>3. CASE i = j - 1
      BY <3>2, <3>3
    <3>4. CASE i < j - 1
      <4>1. r[i].end <= r[j - 1].start
        BY <1>3, <3>4
      <4> QED BY <3>2, <4>1
    <3> QED BY <3>1, <3>3, <3>4
  <2> QED BY <1>1, <2>1
<1> HIDE DEF T
<1>4. 0..N \subseteq T
    BY <1>1, <1>2, <1>3, Induction
<1> QED BY <1>1, <1>4 DEF T

(* What the search still has to look at, from lower to upper, and what it found: cells *)
Cells(n) == (1..(n + 1)) \X (0..n) \X (0..n)

(* Where the search looks *)
Middle(c) == c[1] + (c[2] - c[1]) \div 2

(* The cell that the search goes on with *)
Narrowed(r, time, c) ==
    IF r[Middle(c)].start <= time
    THEN <<Middle(c) + 1, c[2], Middle(c)>> ELSE <<c[1], Middle(c) - 1, c[3]>>

(* The search goes on with less. *)
LEMMA Narrows ==
    ASSUME NEW n \in Nat, NEW c \in Cells(n), c[1] <= c[2], NEW r, NEW time
    PROVE  LET d == Narrowed(r, time, c)
           IN  /\ Middle(c) \in c[1]..c[2] /\ Middle(c) \in 1..n
               /\ d \in Cells(n) /\ d[2] - d[1] < c[2] - c[1]
<1>1. c[1] \in 1..(n + 1) /\ c[2] \in 0..n /\ c[3] \in 0..n
    BY DEF Cells
<1>2. Middle(c) \in c[1]..c[2] /\ Middle(c) \in 1..n
    BY <1>1 DEF Middle
<1>3. CASE r[Middle(c)].start <= time
  <2>1. Narrowed(r, time, c) = <<Middle(c) + 1, c[2], Middle(c)>>
    BY <1>3 DEF Narrowed
  <2> QED BY <1>1, <1>2, <2>1 DEF Cells
<1>4. CASE ~(r[Middle(c)].start <= time)
  <2>1. Narrowed(r, time, c) = <<c[1], Middle(c) - 1, c[3]>>
    BY <1>4 DEF Narrowed
  <2> QED BY <1>1, <1>2, <2>1 DEF Cells
<1> QED BY <1>3, <1>4

(* The search is a function: it ends for every cell. *)
Searches(g, r, time) ==
    \A c \in Cells(Len(r)) : g[c] = IF c[1] > c[2] THEN c[3] ELSE g[Narrowed(r, time, c)]

(* There is a function that searches so: every cell comes to its end. *)
LEMMA SearchExists ==
    ASSUME NEW r, Len(r) \in Nat, NEW time
    PROVE  \E g \in [Cells(Len(r)) -> 0..Len(r)] : Searches(g, r, time)
<1> DEFINE n == Len(r)
           C == Cells(n)
           V == [C -> 0..n]
           base == [c \in C |-> c[3]]
           After(g) == [c \in C |-> IF c[1] > c[2] THEN c[3] ELSE g[Narrowed(r, time, c)]]
           Step == [p \in (1..(n + 1)) \X V |-> After(p[2])]
<1>1. \A c \in C : c[1] \in 1..(n + 1) /\ c[2] \in 0..n /\ c[3] \in 0..n
    BY DEF Cells
<1>2. \A c \in C : c[1] <= c[2] => /\ Narrowed(r, time, c) \in C
                                  /\ Narrowed(r, time, c)[2] - Narrowed(r, time, c)[1] < c[2] - c[1]
    BY Narrows
<1> HIDE DEF C
<1>3. base \in V
    BY <1>1
<1>4. ASSUME NEW g \in V PROVE After(g) \in V
  <2>1. \A c \in C : ~(c[1] > c[2]) => g[Narrowed(r, time, c)] \in 0..n
    BY <1>1, <1>2
  <2> QED BY <1>1, <2>1
<1> HIDE DEF V, base, After
<1>5. Step \in [(1..(n + 1)) \X V -> V]
    BY <1>4
<1>6. \A k \in 1..(n + 1), g \in V : Step[<<k, g>>] = After(g)
    OBVIOUS
<1> HIDE DEF Step
<1>7. PICK F : Recurses(F, n + 1, V, base, Step)
  <2> DEFINE N == n + 1
  <2>1. N \in Nat
    OBVIOUS
  <2>2. Step \in [(1..N) \X V -> V]
    BY <1>5
  <2> HIDE DEF N
  <2>3. \E F : Recurses(F, N, V, base, Step)
    BY <1>3, <2>1, <2>2, RecursionExists
  <2> QED BY <2>3 DEF N
<1>8. F \in [0..(n + 1) -> V] /\ F[0] = base /\ \A k \in 1..(n + 1) : F[k] = After(F[k - 1])
  <2>1. F \in [0..(n + 1) -> V] /\ F[0] = base
        /\ \A k \in 1..(n + 1) : F[k] = Step[<<k, F[k - 1]>>]
    BY <1>7 DEF Recurses
  <2>2. \A k \in 1..(n + 1) : k - 1 \in 0..(n + 1)
    OBVIOUS
  <2> QED BY <1>6, <2>1, <2>2
<1>9. ASSUME NEW k \in 1..(n + 1), NEW c \in C
      PROVE  F[k][c] = IF c[1] > c[2] THEN c[3] ELSE F[k - 1][Narrowed(r, time, c)]
    BY <1>8 DEF After
<1> DEFINE T == {k \in 0..n : \A c \in C : c[2] - c[1] + 1 <= k => F[k + 1][c] = F[k][c]}
<1>10. 0 \in T
  <2>1. ASSUME NEW c \in C, c[2] - c[1] + 1 <= 0 PROVE F[1][c] = F[0][c]
    <3>1. c[1] > c[2]
      BY <1>1, <2>1
    <3>2. F[0][c] = c[3]
      BY <1>8 DEF base
    <3> QED BY <1>9, <3>1, <3>2
  <2> QED BY <2>1
<1>11. ASSUME NEW k \in 1..n, k - 1 \in T PROVE k \in T
  <2>1. ASSUME NEW c \in C, c[2] - c[1] + 1 <= k PROVE F[k + 1][c] = F[k][c]
    <3>1. /\ F[k + 1][c] = IF c[1] > c[2] THEN c[3] ELSE F[k][Narrowed(r, time, c)]
          /\ F[k][c] = IF c[1] > c[2] THEN c[3] ELSE F[k - 1][Narrowed(r, time, c)]
      <4>1. k \in 1..(n + 1) /\ k + 1 \in 1..(n + 1) /\ (k + 1) - 1 = k
        OBVIOUS
      <4> QED BY <1>9, <4>1
    <3>2. ASSUME ~(c[1] > c[2])
          PROVE  F[k][Narrowed(r, time, c)] = F[k - 1][Narrowed(r, time, c)]
      <4> DEFINE d == Narrowed(r, time, c)
      <4>1. d \in C /\ d[2] - d[1] < c[2] - c[1]
        BY <1>1, <1>2, <3>2
      <4> HIDE DEF d
      <4>2. d[2] - d[1] + 1 <= k - 1
        BY <1>1, <2>1, <4>1
      <4>3. F[(k - 1) + 1][d] = F[k - 1][d] /\ (k - 1) + 1 = k
        BY <1>11, <4>1, <4>2
      <4> QED BY <4>3 DEF d
    <3> QED BY <3>1, <3>2
  <2> QED BY <2>1
<1> HIDE DEF T
<1>12. 0..n \subseteq T
    BY <1>10, <1>11, Induction
<1>13. \A c \in C : F[n + 1][c] = F[n][c]
  <2>1. n \in T
    BY <1>12
  <2>2. \A c \in C : c[2] - c[1] + 1 <= n
    BY <1>1
  <2> QED BY <2>1, <2>2 DEF T
<1>14. \A c \in C : F[n][c] = IF c[1] > c[2] THEN c[3] ELSE F[n][Narrowed(r, time, c)]
  <2>1. n + 1 \in 1..(n + 1) /\ (n + 1) - 1 = n
    OBVIOUS
  <2> QED BY <1>9, <1>13, <2>1
<1>15. F[n] \in V
    BY <1>8
<1>16. F[n] \in [Cells(Len(r)) -> 0..Len(r)] /\ Searches(F[n], r, time)
    BY <1>14, <1>15 DEF Searches, V, C
<1> QED BY <1>16

(* LastStarted is what it finds from the whole track on. *)
LEMMA SearchRecursion ==
    ASSUME NEW r, Len(r) \in Nat, NEW time
    PROVE  \E g : Searches(g, r, time) /\ LastStarted(r, time) = g[<<1, Len(r), 0>>]
<1> DEFINE n == Len(r)
           Looked(g, c) ==
               LET lower == c[1]
                   upper == c[2]
                   found == c[3]
                   middle == lower + (upper - lower) \div 2
               IN  IF lower > upper THEN found
                   ELSE IF r[middle].start <= time
                   THEN g[<<middle + 1, upper, middle>>]
                   ELSE g[<<lower, middle - 1, found>>]
           G == CHOOSE g : g = [c \in (1..(n + 1)) \X (0..n) \X (0..n) |-> Looked(g, c)]
<1>1. LastStarted(r, time) = G[<<1, n, 0>>]
    BY Zenon DEF LastStarted
<1>2. \A g, c : Looked(g, c) = IF c[1] > c[2] THEN c[3] ELSE g[Narrowed(r, time, c)]
    BY DEF Narrowed, Middle
<1> HIDE DEF Looked
<1>3. PICK g \in [Cells(n) -> 0..n] : Searches(g, r, time)
    BY SearchExists
<1>4. g = [c \in (1..(n + 1)) \X (0..n) \X (0..n) |-> Looked(g, c)]
  <2>1. \A c \in Cells(n) : g[c] = Looked(g, c)
    BY <1>2, <1>3 DEF Searches
  <2> QED BY <2>1 DEF Cells
<1>5. G = [c \in (1..(n + 1)) \X (0..n) \X (0..n) |-> Looked(G, c)]
    BY <1>4
<1> HIDE DEF G
<1>6. \A c \in Cells(n) : G[c] = Looked(G, c)
    BY <1>5 DEF Cells
<1>7. Searches(G, r, time)
    BY <1>2, <1>6 DEF Searches
<1> QED BY <1>1, <1>7

(* The last segment that starts no later than a time, or 0 *)
IsLastStarted(r, time, i) ==
    /\ i \in 0..Len(r)
    /\ \A j \in 1..Len(r) : IF j <= i THEN r[j].start <= time ELSE r[j].start > time

(* What the search has left out was on the right side, and the last of it is what it found. *)
Narrowing(r, time, c) ==
    /\ c[3] = c[1] - 1 /\ c[1] <= c[2] + 1
    /\ \A j \in 1..Len(r) : /\ j < c[1] => r[j].start <= time
                            /\ j > c[2] => r[j].start > time

(* A step of the search leaves out what it may. *)
LEMMA NarrowedSound ==
    ASSUME NEW R, NEW r \in Seq(R), Showable(r), NEW time \in Nat,
           NEW c \in Cells(Len(r)), Narrowing(r, time, c), c[1] <= c[2]
    PROVE  Narrowing(r, time, Narrowed(r, time, c))
<1> DEFINE n == Len(r)
           m == Middle(c)
<1>1. n \in Nat /\ \A j \in 1..n : r[j].start \in Nat
    BY DEF Showable
<1>2. m \in c[1]..c[2] /\ m \in 1..n /\ c[1] \in Nat /\ c[2] \in Nat
  <2>1. m \in c[1]..c[2] /\ m \in 1..n
    BY <1>1, Narrows
  <2>2. c[1] \in 1..(n + 1) /\ c[2] \in 0..n
    BY DEF Cells
  <2> QED BY <1>1, <2>1, <2>2
<1>3. ASSUME NEW i \in 1..n, NEW j \in 1..n, i <= j PROVE r[i].start <= r[j].start
  <2>1. CASE i = j
    BY <1>1, <2>1
  <2>2. CASE i # j
    <3>1. r[i].end <= r[j].start
      BY <1>1, <1>3, <2>2, Apart
    <3> QED BY <1>1, <3>1 DEF Showable
  <2> QED BY <2>1, <2>2
<1> HIDE DEF n, m
<1>4. CASE r[m].start <= time
  <2>1. Narrowed(r, time, c) = <<m + 1, c[2], m>>
    BY <1>4 DEF Narrowed, m
  <2>2. ASSUME NEW j \in 1..n, j < m + 1 PROVE r[j].start <= time
    <3>1. r[j].start <= r[m].start /\ r[j].start \in Nat /\ r[m].start \in Nat
      BY <1>1, <1>2, <1>3, <2>2
    <3> QED BY <1>4, <3>1
  <2>3. \A j \in 1..n : j > c[2] => r[j].start > time
    BY DEF Narrowing, n
  <2> QED BY <1>2, <2>1, <2>2, <2>3 DEF Narrowing, n
<1>5. CASE ~(r[m].start <= time)
  <2>1. Narrowed(r, time, c) = <<c[1], m - 1, c[3]>>
    BY <1>5 DEF Narrowed, m
  <2>2. ASSUME NEW j \in 1..n, j > m - 1 PROVE r[j].start > time
    <3>1. r[m].start <= r[j].start /\ r[j].start \in Nat /\ r[m].start \in Nat
      BY <1>1, <1>2, <1>3, <2>2
    <3> QED BY <1>5, <3>1
  <2>3. c[3] = c[1] - 1 /\ \A j \in 1..n : j < c[1] => r[j].start <= time
    BY DEF Narrowing, n
  <2> QED BY <1>2, <2>1, <2>2, <2>3 DEF Narrowing, n
<1> QED BY <1>4, <1>5

(* The search finds the last segment that starts no later than a time. *)
LEMMA SearchSound ==
    ASSUME NEW R, NEW r \in Seq(R), Showable(r), NEW time \in Nat
    PROVE  IsLastStarted(r, time, LastStarted(r, time))
<1> DEFINE n == Len(r)
<1>1. n \in Nat
    OBVIOUS
<1>2. PICK g : Searches(g, r, time) /\ LastStarted(r, time) = g[<<1, n, 0>>]
    BY <1>1, SearchRecursion
<1> DEFINE T == {k \in 0..n : \A c \in Cells(n) :
                     Narrowing(r, time, c) /\ c[2] - c[1] + 1 <= k => IsLastStarted(r, time, g[c])}
<1>3. \A c \in Cells(n) : c[1] \in 1..(n + 1) /\ c[2] \in 0..n /\ c[3] \in 0..n
    BY DEF Cells
<1>4. ASSUME NEW c \in Cells(n), Narrowing(r, time, c), c[1] > c[2]
      PROVE  IsLastStarted(r, time, g[c])
  <2>1. g[c] = c[3]
    BY <1>2, <1>4 DEF Searches
  <2>2. c[3] = c[2] /\ c[3] = c[1] - 1 /\ c[3] \in 0..n
    BY <1>3, <1>4 DEF Narrowing
  <2>3. ASSUME NEW j \in 1..n PROVE IF j <= c[3] THEN r[j].start <= time ELSE r[j].start > time
    <3>1. (j <= c[3] => j < c[1]) /\ (~(j <= c[3]) => j > c[2])
      BY <1>1, <1>3, <2>2
    <3> QED BY <1>4, <3>1 DEF Narrowing
  <2> QED BY <2>1, <2>2, <2>3 DEF IsLastStarted
<1>5. 0 \in T
  <2>1. \A c \in Cells(n) : c[2] - c[1] + 1 <= 0 => c[1] > c[2]
    BY <1>3
  <2> QED BY <1>1, <1>4, <2>1
<1>6. ASSUME NEW k \in 1..n, k - 1 \in T PROVE k \in T
  <2>1. ASSUME NEW c \in Cells(n), Narrowing(r, time, c), c[2] - c[1] + 1 <= k
        PROVE  IsLastStarted(r, time, g[c])
    <3>1. CASE c[1] > c[2]
      BY <1>4, <2>1, <3>1
    <3>2. CASE ~(c[1] > c[2])
      <4> DEFINE d == Narrowed(r, time, c)
      <4>1. c[1] <= c[2]
        BY <1>3, <3>2
      <4>2. d \in Cells(n) /\ d[2] - d[1] < c[2] - c[1]
        BY <1>1, <4>1, Narrows
      <4>3. Narrowing(r, time, d)
        BY <2>1, <4>1, NarrowedSound
      <4>4. g[c] = g[d]
        BY <1>2, <3>2 DEF Searches
      <4> HIDE DEF d
      <4>5. d[2] - d[1] + 1 <= k - 1
        BY <1>3, <2>1, <4>2
      <4>6. IsLastStarted(r, time, g[d])
        BY <1>6, <4>2, <4>3, <4>5
      <4> QED BY <4>4, <4>6
    <3> QED BY <3>1, <3>2
  <2> QED BY <1>1, <2>1
<1> HIDE DEF T
<1>7. 0..n \subseteq T
    BY <1>1, <1>5, <1>6, Induction
<1> DEFINE all == <<1, n, 0>>
<1>8. all \in Cells(n) /\ all[2] - all[1] + 1 <= n /\ Narrowing(r, time, all)
    BY <1>1 DEF Cells, Narrowing
<1>9. n \in T
    BY <1>1, <1>7
<1>10. IsLastStarted(r, time, g[all])
    BY <1>8, <1>9 DEF T
<1> QED BY <1>2, <1>10

(* A seek from any segment finds the one that shows, if there is one. *)
LEMMA FindIndexSound ==
    ASSUME NEW R, NEW r \in Seq(R), Showable(r), NEW time \in Nat, NEW current \in 0..Len(r)
    PROVE  LET found == FindIndex(r, current, time)
           IN  IF \E i \in DOMAIN r : ShowsAt(r[i], time)
               THEN found \in DOMAIN r /\ ShowsAt(r[found], time)
               ELSE found = 0
<1> DEFINE Shows(i) == i \in DOMAIN r /\ ShowsAt(r[i], time)
           near == {i \in {current, current + 1, current - 1} : Shows(i)}
           last == LastStarted(r, time)
           found == FindIndex(r, current, time)
<1>1. found = IF current \in near THEN current
              ELSE IF near # {} THEN Max(near)
              ELSE IF Shows(last) THEN last ELSE 0
    BY DEF FindIndex
<1>2. DOMAIN r = 1..Len(r) /\ Len(r) \in Nat /\ current \in Int
    OBVIOUS
<1>3. ASSUME near # {} PROVE Max(near) \in near
  <2>1. \E most \in near : \A i \in near : most >= i
    <3>1. CASE current + 1 \in near
      BY <1>2, <3>1
    <3>2. CASE current + 1 \notin near /\ current \in near
      BY <1>2, <3>2
    <3>3. CASE current + 1 \notin near /\ current \notin near
      BY <1>2, <1>3, <3>3
    <3> QED BY <3>1, <3>2, <3>3
  <2> HIDE DEF near
  <2> QED BY <2>1 DEF Max
<1> DEFINE Goal == IF \E i \in DOMAIN r : ShowsAt(r[i], time)
                   THEN found \in DOMAIN r /\ ShowsAt(r[found], time)
                   ELSE found = 0
<1> HIDE DEF found, last
<1>4. CASE near # {}
  <2>1. found \in near
    BY <1>1, <1>3, <1>4
  <2>2. found \in DOMAIN r /\ ShowsAt(r[found], time)
    BY <2>1
  <2>3. Goal
    BY <2>2
  <2> QED BY <2>3 DEF found
<1>5. CASE near = {}
  <2>1. IsLastStarted(r, time, last)
    BY SearchSound DEF last
  <2>2. found = IF Shows(last) THEN last ELSE 0
    BY <1>1, <1>5
  <2>3. CASE Shows(last)
    <3>1. Goal
      BY <2>2, <2>3
    <3> QED BY <3>1 DEF found
  <2>4. CASE ~Shows(last)
    <3>1. ASSUME NEW i \in 1..Len(r), ShowsAt(r[i], time) PROVE FALSE
      <4>1. /\ r[i].start \in Nat /\ r[i].end \in Nat
            /\ r[i].start <= time /\ time < r[i].end
        BY <3>1 DEF ShowsAt, Showable
      <4>2. last \in 0..Len(r) /\ i <= last
        BY <1>2, <2>1, <4>1 DEF IsLastStarted
      <4>3. CASE i = last
        BY <1>2, <2>4, <3>1, <4>3
      <4>4. CASE i # last
        <5>1. last \in 1..Len(r) /\ i < last
          BY <1>2, <4>2, <4>4
        <5>2. r[i].end <= r[last].start
          BY <5>1, Apart
        <5>3. r[last].start <= time /\ r[last].start \in Nat
          BY <2>1, <5>1 DEF IsLastStarted, Showable
        <5> QED BY <4>1, <5>2, <5>3
      <4> QED BY <4>3, <4>4
    <3>2. Goal
      BY <1>2, <2>2, <2>4, <3>1
    <3> QED BY <3>2 DEF found
  <2> QED BY <2>3, <2>4
<1> QED BY <1>4, <1>5

--------------------------------------------------------------------------------
(* What encodeCaptionTrack writes, decodeCaptionTrack accepts and reads the same. *)

(* The fields of a segment of a sequence *)
LEMMA SegmentFields ==
    ASSUME NEW segments \in Seq(Segments), NEW i \in 1..Len(segments)
    PROVE  /\ segments[i].start \in Nat /\ segments[i].end \in Nat
           /\ segments[i].text \in Seq(STRING) /\ Len(segments[i].text) \in Nat
<1>1. segments[i] \in Segments
    OBVIOUS
<1>2. /\ segments[i].start \in Nat /\ segments[i].end \in Nat
      /\ segments[i].text \in Seq(STRING)
    BY <1>1 DEF Segments
<1> QED BY <1>2

(* How much text there is up to each segment *)
Counts(B, segments) ==
    /\ B \in [0..Len(segments) -> Nat] /\ B[0] = 0
    /\ \A n \in 1..Len(segments) : B[n] = B[n - 1] + Len(segments[n].text)

(* There is such a count, *)
LEMMA CountsExist ==
    ASSUME NEW segments \in Seq(Segments)
    PROVE  \E B : Counts(B, segments)
<1> DEFINE N == Len(segments)
           Step == [p \in (1..N) \X Nat |-> p[2] + Len(segments[p[1]].text)]
<1>1. N \in Nat /\ \A n \in 1..N : Len(segments[n].text) \in Nat
  <2>1. N \in Nat
    OBVIOUS
  <2> QED BY <2>1, SegmentFields
<1>2. Step \in [(1..N) \X Nat -> Nat]
    BY <1>1
<1>3. \A n \in 1..N, m \in Nat : Step[<<n, m>>] = m + Len(segments[n].text)
    OBVIOUS
<1> HIDE DEF Step
<1>4. PICK B : Recurses(B, N, Nat, 0, Step)
    BY <1>1, <1>2, RecursionExists
<1>5. \A n \in 1..N : n - 1 \in 0..N
    BY <1>1
<1>6. Counts(B, segments)
    BY <1>3, <1>4, <1>5 DEF Recurses, Counts
<1> QED BY <1>6

(* and TextBefore is that count. *)
LEMMA TextBeforeCounts ==
    ASSUME NEW segments \in Seq(Segments), NEW B, Counts(B, segments),
           NEW i \in 1..(Len(segments) + 1)
    PROVE  TextBefore(segments, i) = B[i - 1]
<1> DEFINE N == i - 1
           F == CHOOSE f : f = [n \in 0..N |->
                                   IF n = 0 THEN 0 ELSE f[n - 1] + Len(segments[n].text)]
           g == [n \in 0..N |-> B[n]]
<1>1. N \in 0..Len(segments)
    OBVIOUS
<1>2. TextBefore(segments, i) = F[N]
    BY Zenon DEF TextBefore
<1> HIDE DEF N
<1>3. \A n \in 0..N : n = 0 \/ (n \in 1..N /\ n - 1 \in 0..N /\ n \in 1..Len(segments))
    BY <1>1
<1>4. \A n \in 0..N : B[n] = IF n = 0 THEN 0 ELSE g[n - 1] + Len(segments[n].text)
    BY <1>3 DEF Counts
<1>5. g = [n \in 0..N |-> IF n = 0 THEN 0 ELSE g[n - 1] + Len(segments[n].text)]
    BY <1>4
<1>6. F = [n \in 0..N |-> IF n = 0 THEN 0 ELSE F[n - 1] + Len(segments[n].text)]
    BY <1>5
<1> HIDE DEF F, g
<1> DEFINE T == {n \in 0..N : F[n] = B[n]}
<1>7. 0 \in T
    BY <1>1, <1>6 DEF Counts
<1>8. ASSUME NEW n \in 1..N, n - 1 \in T PROVE n \in T
  <2>1. n \in 0..N /\ n # 0 /\ n \in 1..Len(segments)
    BY <1>1
  <2>2. F[n] = F[n - 1] + Len(segments[n].text) /\ F[n - 1] = B[n - 1]
    BY <1>6, <1>8, <2>1
  <2> QED BY <2>1, <2>2 DEF Counts
<1> HIDE DEF T
<1>9. 0..N \subseteq T
    BY <1>1, <1>7, <1>8, Induction
<1>10. N \in T
    BY <1>1, <1>9
<1> QED BY <1>2, <1>10 DEF T, N

(* The text of the segments up to each *)
Pools(P, segments) ==
    /\ P \in [0..Len(segments) -> Seq(STRING)] /\ P[0] = <<>>
    /\ \A n \in 1..Len(segments) : P[n] = P[n - 1] \o segments[n].text

(* The texts of the segments *)
Texts(segments) == [i \in DOMAIN segments |-> segments[i].text]

(* There is such a text, *)
LEMMA PoolsExist ==
    ASSUME NEW segments \in Seq(Segments)
    PROVE  \E P : Pools(P, segments)
<1> DEFINE N == Len(segments)
           V == Seq(STRING)
           base == <<>>
           Step == [p \in (1..N) \X V |-> p[2] \o segments[p[1]].text]
<1>1. N \in Nat /\ (\A n \in 1..N : segments[n].text \in V) /\ base \in V
    BY SegmentFields
<1>2. Step \in [(1..N) \X V -> V]
  <2>1. \A p \in (1..N) \X V : p[2] \o segments[p[1]].text \in V
    BY <1>1
  <2> HIDE DEF V
  <2> QED BY <2>1
<1>3. \A n \in 1..N, m \in V : Step[<<n, m>>] = m \o segments[n].text
    OBVIOUS
<1> HIDE DEF Step, V, base
<1>4. PICK P : Recurses(P, N, V, base, Step)
    BY <1>1, <1>2, RecursionExists
<1>5. \A n \in 1..N : n - 1 \in 0..N
    BY <1>1
<1>6. Pools(P, segments)
    BY <1>3, <1>4, <1>5 DEF Recurses, Pools, V, base
<1> QED BY <1>6

(* and the pool of a track is that text. *)
LEMMA FlattenIsPool ==
    ASSUME NEW segments \in Seq(Segments), NEW P, Pools(P, segments)
    PROVE  FlattenSeq(Texts(segments)) = P[Len(segments)]
<1> DEFINE N == Len(segments)
           seqs == Texts(segments)
           F == CHOOSE f : f = [n \in 1..Len(seqs) |->
                                   IF n = 1 THEN seqs[n] ELSE f[n - 1] \o seqs[n]]
           g == [n \in 1..N |-> P[n]]
<1>1. N \in Nat /\ (\A n \in 1..N : segments[n].text \in Seq(STRING)) /\ DOMAIN segments = 1..N
    BY SegmentFields
<1>2. seqs \in Seq(Seq(STRING)) /\ Len(seqs) = N /\ \A n \in 1..N : seqs[n] = segments[n].text
  <2>1. seqs = [n \in 1..N |-> segments[n].text]
    BY <1>1 DEF Texts
  <2> QED BY <1>1, <2>1
<1>3. FlattenSeq(seqs) = IF Len(seqs) = 0 THEN seqs ELSE F[Len(seqs)]
    BY Zenon DEF FlattenSeq
<1> HIDE DEF seqs
<1>4. \A n \in 1..N : P[n] = IF n = 1 THEN seqs[n] ELSE g[n - 1] \o seqs[n]
  <2>1. ASSUME NEW n \in 1..N PROVE P[n] = IF n = 1 THEN seqs[n] ELSE g[n - 1] \o seqs[n]
    <3>1. P[n] = P[n - 1] \o seqs[n] /\ seqs[n] \in Seq(STRING)
      BY <1>1, <1>2 DEF Pools
    <3>2. CASE n = 1
      <4>1. n - 1 = 0 /\ P[0] = <<>>
        BY <3>2 DEF Pools
      <4> QED BY <3>1, <3>2, <4>1, ConcatEmptySeq
    <3>3. CASE n # 1
      <4>1. n - 1 \in 1..N
        BY <1>1, <3>3
      <4>2. g[n - 1] = P[n - 1]
        BY <4>1
      <4> QED BY <3>1, <3>3, <4>2
    <3> QED BY <3>2, <3>3
  <2> QED BY <2>1
<1>5. g = [n \in 1..Len(seqs) |-> IF n = 1 THEN seqs[n] ELSE g[n - 1] \o seqs[n]]
    BY <1>2, <1>4
<1>6. F = [n \in 1..Len(seqs) |-> IF n = 1 THEN seqs[n] ELSE F[n - 1] \o seqs[n]]
    BY <1>5
<1> HIDE DEF F, g
<1>7. CASE N = 0
  <2>1. seqs = <<>> /\ P[0] = <<>>
    BY <1>2, <1>7 DEF Pools
  <2> QED BY <1>2, <1>3, <1>7, <2>1 DEF seqs
<1>8. CASE N # 0
  <2> DEFINE T == {n \in 0..N : n = 0 \/ F[n] = P[n]}
  <2>1. 0 \in T
    BY <1>1
  <2>2. ASSUME NEW n \in 1..N, n - 1 \in T PROVE n \in T
    <3>1. n \in 0..N /\ (n # 1 => n - 1 # 0 /\ n - 1 \in 1..N)
      BY <1>1
    <3>2. P[n] = P[n - 1] \o seqs[n] /\ seqs[n] \in Seq(STRING) /\ P[0] = <<>>
      BY <1>1, <1>2 DEF Pools
    <3>3. F[n] = IF n = 1 THEN seqs[n] ELSE F[n - 1] \o seqs[n]
      BY <1>2, <1>6
    <3>4. CASE n = 1
      <4>1. n - 1 = 0
        BY <3>4
      <4> QED BY <3>1, <3>2, <3>3, <3>4, <4>1, ConcatEmptySeq
    <3>5. CASE n # 1
      <4>1. F[n - 1] = P[n - 1]
        BY <2>2, <3>1, <3>5
      <4> QED BY <3>1, <3>2, <3>3, <3>5, <4>1
    <3> QED BY <3>4, <3>5
  <2> HIDE DEF T
  <2>3. 0..N \subseteq T
    BY <1>1, <2>1, <2>2, Induction
  <2>4. N \in T
    BY <1>1, <2>3
  <2>5. F[N] = P[N]
    BY <1>8, <2>4 DEF T
  <2> QED BY <1>2, <1>3, <1>8, <2>5 DEF seqs
<1> QED BY <1>7, <1>8

(* A piece of a sequence is where it was when more is appended, *)
LEMMA SubSeqOfPrefix ==
    ASSUME NEW S, NEW s \in Seq(S), NEW t \in Seq(S),
           NEW a \in Nat, NEW b \in Nat, 1 <= a, b <= Len(s)
    PROVE  SubSeq(s \o t, a, b) = SubSeq(s, a, b)
    BY DEF SubSeq

(* and what is appended is at the end. *)
LEMMA SubSeqOfSuffix ==
    ASSUME NEW S, NEW s \in Seq(S), NEW t \in Seq(S)
    PROVE  SubSeq(s \o t, Len(s) + 1, Len(s) + Len(t)) = t
    BY DEF SubSeq

(* The text of every segment is in the pool where its record says. *)
LEMMA PoolHasTexts ==
    ASSUME NEW segments \in Seq(Segments), NEW B, Counts(B, segments), NEW P, Pools(P, segments)
    PROVE  /\ Len(P[Len(segments)]) = B[Len(segments)]
           /\ \A i \in 1..Len(segments) :
                  SubSeq(P[Len(segments)], B[i - 1] + 1, B[i - 1] + Len(segments[i].text))
                      = segments[i].text
<1> DEFINE N == Len(segments)
           text(i) == segments[i].text
           Has(n) == /\ Len(P[n]) = B[n]
                     /\ \A i \in 1..n :
                            /\ B[i - 1] + Len(text(i)) <= B[n]
                            /\ SubSeq(P[n], B[i - 1] + 1, B[i - 1] + Len(text(i))) = text(i)
           T == {n \in 0..N : Has(n)}
<1>1. N \in Nat /\ \A n \in 1..N : text(n) \in Seq(STRING) /\ Len(text(n)) \in Nat
    BY SegmentFields
<1>2. 0 \in T
    BY <1>1 DEF Counts, Pools
<1>3. ASSUME NEW n \in 1..N, n - 1 \in T PROVE n \in T
  <2>1. n \in 0..N /\ n - 1 \in 0..N
    BY <1>1
  <2>2. /\ P[n] = P[n - 1] \o text(n) /\ B[n] = B[n - 1] + Len(text(n))
        /\ P[n - 1] \in Seq(STRING) /\ text(n) \in Seq(STRING)
        /\ B[n - 1] \in Nat /\ Len(text(n)) \in Nat
    BY <1>1, <2>1 DEF Counts, Pools
  <2> HIDE DEF text
  <2>3. Len(P[n - 1]) = B[n - 1]
    BY <1>3 DEF T
  <2>4. Len(P[n]) = B[n]
    <3>1. Len(P[n - 1] \o text(n)) = Len(P[n - 1]) + Len(text(n))
      BY <2>2, ConcatProperties
    <3> QED BY <2>2, <2>3, <3>1
  <2>5. ASSUME NEW i \in 1..n
        PROVE  /\ B[i - 1] + Len(text(i)) <= B[n]
               /\ SubSeq(P[n], B[i - 1] + 1, B[i - 1] + Len(text(i))) = text(i)
    <3>1. CASE i = n
      <4>1. SubSeq(P[n - 1] \o text(n), Len(P[n - 1]) + 1, Len(P[n - 1]) + Len(text(n))) = text(n)
        BY <2>2, SubSeqOfSuffix
      <4>2. B[n - 1] + Len(text(n)) <= B[n]
        BY <2>2
      <4> QED BY <2>2, <2>3, <3>1, <4>1, <4>2
    <3>2. CASE i # n
      <4>1. i \in 1..(n - 1) /\ i \in 1..N /\ i - 1 \in 0..N
        BY <1>1, <3>2
      <4>2. B[i - 1] \in Nat /\ Len(text(i)) \in Nat
        BY <1>1, <4>1 DEF Counts
      <4>3. /\ B[i - 1] + Len(text(i)) <= B[n - 1]
            /\ SubSeq(P[n - 1], B[i - 1] + 1, B[i - 1] + Len(text(i))) = text(i)
        BY <1>3, <4>1
      <4> DEFINE a == B[i - 1] + 1
                 b == B[i - 1] + Len(text(i))
      <4>4. a \in Nat /\ b \in Nat /\ 1 <= a /\ b <= Len(P[n - 1])
        BY <2>3, <4>2, <4>3
      <4> HIDE DEF a, b
      <4>5. SubSeq(P[n - 1] \o text(n), a, b) = SubSeq(P[n - 1], a, b)
        <5> DEFINE p == P[n - 1]
        <5>1. p \in Seq(STRING) /\ text(n) \in Seq(STRING) /\ b <= Len(p)
          BY <2>2, <4>4
        <5> HIDE DEF p
        <5> QED BY <4>4, <5>1, SubSeqOfPrefix
      <4>6. SubSeq(P[n], a, b) = text(i)
        BY <2>2, <4>3, <4>5 DEF a, b
      <4>7. b <= B[n]
        BY <2>2, <2>3, <4>4
      <4> QED BY <4>6, <4>7 DEF a, b
    <3> QED BY <3>1, <3>2
  <2>6. Has(n)
    BY <2>4, <2>5
  <2> HIDE DEF Has
  <2> QED BY <2>1, <2>6
<1> HIDE DEF T
<1>4. 0..N \subseteq T
    BY <1>1, <1>2, <1>3, Induction
<1>5. N \in T
    BY <1>1, <1>4
<1> QED BY <1>5 DEF T

(* Encoding loses nothing: what was written is accepted, and has the same times and texts. *)
LEMMA RoundTrip ==
    ASSUME NEW segments \in Seq(Segments), NEW duration \in Nat, Encodable(duration, segments)
    PROVE  LET file == Encode(duration, segments)
           IN  /\ Decodable(file) /\ file.duration = duration
               /\ DOMAIN file.records = DOMAIN segments
               /\ \A i \in DOMAIN segments :
                      /\ file.records[i].start = segments[i].start
                      /\ file.records[i].end = segments[i].end
                      /\ TextAt(file, i) = segments[i].text
<1> DEFINE file == Encode(duration, segments)
           N == Len(segments)
           r == file.records
<1>1. PICK B : Counts(B, segments)
    BY CountsExist
<1>2. PICK P : Pools(P, segments)
    BY PoolsExist
<1>3. /\ N \in Nat /\ DOMAIN segments = 1..N
      /\ \A i \in 1..N : /\ segments[i].start \in Nat /\ segments[i].end \in Nat
                         /\ segments[i].text \in Seq(STRING) /\ Len(segments[i].text) \in Nat
    BY SegmentFields
<1>4. /\ file.duration = duration /\ file.segmentCount = N
      /\ file.textBytes = TextBefore(segments, N + 1)
      /\ file.pool = FlattenSeq(Texts(segments))
      /\ r = [i \in DOMAIN segments |->
                 [start |-> segments[i].start, end |-> segments[i].end,
                  offset |-> TextBefore(segments, i), length |-> Len(segments[i].text)]]
    BY DEF Encode, Texts
<1> HIDE DEF file, r
<1>5. file.textBytes = B[N] /\ file.pool = P[N] /\ Len(P[N]) = B[N] /\ B[N] \in Nat
  <2>1. N + 1 \in 1..(Len(segments) + 1) /\ (N + 1) - 1 = N /\ N \in 0..N
    BY <1>3
  <2> QED BY <1>1, <1>2, <1>4, <2>1, TextBeforeCounts, FlattenIsPool, PoolHasTexts DEF Counts
<1>6. ASSUME NEW i \in 1..N
      PROVE  /\ r[i].start = segments[i].start /\ r[i].end = segments[i].end
             /\ r[i].offset = B[i - 1] /\ r[i].length = Len(segments[i].text)
             /\ B[i] = B[i - 1] + Len(segments[i].text) /\ B[i - 1] \in Nat
  <2>1. i \in 1..(Len(segments) + 1) /\ i - 1 \in 0..N
    BY <1>3
  <2>2. TextBefore(segments, i) = B[i - 1]
    BY <1>1, <2>1, TextBeforeCounts
  <2> QED BY <1>1, <1>3, <1>4, <2>1, <2>2 DEF Counts
<1>7. DOMAIN r = 1..N /\ Len(r) = N
  <2> DEFINE R == {r[i] : i \in 1..N}
  <2>1. r \in [1..N -> R]
    BY <1>3, <1>4
  <2> HIDE DEF R
  <2> QED BY <1>3, <2>1
<1>8. Showable(segments)
    BY <1>3 DEF Showable, Encodable
<1>9. ASSUME NEW i \in 1..N PROVE segments[i].end <= duration
  <2>1. N \in 1..N /\ segments # <<>>
    BY <1>3
  <2>2. segments[N].end <= duration
    BY <2>1 DEF Encodable, Last
  <2>3. CASE i = N
    BY <2>2, <2>3
  <2>4. CASE i # N
    <3>1. segments[i].end <= segments[N].start
      <4>1. i < N
        <5>1. N \in Nat
          BY <1>3
        <5> HIDE DEF N
        <5> QED BY <2>4, <5>1
      <4> QED BY <1>8, <2>1, <4>1, Apart
    <3> QED BY <1>3, <1>8, <2>1, <2>2, <3>1 DEF Showable
  <2> QED BY <2>3, <2>4
<1>10. ASSUME NEW i \in 1..N
       PROVE  /\ r[i].end > r[i].start /\ r[i].end <= file.duration /\ r[i].length > 0
              /\ i > 1 => r[i].start >= r[i - 1].end
              /\ r[i].offset = IF i = 1 THEN 0 ELSE r[i - 1].offset + r[i - 1].length
  <2>1. segments[i].end > segments[i].start /\ segments[i].text # <<>>
        /\ (i > 1 => segments[i].start >= segments[i - 1].end)
    BY <1>3 DEF Encodable
  <2>2. Len(segments[i].text) > 0
    BY <1>3, <2>1
  <2>3. CASE i = 1
    <3>1. B[i - 1] = 0 /\ ~(i > 1)
      BY <1>1, <2>3 DEF Counts
    <3> QED BY <1>4, <1>6, <1>9, <2>1, <2>2, <2>3, <3>1
  <2>4. CASE i # 1
    <3>1. i - 1 \in 1..N /\ i > 1
      BY <1>3, <2>4
    <3>2. r[i - 1].offset + r[i - 1].length = B[i - 1] /\ r[i - 1].end = segments[i - 1].end
      BY <1>6, <3>1
    <3>3. r[i].end > r[i].start /\ r[i].end <= file.duration /\ r[i].length > 0
      BY <1>4, <1>6, <1>9, <2>1, <2>2
    <3>4. r[i].start >= r[i - 1].end
      BY <1>6, <2>1, <3>1, <3>2
    <3>5. r[i].offset = r[i - 1].offset + r[i - 1].length
      BY <1>6, <3>2
    <3> QED BY <2>4, <3>3, <3>4, <3>5
  <2> QED BY <2>3, <2>4
<1>11. file.textBytes = IF N = 0 THEN 0 ELSE r[N].offset + r[N].length
  <2>1. CASE N = 0
    BY <1>1, <1>5, <2>1 DEF Counts
  <2>2. CASE N # 0
    <3>1. N \in 1..N
      BY <1>3, <2>2
    <3> QED BY <1>5, <1>6, <2>2, <3>1
  <2> QED BY <2>1, <2>2
<1>12. Decodable(file)
  <2>1. Framed(file)
    BY <1>4, <1>5, <1>7 DEF Framed, r
  <2> QED BY <1>7, <1>10, <1>11, <2>1 DEF Decodable, r
<1>13. ASSUME NEW i \in 1..N PROVE TextAt(file, i) = segments[i].text
  <2>1. TextAt(file, i) = SubSeq(P[N], B[i - 1] + 1, B[i - 1] + Len(segments[i].text))
    BY <1>5, <1>6 DEF TextAt, r
  <2> QED BY <1>1, <1>2, <2>1, PoolHasTexts
<1> QED BY <1>3, <1>4, <1>6, <1>7, <1>12, <1>13 DEF file, r

--------------------------------------------------------------------------------
(* The captions and the track *)

(* The captions change when words are heard, and are dropped when the attempt is over. *)
LEMMA CaptionsChange ==
    ASSUME [Next]_vars
    PROVE  \/ HearWindow \/ HearLast \/ UNCHANGED captions
           \/ captions' = [stitcher |-> Nobody, segmenter |-> NewSegmenter]
<1>1. CASE \E n \in Chunks : ReadPcm(n)
  <2>1. PICK n \in Chunks : ReadPcm(n)
    BY <1>1
  <2> QED BY <2>1 DEF ReadPcm, GoOn, Fail
<1>2. CASE ReadEof
    BY <1>2 DEF ReadEof, Fail
<1>3. CASE HeardTooLate \/ HearFails
    BY <1>3 DEF HeardTooLate, HearFails, Fail
<1>4. CASE AwaitInput
    BY <1>4 DEF AwaitInput, Fail
<1>5. CASE AwaitExit
    BY <1>5 DEF AwaitExit, Fail
<1>6. CASE Stopped \/ Drained \/ PumpReads \/ PumpWritten \/ PumpEnds \/ PumpFails
    BY <1>6 DEF Stopped, Drained, PumpReads, PumpWritten, PumpEnds, PumpFails
<1>7. CASE PumpFailed \/ PumpCancelled \/ FfmpegEnds \/ FfmpegDies \/ KillFfmpeg
    BY <1>7 DEF PumpFailed, PumpCancelled, FfmpegEnds, FfmpegDies, KillFfmpeg
<1>8. CASE Abort \/ Complete \/ Failed
    BY <1>8 DEF Abort, Complete, Failed
<1>9. CASE Over \/ UNCHANGED vars
    BY <1>9 DEF Over, vars
<1> QED BY <1>1, <1>2, <1>3, <1>4, <1>5, <1>6, <1>7, <1>8, <1>9 DEF Next

(* Whatever is heard, the captions stay as the segmenter and the codec need them. *)
LEMMA CaptionsStep == Machine /\ CaptionsSound /\ [Next]_vars => CaptionsSound'
<1>1. SUFFICES ASSUME Machine, CaptionsSound, [Next]_vars PROVE CaptionsSound'
    OBVIOUS
<1>2. CASE UNCHANGED captions
    BY <1>1, <1>2 DEF CaptionsSound
<1>3. CASE captions' = [stitcher |-> Nobody, segmenter |-> NewSegmenter]
    BY <1>3, NothingHeard DEF CaptionsSound
<1>4. CASE HearWindow \/ HearLast
  <2>1. /\ said.recording \in Recordings /\ decode.read \in Nat /\ decode.buffer \in Nat
        /\ decode.logical \in Nat /\ Window \in Nat /\ Context \in Nat
        /\ decode.buffer <= decode.logical /\ (decode.at = "last" => decode.logical < decode.read)
    BY <1>1, StaticTypes DEF Machine, Types, Decodes, Amounts
  <2>2. Hear /\ decode.at \in {"window", "last"}
    BY <1>4 DEF HearWindow, HearLast
  <2>3. InputEnd \in Nat /\ decode.buffer <= InputEnd
    BY <2>1, <2>2 DEF InputEnd, WindowEnd
  <2> QED BY <1>1, <2>1, <2>2, <2>3, HearSound
<1> QED BY <1>1, <1>2, <1>3, <1>4, CaptionsChange

(* A stored track is made of segments that the codec accepts for the whole recording. *)
TrackSound ==
    track # <<>> =>
        \E segments \in Seq(Segments) :
            Encodable(Length, segments) /\ track = <<Encode(Length, segments)>>

(* The track changes when the attempt completes, the recording never. *)
LEMMA TrackChange == [Next]_vars => UNCHANGED said /\ (Complete \/ UNCHANGED track)
<1>1. SUFFICES ASSUME [Next]_vars PROVE UNCHANGED said /\ (Complete \/ UNCHANGED track)
    OBVIOUS
<1>2. CASE \E n \in Chunks : ReadPcm(n)
  <2>1. PICK n \in Chunks : ReadPcm(n)
    BY <1>2
  <2> QED BY <2>1 DEF ReadPcm, GoOn
<1>3. CASE ReadEof \/ HearWindow \/ HearLast \/ HeardTooLate \/ HearFails
    BY <1>3 DEF ReadEof, HearWindow, GoOn, HearLast, HeardTooLate, HearFails
<1>4. CASE AwaitInput \/ AwaitExit \/ Stopped \/ Drained \/ PumpReads \/ PumpWritten
    BY <1>4 DEF AwaitInput, AwaitExit, Stopped, Drained, PumpReads, PumpWritten
<1>5. CASE \/ PumpEnds \/ PumpFails \/ PumpFailed \/ PumpCancelled
           \/ FfmpegEnds \/ FfmpegDies \/ KillFfmpeg
    BY <1>5 DEF PumpEnds, PumpFails, PumpFailed, PumpCancelled, FfmpegEnds, FfmpegDies, KillFfmpeg
<1>6. CASE Abort \/ Complete \/ Failed
    BY <1>6 DEF Abort, Complete, Failed
<1>7. CASE Over \/ UNCHANGED vars
    BY <1>7 DEF Over, vars
<1> QED BY <1>1, <1>2, <1>3, <1>4, <1>5, <1>6, <1>7 DEF Next

(* Only an attempt that heard the whole recording stores a track. *)
LEMMA TrackStep == Machine /\ CaptionsSound /\ TrackSound /\ [Next]_vars => TrackSound'
<1>1. SUFFICES ASSUME Machine, CaptionsSound, TrackSound, [Next]_vars PROVE TrackSound'
    OBVIOUS
<1>2. Length' = Length /\ (Complete \/ UNCHANGED track)
    BY <1>1, TrackChange DEF Length
<1>3. CASE UNCHANGED track
    BY <1>1, <1>2, <1>3 DEF TrackSound
<1>4. CASE Complete /\ ~UNCHANGED track
  <2>1. /\ decode.at = "over" /\ decode.good /\ job.signal = "none" /\ Accepted(Finished)
        /\ track' = <<Encode(Finished.duration, Finished.segments)>>
    BY <1>4 DEF Complete
  <2>2. decode.read = Length /\ decode.read \in Nat
    BY <1>1, <2>1 DEF Machine, Ending, Types, Decodes
  <2>3. Finished.duration = Length /\ Finished.segments \in Seq(Segments)
    BY <1>1, <2>2, FinishedAccepted
  <2>4. Encodable(Length, Finished.segments)
    BY <2>1, <2>3 DEF Accepted
  <2> QED BY <1>2, <2>1, <2>3, <2>4 DEF TrackSound
<1> QED BY <1>2, <1>3, <1>4

(* The inductive invariant *)
Sound == Machine /\ CaptionsSound /\ TrackSound

(* Every reachable state satisfies the inductive invariant. *)
THEOREM StaysSound == Spec => []Sound
<1>1. Init => Sound
  <2>1. SUFFICES ASSUME Init PROVE Sound
    OBVIOUS
  <2>2. captions = [stitcher |-> Nobody, segmenter |-> NewSegmenter] /\ track = <<>>
    BY <2>1 DEF Init
  <2>3. CaptionsSound
    BY <2>2, NothingHeard DEF CaptionsSound
  <2> QED BY <2>1, <2>2, <2>3, MachineInit DEF Sound, TrackSound
<1>2. Sound /\ [Next]_vars => Sound'
    BY MachineStep, CaptionsStep, TrackStep DEF Sound
<1> QED BY <1>1, <1>2, PTL DEF Spec

--------------------------------------------------------------------------------
(* What the pipeline keeps is bounded while it runs, however long the recording and     *)
(* whatever is heard, and when transcode has settled FFmpeg is gone and its source is    *)
(* no longer read (transcodePcmWindows, transcode).                                       *)
THEOREM PipelineIsSound == Spec => []PipelineSound
<1>1. Sound => PipelineSound
  <2>1. SUFFICES ASSUME Sound PROVE PipelineSound
    OBVIOUS
  <2>2. TypeOK
    <3>1. /\ decode.read \in 0..Length /\ ffmpeg.out \in 0..Length
          /\ decode.buffer \in 0..decode.logical
      BY <2>1, StaticTypes DEF Sound, Machine, Types, Decodes, Amounts
    <3>2. Len(captions.stitcher.tail) <= TailWords
      BY <2>1 DEF Sound, CaptionsSound
    <3> QED BY <2>1, <3>1, <3>2 DEF Sound, Machine, Types, Decodes, TypeOK
  <2>3. QueueBounded
    <3>1. PICK most \in Chunks : (\A n \in Chunks : n <= most)
                                 /\ decode.read - decode.buffer < Window + 2 * Context + most
      BY <2>1 DEF Sound, Machine, Amounts
    <3>2. Chunks \subseteq Nat
      BY BoundsAssumption
    <3>3. Max(Chunks) = most
      <4>1. \A n \in Chunks : most >= n
        BY <3>1, <3>2
      <4>2. Max(Chunks) \in Chunks /\ \A n \in Chunks : Max(Chunks) >= n
        BY <4>1 DEF Max
      <4>3. Max(Chunks) \in Nat /\ most \in Nat
        BY <3>2, <4>2
      <4>4. Max(Chunks) <= most /\ Max(Chunks) >= most
        BY <3>1, <4>2
      <4> HIDE DEF Max
      <4> QED BY <4>3, <4>4
    <3> QED BY <3>1, <3>3 DEF QueueBounded, Queued
  <2>4. NothingLeftRunning
    BY <2>1 DEF Sound, Machine, Ending, NothingLeftRunning
  <2> QED BY <2>2, <2>3, <2>4 DEF PipelineSound
<1> QED BY <1>1, StaysSound, PTL

(* Whatever the service hears, the segmenter and the codec refuse nothing of what the    *)
(* stitcher makes of it: the last step of an attempt never loses the chapter (execute).   *)
THEOREM NothingIsRefused == Spec => []NeverRefused
<1>1. Sound => NeverRefused
  <2>1. SUFFICES ASSUME Sound PROVE Accepted(Finished)
    BY DEF NeverRefused
  <2>2. decode.read \in Nat
    BY <2>1 DEF Sound, Machine, Types, Decodes
  <2> QED BY <2>1, <2>2, FinishedAccepted DEF Sound
<1> QED BY <1>1, StaysSound, PTL

(* Only a whole recording is ever captioned (transcode). *)
THEOREM OnlyWholeTracks == Spec => []TrackIsWhole
<1>1. Sound => TrackIsWhole
  <2>1. SUFFICES ASSUME Sound, track # <<>> PROVE track[1].duration = Length
    BY DEF TrackIsWhole
  <2>2. PICK segments \in Seq(Segments) :
            Encodable(Length, segments) /\ track = <<Encode(Length, segments)>>
    BY <2>1 DEF Sound, TrackSound
  <2>3. Length \in Nat
    BY <2>1, StaticTypes DEF Sound, Machine
  <2> QED BY <2>2, <2>3, RoundTrip
<1> QED BY <1>1, StaysSound, PTL

(* Every track that was stored can be read (encodeCaptionTrack, decodeCaptionTrack). *)
THEOREM TracksAreReadable == Spec => []TrackIsReadable
<1>1. Sound => TrackIsReadable
  <2>1. SUFFICES ASSUME Sound, track # <<>> PROVE Decodable(track[1])
    BY DEF TrackIsReadable
  <2>2. PICK segments \in Seq(Segments) :
            Encodable(Length, segments) /\ track = <<Encode(Length, segments)>>
    BY <2>1 DEF Sound, TrackSound
  <2>3. Length \in Nat
    BY <2>1, StaticTypes DEF Sound, Machine
  <2> QED BY <2>2, <2>3, RoundTrip
<1> QED BY <1>1, StaysSound, PTL

(* A seek in a stored track, from any segment and to any time, finds the segment that   *)
(* shows then, if there is one (CaptionLookup).                                            *)
THEOREM SeeksFind == Spec => []SeekFinds
<1>1. Sound => SeekFinds
  <2>1. SUFFICES ASSUME Sound, track # <<>>,
                        NEW current \in 0..Len(track[1].records), NEW time \in 0..Length
                 PROVE  LET r == track[1].records
                            found == FindIndex(r, current, time)
                        IN  IF \E i \in DOMAIN r : ShowsAt(r[i], time)
                            THEN found \in DOMAIN r /\ ShowsAt(r[found], time)
                            ELSE found = 0
    BY DEF SeekFinds
  <2>2. PICK segments \in Seq(Segments) :
            Encodable(Length, segments) /\ track = <<Encode(Length, segments)>>
    BY <2>1 DEF Sound, TrackSound
  <2> DEFINE r == track[1].records
             n == Len(segments)
             R == {r[i] : i \in 1..n}
  <2>3. Length \in Nat /\ n \in Nat /\ DOMAIN segments = 1..n
    BY <2>1, StaticTypes DEF Sound, Machine
  <2>4. /\ DOMAIN r = 1..n
        /\ \A i \in 1..n : r[i].start = segments[i].start /\ r[i].end = segments[i].end
    BY <2>2, <2>3, RoundTrip
  <2>5. r = [i \in 1..n |-> r[i]]
    BY <2>2, <2>3 DEF Encode
  <2> HIDE DEF r
  <2>6. r \in Seq(R) /\ Len(r) = n
    <3>1. r \in [1..n -> R]
      BY <2>5
    <3> HIDE DEF R
    <3> QED BY <2>3, <3>1
  <2>7. Showable(r)
    <3>1. ASSUME NEW i \in 1..n
          PROVE  /\ r[i].start \in Nat /\ r[i].end \in Nat /\ r[i].start < r[i].end
                 /\ i > 1 => r[i - 1].end <= r[i].start
      <4>1. segments[i].start \in Nat /\ segments[i].end \in Nat
        BY SegmentFields
      <4>2. segments[i].end > segments[i].start
            /\ (i > 1 => segments[i].start >= segments[i - 1].end)
        BY <2>2, <2>3 DEF Encodable
      <4>3. ASSUME i > 1 PROVE segments[i - 1].end \in Nat /\ r[i - 1].end = segments[i - 1].end
        <5>1. i - 1 \in 1..n
          BY <2>3, <4>3
        <5> QED BY <2>4, <5>1, SegmentFields
      <4> QED BY <2>4, <4>1, <4>2, <4>3
    <3> QED BY <2>6, <3>1 DEF Showable
  <2>8. current \in 0..Len(r) /\ time \in Nat
    BY <2>1, <2>3 DEF r
  <2> QED BY <2>6, <2>7, <2>8, FindIndexSound DEF r
<1> QED BY <1>1, StaysSound, PTL
================================================================================
