--------------------------- MODULE SeparateProofs ---------------------------
(***************************************************************************)
(* Theorems about the components of Separate, for every value of their     *)
(* constants: the form with gaps, the form with options, streaks, the      *)
(* leaderboard and the judgement of an answer.                             *)
(*                                                                         *)
(* Induction over numbers goes through the least counterexample (Upwards), *)
(* recursive functions through a function that is built step by step       *)
(* (Iterates).                                                             *)
(***************************************************************************)
EXTENDS Separate, SequenceTheorems, FiniteSetTheorems, WellFoundedInduction, TLAPS

-----------------------------------------------------------------------------
(* Numbers and sequences                                                   *)

\* A set of numbers that is not empty has a least one.
LEMMA LeastNumber ==
    ASSUME NEW B, B \subseteq Nat, B # {}
    PROVE  \E m \in B : \A k \in B : m <= k
<1>1. PICK m \in B : \A k \in B : ~(<<k, m>> \in OpToRel(<, Nat))
    BY WFMin, NatLessThanWellFounded
<1>2. \A k \in B : ~(k < m)
    BY <1>1 DEF OpToRel
<1> QED BY <1>2

\* A set of numbers with a bound has a greatest one.
LEMMA GreatestNumber ==
    ASSUME NEW b \in Nat, NEW B, B \subseteq 0 .. b, B # {}
    PROVE  \E m \in B : \A k \in B : m >= k
<1> DEFINE C == {b - k : k \in B}
<1>1. C \subseteq Nat /\ C # {}
    <2>1. \A k \in B : b - k \in Nat
        OBVIOUS
    <2>2. PICK k \in B : TRUE
        OBVIOUS
    <2>3. b - k \in C
        BY <2>2
    <2> QED BY <2>1, <2>3
<1>2. PICK c \in C : \A d \in C : c <= d
    BY <1>1, LeastNumber
<1>3. PICK m \in B : c = b - m
    OBVIOUS
<1>4. \A k \in B : b - m <= b - k
    BY <1>2, <1>3
<1> QED BY <1>4

\* What is true of 0, and of a number if it is of the one before, is true of all
\* up to n.
LEMMA Upwards ==
    ASSUME NEW n \in Nat, NEW S, 0 \in S, \A i \in 0 .. n - 1 : i \in S => i + 1 \in S
    PROVE  \A i \in 0 .. n : i \in S
<1> DEFINE bad == {i \in 0 .. n : i \notin S}
<1>1. SUFFICES ASSUME bad # {} PROVE FALSE
    OBVIOUS
<1>2. PICK m \in bad : \A k \in bad : m <= k
    <2>1. bad \subseteq Nat
        OBVIOUS
    <2> QED BY <1>1, <2>1, LeastNumber
<1>3. m # 0 /\ m - 1 \in 0 .. n - 1 /\ m - 1 \in 0 .. n /\ m - 1 \notin bad /\ (m - 1) + 1 = m
    BY <1>2
<1>4. m - 1 \in S
    BY <1>3
<1>5. (m - 1) + 1 \in S
    BY <1>3, <1>4
<1> QED BY <1>2, <1>3, <1>5

\* A function whose values come each from the one before.
Iterate(f, X, base, n, G) ==
    /\ f \in [0 .. n -> X] /\ f[0] = base
    /\ \A i \in 1 .. n : f[i] = G[<<i, f[i - 1]>>]

\* There is one as long as anybody likes, by adding one value to the longest.
LEMMA Iterates ==
    ASSUME NEW X, NEW base \in X, NEW n \in Nat, NEW G \in [(1 .. n) \X X -> X]
    PROVE  \E f : Iterate(f, X, base, n, G)
<1> DEFINE S == {k \in 0 .. n : \E f : Iterate(f, X, base, k, G)}
<1>1. 0 \in S
    <2> DEFINE f == [i \in 0 .. 0 |-> base]
    <2>1. f \in [0 .. 0 -> X] /\ f[0] = base /\ \A i \in 1 .. 0 : FALSE
        OBVIOUS
    <2> HIDE DEF f
    <2>2. \E h : Iterate(h, X, base, 0, G)
        BY <2>1 DEF Iterate
    <2> QED BY <2>2
<1>2. ASSUME NEW k \in 0 .. n - 1, k \in S PROVE k + 1 \in S
    <2>1. PICK f : Iterate(f, X, base, k, G)
        BY <1>2
    <2> DEFINE g == [i \in 0 .. k + 1 |-> IF i <= k THEN f[i] ELSE G[<<k + 1, f[k]>>]]
    <2>2. k + 1 \in 1 .. n /\ k + 1 \in 0 .. n /\ f[k] \in X
        BY <2>1 DEF Iterate
    <2>3. g \in [0 .. k + 1 -> X] /\ g[0] = base
        BY <2>1, <2>2 DEF Iterate
    <2>4. ASSUME NEW i \in 1 .. k + 1 PROVE g[i] = G[<<i, g[i - 1]>>]
        <3>1. CASE i <= k
            <4>1. i \in 1 .. k /\ g[i] = f[i] /\ g[i - 1] = f[i - 1]
                BY <3>1
            <4> HIDE DEF g
            <4> QED BY <2>1, <4>1 DEF Iterate
        <3>2. CASE i = k + 1
            <4>1. g[i] = G[<<k + 1, f[k]>>] /\ g[i - 1] = f[k]
                BY <3>2
            <4> HIDE DEF g
            <4> QED BY <3>2, <4>1
        <3> QED BY <3>1, <3>2
    <2> HIDE DEF g
    <2>5. \E h : Iterate(h, X, base, k + 1, G)
        BY <2>3, <2>4 DEF Iterate
    <2> QED BY <2>2, <2>5
<1> HIDE DEF S
<1>3. n \in S
    BY <1>1, <1>2, Upwards
<1> QED BY <1>3 DEF S

\* A slice of a sequence, ...
LEMMA Slices ==
    ASSUME NEW T, NEW s \in Seq(T), NEW m \in 1 .. Len(s) + 1, NEW k \in m - 1 .. Len(s)
    PROVE  /\ SubSeq(s, m, k) \in Seq(T) /\ Len(SubSeq(s, m, k)) = k - m + 1
           /\ \A i \in 1 .. k - m + 1 : SubSeq(s, m, k)[i] = s[m + i - 1]
<1>1. m \in Int /\ k \in Int /\ \A i \in m .. k : s[i] \in T
    OBVIOUS
<1> QED BY <1>1, SubSeqProperties

\* ... and the slice that follows it.
LEMMA Halves ==
    ASSUME NEW T, NEW s \in Seq(T), NEW m \in 1 .. Len(s) + 1, NEW k \in m - 1 .. Len(s)
    PROVE  SubSeq(s, m, Len(s)) = SubSeq(s, m, k) \o SubSeq(s, k + 1, Len(s))
<1> DEFINE n == Len(s)
           a == SubSeq(s, m, k)
           b == SubSeq(s, k + 1, n)
           c == SubSeq(s, m, n)
<1>1. n \in Nat /\ m \in Int /\ k \in Int /\ k + 1 \in 1 .. n + 1 /\ n \in (k + 1) - 1 .. n /\ n \in m - 1 .. n
    OBVIOUS
<1>2. a \in Seq(T) /\ Len(a) = k - m + 1 /\ \A i \in 1 .. k - m + 1 : a[i] = s[m + i - 1]
    BY Slices
<1>3. b \in Seq(T) /\ Len(b) = n - k /\ \A i \in 1 .. n - k : b[i] = s[k + i]
    <2>1. n - (k + 1) + 1 = n - k /\ \A i \in Int : (k + 1) + i - 1 = k + i
        BY <1>1
    <2>2. b \in Seq(T) /\ Len(b) = n - (k + 1) + 1
          /\ \A i \in 1 .. n - (k + 1) + 1 : b[i] = s[(k + 1) + i - 1]
        BY <1>1, Slices
    <2> HIDE DEF b, n
    <2> QED BY <1>1, <2>1, <2>2
<1>4. c \in Seq(T) /\ Len(c) = n - m + 1 /\ \A i \in 1 .. n - m + 1 : c[i] = s[m + i - 1]
    BY <1>1, Slices
<1> HIDE DEF a, b, c, n
<1>5. a \o b \in Seq(T) /\ Len(a \o b) = n - m + 1
    <2>1. a \o b \in Seq(T) /\ Len(a \o b) = (k - m + 1) + (n - k)
        <3>1. a \in Seq(T) /\ b \in Seq(T) /\ Len(a) = k - m + 1 /\ Len(b) = n - k
            BY <1>2, <1>3
        <3>2. a \o b \in Seq(T) /\ Len(a \o b) = Len(a) + Len(b)
            BY <3>1, ConcatProperties
        <3> QED BY <3>1, <3>2
    <2> QED BY <1>1, <2>1
<1>6. ASSUME NEW i \in 1 .. n - m + 1 PROVE (a \o b)[i] = c[i]
    <2>1. CASE i <= k - m + 1
        <3>1. i \in 1 .. k - m + 1 /\ (a \o b)[i] = a[i]
            BY <1>1, <1>2, <1>3, <2>1
        <3> QED BY <1>2, <1>4, <3>1
    <2>2. CASE i > k - m + 1
        <3>1. PICK j \in 1 .. n - k : j = i - (k - m + 1) /\ k + j = m + i - 1
            BY <1>1, <2>2 DEF n
        <3>2. (a \o b)[i] = b[j]
            BY <1>1, <1>2, <1>3, <2>2, <3>1, SMTT(30)
        <3> QED BY <1>3, <1>4, <3>1, <3>2
    <2>3. i <= k - m + 1 \/ i > k - m + 1
        BY <1>1
    <2> QED BY <2>1, <2>2, <2>3
<1>7. c = a \o b
    BY <1>4, <1>5, <1>6, SeqEqual
<1> QED BY <1>7 DEF a, b, c, n

\* What RemoveAt leaves of a sequence.
Without(s, i) == SubSeq(s, 1, i - 1) \o SubSeq(s, i + 1, Len(s))

\* One element is taken out of a sequence, and the others stay in order.
LEMMA TakenOut ==
    ASSUME NEW T, NEW s \in Seq(T), NEW i \in 1 .. Len(s)
    PROVE  /\ Without(s, i) \in Seq(T) /\ Len(Without(s, i)) = Len(s) - 1
           /\ \A k \in 1 .. Len(s) - 1 :
                Without(s, i)[k] = IF k < i THEN s[k] ELSE s[k + 1]
<1> DEFINE t == Without(s, i)
<1>1. Len(s) \in Nat /\ i \in Int /\ \A k \in 1 .. Len(s) : s[k] \in T
    OBVIOUS
<1> DEFINE a == SubSeq(s, 1, i - 1)
           c == SubSeq(s, i + 1, Len(s))
<1>2. /\ a \in Seq(T) /\ Len(a) = i - 1
      /\ \A k \in 1 .. i - 1 : a[k] = s[k]
    BY <1>1, SubSeqProperties
<1>3. /\ c \in Seq(T) /\ Len(c) = Len(s) - i
      /\ \A k \in 1 .. Len(s) - i : c[k] = s[i + k]
    <2>1. \A k \in i + 1 .. Len(s) : s[k] \in T
        BY <1>1
    <2>2. /\ c \in Seq(T) /\ Len(c) = IF i + 1 <= Len(s) THEN Len(s) - (i + 1) + 1 ELSE 0
          /\ \A k \in 1 .. Len(s) - (i + 1) + 1 : c[k] = s[i + 1 + k - 1]
        BY <1>1, <2>1, SubSeqProperties
    <2> QED BY <1>1, <2>2
<1> HIDE DEF a, c
<1>4. /\ a \o c \in Seq(T) /\ Len(a \o c) = Len(a) + Len(c)
      /\ \A k \in 1 .. Len(a) + Len(c) :
            (a \o c)[k] = IF k <= Len(a) THEN a[k] ELSE c[k - Len(a)]
    BY <1>2, <1>3, ConcatProperties
<1>5. t = a \o c
    BY DEF a, c, Without
<1> HIDE DEF t
<1>6. Len(t) = Len(s) - 1
    <2>1. Len(t) = Len(a) + Len(c)
        BY <1>4, <1>5
    <2>2. Len(t) = (i - 1) + (Len(s) - i)
        BY <1>2, <1>3, <2>1
    <2> QED BY <1>1, <2>2
<1>7. ASSUME NEW k \in 1 .. Len(s) - 1, k < i PROVE t[k] = s[k]
    <2>1. k \in 1 .. Len(a) + Len(c) /\ k <= Len(a) /\ k \in 1 .. i - 1
        BY <1>1, <1>2, <1>3, <1>7
    <2> QED BY <1>2, <1>4, <1>5, <2>1
<1>8. ASSUME NEW k \in 1 .. Len(s) - 1, ~(k < i) PROVE t[k] = s[k + 1]
    <2> DEFINE j == k - Len(a)
    <2>1. k \in 1 .. Len(a) + Len(c) /\ ~(k <= Len(a))
        BY <1>1, <1>2, <1>3, <1>8
    <2>2. j \in 1 .. Len(s) - i /\ i + j = k + 1
        BY <1>1, <1>2, <1>8
    <2>3. t[k] = c[j]
        BY <1>4, <1>5, <2>1
    <2> HIDE DEF j
    <2> QED BY <1>3, <2>2, <2>3
<1> QED BY <1>4, <1>5, <1>6, <1>7, <1>8 DEF t

\* The recursive function by which FlattenSeq concatenates.
Flattens(f, ss, n) ==
    f = [i \in 1 .. n |-> IF i = 1 THEN ss[i] ELSE f[i - 1] \o ss[i]]

Flat(ss, n) == CHOOSE f : Flattens(f, ss, n)

\* There is such a function: from the least length without one, take one off.
LEMMA FlatExists ==
    ASSUME NEW ss, NEW n \in Nat
    PROVE  Flattens(Flat(ss, n), ss, n)
<1> DEFINE bad == {k \in Nat : ~ \E f : Flattens(f, ss, k)}
<1>1. bad = {}
    <2>1. SUFFICES ASSUME bad # {} PROVE FALSE
        OBVIOUS
    <2>2. PICK m \in bad : \A k \in bad : m <= k
        BY <2>1, LeastNumber
    <2>3. CASE m = 0
        <3>1. Flattens([i \in 1 .. 0 |-> 0], ss, 0)
            BY DEF Flattens
        <3> QED BY <2>2, <2>3, <3>1
    <2>4. CASE m # 0
        <3>1. PICK f : Flattens(f, ss, m - 1)
            BY <2>2, <2>4
        <3> DEFINE g == [i \in 1 .. m |-> IF i < m THEN f[i]
                                           ELSE IF i = 1 THEN ss[i] ELSE f[i - 1] \o ss[i]]
        <3>2. m \in Nat
            BY <2>2
        <3>3. ASSUME NEW i \in 1 .. m PROVE g[i] = IF i = 1 THEN ss[i] ELSE g[i - 1] \o ss[i]
            <4>1. CASE i = m
                BY <2>4, <3>2, <4>1
            <4>2. CASE i # m
                <5>1. i \in 1 .. m - 1
                    BY <3>2, <4>2
                <5>2. f[i] = IF i = 1 THEN ss[i] ELSE f[i - 1] \o ss[i]
                    BY <3>1, <5>1, Zenon DEF Flattens
                <5>3. i # 1 => g[i - 1] = f[i - 1]
                    BY <3>2, <5>1
                <5> QED BY <3>2, <5>1, <5>2, <5>3
            <4> QED BY <4>1, <4>2
        <3>4. Flattens(g, ss, m)
            BY <3>3, Zenon DEF Flattens
        <3> QED BY <2>2, <3>4
    <2> QED BY <2>3, <2>4
<1>2. \E f : Flattens(f, ss, n)
    BY <1>1
<1> QED BY <1>2, Zenon DEF Flat

\* Each sequence is appended to those before it.
LEMMA FlatStep ==
    ASSUME NEW ss, NEW n \in Nat, NEW i \in 1 .. n
    PROVE  Flat(ss, n)[i] = IF i = 1 THEN ss[i] ELSE Flat(ss, n)[i - 1] \o ss[i]
<1> DEFINE f == Flat(ss, n)
<1>1. f = [k \in 1 .. n |-> IF k = 1 THEN ss[k] ELSE f[k - 1] \o ss[k]]
    BY FlatExists, Zenon DEF Flattens
<1> HIDE DEF f
<1>2. f[i] = IF i = 1 THEN ss[i] ELSE f[i - 1] \o ss[i]
    BY <1>1, Zenon
<1> QED BY <1>2 DEF f

\* Sequences are concatenated to a sequence.
LEMMA FlatIsSeq ==
    ASSUME NEW T, NEW ss, NEW n \in Nat, \A i \in 1 .. n : ss[i] \in Seq(T),
           NEW i \in 1 .. n
    PROVE  Flat(ss, n)[i] \in Seq(T)
<1> DEFINE bad == {k \in 1 .. n : Flat(ss, n)[k] \notin Seq(T)}
<1>1. bad = {}
    <2>1. SUFFICES ASSUME bad # {} PROVE FALSE
        OBVIOUS
    <2>2. PICK m \in bad : \A k \in bad : m <= k
        <3>1. bad \subseteq Nat
            OBVIOUS
        <3> QED BY <2>1, <3>1, LeastNumber
    <2>3. CASE m = 1
        BY <2>2, <2>3, FlatStep
    <2>4. CASE m # 1
        <3>1. m - 1 \in 1 .. n /\ m - 1 \notin bad
            BY <2>2, <2>4
        <3>2. Flat(ss, n)[m] = Flat(ss, n)[m - 1] \o ss[m]
            BY <2>2, <2>4, FlatStep
        <3>3. Flat(ss, n)[m - 1] \in Seq(T) /\ ss[m] \in Seq(T)
            BY <2>2, <3>1
        <3>4. Flat(ss, n)[m - 1] \o ss[m] \in Seq(T)
            BY <3>3, ConcatProperties
        <3> QED BY <2>2, <3>2, <3>4
    <2> QED BY <2>3, <2>4
<1> QED BY <1>1

\* The first n of some sequences concatenated, step by step.
FlatTo(ss, n, k) == IF k = 0 THEN << >> ELSE Flat(ss, n)[k]

\* Each step appends the next sequence.
LEMMA FlatToStep ==
    ASSUME NEW T, NEW ss, NEW n \in Nat, \A i \in 1 .. n : ss[i] \in Seq(T),
           NEW k \in 0 .. n - 1
    PROVE  /\ FlatTo(ss, n, k) \in Seq(T)
           /\ FlatTo(ss, n, k + 1) = FlatTo(ss, n, k) \o ss[k + 1]
<1>1. k + 1 \in 1 .. n /\ ss[k + 1] \in Seq(T)
    OBVIOUS
<1>2. FlatTo(ss, n, k + 1) = Flat(ss, n)[k + 1]
    BY DEF FlatTo
<1>3. CASE k = 0
    <2>1. Flat(ss, n)[k + 1] = ss[k + 1]
        BY <1>1, <1>3, FlatStep
    <2>2. << >> \o ss[k + 1] = ss[k + 1]
        BY <1>1, ConcatEmptySeq
    <2> QED BY <1>2, <1>3, <2>1, <2>2 DEF FlatTo
<1>4. CASE k # 0
    <2>1. k \in 1 .. n /\ Flat(ss, n)[k] \in Seq(T)
        BY <1>4, FlatIsSeq
    <2>2. PICK i \in 1 .. n : i = k + 1 /\ i # 1 /\ i - 1 = k
        BY <1>1, <1>4
    <2>3. Flat(ss, n)[i] = Flat(ss, n)[i - 1] \o ss[i]
        BY <2>2, FlatStep
    <2> QED BY <1>2, <1>4, <2>1, <2>2, <2>3 DEF FlatTo
<1> QED BY <1>3, <1>4

-----------------------------------------------------------------------------
(* The form with gaps                                                      *)

\* A box belongs to a form of type "fill", and unless it is stale its segments
\* carry their own places.
BoxKept ==
    /\ Gaps!TypeOK
    /\ \A q \in Gaps!Questions :
        /\ box[q] # << >> => forms[q] = "fill"
        /\ ~stale[q] => \A i \in 1 .. Len(box[q]) : box[q][i].number = i - 1

\* The first box is one of those there are.
LEMMA FirstIsFill ==
    ASSUME NEW f, Gaps!Fills(f) # {}
    PROVE  Gaps!First(f) \in Gaps!Fills(f)
<1>1. Gaps!Fills(f) \subseteq Nat
    BY SeparateAssumption DEF Gaps!Fills, Gaps!Questions, Gaps!BoundsAssumption
<1>2. PICK m \in Gaps!Fills(f) : \A k \in Gaps!Fills(f) : m <= k
    BY <1>1, LeastNumber
<1> QED BY <1>2 DEF Gaps!First, Gaps!Min

\* Numbering makes rows of segments.
LEMMA NumberedRows ==
    ASSUME NEW s \in Seq(Words), Len(s) <= MaxSegments
    PROVE  /\ Gaps!Numbered(s) \in Seq(Gaps!Row) /\ Len(Gaps!Numbered(s)) = Len(s)
           /\ \A i \in 1 .. Len(s) : Gaps!Numbered(s)[i].number = i - 1
<1>1. Gaps!Numbered(s) = [i \in 1 .. Len(s) |-> [number |-> i - 1, segment |-> s[i]]]
    BY DEF Gaps!Numbered
<1>2. MaxSegments \in Nat /\ Len(s) \in Nat
    BY SeparateAssumption DEF Gaps!BoundsAssumption
<1>3. \A i \in 1 .. Len(s) : [number |-> i - 1, segment |-> s[i]] \in Gaps!Row
    BY <1>2 DEF Gaps!Row
<1> QED BY <1>1, <1>2, <1>3

\* What is posted are segments, as many as the form holds at most; and all of
\* them, in their order, if the rows carry their places.
LEMMA PostedSegments ==
    ASSUME BoxKept, NEW q \in Gaps!Questions
    PROVE  /\ Gaps!Posted(q) \in Seq(Words) /\ Len(Gaps!Posted(q)) <= MaxSegments
           /\ ~stale[q] => Gaps!Posted(q) = Gaps!Segments(box[q])
<1> DEFINE s == box[q]
           found == {n \in 0 .. MaxSegments : \A m \in 0 .. n - 1 : Gaps!Number(q, m) # {}}
           n == Gaps!Max(found)
<1>1. /\ s \in Seq(Gaps!Row) /\ Len(s) \in Nat /\ Len(s) <= MaxSegments /\ MaxSegments \in Nat
      /\ \A i \in 1 .. Len(s) : s[i] \in Gaps!Row
    BY SeparateAssumption DEF BoxKept, Gaps!TypeOK, Gaps!BoundsAssumption
<1>2. \A m : Gaps!Number(q, m) = {i \in 1 .. Len(s) : s[i].number = m}
    BY <1>1 DEF Gaps!Number
<1>3. n \in found /\ \A m \in found : n >= m
    <2>1. 0 \in found
        BY <1>1
    <2>2. \E m \in found : \A k \in found : m >= k
        BY <1>1, <2>1, GreatestNumber
    <2> QED BY <2>2 DEF Gaps!Max
<1>4. Gaps!Posted(q) = [k \in 1 .. n |-> s[Gaps!Min(Gaps!Number(q, k - 1))].segment]
    BY DEF Gaps!Posted
<1> HIDE DEF n
<1>5. n \in 0 .. MaxSegments
    BY <1>3
<1>6. ASSUME NEW k \in 1 .. n
      PROVE  Gaps!Min(Gaps!Number(q, k - 1)) \in Gaps!Number(q, k - 1)
    <2>1. Gaps!Number(q, k - 1) # {} /\ Gaps!Number(q, k - 1) \subseteq Nat
        BY <1>2, <1>3, <1>5
    <2>2. PICK l \in Gaps!Number(q, k - 1) : \A j \in Gaps!Number(q, k - 1) : l <= j
        BY <2>1, LeastNumber
    <2> QED BY <2>2 DEF Gaps!Min
<1>7. \A k \in 1 .. n : s[Gaps!Min(Gaps!Number(q, k - 1))].segment \in Words
    BY <1>1, <1>2, <1>6 DEF Gaps!Row
<1>8. Gaps!Posted(q) \in Seq(Words) /\ Len(Gaps!Posted(q)) <= MaxSegments
    BY <1>1, <1>4, <1>5, <1>7
<1>9. ASSUME ~stale[q] PROVE Gaps!Posted(q) = Gaps!Segments(s)
    <2>1. \A i \in 1 .. Len(s) : s[i].number = i - 1
        BY <1>9 DEF BoxKept
    <2>2. Len(s) \in found
        <3>1. ASSUME NEW m \in 0 .. Len(s) - 1 PROVE Gaps!Number(q, m) # {}
            <4>1. m + 1 \in 1 .. Len(s) /\ s[m + 1].number = m
                BY <1>1, <2>1
            <4> QED BY <1>2, <4>1
        <3> QED BY <1>1, <3>1
    <2>3. n <= Len(s)
        <3>1. SUFFICES ASSUME n > Len(s) PROVE FALSE
            BY <1>1, <1>5
        <3>2. Gaps!Number(q, Len(s)) # {}
            BY <1>1, <1>3, <1>5, <3>1
        <3> QED BY <1>1, <1>2, <2>1, <3>2
    <2>4. n = Len(s)
        <3>1. n >= Len(s)
            BY <1>3, <2>2
        <3> QED BY <1>1, <1>5, <2>3, <3>1
    <2>5. ASSUME NEW k \in 1 .. n PROVE Gaps!Min(Gaps!Number(q, k - 1)) = k
        <3> DEFINE l == Gaps!Min(Gaps!Number(q, k - 1))
        <3>1. l \in 1 .. Len(s) /\ s[l].number = k - 1
            BY <1>2, <1>6
        <3> HIDE DEF l
        <3>2. l = k
            BY <1>1, <1>5, <2>1, <3>1
        <3> QED BY <3>2 DEF l
    <2> QED BY <1>1, <1>4, <2>4, <2>5 DEF Gaps!Segments
<1> QED BY <1>8, <1>9

\* Segments are the rows without their numbers.
LEMMA SegmentsOfRows ==
    ASSUME NEW r \in Seq(Gaps!Row)
    PROVE  Gaps!Segments(r) \in Seq(Words) /\ Len(Gaps!Segments(r)) = Len(r)
<1>1. Gaps!Segments(r) = [i \in 1 .. Len(r) |-> r[i].segment]
    BY DEF Gaps!Segments
<1>2. Len(r) \in Nat /\ \A i \in 1 .. Len(r) : r[i] \in Gaps!Row
    OBVIOUS
<1>3. \A i \in 1 .. Len(r) : r[i].segment \in Words
    BY <1>2 DEF Gaps!Row
<1> QED BY <1>1, <1>2, <1>3

\* The gaps that are drawn when the page is loaded are segments.
LEMMA DrawnSegments ==
    ASSUME NEW s \in Seq(Words), NEW n \in Nat
    PROVE  Gaps!FlattenSeq([k \in 1 .. n |-> s]) \in Seq(Words)
<1> DEFINE ss == [k \in 1 .. n |-> s]
<1>1. Len(ss) = n /\ \A i \in 1 .. n : ss[i] \in Seq(Words)
    OBVIOUS
<1>2. n = 0 => ss = << >>
    OBVIOUS
<1> HIDE DEF ss
<1>3. Gaps!FlattenSeq(ss) = IF Len(ss) = 0 THEN ss ELSE Flat(ss, Len(ss))[Len(ss)]
    BY Zenon DEF Gaps!FlattenSeq, Flat, Flattens
<1>4. n # 0 => Flat(ss, n)[n] \in Seq(Words)
    BY <1>1, FlatIsSeq
<1>5. Gaps!FlattenSeq(ss) \in Seq(Words)
    <2>1. CASE n = 0
        BY <1>1, <1>2, <1>3, <2>1
    <2>2. CASE n # 0
        BY <1>1, <1>3, <1>4, <2>2, Zenon
    <2> QED BY <2>1, <2>2
<1> QED BY <1>5 DEF ss

\* Questions with gaps can be counted.
LEMMA FillsCounted ==
    ASSUME NEW f
    PROVE  Gaps!Cardinality(Gaps!Fills(f)) \in Nat
<1>1. Gaps!IsFiniteSet(Gaps!Fills(f)) <=> IsFiniteSet(Gaps!Fills(f))
    BY Zenon DEF Gaps!IsFiniteSet, IsFiniteSet
<1>2. Gaps!Cardinality(Gaps!Fills(f)) = Cardinality(Gaps!Fills(f))
    BY Zenon DEF Gaps!Cardinality, Cardinality
<1>3. IsFiniteSet(Gaps!Fills(f))
    <2>1. IsFiniteSet(1 .. Count)
        BY SeparateAssumption, FS_Interval DEF Gaps!BoundsAssumption
    <2>2. Gaps!Fills(f) \subseteq 1 .. Count
        BY DEF Gaps!Fills, Gaps!Questions
    <2> QED BY <2>1, <2>2, FS_Subset
<1> QED BY <1>2, <1>3, FS_CardinalityType

\* Boxes and stored segments are kept through every step.
LEMMA BoxInductive ==
    ASSUME BoxKept, [Gaps!Next]_(Gaps!vars)
    PROVE  BoxKept'
<1> DEFINE Q == Gaps!Questions
           S == MaxSegments
<1>0. /\ S \in Nat \ {0}
      /\ types \in [Q -> Gaps!Types] /\ forms \in [Q -> Gaps!Types]
      /\ segments \in [Q -> Seq(Words)] /\ box \in [Q -> Seq(Gaps!Row)]
      /\ stale \in [Q -> BOOLEAN]
      /\ \A q \in Q : Len(box[q]) <= S /\ Len(segments[q]) <= S
      /\ \A q \in Q : /\ box[q] # << >> => forms[q] = "fill"
                      /\ ~stale[q] => \A i \in 1 .. Len(box[q]) : box[q][i].number = i - 1
    BY SeparateAssumption DEF BoxKept, Gaps!TypeOK, Gaps!BoundsAssumption
<1> HIDE DEF Q, S
<1> SUFFICES /\ types' \in [Q -> Gaps!Types] /\ forms' \in [Q -> Gaps!Types]
             /\ segments' \in [Q -> Seq(Words)] /\ box' \in [Q -> Seq(Gaps!Row)]
             /\ stale' \in [Q -> BOOLEAN]
             /\ \A q \in Q : Len(box'[q]) <= S /\ Len(segments'[q]) <= S
             /\ \A q \in Q : /\ box'[q] # << >> => forms'[q] = "fill"
                             /\ ~stale'[q] => \A i \in 1 .. Len(box'[q]) : box'[q][i].number = i - 1
    BY DEF BoxKept, Gaps!TypeOK, Q, S
<1>1. CASE Gaps!OpenPage
    <2>1. /\ forms' = types /\ segments' = segments /\ types' = types
          /\ stale' = [q \in Q |-> FALSE]
        BY <1>1 DEF Gaps!OpenPage, Gaps!NothingStale, Q
    <2>2. CASE Gaps!Fills(types) = {}
        <3>1. box' = [q \in Q |-> << >>]
            BY <1>1, <2>2 DEF Gaps!OpenPage, Q
        <3> QED BY <1>0, <2>1, <3>1
    <2>3. CASE Gaps!Fills(types) # {}
        <3> DEFINE f == Gaps!First(types)
                   n == Gaps!Cardinality(Gaps!Fills(types))
                   drawn == Gaps!FlattenSeq([k \in 1 .. n |-> segments[f]])
        <3>1. f \in Q /\ types[f] = "fill"
            BY <2>3, FirstIsFill DEF Gaps!Fills, Q
        <3>2. drawn \in Seq(Words)
            <4>1. n \in Nat
                BY FillsCounted
            <4> QED BY <1>0, <3>1, <4>1, DrawnSegments
        <3>3. Len(drawn) <= S /\ box' = [q \in Q |-> IF q = f THEN Gaps!Numbered(drawn) ELSE << >>]
            BY <1>1, <2>3 DEF Gaps!OpenPage, Q, S
        <3> HIDE DEF f, n, drawn
        <3>4. /\ Gaps!Numbered(drawn) \in Seq(Gaps!Row) /\ Len(Gaps!Numbered(drawn)) <= S
              /\ \A i \in 1 .. Len(Gaps!Numbered(drawn)) : Gaps!Numbered(drawn)[i].number = i - 1
            BY <3>2, <3>3, NumberedRows DEF S
        <3> DEFINE shown == Gaps!Numbered(drawn)
        <3> HIDE DEF shown
        <3>5. /\ shown \in Seq(Gaps!Row) /\ Len(shown) <= S
              /\ \A i \in 1 .. Len(shown) : shown[i].number = i - 1
              /\ box' = [q \in Q |-> IF q = f THEN shown ELSE << >>]
            BY <3>3, <3>4 DEF shown
        <3>6. box' \in [Q -> Seq(Gaps!Row)]
            BY <3>5
        <3>7. \A q \in Q : (box'[q] = shown /\ q = f) \/ box'[q] = << >>
            BY <3>5
        <3>8. \A q \in Q : /\ Len(box'[q]) <= S
                           /\ box'[q] # << >> => forms'[q] = "fill"
                           /\ \A i \in 1 .. Len(box'[q]) : box'[q][i].number = i - 1
            BY <1>0, <2>1, <3>1, <3>5, <3>7
        <3> QED BY <1>0, <2>1, <3>6, <3>8
    <2> QED BY <2>2, <2>3
<1>2. CASE Gaps!RedrawQuestions
    BY <1>0, <1>2 DEF Gaps!RedrawQuestions, Gaps!NothingStale, Q
<1>3. ASSUME NEW q \in Gaps!Questions, NEW t \in Gaps!Types, Gaps!SelectType(q, t)
      PROVE  BoxKept'
    BY <1>0, <1>3, SMTT(30) DEF Gaps!SelectType, BoxKept, Gaps!TypeOK, Q, S
<1>4. ASSUME NEW new \in Words, Gaps!AddSegment(new)
      PROVE  BoxKept'
    <2> DEFINE f == Gaps!First(forms)
               added == [number |-> Len(box[f]), segment |-> new]
    <2>1. f \in Q /\ forms[f] = "fill"
        BY <1>4, FirstIsFill DEF Gaps!AddSegment, Gaps!Fills, Q
    <2>2. /\ Len(box[f]) < S /\ box' = [box EXCEPT ![f] = Append(box[f], added)]
          /\ UNCHANGED <<types, segments, forms, stale>>
        BY <1>4 DEF Gaps!AddSegment, S
    <2> HIDE DEF f
    <2>3. added \in Gaps!Row
        BY <1>0, <2>1, <2>2 DEF Gaps!Row, S
    <2>4. /\ Append(box[f], added) \in Seq(Gaps!Row)
          /\ Len(Append(box[f], added)) = Len(box[f]) + 1
          /\ \A i \in 1 .. Len(box[f]) : Append(box[f], added)[i] = box[f][i]
          /\ Append(box[f], added)[Len(box[f]) + 1].number = Len(box[f])
        BY <1>0, <2>1, <2>3, AppendProperties
    <2>5. Len(box[f]) \in Nat
        BY <1>0, <2>1
    <2> DEFINE longer == Append(box[f], added)
    <2>6. Len(longer) <= S /\ (~stale[f] => \A i \in 1 .. Len(longer) : longer[i].number = i - 1)
        <3>1. Len(longer) = Len(box[f]) + 1 /\ Len(longer) <= S
            BY <1>0, <2>2, <2>4, <2>5
        <3>2. ASSUME ~stale[f], NEW i \in 1 .. Len(longer) PROVE longer[i].number = i - 1
            <4>1. CASE i \in 1 .. Len(box[f])
                BY <1>0, <2>1, <2>4, <3>2, <4>1
            <4>2. CASE i = Len(box[f]) + 1
                BY <2>4, <2>5, <4>2
            <4> QED BY <2>5, <3>1, <4>1, <4>2
        <3> QED BY <3>1, <3>2
    <2> HIDE DEF longer
    <2>7. box' = [box EXCEPT ![f] = longer] /\ longer \in Seq(Gaps!Row)
        BY <2>2, <2>4 DEF longer
    <2> QED BY <1>0, <2>1, <2>2, <2>6, <2>7 DEF BoxKept, Gaps!TypeOK, Q, S
<1>5. ASSUME NEW q \in Gaps!Questions, NEW i \in DOMAIN box[q], Gaps!RemoveSegment(q, i)
      PROVE  BoxKept'
    <2> DEFINE f == Gaps!First(forms)
               fewer == [box EXCEPT ![q] = Gaps!RemoveAt(box[q], i)]
    <2>1. q \in Q /\ i \in 1 .. Len(box[q]) /\ box[q] \in Seq(Gaps!Row) /\ Len(box[q]) \in Nat
        BY <1>0, <1>5 DEF Q
    <2>2. f \in Q /\ forms[f] = "fill"
        <3>1. q \in Gaps!Fills(forms)
            BY <1>0, <2>1 DEF Gaps!Fills, Q
        <3> QED BY <3>1, FirstIsFill DEF Gaps!Fills, Q
    <2>3. /\ Gaps!RemoveAt(box[q], i) \in Seq(Gaps!Row)
          /\ Len(Gaps!RemoveAt(box[q], i)) = Len(box[q]) - 1
        <3>1. Gaps!RemoveAt(box[q], i) = Without(box[q], i)
            BY Zenon DEF Gaps!RemoveAt, Without
        <3> QED BY <2>1, <3>1, TakenOut
    <2>4. /\ box' = [fewer EXCEPT ![f] = Gaps!Renumbered(fewer[f])]
          /\ stale' = [stale EXCEPT ![q] = TRUE, ![f] = FALSE]
          /\ UNCHANGED <<types, segments, forms>>
        BY <1>5 DEF Gaps!RemoveSegment
    <2> HIDE DEF f
    <2>5. /\ fewer \in [Q -> Seq(Gaps!Row)] /\ \A p \in Q : Len(fewer[p]) <= S
          /\ \A p \in Q \ {q} : fewer[p] = box[p]
        BY <1>0, <2>1, <2>3
    <2> HIDE DEF fewer
    <2>6. /\ Gaps!Renumbered(fewer[f]) \in Seq(Gaps!Row) /\ Len(Gaps!Renumbered(fewer[f])) <= S
          /\ \A k \in 1 .. Len(Gaps!Renumbered(fewer[f])) :
                Gaps!Renumbered(fewer[f])[k].number = k - 1
        <3>1. /\ Gaps!Segments(fewer[f]) \in Seq(Words)
              /\ Len(Gaps!Segments(fewer[f])) <= MaxSegments
            BY <2>2, <2>5, SegmentsOfRows DEF S
        <3> QED BY <3>1, NumberedRows DEF Gaps!Renumbered, S
    <2>7. /\ box' \in [Q -> Seq(Gaps!Row)] /\ stale' \in [Q -> BOOLEAN]
          /\ box'[f] = Gaps!Renumbered(fewer[f])
          /\ \A p \in Q \ {f} : box'[p] = fewer[p]
          /\ \A p \in Q \ {f, q} : stale'[p] = stale[p] /\ box'[p] = box[p]
          /\ q # f => stale'[q]
        BY <1>0, <2>1, <2>2, <2>4, <2>5, <2>6
    <2>8. forms[q] = "fill"
        BY <1>0, <2>1
    <2>9. \A p \in Q : Len(box'[p]) <= S /\ (box'[p] # << >> => forms[p] = "fill")
        BY <1>0, <2>2, <2>5, <2>6, <2>7, <2>8
    <2>10. \A p \in Q : ~stale'[p] => \A k \in 1 .. Len(box'[p]) : box'[p][k].number = k - 1
        <3>1. ASSUME NEW p \in Q \ {f}, ~stale'[p]
              PROVE  \A k \in 1 .. Len(box'[p]) : box'[p][k].number = k - 1
            <4>1. p \in Q \ {f, q} /\ stale'[p] = stale[p] /\ box'[p] = box[p]
                BY <2>7, <3>1
            <4> QED BY <1>0, <3>1, <4>1
        <3> QED BY <2>6, <2>7, <3>1
    <2> QED BY <1>0, <2>4, <2>7, <2>9, <2>10 DEF BoxKept, Gaps!TypeOK, Q, S
<1>6. ASSUME NEW q \in Gaps!Questions, NEW i \in DOMAIN box[q], NEW new \in Words,
             Gaps!WriteContent(q, i, new)
      PROVE  BoxKept'
    <2> DEFINE r == [box[q] EXCEPT ![i].segment = new]
    <2>1. q \in Q /\ i \in 1 .. Len(box[q]) /\ box[q] \in Seq(Gaps!Row)
        BY <1>0, <1>6 DEF Q
    <2>2. /\ r \in Seq(Gaps!Row) /\ Len(r) = Len(box[q])
          /\ \A k \in 1 .. Len(r) : r[k].number = box[q][k].number
        <3>1. Len(box[q]) \in Nat /\ \A k \in 1 .. Len(box[q]) : box[q][k] \in Gaps!Row
            BY <2>1
        <3>2. r = [k \in 1 .. Len(box[q]) |->
                    IF k = i THEN [box[q][i] EXCEPT !.segment = new] ELSE box[q][k]]
            BY <2>1, SMTT(30)
        <3>3. [box[q][i] EXCEPT !.segment = new] \in Gaps!Row
              /\ [box[q][i] EXCEPT !.segment = new].number = box[q][i].number
            BY <2>1, <3>1 DEF Gaps!Row
        <3> HIDE DEF r
        <3> QED BY <2>1, <3>1, <3>2, <3>3
    <2>3. /\ box' = [box EXCEPT ![q] = r]
          /\ UNCHANGED <<types, segments, forms, stale>>
        BY <1>6 DEF Gaps!WriteContent
    <2>4. box[q] # << >>
        BY <2>1
    <2> HIDE DEF r
    <2> QED BY <1>0, <2>1, <2>2, <2>3, <2>4 DEF BoxKept, Gaps!TypeOK, Q, S
<1>7. ASSUME NEW q \in Gaps!Questions, Gaps!Save(q) PROVE BoxKept'
    <2> DEFINE kept == IF forms[q] = "fill" THEN Gaps!Posted(q) ELSE << >>
    <2>1. kept \in Seq(Words) /\ Len(kept) <= S
        BY <1>0, PostedSegments DEF S
    <2>2. /\ types' = [types EXCEPT ![q] = forms[q]] /\ segments' = [segments EXCEPT ![q] = kept]
          /\ UNCHANGED <<forms, box, stale>>
        BY <1>7 DEF Gaps!Save
    <2> HIDE DEF kept
    <2> QED BY <1>0, <2>1, <2>2 DEF BoxKept, Gaps!TypeOK, Q, S
<1>8. CASE UNCHANGED Gaps!vars
    BY <1>0, <1>8 DEF Gaps!vars
<1> QED BY <1>1, <1>2, <1>3, <1>4, <1>5, <1>6, <1>7, <1>8
        DEF Gaps!Next, BoxKept, Gaps!TypeOK, Q, S

\* SavedAsShown: UpdateQuestion stores the segments the form shows, all of them
\* and in order, unless another form's box was renumbered instead of this one.
THEOREM SegmentsSaved == Gaps!Spec => SavedAsShown
<1>1. Gaps!Init => BoxKept
    <2>1. ASSUME NEW one \in Words
          PROVE  << >> \in Seq(Words) /\ << >> \in Seq(Gaps!Row) /\ <<one>> \in Seq(Words)
        OBVIOUS
    <2>2. MaxSegments \in Nat \ {0}
        BY SeparateAssumption DEF Gaps!BoundsAssumption
    <2> QED BY <2>1, <2>2 DEF Gaps!Init, BoxKept, Gaps!TypeOK
<1>2. BoxKept /\ [Gaps!Next]_(Gaps!vars) => BoxKept'
    BY BoxInductive
<1>3. BoxKept => [\A q \in Gaps!Questions : Gaps!Save(q) /\ forms[q] = "fill" /\ ~stale[q] =>
                    segments'[q] = Gaps!Segments(box[q])]_(Gaps!vars)
    <2>1. ASSUME BoxKept, NEW q \in Gaps!Questions, Gaps!Save(q), forms[q] = "fill", ~stale[q]
          PROVE  segments'[q] = Gaps!Segments(box[q])
        <3>1. segments'[q] = Gaps!Posted(q)
            BY <2>1 DEF Gaps!Save, BoxKept, Gaps!TypeOK
        <3> QED BY <2>1, <3>1, PostedSegments
    <2> QED BY <2>1
<1> QED BY <1>1, <1>2, <1>3, PTL DEF Gaps!Spec, SavedAsShown, Gaps!SavedAsShown

-----------------------------------------------------------------------------
(* The form with options                                                   *)

\* FlattenSeq takes all the steps.
LEMMA OptionsFlatten ==
    ASSUME NEW T, NEW n \in Nat, NEW ss, DOMAIN ss = 1 .. n, ss \in Seq(T)
    PROVE  Options!FlattenSeq(ss) = FlatTo(ss, n, n)
<1>1. Options!FlattenSeq(ss) = IF Len(ss) = 0 THEN ss ELSE Flat(ss, Len(ss))[Len(ss)]
    BY Zenon DEF Options!FlattenSeq, Flat, Flattens
<1>2. Len(ss) = n /\ (n = 0 => ss = << >>)
    OBVIOUS
<1> QED BY <1>1, <1>2, Zenon DEF FlatTo

\* Rows are as they were drawn: the first has the number 0 until it is removed,
\* numbers grow until a row is added after a removal, and are the rows' places
\* until then.
RowsKept ==
    /\ rows \in Seq(Options!Row)
    /\ {removed, mixed, moved} \subseteq BOOLEAN
    /\ ~moved /\ rows # << >> => rows[1].name = 0
    /\ ~mixed => \A i, j \in 1 .. Len(rows) : i < j => rows[i].name < rows[j].name
    /\ ~removed => \A i \in 1 .. Len(rows) : rows[i].name = i - 1
    /\ options \in Seq(Words)

\* A number belongs to one row at most, the first that carries it.
LEMMA NamedOnce ==
    ASSUME RowsKept, NEW n \in Nat, NEW i \in Options!Named(n)
    PROVE  /\ Options!Named(n) = {i}
           /\ Options!OptionText(n) = Options!Shown(i)
<1>1. ASSUME NEW j \in Options!Named(n) PROVE j = i
    <2>1. /\ i \in Nat \ {0} /\ rows[i].name = n /\ \A k \in 1 .. i - 1 : rows[k].name # n
          /\ j \in Nat \ {0} /\ rows[j].name = n /\ \A k \in 1 .. j - 1 : rows[k].name # n
        BY <1>1 DEF Options!Named, RowsKept
    <2>2. ~(i < j) /\ ~(j < i)
        BY <2>1
    <2> QED BY <2>1, <2>2
<1>2. Options!Named(n) = {i}
    BY <1>1
<1>3. (CHOOSE k \in Options!Named(n) : TRUE) = i
    BY <1>2
<1> QED BY <1>2, <1>3, Zenon DEF Options!OptionText, Options!Shown

\* What a number stands for is one text or none.
LEMMA TextOrNone ==
    ASSUME RowsKept
    PROVE  /\ \A n \in Nat : Options!OptionText(n) \in Seq(Words)
           /\ \A i \in 1 .. Len(rows) : Options!Shown(i) \in Seq(Words)
<1>1. ASSUME NEW i \in 1 .. Len(rows) PROVE Options!Shown(i) \in Seq(Words)
    <2>1. rows[i] \in Options!Row
        BY DEF RowsKept
    <2> QED BY <2>1 DEF Options!Row, Options!Shown
<1>2. ASSUME NEW n \in Nat PROVE Options!OptionText(n) \in Seq(Words)
    <2>1. CASE Options!Named(n) = {}
        BY <2>1 DEF Options!OptionText
    <2>2. ASSUME NEW i \in Options!Named(n) PROVE Options!OptionText(n) \in Seq(Words)
        <3>1. i \in 1 .. Len(rows)
            BY DEF Options!Named, RowsKept
        <3> QED BY <1>1, <3>1, NamedOnce
    <2> QED BY <2>1, <2>2
<1> QED BY <1>1, <1>2

\* UpdateQuestion posts texts.
LEMMA PostedTexts ==
    ASSUME RowsKept
    PROVE  Options!PostedOptions \in Seq(Words)
<1> DEFINE ss == [n \in 1 .. MaxOptions |-> Options!OptionText(n - 1)]
           m == MaxOptions
<1>1. m \in Nat /\ m - 1 \in Nat /\ m - 1 \in 0 .. m - 1 /\ m # 0 /\ (m - 1) + 1 = m
    BY SeparateAssumption DEF Options!BoundsAssumption
<1>2. \A n \in 1 .. m : ss[n] \in Seq(Words)
    BY <1>1, TextOrNone
<1>3. ss \in Seq(Seq(Words)) /\ DOMAIN ss = 1 .. m
    BY <1>1, <1>2
<1>4. Options!PostedOptions = Options!FlattenSeq(ss)
    BY DEF Options!PostedOptions
<1> HIDE DEF ss, m
<1>5. Options!FlattenSeq(ss) = FlatTo(ss, m, m)
    BY <1>1, <1>3, OptionsFlatten
<1>6. FlatTo(ss, m, m) = FlatTo(ss, m, m - 1) \o ss[m] /\ FlatTo(ss, m, m - 1) \in Seq(Words)
    <2>1. FlatTo(ss, m, (m - 1) + 1) = FlatTo(ss, m, m - 1) \o ss[(m - 1) + 1]
            /\ FlatTo(ss, m, m - 1) \in Seq(Words)
        BY <1>1, <1>2, FlatToStep
    <2> QED BY <1>1, <2>1
<1>7. ss[m] \in Seq(Words)
    BY <1>1, <1>2
<1> QED BY <1>4, <1>5, <1>6, <1>7, ConcatProperties

\* Who sees no row posts no option.
LEMMA NoRowsNoOptions ==
    ASSUME RowsKept, rows = << >>
    PROVE  Options!PostedOptions = << >>
<1> DEFINE ss == [n \in 1 .. MaxOptions |-> Options!OptionText(n - 1)]
           m == MaxOptions
           bad == {k \in 0 .. m : FlatTo(ss, m, k) # << >>}
<1>1. m \in Nat
    BY SeparateAssumption DEF Options!BoundsAssumption
<1>2. \A n \in 1 .. m : ss[n] = << >>
    BY DEF Options!OptionText, Options!Named
<1>3. Options!PostedOptions = FlatTo(ss, m, m)
    <2>1. DOMAIN ss = 1 .. m /\ ss \in Seq({<< >>})
        BY <1>1, <1>2
    <2>2. Options!PostedOptions = Options!FlattenSeq(ss)
        BY DEF Options!PostedOptions
    <2> HIDE DEF ss, m
    <2> QED BY <1>1, <2>1, <2>2, OptionsFlatten
<1> HIDE DEF ss, m
<1>4. bad = {}
    <2>1. SUFFICES ASSUME bad # {} PROVE FALSE
        OBVIOUS
    <2>2. PICK k \in bad : \A l \in bad : k <= l
        <3>1. bad \subseteq Nat
            OBVIOUS
        <3> QED BY <2>1, <3>1, LeastNumber
    <2>3. k # 0
        BY <2>2 DEF FlatTo
    <2>4. PICK l \in 0 .. m - 1 : k = l + 1 /\ l \notin bad
        <3>1. k - 1 \in 0 .. m - 1 /\ k = (k - 1) + 1 /\ ~(k <= k - 1)
            BY <1>1, <2>2, <2>3
        <3> QED BY <2>2, <3>1
    <2>5. FlatTo(ss, m, l) = << >> /\ ss[l + 1] = << >>
        BY <1>1, <1>2, <2>4
    <2>6. \A n \in 1 .. m : ss[n] \in Seq(Words)
        <3>1. << >> \in Seq(Words)
            OBVIOUS
        <3> QED BY <1>2, <3>1, Zenon
    <2>7. FlatTo(ss, m, l + 1) = FlatTo(ss, m, l) \o ss[l + 1]
        BY <1>1, <2>4, <2>6, FlatToStep
    <2>8. FlatTo(ss, m, k) = << >> \o << >>
        BY <2>4, <2>5, <2>7
    <2>9. << >> \o << >> = << >>
        OBVIOUS
    <2> QED BY <2>2, <2>8, <2>9
<1>5. m \in 0 .. m
    BY <1>1
<1> QED BY <1>3, <1>4, <1>5

\* The first n numbers stand for the first k rows.
Stands(n, k) == \A i \in 1 .. Len(rows) : rows[i].name < n <=> i <= k

\* UpdateQuestion reads by number what the page shows by row.
LEMMA PostedAsSeen ==
    ASSUME RowsKept, ~mixed, \A i \in 1 .. Len(rows) : rows[i].name < MaxOptions
    PROVE  Options!PostedOptions = Options!Seen
<1> DEFINE m == MaxOptions
           l == Len(rows)
           ss == [n \in 1 .. m |-> Options!OptionText(n - 1)]
           rr == [i \in 1 .. l |-> Options!Shown(i)]
           bad == {n \in 0 .. m : ~ \E k \in 0 .. l :
                        Stands(n, k) /\ FlatTo(ss, m, n) = FlatTo(rr, l, k)}
<1>1. m \in Nat /\ l \in Nat /\ DOMAIN rows = 1 .. l
    BY SeparateAssumption DEF Options!BoundsAssumption, RowsKept
<1>2. /\ \A n \in 1 .. m : ss[n] = Options!OptionText(n - 1) /\ ss[n] \in Seq(Words)
      /\ \A i \in 1 .. l : rr[i] = Options!Shown(i) /\ rr[i] \in Seq(Words)
    BY <1>1, TextOrNone
<1>3. Options!PostedOptions = FlatTo(ss, m, m) /\ Options!Seen = FlatTo(rr, l, l)
    <2>1. /\ DOMAIN ss = 1 .. m /\ ss \in Seq(Seq(Words))
          /\ DOMAIN rr = 1 .. l /\ rr \in Seq(Seq(Words))
        BY <1>1, <1>2
    <2>2. Options!PostedOptions = Options!FlattenSeq(ss) /\ Options!Seen = Options!FlattenSeq(rr)
        BY <1>1 DEF Options!PostedOptions, Options!Seen
    <2> HIDE DEF ss, rr, m, l
    <2> QED BY <1>1, <2>1, <2>2, OptionsFlatten
<1>4. /\ \A i, j \in 1 .. l : i < j => rows[i].name < rows[j].name
      /\ \A i \in 1 .. l : rows[i].name \in Nat /\ rows[i].name < m
    <2>1. \A i \in 1 .. l : rows[i] \in Options!Row
        BY DEF RowsKept
    <2> QED BY <2>1 DEF RowsKept, Options!Row
<1> HIDE DEF ss, rr, m
<1>5. bad = {}
    <2>1. SUFFICES ASSUME bad # {} PROVE FALSE
        OBVIOUS
    <2>2. PICK n \in bad : \A p \in bad : n <= p
        <3>1. bad \subseteq Nat
            OBVIOUS
        <3> QED BY <2>1, <3>1, LeastNumber
    <2>3. n # 0
        <3>1. Stands(0, 0)
            BY <1>1, <1>4 DEF Stands
        <3> QED BY <1>1, <2>2, <3>1 DEF FlatTo
    <2>4. PICK p \in 0 .. m - 1 : n = p + 1 /\ p \notin bad
        <3>1. n - 1 \in 0 .. m - 1 /\ n = (n - 1) + 1 /\ ~(n <= n - 1)
            BY <1>1, <2>2, <2>3
        <3> QED BY <2>2, <3>1
    <2>5. PICK k \in 0 .. l : Stands(p, k) /\ FlatTo(ss, m, p) = FlatTo(rr, l, k)
        BY <1>1, <2>4
    <2>6. /\ FlatTo(ss, m, n) = FlatTo(ss, m, p) \o Options!OptionText(p)
          /\ FlatTo(ss, m, p) \in Seq(Words)
        <3>1. FlatTo(ss, m, p + 1) = FlatTo(ss, m, p) \o ss[p + 1]
                /\ FlatTo(ss, m, p) \in Seq(Words)
            <4>1. \A i \in 1 .. m : ss[i] \in Seq(Words)
                BY <1>2
            <4>2. m \in Nat /\ p \in 0 .. m - 1
                BY <1>1, <2>4
            <4> QED BY <4>1, <4>2, FlatToStep
        <3>2. ss[p + 1] = Options!OptionText(p)
            BY <1>1, <1>2, <2>4
        <3> QED BY <2>4, <3>1, <3>2
    <2>7. CASE \E i \in 1 .. l : rows[i].name = p
        <3>1. PICK i \in 1 .. l : rows[i].name = p
            BY <2>7
        <3>2. i = k + 1
            <4>1. ~(i <= k)
                BY <1>1, <2>5, <3>1 DEF Stands
            <4>2. ASSUME k + 1 < i PROVE FALSE
                <5>1. k + 1 \in 1 .. l /\ rows[k + 1].name < p
                    BY <1>1, <1>4, <3>1, <4>2
                <5> QED BY <1>1, <2>5, <5>1 DEF Stands
            <4> QED BY <1>1, <4>1, <4>2
        <3>3. Stands(n, k + 1)
            <4>1. ASSUME NEW j \in 1 .. l PROVE rows[j].name < n <=> j <= k + 1
                <5>1. rows[j].name \in Nat /\ (j < i => rows[j].name < p)
                        /\ (i < j => p < rows[j].name)
                    BY <1>4, <3>1
                <5> QED BY <1>1, <2>4, <3>1, <3>2, <5>1
            <4> QED BY <4>1 DEF Stands
        <3>4. i \in Options!Named(p)
            <4>1. \A j \in 1 .. i - 1 : rows[j].name # p
                BY <1>1, <1>4, <3>1
            <4> QED BY <1>1, <3>1, <4>1 DEF Options!Named
        <3>5. Options!OptionText(p) = rr[k + 1]
            BY <1>1, <1>2, <2>4, <3>2, <3>4, NamedOnce
        <3>6. FlatTo(rr, l, k + 1) = FlatTo(rr, l, k) \o rr[k + 1]
            <4>1. k \in 0 .. l - 1
                BY <1>1, <3>2
            <4> QED BY <1>1, <1>2, <4>1, FlatToStep
        <3>7. FlatTo(ss, m, n) = FlatTo(rr, l, k + 1)
            BY <2>5, <2>6, <3>5, <3>6
        <3>8. k + 1 \in 0 .. l
            BY <1>1, <3>2
        <3> QED BY <2>2, <3>3, <3>7, <3>8
    <2>8. CASE ~ \E i \in 1 .. l : rows[i].name = p
        <3>1. Stands(n, k)
            BY <1>1, <1>4, <2>4, <2>5, <2>8 DEF Stands
        <3>2. Options!OptionText(p) = << >>
            BY <1>1, <2>8 DEF Options!OptionText, Options!Named
        <3>3. FlatTo(ss, m, n) = FlatTo(ss, m, p)
            BY <2>6, <3>2, ConcatEmptySeq
        <3> QED BY <2>2, <2>5, <3>1, <3>3
    <2> QED BY <2>7, <2>8
<1>6. PICK k \in 0 .. l : Stands(m, k) /\ FlatTo(ss, m, m) = FlatTo(rr, l, k)
    <2>1. m \in 0 .. m
        BY <1>1
    <2> QED BY <1>5, <2>1
<1>7. k = l
    <2>1. CASE l = 0
        BY <1>1, <2>1
    <2>2. CASE l # 0
        <3>1. l \in 1 .. Len(rows) /\ rows[l].name < m
            BY <1>1, <1>4, <2>2
        <3> QED BY <1>1, <1>6, <3>1 DEF Stands
    <2> QED BY <2>1, <2>2
<1> QED BY <1>3, <1>6, <1>7

\* Rows are kept through every step of the page and of the handler.
LEMMA RowsInductive ==
    ASSUME RowsKept, [Options!Next]_(Options!vars)
    PROVE  RowsKept'
<1>0. /\ rows \in Seq(Options!Row) /\ Len(rows) \in Nat /\ DOMAIN rows = 1 .. Len(rows)
      /\ \A i \in 1 .. Len(rows) : rows[i] \in Options!Row
    BY DEF RowsKept
<1>1. ASSUME NEW opts \in Seq(Words \cup {Blank}), Options!Draw(opts), Options!Fresh,
             UNCHANGED options
      PROVE  RowsKept'
    <2>1. /\ rows' = [i \in 1 .. Len(opts) |-> [name |-> i - 1, text |-> opts[i]]]
          /\ Len(opts) \in Nat /\ \A i \in 1 .. Len(opts) : opts[i] \in Words \cup {Blank}
        BY <1>1 DEF Options!Draw
    <2>2. rows' \in Seq(Options!Row) /\ Len(rows') = Len(opts)
        BY <2>1 DEF Options!Row
    <2>3. \A i \in 1 .. Len(rows') : rows'[i].name = i - 1
        BY <2>1, <2>2
    <2>4. rows' # << >> => 1 \in 1 .. Len(rows')
        BY <2>2
    <2>5. \A i, j \in 1 .. Len(rows') : i < j => rows'[i].name < rows'[j].name
        BY <2>1, <2>2, <2>3
    <2>6. removed' = FALSE /\ mixed' = FALSE /\ moved' = FALSE /\ options' \in Seq(Words)
        BY <1>1 DEF Options!Fresh, RowsKept
    <2>7. rows' # << >> => rows'[1].name = 0
        BY <2>3, <2>4
    <2> QED BY <2>2, <2>3, <2>5, <2>6, <2>7 DEF RowsKept
<1>2. CASE Options!OpenPage
    <2>1. (IF type = "choice" THEN options ELSE << >>) \in Seq(Words \cup {Blank})
        BY DEF RowsKept
    <2> QED BY <1>1, <1>2, <2>1 DEF Options!OpenPage, Options!stored
<1>3. ASSUME NEW t, Options!SelectType(t) PROVE RowsKept'
    <2>1. (IF t = "choice" THEN <<Blank, Blank>> ELSE << >>) \in Seq(Words \cup {Blank})
        <3>1. <<Blank, Blank>> \in Seq(Words \cup {Blank}) /\ << >> \in Seq(Words \cup {Blank})
            OBVIOUS
        <3> QED BY <3>1, Zenon
    <2> QED BY <1>1, <1>3, <2>1 DEF Options!SelectType, Options!stored
<1>4. CASE Options!AddOption
    <2> DEFINE added == [name |-> Len(rows), text |-> Blank]
    <2>1. /\ rows' = Append(rows, added) /\ mixed' = (mixed \/ removed)
          /\ UNCHANGED <<options, removed, moved>>
        BY <1>4 DEF Options!AddOption, Options!stored
    <2>2. /\ rows' \in Seq(Options!Row) /\ Len(rows') = Len(rows) + 1
          /\ \A i \in 1 .. Len(rows) : rows'[i] = rows[i]
          /\ rows'[Len(rows) + 1] = added
        BY <1>0, <2>1, AppendProperties DEF Options!Row
    <2>3. ~removed' => \A i \in 1 .. Len(rows') : rows'[i].name = i - 1
        BY <1>0, <2>1, <2>2 DEF RowsKept
    <2>4. ~mixed' => \A i, j \in 1 .. Len(rows') : i < j => rows'[i].name < rows'[j].name
        <3>1. ~mixed' => ~removed'
            BY <2>1
        <3> QED BY <1>0, <2>2, <2>3, <3>1
    <2>5. ~moved' => rows'[1].name = 0
        <3>1. CASE Len(rows) = 0
            BY <2>2, <3>1
        <3>2. CASE Len(rows) # 0
            BY <1>0, <2>1, <2>2, <3>2 DEF RowsKept
        <3> QED BY <3>1, <3>2
    <2>6. mixed' \in BOOLEAN
        BY <2>1, Zenon DEF RowsKept
    <2> QED BY <2>1, <2>2, <2>3, <2>4, <2>5, <2>6 DEF RowsKept
<1>5. ASSUME NEW i \in DOMAIN rows, Options!RemoveOption(i) PROVE RowsKept'
    <2>1. /\ rows' = Without(rows, i) /\ Len(rows) > 2 /\ removed' = TRUE
          /\ moved' = (moved \/ i = 1) /\ UNCHANGED <<options, mixed>>
        BY <1>5, Zenon DEF Options!RemoveOption, Options!RemoveAt, Without, Options!stored
    <2>2. /\ rows' \in Seq(Options!Row) /\ Len(rows') = Len(rows) - 1
          /\ \A k \in 1 .. Len(rows) - 1 : rows'[k] = IF k < i THEN rows[k] ELSE rows[k + 1]
        <3>1. i \in 1 .. Len(rows)
            BY <1>0
        <3>2. /\ Without(rows, i) \in Seq(Options!Row) /\ Len(Without(rows, i)) = Len(rows) - 1
              /\ \A k \in 1 .. Len(rows) - 1 :
                    Without(rows, i)[k] = IF k < i THEN rows[k] ELSE rows[k + 1]
            BY <1>0, <3>1, TakenOut
        <3> QED BY <2>1, <3>2
    <2>3. ~mixed => \A k, l \in 1 .. Len(rows') : k < l => rows'[k].name < rows'[l].name
        <3>1. SUFFICES ASSUME ~mixed, NEW k \in 1 .. Len(rows'), NEW l \in 1 .. Len(rows'), k < l
                       PROVE  rows'[k].name < rows'[l].name
            OBVIOUS
        <3>2. PICK p \in 1 .. Len(rows), q \in 1 .. Len(rows) :
                rows'[k] = rows[p] /\ rows'[l] = rows[q] /\ p < q
            <4>1. CASE l < i
                BY <1>0, <2>2, <3>1, <4>1
            <4>2. CASE ~(l < i) /\ k < i
                BY <1>0, <2>2, <3>1, <4>2
            <4>3. CASE ~(k < i)
                BY <1>0, <2>2, <3>1, <4>3
            <4> QED BY <4>1, <4>2, <4>3
        <3> QED BY <3>1, <3>2 DEF RowsKept
    <2>4. ~moved' => rows'[1].name = 0
        <3>1. SUFFICES ASSUME ~moved' PROVE rows'[1].name = 0
            OBVIOUS
        <3>2. ~moved /\ i # 1 /\ rows # << >>
            <4>1. Len(rows) # 0
                BY <1>0, <2>1
            <4>2. rows # << >>
                BY <4>1
            <4>3. ~moved /\ i # 1
                BY <2>1, <3>1, Zenon
            <4> QED BY <4>2, <4>3
        <3>3. rows'[1] = rows[1]
            BY <1>0, <2>1, <2>2, <3>2
        <3> QED BY <3>2, <3>3 DEF RowsKept
    <2>5. moved' \in BOOLEAN /\ removed' \in BOOLEAN
        BY <2>1, Zenon DEF RowsKept
    <2> QED BY <2>1, <2>2, <2>3, <2>4, <2>5 DEF RowsKept
<1>6. ASSUME NEW i \in DOMAIN rows, NEW x \in Words \cup {Blank}, Options!Write(i, x)
      PROVE  RowsKept'
    <2>1. /\ rows' = [k \in 1 .. Len(rows) |->
                        IF k = i THEN [rows[i] EXCEPT !.text = x] ELSE rows[k]]
          /\ UNCHANGED <<options, removed, mixed, moved>>
        BY <1>0, <1>6 DEF Options!Write, Options!stored, Options!flags
    <2>2. [rows[i] EXCEPT !.text = x] \in Options!Row
            /\ [rows[i] EXCEPT !.text = x].name = rows[i].name
        BY <1>0 DEF Options!Row
    <2>3. /\ rows' \in Seq(Options!Row) /\ Len(rows') = Len(rows)
          /\ \A k \in 1 .. Len(rows) : rows'[k].name = rows[k].name
        BY <1>0, <2>1, <2>2
    <2>4. rows' # << >> => rows # << >> /\ 1 \in 1 .. Len(rows)
        BY <1>0, <2>3
    <2> QED BY <2>1, <2>3, <2>4 DEF RowsKept
<1>7. CASE UNCHANGED <<rows, removed, mixed, moved>> /\ options' \in Seq(Words)
    BY <1>7 DEF RowsKept
<1>8. CASE Options!Save
    <2>1. options' \in Seq(Words)
        <3>1. << >> \in Seq(Words)
            OBVIOUS
        <3>2. options' = IF form = "choice" THEN Options!PostedOptions ELSE << >>
            BY <1>8 DEF Options!Save
        <3> QED BY <3>1, <3>2, PostedTexts
    <2> QED BY <1>7, <1>8, <2>1 DEF Options!Save, Options!page, Options!flags
<1>9. CASE (\E x \in Words \cup {Blank} : Options!WriteAnswer(x)) \/ UNCHANGED Options!vars
    BY <1>7, <1>9 DEF RowsKept, Options!WriteAnswer, Options!vars, Options!stored,
        Options!page, Options!flags
<1> QED BY <1>2, <1>3, <1>4, <1>5, <1>6, <1>8, <1>9 DEF Options!Next

\* The rows as they are drawn, and what was removed and added since.
LEMMA RowsInvariant == Options!Spec => []RowsKept
<1>1. Options!Init => RowsKept
    <2>1. ASSUME NEW o \in Options!BoundedSeq(Words, MaxRows) PROVE o \in Seq(Words)
        <3>1. PICK n \in 0 .. MaxRows : o \in [1 .. n -> Words]
            BY DEF Options!BoundedSeq, Options!SeqOf
        <3>2. n \in Nat
            BY SeparateAssumption DEF Options!BoundsAssumption
        <3> QED BY <3>1, <3>2
    <2>2. ASSUME Options!Init
          PROVE  /\ rows = << >> /\ removed = FALSE /\ mixed = FALSE /\ moved = FALSE
                 /\ rows \in Seq(Options!Row) /\ 1 .. Len(rows) = {}
        BY <2>2 DEF Options!Init
    <2>3. ASSUME Options!Init PROVE options \in Seq(Words)
        BY <2>1, <2>3 DEF Options!Init
    <2> QED BY <2>2, <2>3 DEF RowsKept
<1>2. RowsKept /\ [Options!Next]_(Options!vars) => RowsKept'
    BY RowsInductive
<1> QED BY <1>1, <1>2, PTL DEF Options!Spec

\* OptionsKept: UpdateQuestion, which looks for options by number, stores all
\* the administrator sees, and in that order.
THEOREM OptionsSaved == Options!Spec => OptionsKept
<1>1. RowsKept => [Options!Save /\ form = "choice" /\ ~mixed
                    /\ (\A i \in DOMAIN rows : rows[i].name < MaxOptions)
                   => options' = Options!Seen]_(Options!vars)
    <2>1. ASSUME RowsKept, Options!Save, form = "choice", ~mixed,
                 \A i \in DOMAIN rows : rows[i].name < MaxOptions
          PROVE  options' = Options!Seen
        <3>1. DOMAIN rows = 1 .. Len(rows)
            BY <2>1 DEF RowsKept
        <3> QED BY <2>1, <3>1, PostedAsSeen DEF Options!Save
    <2> QED BY <2>1
<1> QED BY <1>1, RowsInvariant, PTL DEF OptionsKept, Options!OptionsKept

\* Answerable: the correct answer UpdateQuestion stores is one of the options,
\* as long as the first row, whose number it takes, has the number 0.
THEOREM AnswerPosted == Options!Spec => Answerable
<1>1. RowsKept => [Options!Save /\ form = "choice" /\ ~moved /\ options' # << >>
                   => correct' \in Options!Range(options')]_(Options!vars)
    <2>1. ASSUME RowsKept, Options!Save, form = "choice", ~moved, options' # << >>
          PROVE  correct' \in Options!Range(options')
        <3>1. /\ options' = Options!PostedOptions
              /\ correct' = IF rows = << >> THEN Blank
                            ELSE Options!ChosenOption(Options!PostedOptions)
            BY <2>1 DEF Options!Save
        <3>2. options' \in Seq(Words) /\ Len(options') > 0
            BY <2>1, <3>1, PostedTexts
        <3>3. rows # << >> /\ rows[1].name = 0
            BY <2>1, <3>1, NoRowsNoOptions DEF RowsKept
        <3>4. correct' = options'[1]
            BY <3>1, <3>2, <3>3 DEF Options!ChosenOption
        <3> QED BY <3>2, <3>4 DEF Options!Range
    <2> QED BY <2>1
<1> QED BY <1>1, RowsInvariant, PTL DEF Answerable, Options!Answerable

-----------------------------------------------------------------------------
(* Streaks                                                                 *)

\* The days of a student end with the last one, and the run that was counted
\* forward is exactly the days in a row before it.
RunKept ==
    /\ today \in 0 .. MaxDay
    /\ attempts \in Seq(Points!Attempt)
    /\ run \in [Users -> Nat] /\ last \in [Users -> Int]
    /\ \A u \in Users :
        /\ last[u] \in -1 .. today
        /\ Points!Days(u) \subseteq 0 .. last[u]
        /\ last[u] >= 0 => run[u] >= 1
        /\ (last[u] - run[u] + 1) .. last[u] \subseteq Points!Days(u)
        /\ last[u] - run[u] \notin Points!Days(u)

\* An attempt adds the day it is completed on to its student's days.
LEMMA CompleteAddsDay ==
    ASSUME RunKept, NEW u \in Users, NEW score \in Scores, Points!Complete(u, score)
    PROVE  /\ attempts' \in Seq(Points!Attempt)
           /\ Points!Days(u)' = Points!Days(u) \cup {today}
           /\ \A v \in Users \ {u} : Points!Days(v)' = Points!Days(v)
<1> DEFINE new == [user |-> u, score |-> score, day |-> today]
<1>1. attempts \in Seq(Points!Attempt) /\ attempts' = Append(attempts, new) /\ today' = today
    BY DEF RunKept, Points!Complete
<1>2. new \in Points!Attempt
    BY DEF RunKept, Points!Attempt
<1>3. /\ attempts' \in Seq(Points!Attempt) /\ Len(attempts') = Len(attempts) + 1
      /\ Len(attempts) \in Nat
      /\ \A i \in 1 .. Len(attempts) : attempts'[i] = attempts[i]
      /\ attempts'[Len(attempts) + 1] = new
    BY <1>1, <1>2, AppendProperties
<1>4. DOMAIN attempts = 1 .. Len(attempts) /\ DOMAIN attempts' = 1 .. (Len(attempts) + 1)
    BY <1>1, <1>3
<1> HIDE DEF new
<1>5. ASSUME NEW v \in Users
      PROVE  Points!Days(v)' = Points!Days(v) \cup (IF v = u THEN {today} ELSE {})
    <2>1. new.user = u /\ new.day = today
        BY DEF new
    <2>2. Points!Of(v)' = Points!Of(v) \cup (IF v = u THEN {Len(attempts) + 1} ELSE {})
        BY <1>3, <1>4, <2>1 DEF Points!Of
    <2>3. \A i \in Points!Of(v) : attempts'[i] = attempts[i]
        BY <1>3, <1>4 DEF Points!Of
    <2> QED BY <1>3, <2>1, <2>2, <2>3 DEF Points!Days
<1> QED BY <1>3, <1>5

\* The run of each student is kept through every step.
LEMMA RunInductive ==
    ASSUME RunKept, [Points!Next]_(Points!vars)
    PROVE  RunKept'
<1>1. ASSUME NEW u \in Users, NEW score \in Scores, Points!Complete(u, score)
      PROVE  RunKept'
    <2>1. /\ attempts' \in Seq(Points!Attempt)
          /\ Points!Days(u)' = Points!Days(u) \cup {today}
          /\ \A v \in Users \ {u} : Points!Days(v)' = Points!Days(v)
        BY <1>1, CompleteAddsDay
    <2>2. /\ today' = today /\ last' = [last EXCEPT ![u] = today]
          /\ run' = [run EXCEPT ![u] = CASE last[u] = today -> run[u]
                                         [] last[u] = today - 1 -> run[u] + 1
                                         [] OTHER -> 1]
        BY <1>1 DEF Points!Complete
    <2>3. today \in Nat /\ run[u] \in Nat /\ last[u] \in Int
        BY SeparateAssumption DEF RunKept, Points!BoundsAssumption
    <2>4. last' \in [Users -> Int] /\ run' \in [Users -> Nat]
        BY <2>2, <2>3 DEF RunKept
    <2>5. last'[u] = today /\ run'[u] = IF last[u] = today THEN run[u]
                                        ELSE IF last[u] = today - 1 THEN run[u] + 1 ELSE 1
        BY <2>2 DEF RunKept
    <2>6. /\ last'[u] \in -1 .. today /\ Points!Days(u)' \subseteq 0 .. last'[u]
          /\ last'[u] >= 0 => run'[u] >= 1
        BY <2>1, <2>3, <2>5 DEF RunKept
    <2>7. /\ (last'[u] - run'[u] + 1) .. last'[u] \subseteq Points!Days(u)'
          /\ last'[u] - run'[u] \notin Points!Days(u)'
        <3>1. CASE last[u] = today
            BY <2>1, <2>3, <2>5, <3>1 DEF RunKept
        <3>2. CASE last[u] = today - 1
            BY <2>1, <2>3, <2>5, <3>2, SMTT(30) DEF RunKept
        <3>3. CASE last[u] # today /\ last[u] # today - 1
            BY <2>1, <2>3, <2>5, <3>3 DEF RunKept
        <3> QED BY <3>1, <3>2, <3>3
    <2>8. ASSUME NEW v \in Users \ {u}
          PROVE  last'[v] = last[v] /\ run'[v] = run[v] /\ Points!Days(v)' = Points!Days(v)
        BY <2>1, <2>2 DEF RunKept
    <2> QED BY <2>1, <2>2, <2>4, <2>6, <2>7, <2>8, SMTT(30) DEF RunKept
<1>2. CASE UNCHANGED <<attempts, run, last>> /\ today' \in {today, today + 1} \cap 0 .. MaxDay
    <2>1. \A u \in Users : Points!Days(u)' = Points!Days(u)
        BY <1>2 DEF Points!Days, Points!Of
    <2>2. today \in Int /\ today' \in Int /\ today' >= today
        BY <1>2 DEF RunKept
    <2> QED BY <1>2, <2>1, <2>2 DEF RunKept
<1>3. CASE Points!NextDay
    <2>1. today' \in {today, today + 1} \cap 0 .. MaxDay
        BY <1>3, SeparateAssumption DEF Points!NextDay, RunKept, Points!BoundsAssumption
    <2> QED BY <1>2, <1>3, <2>1 DEF Points!NextDay, Points!history
<1>4. CASE UNCHANGED <<attempts, run, last, today>>
    BY <1>2, <1>4 DEF RunKept
<1>5. CASE \/ \E u \in Users : Points!ReadStats(u)
           \/ Points!ReadAttempts \/ Points!ReadBoard \/ Points!LeavePage
    BY <1>4, <1>5 DEF Points!ReadStats, Points!ReadAttempts, Points!ReadBoard,
        Points!LeavePage, Points!history
<1>6. CASE UNCHANGED Points!vars
    BY <1>4, <1>6 DEF Points!vars, Points!history
<1> QED BY <1>1, <1>3, <1>5, <1>6 DEF Points!Next

\* Counting backwards from today stops where the run began.
LEMMA StreakCounts ==
    ASSUME RunKept, NEW u \in Users
    PROVE  Points!Streak(u) = IF last[u] = today THEN run[u] ELSE 0
<1> DEFINE unbroken == {n \in 0 .. today + 1 : (today - n + 1) .. today \subseteq Points!Days(u)}
           count == IF last[u] = today THEN run[u] ELSE 0
<1>1. /\ today \in Nat /\ run[u] \in Nat /\ last[u] \in -1 .. today
      /\ Points!Days(u) \subseteq 0 .. last[u]
      /\ last[u] >= 0 => run[u] >= 1
      /\ (last[u] - run[u] + 1) .. last[u] \subseteq Points!Days(u)
      /\ last[u] - run[u] \notin Points!Days(u)
    BY SeparateAssumption DEF RunKept, Points!BoundsAssumption
<1> HIDE DEF RunKept
<1>2. count \in unbroken /\ \A n \in unbroken : n <= count
    <2>1. CASE last[u] = today
        <3>1. today - run[u] + 1 \in Points!Days(u)
            BY <1>1, <2>1
        <3>2. run[u] \in 0 .. today + 1
            BY <1>1, <3>1
        <3>3. ASSUME NEW n \in 0 .. today + 1, n > run[u] PROVE n \notin unbroken
            <4>1. today - run[u] \in (today - n + 1) .. today
                BY <1>1, <3>3
            <4> QED BY <1>1, <2>1, <4>1
        <3> QED BY <1>1, <2>1, <3>2, <3>3
    <2>2. CASE last[u] # today
        <3>1. today \notin Points!Days(u)
            BY <1>1, <2>2
        <3>2. ASSUME NEW n \in 0 .. today + 1, n > 0 PROVE n \notin unbroken
            <4>1. today \in (today - n + 1) .. today
                BY <1>1, <3>2
            <4> QED BY <3>1, <4>1
        <3> QED BY <1>1, <2>2, <3>2
    <2> QED BY <2>1, <2>2
<1>3. \A n \in unbroken : n \in Int
    BY <1>1
<1>4. Points!Streak(u) = CHOOSE n \in unbroken : \A m \in unbroken : m <= n
    BY DEF Points!Streak
<1> HIDE DEF unbroken, count
<1>5. Points!Streak(u) = count
    <2>1. \A n \in unbroken : (\A m \in unbroken : m <= n) => n = count
        BY <1>2, <1>3
    <2> QED BY <1>2, <1>4, <2>1
<1> QED BY <1>5 DEF count

\* StreakIsRun: CalculateStreak, which counts backwards from today over the days
\* of all attempts, finds the run a student is in.
THEOREM StreakFound == Points!Spec => []StreakIsRun
<1>1. Points!Init => RunKept
    BY SeparateAssumption DEF Points!Init, RunKept, Points!BoundsAssumption, Points!Days, Points!Of
<1>2. RunKept /\ [Points!Next]_(Points!vars) => RunKept'
    BY RunInductive
<1>3. RunKept => StreakIsRun
    BY StreakCounts DEF StreakIsRun, Points!StreakIsRun
<1> QED BY <1>1, <1>2, <1>3, PTL DEF Points!Spec

-----------------------------------------------------------------------------
(* The leaderboard                                                         *)

\* The recursive function by which Points adds up.
Sums(f, w, some) ==
    f = [n \in 0 .. Len(w) |->
            IF n = 0 THEN 0 ELSE f[n - 1] + IF n \in some THEN w[n].score ELSE 0]

Sum(w, some) == CHOOSE f : Sums(f, w, some)

\* It adds numbers up, from one place to the next.
LEMMA SumStep ==
    ASSUME NEW w \in Seq(Points!Attempt), NEW some
    PROVE  /\ Sum(w, some) \in [0 .. Len(w) -> Nat]
           /\ Sum(w, some)[0] = 0
           /\ \A n \in 1 .. Len(w) :
                Sum(w, some)[n] = Sum(w, some)[n - 1] + IF n \in some THEN w[n].score ELSE 0
<1> DEFINE add(n) == IF n \in some THEN w[n].score ELSE 0
           G == [p \in (1 .. Len(w)) \X Nat |-> p[2] + add(p[1])]
<1>1. Len(w) \in Nat /\ \A n \in 1 .. Len(w) : add(n) \in Nat
    <2>1. \A n \in 1 .. Len(w) : w[n] \in Points!Attempt
        OBVIOUS
    <2>2. \A n \in 1 .. Len(w) : w[n].score \in Nat
        BY <2>1, SeparateAssumption DEF Points!Attempt, Points!BoundsAssumption
    <2> QED BY <2>2
<1> HIDE DEF add
<1>2. ASSUME NEW n \in 1 .. Len(w), NEW x \in Nat
      PROVE  G[<<n, x>>] = x + add(n)
    OBVIOUS
<1>3. G \in [(1 .. Len(w)) \X Nat -> Nat]
    BY <1>1
<1> HIDE DEF G
<1>4. PICK f : Iterate(f, Nat, 0, Len(w), G)
    <2>1. 0 \in Nat /\ Len(w) \in Nat
        BY <1>1
    <2> QED BY <2>1, <1>3, Iterates, Zenon
<1>5. \A n \in 0 .. Len(w) : f[n] = IF n = 0 THEN 0 ELSE f[n - 1] + add(n)
    <2>1. ASSUME NEW n \in 1 .. Len(w) PROVE f[n] = f[n - 1] + add(n)
        <3>1. n - 1 \in 0 .. Len(w)
            BY <1>1
        <3>2. f[n - 1] \in Nat
            BY <1>4, <3>1 DEF Iterate
        <3> QED BY <1>2, <1>4, <3>2 DEF Iterate
    <2> QED BY <1>1, <1>4, <2>1 DEF Iterate
<1>6. Sums(f, w, some)
    <2>1. f = [n \in 0 .. Len(w) |-> f[n]]
        BY <1>4 DEF Iterate
    <2>2. [n \in 0 .. Len(w) |-> f[n]]
            = [n \in 0 .. Len(w) |-> IF n = 0 THEN 0 ELSE f[n - 1] + add(n)]
        BY <1>5, Zenon
    <2> QED BY <2>1, <2>2, Zenon DEF Sums, add
<1>7. Sums(Sum(w, some), w, some)
    BY <1>6, Zenon DEF Sum
<1> DEFINE h == Sum(w, some)
<1>8. h = [n \in 0 .. Len(w) |-> IF n = 0 THEN 0 ELSE h[n - 1] + add(n)]
    BY <1>7, Zenon DEF Sums, add
<1> HIDE DEF h
<1>9. h[0] = 0 /\ \A n \in 1 .. Len(w) : h[n] = h[n - 1] + add(n)
    BY <1>1, <1>8
<1>10. \A n \in 0 .. Len(w) : h[n] \in Nat
    <2> DEFINE S == {n \in 0 .. Len(w) : h[n] \in Nat}
    <2>1. ASSUME NEW n \in 0 .. Len(w) - 1, n \in S PROVE n + 1 \in S
        <3>1. h[n + 1] = h[n] + add(n + 1) /\ n + 1 \in 1 .. Len(w)
            BY <1>1, <1>9
        <3> QED BY <1>1, <2>1, <3>1
    <2>2. 0 \in S
        BY <1>1, <1>9
    <2> HIDE DEF S
    <2>3. \A n \in 0 .. Len(w) : n \in S
        BY <1>1, <2>1, <2>2, Upwards
    <2> QED BY <2>3 DEF S
<1>11. h \in [0 .. Len(w) -> Nat]
    BY <1>8, <1>10, Zenon
<1> QED BY <1>9, <1>11, Zenon DEF h, add

\* The sum of more of them, and of as many again, is no smaller.
LEMMA SumGrows ==
    ASSUME NEW v \in Seq(Points!Attempt), NEW w \in Seq(Points!Attempt), NEW some, NEW more,
           Len(v) <= Len(w), \A n \in 1 .. Len(v) : v[n] = w[n],
           \A n \in 1 .. Len(v) : n \in some => n \in more
    PROVE  Sum(v, some)[Len(v)] <= Sum(w, more)[Len(w)]
<1> DEFINE f == Sum(v, some)
           g == Sum(w, more)
           S == {n \in 0 .. Len(w) : (n <= Len(v) => f[n] <= g[n])
                                        /\ (n > Len(v) => f[Len(v)] <= g[n])}
<1>1. /\ Len(v) \in Nat /\ Len(w) \in Nat
      /\ \A n \in 1 .. Len(w) : w[n].score \in Nat
    <2>1. \A n \in 1 .. Len(w) : w[n] \in Points!Attempt
        OBVIOUS
    <2>2. \A n \in 1 .. Len(w) : w[n].score \in Nat
        BY <2>1, SeparateAssumption DEF Points!Attempt, Points!BoundsAssumption
    <2> QED BY <2>2
<1>2. /\ f[0] = 0 /\ g[0] = 0
      /\ \A n \in 0 .. Len(v) : f[n] \in Nat
      /\ \A n \in 0 .. Len(w) : g[n] \in Nat
      /\ \A n \in 1 .. Len(v) : f[n] = f[n - 1] + IF n \in some THEN v[n].score ELSE 0
      /\ \A n \in 1 .. Len(w) : g[n] = g[n - 1] + IF n \in more THEN w[n].score ELSE 0
    <2>1. f \in [0 .. Len(v) -> Nat] /\ g \in [0 .. Len(w) -> Nat]
        BY SumStep
    <2>2. f[0] = 0 /\ \A n \in 1 .. Len(v) : f[n] = f[n - 1] + IF n \in some THEN v[n].score ELSE 0
        BY SumStep
    <2>3. g[0] = 0 /\ \A n \in 1 .. Len(w) : g[n] = g[n - 1] + IF n \in more THEN w[n].score ELSE 0
        BY SumStep
    <2>4. (\A n \in 0 .. Len(v) : f[n] \in Nat) /\ (\A n \in 0 .. Len(w) : g[n] \in Nat)
        BY <2>1
    <2> QED BY <2>2, <2>3, <2>4
<1> HIDE DEF f, g
<1>3. 0 \in S
    BY <1>1, <1>2
<1>4. ASSUME NEW n \in 0 .. Len(w) - 1, n \in S PROVE n + 1 \in S
    <2>1. n + 1 \in 1 .. Len(w) /\ (n + 1) - 1 = n /\ n \in 0 .. Len(w)
        BY <1>1
    <2>2. g[n + 1] = g[n] + IF n + 1 \in more THEN w[n + 1].score ELSE 0
        BY <1>2, <2>1
    <2>3. g[n] \in Nat /\ w[n + 1].score \in Nat /\ g[n + 1] \in Nat /\ g[n] <= g[n + 1]
        BY <1>1, <1>2, <2>1, <2>2
    <2>4. CASE n + 1 <= Len(v)
        <3>1. n + 1 \in 1 .. Len(v) /\ n \in 0 .. Len(v)
            BY <1>1, <2>4
        <3>2. f[n + 1] = f[n] + IF n + 1 \in some THEN w[n + 1].score ELSE 0
            BY <1>2, <2>1, <3>1
        <3>3. f[n] \in Nat /\ f[n] <= g[n] /\ (n + 1 \in some => n + 1 \in more)
            BY <1>1, <1>2, <1>4, <3>1
        <3>4. f[n + 1] <= g[n + 1]
            BY <2>2, <2>3, <3>2, <3>3
        <3> QED BY <1>1, <2>1, <2>4, <3>4
    <2>5. CASE ~(n + 1 <= Len(v))
        <3>1. Len(v) <= n /\ f[Len(v)] \in Nat
            BY <1>1, <1>2, <2>5
        <3>2. f[Len(v)] <= g[n]
            BY <1>1, <1>4, <3>1
        <3>3. f[Len(v)] <= g[n + 1]
            BY <2>3, <3>1, <3>2
        <3> QED BY <1>1, <2>1, <2>5, <3>3
    <2> QED BY <2>4, <2>5
<1> HIDE DEF S
<1>5. \A n \in 0 .. Len(w) : n \in S
    BY <1>1, <1>3, <1>4, Upwards
<1> QED BY <1>1, <1>5 DEF S, f, g

\* Everybody on a list of entries is on it once.
Distinct(s) == \A a, b \in 1 .. Len(s) : a # b => s[a].user # s[b].user

\* A place is raised: the entries from there on are exchanged among each other,
\* and none of them has more than the first.
IsRaised(r, s, i, E) ==
    /\ r \in Seq(E) /\ Len(r) = Len(s)
    /\ \A k \in 1 .. i - 1 : r[k] = s[k]
    /\ \A k \in i .. Len(s) : \E m \in i .. Len(s) : r[k] = s[m]
    /\ Distinct(s) => Distinct(r)

\* One exchange keeps that.
LEMMA ExchangeKeeps ==
    ASSUME NEW E, \A e \in E : e.xp \in Nat, NEW s \in Seq(E), NEW i \in 1 .. Len(s),
           NEW r, IsRaised(r, s, i, E), NEW j \in i + 1 .. Len(s)
    PROVE  /\ IsRaised(Points!Exchange(r, i, j), s, i, E)
           /\ Points!Exchange(r, i, j)[i].xp >= r[i].xp
           /\ Points!Exchange(r, i, j)[i].xp >= Points!Exchange(r, i, j)[j].xp
           /\ \A k \in i + 1 .. Len(s) \ {j} : Points!Exchange(r, i, j)[k] = r[k]
<1> DEFINE t == Points!Exchange(r, i, j)
<1>1. /\ Len(s) \in Nat /\ i \in 1 .. Len(r) /\ j \in 1 .. Len(r) /\ Len(r) = Len(s) /\ i < j
      /\ i \in i .. Len(s) /\ j \in i .. Len(s)
      /\ \A k \in 1 .. Len(r) : r[k] \in E
      /\ r \in [1 .. Len(r) -> E]
    <2>1. r \in Seq(E) /\ Len(r) = Len(s)
        BY DEF IsRaised
    <2> QED BY <2>1
<1>2. CASE ~(r[j].xp > r[i].xp)
    <2>1. t = r
        BY <1>2 DEF Points!Exchange
    <2> QED BY <1>1, <1>2, <2>1
<1>3. CASE r[j].xp > r[i].xp
    <2>1. t = [r EXCEPT ![i] = r[j], ![j] = r[i]]
        BY <1>3 DEF Points!Exchange
    <2>2. /\ t \in Seq(E) /\ Len(t) = Len(r)
          /\ t[i] = r[j] /\ t[j] = r[i]
          /\ \A k \in 1 .. Len(r) : k # i /\ k # j => t[k] = r[k]
        <3>1. r[i] \in E /\ r[j] \in E /\ i # j
            BY <1>1
        <3>2. t \in [1 .. Len(r) -> E]
            BY <1>1, <2>1, <3>1
        <3>3. t \in Seq(E) /\ Len(t) = Len(r)
            BY <1>1, <3>2
        <3> QED BY <1>1, <2>1, <3>1, <3>3
    <2> HIDE DEF t
    <2>3. \A k \in 1 .. i - 1 : t[k] = s[k]
        <3>1. \A k \in 1 .. i - 1 : k \in 1 .. Len(r) /\ k # i /\ k # j
            BY <1>1
        <3>2. \A k \in 1 .. i - 1 : r[k] = s[k]
            BY DEF IsRaised
        <3> QED BY <2>2, <3>1, <3>2
    <2>4. ASSUME NEW k \in i .. Len(s) PROVE \E m \in i .. Len(s) : t[k] = s[m]
        <3>1. \E l \in i .. Len(s) : t[k] = r[l]
            <4>1. k \in 1 .. Len(r)
                BY <1>1
            <4>2. k = i \/ k = j \/ t[k] = r[k]
                BY <2>2, <4>1
            <4> QED BY <1>1, <2>2, <4>2
        <3> QED BY <3>1 DEF IsRaised
    <2>5. ASSUME Distinct(s) PROVE Distinct(t)
        <3>1. Distinct(r)
            BY <2>5 DEF IsRaised
        <3>2. SUFFICES ASSUME NEW a \in 1 .. Len(t), NEW b \in 1 .. Len(t), a # b
              PROVE  t[a].user # t[b].user
            BY DEF Distinct
        <3> DEFINE from(k) == IF k = i THEN j ELSE IF k = j THEN i ELSE k
        <3>3. \A k \in 1 .. Len(r) : t[k] = r[from(k)] /\ from(k) \in 1 .. Len(r)
            BY <1>1, <2>2
        <3>4. from(a) # from(b) /\ from(a) \in 1 .. Len(r) /\ from(b) \in 1 .. Len(r)
            BY <1>1, <2>2, <3>2
        <3> HIDE DEF from
        <3>5. r[from(a)].user # r[from(b)].user
            BY <3>1, <3>4 DEF Distinct
        <3>6. t[a] = r[from(a)] /\ t[b] = r[from(b)]
            BY <2>2, <3>2, <3>3
        <3> QED BY <3>5, <3>6
    <2>6. IsRaised(t, s, i, E)
        BY <1>1, <2>2, <2>3, <2>4, <2>5 DEF IsRaised
    <2>7. t[i].xp >= r[i].xp /\ t[i].xp >= t[j].xp
        BY <1>1, <1>3, <2>2
    <2>8. \A k \in i + 1 .. Len(s) \ {j} : t[k] = r[k]
        BY <1>1, <2>2
    <2> QED BY <2>6, <2>7, <2>8 DEF t
<1> QED BY <1>2, <1>3

\* The recursive function by which Raised goes through the later places.
Raises(f, s, i) ==
    f = [j \in 0 .. Len(s) |-> IF j <= i THEN s ELSE Points!Exchange(f[j - 1], i, j)]

Raising(s, i) == CHOOSE f : Raises(f, s, i)

\* There is such a function, and its values are rearrangements.
LEMMA RaisingRearranges ==
    ASSUME NEW E, \A e \in E : e.xp \in Nat, NEW s \in Seq(E), NEW i \in 1 .. Len(s)
    PROVE  /\ Raises(Raising(s, i), s, i)
           /\ \A j \in 0 .. Len(s) : IsRaised(Raising(s, i)[j], s, i, E)
<1> DEFINE X == {r \in Seq(E) : IsRaised(r, s, i, E)}
           next(j, r) == IF j <= i THEN s ELSE Points!Exchange(r, i, j)
           G == [p \in (1 .. Len(s)) \X X |-> next(p[1], p[2])]
<1>1. Len(s) \in Nat /\ IsRaised(s, s, i, E) /\ s \in X
    BY DEF IsRaised
<1>2. ASSUME NEW j \in 1 .. Len(s), NEW r \in X PROVE next(j, r) \in X
    <2>1. CASE j <= i
        BY <1>1, <2>1
    <2>2. CASE ~(j <= i)
        <3>1. j \in i + 1 .. Len(s) /\ IsRaised(r, s, i, E)
            BY <2>2
        <3>2. IsRaised(Points!Exchange(r, i, j), s, i, E)
            BY <3>1, ExchangeKeeps
        <3>3. Points!Exchange(r, i, j) \in X
            BY <3>2 DEF IsRaised
        <3> QED BY <2>2, <3>3
    <2> QED BY <2>1, <2>2
<1> HIDE DEF next, X
<1>3. ASSUME NEW j \in 1 .. Len(s), NEW r \in X
      PROVE  G[<<j, r>>] = next(j, r)
    OBVIOUS
<1>4. G \in [(1 .. Len(s)) \X X -> X]
    BY <1>2
<1> HIDE DEF G
<1>5. PICK f : Iterate(f, X, s, Len(s), G)
    BY <1>1, <1>4, Iterates
<1>6. \A j \in 0 .. Len(s) : f[j] = next(j, f[j - 1])
    <2>1. ASSUME NEW j \in 1 .. Len(s) PROVE f[j] = next(j, f[j - 1])
        <3>1. j - 1 \in 0 .. Len(s) /\ f[j - 1] \in X
            BY <1>1, <1>5, SMTT(30) DEF Iterate
        <3> QED BY <1>3, <1>5, <3>1 DEF Iterate
    <2>2. f[0] = next(0, f[-1])
        BY <1>5 DEF Iterate, next
    <2> QED BY <1>1, <2>1, <2>2
<1>7. Raises(f, s, i)
    <2>1. f = [j \in 0 .. Len(s) |-> f[j]]
        BY <1>5 DEF Iterate
    <2>2. [j \in 0 .. Len(s) |-> f[j]] = [j \in 0 .. Len(s) |-> next(j, f[j - 1])]
        BY <1>6, Zenon
    <2> QED BY <2>1, <2>2, Zenon DEF Raises, next
<1>8. Raises(Raising(s, i), s, i)
    BY <1>7, Zenon DEF Raising
<1> DEFINE h == Raising(s, i)
           S == {j \in 0 .. Len(s) : h[j] \in X}
<1>9. \A j \in 0 .. Len(s) : h[j] = next(j, h[j - 1])
    BY <1>8, Zenon DEF Raises, next
<1> HIDE DEF h
<1>10. 0 \in S
    BY <1>1, <1>9 DEF next
<1>11. ASSUME NEW j \in 0 .. Len(s) - 1, j \in S PROVE j + 1 \in S
    <2>1. j + 1 \in 1 .. Len(s) /\ j + 1 \in 0 .. Len(s) /\ (j + 1) - 1 = j
        BY <1>1
    <2>2. h[j + 1] = next(j + 1, h[j])
        BY <1>9, <2>1
    <2> QED BY <1>2, <1>11, <2>1, <2>2
<1> HIDE DEF S
<1>12. \A j \in 0 .. Len(s) : j \in S
    BY <1>1, <1>10, <1>11, Upwards
<1> QED BY <1>8, <1>12 DEF S, X, h

\* The raised place has no less than any later one, and the places before it stay.
LEMMA RaisedRanks ==
    ASSUME NEW E, \A e \in E : e.xp \in Nat, NEW s \in Seq(E), NEW i \in 1 .. Len(s)
    PROVE  /\ IsRaised(Points!Raised(s, i), s, i, E)
           /\ \A k \in i + 1 .. Len(s) : Points!Raised(s, i)[i].xp >= Points!Raised(s, i)[k].xp
<1> DEFINE h == Raising(s, i)
           S == {j \in 0 .. Len(s) : \A k \in i + 1 .. j : h[j][i].xp >= h[j][k].xp}
<1>1. /\ Len(s) \in Nat
      /\ \A j \in 0 .. Len(s) : IsRaised(h[j], s, i, E)
    BY RaisingRearranges
<1>2. \A j \in i + 1 .. Len(s) : h[j] = Points!Exchange(h[j - 1], i, j)
    <2>1. h = [j \in 0 .. Len(s) |-> IF j <= i THEN s ELSE Points!Exchange(h[j - 1], i, j)]
        BY RaisingRearranges DEF Raises
    <2> HIDE DEF h
    <2>2. \A j \in 0 .. Len(s) : h[j] = IF j <= i THEN s ELSE Points!Exchange(h[j - 1], i, j)
        BY <2>1, Zenon
    <2> QED BY <2>2
<1>3. Points!Raised(s, i) = h[Len(s)]
    BY Zenon DEF Points!Raised, Raising, Raises
<1> HIDE DEF h
<1>4. 0 \in S
    BY <1>1
<1>5. ASSUME NEW j \in 0 .. Len(s) - 1, j \in S PROVE j + 1 \in S
    <2>1. CASE j + 1 <= i
        BY <1>1, <2>1
    <2>2. CASE ~(j + 1 <= i)
        <3> DEFINE l == j + 1
        <3>1. /\ l \in i + 1 .. Len(s) /\ l - 1 = j /\ j \in 0 .. Len(s) /\ l \in 0 .. Len(s)
            BY <1>1, <2>2
        <3>2. h[l] = Points!Exchange(h[j], i, l) /\ IsRaised(h[j], s, i, E)
            BY <1>1, <1>2, <3>1
        <3>3. IsRaised(h[l], s, i, E)
            BY <1>1, <3>1
        <3> HIDE DEF l
        <3>4. /\ h[l][i].xp >= h[j][i].xp /\ h[l][i].xp >= h[l][l].xp
              /\ \A k \in i + 1 .. Len(s) \ {l} : h[l][k] = h[j][k]
            BY <3>1, <3>2, ExchangeKeeps
        <3>5. \A k \in i .. Len(s) : h[l][k].xp \in Nat /\ h[j][k].xp \in Nat
            <4>1. \A k \in i .. Len(s) : k \in 1 .. Len(s)
                BY <1>1
            <4>2. h[l] \in Seq(E) /\ h[j] \in Seq(E) /\ Len(h[l]) = Len(s) /\ Len(h[j]) = Len(s)
                BY <3>2, <3>3 DEF IsRaised
            <4>3. \A k \in 1 .. Len(s) : h[l][k] \in E /\ h[j][k] \in E
                BY <4>2
            <4> QED BY <4>1, <4>3
        <3>6. ASSUME NEW k \in i + 1 .. l PROVE h[l][i].xp >= h[l][k].xp
            <4>1. CASE k = l
                BY <3>4, <4>1
            <4>2. CASE k # l
                <5>1. k \in i + 1 .. j /\ k \in i + 1 .. Len(s) \ {l} /\ k \in i .. Len(s) /\ i \in i .. Len(s)
                    BY <1>1, <3>1, <4>2
                <5>2. h[j][i].xp >= h[j][k].xp /\ h[l][k] = h[j][k]
                    BY <1>5, <3>4, <5>1
                <5> QED BY <3>4, <3>5, <5>1, <5>2
            <4> QED BY <4>1, <4>2
        <3> QED BY <3>1, <3>6 DEF l
    <2> QED BY <2>1, <2>2
<1> HIDE DEF S
<1>6. \A j \in 0 .. Len(s) : j \in S
    BY <1>1, <1>4, <1>5, Upwards
<1> QED BY <1>1, <1>3, <1>6 DEF S

\* The recursive function by which SortByXP raises every place in turn.
Sorts(f, s) ==
    f = [i \in 0 .. Len(s) |-> IF i = 0 THEN s ELSE Points!Raised(f[i - 1], i)]

Sorting(s) == CHOOSE f : Sorts(f, s)

\* The first places are in order, and nobody after them has more.
IsRanked(r, s, i, E) ==
    /\ r \in Seq(E) /\ Len(r) = Len(s)
    /\ Distinct(s) => Distinct(r)
    /\ \A a \in 1 .. i : \A b \in a + 1 .. Len(s) : r[a].xp >= r[b].xp

\* One more place is raised.
LEMMA RaiseNext ==
    ASSUME NEW E, \A e \in E : e.xp \in Nat, NEW s \in Seq(E), NEW i \in 0 .. Len(s) - 1,
           NEW r, IsRanked(r, s, i, E)
    PROVE  IsRanked(Points!Raised(r, i + 1), s, i + 1, E)
<1> DEFINE t == Points!Raised(r, i + 1)
<1>1. /\ r \in Seq(E) /\ Len(r) = Len(s) /\ Len(s) \in Nat
      /\ i + 1 \in 1 .. Len(r) /\ (i + 1) - 1 = i
    BY DEF IsRanked
<1>2. /\ IsRaised(t, r, i + 1, E)
      /\ \A k \in i + 2 .. Len(s) : t[i + 1].xp >= t[k].xp
    BY <1>1, RaisedRanks
<1> HIDE DEF t
<1>3. /\ t \in Seq(E) /\ Len(t) = Len(s)
      /\ \A k \in 1 .. i : t[k] = r[k]
      /\ \A k \in i + 1 .. Len(s) : \E m \in i + 1 .. Len(s) : t[k] = r[m]
      /\ Distinct(r) => Distinct(t)
    BY <1>1, <1>2 DEF IsRaised
<1>4. ASSUME NEW a \in 1 .. i + 1, NEW b \in a + 1 .. Len(s)
      PROVE  t[a].xp >= t[b].xp
    <2>1. CASE a = i + 1
        <3>1. b \in i + 2 .. Len(s)
            BY <1>1, <2>1
        <3> QED BY <1>2, <2>1, <3>1
    <2>2. CASE a # i + 1
        <3>1. a \in 1 .. i /\ t[a] = r[a]
            BY <1>1, <1>3, <2>2
        <3>2. CASE b <= i
            <4>1. b \in 1 .. i /\ t[b] = r[b]
                BY <1>1, <1>3, <3>2
            <4> QED BY <3>1, <4>1 DEF IsRanked
        <3>3. CASE ~(b <= i)
            <4>1. b \in i + 1 .. Len(s)
                BY <1>1, <3>3
            <4>2. PICK m \in i + 1 .. Len(s) : t[b] = r[m]
                BY <1>3, <4>1
            <4>3. m \in a + 1 .. Len(s)
                BY <1>1, <3>1
            <4>4. r[a].xp >= r[m].xp
                BY <3>1, <4>3 DEF IsRanked
            <4> QED BY <3>1, <4>2, <4>4
        <3> QED BY <3>2, <3>3
    <2> QED BY <2>1, <2>2
<1> QED BY <1>3, <1>4 DEF IsRanked, t

\* SortByXP ranks any list of entries.
LEMMA SortRanks ==
    ASSUME NEW E, \A e \in E : e.xp \in Nat, NEW s \in Seq(E)
    PROVE  IsRanked(Points!SortByXP(s), s, Len(s), E)
<1> DEFINE X == {r \in Seq(E) : Len(r) = Len(s)}
           G == [p \in (1 .. Len(s)) \X X |-> Points!Raised(p[2], p[1])]
<1>1. Len(s) \in Nat /\ s \in X
    OBVIOUS
<1>2. ASSUME NEW i \in 1 .. Len(s), NEW r \in X PROVE Points!Raised(r, i) \in X
    <2>1. r \in Seq(E) /\ Len(r) = Len(s) /\ i \in 1 .. Len(r)
        OBVIOUS
    <2>2. IsRaised(Points!Raised(r, i), r, i, E)
        BY <2>1, RaisedRanks
    <2> QED BY <2>1, <2>2 DEF IsRaised
<1> HIDE DEF X
<1>3. ASSUME NEW i \in 1 .. Len(s), NEW r \in X
      PROVE  G[<<i, r>>] = Points!Raised(r, i)
    OBVIOUS
<1>4. G \in [(1 .. Len(s)) \X X -> X]
    BY <1>2
<1> HIDE DEF G
<1>5. PICK f : Iterate(f, X, s, Len(s), G)
    BY <1>1, <1>4, Iterates
<1>6. \A i \in 0 .. Len(s) : f[i] = IF i = 0 THEN s ELSE Points!Raised(f[i - 1], i)
    <2>1. ASSUME NEW i \in 1 .. Len(s) PROVE f[i] = Points!Raised(f[i - 1], i)
        <3>1. i - 1 \in 0 .. Len(s) /\ f[i - 1] \in X
            BY <1>1, <1>5 DEF Iterate
        <3> QED BY <1>3, <1>5, <3>1 DEF Iterate
    <2> QED BY <1>1, <1>5, <2>1 DEF Iterate
<1>7. Sorts(f, s)
    <2>1. f = [i \in 0 .. Len(s) |-> f[i]]
        BY <1>5 DEF Iterate
    <2>2. [i \in 0 .. Len(s) |-> f[i]]
            = [i \in 0 .. Len(s) |-> IF i = 0 THEN s ELSE Points!Raised(f[i - 1], i)]
        BY <1>6, Zenon
    <2> QED BY <2>1, <2>2, Zenon DEF Sorts
<1>8. Sorts(Sorting(s), s)
    BY <1>7, Zenon DEF Sorting
<1> DEFINE h == Sorting(s)
           S == {i \in 0 .. Len(s) : IsRanked(h[i], s, i, E)}
<1>9. \A i \in 0 .. Len(s) : h[i] = IF i = 0 THEN s ELSE Points!Raised(h[i - 1], i)
    BY <1>8, Zenon DEF Sorts
<1>10. Points!SortByXP(s) = h[Len(s)]
    BY Zenon DEF Points!SortByXP, Sorting, Sorts
<1> HIDE DEF h
<1>11. 0 \in S
    BY <1>1, <1>9 DEF IsRanked
<1>12. ASSUME NEW i \in 0 .. Len(s) - 1, i \in S PROVE i + 1 \in S
    <2>1. i + 1 \in 0 .. Len(s) /\ i + 1 # 0 /\ (i + 1) - 1 = i
        BY <1>1
    <2>2. h[i + 1] = Points!Raised(h[i], i + 1)
        BY <1>9, <2>1
    <2>3. IsRanked(h[i], s, i, E)
        BY <1>12
    <2> QED BY <2>1, <2>2, <2>3, RaiseNext
<1> HIDE DEF S
<1>13. \A i \in 0 .. Len(s) : i \in S
    BY <1>1, <1>11, <1>12, Upwards
<1> QED BY <1>1, <1>10, <1>13 DEF S

\* The points of some attempts are their sum.
LEMMA PointsAreSum ==
    ASSUME NEW some
    PROVE  Points!Points(some) = Sum(attempts, some)[Len(attempts)]
BY Zenon DEF Points!Points, Sum, Sums

\* The order the map yields its students in: each once.
LEMMA ContestantsOnce ==
    ASSUME attempts \in Seq(Points!Attempt), NEW s \in Points!Contestants
    PROVE  /\ s \in Seq(Users)
           /\ \A a, b \in 1 .. Len(s) : a # b => s[a] # s[b]
<1> DEFINE U == {attempts[i].user : i \in Points!Recent}
           n == Points!Cardinality(U)
<1>1. n \in Nat
    <2>1. Len(attempts) \in Nat /\ Points!Recent \subseteq 1 .. Len(attempts)
        BY DEF Points!Recent
    <2>2. IsFiniteSet(Points!Recent)
        <3>1. IsFiniteSet(1 .. Len(attempts))
            BY <2>1, FS_Interval
        <3> QED BY <2>1, <3>1, FS_Subset
    <2>3. IsFiniteSet(U)
        <3> DEFINE f == [i \in Points!Recent |-> attempts[i].user]
        <3>1. f \in Surjection(Points!Recent, U)
            BY DEF Surjection
        <3> QED BY <2>2, <3>1, FS_Surjection
    <2>4. Points!Cardinality(U) = Cardinality(U)
        BY <2>3, Zenon DEF Points!Cardinality, Points!IsFiniteSet, Cardinality, IsFiniteSet
    <2> QED BY <2>3, <2>4, FS_CardinalityType
<1>2. U \subseteq Users
    <2>1. \A i \in Points!Recent : i \in 1 .. Len(attempts) /\ attempts[i] \in Points!Attempt
        BY DEF Points!Recent
    <2> QED BY <2>1 DEF Points!Attempt
<1>3. s \in [1 .. n -> U] /\ \A a, b \in 1 .. n : a # b => s[a] # s[b]
    BY Zenon DEF Points!Contestants, Points!SetToSeqs
<1> HIDE DEF n, U
<1>4. s \in [1 .. n -> Users]
    BY <1>2, <1>3
<1>5. s \in Seq(Users) /\ Len(s) = n
    BY <1>1, <1>4
<1> QED BY <1>3, <1>5

\* Points on the board are no more than a student has, and all the student has
\* while the board looks at all attempts.
LEMMA BoardXpBounded ==
    ASSUME attempts \in Seq(Points!Attempt), NEW u
    PROVE  /\ Points!BoardXp(u) \in Nat /\ Points!TotalXp(u) \in Nat
           /\ Points!BoardXp(u) <= Points!TotalXp(u)
           /\ Len(attempts) <= Limit => Points!BoardXp(u) = Points!TotalXp(u)
<1> DEFINE all == Points!Of(u)
           some == Points!Recent \cap Points!Of(u)
<1>1. /\ Points!BoardXp(u) = Sum(attempts, some)[Len(attempts)]
      /\ Points!TotalXp(u) = Sum(attempts, all)[Len(attempts)]
    BY PointsAreSum DEF Points!BoardXp, Points!TotalXp
<1>2. Len(attempts) \in Nat
    OBVIOUS
<1>3. some \subseteq all
    OBVIOUS
<1>4. Len(attempts) <= Limit => some = all
    BY <1>2, SeparateAssumption DEF Points!Recent, Points!Of, Points!BoundsAssumption
<1> HIDE DEF all, some
<1>5. /\ Sum(attempts, some) \in [0 .. Len(attempts) -> Nat]
      /\ Sum(attempts, all) \in [0 .. Len(attempts) -> Nat]
    BY SumStep
<1>6. Sum(attempts, some)[Len(attempts)] <= Sum(attempts, all)[Len(attempts)]
    BY <1>2, <1>3, SumGrows
<1> QED BY <1>1, <1>2, <1>4, <1>5, <1>6

\* A leaderboard ranks its entries, which are of students and their points.
LEMMA LeaderboardRanks ==
    ASSUME attempts \in Seq(Points!Attempt), NEW b \in Points!Leaderboards
    PROVE  /\ b \in Seq([user : Users, xp : Nat, streak : {0}])
           /\ \A i \in 1 .. Len(b) : b[i].user \in Users /\ b[i].xp = Points!BoardXp(b[i].user)
           /\ \A i, j \in 1 .. Len(b) : i < j => b[i].xp >= b[j].xp /\ b[i].user # b[j].user
<1> DEFINE entry(u) == [user |-> u, xp |-> Points!BoardXp(u), streak |-> 0]
           E == {entry(u) : u \in Users}
<1>1. PICK s \in Points!Contestants : b = Points!SortByXP([i \in DOMAIN s |-> entry(s[i])])
    BY DEF Points!Leaderboards
<1> DEFINE t == [i \in DOMAIN s |-> entry(s[i])]
<1>2. s \in Seq(Users) /\ Len(s) \in Nat /\ \A i \in 1 .. Len(s) : s[i] \in Users
    BY ContestantsOnce
<1>3. /\ t \in Seq(E) /\ Len(t) = Len(s)
      /\ \A i \in 1 .. Len(s) : t[i] = entry(s[i])
    <2>1. DOMAIN s = 1 .. Len(s)
        BY <1>2
    <2> HIDE DEF entry
    <2>2. t \in [1 .. Len(s) -> E]
        BY <1>2, <2>1
    <2> QED BY <1>2, <2>1, <2>2
<1>4. /\ \A e \in E : e.xp \in Nat /\ e.user \in Users /\ e.xp = Points!BoardXp(e.user)
      /\ E \subseteq [user : Users, xp : Nat, streak : {0}]
    BY BoardXpBounded
<1>5. Distinct(t)
    <2>1. \A i \in 1 .. Len(s) : t[i].user = s[i]
        BY <1>3
    <2> HIDE DEF t
    <2> QED BY <1>3, <2>1, ContestantsOnce DEF Distinct
<1> HIDE DEF t, E
<1>6. IsRanked(b, t, Len(t), E)
    <2>1. b = Points!SortByXP(t)
        BY <1>1 DEF t
    <2> QED BY <1>3, <1>4, <2>1, SortRanks
<1>7. b \in Seq(E) /\ Len(b) = Len(t) /\ Len(b) \in Nat /\ Distinct(b)
    BY <1>2, <1>3, <1>5, <1>6 DEF IsRanked
<1>8. ASSUME NEW i \in 1 .. Len(b), NEW j \in 1 .. Len(b), i < j
      PROVE  b[i].xp >= b[j].xp /\ b[i].user # b[j].user
    <2>1. i \in 1 .. Len(t) /\ j \in i + 1 .. Len(t)
        BY <1>7, <1>8
    <2>2. b[i].xp >= b[j].xp
        BY <1>6, <2>1 DEF IsRanked
    <2>3. b[i].user # b[j].user
        BY <1>7, <1>8 DEF Distinct
    <2> QED BY <2>2, <2>3
<1>9. \A i \in 1 .. Len(b) : b[i] \in E
    BY <1>7
<1>10. b \in Seq([user : Users, xp : Nat, streak : {0}])
    <2> DEFINE T == [user : Users, xp : Nat, streak : {0}]
    <2>1. E \subseteq T
        BY <1>4
    <2> HIDE DEF T
    <2>2. b \in Seq(T)
        BY <1>7, <2>1
    <2> QED BY <2>2 DEF T
<1> QED BY <1>4, <1>8, <1>9, <1>10

\* What is on the board and above it was true when it was read, and a student's
\* points only grow.
BoardKept ==
    /\ today \in 0 .. MaxDay
    /\ attempts \in Seq(Points!Attempt)
    /\ stats = [xp |-> stats.xp, streak |-> stats.streak] /\ stats.xp \in Nat
    /\ step \in {"attempts", "board"} => viewer \in Users /\ stats.xp <= Points!TotalXp(viewer)
    /\ board \in Seq([user : Users, xp : Nat, streak : {0}])
    /\ BoardRanks /\ BoardAgreesWithStats

\* A completed attempt takes nothing from anybody's points.
LEMMA TotalGrows ==
    ASSUME attempts \in Seq(Points!Attempt), NEW e \in Points!Attempt,
           attempts' = Append(attempts, e), NEW u \in Users
    PROVE  Points!TotalXp(u)' >= Points!TotalXp(u) /\ Points!TotalXp(u) \in Nat /\ Points!TotalXp(u)' \in Nat
<1> DEFINE some == Points!Of(u)
           n == Len(attempts)
<1>1. PICK more : more = Points!Of(u)'
    OBVIOUS
<1>2. PICK w : w = attempts'
    OBVIOUS
<1>3. /\ w \in Seq(Points!Attempt) /\ Len(w) = n + 1 /\ n \in Nat
      /\ \A k \in 1 .. n : attempts[k] = w[k]
    BY <1>2
<1>4. \A k \in 1 .. n : k \in some => k \in more
    BY <1>1, <1>2, <1>3 DEF Points!Of
<1>5. Points!TotalXp(u) = Sum(attempts, some)[n]
    BY PointsAreSum DEF Points!TotalXp
<1>6. Points!TotalXp(u)' = Sum(w, more)[Len(w)]
    BY <1>1, <1>2, Zenon DEF Points!TotalXp, Points!Points, Sum, Sums
<1> HIDE DEF some
<1>7. Sum(attempts, some)[n] <= Sum(w, more)[Len(w)]
    BY <1>3, <1>4, SumGrows
<1>8. Sum(attempts, some) \in [0 .. n -> Nat] /\ Sum(w, more) \in [0 .. Len(w) -> Nat]
    BY <1>3, SumStep
<1> QED BY <1>3, <1>5, <1>6, <1>7, <1>8

\* Before anything is read, all is true.
LEMMA BoardStarts ==
    ASSUME Points!Init
    PROVE  BoardKept
<1>1. /\ attempts = << >> /\ board = << >> /\ step = "idle"
      /\ stats = [xp |-> 0, streak |-> 0]
    BY DEF Points!Init, Points!NoStats
<1>a. today \in 0 .. MaxDay
    BY SeparateAssumption DEF Points!Init, Points!BoundsAssumption
<1>2. attempts \in Seq(Points!Attempt) /\ board \in Seq([user : Users, xp : Nat, streak : {0}])
    BY <1>1
<1>3. DOMAIN board = {}
    BY <1>1
<1>4. BoardRanks /\ BoardAgreesWithStats
    BY <1>3, Zenon DEF BoardRanks, Points!BoardRanks, BoardAgreesWithStats, Points!BoardAgreesWithStats
<1> QED BY <1>1, <1>2, <1>a, <1>4 DEF BoardKept

\* A step that changes no attempt changes nobody's points.
LEMMA TotalStays ==
    ASSUME UNCHANGED attempts, NEW u
    PROVE  Points!TotalXp(u)' = Points!TotalXp(u)
BY DEF Points!TotalXp, Points!Points, Points!Of

\* All of it stays true through every step.
LEMMA BoardInductive ==
    ASSUME BoardKept, [Points!Next]_(Points!vars)
    PROVE  BoardKept'
<1> DEFINE Entry == [user : Users, xp : Nat, streak : {0}]
<1>1. /\ attempts \in Seq(Points!Attempt) /\ today \in 0 .. MaxDay
      /\ stats = [xp |-> stats.xp, streak |-> stats.streak] /\ stats.xp \in Nat
      /\ board \in Seq(Entry) /\ DOMAIN board = 1 .. Len(board)
      /\ \A i \in DOMAIN board : board[i].user \in Users /\ board[i].xp \in Nat
    <2>1. board \in Seq(Entry)
        BY DEF BoardKept
    <2> HIDE DEF Entry
    <2>2. DOMAIN board = 1 .. Len(board) /\ \A i \in 1 .. Len(board) : board[i] \in Entry
        BY <2>1
    <2> QED BY <2>1, <2>2 DEF BoardKept, Entry
<1>2. CASE UNCHANGED <<attempts, board, stats, viewer, step>> /\ today' \in 0 .. MaxDay
    BY <1>2, TotalStays DEF BoardKept, BoardRanks, Points!BoardRanks, BoardAgreesWithStats,
        Points!BoardAgreesWithStats
<1>3. ASSUME NEW u \in Users, NEW score \in Scores, Points!Complete(u, score)
      PROVE  BoardKept'
    <2> DEFINE new == [user |-> u, score |-> score, day |-> today]
    <2>1. attempts' = Append(attempts, new) /\ UNCHANGED <<today, viewer, step, stats, board>>
        BY <1>3 DEF Points!Complete
    <2>2. new \in Points!Attempt
        BY <1>1 DEF Points!Attempt
    <2> HIDE DEF new
    <2>3. /\ attempts' \in Seq(Points!Attempt)
          /\ Len(attempts) \in Nat /\ Len(attempts') = Len(attempts) + 1
        BY <1>1, <2>1, <2>2
    <2>4. \A v \in Users : /\ Points!TotalXp(v)' >= Points!TotalXp(v)
                           /\ Points!TotalXp(v) \in Nat /\ Points!TotalXp(v)' \in Nat
        BY <1>1, <2>1, <2>2, TotalGrows
    <2>5. ASSUME NEW i \in DOMAIN board PROVE board[i].xp <= Points!TotalXp(board[i].user)'
        <3>1. board[i].xp <= Points!TotalXp(board[i].user)
            BY DEF BoardKept, BoardAgreesWithStats, Points!BoardAgreesWithStats
        <3>2. PICK v \in Users : v = board[i].user
            BY <1>1
        <3>3. Points!TotalXp(board[i].user)' = Points!TotalXp(v)'
            BY <2>1, <3>2 DEF Points!TotalXp, Points!Points, Points!Of
        <3>4. board[i].xp <= Points!TotalXp(v) /\ board[i].xp \in Nat
            BY <1>1, <3>1, <3>2
        <3> QED BY <2>4, <3>3, <3>4
    <2>6. ASSUME step = "shown", Len(attempts') <= Limit, NEW i \in DOMAIN board,
                 board[i].user = viewer
          PROVE  board[i].xp >= stats.xp
        <3>1. Len(attempts) <= Limit
            BY <2>3, <2>6, SeparateAssumption DEF Points!BoundsAssumption
        <3> QED BY <2>6, <3>1 DEF BoardKept, BoardAgreesWithStats, Points!BoardAgreesWithStats
    <2>7. BoardAgreesWithStats'
        BY <2>1, <2>5, <2>6 DEF BoardAgreesWithStats, Points!BoardAgreesWithStats
    <2>8. ASSUME step \in {"attempts", "board"}
          PROVE  viewer \in Users /\ stats.xp <= Points!TotalXp(viewer)'
        <3>1. viewer \in Users /\ stats.xp <= Points!TotalXp(viewer)
            BY <2>8 DEF BoardKept
        <3>2. PICK v \in Users : v = viewer
            BY <3>1
        <3>3. Points!TotalXp(viewer)' = Points!TotalXp(v)'
            BY <2>1, <3>2 DEF Points!TotalXp, Points!Points, Points!Of
        <3>4. stats.xp <= Points!TotalXp(v) /\ stats.xp \in Nat
            BY <1>1, <3>1, <3>2
        <3> QED BY <2>4, <3>1, <3>3, <3>4
    <2>9. BoardRanks'
        BY <2>1 DEF BoardKept, BoardRanks, Points!BoardRanks
    <2> QED BY <1>1, <2>1, <2>3, <2>7, <2>8, <2>9 DEF BoardKept
<1>4. ASSUME NEW u \in Users, Points!ReadStats(u) PROVE BoardKept'
    <2>1. /\ step = "idle" /\ viewer' = u /\ step' = "attempts"
          /\ stats' = [stats EXCEPT !.xp = Points!TotalXp(u)]
          /\ UNCHANGED <<today, attempts, board>>
        BY <1>4 DEF Points!ReadStats
    <2>2. Points!TotalXp(u) \in Nat
        BY <1>1, BoardXpBounded
    <2>3. stats' = [xp |-> Points!TotalXp(u), streak |-> stats.streak]
        BY <1>1, <2>1
    <2>4. stats'.xp = Points!TotalXp(u) /\ stats' = [xp |-> stats'.xp, streak |-> stats'.streak]
        BY <2>3
    <2>5. \A v : Points!TotalXp(v)' = Points!TotalXp(v)
        BY <2>1, TotalStays
    <2>6. BoardAgreesWithStats' /\ BoardRanks'
        BY <2>1, <2>5 DEF BoardKept, BoardRanks, Points!BoardRanks, BoardAgreesWithStats,
            Points!BoardAgreesWithStats
    <2> QED BY <1>1, <2>1, <2>2, <2>4, <2>5, <2>6 DEF BoardKept
<1>5. CASE Points!ReadAttempts
    <2>1. /\ step = "attempts" /\ step' = "board"
          /\ stats' = [stats EXCEPT !.streak = Points!Streak(viewer)]
          /\ UNCHANGED <<today, attempts, board, viewer>>
        BY <1>5 DEF Points!ReadAttempts
    <2>2. stats' = [xp |-> stats.xp, streak |-> Points!Streak(viewer)]
        BY <1>1, <2>1
    <2>3. stats'.xp = stats.xp /\ stats' = [xp |-> stats'.xp, streak |-> stats'.streak]
        BY <2>2
    <2>4. \A v : Points!TotalXp(v)' = Points!TotalXp(v)
        BY <2>1, TotalStays
    <2>5. BoardAgreesWithStats' /\ BoardRanks'
        BY <2>1, <2>4 DEF BoardKept, BoardRanks, Points!BoardRanks, BoardAgreesWithStats,
            Points!BoardAgreesWithStats
    <2> QED BY <1>1, <2>1, <2>3, <2>4, <2>5 DEF BoardKept
<1>6. CASE Points!ReadBoard
    <2>1. /\ step = "board" /\ step' = "shown" /\ board' \in Points!Leaderboards
          /\ UNCHANGED <<today, attempts, stats, viewer>>
        BY <1>6 DEF Points!ReadBoard
    <2>2. PICK b \in Points!Leaderboards : board' = b
        BY <2>1
    <2>3. /\ b \in Seq(Entry)
          /\ \A i \in 1 .. Len(b) : b[i].user \in Users /\ b[i].xp = Points!BoardXp(b[i].user)
          /\ \A i, j \in 1 .. Len(b) : i < j => b[i].xp >= b[j].xp /\ b[i].user # b[j].user
        BY <1>1, LeaderboardRanks
    <2> HIDE DEF Entry
    <2>4. DOMAIN b = 1 .. Len(b)
        BY <2>3
    <2>5. BoardRanks'
        BY <2>2, <2>3, <2>4 DEF BoardRanks, Points!BoardRanks
    <2>6. \A v : Points!TotalXp(v)' = Points!TotalXp(v)
        BY <2>1, TotalStays
    <2>7. ASSUME NEW i \in DOMAIN b
          PROVE  /\ b[i].xp <= Points!TotalXp(b[i].user)
                 /\ Len(attempts) <= Limit /\ b[i].user = viewer => b[i].xp >= stats.xp
        <3> DEFINE u == b[i].user
        <3>1. b[i].xp = Points!BoardXp(u)
            BY <2>3, <2>4
        <3>2. /\ Points!BoardXp(u) \in Nat /\ Points!TotalXp(u) \in Nat
              /\ Points!BoardXp(u) <= Points!TotalXp(u)
              /\ Len(attempts) <= Limit => Points!BoardXp(u) = Points!TotalXp(u)
            BY <1>1, BoardXpBounded
        <3>3. viewer \in Users /\ stats.xp <= Points!TotalXp(viewer) /\ stats.xp \in Nat
            BY <1>1, <2>1 DEF BoardKept
        <3>4. u = viewer => stats.xp <= Points!TotalXp(u)
            BY <3>3
        <3> HIDE DEF u
        <3>5. b[i].xp <= Points!TotalXp(u)
            BY <3>1, <3>2
        <3>6. Len(attempts) <= Limit /\ u = viewer => b[i].xp >= stats.xp
            BY <3>1, <3>2, <3>3, <3>4
        <3> QED BY <3>5, <3>6 DEF u
    <2>8. BoardAgreesWithStats'
        BY <2>1, <2>2, <2>6, <2>7 DEF BoardAgreesWithStats, Points!BoardAgreesWithStats
    <2> QED BY <1>1, <2>1, <2>2, <2>3, <2>5, <2>8 DEF BoardKept, Entry
<1>7. CASE Points!LeavePage
    <2>1. /\ step' = "idle" /\ board' = << >> /\ stats' = [xp |-> 0, streak |-> 0]
          /\ UNCHANGED <<today, attempts>>
        BY <1>7 DEF Points!LeavePage, Points!NoStats
    <2>2. DOMAIN board' = {} /\ board' \in Seq(Entry)
        BY <2>1
    <2>3. BoardAgreesWithStats' /\ BoardRanks'
        BY <2>2, Zenon DEF BoardRanks, Points!BoardRanks, BoardAgreesWithStats,
            Points!BoardAgreesWithStats
    <2> QED BY <1>1, <2>1, <2>2, <2>3 DEF BoardKept
<1>8. CASE Points!NextDay
    <2>1. today' \in 0 .. MaxDay
        BY <1>1, <1>8, SeparateAssumption DEF Points!NextDay, Points!BoundsAssumption
    <2> QED BY <1>2, <1>8, <2>1 DEF Points!NextDay
<1>9. CASE UNCHANGED Points!vars
    BY <1>1, <1>2, <1>9 DEF Points!vars
<1> QED BY <1>3, <1>4, <1>5, <1>6, <1>7, <1>8, <1>9 DEF Points!Next

\* The invariant of the leaderboard.
LEMMA BoardInvariant == Points!Spec => []BoardKept
<1>1. Points!Init => BoardKept
    BY BoardStarts
<1>2. BoardKept /\ [Points!Next]_(Points!vars) => BoardKept'
    BY BoardInductive
<1> QED BY <1>1, <1>2, PTL DEF Points!Spec

\* BoardRanks: SortByXP ranks the students, whatever order the map yields them
\* in, and none of them twice.
THEOREM Ranking == Points!Spec => []BoardRanks
<1>1. BoardKept => BoardRanks
    BY DEF BoardKept
<1> QED BY <1>1, BoardInvariant, PTL

\* BoardAgreesWithStats: the leaderboard shows points that a student has, and no
\* fewer than the line above it while it looks at all attempts.
THEOREM BoardAgrees == Points!Spec => []BoardAgreesWithStats
<1>1. BoardKept => BoardAgreesWithStats
    BY DEF BoardKept
<1> QED BY <1>1, BoardInvariant, PTL

-----------------------------------------------------------------------------
(* Judging an answer                                                       *)

\* What is typed and stored.
Text == Seq(Chars \cup {"|"})

\* The recursive function by which Split goes through a text.
Splits(f, s) ==
    f = [i \in 0 .. Len(s) |->
            IF i = 0 THEN << << >> >> ELSE Check!Extended(f[i - 1], s[i])]

\* It, if there is one.
Splitting(s) == CHOOSE f : Splits(f, s)

\* One more character makes texts of texts.
LEMMA ExtendedTexts ==
    ASSUME NEW texts \in Seq(Text), Len(texts) >= 1, NEW c \in Chars \cup {"|"}
    PROVE  Check!Extended(texts, c) \in Seq(Text) /\ Len(Check!Extended(texts, c)) >= 1
<1> DEFINE n == Len(texts)
<1>1. n \in Nat /\ n \in 1 .. n /\ texts \in [1 .. n -> Text] /\ texts[n] \in Text
    OBVIOUS
<1>2. Append(texts[n], c) \in Text /\ << >> \in Text
    BY <1>1 DEF Text
<1> HIDE DEF Text
<1>3. CASE c = "|"
    BY <1>1, <1>2, <1>3 DEF Check!Extended
<1>4. CASE c # "|"
    <2> DEFINE t == [texts EXCEPT ![n] = Append(texts[n], c)]
    <2>1. t \in [1 .. n -> Text]
        BY <1>1, <1>2
    <2>2. t \in Seq(Text) /\ Len(t) = n
        BY <1>1, <2>1
    <2>3. Check!Extended(texts, c) = t
        BY <1>4 DEF Check!Extended
    <2> HIDE DEF t
    <2> QED BY <2>2, <2>3
<1> QED BY <1>3, <1>4

\* There is such a function, and its values are texts.
LEMMA SplitStep ==
    ASSUME NEW s \in Text
    PROVE  /\ Splitting(s)[0] = << << >> >>
           /\ \A i \in 1 .. Len(s) : Splitting(s)[i] = Check!Extended(Splitting(s)[i - 1], s[i])
           /\ \A i \in 0 .. Len(s) : Splitting(s)[i] \in Seq(Text) /\ Len(Splitting(s)[i]) >= 1
           /\ Check!Split(s) = Splitting(s)[Len(s)]
<1> DEFINE X == {t \in Seq(Text) : Len(t) >= 1}
           G == [p \in (1 .. Len(s)) \X X |-> Check!Extended(p[2], s[p[1]])]
<1>1. Len(s) \in Nat /\ \A i \in 1 .. Len(s) : s[i] \in Chars \cup {"|"}
    BY DEF Text
<1>2. << << >> >> \in X
    <2>1. << >> \in Text
        BY DEF Text
    <2> HIDE DEF Text
    <2> QED BY <2>1
<1>3. ASSUME NEW i \in 1 .. Len(s), NEW t \in X PROVE Check!Extended(t, s[i]) \in X
    BY <1>1, ExtendedTexts
<1> HIDE DEF X
<1>4. ASSUME NEW i \in 1 .. Len(s), NEW t \in X
      PROVE  G[<<i, t>>] = Check!Extended(t, s[i])
    OBVIOUS
<1>5. G \in [(1 .. Len(s)) \X X -> X]
    BY <1>3
<1> HIDE DEF G
<1>6. PICK f : Iterate(f, X, << << >> >>, Len(s), G)
    BY <1>1, <1>2, <1>5, Iterates
<1>7. \A i \in 0 .. Len(s) : f[i] = IF i = 0 THEN << << >> >> ELSE Check!Extended(f[i - 1], s[i])
    <2>1. ASSUME NEW i \in 1 .. Len(s) PROVE f[i] = Check!Extended(f[i - 1], s[i])
        <3>1. i - 1 \in 0 .. Len(s) /\ f[i - 1] \in X
            BY <1>1, <1>6 DEF Iterate
        <3> QED BY <1>4, <1>6, <3>1 DEF Iterate
    <2>2. f[0] = << << >> >> /\ \A i \in 0 .. Len(s) : i # 0 => i \in 1 .. Len(s)
        BY <1>1, <1>6 DEF Iterate
    <2> QED BY <2>1, <2>2, Zenon
<1>8. Splits(f, s)
    <2>1. f = [i \in 0 .. Len(s) |-> f[i]]
        BY <1>6 DEF Iterate
    <2>2. [i \in 0 .. Len(s) |-> f[i]]
            = [i \in 0 .. Len(s) |-> IF i = 0 THEN << << >> >> ELSE Check!Extended(f[i - 1], s[i])]
        BY <1>7, Zenon
    <2> QED BY <2>1, <2>2, Zenon DEF Splits
<1>9. Splits(Splitting(s), s)
    BY <1>8, Zenon DEF Splitting
<1> DEFINE h == Splitting(s)
           S == {i \in 0 .. Len(s) : h[i] \in X}
<1>10. Check!Split(s) = h[Len(s)]
    BY Zenon DEF Check!Split, Splitting, Splits
<1>11. \A i \in 0 .. Len(s) : h[i] = IF i = 0 THEN << << >> >> ELSE Check!Extended(h[i - 1], s[i])
    BY <1>9, Zenon DEF Splits
<1> HIDE DEF h
<1>12. h[0] = << << >> >> /\ \A i \in 1 .. Len(s) : h[i] = Check!Extended(h[i - 1], s[i])
    BY <1>1, <1>11
<1>13. 0 \in S
    BY <1>1, <1>2, <1>12
<1>14. ASSUME NEW i \in 0 .. Len(s) - 1, i \in S PROVE i + 1 \in S
    <2>1. i + 1 \in 1 .. Len(s) /\ i + 1 \in 0 .. Len(s) /\ (i + 1) - 1 = i
        BY <1>1
    <2>2. h[i + 1] = Check!Extended(h[i], s[i + 1])
        BY <1>12, <2>1
    <2> QED BY <1>3, <1>14, <2>1, <2>2
<1> HIDE DEF S
<1>15. \A i \in 0 .. Len(s) : i \in S
    BY <1>1, <1>13, <1>14, Upwards
<1>16. \A i \in 0 .. Len(s) : h[i] \in Seq(Text) /\ Len(h[i]) >= 1
    BY <1>15 DEF S, X
<1> QED BY <1>10, <1>12, <1>16 DEF h

\* What is posted of the fields.
Post == IF fill THEN Check!Join(Check!Filled(typed)) ELSE typed[1]

\* The fields, what is stored of them, and the two verdicts on that.
CheckKept ==
    /\ {fill, verdict, detail} \subseteq BOOLEAN
    /\ right \in Seq(Seq(Chars)) /\ typed \in Seq(Seq(Chars))
    /\ Len(right) >= 1 /\ Len(typed) = Len(right) /\ (~fill => Len(right) = 1)
    /\ judging \in {"typed", "posted", "saved", "shown"}
    /\ judging # "typed" => stored = Post
    /\ verdict <=> Check!Judged /\ Check!Judge(stored)
    /\ judging = "shown" => (detail <=> Check!JudgeShown(stored))

\* Fields are filled in with texts, one for each gap.
LEMMA FieldsAreTexts ==
    ASSUME NEW n \in DOMAIN MaxLength, NEW t \in Check!Fields(n)
    PROVE  t \in Seq(Seq(Chars)) /\ Len(t) = n /\ n \in Nat /\ n >= 1
<1>1. n \in Nat /\ n >= 1 /\ MaxLength[n] \in Nat
    BY SeparateAssumption DEF Check!LengthsAssumption
<1>2. Check!Texts(MaxLength[n]) \subseteq Seq(Chars)
    <2>1. SUFFICES ASSUME NEW s \in Check!Texts(MaxLength[n]) PROVE s \in Seq(Chars)
        OBVIOUS
    <2>2. PICK m \in 0 .. MaxLength[n] : s \in [1 .. m -> Chars]
        BY DEF Check!Texts, Check!BoundedSeq, Check!SeqOf
    <2> QED BY <1>1, <2>2
<1>3. t \in [1 .. n -> Seq(Chars)]
    BY <1>2 DEF Check!Fields
<1> QED BY <1>1, <1>3

\* The judgements of a text that stays, of fields that stay.
LEMMA JudgementsStay ==
    ASSUME UNCHANGED <<fill, right, typed>>
    PROVE  /\ Post' = Post
           /\ UNCHANGED stored => (Check!Judge(stored)' <=> Check!Judge(stored))
           /\ UNCHANGED stored => (Check!JudgeShown(stored)' <=> Check!JudgeShown(stored))
<1>1. Post' = Post
    BY Zenon DEF Post
<1>2. ASSUME UNCHANGED stored
      PROVE  Check!Judge(stored)' <=> Check!Judge(stored)
    BY <1>2, Zenon DEF Check!Judge, Check!CheckFillAnswer
<1>3. ASSUME UNCHANGED stored
      PROVE  Check!JudgeShown(stored)' <=> Check!JudgeShown(stored)
    BY <1>2, <1>3, Zenon DEF Check!JudgeShown
<1> QED BY <1>1, <1>2, <1>3

\* Fields, stored text and verdicts stay in step.
LEMMA CheckInvariant == Check!Spec => []CheckKept
<1>1. ASSUME Check!Init PROVE CheckKept
    <2>1. PICK n \in DOMAIN MaxLength :
            /\ fill \in IF n = 1 THEN BOOLEAN ELSE {TRUE}
            /\ right \in Check!Fields(n) /\ typed \in Check!Fields(n)
        BY <1>1 DEF Check!Init
    <2>2. /\ right \in Seq(Seq(Chars)) /\ typed \in Seq(Seq(Chars))
          /\ Len(right) = n /\ Len(typed) = n /\ n \in Nat /\ n >= 1
        BY <2>1, FieldsAreTexts
    <2>3. verdict = FALSE /\ detail = FALSE /\ judging = "typed"
        BY <1>1 DEF Check!Init
    <2>4. ~fill => n = 1
        BY <2>1
    <2>5. {fill, verdict, detail} \subseteq BOOLEAN
        BY <2>1, <2>3
    <2>6. verdict <=> Check!Judged /\ Check!Judge(stored)
        BY <2>3 DEF Check!Judged
    <2> QED BY <2>2, <2>3, <2>4, <2>5, <2>6 DEF CheckKept
<1>2. ASSUME CheckKept, [Check!Next]_(Check!vars) PROVE CheckKept'
    <2>1. UNCHANGED <<fill, right, typed>> /\ Post' = Post
        <3>1. UNCHANGED <<fill, right, typed>>
            BY <1>2 DEF Check!Next, Check!Post, Check!SaveAnswer, Check!GetQuizResultData, Check!vars
        <3> QED BY <3>1, JudgementsStay
    <2>2. /\ {fill} \subseteq BOOLEAN
          /\ right \in Seq(Seq(Chars)) /\ typed \in Seq(Seq(Chars))
          /\ Len(right) >= 1 /\ Len(typed) = Len(right) /\ (~fill => Len(right) = 1)
        BY <1>2 DEF CheckKept
    <2>3. /\ verdict \in BOOLEAN /\ detail \in BOOLEAN
          /\ judging # "typed" => stored = Post
          /\ verdict <=> judging \in {"saved", "shown"} /\ Check!Judge(stored)
          /\ judging = "shown" => (detail <=> Check!JudgeShown(stored))
        BY <1>2 DEF CheckKept, Check!Judged
    <2>4. SUFFICES
            /\ verdict' \in BOOLEAN /\ detail' \in BOOLEAN
            /\ judging' \in {"typed", "posted", "saved", "shown"}
            /\ judging' # "typed" => stored' = Post
            /\ verdict' <=> judging' \in {"saved", "shown"} /\ Check!Judge(stored)'
            /\ judging' = "shown" => (detail' <=> Check!JudgeShown(stored)')
        <3>1. Post' = Post /\ fill' = fill /\ right' = right /\ typed' = typed
            BY <2>1
        <3> QED BY <2>2, <2>4, <3>1 DEF CheckKept, Check!Judged
    <2>5. CASE Check!Post
        <3>1. UNCHANGED <<verdict, detail>> /\ judging = "typed" /\ judging' = "posted" /\ stored' = Post
            BY <2>5, Zenon DEF Check!Post, Post
        <3> QED BY <2>3, <3>1
    <2>6. CASE Check!SaveAnswer
        <3>1. UNCHANGED <<stored, detail>> /\ judging = "posted" /\ judging' = "saved"
            BY <2>6 DEF Check!SaveAnswer
        <3>2. verdict' = Check!Judge(stored)
            BY <2>6 DEF Check!SaveAnswer
        <3>3. Check!Judge(stored) \in BOOLEAN
            BY Zenon DEF Check!Judge, Check!CheckFillAnswer
        <3>4. verdict' \in BOOLEAN /\ (verdict' <=> Check!Judge(stored))
            BY <3>2, <3>3, Zenon
        <3>5. Check!Judge(stored)' <=> Check!Judge(stored)
            BY <2>1, <3>1, JudgementsStay
        <3> QED BY <2>3, <3>1, <3>4, <3>5
    <2>7. CASE Check!GetQuizResultData
        <3>1. UNCHANGED <<stored, verdict>> /\ judging = "saved" /\ judging' = "shown"
            BY <2>7 DEF Check!GetQuizResultData
        <3>2. detail' = Check!JudgeShown(stored)
            BY <2>7 DEF Check!GetQuizResultData
        <3>3. Check!JudgeShown(stored) \in BOOLEAN
            BY Zenon DEF Check!JudgeShown
        <3>4. detail' \in BOOLEAN /\ (detail' <=> Check!JudgeShown(stored))
            BY <3>2, <3>3, Zenon
        <3>5. /\ Check!Judge(stored)' <=> Check!Judge(stored)
              /\ Check!JudgeShown(stored)' <=> Check!JudgeShown(stored)
            BY <2>1, <3>1, JudgementsStay
        <3> QED BY <2>3, <3>1, <3>4, <3>5
    <2>8. CASE UNCHANGED Check!vars
        <3>1. UNCHANGED <<stored, verdict, detail, judging>>
            BY <2>8 DEF Check!vars
        <3>2. /\ Check!Judge(stored)' <=> Check!Judge(stored)
              /\ Check!JudgeShown(stored)' <=> Check!JudgeShown(stored)
            BY <2>1, <3>1, JudgementsStay
        <3>3. judging \in {"typed", "posted", "saved", "shown"}
            BY <1>2 DEF CheckKept
        <3> QED BY <2>3, <3>1, <3>2, <3>3
    <2> QED BY <1>2, <2>5, <2>6, <2>7, <2>8 DEF Check!Next
<1> QED BY <1>1, <1>2, PTL DEF Check!Spec

\* Nothing is what nothing becomes, and it splits into one text, of nothing.
LEMMA NothingSplits ==
    /\ Check!NormalizeAnswer(<< >>) = << >>
    /\ Check!Split(<< >>) = << << >> >>
<1>1. << >> \in Text /\ Len(<< >>) = 0
    BY DEF Text
<1>2. Check!Split(<< >>) = << << >> >>
    BY <1>1, SplitStep
<1>3. \A drop, from : Check!Trim(<< >>, drop, from) = << >>
    BY DEF Check!Trim
<1>4. Check!ToLower(<< >>) = << >>
    BY DEF Check!ToLower
<1> QED BY <1>2, <1>3, <1>4 DEF Check!NormalizeAnswer

\* VerdictsAgree: SaveAnswer and the result page judge a stored answer alike,
\* unless nothing was answered and nothing is right.
THEOREM JudgedAlike == Check!Spec => []VerdictsAgree
<1>1. ASSUME CheckKept, judging = "shown",
             stored = << >> => \E g \in DOMAIN right : Check!NormalizeAnswer(right[g]) # << >>
      PROVE  verdict = detail
    <2>1. /\ verdict \in BOOLEAN /\ detail \in BOOLEAN
          /\ verdict <=> Check!Judge(stored)
          /\ detail <=> Check!JudgeShown(stored)
        BY <1>1 DEF CheckKept, Check!Judged
    <2>2. CASE stored # << >>
        <3>1. verdict <=> detail
            BY <2>1, <2>2 DEF Check!JudgeShown
        <3> QED BY <2>1, <3>1, Zenon
    <2>3. CASE stored = << >>
        <3>1. ~detail
            BY <2>1, <2>3 DEF Check!JudgeShown
        <3>2. PICK g \in DOMAIN right : Check!NormalizeAnswer(right[g]) # << >>
            BY <1>1, <2>3
        <3>3. right \in Seq(Seq(Chars)) /\ g \in 1 .. Len(right) /\ (~fill => Len(right) = 1)
            BY <1>1, <3>2 DEF CheckKept
        <3>4. ASSUME fill, Check!Judge(stored) PROVE FALSE
            <4>1. /\ Len(<< << >> >>) = Len(right)
                  /\ \A k \in DOMAIN right :
                        Check!NormalizeAnswer(<< << >> >>[k]) = Check!NormalizeAnswer(right[k])
                BY <2>3, <3>4, NothingSplits DEF Check!Judge, Check!CheckFillAnswer
            <4>2. g = 1
                BY <3>3, <4>1
            <4>3. Check!NormalizeAnswer(<< >>) = Check!NormalizeAnswer(right[g])
                BY <3>2, <4>1, <4>2
            <4> QED BY <3>2, <4>3, NothingSplits
        <3>5. ASSUME ~fill, Check!Judge(stored) PROVE FALSE
            <4>1. g = 1
                BY <3>3, <3>5
            <4>2. Check!NormalizeAnswer(<< >>) = Check!NormalizeAnswer(right[g])
                BY <2>3, <3>5, <4>1 DEF Check!Judge
            <4> QED BY <3>2, <4>2, NothingSplits
        <3>6. ~verdict
            BY <2>1, <3>4, <3>5
        <3> QED BY <2>1, <3>1, <3>6, Zenon
    <2> QED BY <2>2, <2>3
<1>2. CheckKept => VerdictsAgree
    BY <1>1 DEF VerdictsAgree, Check!VerdictsAgree
<1> QED BY <1>2, CheckInvariant, PTL

\* A character in small.
Low(c) == IF c = "A" THEN "a" ELSE c

\* Texts that differ in case only differ in no character but those.
LEMMA LowerAlike ==
    ASSUME NEW s \in Seq(Chars), NEW t \in Seq(Chars), Check!ToLower(s) = Check!ToLower(t)
    PROVE  /\ Len(s) \in Nat /\ DOMAIN s = 1 .. Len(s) /\ Len(t) = Len(s) /\ DOMAIN t = 1 .. Len(s)
           /\ \A i \in 1 .. Len(s) : Low(s[i]) = Low(t[i])
<1> DEFINE n == Len(s)
<1>1. n \in Nat /\ DOMAIN s = 1 .. n /\ Len(t) = n /\ DOMAIN t = 1 .. n
    <2>1. DOMAIN Check!ToLower(s) = DOMAIN s /\ DOMAIN Check!ToLower(t) = DOMAIN t
        BY DEF Check!ToLower
    <2>4. /\ DOMAIN s = 1 .. Len(s) /\ Len(s) \in Nat
          /\ DOMAIN t = 1 .. Len(t) /\ Len(t) \in Nat
        OBVIOUS
    <2>2. 1 .. Len(s) = 1 .. Len(t) /\ Len(s) \in Nat /\ Len(t) \in Nat
        BY <2>1, <2>4, Zenon
    <2>3. Len(s) = Len(t)
        <3>1. \A k \in Nat \ {0} : k \in 1 .. Len(s) <=> k \in 1 .. Len(t)
            BY <2>2
        <3>2. /\ Len(s) # 0 => Len(s) <= Len(t)
              /\ Len(t) # 0 => Len(t) <= Len(s)
            BY <2>2, <3>1
        <3> QED BY <2>2, <3>2
    <2> QED BY <2>3, <2>4, Zenon
<1>2. \A i \in 1 .. n : Low(s[i]) = Low(t[i])
    <2>1. \A i \in 1 .. n : Check!ToLower(s)[i] = Low(s[i]) /\ Check!ToLower(t)[i] = Low(t[i])
        BY <1>1 DEF Check!ToLower, Low
    <2> QED BY <2>1
<1> QED BY <1>1, <1>2

\* Such texts are trimmed alike.
LEMMA TrimmedAlike ==
    ASSUME NEW s \in Seq(Chars), NEW t \in Seq(Chars), Check!ToLower(s) = Check!ToLower(t)
    PROVE  Check!ToLower(Check!Trim(s, {" "}, "both")) = Check!ToLower(Check!Trim(t, {" "}, "both"))
<1> DEFINE n == Len(s)
           kept == {i \in 1 .. n : s[i] # " "}
<1>1. n \in Nat /\ DOMAIN s = 1 .. n /\ Len(t) = n /\ DOMAIN t = 1 .. n
    BY LowerAlike
<1>2. \A i \in 1 .. n : Low(s[i]) = Low(t[i])
    BY LowerAlike
<1>3. {i \in DOMAIN s : s[i] \notin {" "}} = kept /\ {i \in DOMAIN t : t[i] \notin {" "}} = kept
    <2>1. \A i \in 1 .. n : s[i] = " " <=> t[i] = " "
        BY <1>2 DEF Low
    <2> QED BY <1>1, <2>1
<1> HIDE DEF kept
<1>4. CASE kept = {}
    BY <1>3, <1>4 DEF Check!Trim
<1>5. CASE kept # {}
    <2> DEFINE a == Check!Min(kept)
               b == Check!Max(kept)
    <2>1. kept \subseteq Nat /\ kept \subseteq 0 .. n /\ kept \subseteq 1 .. n
        <3>1. kept \subseteq 1 .. n
            BY Zenon DEF kept
        <3>2. 1 .. n \subseteq 0 .. n /\ 0 .. n \subseteq Nat
            BY <1>1
        <3> QED BY <3>1, <3>2, Zenon
    <2>2. a \in kept
        <3>1. \E m \in kept : \A k \in kept : m <= k
            BY <1>5, <2>1, LeastNumber
        <3> QED BY <3>1 DEF Check!Min
    <2>3. b \in kept
        <3>1. \E m \in kept : \A k \in kept : m >= k
            BY <1>1, <1>5, <2>1, GreatestNumber
        <3> QED BY <3>1 DEF Check!Max
    <2>4. /\ Check!Trim(s, {" "}, "both") = SubSeq(s, a, b)
          /\ Check!Trim(t, {" "}, "both") = SubSeq(t, a, b)
        BY <1>3, <1>5, Zenon DEF Check!Trim
    <2> HIDE DEF a, b
    <2>5. /\ DOMAIN SubSeq(s, a, b) = 1 .. b - a + 1 /\ DOMAIN SubSeq(t, a, b) = 1 .. b - a + 1
          /\ \A i \in 1 .. b - a + 1 : /\ SubSeq(s, a, b)[i] = s[a + i - 1]
                                       /\ SubSeq(t, a, b)[i] = t[a + i - 1]
        BY <1>1, <2>1, <2>2, <2>3
    <2>6. \A i \in 1 .. b - a + 1 : Low(SubSeq(s, a, b)[i]) = Low(SubSeq(t, a, b)[i])
        <3>1. \A i \in 1 .. b - a + 1 : a + i - 1 \in 1 .. n
            BY <1>1, <2>1, <2>2, <2>3
        <3> QED BY <1>2, <2>5, <3>1
    <2>7. /\ Check!ToLower(SubSeq(s, a, b)) = [i \in 1 .. b - a + 1 |-> Low(SubSeq(s, a, b)[i])]
          /\ Check!ToLower(SubSeq(t, a, b)) = [i \in 1 .. b - a + 1 |-> Low(SubSeq(t, a, b)[i])]
        BY <2>5, Zenon DEF Check!ToLower, Low
    <2> QED BY <2>4, <2>6, <2>7
<1> QED BY <1>4, <1>5

\* The first characters of a text are split as if they were all.
LEMMA SplitPrefix ==
    ASSUME NEW s \in Text, NEW u \in Text, NEW i \in 0 .. Len(s)
    PROVE  Splitting(s \o u)[i] = Splitting(s)[i]
<1> DEFINE S == {k \in 0 .. Len(s) : Splitting(s \o u)[k] = Splitting(s)[k]}
<1>1. /\ Len(s) \in Nat /\ Len(u) \in Nat /\ s \o u \in Text /\ Len(s \o u) = Len(s) + Len(u)
      /\ \A k \in 1 .. Len(s) : (s \o u)[k] = s[k]
    BY DEF Text
<1>2. 0 \in S
    BY <1>1, SplitStep
<1>3. ASSUME NEW k \in 0 .. Len(s) - 1, k \in S PROVE k + 1 \in S
    <2>1. /\ k + 1 \in 0 .. Len(s) /\ k + 1 \in 1 .. Len(s) /\ k + 1 \in 1 .. Len(s \o u)
          /\ (k + 1) - 1 = k
        BY <1>1
    <2>2. Splitting(s)[k + 1] = Check!Extended(Splitting(s)[k], s[k + 1])
        BY <2>1, SplitStep
    <2>3. Splitting(s \o u)[k + 1] = Check!Extended(Splitting(s \o u)[k], (s \o u)[k + 1])
        BY <1>1, <2>1, SplitStep
    <2> QED BY <1>1, <1>3, <2>1, <2>2, <2>3
<1> HIDE DEF S
<1>4. \A k \in 0 .. Len(s) : k \in S
    BY <1>1, <1>2, <1>3, Upwards
<1> QED BY <1>4 DEF S

\* A bar begins another text, ...
LEMMA SplitBar ==
    ASSUME NEW s \in Text
    PROVE  /\ s \o <<"|">> \in Text
           /\ Check!Split(s \o <<"|">>) = Append(Check!Split(s), << >>)
<1> DEFINE t == s \o <<"|">>
           n == Len(s)
<1>1. /\ <<"|">> \in Text /\ t \in Text /\ n \in Nat /\ Len(t) = n + 1 /\ t[n + 1] = "|"
    BY DEF Text
<1>2. n + 1 \in 1 .. Len(t) /\ (n + 1) - 1 = n /\ n \in 0 .. n
    BY <1>1
<1> HIDE DEF n
<1>3. Splitting(t)[n] = Splitting(s)[n]
    BY <1>1, <1>2, SplitPrefix DEF n
<1> HIDE DEF t
<1>4. Splitting(t)[n + 1] = Check!Extended(Splitting(t)[n], "|")
    BY <1>1, <1>2, SplitStep
<1>5. Check!Split(t) = Splitting(t)[n + 1] /\ Check!Split(s) = Splitting(s)[n]
    BY <1>1, SplitStep DEF n
<1> QED BY <1>1, <1>3, <1>4, <1>5 DEF Check!Extended, t

\* ... and what is no bar extends the last one.
LEMMA SplitMore ==
    ASSUME NEW s \in Text, NEW u \in Text, \A i \in 1 .. Len(u) : u[i] # "|",
           NEW x, x = Check!Split(s)
    PROVE  /\ s \o u \in Text
           /\ x \in Seq(Text) /\ Len(x) >= 1
           /\ Check!Split(s \o u) = [x EXCEPT ![Len(x)] = x[Len(x)] \o u]
<1> DEFINE t == s \o u
           n == Len(s)
           l == Len(x)
           upTo(k) == [x EXCEPT ![l] = x[l] \o SubSeq(u, 1, k)]
           S == {k \in 0 .. Len(u) : Splitting(t)[n + k] = upTo(k)}
<1>1. /\ t \in Text /\ n \in Nat /\ Len(u) \in Nat /\ Len(t) = n + Len(u)
      /\ \A k \in 1 .. Len(u) : t[n + k] = u[k] /\ u[k] \in Chars \cup {"|"}
    BY DEF Text
<1>2. x \in Seq(Text) /\ l \in Nat /\ l >= 1 /\ x = Splitting(s)[n] /\ x[l] \in Text
    <2>1. x = Splitting(s)[n] /\ n \in 0 .. Len(s)
        BY <1>1, SplitStep
    <2>2. x \in Seq(Text) /\ Len(x) >= 1
        BY <2>1, SplitStep
    <2> HIDE DEF Text
    <2> QED BY <2>1, <2>2
<1> HIDE DEF t, n, l
<1>3. x \in [1 .. l -> Text] /\ l \in 1 .. l
    BY <1>2 DEF l
<1>4. x[l] \in Seq(Chars \cup {"|"}) /\ u \in Seq(Chars \cup {"|"})
    BY <1>2 DEF Text
<1>5. 0 \in S
    <2>1. SubSeq(u, 1, 0) = << >> /\ x[l] \o << >> = x[l]
        BY <1>4
    <2>2. upTo(0) = x
        BY <1>3, <2>1
    <2>3. Splitting(t)[n + 0] = x
        <3>1. n + 0 = n /\ n \in 0 .. n
            BY <1>1
        <3>2. Splitting(s \o u)[n] = Splitting(s)[n]
            BY <3>1, SplitPrefix DEF n
        <3> QED BY <1>2, <3>1, <3>2 DEF t
    <2> QED BY <1>1, <2>2, <2>3, SMTT(30)
<1>6. ASSUME NEW k \in 0 .. Len(u) - 1, k \in S PROVE k + 1 \in S
    <2>1. /\ k + 1 \in 1 .. Len(u) /\ k + 1 \in 0 .. Len(u)
          /\ n + (k + 1) \in 1 .. Len(t) /\ (n + (k + 1)) - 1 = n + k
        BY <1>1
    <2>2. Splitting(t)[n + (k + 1)] = Check!Extended(Splitting(t)[n + k], u[k + 1])
        <3>1. PICK j \in 1 .. Len(t) : j = n + (k + 1) /\ j - 1 = n + k /\ t[j] = u[k + 1]
            BY <1>1, <2>1
        <3>2. Splitting(t)[j] = Check!Extended(Splitting(t)[j - 1], t[j])
            BY <1>1, SplitStep
        <3> QED BY <3>1, <3>2
    <2>3. Splitting(t)[n + k] = upTo(k)
        BY <1>6
    <2>4. SubSeq(u, 1, k + 1) = Append(SubSeq(u, 1, k), u[k + 1])
        BY <1>4, <2>1
    <2>5. Append(x[l] \o SubSeq(u, 1, k), u[k + 1]) = x[l] \o SubSeq(u, 1, k + 1)
        <3>1. PICK c \in Chars \cup {"|"} : c = u[k + 1]
            BY <1>1, <2>1
        <3>2. PICK q \in Seq(Chars \cup {"|"}) : q = SubSeq(u, 1, k)
            <4> DEFINE T == Chars \cup {"|"}
            <4>1. u \in Seq(T) /\ 1 \in 1 .. Len(u) + 1 /\ k \in 0 .. Len(u)
                BY <1>1, <1>4, <2>1
            <4> HIDE DEF T
            <4>2. \A i \in 1 .. k : u[i] \in T
                BY <4>1
            <4>3. SubSeq(u, 1, k) \in Seq(T)
                BY <4>1, <4>2, SubSeqProperties
            <4> QED BY <4>3 DEF T
        <3>3. PICK p \in Seq(Chars \cup {"|"}) : p = x[l]
            BY <1>4
        <3>4. Append(p \o q, c) = p \o Append(q, c)
            BY SMTT(30)
        <3> QED BY <2>4, <3>1, <3>2, <3>3, <3>4
    <2>6. Len(upTo(k)) = l /\ upTo(k)[l] = x[l] \o SubSeq(u, 1, k)
        <3>1. x[l] \o SubSeq(u, 1, k) \in Text
            BY <1>4, <2>1 DEF Text
        <3>2. upTo(k) \in [1 .. l -> Text] /\ upTo(k)[l] = x[l] \o SubSeq(u, 1, k)
            BY <1>3, <3>1
        <3>3. PICK y : y = upTo(k)
            OBVIOUS
        <3>4. y \in [1 .. l -> Text] /\ l \in Nat
            BY <1>2, <3>2, <3>3
        <3> HIDE DEF Text
        <3>5. Len(y) = l
            BY <3>4
        <3> QED BY <3>2, <3>3, <3>5
    <2>7. Check!Extended(upTo(k), u[k + 1])
            = [upTo(k) EXCEPT ![l] = Append(x[l] \o SubSeq(u, 1, k), u[k + 1])]
        BY <2>1, <2>6 DEF Check!Extended
    <2>8. [upTo(k) EXCEPT ![l] = x[l] \o SubSeq(u, 1, k + 1)] = upTo(k + 1)
        BY <1>3
    <2> QED BY <2>1, <2>2, <2>3, <2>5, <2>7, <2>8
<1> HIDE DEF S
<1>7. \A k \in 0 .. Len(u) : k \in S
    BY <1>1, <1>5, <1>6, Upwards
<1>8. Splitting(t)[n + Len(u)] = upTo(Len(u)) /\ SubSeq(u, 1, Len(u)) = u
    <2>1. Len(u) \in 0 .. Len(u) /\ Len(u) \in S
        BY <1>1, <1>7
    <2>2. Splitting(t)[n + Len(u)] = upTo(Len(u))
        BY <2>1, Zenon DEF S
    <2>3. SubSeq(u, 1, Len(u)) = u
        BY <1>4
    <2> QED BY <2>2, <2>3
<1>9. Check!Split(t) = Splitting(t)[Len(t)]
    BY <1>1, SplitStep
<1> QED BY <1>1, <1>2, <1>8, <1>9 DEF t, l

\* The texts that Join concatenates: every gap but the first begins with a bar.
Parted(t) == [g \in 1 .. Len(t) |-> IF g = 1 THEN t[g] ELSE <<"|">> \o t[g]]

\* These are texts, one for each gap.
LEMMA PartedTexts ==
    ASSUME NEW t \in Seq(Seq(Chars))
    PROVE  /\ Len(t) \in Nat /\ DOMAIN t = 1 .. Len(t)
           /\ \A g \in 1 .. Len(t) : t[g] \in Seq(Chars) /\ t[g] \in Text /\ Parted(t)[g] \in Text
           /\ Parted(t) \in Seq(Text) /\ Len(Parted(t)) = Len(t)
<1> DEFINE n == Len(t)
           ss == Parted(t)
<1>1. /\ n \in Nat /\ DOMAIN t = 1 .. n /\ \A g \in 1 .. n : t[g] \in Seq(Chars)
      /\ <<"|">> \in Text
    BY DEF Text
<1>2. \A g \in 1 .. n : t[g] \in Text
    BY <1>1, SeqMonotonic DEF Text
<1>3. ASSUME NEW g \in 1 .. n PROVE ss[g] \in Text
    <2>1. ss[g] = IF g = 1 THEN t[g] ELSE <<"|">> \o t[g]
        BY <1>1 DEF Parted
    <2>2. <<"|">> \o t[g] \in Text
        BY <1>1, <1>2, <1>3, ConcatProperties DEF Text
    <2> QED BY <1>2, <2>1, <2>2
<1>4. ss \in Seq(Text) /\ Len(ss) = n
    <2>1. ss = [g \in 1 .. n |-> ss[g]]
        BY Zenon DEF Parted
    <2> HIDE DEF ss, Text
    <2>2. ss \in [1 .. n -> Text]
        BY <1>3, <2>1
    <2>3. n \in Nat
        BY <1>1
    <2> HIDE DEF n
    <2> QED BY <2>2, <2>3
<1> QED BY <1>1, <1>2, <1>3, <1>4

\* A bar between two texts goes with either.
LEMMA BarBetween ==
    ASSUME NEW p \in Text, NEW u \in Text
    PROVE  (p \o <<"|">>) \o u = p \o (<<"|">> \o u)
<1> DEFINE T == Chars \cup {"|"}
<1>1. p \in Seq(T) /\ u \in Seq(T) /\ <<"|">> \in Seq(T)
    BY DEF Text
<1> HIDE DEF T
<1> QED BY <1>1, ConcatAssociative

\* Joining starts with the first gap and adds a bar and the next gap each time.
LEMMA JoinMore ==
    ASSUME NEW t \in Seq(Seq(Chars)), NEW k \in 0 .. Len(t) - 1
    PROVE  /\ FlatTo(Parted(t), Len(t), k) \in Text
           /\ k = 0 => FlatTo(Parted(t), Len(t), k + 1) = t[1]
           /\ k # 0 => FlatTo(Parted(t), Len(t), k + 1)
                            = (FlatTo(Parted(t), Len(t), k) \o <<"|">>) \o t[k + 1]
<1> DEFINE n == Len(t)
           T == Chars \cup {"|"}
           p == FlatTo(Parted(t), n, k)
<1>1. /\ n \in Nat /\ \A g \in 1 .. n : t[g] \in Seq(T) /\ Parted(t)[g] \in Seq(T)
      /\ <<"|">> \in Seq(T)
    BY PartedTexts DEF Text
<1>2. k + 1 \in 1 .. n /\ k \in 0 .. n - 1
    BY <1>1
<1>3. t[k + 1] \in Seq(T)
    BY <1>1, <1>2
<1>4. Parted(t)[k + 1] = IF k + 1 = 1 THEN t[k + 1] ELSE <<"|">> \o t[k + 1]
    BY <1>2, Zenon DEF Parted
<1> HIDE DEF T, p
<1>5. p \in Seq(T) /\ FlatTo(Parted(t), n, k + 1) = p \o Parted(t)[k + 1]
    BY <1>1, <1>2, FlatToStep DEF p
<1>6. CASE k = 0
    <2>1. Parted(t)[k + 1] = t[1] /\ t[1] \in Seq(T)
        BY <1>3, <1>4, <1>6
    <2>2. p = << >>
        BY <1>6 DEF FlatTo, p
    <2>3. << >> \o t[1] = t[1]
        BY <2>1, ConcatEmptySeq
    <2> QED BY <1>5, <1>6, <2>1, <2>2, <2>3 DEF T, Text, p
<1>7. CASE k # 0
    <2>1. Parted(t)[k + 1] = <<"|">> \o t[k + 1]
        BY <1>2, <1>4, <1>7
    <2>2. (p \o <<"|">>) \o t[k + 1] = p \o (<<"|">> \o t[k + 1])
        BY <1>3, <1>5, BarBetween DEF T, Text
    <2> QED BY <1>5, <1>7, <2>1, <2>2 DEF T, Text, p
<1> QED BY <1>6, <1>7

\* The texts that are concatenated, step by step.
LEMMA CheckFlattens ==
    ASSUME NEW T, NEW t \in Seq(T)
    PROVE  Check!FlattenSeq(t) = FlatTo(t, Len(t), Len(t))
<1> DEFINE n == Len(t)
<1>1. n \in Nat /\ (n = 0 => t = << >>)
    OBVIOUS
<1>2. Check!FlattenSeq(t) = IF Len(t) = 0 THEN t ELSE Flat(t, Len(t))[Len(t)]
    BY Zenon DEF Check!FlattenSeq, Flat, Flattens
<1>3. Check!FlattenSeq(t) = FlatTo(t, n, n)
    BY <1>1, <1>2, Zenon DEF FlatTo
<1> QED BY <1>3

\* Join concatenates the parts.
LEMMA JoinFlattens ==
    ASSUME NEW t \in Seq(Seq(Chars))
    PROVE  Check!Join(t) = FlatTo(Parted(t), Len(t), Len(t))
<1> DEFINE ss == Parted(t)
           n == Len(t)
<1>1. ss \in Seq(Text) /\ Len(ss) = n /\ DOMAIN t = 1 .. n
    BY PartedTexts
<1>2. Check!Join(t) = Check!FlattenSeq(ss)
    BY <1>1, Zenon DEF Check!Join, Parted
<1> HIDE DEF ss
<1>3. Check!FlattenSeq(ss) = FlatTo(ss, Len(ss), Len(ss))
    BY <1>1, CheckFlattens
<1> QED BY <1>1, <1>2, <1>3 DEF ss

\* Fields without bars, joined and split again, are the same fields.
LEMMA SplitJoin ==
    ASSUME NEW t \in Seq(Seq(Chars)), Len(t) >= 1,
           \A g \in 1 .. Len(t) : \A i \in 1 .. Len(t[g]) : t[g][i] # "|"
    PROVE  Check!Split(Check!Join(t)) = t
<1> DEFINE n == Len(t)
           J(k) == FlatTo(Parted(t), n, k)
           S == {k \in 0 .. n : k # 0 => J(k) \in Text /\ Check!Split(J(k)) = SubSeq(t, 1, k)}
<1>1. /\ n \in Nat /\ n >= 1 /\ DOMAIN t = 1 .. n
      /\ \A g \in 1 .. n : t[g] \in Text
    BY PartedTexts
<1>2. t \in Seq(Seq(Chars)) /\ \A g \in 1 .. n : t[g] \in Seq(Chars)
    BY <1>1
<1>3. << >> \in Text /\ \A u \in Text : << >> \o u = u
    BY ConcatEmptySeq DEF Text
<1> HIDE DEF J
<1>4. 0 \in S
    BY <1>1
<1>5. ASSUME NEW k \in 0 .. n - 1, k \in S PROVE k + 1 \in S
    <2> DEFINE u == t[k + 1]
    <2>1. /\ k + 1 \in 1 .. n /\ k + 1 \in 0 .. n /\ k + 1 # 0
          /\ u \in Text /\ \A i \in 1 .. Len(u) : u[i] # "|"
        BY <1>1
    <2>2. /\ J(k) \in Text
          /\ k = 0 => J(k + 1) = t[1]
          /\ k # 0 => J(k + 1) = (J(k) \o <<"|">>) \o u
        BY <1>1, JoinMore DEF J
    <2>3. CASE k = 0
        <3>1. J(k + 1) = u /\ u = t[1]
            BY <2>2, <2>3
        <3>2. Check!Split(<< >>) = << << >> >>
            BY NothingSplits
        <3>3. PICK x : x = << << >> >>
            OBVIOUS
        <3>4. Len(x) = 1 /\ x[1] = << >>
            BY <3>3
        <3> HIDE DEF u
        <3>5. << >> \o u \in Text /\ Check!Split(<< >> \o u) = [x EXCEPT ![1] = << >> \o u]
            <4>1. x = Check!Split(<< >>)
                BY <3>2, <3>3
            <4>2. Check!Split(<< >> \o u) = [x EXCEPT ![Len(x)] = x[Len(x)] \o u] /\ << >> \o u \in Text
                BY <1>3, <2>1, <4>1, SplitMore
            <4> QED BY <3>4, <4>2
        <3>6. Check!Split(u) = [x EXCEPT ![1] = u]
            BY <1>3, <2>1, <3>5
        <3>7. [x EXCEPT ![1] = u] = <<u>>
            BY <3>3
        <3>8. SubSeq(t, 1, 1) = <<u>>
            <4>1. /\ SubSeq(t, 1, 1) \in Seq(Seq(Chars)) /\ Len(SubSeq(t, 1, 1)) = 1
                  /\ SubSeq(t, 1, 1)[1] = t[1]
                BY <1>1, <1>2
            <4>2. PICK y \in Seq(Seq(Chars)) : y = SubSeq(t, 1, 1)
                BY <4>1
            <4>3. Len(y) = 1 /\ y[1] = u
                BY <3>1, <4>1, <4>2
            <4>4. y = <<u>>
                BY <4>3
            <4> QED BY <4>2, <4>4
        <3>9. k + 1 = 1
            BY <2>3
        <3>10. J(1) \in Text /\ Check!Split(J(1)) = SubSeq(t, 1, 1)
            BY <2>1, <3>1, <3>6, <3>7, <3>8, <3>9
        <3> QED BY <2>1, <3>9, <3>10, <3>6, <3>7, <3>8
    <2>4. CASE k # 0
        <3> DEFINE p == J(k)
        <3>1. Check!Split(p) = SubSeq(t, 1, k) /\ k \in 1 .. n
            BY <1>5, <2>4
        <3> HIDE DEF p, u
        <3>2. /\ p \o <<"|">> \in Text
              /\ Check!Split(p \o <<"|">>) = Append(SubSeq(t, 1, k), << >>)
            BY <2>2, <3>1, SplitBar DEF p
        <3>3. PICK x : x = Append(SubSeq(t, 1, k), << >>)
            OBVIOUS
        <3>4. Len(x) = k + 1 /\ x[k + 1] = << >> /\ x = Check!Split(p \o <<"|">>)
            <4>1. SubSeq(t, 1, k) \in Seq(Seq(Chars)) /\ Len(SubSeq(t, 1, k)) = k
                BY <1>1, <1>2, <3>1
            <4> QED BY <3>1, <3>2, <3>3, <4>1
        <3>5. Check!Split((p \o <<"|">>) \o u) = [x EXCEPT ![Len(x)] = x[Len(x)] \o u]
              /\ (p \o <<"|">>) \o u \in Text
            BY <2>1, <3>2, <3>4, SplitMore
        <3>6. Check!Split((p \o <<"|">>) \o u) = [x EXCEPT ![k + 1] = u]
            BY <1>3, <2>1, <3>4, <3>5
        <3>7. [x EXCEPT ![k + 1] = u] = SubSeq(t, 1, k + 1)
            <4> DEFINE a == [x EXCEPT ![k + 1] = u]
                       b == SubSeq(t, 1, k + 1)
            <4>1. x \in Seq(Seq(Chars)) /\ u \in Seq(Chars) /\ k + 1 \in 1 .. Len(x)
                BY <1>1, <1>2, <2>1, <3>1, <3>3, <3>4 DEF u
            <4>2. /\ a \in Seq(Seq(Chars)) /\ Len(a) = k + 1
                  /\ \A j \in 1 .. k + 1 : a[j] = IF j = k + 1 THEN u ELSE x[j]
                BY <3>4, <4>1, ExceptSeq
            <4>3. b \in Seq(Seq(Chars)) /\ Len(b) = k + 1 /\ \A j \in 1 .. k + 1 : b[j] = t[j]
                BY <1>1, <1>2, <2>1
            <4>4. \A j \in 1 .. k : x[j] = t[j]
                BY <1>1, <1>2, <3>1, <3>3
            <4>5. \A j \in 1 .. k + 1 : a[j] = b[j]
                <5>1. ASSUME NEW j \in 1 .. k + 1, j # k + 1 PROVE a[j] = b[j]
                    <6>1. j \in 1 .. k
                        BY <3>1, <5>1
                    <6> QED BY <4>2, <4>3, <4>4, <5>1, <6>1
                <5>2. a[k + 1] = u /\ b[k + 1] = t[k + 1]
                    <6>1. k + 1 \in 1 .. k + 1
                        BY <2>1
                    <6> QED BY <4>2, <4>3, <6>1
                <5> QED BY <5>1, <5>2 DEF u
            <4> HIDE DEF a, b
            <4>6. a = b
                BY <4>2, <4>3, <4>5, SeqEqual
            <4> QED BY <4>6 DEF a, b
        <3> QED BY <2>1, <2>2, <2>4, <3>5, <3>6, <3>7 DEF p
    <2> QED BY <2>3, <2>4
<1> HIDE DEF S
<1>6. \A k \in 0 .. n : k \in S
    BY <1>1, <1>4, <1>5, Upwards
<1>7. n \in S /\ n # 0
    BY <1>1, <1>6
<1>8. Check!Split(J(n)) = SubSeq(t, 1, n)
    BY <1>7, Zenon DEF S
<1>9. SubSeq(t, 1, n) = t
    BY <1>2, SubSeqFull
<1> QED BY <1>1, <1>8, <1>9, JoinFlattens DEF J

\* Fields none of which is empty are all posted.
LEMMA AllFilled ==
    ASSUME NEW t \in Seq(Seq(Chars)), \A g \in 1 .. Len(t) : t[g] # << >>
    PROVE  Check!Filled(t) = t
<1> DEFINE S == {n \in 0 .. Len(t) : \A g \in 1 .. n : t[g] # << >>}
<1>1. Len(t) \in Nat /\ SubSeq(t, 1, Len(t)) = t
    BY SubSeqFull
<1>2. S = 0 .. Len(t)
    BY <1>1
<1> HIDE DEF S
<1>3. Check!Max(S) = Len(t)
    <2>1. Check!Max(S) = CHOOSE x \in S : \A y \in S : x >= y
        BY DEF Check!Max
    <2>2. Len(t) \in S /\ \A y \in S : Len(t) >= y
        BY <1>1, <1>2
    <2>3. Check!Max(S) \in S /\ \A y \in S : Check!Max(S) >= y
        BY <2>1, <2>2
    <2>4. Check!Max(S) >= Len(t) /\ Len(t) >= Check!Max(S)
        BY <2>2, <2>3
    <2> QED BY <1>1, <1>2, <2>3, <2>4
<1>4. Check!Filled(t) = SubSeq(t, 1, Check!Max(S))
    BY DEF Check!Filled, S
<1> QED BY <1>1, <1>3, <1>4

\* CorrectIsRight: who types the correct answer, in whatever case, gets it
\* right: joined and split again the gaps are what they were.
THEOREM RightAnswered == Check!Spec => []CorrectIsRight
<1>1. ASSUME CheckKept, Check!Judged,
             \A g \in DOMAIN right : Check!ToLower(typed[g]) = Check!ToLower(right[g]),
             fill => \A g \in DOMAIN right : right[g] # << >> /\ ~Check!HasBar(right[g])
      PROVE  verdict
    <2> DEFINE n == Len(right)
    <2>1. /\ n \in Nat /\ n >= 1 /\ Len(typed) = n /\ DOMAIN right = 1 .. n
          /\ \A g \in 1 .. n : right[g] \in Seq(Chars) /\ typed[g] \in Seq(Chars)
          /\ typed \in Seq(Seq(Chars)) /\ (~fill => n = 1)
        BY <1>1 DEF CheckKept
    <2>2. \A g \in 1 .. n : Check!NormalizeAnswer(typed[g]) = Check!NormalizeAnswer(right[g])
        <3>1. ASSUME NEW g \in 1 .. n
              PROVE  Check!NormalizeAnswer(typed[g]) = Check!NormalizeAnswer(right[g])
            <4>1. Check!ToLower(typed[g]) = Check!ToLower(right[g])
                BY <1>1, <2>1
            <4>2. Check!ToLower(Check!Trim(typed[g], {" "}, "both"))
                        = Check!ToLower(Check!Trim(right[g], {" "}, "both"))
                BY <2>1, <4>1, TrimmedAlike
            <4> QED BY <4>2, Zenon DEF Check!NormalizeAnswer
        <3> QED BY <3>1
    <2>3. stored = Post /\ (verdict <=> Check!Judge(stored)) /\ verdict \in BOOLEAN
        BY <1>1 DEF CheckKept, Check!Judged
    <2>4. ASSUME fill PROVE Check!Judge(stored)
        <3>1. ASSUME NEW g \in 1 .. n
              PROVE  typed[g] # << >> /\ \A i \in 1 .. Len(typed[g]) : typed[g][i] # "|"
            <4> DEFINE s == typed[g]
                       t == right[g]
            <4>1. Check!ToLower(s) = Check!ToLower(t) /\ s \in Seq(Chars) /\ t \in Seq(Chars)
                BY <1>1, <2>1
            <4>2. t # << >> /\ "|" \notin {t[i] : i \in DOMAIN t}
                BY <1>1, <2>1, <2>4 DEF Check!HasBar, Check!Range
            <4> HIDE DEF s, t
            <4>3. /\ Len(s) \in Nat /\ Len(t) = Len(s) /\ DOMAIN t = 1 .. Len(s)
                  /\ \A i \in 1 .. Len(s) : Low(s[i]) = Low(t[i])
                BY <4>1, LowerAlike
            <4>4. s # << >>
                BY <4>1, <4>2, <4>3
            <4>5. \A i \in 1 .. Len(s) : t[i] # "|"
                BY <4>2, <4>3
            <4>6. \A i \in 1 .. Len(s) : s[i] # "|"
                BY <4>3, <4>5 DEF Low
            <4> QED BY <4>4, <4>6 DEF s
        <3>2. Check!Filled(typed) = typed
            BY <2>1, <3>1, AllFilled
        <3>3. Check!Split(Check!Join(typed)) = typed
            BY <2>1, <3>1, SplitJoin
        <3>4. Check!Split(stored) = typed
            BY <2>3, <2>4, <3>2, <3>3 DEF Post
        <3>5. Check!CheckFillAnswer(typed)
            BY <2>1, <2>2 DEF Check!CheckFillAnswer
        <3> QED BY <2>4, <3>4, <3>5 DEF Check!Judge
    <2>5. ASSUME ~fill PROVE Check!Judge(stored)
        <3>1. stored = typed[1] /\ 1 \in 1 .. n
            BY <2>1, <2>3, <2>5 DEF Post
        <3>2. Check!NormalizeAnswer(typed[1]) = Check!NormalizeAnswer(right[1])
            BY <2>2, <3>1
        <3> QED BY <2>5, <3>1, <3>2 DEF Check!Judge
    <2> QED BY <2>3, <2>4, <2>5
<1>2. CheckKept => CorrectIsRight
    BY <1>1 DEF CorrectIsRight, Check!CorrectIsRight
<1> QED BY <1>2, CheckInvariant, PTL

\* Texts, and texts in small.
Letter == Chars \cup {"|", "a"}
Wording == Seq(Letter)

\* What is forgiven, and one more character.
Forgiven == {" ", ".", "|"}
More(p, c) == IF c \in Forgiven THEN p ELSE Append(p, Low(c))

\* The recursive function by which Letters goes through a text.
Collects(f, s) ==
    f = [i \in 0 .. Len(s) |->
            IF i = 0 THEN << >>
            ELSE IF s[i] \in {" ", ".", "|"} THEN f[i - 1]
            ELSE Append(f[i - 1], Check!ToLower(s)[i])]

\* It, if there is one.
Collecting(s) == CHOOSE f : Collects(f, s)

\* There is such a function, and its values are texts.
LEMMA LettersStep ==
    ASSUME NEW s \in Wording
    PROVE  /\ Collecting(s)[0] = << >>
           /\ \A i \in 1 .. Len(s) : Collecting(s)[i] = More(Collecting(s)[i - 1], s[i])
           /\ \A i \in 0 .. Len(s) : Collecting(s)[i] \in Wording
           /\ Check!Letters(s) = Collecting(s)[Len(s)]
<1> DEFINE G == [p \in (1 .. Len(s)) \X Wording |-> More(p[2], s[p[1]])]
<1>1. Len(s) \in Nat /\ DOMAIN s = 1 .. Len(s) /\ \A i \in 1 .. Len(s) : s[i] \in Letter
    BY DEF Wording
<1>2. << >> \in Wording
    BY DEF Wording
<1>3. ASSUME NEW i \in 1 .. Len(s), NEW t \in Wording PROVE More(t, s[i]) \in Wording
    <2>1. Low(s[i]) \in Letter
        BY <1>1 DEF Low, Letter
    <2> QED BY <2>1 DEF More, Wording
<1>4. ASSUME NEW i \in 1 .. Len(s), NEW t \in Wording
      PROVE  G[<<i, t>>] = More(t, s[i])
    OBVIOUS
<1>5. G \in [(1 .. Len(s)) \X Wording -> Wording]
    BY <1>3
<1> HIDE DEF G
<1>6. PICK f : Iterate(f, Wording, << >>, Len(s), G)
    BY <1>1, <1>2, <1>5, Iterates
<1> DEFINE Next1(f1, i) == IF s[i] \in {" ", ".", "|"} THEN f1[i - 1]
                           ELSE Append(f1[i - 1], Check!ToLower(s)[i])
<1>7. \A i \in 1 .. Len(s) : Check!ToLower(s)[i] = Low(s[i])
    BY <1>1 DEF Check!ToLower, Low
<1>8. ASSUME NEW f1, NEW i \in 1 .. Len(s) PROVE Next1(f1, i) = More(f1[i - 1], s[i])
    <2>1. Check!ToLower(s)[i] = Low(s[i])
        BY <1>7
    <2> QED BY <2>1, Zenon DEF More, Forgiven
<1>9. \A i \in 0 .. Len(s) : f[i] = IF i = 0 THEN << >> ELSE Next1(f, i)
    <2>1. ASSUME NEW i \in 1 .. Len(s) PROVE f[i] = Next1(f, i)
        <3>1. i - 1 \in 0 .. Len(s) /\ f[i - 1] \in Wording
            BY <1>1, <1>6 DEF Iterate
        <3>2. f[i] = More(f[i - 1], s[i])
            BY <1>4, <1>6, <3>1 DEF Iterate
        <3> QED BY <1>8, <3>2, Zenon
    <2>2. f[0] = << >> /\ \A i \in 0 .. Len(s) : i # 0 => i \in 1 .. Len(s)
        BY <1>1, <1>6 DEF Iterate
    <2> QED BY <2>1, <2>2, Zenon
<1>10. Collects(f, s)
    <2>1. f = [i \in 0 .. Len(s) |-> f[i]]
        BY <1>6 DEF Iterate
    <2>2. [i \in 0 .. Len(s) |-> f[i]]
            = [i \in 0 .. Len(s) |-> IF i = 0 THEN << >> ELSE Next1(f, i)]
        BY <1>9, Zenon
    <2> QED BY <2>1, <2>2, Zenon DEF Collects
<1>11. Collects(Collecting(s), s)
    BY <1>10, Zenon DEF Collecting
<1> DEFINE h == Collecting(s)
           S == {i \in 0 .. Len(s) : h[i] \in Wording}
<1>12. Check!Letters(s) = h[Len(s)]
    BY Zenon DEF Check!Letters, Collecting, Collects
<1>13. \A i \in 0 .. Len(s) : h[i] = IF i = 0 THEN << >> ELSE Next1(h, i)
    BY <1>11, Zenon DEF Collects
<1> HIDE DEF h, Next1
<1>14. h[0] = << >> /\ \A i \in 1 .. Len(s) : h[i] = More(h[i - 1], s[i])
    BY <1>1, <1>8, <1>13
<1>15. 0 \in S
    BY <1>1, <1>2, <1>14
<1>16. ASSUME NEW i \in 0 .. Len(s) - 1, i \in S PROVE i + 1 \in S
    <2>1. i + 1 \in 1 .. Len(s) /\ i + 1 \in 0 .. Len(s) /\ (i + 1) - 1 = i
        BY <1>1
    <2>2. h[i + 1] = More(h[i], s[i + 1])
        BY <1>14, <2>1
    <2> QED BY <1>3, <1>16, <2>1, <2>2
<1> HIDE DEF S
<1>17. \A i \in 0 .. Len(s) : i \in S
    BY <1>1, <1>15, <1>16, Upwards
<1> QED BY <1>12, <1>14, <1>17 DEF h, S

\* What is collected depends on the characters in small, one by one.
LEMMA CollectedAlike ==
    ASSUME NEW s \in Wording, NEW t \in Wording, NEW n \in 0 .. Len(s), n \in 0 .. Len(t),
           \A i \in 1 .. n : Low(s[i]) = Low(t[i])
    PROVE  Collecting(s)[n] = Collecting(t)[n]
<1> DEFINE S == {k \in 0 .. n : Collecting(s)[k] = Collecting(t)[k]}
<1>1. n \in Nat /\ Len(s) \in Nat /\ Len(t) \in Nat
    BY DEF Wording
<1>2. 0 \in S
    BY <1>1, LettersStep
<1>3. ASSUME NEW k \in 0 .. n - 1, k \in S PROVE k + 1 \in S
    <2>1. /\ k + 1 \in 0 .. n /\ k + 1 \in 1 .. n /\ k + 1 \in 1 .. Len(s) /\ k + 1 \in 1 .. Len(t)
          /\ (k + 1) - 1 = k
        BY <1>1
    <2>2. /\ Collecting(s)[k + 1] = More(Collecting(s)[k], s[k + 1])
          /\ Collecting(t)[k + 1] = More(Collecting(t)[k], t[k + 1])
        BY <2>1, LettersStep
    <2>3. Low(s[k + 1]) = Low(t[k + 1])
        BY <2>1
    <2>4. \A p : More(p, s[k + 1]) = More(p, t[k + 1])
        BY <2>3 DEF More, Low, Forgiven
    <2> QED BY <1>3, <2>1, <2>2, <2>4
<1> HIDE DEF S
<1>4. \A k \in 0 .. n : k \in S
    BY <1>1, <1>2, <1>3, Upwards
<1>5. n \in S
    BY <1>1, <1>4
<1> QED BY <1>5 DEF S

\* Two texts have the letters of the one and then those of the other.
LEMMA LettersPlus ==
    ASSUME NEW a \in Wording, NEW b \in Wording
    PROVE  /\ a \o b \in Wording /\ Check!Letters(a) \in Wording
           /\ Check!Letters(a \o b) = Check!Letters(a) \o Check!Letters(b)
<1> DEFINE c == a \o b
           n == Len(a)
           S == {k \in 0 .. Len(b) : Collecting(c)[n + k] = Check!Letters(a) \o Collecting(b)[k]}
<1>1. /\ c \in Wording /\ n \in Nat /\ Len(b) \in Nat /\ Len(c) = n + Len(b)
      /\ \A i \in 1 .. n : c[i] = a[i]
      /\ \A i \in 1 .. Len(b) : c[n + i] = b[i] /\ b[i] \in Letter
    BY DEF Wording
<1> HIDE DEF c
<1>2. Check!Letters(a) = Collecting(a)[n] /\ n \in 0 .. n /\ Check!Letters(a) \in Wording
    BY <1>1, LettersStep
<1>3. 0 \in S
    <2>1. Collecting(c)[n] = Collecting(a)[n]
        <3>1. /\ n \in 0 .. Len(c) /\ n \in 0 .. Len(a)
              /\ \A i \in 1 .. n : Low(c[i]) = Low(a[i])
            BY <1>1
        <3> HIDE DEF n
        <3> QED BY <1>1, <3>1, CollectedAlike
    <2>2. Collecting(b)[0] = << >>
        BY LettersStep
    <2>3. Check!Letters(a) \o << >> = Check!Letters(a)
        BY <1>2 DEF Wording
    <2>4. n + 0 = n /\ 0 \in 0 .. Len(b)
        BY <1>1
    <2>5. Collecting(c)[n + 0] = Check!Letters(a) \o Collecting(b)[0]
        BY <1>2, <2>1, <2>2, <2>3, <2>4, Zenon
    <2> QED BY <2>4, <2>5
<1>4. ASSUME NEW k \in 0 .. Len(b) - 1, k \in S PROVE k + 1 \in S
    <2>1. /\ k + 1 \in 1 .. Len(b) /\ k + 1 \in 0 .. Len(b) /\ k \in 0 .. Len(b)
          /\ (k + 1) - 1 = k
        BY <1>1
    <2>2. PICK j \in 1 .. Len(c) : j = n + (k + 1) /\ j - 1 = n + k /\ c[j] = b[k + 1]
        BY <1>1, <2>1
    <2>3. Collecting(c)[j] = More(Collecting(c)[j - 1], c[j])
        BY <1>1, LettersStep
    <2>4. Collecting(b)[k + 1] = More(Collecting(b)[k], b[k + 1]) /\ Collecting(b)[k] \in Wording
        BY <2>1, LettersStep
    <2>5. Collecting(c)[n + k] = Check!Letters(a) \o Collecting(b)[k]
        BY <1>4
    <2>6. More(Check!Letters(a) \o Collecting(b)[k], b[k + 1])
                = Check!Letters(a) \o More(Collecting(b)[k], b[k + 1])
        <3>1. PICK p \in Seq(Letter), q \in Seq(Letter), x \in Letter :
                p = Check!Letters(a) /\ q = Collecting(b)[k] /\ x = Low(b[k + 1])
            <4>1. Low(b[k + 1]) \in Letter
                BY <1>1, <2>1 DEF Low, Letter
            <4> QED BY <1>2, <2>4, <4>1 DEF Wording
        <3>2. Append(p \o q, x) = p \o Append(q, x)
            BY SMTT(30)
        <3> QED BY <3>1, <3>2 DEF More
    <2> QED BY <2>1, <2>2, <2>3, <2>4, <2>5, <2>6
<1> HIDE DEF S
<1>5. \A k \in 0 .. Len(b) : k \in S
    BY <1>1, <1>3, <1>4, Upwards
<1>6. Collecting(c)[n + Len(b)] = Check!Letters(a) \o Collecting(b)[Len(b)]
    <2>1. Len(b) \in S
        BY <1>1, <1>5
    <2> QED BY <2>1, Zenon DEF S
<1>7. Check!Letters(c) = Collecting(c)[Len(c)] /\ Check!Letters(b) = Collecting(b)[Len(b)]
    BY <1>1, LettersStep
<1> QED BY <1>1, <1>2, <1>6, <1>7 DEF c

\* What is forgiven has no letters.
LEMMA NoLetters ==
    ASSUME NEW s \in Wording, \A i \in 1 .. Len(s) : s[i] \in Forgiven
    PROVE  Check!Letters(s) = << >>
<1> DEFINE S == {k \in 0 .. Len(s) : Collecting(s)[k] = << >>}
<1>1. Len(s) \in Nat
    BY DEF Wording
<1>2. 0 \in S
    BY <1>1, LettersStep
<1>3. ASSUME NEW k \in 0 .. Len(s) - 1, k \in S PROVE k + 1 \in S
    <2>1. k + 1 \in 1 .. Len(s) /\ k + 1 \in 0 .. Len(s) /\ (k + 1) - 1 = k
        BY <1>1
    <2>2. Collecting(s)[k + 1] = More(Collecting(s)[k], s[k + 1])
        BY <2>1, LettersStep
    <2> QED BY <1>3, <2>1, <2>2 DEF More
<1> HIDE DEF S
<1>4. \A k \in 0 .. Len(s) : k \in S
    BY <1>1, <1>2, <1>3, Upwards
<1>5. Len(s) \in S
    BY <1>1, <1>4
<1> QED BY <1>5, LettersStep DEF S

\* Trimming takes away what is forgiven, and keeps the letters.
LEMMA LettersTrim ==
    ASSUME NEW s \in Wording, NEW drop, drop \subseteq Forgiven, NEW from
    PROVE  /\ Check!Trim(s, drop, from) \in Wording
           /\ Check!Letters(Check!Trim(s, drop, from)) = Check!Letters(s)
<1> DEFINE n == Len(s)
           kept == {i \in 1 .. n : s[i] \notin drop}
<1>1. n \in Nat /\ DOMAIN s = 1 .. n /\ s \in Seq(Letter) /\ \A i \in 1 .. n : s[i] \in Letter
    BY DEF Wording
<1>2. {i \in DOMAIN s : s[i] \notin drop} = kept
    BY <1>1
<1>3. \A i \in 1 .. n : i \notin kept => s[i] \in Forgiven
    OBVIOUS
<1>4. kept \subseteq 1 .. n
    OBVIOUS
<1> HIDE DEF kept
<1>5. CASE kept = {}
    <2>1. Check!Trim(s, drop, from) = << >>
        BY <1>2, <1>5 DEF Check!Trim
    <2>2. Check!Letters(s) = << >>
        BY <1>3, <1>5, NoLetters
    <2>3. << >> \in Wording /\ \A i \in 1 .. Len(<< >>) : FALSE
        BY DEF Wording
    <2>4. Check!Letters(<< >>) = << >>
        BY <2>3, NoLetters
    <2> QED BY <2>1, <2>2, <2>3, <2>4
<1>6. CASE kept # {}
    <2> DEFINE a == IF from = "both" THEN Check!Min(kept) ELSE 1
               b == Check!Max(kept)
    <2>1. kept \subseteq Nat /\ kept \subseteq 0 .. n
        <3>1. 1 .. n \subseteq 0 .. n /\ 0 .. n \subseteq Nat
            BY <1>1
        <3> QED BY <1>4, <3>1, Zenon
    <2>2. Check!Min(kept) \in kept /\ \A k \in kept : Check!Min(kept) <= k
        <3>1. \E m \in kept : \A k \in kept : m <= k
            BY <1>6, <2>1, LeastNumber
        <3> QED BY <3>1 DEF Check!Min
    <2>3. b \in kept /\ \A k \in kept : b >= k
        <3>1. \E m \in kept : \A k \in kept : m >= k
            BY <1>1, <1>6, <2>1, GreatestNumber
        <3> QED BY <3>1 DEF Check!Max
    <2>4. Check!Trim(s, drop, from) = SubSeq(s, a, b)
        BY <1>2, <1>6, Zenon DEF Check!Trim
    <2>5. a \in 1 .. n /\ b \in 1 .. n /\ a <= b
        <3>1. Check!Min(kept) \in 1 .. n /\ b \in 1 .. n /\ Check!Min(kept) <= b
            BY <1>4, <2>2, <2>3
        <3> HIDE DEF n, b
        <3> QED BY <1>1, <3>1
    <2>6. \A i \in 1 .. a - 1 : i \notin kept
        <3>1. ASSUME NEW i \in 1 .. a - 1, i \in kept PROVE FALSE
            <4>1. CASE from = "both"
                <5>1. a = Check!Min(kept) /\ a \in Nat
                    BY <2>1, <2>2, <4>1
                <5>2. a <= i
                    BY <2>2, <3>1, <5>1
                <5> HIDE DEF a
                <5> QED BY <3>1, <5>1, <5>2
            <4>2. CASE from # "both"
                BY <3>1, <4>2
            <4> QED BY <4>1, <4>2
        <3> QED BY <3>1
    <2> HIDE DEF a, b
    <2>7. \A i \in b + 1 .. n : i \notin kept
        BY <1>1, <2>3, <2>5 DEF b
    <2> DEFINE u == SubSeq(s, 1, a - 1)
               v == SubSeq(s, a, b)
               w == SubSeq(s, b + 1, n)
    <2>8. /\ u \in Wording /\ Len(u) = a - 1 /\ \A i \in 1 .. a - 1 : u[i] = s[i]
          /\ v \in Wording /\ Len(v) = b - a + 1 /\ \A i \in 1 .. b - a + 1 : v[i] = s[a + i - 1]
          /\ w \in Wording /\ Len(w) = n - b /\ \A i \in 1 .. n - b : w[i] = s[b + i]
        <3>1. /\ a - 1 \in 0 .. n /\ 1 \in 1 .. n + 1 /\ a \in 1 .. n + 1 /\ b \in a - 1 .. n
              /\ b + 1 \in 1 .. n + 1 /\ n \in (b + 1) - 1 .. n /\ a - 1 \in 1 - 1 .. n
              /\ (a - 1) - 1 + 1 = a - 1 /\ n - (b + 1) + 1 = n - b
              /\ \A i \in Int : 1 + i - 1 = i /\ (b + 1) + i - 1 = b + i
            BY <1>1, <2>5
        <3>2. /\ u \in Seq(Letter) /\ Len(u) = a - 1 /\ \A i \in 1 .. a - 1 : u[i] = s[i]
            BY <1>1, <3>1, Slices
        <3>3. v \in Seq(Letter) /\ Len(v) = b - a + 1 /\ \A i \in 1 .. b - a + 1 : v[i] = s[a + i - 1]
            BY <1>1, <3>1, Slices
        <3>4. w \in Seq(Letter) /\ Len(w) = n - b /\ \A i \in 1 .. n - b : w[i] = s[b + i]
            <4>1. PICK x \in 1 .. n + 1 : x = b + 1 /\ n \in x - 1 .. n
                BY <3>1
            <4>2. /\ SubSeq(s, x, n) \in Seq(Letter) /\ Len(SubSeq(s, x, n)) = n - x + 1
                  /\ \A i \in 1 .. n - x + 1 : SubSeq(s, x, n)[i] = s[x + i - 1]
                BY <1>1, <4>1, Slices
            <4>3. w = SubSeq(s, x, n)
                BY <4>1
            <4> HIDE DEF n, w
            <4>4. n - x + 1 = n - b
                BY <1>1, <2>5, <4>1
            <4>5. \A i \in 1 .. n - b : w[i] = s[x + i - 1] /\ x + i - 1 = b + i
                BY <2>5, <4>1, <4>2, <4>3, <4>4
            <4>6. \A i \in 1 .. n - b : w[i] = s[b + i]
                BY <4>5
            <4> QED BY <4>2, <4>3, <4>4, <4>6
        <3> QED BY <3>2, <3>3, <3>4 DEF Wording
    <2>9. Check!Letters(u) = << >>
        <3>1. \A i \in 1 .. a - 1 : s[i] \in Forgiven
            BY <1>1, <1>3, <2>5, <2>6
        <3> QED BY <2>8, <3>1, NoLetters
    <2>10. Check!Letters(w) = << >>
        <3>1. ASSUME NEW i \in 1 .. n - b PROVE s[b + i] \in Forgiven
            <4>1. b + i \in 1 .. n /\ b + i \in b + 1 .. n
                BY <1>1, <2>5
            <4> QED BY <1>3, <2>7, <4>1
        <3> QED BY <2>8, <3>1, NoLetters
    <2>11. s = u \o (v \o w)
        <3>1. SubSeq(s, 1, n) = u \o SubSeq(s, (a - 1) + 1, n)
            <4>1. 1 \in 1 .. n + 1 /\ a - 1 \in 1 - 1 .. n
                BY <1>1, <2>5
            <4> QED BY <1>1, <4>1, Halves
        <3>2. SubSeq(s, a, n) = v \o w
            <4>1. a \in 1 .. n + 1 /\ b \in a - 1 .. n
                BY <1>1, <2>5
            <4> QED BY <1>1, <4>1, Halves
        <3>3. (a - 1) + 1 = a /\ SubSeq(s, 1, n) = s
            BY <1>1, <2>5, SubSeqFull
        <3> HIDE DEF u, v, w
        <3> QED BY <3>1, <3>2, <3>3
    <2> HIDE DEF u, v, w
    <2>12. /\ v \o w \in Wording
           /\ Check!Letters(v \o w) = Check!Letters(v) \o Check!Letters(w)
           /\ Check!Letters(v) \in Wording
        BY <2>8, LettersPlus
    <2>13. Check!Letters(s) = << >> \o (Check!Letters(v) \o << >>)
        <3> DEFINE x == v \o w
        <3>1. x \in Wording /\ Check!Letters(x) = Check!Letters(v) \o << >>
            BY <2>10, <2>12
        <3> HIDE DEF x
        <3>2. Check!Letters(u \o x) = Check!Letters(u) \o Check!Letters(x)
            BY <2>8, <3>1, LettersPlus
        <3>3. s = u \o x
            BY <2>11 DEF x
        <3> QED BY <2>9, <3>1, <3>2, <3>3, Zenon
    <2>14. << >> \o (Check!Letters(v) \o << >>) = Check!Letters(v)
        BY <2>12, ConcatEmptySeq DEF Wording
    <2> QED BY <2>4, <2>8, <2>13, <2>14 DEF v
<1> QED BY <1>5, <1>6

\* So an answer has the letters it has when it is normalized.
LEMMA LettersNormal ==
    ASSUME NEW s \in Wording
    PROVE  Check!Letters(Check!NormalizeAnswer(s)) = Check!Letters(s)
<1> DEFINE t == Check!Trim(s, {" "}, "both")
           u == Check!ToLower(t)
<1>1. {" "} \subseteq Forgiven /\ {"."} \subseteq Forgiven
    BY DEF Forgiven
<1>2. t \in Wording /\ Check!Letters(t) = Check!Letters(s)
    BY <1>1, LettersTrim
<1> HIDE DEF t
<1>3. /\ Len(t) \in Nat /\ DOMAIN t = 1 .. Len(t) /\ \A i \in 1 .. Len(t) : t[i] \in Letter
    BY <1>2 DEF Wording
<1>4. u = [i \in 1 .. Len(t) |-> Low(t[i])]
    BY <1>3, Zenon DEF Check!ToLower, Low
<1> HIDE DEF u
<1>5. u \in Wording /\ Len(u) = Len(t) /\ \A i \in 1 .. Len(t) : Low(u[i]) = Low(t[i])
    <2>1. \A i \in 1 .. Len(t) : Low(t[i]) \in Letter /\ Low(Low(t[i])) = Low(t[i])
        BY <1>3 DEF Low, Letter
    <2>2. u \in [1 .. Len(t) -> Letter] /\ \A i \in 1 .. Len(t) : u[i] = Low(t[i])
        BY <1>4, <2>1
    <2>3. u \in Seq(Letter) /\ Len(u) = Len(t)
        BY <1>3, <2>2
    <2> QED BY <2>1, <2>2, <2>3 DEF Wording
<1>6. Check!Letters(u) = Check!Letters(t)
    <2>1. Collecting(u)[Len(t)] = Collecting(t)[Len(t)]
        <3>1. Len(t) \in 0 .. Len(u) /\ Len(t) \in 0 .. Len(t)
            BY <1>3, <1>5
        <3> QED BY <1>2, <1>5, <3>1, CollectedAlike
    <2> QED BY <1>2, <1>5, <2>1, LettersStep
<1>7. Check!NormalizeAnswer(s) = Check!Trim(u, {"."}, "right")
    BY Zenon DEF Check!NormalizeAnswer, u, t
<1>8. Check!Letters(Check!Trim(u, {"."}, "right")) = Check!Letters(u)
    BY <1>1, <1>5, LettersTrim
<1> QED BY <1>2, <1>6, <1>7, <1>8

\* Concatenated texts have the same letters where each two have.
LEMMA LettersFlat ==
    ASSUME NEW ss, NEW tt, NEW n \in Nat,
           \A i \in 1 .. n : /\ ss[i] \in Wording /\ tt[i] \in Wording
                             /\ Check!Letters(ss[i]) = Check!Letters(tt[i])
    PROVE  /\ FlatTo(ss, n, n) \in Wording /\ FlatTo(tt, n, n) \in Wording
           /\ Check!Letters(FlatTo(ss, n, n)) = Check!Letters(FlatTo(tt, n, n))
<1> DEFINE F(k) == FlatTo(ss, n, k)
           H(k) == FlatTo(tt, n, k)
           S == {k \in 0 .. n : /\ F(k) \in Wording /\ H(k) \in Wording
                                /\ Check!Letters(F(k)) = Check!Letters(H(k))}
<1>1. 0 \in S
    BY DEF FlatTo, Wording
<1>2. ASSUME NEW k \in 0 .. n - 1, k \in S PROVE k + 1 \in S
    <2>1. k + 1 \in 0 .. n /\ k + 1 \in 1 .. n
        OBVIOUS
    <2>2. /\ \A i \in 1 .. n : ss[i] \in Seq(Letter) /\ tt[i] \in Seq(Letter)
          /\ ss[k + 1] \in Wording /\ tt[k + 1] \in Wording
        BY <2>1 DEF Wording
    <2>3. F(k + 1) = F(k) \o ss[k + 1] /\ H(k + 1) = H(k) \o tt[k + 1]
        BY <2>2, FlatToStep
    <2> HIDE DEF F, H
    <2>4. F(k) \in Wording /\ H(k) \in Wording /\ Check!Letters(F(k)) = Check!Letters(H(k))
        BY <1>2
    <2>5. \A a, b \in Wording :
            a \o b \in Wording /\ Check!Letters(a \o b) = Check!Letters(a) \o Check!Letters(b)
        BY LettersPlus
    <2>6. /\ F(k + 1) \in Wording
          /\ Check!Letters(F(k + 1)) = Check!Letters(F(k)) \o Check!Letters(ss[k + 1])
        <3>1. /\ F(k) \o ss[k + 1] \in Wording
              /\ Check!Letters(F(k) \o ss[k + 1]) = Check!Letters(F(k)) \o Check!Letters(ss[k + 1])
            BY <2>2, <2>4, <2>5
        <3> QED BY <2>3, <3>1
    <2>7. /\ H(k + 1) \in Wording
          /\ Check!Letters(H(k + 1)) = Check!Letters(H(k)) \o Check!Letters(tt[k + 1])
        <3>1. /\ H(k) \o tt[k + 1] \in Wording
              /\ Check!Letters(H(k) \o tt[k + 1]) = Check!Letters(H(k)) \o Check!Letters(tt[k + 1])
            BY <2>2, <2>4, <2>5
        <3> QED BY <2>3, <3>1
    <2>8. Check!Letters(ss[k + 1]) = Check!Letters(tt[k + 1])
        BY <2>1
    <2> QED BY <2>1, <2>4, <2>6, <2>7, <2>8
<1> HIDE DEF S
<1>3. \A k \in 0 .. n : k \in S
    BY <1>1, <1>2, Upwards
<1>4. n \in S
    BY <1>3
<1> QED BY <1>4 DEF S

\* The letters of texts are those of what they are concatenated to.
LEMMA LettersOfFlat ==
    ASSUME NEW t, NEW T, t \in Seq(T)
    PROVE  Check!LettersOf(t) = Check!Letters(FlatTo(t, Len(t), Len(t)))
<1>1. Check!FlattenSeq(t) = FlatTo(t, Len(t), Len(t))
    BY CheckFlattens
<1> QED BY <1>1, Zenon DEF Check!LettersOf

\* The first texts concatenated, whatever comes after them.
LEMMA FlatToSame ==
    ASSUME NEW ss, NEW tt, NEW n \in Nat, NEW m \in Nat, NEW j \in 0 .. n, j \in 0 .. m,
           \A i \in 1 .. n : ss[i] \in Text, \A i \in 1 .. m : tt[i] \in Text,
           \A i \in 1 .. j : ss[i] = tt[i]
    PROVE  FlatTo(ss, n, j) = FlatTo(tt, m, j)
<1> DEFINE S == {k \in 0 .. j : FlatTo(ss, n, k) = FlatTo(tt, m, k)}
<1>1. 0 \in S
    BY DEF FlatTo
<1> DEFINE T == Chars \cup {"|"}
<1>2. /\ \A i \in 1 .. n : ss[i] \in Seq(T)
      /\ \A i \in 1 .. m : tt[i] \in Seq(T)
    BY DEF Text
<1> HIDE DEF T
<1>3. ASSUME NEW k \in 0 .. j - 1, k \in S PROVE k + 1 \in S
    <2>1. k + 1 \in 0 .. j /\ k + 1 \in 1 .. j /\ k \in 0 .. n - 1 /\ k \in 0 .. m - 1
        OBVIOUS
    <2>2. FlatTo(ss, n, k + 1) = FlatTo(ss, n, k) \o ss[k + 1]
        BY <1>2, <2>1, FlatToStep
    <2>3. FlatTo(tt, m, k + 1) = FlatTo(tt, m, k) \o tt[k + 1]
        BY <1>2, <2>1, FlatToStep
    <2> QED BY <1>3, <2>1, <2>2, <2>3
<1> HIDE DEF S
<1>4. j \in Nat
    OBVIOUS
<1>5. \A k \in 0 .. j : k \in S
    BY <1>1, <1>3, <1>4, Upwards
<1>6. j \in S
    BY <1>4, <1>5
<1> QED BY <1>6 DEF S

\* One more character has its letter, if it is one.
LEMMA LettersOne ==
    ASSUME NEW p \in Wording, NEW c \in Letter
    PROVE  /\ <<c>> \in Wording
           /\ p \o Check!Letters(<<c>>) = More(p, c)
<1>1. <<c>> \in Wording /\ Len(<<c>>) = 1 /\ <<c>>[1] = c /\ 1 \in 1 .. 1 /\ 1 - 1 = 0
    BY DEF Wording
<1>2. Check!Letters(<<c>>) = More(<< >>, c)
    <2>1. PICK s \in Wording : s = <<c>>
        BY <1>1
    <2>2. /\ Collecting(s)[0] = << >> /\ Collecting(s)[1] = More(Collecting(s)[1 - 1], s[1])
          /\ Check!Letters(s) = Collecting(s)[1]
        BY <1>1, <2>1, LettersStep
    <2> QED BY <1>1, <2>1, <2>2
<1>3. CASE c \in Forgiven
    BY <1>2, <1>3 DEF More, Wording
<1>4. CASE c \notin Forgiven
    <2>1. Low(c) \in Letter
        BY DEF Low, Letter
    <2>2. PICK d \in Letter : d = Low(c)
        BY <2>1
    <2>3. p \o Append(<< >>, d) = Append(p, d)
        BY DEF Wording
    <2>4. More(<< >>, c) = Append(<< >>, Low(c)) /\ More(p, c) = Append(p, Low(c))
        BY <1>4, Zenon DEF More
    <2>5. p \o More(<< >>, c) = More(p, c)
        BY <2>2, <2>3, <2>4, Zenon
    <2>6. p \o Check!Letters(<<c>>) = More(p, c)
        BY <1>2, <2>5, Zenon
    <2> QED BY <1>1, <2>6
<1> QED BY <1>1, <1>3, <1>4

\* Splitting at one more character adds its letter.
LEMMA LettersExtended ==
    ASSUME NEW x \in Seq(Text), Len(x) >= 1, NEW c \in Chars \cup {"|"}
    PROVE  /\ Check!LettersOf(x) \in Wording
           /\ Check!LettersOf(Check!Extended(x, c)) = More(Check!LettersOf(x), c)
<1> DEFINE n == Len(x)
           U == Chars \cup {"|"}
           p == FlatTo(x, n, n)
           q == FlatTo(x, n, n - 1)
<1>1. n \in Nat /\ n >= 1 /\ n \in 1 .. n /\ x \in [1 .. n -> Text] /\ c \in Letter
    BY DEF Letter
<1>2. \A i \in 1 .. n : x[i] \in Seq(U)
    BY <1>1 DEF Text
<1>3. \A s \in Seq(U) : s \in Wording
    <2>1. U \subseteq Letter
        BY DEF Letter
    <2> QED BY <2>1, SeqMonotonic DEF Wording
<1> HIDE DEF U, n
<1>4. q \in Seq(U) /\ p = q \o x[n] /\ p \in Seq(U)
    <2>1. n - 1 \in 0 .. n - 1 /\ (n - 1) + 1 = n
        BY <1>1
    <2>2. /\ FlatTo(x, n, n - 1) \in Seq(U)
          /\ FlatTo(x, n, (n - 1) + 1) = FlatTo(x, n, n - 1) \o x[(n - 1) + 1]
        BY <1>1, <1>2, <2>1, FlatToStep
    <2>3. q \o x[n] \in Seq(U)
        BY <1>1, <1>2, <2>2, ConcatProperties
    <2> QED BY <2>1, <2>2, <2>3
<1>5. Check!LettersOf(x) = Check!Letters(p)
    BY LettersOfFlat DEF n
<1> HIDE DEF p, q
<1>6. p \in Wording /\ Check!Letters(p) \in Wording
    BY <1>3, <1>4, LettersPlus
<1>7. CASE c = "|"
    <2> DEFINE y == Append(x, << >>)
    <2>1. /\ y \in Seq(Text) /\ Len(y) = n + 1 /\ \A i \in 1 .. n : y[i] = x[i]
          /\ y[n + 1] = << >>
        <3>1. << >> \in Text
            BY DEF Text
        <3> HIDE DEF Text
        <3> QED BY <3>1 DEF n
    <2> HIDE DEF y
    <2>2. ASSUME NEW i \in 1 .. n + 1 PROVE y[i] \in Seq(U)
        <3>1. i \in 1 .. n \/ i = n + 1
            BY <1>1
        <3>2. << >> \in Seq(U)
            OBVIOUS
        <3> QED BY <1>2, <2>1, <3>1, <3>2
    <2>3. FlatTo(y, n + 1, n + 1) = FlatTo(y, n + 1, n) \o y[n + 1]
        <3>1. n \in 0 .. (n + 1) - 1 /\ n + 1 \in Nat
            BY <1>1
        <3> QED BY <2>2, <3>1, FlatToStep
    <2>4. FlatTo(y, n + 1, n) = p
        <3>1. PICK m \in Nat : m = n + 1 /\ n \in 0 .. m /\ n \in 0 .. n
            BY <1>1
        <3>2. /\ \A i \in 1 .. m : y[i] \in Text
              /\ \A i \in 1 .. n : x[i] \in Text
              /\ \A i \in 1 .. n : y[i] = x[i]
            BY <1>2, <2>1, <2>2, <3>1 DEF Text, U
        <3>3. FlatTo(y, m, n) = FlatTo(x, n, n)
            BY <1>1, <3>1, <3>2, FlatToSame
        <3> QED BY <3>1, <3>3 DEF p
    <2>5. p \o << >> = p
        BY <1>4, ConcatEmptySeq
    <2>6. Check!LettersOf(y) = Check!Letters(p)
        BY <2>1, <2>3, <2>4, <2>5, LettersOfFlat
    <2>7. Check!Extended(x, c) = y
        BY <1>7 DEF Check!Extended, y
    <2> QED BY <1>5, <1>6, <1>7, <2>6, <2>7 DEF More, Forgiven
<1>8. CASE c # "|"
    <2> DEFINE e == Append(x[n], c)
               y == [x EXCEPT ![n] = e]
    <2>1. e \in Seq(U) /\ e = x[n] \o <<c>> /\ <<c>> \in Seq(U)
        BY <1>1, <1>2 DEF U
    <2> HIDE DEF e
    <2>2. /\ y \in Seq(Text) /\ Len(y) = n
          /\ \A i \in 1 .. n : y[i] = IF i = n THEN e ELSE x[i]
        <3>1. e \in Text
            BY <2>1 DEF Text, U
        <3>2. y \in [1 .. n -> Text]
            BY <1>1, <3>1
        <3>3. \A i \in 1 .. n : y[i] = IF i = n THEN e ELSE x[i]
            BY <1>1
        <3> HIDE DEF y, Text
        <3>4. y \in Seq(Text) /\ Len(y) = n
            BY <1>1, <3>2
        <3> QED BY <3>3, <3>4
    <2>3. Check!Extended(x, c) = y
        BY <1>8 DEF Check!Extended, e, n
    <2> HIDE DEF y
    <2>4. \A i \in 1 .. n : y[i] \in Seq(U)
        BY <1>2, <2>1, <2>2
    <2>5. FlatTo(y, n, n) = FlatTo(y, n, n - 1) \o e
        <3>1. n - 1 \in 0 .. n - 1 /\ (n - 1) + 1 = n /\ y[n] = e
            BY <1>1, <2>2
        <3>2. FlatTo(y, n, (n - 1) + 1) = FlatTo(y, n, n - 1) \o y[(n - 1) + 1]
            BY <1>1, <2>4, <3>1, FlatToStep
        <3> QED BY <3>1, <3>2
    <2>6. FlatTo(y, n, n - 1) = q
        <3>1. PICK m \in 0 .. n : m = n - 1
            BY <1>1
        <3>2. /\ \A i \in 1 .. n : y[i] \in Text /\ x[i] \in Text
              /\ \A i \in 1 .. m : y[i] = x[i]
            BY <1>1, <1>2, <2>2, <2>4, <3>1 DEF Text, U
        <3>3. FlatTo(y, n, m) = FlatTo(x, n, m)
            BY <1>1, <3>1, <3>2, FlatToSame
        <3> QED BY <3>1, <3>3 DEF q
    <2>7. q \o e = p \o <<c>>
        <3>1. PICK b \in Seq(U), d \in Seq(U) : b = x[n] /\ d = <<c>>
            BY <1>1, <1>2, <2>1
        <3>2. (q \o b) \o d = q \o (b \o d)
            BY <1>4, ConcatAssociative
        <3> QED BY <1>4, <2>1, <3>1, <3>2
    <2>8. Check!LettersOf(y) = Check!Letters(p \o <<c>>)
        BY <2>2, <2>5, <2>6, <2>7, LettersOfFlat
    <2>9. Check!Letters(p \o <<c>>) = Check!Letters(p) \o Check!Letters(<<c>>)
        <3>1. <<c>> \in Wording
            BY <1>1, <1>6, LettersOne
        <3> QED BY <1>6, <3>1, LettersPlus
    <2>10. Check!Letters(p) \o Check!Letters(<<c>>) = More(Check!Letters(p), c)
        BY <1>1, <1>6, LettersOne
    <2> QED BY <1>5, <1>6, <2>3, <2>8, <2>9, <2>10
<1> QED BY <1>7, <1>8

\* Splitting a text keeps its letters, ...
LEMMA LettersSplit ==
    ASSUME NEW s \in Text
    PROVE  Check!LettersOf(Check!Split(s)) = Check!Letters(s)
<1> DEFINE S == {k \in 0 .. Len(s) : Check!LettersOf(Splitting(s)[k]) = Collecting(s)[k]}
<1>1. /\ Len(s) \in Nat /\ s \in Wording
      /\ \A i \in 1 .. Len(s) : s[i] \in Chars \cup {"|"}
    <2>1. Chars \cup {"|"} \subseteq Letter
        BY DEF Letter
    <2> QED BY <2>1, SeqMonotonic DEF Text, Wording
<1>2. 0 \in S
    <2>1. PICK x : x = << << >> >>
        OBVIOUS
    <2>2. x \in Seq(Seq(Letter)) /\ Len(x) = 1 /\ x[1] = << >> /\ << >> \in Wording
        BY <2>1 DEF Wording
    <2>3. FlatTo(x, 1, 1) = Flat(x, 1)[1] /\ Flat(x, 1)[1] = x[1]
        <3>1. 1 \in Nat /\ 1 \in 1 .. 1 /\ 1 # 0
            OBVIOUS
        <3> QED BY <3>1, FlatStep DEF FlatTo
    <2>4. Check!LettersOf(x) = Check!Letters(<< >>)
        BY <2>2, <2>3, LettersOfFlat
    <2>5. Check!Letters(<< >>) = << >>
        <3>1. \A i \in 1 .. Len(<< >>) : FALSE
            OBVIOUS
        <3> QED BY <2>2, <3>1, NoLetters
    <2>6. Splitting(s)[0] = x /\ Collecting(s)[0] = << >>
        BY <1>1, <2>1, SplitStep, LettersStep
    <2> QED BY <1>1, <2>4, <2>5, <2>6
<1>3. ASSUME NEW k \in 0 .. Len(s) - 1, k \in S PROVE k + 1 \in S
    <2>1. k + 1 \in 1 .. Len(s) /\ k + 1 \in 0 .. Len(s) /\ k \in 0 .. Len(s) /\ (k + 1) - 1 = k
        BY <1>1
    <2>2. PICK x : x = Splitting(s)[k]
        OBVIOUS
    <2>3. x \in Seq(Text) /\ Len(x) >= 1 /\ Splitting(s)[k + 1] = Check!Extended(x, s[k + 1])
        BY <2>1, <2>2, SplitStep
    <2>4. Check!LettersOf(Check!Extended(x, s[k + 1])) = More(Check!LettersOf(x), s[k + 1])
        BY <1>1, <2>1, <2>3, LettersExtended
    <2>5. Collecting(s)[k + 1] = More(Collecting(s)[k], s[k + 1])
        BY <1>1, <2>1, LettersStep
    <2> QED BY <1>3, <2>1, <2>2, <2>3, <2>4, <2>5
<1> HIDE DEF S
<1>4. \A k \in 0 .. Len(s) : k \in S
    BY <1>1, <1>2, <1>3, Upwards
<1>5. Len(s) \in S
    BY <1>1, <1>4
<1>6. Check!LettersOf(Splitting(s)[Len(s)]) = Collecting(s)[Len(s)]
    BY <1>5, Zenon DEF S
<1> QED BY <1>1, <1>6, SplitStep, LettersStep

\* ... and so does joining.
LEMMA LettersJoin ==
    ASSUME NEW t \in Seq(Seq(Chars))
    PROVE  Check!Join(t) \in Text /\ Check!Letters(Check!Join(t)) = Check!LettersOf(t)
<1> DEFINE n == Len(t)
           ss == Parted(t)
<1>1. n \in Nat /\ \A g \in 1 .. n : t[g] \in Text /\ ss[g] \in Text
    BY PartedTexts
<1>2. \A s \in Text : s \in Wording
    <2>1. Chars \cup {"|"} \subseteq Letter
        BY DEF Letter
    <2> QED BY <2>1, SeqMonotonic DEF Text, Wording
<1>3. ASSUME NEW g \in 1 .. n PROVE Check!Letters(ss[g]) = Check!Letters(t[g])
    <2>1. ss[g] = IF g = 1 THEN t[g] ELSE <<"|">> \o t[g]
        BY <1>3 DEF Parted
    <2>2. Check!Letters(<<"|">> \o t[g]) = Check!Letters(t[g])
        <3>1. PICK b : b = <<"|">>
            OBVIOUS
        <3>2. b \in Wording /\ Len(b) = 1 /\ b[1] = "|"
            BY <3>1 DEF Wording, Letter
        <3>3. Check!Letters(b) = << >>
            <4>1. \A i \in 1 .. Len(b) : b[i] \in Forgiven
                <5>1. \A i \in 1 .. Len(b) : i = 1
                    BY <3>2
                <5> QED BY <3>2, <5>1 DEF Forgiven
            <4> QED BY <3>2, <4>1, NoLetters
        <3>4. t[g] \in Wording
            BY <1>1, <1>2
        <3>5. Check!Letters(b \o t[g]) = Check!Letters(b) \o Check!Letters(t[g])
              /\ Check!Letters(t[g]) \in Wording
            BY <3>2, <3>4, LettersPlus
        <3>6. << >> \o Check!Letters(t[g]) = Check!Letters(t[g])
            BY <3>5, ConcatEmptySeq DEF Wording
        <3> QED BY <3>1, <3>3, <3>5, <3>6
    <2> QED BY <2>1, <2>2
<1>4. Check!Join(t) = FlatTo(ss, n, n)
    BY JoinFlattens
<1> HIDE DEF ss, n
<1>5. Check!Letters(FlatTo(ss, n, n)) = Check!Letters(FlatTo(t, n, n))
    BY <1>1, <1>2, <1>3, LettersFlat
<1>6. Check!LettersOf(t) = Check!Letters(FlatTo(t, n, n))
    BY LettersOfFlat DEF n
<1>7. FlatTo(ss, n, n) \in Text
    <2>1. CASE n = 0
        BY <2>1 DEF FlatTo, Text
    <2>2. CASE n # 0
        <3>1. n \in 1 .. n /\ \A i \in 1 .. n : ss[i] \in Seq(Chars \cup {"|"})
            BY <1>1, <2>2 DEF Text
        <3>2. Flat(ss, n)[n] \in Seq(Chars \cup {"|"})
            BY <1>1, <3>1, FlatIsSeq
        <3> QED BY <2>2, <3>2 DEF FlatTo, Text
    <2> QED BY <2>1, <2>2
<1> QED BY <1>4, <1>5, <1>6, <1>7

\* The fields that are posted.
LEMMA FilledAreTexts ==
    ASSUME NEW t \in Seq(Seq(Chars))
    PROVE  Check!Filled(t) \in Seq(Seq(Chars))
<1> DEFINE S == {n \in 0 .. Len(t) : \A g \in 1 .. n : t[g] # << >>}
<1>1. Len(t) \in Nat /\ 0 \in S
    OBVIOUS
<1>2. S \subseteq 0 .. Len(t)
    OBVIOUS
<1> HIDE DEF S
<1>3. Check!Max(S) \in S
    <2>1. \E m \in S : \A k \in S : m >= k
        BY <1>1, <1>2, GreatestNumber
    <2> QED BY <2>1 DEF Check!Max
<1>4. PICK m \in 0 .. Len(t) : m = Check!Max(S)
    BY <1>2, <1>3
<1>5. SubSeq(t, 1, m) \in Seq(Seq(Chars))
    <2>1. m \in Int /\ 1 \in Int /\ \A i \in 1 .. m : t[i] \in Seq(Chars)
        OBVIOUS
    <2> QED BY <2>1, SubSeqProperties
<1>6. Check!Filled(t) = SubSeq(t, 1, Check!Max(S))
    BY DEF Check!Filled, S
<1> QED BY <1>4, <1>5, <1>6

\* RightIsCorrect: who gets it right has posted the letters of the correct
\* answer, all and no more, because neither joining nor splitting nor
\* normalizing changes the letters of a text.
THEOREM NothingElseRight == Check!Spec => []RightIsCorrect
<1>1. ASSUME CheckKept, verdict
      PROVE  Check!LettersOf(IF fill THEN Check!Filled(typed) ELSE typed) = Check!LettersOf(right)
    <2> DEFINE n == Len(right)
    <2>1. /\ n \in Nat /\ n >= 1 /\ Len(typed) = n /\ DOMAIN right = 1 .. n
          /\ \A g \in 1 .. n : right[g] \in Seq(Chars) /\ typed[g] \in Seq(Chars)
          /\ typed \in Seq(Seq(Chars)) /\ right \in Seq(Seq(Chars)) /\ (~fill => n = 1)
        BY <1>1 DEF CheckKept
    <2>2. stored = Post /\ Check!Judge(stored)
        BY <1>1 DEF CheckKept, Check!Judged
    <2>3. \A s \in Text : s \in Wording
        <3>1. Chars \cup {"|"} \subseteq Letter
            BY DEF Letter
        <3> QED BY <3>1, SeqMonotonic DEF Text, Wording
    <2>4. \A g \in 1 .. n : right[g] \in Wording /\ typed[g] \in Wording
        <3>1. Chars \subseteq Letter
            BY DEF Letter
        <3> QED BY <2>1, <3>1, SeqMonotonic DEF Wording
    <2>5. ASSUME NEW s \in Wording, NEW t \in Wording,
                 Check!NormalizeAnswer(s) = Check!NormalizeAnswer(t)
          PROVE  Check!Letters(s) = Check!Letters(t)
        BY <2>5, LettersNormal
    <2>6. ASSUME fill PROVE Check!LettersOf(Check!Filled(typed)) = Check!LettersOf(right)
        <3> DEFINE f == Check!Filled(typed)
        <3>1. f \in Seq(Seq(Chars))
            BY <2>1, FilledAreTexts
        <3>2. stored = Check!Join(f)
            BY <2>2, <2>6 DEF Post
        <3> HIDE DEF f
        <3>3. stored \in Text /\ Check!Letters(stored) = Check!LettersOf(f)
            BY <3>1, <3>2, LettersJoin
        <3>4. PICK x : x = Check!Split(stored)
            OBVIOUS
        <3>5. x \in Seq(Text) /\ Check!LettersOf(x) = Check!Letters(stored)
            <4>1. stored \in Text /\ Len(stored) \in 0 .. Len(stored)
                BY <3>3 DEF Text
            <4>2. x = Splitting(stored)[Len(stored)] /\ x \in Seq(Text)
                BY <3>4, <4>1, SplitStep
            <4> QED BY <3>3, <3>4, <4>2, LettersSplit
        <3>6. Check!CheckFillAnswer(x)
            BY <2>2, <2>6, <3>4 DEF Check!Judge
        <3>7. Len(x) = n /\ \A g \in 1 .. n : Check!NormalizeAnswer(x[g]) = Check!NormalizeAnswer(right[g])
            BY <2>1, <3>6 DEF Check!CheckFillAnswer
        <3> HIDE DEF n
        <3>8. \A g \in 1 .. n : x[g] \in Wording
            <4> HIDE DEF Text
            <4>1. \A g \in 1 .. n : x[g] \in Text
                BY <3>5, <3>7
            <4> QED BY <2>3, <4>1
        <3>9. \A g \in 1 .. n : Check!Letters(x[g]) = Check!Letters(right[g])
            BY <2>4, <2>5, <3>7, <3>8
        <3>10. Check!Letters(FlatTo(x, n, n)) = Check!Letters(FlatTo(right, n, n))
            BY <2>1, <2>4, <3>8, <3>9, LettersFlat
        <3>11. /\ Check!LettersOf(x) = Check!Letters(FlatTo(x, n, n))
               /\ Check!LettersOf(right) = Check!Letters(FlatTo(right, n, n))
            BY <2>1, <3>5, <3>7, LettersOfFlat DEF n
        <3> QED BY <3>3, <3>5, <3>10, <3>11 DEF f
    <2>7. ASSUME ~fill PROVE Check!LettersOf(typed) = Check!LettersOf(right)
        <3>1. stored = typed[1] /\ n = 1 /\ 1 \in 1 .. 1
            BY <2>1, <2>2, <2>7 DEF Post
        <3>2. Check!NormalizeAnswer(typed[1]) = Check!NormalizeAnswer(right[1])
            BY <2>2, <2>7, <3>1 DEF Check!Judge
        <3>3. \A g \in 1 .. 1 : /\ typed[g] \in Wording /\ right[g] \in Wording
                                /\ Check!Letters(typed[g]) = Check!Letters(right[g])
            <4>1. \A g \in 1 .. 1 : g = 1
                OBVIOUS
            <4> QED BY <2>4, <2>5, <3>1, <3>2, <4>1
        <3>4. Check!Letters(FlatTo(typed, 1, 1)) = Check!Letters(FlatTo(right, 1, 1))
            BY <3>3, LettersFlat
        <3>5. /\ Check!LettersOf(typed) = Check!Letters(FlatTo(typed, 1, 1))
              /\ Check!LettersOf(right) = Check!Letters(FlatTo(right, 1, 1))
            BY <2>1, <3>1, LettersOfFlat
        <3> QED BY <3>4, <3>5
    <2> QED BY <2>6, <2>7
<1>2. CheckKept => RightIsCorrect
    BY <1>1 DEF RightIsCorrect, Check!RightIsCorrect
<1> QED BY <1>2, CheckInvariant, PTL

-----------------------------------------------------------------------------
(* The components together                                                 *)

\* SeparateSpec, in which only the subject moves, is a behaviour of its subject,
\* so that what is proved of the component holds of it.
THEOREM SeparateIsSubject ==
    SeparateSpec => /\ subject = "material" => Spec
                    /\ subject = "options" => Options!Spec
                    /\ subject = "gaps" => Gaps!Spec
                    /\ subject = "check" => Check!Spec
                    /\ subject = "points" => Points!Spec
<1> DEFINE all == <<subject, vars, optionsVars, gapsVars, checkVars, pointsVars>>
<1>1. subject = "material" /\ SeparateSpec => Spec
    <2>1. SeparateInit /\ subject = "material" => Init
        BY DEF SeparateInit
    <2>2. subject = "material" /\ [SeparateNext]_all => (subject = "material")' /\ [Next]_vars
        BY DEF SeparateNext, vars, optionsVars, gapsVars, checkVars, pointsVars,
               Options!vars, Options!stored, Options!page, Options!flags, Gaps!vars,
               Check!vars, Points!vars, Points!history
    <2> QED BY <2>1, <2>2, PTL DEF SeparateSpec, Spec
<1>2. subject = "options" /\ SeparateSpec => Options!Spec
    <2>1. SeparateInit /\ subject = "options" => Options!Init
        BY DEF SeparateInit
    <2>2. subject = "options" /\ [SeparateNext]_all => (subject = "options")' /\ [Options!Next]_(Options!vars)
        BY DEF SeparateNext, vars, optionsVars, gapsVars, checkVars, pointsVars,
               Options!vars, Options!stored, Options!page, Options!flags, Gaps!vars,
               Check!vars, Points!vars, Points!history
    <2> QED BY <2>1, <2>2, PTL DEF SeparateSpec, Options!Spec
<1>3. subject = "gaps" /\ SeparateSpec => Gaps!Spec
    <2>1. SeparateInit /\ subject = "gaps" => Gaps!Init
        BY DEF SeparateInit
    <2>2. subject = "gaps" /\ [SeparateNext]_all => (subject = "gaps")' /\ [Gaps!Next]_(Gaps!vars)
        BY DEF SeparateNext, vars, optionsVars, gapsVars, checkVars, pointsVars,
               Options!vars, Options!stored, Options!page, Options!flags, Gaps!vars,
               Check!vars, Points!vars, Points!history
    <2> QED BY <2>1, <2>2, PTL DEF SeparateSpec, Gaps!Spec
<1>4. subject = "check" /\ SeparateSpec => Check!Spec
    <2>1. SeparateInit /\ subject = "check" => Check!Init
        BY DEF SeparateInit
    <2>2. subject = "check" /\ [SeparateNext]_all => (subject = "check")' /\ [Check!Next]_(Check!vars)
        BY DEF SeparateNext, vars, optionsVars, gapsVars, checkVars, pointsVars,
               Options!vars, Options!stored, Options!page, Options!flags, Gaps!vars,
               Check!vars, Points!vars, Points!history
    <2> QED BY <2>1, <2>2, PTL DEF SeparateSpec, Check!Spec
<1>5. subject = "points" /\ SeparateSpec => Points!Spec
    <2>1. SeparateInit /\ subject = "points" => Points!Init
        BY DEF SeparateInit
    <2>2. subject = "points" /\ [SeparateNext]_all => (subject = "points")' /\ [Points!Next]_(Points!vars)
        BY DEF SeparateNext, vars, optionsVars, gapsVars, checkVars, pointsVars,
               Options!vars, Options!stored, Options!page, Options!flags, Gaps!vars,
               Check!vars, Points!vars, Points!history
    <2> QED BY <2>1, <2>2, PTL DEF SeparateSpec, Points!Spec
<1> QED BY <1>1, <1>2, <1>3, <1>4, <1>5

=============================================================================
