------------------------- MODULE BlockStreamProofs --------------------------
(* Proofs about BlockStream: the blocks implement a stream of bytes, for
   blocks and calls of any size; and about SegmentReader, whose decoders read
   from such blocks. *)
EXTENDS BlockStream, SegmentReader, SequenceTheorems, FiniteSetTheorems, TLAPS

\* Induction over the numbers, for a set of them.  If k were missing, adding 1
\* would map the members up to k into themselves and leave out 0.
LEMMA SetInduction ==
    ASSUME NEW S, 0 \in S, \A n \in Nat : n \in S => n + 1 \in S
    PROVE  Nat \subseteq S
<1> SUFFICES ASSUME NEW k \in Nat, k \notin S PROVE FALSE
    OBVIOUS
<1> DEFINE A == S \cap (0..k)
           f == [n \in A |-> n + 1]
           B == {f[n] : n \in A}
<1>1. B \subseteq A
    OBVIOUS
<1>2. f \in [A -> B]
    OBVIOUS
<1>3. \A m, n \in A : f[m] = f[n] => m = n
    OBVIOUS
<1>4. \A b \in B : \E n \in A : f[n] = b
    OBVIOUS
<1>5. ExistsBijection(A, B)
    <2> HIDE DEF A, B, f
    <2> QED
        BY <1>2, <1>3, <1>4 DEF ExistsBijection, Bijection, Injection, IsInjective, Surjection
<1>6. IsFiniteSet(A)
    <2>1. A \in SUBSET (0..k)
        OBVIOUS
    <2>2. IsFiniteSet(0..k)
        BY FS_Interval
    <2> HIDE DEF A
    <2> QED
        BY <2>1, <2>2, FS_Subset
<1>7. Cardinality(B) = Cardinality(A)
    <2> HIDE DEF A, B, f
    <2> QED
        BY <1>5, <1>6, FS_Bijection
<1>8. A = B
    <2> HIDE DEF A, B, f
    <2> QED
        BY <1>1, <1>6, <1>7, FS_Subset
<1> QED
    BY <1>8

LEMMA BoundedInduction ==
    ASSUME NEW n \in Nat, NEW S, 0 \in S, \A i \in 1..n : i - 1 \in S => i \in S
    PROVE  0..n \subseteq S
<1> DEFINE T == {k \in Nat : k <= n => k \in S}
<1>1. 0 \in T
    OBVIOUS
<1>2. ASSUME NEW k \in Nat, k \in T PROVE k + 1 \in T
    <2>1. CASE k + 1 <= n
        <3>1. k + 1 \in 1..n /\ (k + 1) - 1 = k /\ k \in S
            BY <1>2, <2>1
        <3> QED
            BY <3>1
    <2>2. CASE k + 1 > n
        BY <2>2
    <2> QED
        BY <2>1, <2>2
<1>3. Nat \subseteq T
    <2> HIDE DEF T
    <2> QED
        BY <1>1, <1>2, SetInduction
<1> QED
    BY <1>3

\* A step that is taken n times gives a value each time.
Steps(X) == [Nat -> [X -> X]]
Runs(base, step, n, X) ==
    {f \in [0..n -> X] : f[0] = base /\ \A i \in 1..n : f[i] = step[i][f[i - 1]]}

LEMMA Iteration ==
    ASSUME NEW X, NEW base \in X, NEW step \in Steps(X), NEW n \in Nat
    PROVE  \E f : f \in Runs(base, step, n, X)
<1> USE DEF Steps
<1> DEFINE Iterates(f, k) == f[0] = base /\ \A i \in 1..k : f[i] = step[i][f[i - 1]]
           S == {k \in Nat : \E f \in [0..k -> X] : Iterates(f, k)}
<1>1. 0 \in S
    <2>1. [i \in 0..0 |-> base] \in [0..0 -> X] /\ Iterates([i \in 0..0 |-> base], 0)
        OBVIOUS
    <2> QED
        BY <2>1
<1>2. ASSUME NEW k \in Nat, k \in S PROVE k + 1 \in S
    <2>1. PICK f \in [0..k -> X] : Iterates(f, k)
        BY <1>2
    <2> DEFINE g == [i \in 0..k + 1 |-> IF i = k + 1 THEN step[k + 1][f[k]] ELSE f[i]]
    <2>2. f[k] \in X
        OBVIOUS
    <2>3. step[k + 1][f[k]] \in X
        BY <2>2
    <2>4. g \in [0..k + 1 -> X]
        BY <2>3
    <2>5. g[0] = base
        BY <2>1
    <2>6. ASSUME NEW i \in 1..k + 1 PROVE g[i] = step[i][g[i - 1]]
        <3>1. CASE i = k + 1
            BY <3>1
        <3>2. CASE i \in 1..k
            BY <2>1, <3>2
        <3> QED
            BY <3>1, <3>2
    <2>7. Iterates(g, k + 1)
        BY <2>5, <2>6
    <2> HIDE DEF g, Iterates
    <2> QED
        BY <2>4, <2>7
<1>3. Nat \subseteq S
    <2> HIDE DEF S
    <2> QED
        BY <1>1, <1>2, SetInduction
<1> QED
    BY <1>3 DEF Runs

\* What FlattenSeq computes, if its recursion has a solution.
LEMMA FlattenIs ==
    ASSUME NEW s, Len(s) # 0, NEW f,
           f = [i \in 1..Len(s) |-> IF i = 1 THEN s[i] ELSE f[i - 1] \o s[i]]
    PROVE  \E g : /\ g = [i \in 1..Len(s) |-> IF i = 1 THEN s[i] ELSE g[i - 1] \o s[i]]
                  /\ FlattenSeq(s) = g[Len(s)]
<1> DEFINE g == CHOOSE h : h = [i \in 1..Len(s) |-> IF i = 1 THEN s[i] ELSE h[i - 1] \o s[i]]
<1>1. g = [i \in 1..Len(s) |-> IF i = 1 THEN s[i] ELSE g[i - 1] \o s[i]]
    OBVIOUS
<1>2. FlattenSeq(s) = g[Len(s)]
    BY DEF FlattenSeq
<1> QED
    BY <1>1, <1>2

\* The recursion has one, of sequences if the parts are sequences.
LEMMA FlattenSolved ==
    ASSUME NEW R, NEW s \in Seq(Seq(R)), s # <<>>
    PROVE  \E g : /\ g = [i \in 1..Len(s) |-> IF i = 1 THEN s[i] ELSE g[i - 1] \o s[i]]
                  /\ FlattenSeq(s) = g[Len(s)]
                  /\ g \in [1..Len(s) -> Seq(R)]
<1> DEFINE n == Len(s)
           X == Seq(R)
           step == [i \in Nat |-> [x \in X |-> IF i \in 1..n THEN x \o s[i] ELSE x]]
<1>1. n \in Nat \ {0} /\ <<>> \in X
    OBVIOUS
<1>2. \A i \in 1..n : s[i] \in X
    BY ElementOfSeq
<1>3. step \in Steps(X)
    <2> SUFFICES ASSUME NEW i \in 1..n, NEW x \in X PROVE x \o s[i] \in X
        <3> HIDE DEF n, X
        <3> QED
            BY DEF Steps
    <2> QED
        BY <1>2, ConcatProperties
<1>4. PICK h : h \in Runs(<<>>, step, n, X)
    <2> HIDE DEF step, n, X
    <2> QED
        BY <1>1, <1>3, Iteration
<1>5. h \in [0..n -> X] /\ h[0] = <<>> /\ \A i \in 1..n : h[i] = step[i][h[i - 1]]
    BY <1>4 DEF Runs
<1>6. ASSUME NEW i \in 1..n PROVE h[i] = IF i = 1 THEN s[i] ELSE h[i - 1] \o s[i]
    <2>1. h[i - 1] \in X /\ i \in Nat
        <3> HIDE DEF n, step, X
        <3> QED
            BY <1>1, <1>5
    <2>2. step[i][h[i - 1]] = h[i - 1] \o s[i]
        <3> HIDE DEF n, X
        <3> QED
            BY <2>1
    <2>3. h[i] = h[i - 1] \o s[i]
        BY <1>5, <2>2
    <2>4. CASE i = 1
        <3>1. h[i - 1] = <<>>
            BY <1>5, <2>4
        <3>2. s[i] \in Seq(R)
            BY <1>2
        <3> QED
            BY <2>3, <2>4, <3>1, <3>2
    <2> QED
        BY <2>3, <2>4
<1> DEFINE f == [i \in 1..n |-> h[i]]
<1>7. f = [i \in 1..n |-> IF i = 1 THEN s[i] ELSE f[i - 1] \o s[i]]
    <2>1. ASSUME NEW i \in 1..n PROVE h[i] = IF i = 1 THEN s[i] ELSE f[i - 1] \o s[i]
        <3>1. CASE i # 1
            <4>1. i - 1 \in 1..n
                BY <1>1, <3>1
            <4>2. f[i - 1] = h[i - 1]
                <5> HIDE DEF n
                <5> QED
                    BY <4>1
            <4> HIDE DEF f, n
            <4> QED
                BY <1>6, <3>1, <4>2
        <3> QED
            BY <1>6, <3>1
    <2>2. f = [i \in 1..n |-> h[i]]
        OBVIOUS
    <2> HIDE DEF f, n
    <2> QED
        BY <2>1, <2>2
<1>8. PICK g : /\ g = [i \in 1..n |-> IF i = 1 THEN s[i] ELSE g[i - 1] \o s[i]]
               /\ FlattenSeq(s) = g[n]
    <2>1. \E k : k = [i \in 1..n |-> IF i = 1 THEN s[i] ELSE k[i - 1] \o s[i]]
        BY <1>7
    <2> QED
        BY <1>1, <2>1, FlattenIs
<1>9. \A i \in 1..n : g[i] \in X
    <2> DEFINE S == {i \in 0..n : i = 0 \/ g[i] \in X}
    <2>1. 0 \in S
        BY <1>1
    <2>2. ASSUME NEW i \in 1..n, i - 1 \in S PROVE i \in S
        <3>1. s[i] \in X
            BY <1>2
        <3>2. CASE i = 1
            <4>1. g[i] = s[i]
                BY <1>8, <3>2
            <4> QED
                BY <1>1, <3>1, <4>1
        <3>3. CASE i # 1
            <4>1. g[i - 1] \in X
                BY <2>2, <3>3
            <4>2. g[i] = g[i - 1] \o s[i]
                BY <1>8, <3>3
            <4>3. g[i] \in X
                BY <3>1, <4>1, <4>2, ConcatProperties
            <4> QED
                BY <1>1, <4>3
        <3> QED
            BY <3>2, <3>3
    <2>3. 0..n \subseteq S
        <3> HIDE DEF S
        <3> QED
            BY <1>1, <2>1, <2>2, BoundedInduction
    <2> QED
        BY <2>3
<1>10. g \in [1..n -> X]
    <2> HIDE DEF n, X
    <2> QED
        BY <1>8, <1>9
<1> QED
    BY <1>8, <1>10

\* Flattening, one part more.
LEMMA FlattenEmpty == FlattenSeq(<<>>) = <<>>
BY DEF FlattenSeq

LEMMA FlattenAppend ==
    ASSUME NEW R, NEW s \in Seq(Seq(R)), NEW b \in Seq(R)
    PROVE  /\ FlattenSeq(s) \in Seq(R)
           /\ FlattenSeq(Append(s, b)) = FlattenSeq(s) \o b
<1> DEFINE n == Len(s)
           t == Append(s, b)
<1>1. /\ n \in Nat /\ t \in Seq(Seq(R)) /\ Len(t) = n + 1 /\ t # <<>>
      /\ t[n + 1] = b /\ \A i \in 1..n : t[i] = s[i]
    BY AppendProperties, LenProperties
<1>2. PICK h : /\ h = [i \in 1..n + 1 |-> IF i = 1 THEN t[i] ELSE h[i - 1] \o t[i]]
               /\ FlattenSeq(t) = h[n + 1]
    <2>1. /\ t \in Seq(Seq(R)) /\ t # <<>> /\ Len(t) = n + 1
        BY <1>1
    <2> HIDE DEF t, n
    <2>2. \E h : /\ h = [i \in 1..Len(t) |-> IF i = 1 THEN t[i] ELSE h[i - 1] \o t[i]]
                 /\ FlattenSeq(t) = h[Len(t)]
        BY <2>1, FlattenSolved
    <2> QED
        BY <2>1, <2>2
<1>3. CASE s = <<>>
    <2>1. n = 0
        BY <1>3
    <2>2. h[1] = t[1] /\ t[1] = b
        BY <1>1, <1>2, <2>1
    <2>3. FlattenSeq(s) = <<>>
        BY <1>3, FlattenEmpty
    <2>4. FlattenSeq(t) = b
        BY <1>2, <2>1, <2>2
    <2>5. <<>> \in Seq(R) /\ <<>> \o b = b
        BY ConcatEmptySeq
    <2> QED
        BY <2>3, <2>4, <2>5
<1>4. CASE s # <<>>
    <2>1. PICK g : /\ g = [i \in 1..n |-> IF i = 1 THEN s[i] ELSE g[i - 1] \o s[i]]
                   /\ FlattenSeq(s) = g[n]
                   /\ g \in [1..n -> Seq(R)]
        BY <1>4, FlattenSolved
    <2>2. n \in 1..n
        BY <1>4
    <2> HIDE DEF t, n
    <2> DEFINE S == {i \in 0..n : i = 0 \/ g[i] = h[i]}
    <2>3. 0 \in S
        BY <1>1
    <2>4. ASSUME NEW i \in 1..n, i - 1 \in S PROVE i \in S
        <3>1. i \in 1..n + 1 /\ i \in 0..n
            BY <1>1
        <3>2. /\ h[i] = IF i = 1 THEN t[i] ELSE h[i - 1] \o t[i]
              /\ g[i] = IF i = 1 THEN s[i] ELSE g[i - 1] \o s[i]
            BY <1>2, <2>1, <3>1
        <3>3. t[i] = s[i] /\ (i = 1 \/ g[i - 1] = h[i - 1])
            BY <1>1, <2>4
        <3> QED
            BY <3>1, <3>2, <3>3
    <2>5. 0..n \subseteq S
        <3> HIDE DEF S
        <3> QED
            BY <1>1, <2>3, <2>4, BoundedInduction
    <2>6. g[n] = h[n]
        BY <2>2, <2>5
    <2>7. n + 1 \in 1..n + 1 /\ n + 1 # 1 /\ (n + 1) - 1 = n
        BY <1>1, <2>2
    <2>8. h[n + 1] = h[n] \o t[n + 1]
        BY <1>2, <2>7
    <2>9. FlattenSeq(s) \in Seq(R)
        BY <2>1, <2>2
    <2>10. FlattenSeq(t) = FlattenSeq(s) \o b
        BY <1>1, <1>2, <2>1, <2>6, <2>8
    <2> QED
        BY <2>9, <2>10 DEF t
<1> QED
    BY <1>3, <1>4

LEMMA FlattenSingle ==
    ASSUME NEW R, NEW b \in Seq(R) PROVE FlattenSeq(<<b>>) = b
<1>1. <<>> \in Seq(Seq(R)) /\ Append(<<>>, b) = <<b>>
    OBVIOUS
<1>2. FlattenSeq(Append(<<>>, b)) = FlattenSeq(<<>>) \o b
    BY <1>1, FlattenAppend
<1> QED
    BY <1>1, <1>2, FlattenEmpty, ConcatEmptySeq

LEMMA PrefixGrows ==
    ASSUME NEW X, NEW s \in Seq(X), NEW i \in 1..Len(s)
    PROVE  /\ SubSeq(s, 1, i - 1) \in Seq(X)
           /\ s[i] \in X
           /\ SubSeq(s, 1, i) = Append(SubSeq(s, 1, i - 1), s[i])
<1>1. /\ 1 \in 1..Len(s) /\ i \in 1..Len(s) /\ i - 1 \in Int /\ Len(s) \in Nat
    BY LenProperties
<1>2. s[i] \in X
    BY ElementOfSeq
<1>3. SubSeq(s, 1, i - 1) \in Seq(X)
    <2>1. \A j \in 1..i - 1 : s[j] \in X
        BY <1>1, ElementOfSeq
    <2> QED
        BY <1>1, <2>1, SubSeqProperties
<1>4. SubSeq(s, 1, i) = SubSeq(s, 1, i - 1) \o <<s[i]>>
    <2>1. i \in 1..Len(s) /\ 1 \in 1..Len(s)
        BY <1>1
    <2> QED
        BY <2>1, SubSeqRecursiveSecond
<1> QED
    BY <1>2, <1>3, <1>4, AppendIsConcat

LEMMA FlattenPrefix ==
    ASSUME NEW R, NEW s \in Seq(Seq(R)), NEW i \in 1..Len(s)
    PROVE  /\ s[i] \in Seq(R)
           /\ FlattenSeq(SubSeq(s, 1, i - 1)) \in Seq(R)
           /\ FlattenSeq(SubSeq(s, 1, i)) = FlattenSeq(SubSeq(s, 1, i - 1)) \o s[i]
<1>1. /\ SubSeq(s, 1, i - 1) \in Seq(Seq(R)) /\ s[i] \in Seq(R)
      /\ SubSeq(s, 1, i) = Append(SubSeq(s, 1, i - 1), s[i])
    BY PrefixGrows
<1> QED
    BY <1>1, FlattenAppend

LEMMA FlattenType ==
    ASSUME NEW R, NEW s \in Seq(Seq(R)) PROVE FlattenSeq(s) \in Seq(R)
<1>1. <<>> \in Seq(R)
    OBVIOUS
<1> QED
    BY <1>1, FlattenAppend

LEMMA Associative ==
    ASSUME NEW R
    PROVE  \A x, y, z \in Seq(R) : (x \o y) \o z = x \o (y \o z)
BY ConcatAssociative

\* A block at the other end, first of a sequence, then of the bytes.
LEMMA AppendAfterBlock ==
    ASSUME NEW B, NEW c \in B, NEW y \in Seq(B), NEW e \in B
    PROVE  <<c>> \o Append(y, e) = Append(<<c>> \o y, e)
<1> DEFINE x == <<c>>
           z == <<e>>
<1>1. x \in Seq(B) /\ z \in Seq(B)
    OBVIOUS
<1>2. (x \o y) \o z = x \o (y \o z)
    <2> HIDE DEF x, z
    <2> QED
        BY <1>1, ConcatAssociative
<1>3. x \o y \in Seq(B)
    BY <1>1, ConcatProperties
<1>4. Append(y, e) = y \o z /\ Append(x \o y, e) = (x \o y) \o z
    BY <1>3, AppendIsConcat
<1> QED
    BY <1>2, <1>4

LEMMA FlattenCons ==
    ASSUME NEW R, NEW s \in Seq(Seq(R)), NEW b \in Seq(R)
    PROVE  FlattenSeq(<<b>> \o s) = b \o FlattenSeq(s)
<1> DEFINE n == Len(s)
           p(i) == SubSeq(s, 1, i)
           S == {i \in 0..n : FlattenSeq(<<b>> \o p(i)) = b \o FlattenSeq(p(i))}
<1>1. n \in Nat /\ <<b>> \in Seq(Seq(R))
    BY LenProperties
<1>assoc. \A x, y, z \in Seq(R) : (x \o y) \o z = x \o (y \o z)
    BY Associative
<1>2. 0 \in S
    <2>1. p(0) = <<>> /\ <<b>> \o <<>> = <<b>> /\ b \o <<>> = b
        BY <1>1, SubSeqEmpty, ConcatEmptySeq
    <2>2. FlattenSeq(<<b>> \o <<>>) = b /\ FlattenSeq(<<>>) = <<>>
        BY <2>1, FlattenEmpty, FlattenSingle
    <2>3. FlattenSeq(<<b>> \o p(0)) = b \o FlattenSeq(p(0))
        <3> HIDE DEF p
        <3> QED
            BY <2>1, <2>2
    <2>4. 0 \in 0..n
        BY <1>1
    <2> HIDE DEF p, n
    <2> QED
        BY <2>3, <2>4
<1>3. ASSUME NEW i \in 1..n, i - 1 \in S PROVE i \in S
    <2>1. /\ p(i - 1) \in Seq(Seq(R)) /\ s[i] \in Seq(R)
          /\ p(i) = Append(p(i - 1), s[i])
        BY PrefixGrows
    <2>2. FlattenSeq(<<b>> \o p(i - 1)) = b \o FlattenSeq(p(i - 1))
        BY <1>3
    <2> HIDE DEF p
    <2>3. <<b>> \o p(i - 1) \in Seq(Seq(R))
        BY <1>1, <2>1, ConcatProperties
    <2>4. <<b>> \o p(i) = Append(<<b>> \o p(i - 1), s[i])
        <3> DEFINE B == Seq(R)
                   y == p(i - 1)
                   e == s[i]
        <3>1. b \in B /\ y \in Seq(B) /\ e \in B
            BY <2>1
        <3>2. <<b>> \o Append(y, e) = Append(<<b>> \o y, e)
            <4> HIDE DEF B, y, e
            <4> QED
                BY <3>1, AppendAfterBlock
        <3> QED
            BY <2>1, <3>2
    <2>5. FlattenSeq(<<b>> \o p(i)) = (b \o FlattenSeq(p(i - 1))) \o s[i]
        BY <2>1, <2>2, <2>3, <2>4, FlattenAppend
    <2>6. /\ FlattenSeq(p(i - 1)) \in Seq(R)
          /\ FlattenSeq(p(i)) = FlattenSeq(p(i - 1)) \o s[i]
        BY <2>1, FlattenAppend
    <2>7. (b \o FlattenSeq(p(i - 1))) \o s[i] = b \o (FlattenSeq(p(i - 1)) \o s[i])
        <3> DEFINE x == s[i]
                   y == FlattenSeq(p(i - 1))
        <3>1. x \in Seq(R) /\ y \in Seq(R)
            BY <2>1, <2>6
        <3>2. (b \o y) \o x = b \o (y \o x)
            <4> HIDE DEF x, y
            <4> QED
                BY <3>1, <1>assoc
        <3> QED
            BY <3>2
    <2>8. i \in 0..n
        BY <1>1
    <2> QED
        BY <2>5, <2>6, <2>7, <2>8
<1>4. 0..n \subseteq S
    <2> HIDE DEF S
    <2> QED
        BY <1>1, <1>2, <1>3, BoundedInduction
<1>5. n \in 0..n /\ p(n) = s
    BY <1>1, SubSeqFull
<1> QED
    BY <1>4, <1>5

LEMMA FlattenHeadTail ==
    ASSUME NEW R, NEW s \in Seq(Seq(R)), s # <<>>
    PROVE  /\ Head(s) \in Seq(R) /\ Tail(s) \in Seq(Seq(R))
           /\ FlattenSeq(s) = Head(s) \o FlattenSeq(Tail(s))
<1>1. Head(s) \in Seq(R) /\ Tail(s) \in Seq(Seq(R))
    BY HeadTailProperties
<1>2. s = <<Head(s)>> \o Tail(s)
    <2>1. Len(s) \in Nat \ {0}
        BY EmptySeq
    <2>2. SubSeq(s, 1, Len(s)) = <<s[1]>> \o SubSeq(s, 1 + 1, Len(s))
        <3>1. 1 \in 1..Len(s) /\ Len(s) \in 1..Len(s)
            BY <2>1
        <3> QED
            BY <3>1, SubSeqRecursiveFirst
    <2>3. SubSeq(s, 1, Len(s)) = s /\ Tail(s) = SubSeq(s, 2, Len(s))
        BY SubSeqFull, TailIsSubSeq
    <2>4. Head(s) = s[1]
        OBVIOUS
    <2> QED
        BY <2>2, <2>3, <2>4
<1>3. FlattenSeq(<<Head(s)>> \o Tail(s)) = Head(s) \o FlattenSeq(Tail(s))
    BY <1>1, FlattenCons
<1> QED
    BY <1>1, <1>2, <1>3

-----------------------------------------------------------------------------

\* Two parts and where they meet.
LEMMA SplitConcat ==
    ASSUME NEW R, NEW a \in Seq(R), NEW b \in Seq(R)
    PROVE  /\ SubSeq(a \o b, 1, Len(a)) = a
           /\ SubSeq(a \o b, Len(a) + 1, Len(a \o b)) = b
<1>1. /\ Len(a) \in Nat /\ Len(b) \in Nat /\ a \o b \in Seq(R)
      /\ Len(a \o b) = Len(a) + Len(b)
      /\ \A i \in 1..Len(a) + Len(b) :
            (a \o b)[i] = IF i <= Len(a) THEN a[i] ELSE b[i - Len(a)]
    BY ConcatProperties, LenProperties
<1> DEFINE c == a \o b
           m == Len(a)
           n == Len(b)
<1>2. /\ m \in Nat /\ n \in Nat /\ c \in Seq(R) /\ Len(c) = m + n
      /\ \A i \in 1..m : c[i] = a[i] /\ a[i] \in R
      /\ \A i \in 1..n : c[m + i] = b[i] /\ b[i] \in R
      /\ \A i \in 1..m + n : c[i] \in R
    <2>1. \A i \in 1..m : c[i] = a[i]
        BY <1>1
    <2>2. ASSUME NEW i \in 1..n PROVE c[m + i] = b[i]
        <3>1. m + i \in 1..m + n /\ ~(m + i <= m) /\ (m + i) - m = i
            BY <1>1
        <3> QED
            BY <1>1, <3>1
    <2>3. \A i \in 1..m + n : c[i] \in R
        <3> HIDE DEF c
        <3>1. c \in Seq(R) /\ Len(c) = m + n
            BY <1>1 DEF c
        <3> QED
            BY <3>1, ElementOfSeq
    <2> QED
        BY <1>1, <2>1, <2>2, <2>3, ElementOfSeq
<1>3. m = Len(a) /\ n = Len(b)
    OBVIOUS
<1> HIDE DEF c, m, n
<1>4. SubSeq(c, 1, m) = a
    <2> DEFINE s == SubSeq(c, 1, m)
    <2>1. \A i \in 1..m : c[i] \in R
        BY <1>2
    <2>2. s \in Seq(R) /\ Len(s) = m /\ \A i \in 1..m : s[i] = c[i]
        BY <1>2, <2>1, SubSeqProperties
    <2> HIDE DEF s
    <2>3. s = a
        BY <1>2, <1>3, <2>2, SeqEqual
    <2> QED
        BY <2>3 DEF s
<1>5. SubSeq(c, m + 1, m + n) = b
    <2> DEFINE s == SubSeq(c, m + 1, m + n)
    <2>1. \A i \in m + 1..m + n : c[i] \in R
        BY <1>2
    <2>2. s \in Seq(R) /\ Len(s) = n /\ \A i \in 1..n : s[i] = c[m + i]
        <3>1. m + 1 \in Int /\ m + n \in Int
            BY <1>2
        <3>2. /\ s \in Seq(R)
              /\ Len(s) = IF m + 1 <= m + n THEN (m + n) - (m + 1) + 1 ELSE 0
              /\ \A i \in 1..(m + n) - (m + 1) + 1 : s[i] = c[(m + 1) + i - 1]
            BY <2>1, <3>1, SubSeqProperties
        <3>3. (m + n) - (m + 1) + 1 = n /\ \A i \in 1..n : (m + 1) + i - 1 = m + i
            BY <1>2
        <3> QED
            BY <1>2, <3>2, <3>3
    <2> HIDE DEF s
    <2>3. s = b
        BY <1>2, <1>3, <2>2, SeqEqual
    <2> QED
        BY <2>3 DEF s
<1>6. Len(c) = m + n
    BY <1>2
<1> QED
    BY <1>4, <1>5, <1>6 DEF c, m, n

-----------------------------------------------------------------------------
(* Cut *)

\* Blocks of bytes R, none empty and none longer than M.
Blocks(R, M) == {b \in Seq(R) : Len(b) \in 1..M}

CutStates(R, M, len) == [pos : 0..len, data : Seq(Seq(R)), rest : Seq(Blocks(R, M))]

\* A block is cut into two blocks, or not at all.
LEMMA CutInTwo ==
    ASSUME NEW R, NEW M \in Nat, NEW b \in Blocks(R, M), NEW n \in 1..Len(b) - 1
    PROVE  /\ Prefix(b, n) \in Seq(R) /\ Len(Prefix(b, n)) = n
           /\ Suffix(b, n) \in Blocks(R, M)
           /\ Prefix(b, n) \o Suffix(b, n) = b
<1>1. b \in Seq(R) /\ Len(b) \in 1..M /\ n \in Nat /\ n < Len(b) /\ Len(b) \in Nat
    BY DEF Blocks
<1>2. \A i \in 1..Len(b) : b[i] \in R
    BY <1>1, ElementOfSeq
<1>3. Prefix(b, n) \in Seq(R) /\ Len(Prefix(b, n)) = n
    <2>1. \A i \in 1..n : b[i] \in R
        BY <1>1, <1>2
    <2>2. /\ SubSeq(b, 1, n) \in Seq(R)
          /\ Len(SubSeq(b, 1, n)) = IF 1 <= n THEN n - 1 + 1 ELSE 0
        BY <1>1, <2>1, SubSeqProperties
    <2>3. n = IF 1 <= n THEN n - 1 + 1 ELSE 0
        BY <1>1
    <2> QED
        BY <2>2, <2>3 DEF Prefix
<1>4. Suffix(b, n) \in Seq(R) /\ Len(Suffix(b, n)) = Len(b) - n
    <2>1. \A i \in n + 1..Len(b) : b[i] \in R
        BY <1>1, <1>2
    <2>2. n + 1 \in Int /\ Len(b) \in Int
        BY <1>1
    <2>3. /\ SubSeq(b, n + 1, Len(b)) \in Seq(R)
          /\ Len(SubSeq(b, n + 1, Len(b)))
                = IF n + 1 <= Len(b) THEN Len(b) - (n + 1) + 1 ELSE 0
        BY <2>1, <2>2, SubSeqProperties
    <2>4. Len(b) - n = IF n + 1 <= Len(b) THEN Len(b) - (n + 1) + 1 ELSE 0
        BY <1>1
    <2> QED
        BY <2>3, <2>4 DEF Suffix
<1>5. Suffix(b, n) \in Blocks(R, M)
    <2>1. Len(b) - n \in 1..M
        BY <1>1
    <2> QED
        BY <1>4, <2>1 DEF Blocks
<1>6. Prefix(b, n) \o Suffix(b, n) = b
    <2>1. /\ 1 \in 1..Len(b) + 1 /\ n \in (1 - 1)..Len(b) /\ Len(b) \in n..Len(b)
        BY <1>1
    <2>2. SubSeq(b, 1, n) \o SubSeq(b, n + 1, Len(b)) = SubSeq(b, 1, Len(b))
        BY <1>1, <2>1, ConcatAdjacentSubSeq
    <2> QED
        BY <1>1, <2>2, SubSeqFull DEF Prefix, Suffix
<1> QED
    BY <1>3, <1>5, <1>6

\* What was taken and what remains are the blocks so far, and nothing remains
\* as long as more is to be taken.
CutRight(r, len, sofar) ==
    /\ sofar = FlattenSeq(r.data) \o FlattenSeq(r.rest)
    /\ Len(FlattenSeq(r.data)) = r.pos
    /\ r.pos < len => r.rest = <<>>

LEMMA BlocksAreSequences ==
    ASSUME NEW R, NEW M, NEW q \in Seq(Blocks(R, M)) PROVE q \in Seq(Seq(R))
<1>1. Blocks(R, M) \subseteq Seq(R)
    BY DEF Blocks
<1> QED
    BY <1>1, SeqMonotonic

LEMMA CutBlockRight ==
    ASSUME NEW R, NEW M \in Nat, NEW len \in Nat, NEW r \in CutStates(R, M, len),
           NEW block \in Blocks(R, M)
    PROVE  /\ CutBlock(r, block, len) \in CutStates(R, M, len)
           /\ \A sofar \in Seq(R) : CutRight(r, len, sofar)
                => CutRight(CutBlock(r, block, len), len, sofar \o block)
<1> DEFINE r1 == CutBlock(r, block, len)
<1>1. /\ r.pos \in 0..len /\ r.data \in Seq(Seq(R)) /\ r.rest \in Seq(Blocks(R, M))
      /\ block \in Seq(R) /\ Len(block) \in Nat /\ Len(block) \in 1..M
      /\ r = [pos |-> r.pos, data |-> r.data, rest |-> r.rest]
    BY DEF CutStates, Blocks
<1>2. /\ r.rest \in Seq(Seq(R))
      /\ FlattenSeq(r.data) \in Seq(R) /\ FlattenSeq(r.rest) \in Seq(R)
    BY <1>1, BlocksAreSequences, FlattenType
<1>assoc. \A x, y, z \in Seq(R) : (x \o y) \o z = x \o (y \o z)
    BY Associative
<1>3. CASE r.pos = len
    <2> DEFINE rest1 == Append(r.rest, block)
    <2>1. r1 = [pos |-> r.pos, data |-> r.data, rest |-> rest1]
        BY <1>1, <1>3 DEF CutBlock
    <2>2. rest1 \in Seq(Blocks(R, M))
        BY <1>1, AppendProperties
    <2>3. FlattenSeq(rest1) = FlattenSeq(r.rest) \o block
        BY <1>1, <1>2, FlattenAppend
    <2> HIDE DEF rest1, r1
    <2>4. r1 \in CutStates(R, M, len)
        BY <1>1, <2>1, <2>2 DEF CutStates
    <2>5. ASSUME NEW sofar \in Seq(R), CutRight(r, len, sofar)
          PROVE  CutRight(r1, len, sofar \o block)
        <3> DEFINE d == FlattenSeq(r.data)
                   e == FlattenSeq(r.rest)
        <3>1. d \in Seq(R) /\ e \in Seq(R)
            BY <1>2
        <3>2. sofar = d \o e /\ Len(d) = r.pos
            BY <2>5 DEF CutRight
        <3>3. r1.pos = r.pos /\ FlattenSeq(r1.data) = d /\ FlattenSeq(r1.rest) = e \o block
            BY <2>1, <2>3
        <3> HIDE DEF d, e
        <3>4. sofar \o block = d \o (e \o block)
            <4>1. block \in Seq(R)
                BY <1>1
            <4>2. (d \o e) \o block = d \o (e \o block)
                BY <3>1, <4>1, <1>assoc
            <4> QED
                BY <3>2, <4>2
        <3>5. ~(r1.pos < len)
            BY <1>1, <1>3, <3>3
        <3> QED
            BY <3>2, <3>3, <3>4, <3>5 DEF CutRight
    <2> QED
        BY <2>4, <2>5 DEF r1
<1>4. CASE r.pos # len /\ len - r.pos < Len(block)
    <2> DEFINE n == len - r.pos
               data1 == Append(r.data, Prefix(block, n))
               rest1 == <<Suffix(block, n)>>
    <2>1. r1 = [pos |-> len, data |-> data1, rest |-> rest1]
        BY <1>4 DEF CutBlock
    <2>2. n \in 1..Len(block) - 1 /\ r.pos + n = len /\ n \in Nat /\ r.pos \in Nat
        BY <1>1, <1>4
    <2>3. /\ Prefix(block, n) \in Seq(R) /\ Len(Prefix(block, n)) = n
          /\ Suffix(block, n) \in Blocks(R, M)
          /\ Prefix(block, n) \o Suffix(block, n) = block
        <3> HIDE DEF n
        <3> QED
            BY <2>2, CutInTwo
    <2> HIDE DEF n, r1
    <2>4. data1 \in Seq(Seq(R)) /\ FlattenSeq(data1) = FlattenSeq(r.data) \o Prefix(block, n)
        BY <1>1, <2>3, FlattenAppend, AppendProperties
    <2>5. /\ rest1 \in Seq(Blocks(R, M)) /\ Suffix(block, n) \in Seq(R)
          /\ FlattenSeq(rest1) = Suffix(block, n)
        <3>1. Suffix(block, n) \in Seq(R)
            BY <2>3 DEF Blocks
        <3> QED
            BY <2>3, <3>1, FlattenSingle
    <2> HIDE DEF data1, rest1
    <2>6. r1 \in CutStates(R, M, len)
        BY <2>1, <2>4, <2>5 DEF CutStates
    <2>7. ASSUME NEW sofar \in Seq(R), CutRight(r, len, sofar)
          PROVE  CutRight(r1, len, sofar \o block)
        <3> DEFINE d == FlattenSeq(r.data)
                   p == Prefix(block, n)
                   s == Suffix(block, n)
        <3>1. /\ d \in Seq(R) /\ p \in Seq(R) /\ s \in Seq(R) /\ Len(p) = n /\ p \o s = block
              /\ Len(d) = r.pos
            BY <1>2, <2>3, <2>5, <2>7 DEF CutRight
        <3>2. sofar = d
            <4>1. r.rest = <<>>
                BY <1>1, <1>4, <2>7 DEF CutRight
            <4>2. sofar = d \o <<>>
                BY <2>7, <4>1, FlattenEmpty DEF CutRight
            <4> HIDE DEF d
            <4> QED
                BY <3>1, <4>2, ConcatEmptySeq
        <3>3. r1.pos = len /\ FlattenSeq(r1.data) = d \o p /\ FlattenSeq(r1.rest) = s
            BY <2>1, <2>4, <2>5
        <3> HIDE DEF d, p, s
        <3>4. sofar \o block = (d \o p) \o s
            <4>1. d \in Seq(R) /\ p \in Seq(R) /\ s \in Seq(R)
                BY <3>1
            <4>2. (d \o p) \o s = d \o (p \o s)
                BY <4>1, <1>assoc
            <4> QED
                BY <3>1, <3>2, <4>2
        <3>5. Len(d \o p) = len
            BY <2>2, <3>1, ConcatProperties
        <3>6. ~(r1.pos < len)
            BY <3>3
        <3> QED
            BY <3>3, <3>4, <3>5, <3>6 DEF CutRight
    <2> QED
        BY <2>6, <2>7 DEF r1
<1>5. CASE r.pos # len /\ ~(len - r.pos < Len(block))
    <2> DEFINE data1 == Append(r.data, block)
    <2>1. r1 = [pos |-> r.pos + Len(block), data |-> data1, rest |-> r.rest]
        BY <1>1, <1>5 DEF CutBlock
    <2>2. r.pos + Len(block) \in 0..len
        BY <1>1, <1>5
    <2>3. data1 \in Seq(Seq(R)) /\ FlattenSeq(data1) = FlattenSeq(r.data) \o block
        BY <1>1, FlattenAppend, AppendProperties
    <2> HIDE DEF data1, r1
    <2>4. r1 \in CutStates(R, M, len)
        BY <1>1, <2>1, <2>2, <2>3 DEF CutStates
    <2>5. ASSUME NEW sofar \in Seq(R), CutRight(r, len, sofar)
          PROVE  CutRight(r1, len, sofar \o block)
        <3> DEFINE d == FlattenSeq(r.data)
        <3>1. d \in Seq(R) /\ Len(d) = r.pos
            BY <1>2, <2>5 DEF CutRight
        <3>2. r.rest = <<>>
            BY <1>1, <1>5, <2>5 DEF CutRight
        <3>3. sofar = d \o <<>>
            BY <2>5, <3>2, FlattenEmpty DEF CutRight
        <3>4. r1.pos = r.pos + Len(block) /\ FlattenSeq(r1.data) = d \o block /\ r1.rest = <<>>
            BY <2>1, <2>3, <3>2
        <3> HIDE DEF d
        <3>5. sofar = d /\ (d \o block) \o <<>> = d \o block /\ Len(d \o block) = r1.pos
            <4>1. block \in Seq(R) /\ Len(block) \in Nat
                BY <1>1
            <4>2. d \o block \in Seq(R) /\ Len(d \o block) = Len(d) + Len(block)
                BY <3>1, <4>1, ConcatProperties
            <4>3. sofar = d
                BY <3>1, <3>3, ConcatEmptySeq
            <4>4. (d \o block) \o <<>> = d \o block
                <5> DEFINE c == d \o block
                <5>1. c \in Seq(R)
                    BY <4>2
                <5> HIDE DEF c
                <5>2. c \o <<>> = c
                    BY <5>1, ConcatEmptySeq
                <5> QED
                    BY <5>2 DEF c
            <4> QED
                BY <3>1, <3>4, <4>2, <4>3, <4>4
        <3> QED
            BY <3>4, <3>5, FlattenEmpty DEF CutRight
    <2> QED
        BY <2>4, <2>5 DEF r1
<1> QED
    BY <1>3, <1>4, <1>5

\* What Cut computes, if its recursion has a solution.
LEMMA CutIs ==
    ASSUME NEW q, NEW len, NEW f,
           f = [i \in 0..Len(q) |->
                    IF i = 0 THEN [pos |-> 0, data |-> <<>>, rest |-> <<>>]
                    ELSE CutBlock(f[i - 1], q[i], len)]
    PROVE  \E g : /\ g = [i \in 0..Len(q) |->
                            IF i = 0 THEN [pos |-> 0, data |-> <<>>, rest |-> <<>>]
                            ELSE CutBlock(g[i - 1], q[i], len)]
                  /\ Cut(q, len) = g[Len(q)]
<1> DEFINE g == CHOOSE h : h = [i \in 0..Len(q) |->
                            IF i = 0 THEN [pos |-> 0, data |-> <<>>, rest |-> <<>>]
                            ELSE CutBlock(h[i - 1], q[i], len)]
<1>1. g = [i \in 0..Len(q) |-> IF i = 0 THEN [pos |-> 0, data |-> <<>>, rest |-> <<>>]
                               ELSE CutBlock(g[i - 1], q[i], len)]
    OBVIOUS
<1>2. Cut(q, len) = g[Len(q)]
    BY DEF Cut
<1> QED
    BY <1>1, <1>2

LEMMA CutSolved ==
    ASSUME NEW R, NEW M \in Nat, NEW len \in Nat, NEW q \in Seq(Blocks(R, M))
    PROVE  \E g : /\ g[0] = [pos |-> 0, data |-> <<>>, rest |-> <<>>]
                  /\ \A i \in 1..Len(q) : g[i] = CutBlock(g[i - 1], q[i], len)
                  /\ Cut(q, len) = g[Len(q)]
<1> DEFINE n == Len(q)
           X == CutStates(R, M, len)
           base == [pos |-> 0, data |-> <<>>, rest |-> <<>>]
           step == [i \in Nat |-> [x \in X |-> IF i \in 1..n THEN CutBlock(x, q[i], len) ELSE x]]
<1>1. n \in Nat /\ base \in X
    BY DEF CutStates
<1>2. \A i \in 1..n : q[i] \in Blocks(R, M)
    BY ElementOfSeq
<1>3. step \in Steps(X)
    <2>1. ASSUME NEW i \in 1..n, NEW x \in X PROVE CutBlock(x, q[i], len) \in X
        BY <1>2, CutBlockRight
    <2> HIDE DEF n, X
    <2> QED
        BY <2>1 DEF Steps
<1>4. PICK f : f \in Runs(base, step, n, X)
    <2> HIDE DEF step, n, X, base
    <2> QED
        BY <1>1, <1>3, Iteration
<1>5. f = [i \in 0..n |-> IF i = 0 THEN base ELSE CutBlock(f[i - 1], q[i], len)]
    <2>1. f \in [0..n -> X] /\ f[0] = base /\ \A i \in 1..n : f[i] = step[i][f[i - 1]]
        BY <1>4 DEF Runs
    <2>2. ASSUME NEW i \in 0..n
          PROVE  f[i] = IF i = 0 THEN base ELSE CutBlock(f[i - 1], q[i], len)
        <3>1. CASE i # 0
            <4>1. i \in 1..n /\ i \in Nat /\ f[i - 1] \in X
                <5> HIDE DEF n, X, step, base
                <5> QED
                    BY <1>1, <2>1, <3>1
            <4>2. step[i][f[i - 1]] = CutBlock(f[i - 1], q[i], len)
                <5> HIDE DEF n, X
                <5> QED
                    BY <4>1
            <4>3. f[i] = step[i][f[i - 1]]
                BY <2>1, <4>1
            <4> QED
                BY <3>1, <4>2, <4>3
        <3> QED
            BY <2>1, <3>1
    <2> HIDE DEF step, base, n, X
    <2> QED
        BY <2>1, <2>2
<1>6. PICK g : /\ g = [i \in 0..n |-> IF i = 0 THEN base ELSE CutBlock(g[i - 1], q[i], len)]
               /\ Cut(q, len) = g[n]
    BY <1>5, CutIs
<1>7. /\ g[0] = base
      /\ \A i \in 1..n : g[i] = CutBlock(g[i - 1], q[i], len)
    <2>1. 0 \in 0..n /\ \A i \in 1..n : i \in 0..n /\ i # 0
        BY <1>1
    <2> HIDE DEF base, n
    <2> QED
        BY <1>6, <2>1
<1> QED
    BY <1>6, <1>7

\* Cut takes the first bytes and leaves the others, in blocks again, if there
\* are as many as it is to take.
LEMMA CutSplits ==
    ASSUME NEW R, NEW M \in Nat, NEW q \in Seq(Blocks(R, M)),
           NEW len \in 0..Len(FlattenSeq(q))
    PROVE  /\ Cut(q, len).rest \in Seq(Blocks(R, M))
           /\ FlattenSeq(Cut(q, len).data) = SubSeq(FlattenSeq(q), 1, len)
           /\ FlattenSeq(Cut(q, len).rest)
                = SubSeq(FlattenSeq(q), len + 1, Len(FlattenSeq(q)))
<1> DEFINE n == Len(q)
           X == CutStates(R, M, len)
           base == [pos |-> 0, data |-> <<>>, rest |-> <<>>]
           p(i) == FlattenSeq(SubSeq(q, 1, i))
<1>1. /\ n \in Nat /\ q \in Seq(Seq(R)) /\ FlattenSeq(q) \in Seq(R)
      /\ Len(FlattenSeq(q)) \in Nat /\ len \in Nat
    <2>1. q \in Seq(Seq(R)) /\ n \in Nat
        BY BlocksAreSequences
    <2>2. FlattenSeq(q) \in Seq(R)
        BY <2>1, FlattenType
    <2>3. Len(FlattenSeq(q)) \in Nat
        BY <2>2
    <2> QED
        BY <2>1, <2>2, <2>3
<1>2. PICK g : /\ g[0] = base
               /\ \A i \in 1..Len(q) : g[i] = CutBlock(g[i - 1], q[i], len)
               /\ Cut(q, len) = g[Len(q)]
    BY <1>1, CutSolved
<1> DEFINE S == {i \in 0..n : g[i] \in X /\ CutRight(g[i], len, p(i))}
<1>3. 0 \in S
    <2>1. base \in X
        BY <1>1 DEF CutStates
    <2>2. SubSeq(q, 1, 0) = <<>>
        BY SubSeqEmpty
    <2>3. p(0) = <<>>
        BY <2>2, FlattenEmpty
    <2>4. CutRight(base, len, <<>>)
        <3>1. <<>> \o <<>> = <<>> /\ Len(<<>>) = 0
            OBVIOUS
        <3> QED
            BY <3>1, FlattenEmpty DEF CutRight
    <2> HIDE DEF X, p, base
    <2> QED
        BY <1>1, <1>2, <2>1, <2>3, <2>4
<1>4. ASSUME NEW i \in 1..n, i - 1 \in S PROVE i \in S
    <2>1. /\ q[i] \in Blocks(R, M) /\ p(i - 1) \in Seq(R) /\ p(i) = p(i - 1) \o q[i]
        BY <1>1, ElementOfSeq, FlattenPrefix
    <2>2. g[i - 1] \in X /\ CutRight(g[i - 1], len, p(i - 1)) /\ g[i] = CutBlock(g[i - 1], q[i], len)
        BY <1>2, <1>4
    <2> HIDE DEF p, n
    <2>3. g[i] \in X /\ CutRight(g[i], len, p(i))
        BY <1>1, <2>1, <2>2, CutBlockRight
    <2>4. i \in 0..n
        BY <1>1
    <2> HIDE DEF X
    <2> QED
        BY <2>3, <2>4
<1>5. g[n] \in X /\ CutRight(g[n], len, p(n))
    <2>1. 0..n \subseteq S
        <3> HIDE DEF S
        <3> QED
            BY <1>1, <1>3, <1>4, BoundedInduction
    <2>2. n \in 0..n
        BY <1>1
    <2> HIDE DEF X, p
    <2> QED
        BY <2>1, <2>2
<1> DEFINE r == g[n]
           d == FlattenSeq(r.data)
           e == FlattenSeq(r.rest)
           b == FlattenSeq(q)
<1>6. /\ r.pos \in 0..len /\ r.data \in Seq(Seq(R)) /\ r.rest \in Seq(Blocks(R, M))
      /\ Cut(q, len) = r
    BY <1>2, <1>5 DEF CutStates
<1>7. d \in Seq(R) /\ e \in Seq(R) /\ Len(d) \in Nat
    <2>1. d \in Seq(R)
        BY <1>6, FlattenType
    <2>2. e \in Seq(R)
        BY <1>6, BlocksAreSequences, FlattenType
    <2> QED
        BY <2>1, <2>2
<1>8. b = d \o e /\ Len(d) = r.pos /\ (r.pos < len => r.rest = <<>>)
    <2>1. p(n) = b
        BY <1>1, SubSeqFull
    <2> HIDE DEF p
    <2> QED
        BY <1>5, <2>1 DEF CutRight
<1>9. Len(d) = len
    <2>1. CASE r.pos < len
        <3>1. e = <<>>
            BY <1>8, <2>1, FlattenEmpty
        <3>2. b = d
            <4>1. b = d \o <<>>
                BY <1>8, <3>1
            <4> HIDE DEF d, b
            <4> QED
                BY <1>7, <4>1, ConcatEmptySeq
        <3>3. len <= Len(b)
            BY <1>1
        <3> HIDE DEF b, d, r
        <3> QED
            BY <1>1, <1>6, <1>7, <1>8, <2>1, <3>2, <3>3
    <2>2. CASE ~(r.pos < len)
        <3> HIDE DEF b, d, r
        <3> QED
            BY <1>1, <1>6, <1>8, <2>2
    <2> QED
        BY <2>1, <2>2
<1>10. SubSeq(b, 1, len) = d /\ SubSeq(b, len + 1, Len(b)) = e
    <2> HIDE DEF d, e, b
    <2>1. SubSeq(d \o e, 1, Len(d)) = d /\ SubSeq(d \o e, Len(d) + 1, Len(d \o e)) = e
        BY <1>7, SplitConcat
    <2> QED
        BY <1>8, <1>9, <2>1
<1> QED
    <2> HIDE DEF r
    <2> QED
        BY <1>6, <1>10

-----------------------------------------------------------------------------
(* BlockQueuePeekBytes from the first byte on, as PeekBytes calls it *)

PeekStates(R, len) == [pos : 0..len, fault : BOOLEAN, data : [1..len -> R \cup {NoByte}]]

\* What was copied are the first bytes of the blocks so far, and all of them
\* as long as more is to be copied.
PeekRight(r, len, sofar) ==
    /\ r.pos <= Len(sofar)
    /\ r.pos < len => r.pos = Len(sofar)
    /\ \A j \in 1..r.pos : r.data[j] = sofar[j]

\* m bytes of the block more.
LEMMA CopyRight ==
    ASSUME NEW R, NEW len \in Nat, NEW r \in PeekStates(R, len), NEW block \in Seq(R),
           NEW m \in 0..Len(block), r.pos < len, r.pos + m <= len,
           r.pos + m < len => m = Len(block)
    PROVE  LET r1 == [Copy(r, r.pos, block, 0, m) EXCEPT !.pos = r.pos + m]
           IN /\ r1 \in PeekStates(R, len)
              /\ \A sofar \in Seq(R) : PeekRight(r, len, sofar)
                    => PeekRight(r1, len, sofar \o block)
<1> DEFINE pos == r.pos
           old == r.data
           data1 == [i \in 1..len |-> IF i \in pos + 1 .. pos + m THEN block[0 + i - pos]
                                      ELSE old[i]]
           fault1 == r.fault \/ m < 0
           r1 == [Copy(r, r.pos, block, 0, m) EXCEPT !.pos = r.pos + m]
<1>1. /\ pos \in 0..len /\ r.fault \in BOOLEAN /\ old \in [1..len -> R \cup {NoByte}]
      /\ r = [pos |-> pos, fault |-> r.fault, data |-> old]
      /\ Len(block) \in Nat /\ m \in Nat /\ m <= Len(block)
      /\ \A i \in 1..Len(block) : block[i] \in R
    <2>1. Len(block) \in Nat /\ \A i \in 1..Len(block) : block[i] \in R
        BY ElementOfSeq, LenProperties
    <2> QED
        BY <2>1 DEF PeekStates
<1>2. r1 = [pos |-> pos + m, fault |-> fault1, data |-> data1]
    <2>1. DOMAIN r.data = 1..len
        BY <1>1
    <2>2. Copy(r, r.pos, block, 0, m) = [r EXCEPT !.data = data1, !.fault = fault1]
        BY <2>1, Zenon DEF Copy
    <2> HIDE DEF data1, fault1
    <2>3. [r EXCEPT !.data = data1, !.fault = fault1]
            = [pos |-> pos, fault |-> fault1, data |-> data1]
        <3>1. [r EXCEPT !.data = data1, !.fault = fault1]
                = [[r EXCEPT !.data = data1] EXCEPT !.fault = fault1]
            OBVIOUS
        <3>2. [r EXCEPT !.data = data1] = [pos |-> r.pos, fault |-> r.fault, data |-> data1]
            BY DEF PeekStates
        <3>3. [[pos |-> r.pos, fault |-> r.fault, data |-> data1] EXCEPT !.fault = fault1]
                = [pos |-> r.pos, fault |-> fault1, data |-> data1]
            OBVIOUS
        <3> QED
            BY <3>1, <3>2, <3>3
    <2> QED
        BY <2>2, <2>3
<1>3. pos + m \in 0..len /\ pos < len /\ (pos + m < len => m = Len(block))
    BY <1>1
<1>4. \A i \in pos + 1..pos + m : 0 + i - pos \in 1..Len(block) /\ 0 + i - pos = i - pos
    BY <1>1
<1>5. data1 \in [1..len -> R \cup {NoByte}]
    <2> HIDE DEF pos, old
    <2> QED
        BY <1>1, <1>4
<1>6. r1 \in PeekStates(R, len)
    <2>1. fault1 \in BOOLEAN
        OBVIOUS
    <2> HIDE DEF r1, data1, pos, fault1
    <2> QED
        BY <1>2, <1>3, <1>5, <2>1 DEF PeekStates
<1>7. ASSUME NEW sofar \in Seq(R), PeekRight(r, len, sofar)
      PROVE  PeekRight(r1, len, sofar \o block)
    <2> DEFINE k == Len(sofar)
               both == sofar \o block
    <2>1. /\ k \in Nat /\ pos = k /\ \A j \in 1..k : old[j] = sofar[j]
        BY <1>1, <1>3, <1>7 DEF PeekRight
    <2>2. /\ Len(both) = k + Len(block)
          /\ \A i \in 1..k + Len(block) : both[i] = IF i <= k THEN sofar[i] ELSE block[i - k]
        BY ConcatProperties
    <2>3. r1.pos = pos + m /\ r1.data = data1
        BY <1>2
    <2>4. ASSUME NEW j \in 1..pos + m PROVE data1[j] = both[j]
        <3>1. j \in 1..len /\ j \in 1..k + Len(block) /\ j \in Nat
            BY <1>1, <1>3, <2>1
        <3>2. CASE j <= k
            <4>1. ~(j \in pos + 1..pos + m) /\ j \in 1..k
                BY <2>1, <3>1, <3>2
            <4>2. data1[j] = old[j]
                BY <3>1, <4>1
            <4> HIDE DEF data1, both, k, old
            <4> QED
                BY <2>1, <2>2, <3>1, <3>2, <4>1, <4>2
        <3>3. CASE ~(j <= k)
            <4>1. j \in pos + 1..pos + m
                BY <2>1, <3>1, <3>3
            <4>2. data1[j] = block[0 + j - pos]
                BY <3>1, <4>1
            <4>3. 0 + j - pos = j - k
                BY <1>4, <2>1, <4>1
            <4>4. both[j] = block[j - k]
                BY <2>2, <3>1, <3>3
            <4> HIDE DEF data1, both, k, old, pos
            <4> QED
                BY <4>2, <4>3, <4>4
        <3> QED
            BY <3>2, <3>3
    <2> HIDE DEF r1, data1, both, k, pos
    <2>5. pos + m <= Len(both) /\ (pos + m < len => pos + m = Len(both))
        BY <1>1, <1>3, <2>1, <2>2
    <2>6. \A j \in 1..r1.pos : r1.data[j] = both[j]
        BY <2>3, <2>4
    <2>7. PeekRight(r1, len, both)
        BY <2>3, <2>5, <2>6 DEF PeekRight
    <2> QED
        BY <2>7 DEF both
<1> QED
    BY <1>6, <1>7

LEMMA PeekBlockRight ==
    ASSUME NEW R, NEW len \in Nat, NEW r \in PeekStates(R, len), NEW block \in Seq(R)
    PROVE  /\ PeekBlock(r, block, len, 0) \in PeekStates(R, len)
           /\ \A sofar \in Seq(R) : PeekRight(r, len, sofar)
                => PeekRight(PeekBlock(r, block, len, 0), len, sofar \o block)
<1>1. r.pos \in 0..len /\ Len(block) \in Nat
    BY LenProperties DEF PeekStates
<1>2. CASE r.pos >= len
    <2>1. PeekBlock(r, block, len, 0) = r
        BY <1>2 DEF PeekBlock
    <2>2. ASSUME NEW sofar \in Seq(R), PeekRight(r, len, sofar)
          PROVE  PeekRight(r, len, sofar \o block)
        <3>1. /\ Len(sofar \o block) = Len(sofar) + Len(block)
              /\ Len(sofar) \in Nat
              /\ \A i \in 1..Len(sofar) + Len(block) : (sofar \o block)[i] =
                    IF i <= Len(sofar) THEN sofar[i] ELSE block[i - Len(sofar)]
            BY ConcatProperties, LenProperties
        <3> DEFINE both == sofar \o block
                   k == Len(sofar)
        <3>2. /\ Len(both) = k + Len(block) /\ k \in Nat
              /\ \A i \in 1..k : both[i] = sofar[i]
            BY <1>1, <3>1
        <3>3. r.pos <= k /\ \A j \in 1..r.pos : r.data[j] = sofar[j]
            BY <2>2 DEF PeekRight
        <3> HIDE DEF both, k
        <3>4. PeekRight(r, len, both)
            BY <1>1, <1>2, <3>2, <3>3 DEF PeekRight
        <3> QED
            BY <3>4 DEF both
    <2> QED
        BY <2>1, <2>2
<1>3. CASE r.pos < len /\ len - r.pos < Len(block)
    <2> DEFINE m == len - r.pos
    <2>1. /\ m \in 0..Len(block) /\ r.pos + m = len
        BY <1>1, <1>3
    <2>2. PeekBlock(r, block, len, 0)
            = [Copy(r, r.pos, block, 0, m) EXCEPT !.pos = r.pos + m]
        <3>1. 0 + len - r.pos = m /\ len - r.pos - 0 = m
            BY <1>1
        <3> QED
            BY <1>1, <1>3, <2>1, <3>1 DEF PeekBlock
    <2> HIDE DEF m
    <2> QED
        BY <1>1, <1>3, <2>1, <2>2, CopyRight
<1>4. CASE r.pos < len /\ ~(len - r.pos < Len(block))
    <2> DEFINE m == Len(block)
    <2>1. m \in 0..Len(block) /\ r.pos + m <= len
        BY <1>1, <1>4
    <2>2. PeekBlock(r, block, len, 0)
            = [Copy(r, r.pos, block, 0, m) EXCEPT !.pos = r.pos + m]
        <3>1. 0 + len - r.pos = len - r.pos /\ Len(block) - 0 = m
            BY <1>1
        <3>2. Copy(r, r.pos, block, 0, m).pos = r.pos
            BY DEF Copy, PeekStates
        <3> QED
            BY <1>1, <1>4, <2>1, <3>1, <3>2 DEF PeekBlock
    <2>3. m = Len(block)
        OBVIOUS
    <2> HIDE DEF m
    <2> QED
        BY <1>1, <1>4, <2>1, <2>2, <2>3, CopyRight
<1> QED
    BY <1>1, <1>2, <1>3, <1>4

\* What BlockQueuePeekBytes computes, if its recursion has a solution.
LEMMA PeekIs ==
    ASSUME NEW q, NEW len, NEW f,
           f = [i \in 0..Len(q) |->
                    IF i = 0 THEN [pos |-> 0, fault |-> FALSE, data |-> [j \in 1..len |-> NoByte]]
                    ELSE PeekBlock(f[i - 1], q[i], len, 0)]
    PROVE  \E g : /\ g = [i \in 0..Len(q) |->
                            IF i = 0
                            THEN [pos |-> 0, fault |-> FALSE, data |-> [j \in 1..len |-> NoByte]]
                            ELSE PeekBlock(g[i - 1], q[i], len, 0)]
                  /\ BlockQueuePeekBytes(q, len, 0) = g[Len(q)]
<1> DEFINE g == CHOOSE h : h = [i \in 0..Len(q) |->
                    IF i = 0 THEN [pos |-> 0, fault |-> FALSE, data |-> [j \in 1..len |-> NoByte]]
                    ELSE PeekBlock(h[i - 1], q[i], len, 0)]
<1>1. g = [i \in 0..Len(q) |->
                    IF i = 0 THEN [pos |-> 0, fault |-> FALSE, data |-> [j \in 1..len |-> NoByte]]
                    ELSE PeekBlock(g[i - 1], q[i], len, 0)]
    OBVIOUS
<1>2. BlockQueuePeekBytes(q, len, 0) = g[Len(q)]
    BY DEF BlockQueuePeekBytes
<1> QED
    BY <1>1, <1>2

LEMMA PeekSolved ==
    ASSUME NEW R, NEW len \in Nat, NEW q \in Seq(Seq(R))
    PROVE  \E g : /\ g[0] = [pos |-> 0, fault |-> FALSE, data |-> [j \in 1..len |-> NoByte]]
                  /\ \A i \in 1..Len(q) : g[i] = PeekBlock(g[i - 1], q[i], len, 0)
                  /\ BlockQueuePeekBytes(q, len, 0) = g[Len(q)]
<1> DEFINE n == Len(q)
           X == PeekStates(R, len)
           base == [pos |-> 0, fault |-> FALSE, data |-> [j \in 1..len |-> NoByte]]
           step == [i \in Nat |-> [x \in X |-> IF i \in 1..n THEN PeekBlock(x, q[i], len, 0) ELSE x]]
<1>1. n \in Nat /\ base \in X
    BY DEF PeekStates
<1>2. \A i \in 1..n : q[i] \in Seq(R)
    BY ElementOfSeq
<1>3. step \in Steps(X)
    <2>1. ASSUME NEW i \in 1..n, NEW x \in X PROVE PeekBlock(x, q[i], len, 0) \in X
        BY <1>2, PeekBlockRight
    <2> HIDE DEF n, X
    <2> QED
        BY <2>1 DEF Steps
<1>4. PICK f : f \in Runs(base, step, n, X)
    <2> HIDE DEF step, n, X, base
    <2> QED
        BY <1>1, <1>3, Iteration
<1>5. f = [i \in 0..n |-> IF i = 0 THEN base ELSE PeekBlock(f[i - 1], q[i], len, 0)]
    <2>1. f \in [0..n -> X] /\ f[0] = base /\ \A i \in 1..n : f[i] = step[i][f[i - 1]]
        BY <1>4 DEF Runs
    <2>2. ASSUME NEW i \in 0..n
          PROVE  f[i] = IF i = 0 THEN base ELSE PeekBlock(f[i - 1], q[i], len, 0)
        <3>1. CASE i # 0
            <4>1. i \in 1..n /\ i \in Nat /\ f[i - 1] \in X
                <5> HIDE DEF n, X, step, base
                <5> QED
                    BY <1>1, <2>1, <3>1
            <4>2. step[i][f[i - 1]] = PeekBlock(f[i - 1], q[i], len, 0)
                <5> HIDE DEF n, X
                <5> QED
                    BY <4>1
            <4>3. f[i] = step[i][f[i - 1]]
                BY <2>1, <4>1
            <4> QED
                BY <3>1, <4>2, <4>3
        <3> QED
            BY <2>1, <3>1
    <2> HIDE DEF step, base, n, X
    <2> QED
        BY <2>1, <2>2
<1>6. PICK g : /\ g = [i \in 0..n |-> IF i = 0 THEN base ELSE PeekBlock(g[i - 1], q[i], len, 0)]
               /\ BlockQueuePeekBytes(q, len, 0) = g[n]
    BY <1>5, PeekIs
<1>7. /\ g[0] = base
      /\ \A i \in 1..n : g[i] = PeekBlock(g[i - 1], q[i], len, 0)
    <2>1. 0 \in 0..n /\ \A i \in 1..n : i \in 0..n /\ i # 0
        BY <1>1
    <2> HIDE DEF base, n
    <2> QED
        BY <1>6, <2>1
<1> QED
    BY <1>6, <1>7

\* It gives the first bytes, if there are as many as it is to give.
LEMMA PeekGives ==
    ASSUME NEW R, NEW q \in Seq(Seq(R)), NEW len \in 0..Len(FlattenSeq(q))
    PROVE  BlockQueuePeekBytes(q, len, 0).data = SubSeq(FlattenSeq(q), 1, len)
<1> DEFINE n == Len(q)
           X == PeekStates(R, len)
           base == [pos |-> 0, fault |-> FALSE, data |-> [j \in 1..len |-> NoByte]]
           p(i) == FlattenSeq(SubSeq(q, 1, i))
           b == FlattenSeq(q)
<1>1. n \in Nat /\ b \in Seq(R) /\ Len(b) \in Nat /\ len \in Nat /\ len <= Len(b)
    <2>1. b \in Seq(R) /\ n \in Nat
        BY FlattenType
    <2>2. Len(b) \in Nat
        BY <2>1
    <2> QED
        BY <2>1, <2>2
<1>2. PICK g : /\ g[0] = base
               /\ \A i \in 1..Len(q) : g[i] = PeekBlock(g[i - 1], q[i], len, 0)
               /\ BlockQueuePeekBytes(q, len, 0) = g[Len(q)]
    BY <1>1, PeekSolved
<1> DEFINE S == {i \in 0..n : g[i] \in X /\ PeekRight(g[i], len, p(i))}
<1>3. 0 \in S
    <2>1. base \in X
        BY <1>1 DEF PeekStates
    <2>2. SubSeq(q, 1, 0) = <<>>
        BY SubSeqEmpty
    <2>3. p(0) = <<>>
        BY <2>2, FlattenEmpty
    <2>4. PeekRight(base, len, <<>>)
        BY DEF PeekRight
    <2> HIDE DEF X, p, base
    <2> QED
        BY <1>1, <1>2, <2>1, <2>3, <2>4
<1>4. ASSUME NEW i \in 1..n, i - 1 \in S PROVE i \in S
    <2>1. /\ q[i] \in Seq(R) /\ p(i - 1) \in Seq(R) /\ p(i) = p(i - 1) \o q[i]
        BY FlattenPrefix
    <2>2. /\ g[i - 1] \in X /\ PeekRight(g[i - 1], len, p(i - 1))
          /\ g[i] = PeekBlock(g[i - 1], q[i], len, 0)
        BY <1>2, <1>4
    <2> HIDE DEF p, n
    <2>3. g[i] \in X /\ PeekRight(g[i], len, p(i))
        BY <1>1, <2>1, <2>2, PeekBlockRight
    <2>4. i \in 0..n
        BY <1>1
    <2> HIDE DEF X
    <2> QED
        BY <2>3, <2>4
<1>5. g[n] \in X /\ PeekRight(g[n], len, p(n))
    <2>1. 0..n \subseteq S
        <3> HIDE DEF S
        <3> QED
            BY <1>1, <1>3, <1>4, BoundedInduction
    <2>2. n \in 0..n
        BY <1>1
    <2> HIDE DEF X, p
    <2> QED
        BY <2>1, <2>2
<1>6. p(n) = b
    BY SubSeqFull
<1> DEFINE r == g[n]
           d == r.data
<1>7. /\ r.pos \in 0..len /\ d \in [1..len -> R \cup {NoByte}]
    BY <1>5 DEF PeekStates
<1>8. r.pos <= Len(b) /\ (r.pos < len => r.pos = Len(b)) /\ \A j \in 1..r.pos : d[j] = b[j]
    <2> HIDE DEF p, b
    <2> QED
        BY <1>5, <1>6 DEF PeekRight
<1>9. r.pos = len
    <2> HIDE DEF r, b
    <2> QED
        BY <1>1, <1>7, <1>8
<1>10. \A j \in 1..len : d[j] = b[j] /\ b[j] \in R
    <2> HIDE DEF d, b, r
    <2>1. \A j \in 1..len : j \in 1..Len(b)
        BY <1>1
    <2> QED
        BY <1>1, <1>8, <1>9, <2>1, ElementOfSeq
<1>11. d = SubSeq(b, 1, len)
    <2> HIDE DEF d, b
    <2> DEFINE s == SubSeq(b, 1, len)
    <2>1. s \in Seq(R) /\ Len(s) = len /\ \A j \in 1..len : s[j] = b[j]
        <3>1. /\ s \in Seq(R) /\ Len(s) = IF 1 <= len THEN len - 1 + 1 ELSE 0
              /\ \A j \in 1..len - 1 + 1 : s[j] = b[1 + j - 1]
            BY <1>1, <1>10, SubSeqProperties
        <3>2. len - 1 + 1 = len /\ \A j \in 1..len : 1 + j - 1 = j
            BY <1>1
        <3> HIDE DEF s
        <3> QED
            BY <1>1, <3>1, <3>2
    <2> HIDE DEF s
    <2>2. d \in [1..len -> R]
        BY <1>7, <1>10
    <2>3. d \in Seq(R) /\ Len(d) = len
        BY <1>1, <2>2
    <2>4. d = s
        BY <1>1, <1>10, <2>1, <2>3, SeqEqual
    <2> QED
        BY <2>4 DEF s
<1>12. BlockQueuePeekBytes(q, len, 0) = r
    BY <1>2
<1> HIDE DEF r
<1> QED
    BY <1>11, <1>12

-----------------------------------------------------------------------------
(* The stream *)

IInv == TypeOK /\ LengthCounts

Flat == FlattenSeq(blockqueue)
Queues(n) == Seq(Blocks(1..n, MaxBlock))

\* The type of the queue of blocks is that of its parts, and the other way.
LEMMA QueueType ==
    ASSUME NEW q, NEW n \in Nat
    PROVE  q \in Queues(n) <=> /\ q \in Seq(Seq(1..n))
                               /\ \A i \in DOMAIN q : Len(q[i]) \in 1..MaxBlock
<1>1. ASSUME q \in Queues(n)
      PROVE  q \in Seq(Seq(1..n)) /\ \A i \in DOMAIN q : Len(q[i]) \in 1..MaxBlock
    <2>1. q \in Seq(Seq(1..n))
        BY <1>1, StreamAssumption, BlocksAreSequences DEF Queues
    <2>2. \A i \in 1..Len(q) : q[i] \in Blocks(1..n, MaxBlock)
        BY <1>1, ElementOfSeq DEF Queues
    <2>3. DOMAIN q = 1..Len(q)
        BY <2>1
    <2> QED
        BY <2>1, <2>2, <2>3 DEF Blocks
<1>2. ASSUME q \in Seq(Seq(1..n)), \A i \in DOMAIN q : Len(q[i]) \in 1..MaxBlock
      PROVE  q \in Queues(n)
    <2> DEFINE B == Seq(1..n)
    <2>1. q \in Seq(B)
        BY <1>2
    <2> HIDE DEF B
    <2>2. /\ Len(q) \in Nat /\ q = [i \in 1..Len(q) |-> q[i]] /\ DOMAIN q = 1..Len(q)
          /\ \A i \in 1..Len(q) : q[i] \in B
        BY <2>1, ElementOfSeq
    <2>3. \A i \in 1..Len(q) : q[i] \in Blocks(1..n, MaxBlock)
        BY <1>2, <2>2 DEF Blocks, B
    <2> DEFINE C == Blocks(1..n, MaxBlock)
    <2>4. \A i \in 1..Len(q) : q[i] \in C
        BY <2>3
    <2> HIDE DEF C
    <2>5. q \in [1..Len(q) -> C]
        BY <2>2, <2>4
    <2>6. q \in Seq(C)
        BY <2>2, <2>5
    <2> QED
        BY <2>6 DEF C, Queues
<1> QED
    BY <1>1, <1>2

\* The queue and the bytes in it.
LEMMA Counted ==
    ASSUME IInv
    PROVE  /\ last \in Nat /\ eos \in BOOLEAN
           /\ blockqueue \in Queues(last) /\ blockqueue \in Seq(Seq(1..last))
           /\ Flat \in Seq(1..last) /\ Len(Flat) \in Nat
           /\ length = Len(Flat)
           /\ blockqueue = <<>> <=> length = 0
           /\ blockqueue # <<>> =>
                /\ Head(blockqueue) \in Blocks(1..last, MaxBlock)
                /\ Head(blockqueue) \in Seq(1..last)
                /\ Tail(blockqueue) \in Queues(last)
                /\ FlattenSeq(Tail(blockqueue)) \in Seq(1..last)
                /\ Flat = Head(blockqueue) \o FlattenSeq(Tail(blockqueue))
<1>1. /\ last \in Nat /\ eos \in BOOLEAN /\ length = Len(Flat)
      /\ blockqueue \in Seq(Seq(1..last)) /\ blockqueue \in Queues(last)
    BY StreamAssumption, QueueType DEF IInv, TypeOK, LengthCounts, Flat
<1>2. Flat \in Seq(1..last)
    BY <1>1, FlattenType DEF Flat
<1>3. Len(Flat) \in Nat
    BY <1>2
<1>4. CASE blockqueue = <<>>
    <2>1. Flat = <<>>
        BY <1>4, FlattenEmpty DEF Flat
    <2> QED
        BY <1>1, <1>2, <1>3, <1>4, <2>1
<1>5. CASE blockqueue # <<>>
    <2> DEFINE h == Head(blockqueue)
               t == Tail(blockqueue)
               B == Blocks(1..last, MaxBlock)
    <2>1. h \in B /\ t \in Seq(B)
        <3> HIDE DEF B
        <3>1. blockqueue \in Seq(B)
            BY <1>1 DEF B, Queues
        <3> QED
            BY <1>5, <3>1, HeadTailProperties
    <2>2. t \in Seq(Seq(1..last)) /\ Flat = h \o FlattenSeq(t)
        BY <1>1, <1>5, FlattenHeadTail DEF Flat
    <2>3. FlattenSeq(t) \in Seq(1..last)
        BY <2>2, FlattenType
    <2>4. h \in Seq(1..last) /\ Len(h) \in 1..MaxBlock
        BY <2>1 DEF Blocks
    <2> HIDE DEF h, t
    <2>5. Len(Flat) = Len(h) + Len(FlattenSeq(t)) /\ Len(FlattenSeq(t)) \in Nat
        BY <2>2, <2>3, <2>4, ConcatProperties, LenProperties
    <2>6. length # 0
        BY <1>1, <2>4, <2>5
    <2> QED
        BY <1>1, <1>2, <1>3, <1>5, <2>1, <2>2, <2>3, <2>4, <2>6 DEF Queues, h, t
<1> QED
    BY <1>4, <1>5

Answers(n) == {<<>>} \cup {<<s>> : s \in Seq(0..n)}

\* A step that takes k bytes from the front, or none, and puts none in.
LEMMA Shrinks ==
    ASSUME IInv, last' = last, eos' \in BOOLEAN, blockqueue' \in Queues(last),
           NEW k \in 0..Len(Flat), Flat' = SubSeq(Flat, k + 1, Len(Flat)),
           length' = length - k, out' \in Answers(last)
    PROVE  IInv'
<1>1. /\ last \in Nat /\ Flat \in Seq(1..last) /\ Len(Flat) \in Nat /\ length = Len(Flat)
      /\ length \in 0..last /\ last \in 0..MaxBytes
    BY Counted DEF IInv, TypeOK
<1>2. Len(Flat') = Len(Flat) - k
    <2> DEFINE f == Flat
               n == Len(Flat)
    <2>1. /\ \A i \in k + 1..n : f[i] \in 1..last
          /\ n \in Nat /\ k \in 0..n
        <3>1. \A i \in k + 1..n : i \in 1..n
            BY <1>1
        <3> QED
            BY <1>1, <3>1, ElementOfSeq
    <2> HIDE DEF f, n
    <2>2. Len(SubSeq(f, k + 1, n)) = IF k + 1 <= n THEN n - (k + 1) + 1 ELSE 0
        BY <2>1, SubSeqProperties
    <2>3. n - k = IF k + 1 <= n THEN n - (k + 1) + 1 ELSE 0
        BY <2>1
    <2> QED
        BY <2>2, <2>3 DEF f, n
<1>3. length' = Len(Flat')
    BY <1>1, <1>2
<1>4. blockqueue' \in Seq(Seq(1..last')) /\ \A i \in DOMAIN blockqueue' : Len(blockqueue'[i]) \in 1..MaxBlock
    BY <1>1, QueueType
<1>5. length' \in 0..last'
    BY <1>1
<1>6. out' \in Seq(Seq(0..last')) /\ Len(out') <= 1
    <2> DEFINE B == Seq(0..last)
    <2>1. CASE out' = <<>>
        BY <2>1
    <2>2. CASE \E s \in B : out' = <<s>>
        <3>1. PICK s \in B : out' = <<s>>
            BY <2>2
        <3> HIDE DEF B
        <3>2. <<s>> \in Seq(B) /\ Len(<<s>>) = 1
            OBVIOUS
        <3>3. out' \in Seq(B) /\ Len(out') = 1
            BY <3>1, <3>2
        <3> QED
            BY <3>3 DEF B
    <2> QED
        BY <2>1, <2>2 DEF Answers
<1>7. TypeOK'
    BY <1>1, <1>4, <1>5, <1>6 DEF TypeOK
<1> QED
    BY <1>3, <1>7 DEF IInv, LengthCounts, Flat

-----------------------------------------------------------------------------
(* Each call keeps the invariant and is a step of the byte stream. *)

\* A call that takes the first k bytes, whatever it does with them: Cut gives
\* them and keeps the others.
LEMMA CutFlat ==
    ASSUME IInv, NEW k \in 0..Len(Flat)
    PROVE  /\ Cut(blockqueue, k).rest \in Queues(last)
           /\ FlattenSeq(Cut(blockqueue, k).data) = SubSeq(Flat, 1, k)
           /\ FlattenSeq(Cut(blockqueue, k).rest) = SubSeq(Flat, k + 1, Len(Flat))
<1> DEFINE R == 1..last
           M == MaxBlock
           q == blockqueue
<1>1. M \in Nat /\ q \in Seq(Blocks(R, M)) /\ k \in 0..Len(FlattenSeq(q))
    BY Counted, StreamAssumption DEF Flat, Queues
<1> HIDE DEF R, M, q
<1>2. /\ Cut(q, k).rest \in Seq(Blocks(R, M))
      /\ FlattenSeq(Cut(q, k).data) = SubSeq(FlattenSeq(q), 1, k)
      /\ FlattenSeq(Cut(q, k).rest) = SubSeq(FlattenSeq(q), k + 1, Len(FlattenSeq(q)))
    BY <1>1, CutSplits
<1> QED
    BY <1>2 DEF R, M, q, Flat, Queues

LEMMA PartsOfFlat ==
    ASSUME IInv, NEW first \in Nat \ {0}, NEW n \in Nat, first + n <= Len(Flat) + 1
    PROVE  SubSeq(Flat, first, first + n - 1) \in Seq(0..last)
<1> DEFINE f == Flat
<1>1. f \in Seq(1..last) /\ Len(f) \in Nat
    BY Counted
<1> HIDE DEF f
<1>2. \A i \in first..first + n - 1 : f[i] \in 0..last
    <2>1. \A i \in first..first + n - 1 : i \in 1..Len(f)
        BY <1>1 DEF f
    <2>2. \A i \in 1..Len(f) : f[i] \in 1..last
        BY <1>1, ElementOfSeq
    <2>3. 1..last \subseteq 0..last
        OBVIOUS
    <2> QED
        BY <2>1, <2>2, <2>3
<1>3. first \in Int /\ first + n - 1 \in Int
    OBVIOUS
<1>4. SubSeq(f, first, first + n - 1) \in Seq(0..last)
    BY <1>2, <1>3, SubSeqProperties
<1> QED
    BY <1>4 DEF f

LEMMA TakeStep ==
    ASSUME IInv, NEW k \in 0..Len(Flat), Awake, Keeps, out' = <<SubSeq(Flat, 1, k)>>,
           blockqueue' \in Queues(last), Flat' = SubSeq(Flat, k + 1, Len(Flat)),
           length' = length - k
    PROVE  IInv' /\ Bytes!Next
<1>1. /\ last' = last /\ eos' = eos /\ eos \in BOOLEAN /\ length = Len(Flat)
      /\ Len(Flat) \in Nat /\ Flat \in Seq(1..last)
    BY Counted DEF Keeps
<1>2. 1 + k - 1 = k /\ 1 + k <= Len(Flat) + 1 /\ k \in Nat
    BY <1>1
<1>3. out' \in Answers(last)
    <2> DEFINE first == 1
    <2>1. first \in Nat \ {0} /\ first + k <= Len(Flat) + 1 /\ k \in Nat
        BY <1>2
    <2> HIDE DEF first
    <2>2. SubSeq(Flat, first, first + k - 1) \in Seq(0..last)
        BY <2>1, PartsOfFlat
    <2>3. SubSeq(Flat, 1, k) \in Seq(0..last)
        BY <1>2, <2>2 DEF first
    <2> QED
        BY <2>3 DEF Answers
<1>4. IInv'
    BY <1>1, <1>3, Shrinks
<1>5. Bytes!Ready
    BY <1>1, EmptySeq DEF Bytes!Ready, Awake, Flat
<1>6. Bytes!Take(k)
    BY <1>1, <1>2, <1>5 DEF Bytes!Take, Bytes!Piece, Bytes!From, Flat
<1> QED
    BY <1>4, <1>6 DEF Bytes!Next, Flat

LEMMA DropStep ==
    ASSUME IInv, NEW k \in 0..Len(Flat), Keeps, ReturnsVoid,
           blockqueue' \in Queues(last), Flat' = SubSeq(Flat, k + 1, Len(Flat)),
           length' = length - k
    PROVE  IInv' /\ Bytes!Next
<1>1. last' = last /\ eos' = eos /\ eos \in BOOLEAN /\ out' = <<>>
    BY Counted DEF Keeps, ReturnsVoid
<1>2. out' \in Answers(last)
    BY <1>1 DEF Answers
<1>3. IInv'
    BY <1>1, <1>2, Shrinks
<1>4. Bytes!Drop(k)
    BY <1>1 DEF Bytes!Drop, Bytes!From, Flat
<1> QED
    BY <1>3, <1>4 DEF Bytes!Next, Flat

LEMMA UnchangedStream ==
    ASSUME IInv, UNCHANGED stream
    PROVE  /\ blockqueue' \in Queues(last) /\ Flat' = Flat /\ length' = length - 0
           /\ Flat' = SubSeq(Flat, 0 + 1, Len(Flat)) /\ 0 \in 0..Len(Flat)
<1>1. /\ Flat \in Seq(1..last) /\ Len(Flat) \in Nat /\ blockqueue \in Queues(last)
      /\ length \in Int
    BY Counted DEF IInv, TypeOK
<1>2. Flat' = Flat /\ blockqueue' = blockqueue /\ length' = length
    BY DEF stream, Flat
<1>3. SubSeq(Flat, 0 + 1, Len(Flat)) = Flat
    BY <1>1, SubSeqFull
<1> QED
    BY <1>1, <1>2, <1>3

LEMMA LookStep ==
    ASSUME IInv, NEW first \in Nat \ {0}, NEW n \in Nat, first + n <= Len(Flat) + 1,
           Awake, Keeps, UNCHANGED stream, out' = <<SubSeq(Flat, first, first + n - 1)>>
    PROVE  IInv' /\ Bytes!Next
<1>1. /\ last' = last /\ eos' = eos /\ eos \in BOOLEAN /\ length = Len(Flat)
      /\ Len(Flat) \in Nat /\ Flat \in Seq(1..last)
    BY Counted DEF Keeps
<1>2. out' \in Answers(last)
    BY PartsOfFlat DEF Answers
<1>3. IInv'
    BY <1>1, <1>2, UnchangedStream, Shrinks
<1>4. Bytes!Ready
    BY <1>1, EmptySeq DEF Bytes!Ready, Awake, Flat
<1>5. Bytes!Look(first, n)
    BY <1>1, <1>4, UnchangedStream DEF Bytes!Look, Bytes!Piece, Flat
<1>6. n \in 0..Len(Flat) /\ first \in 1..Len(Flat) + 1 - n
    BY <1>1
<1> QED
    BY <1>3, <1>5, <1>6 DEF Bytes!Next, Flat

LEMMA NothingStep ==
    ASSUME IInv, Awake, Keeps, Nothing
    PROVE  IInv' /\ Bytes!Next
<1>1. SubSeq(Flat, 1, 0) = <<>>
    BY SubSeqEmpty
<1>2. out' = <<SubSeq(Flat, 1, 0)>> /\ UNCHANGED stream
    BY <1>1 DEF Nothing, Returns
<1> QED
    BY <1>2, UnchangedStream, TakeStep

\* Bytes that are taken through Cut.
LEMMA TakeBytesStep ==
    ASSUME IInv, NEW k \in 0..Len(Flat), Awake, Keeps, TakeBytes(k)
    PROVE  IInv' /\ Bytes!Next
<1>1. /\ Cut(blockqueue, k).rest \in Queues(last)
      /\ FlattenSeq(Cut(blockqueue, k).data) = SubSeq(Flat, 1, k)
      /\ FlattenSeq(Cut(blockqueue, k).rest) = SubSeq(Flat, k + 1, Len(Flat))
    BY CutFlat
<1>2. /\ blockqueue' = Cut(blockqueue, k).rest /\ length' = length - k
      /\ out' = <<FlattenSeq(Cut(blockqueue, k).data)>>
    BY DEF TakeBytes, Returns
<1>3. /\ blockqueue' \in Queues(last) /\ Flat' = SubSeq(Flat, k + 1, Len(Flat))
      /\ out' = <<SubSeq(Flat, 1, k)>>
    BY <1>1, <1>2 DEF Flat
<1> QED
    BY <1>2, <1>3, TakeStep

\* The first block off the queue.
LEMMA FrontOff ==
    ASSUME IInv, blockqueue # <<>>, blockqueue' = Tail(blockqueue)
    PROVE  /\ Len(Head(blockqueue)) \in 1..Len(Flat)
           /\ Head(blockqueue) = SubSeq(Flat, 1, Len(Head(blockqueue)))
           /\ blockqueue' \in Queues(last)
           /\ Flat' = SubSeq(Flat, Len(Head(blockqueue)) + 1, Len(Flat))
<1> DEFINE h == Head(blockqueue)
           t == FlattenSeq(Tail(blockqueue))
           R == 1..last
<1>1. /\ h \in Seq(R) /\ t \in Seq(R) /\ Flat = h \o t /\ Len(h) \in 1..MaxBlock
      /\ Tail(blockqueue) \in Queues(last)
    BY Counted DEF Blocks
<1>2. Flat' = t
    BY DEF Flat
<1> HIDE DEF h, t, R
<1>3. SubSeq(h \o t, 1, Len(h)) = h /\ SubSeq(h \o t, Len(h) + 1, Len(h \o t)) = t
    BY <1>1, SplitConcat
<1>4. Len(h \o t) = Len(h) + Len(t) /\ Len(t) \in Nat
    BY <1>1, ConcatProperties, LenProperties
<1>5. Len(h) \in 1..Len(Flat)
    BY <1>1, <1>4
<1>6. h = SubSeq(Flat, 1, Len(h)) /\ t = SubSeq(Flat, Len(h) + 1, Len(Flat))
    BY <1>1, <1>3
<1> QED
    BY <1>1, <1>2, <1>5, <1>6 DEF h

LEMMA GetBytesStep ==
    ASSUME IInv, NEW len \in 0..MaxBytes, GetBytes(len) PROVE IInv' /\ Bytes!Next
<1>1. Awake /\ Keeps
    BY DEF GetBytes
<1>2. CASE length = 0
    BY <1>1, <1>2, NothingStep DEF GetBytes
<1>3. CASE length # 0
    <2>1. Least(len, length) \in 0..Len(Flat)
        BY Counted DEF Least
    <2>2. TakeBytes(Least(len, length))
        BY <1>3 DEF GetBytes
    <2> DEFINE k == Least(len, length)
    <2> HIDE DEF k
    <2>3. k \in 0..Len(Flat) /\ TakeBytes(k)
        BY <2>1, <2>2 DEF k
    <2> QED
        BY <1>1, <2>3, TakeBytesStep
<1> QED
    BY <1>2, <1>3

LEMMA GetBlockStep ==
    ASSUME IInv, NEW len \in 0..MaxBytes, GetBlock(len) PROVE IInv' /\ Bytes!Next
<1>1. Awake /\ Keeps
    BY DEF GetBlock
<1>2. CASE length = 0 \/ length < len
    BY <1>1, <1>2, NothingStep DEF GetBlock
<1>3. CASE ~(length = 0 \/ length < len)
    <2>1. len \in 0..Len(Flat)
        BY <1>3, Counted
    <2>2. TakeBytes(len)
        BY <1>3 DEF GetBlock
    <2> QED
        BY <1>1, <2>1, <2>2, TakeBytesStep
<1> QED
    BY <1>2, <1>3

LEMMA ToBlockStep ==
    ASSUME IInv, ToBlock PROVE IInv' /\ Bytes!Next
<1>1. Awake /\ Keeps
    BY DEF ToBlock
<1>2. CASE length = 0
    BY <1>1, <1>2, NothingStep DEF ToBlock
<1>3. CASE length # 0
    <2>1. length \in 0..Len(Flat)
        BY Counted
    <2>2. TakeBytes(length)
        BY <1>3 DEF ToBlock
    <2> QED
        BY <1>1, <2>1, <2>2, TakeBytesStep
<1> QED
    BY <1>2, <1>3

\* What is looked at through BlockQueuePeekBytes is the beginning of the bytes.
LEMMA PeekBytesStep ==
    ASSUME IInv, NEW len \in 0..MaxBytes, PeekBytes(len) PROVE IInv' /\ Bytes!Next
<1> DEFINE n == Least(len, length)
           q == blockqueue
           R == 1..last
<1>1. Awake /\ Keeps /\ UNCHANGED stream /\ out' = <<BlockQueuePeekBytes(q, n, 0).data>>
    BY DEF PeekBytes, Returns
<1>2. /\ n \in 0..Len(FlattenSeq(q)) /\ q \in Seq(Seq(R)) /\ Flat = FlattenSeq(q)
      /\ Len(Flat) \in Nat
    BY Counted DEF Flat, Least
<1> HIDE DEF n, q, R
<1>3. BlockQueuePeekBytes(q, n, 0).data = SubSeq(FlattenSeq(q), 1, n)
    BY <1>2, PeekGives
<1> DEFINE first == 1
<1>4. /\ first \in Nat \ {0} /\ n \in Nat /\ first + n <= Len(Flat) + 1
      /\ first + n - 1 = n
    BY <1>2
<1>5. out' = <<SubSeq(Flat, first, first + n - 1)>>
    BY <1>1, <1>2, <1>3, <1>4
<1> HIDE DEF first
<1> QED
    BY <1>1, <1>4, <1>5, LookStep

LEMMA GetFrontStep ==
    ASSUME IInv, GetFront PROVE IInv' /\ Bytes!Next
<1>1. Awake /\ Keeps
    BY DEF GetFront
<1>2. CASE length = 0
    BY <1>1, <1>2, NothingStep DEF GetFront
<1>3. CASE length # 0
    <2> DEFINE k == Len(Head(blockqueue))
    <2>1. /\ out' = <<Head(blockqueue)>> /\ length' = length - k
          /\ blockqueue' = Tail(blockqueue)
        BY <1>3 DEF GetFront, Returns
    <2>2. blockqueue # <<>>
        BY <1>3, Counted
    <2>3. /\ k \in 1..Len(Flat) /\ Head(blockqueue) = SubSeq(Flat, 1, k)
          /\ blockqueue' \in Queues(last) /\ Flat' = SubSeq(Flat, k + 1, Len(Flat))
        BY <2>1, <2>2, FrontOff
    <2> HIDE DEF k
    <2>4. k \in 0..Len(Flat) /\ out' = <<SubSeq(Flat, 1, k)>>
        BY <2>1, <2>3
    <2> QED
        BY <1>1, <2>1, <2>3, <2>4, TakeStep
<1> QED
    BY <1>2, <1>3

LEMMA PeekFrontStep ==
    ASSUME IInv, PeekFront PROVE IInv' /\ Bytes!Next
<1>1. Awake /\ Keeps /\ UNCHANGED stream
    BY DEF PeekFront
<1>2. CASE length = 0
    <2>1. Nothing
        BY <1>1, <1>2 DEF PeekFront, Nothing
    <2> QED
        BY <1>1, <2>1, NothingStep
<1>3. CASE length # 0
    <2> DEFINE h == Head(blockqueue)
               n == Len(h)
               first == 1
    <2>1. out' = <<h>>
        BY <1>3 DEF PeekFront, Returns
    <2>2. /\ h \in Seq(1..last) /\ n \in Nat /\ FlattenSeq(Tail(blockqueue)) \in Seq(1..last)
          /\ Flat = h \o FlattenSeq(Tail(blockqueue)) /\ Len(Flat) \in Nat
        <3>1. blockqueue # <<>>
            BY <1>3, Counted
        <3> QED
            BY <3>1, Counted, LenProperties
    <2>3. SubSeq(Flat, 1, n) = h /\ n <= Len(Flat)
        <3> DEFINE t == FlattenSeq(Tail(blockqueue))
        <3>1. h \in Seq(1..last) /\ t \in Seq(1..last) /\ Flat = h \o t
            BY <2>2
        <3> HIDE DEF h, t
        <3>2. SubSeq(h \o t, 1, Len(h)) = h
            BY <3>1, SplitConcat
        <3>3. Len(h \o t) = Len(h) + Len(t) /\ Len(h) \in Nat /\ Len(t) \in Nat
            BY <3>1, ConcatProperties, LenProperties
        <3> QED
            BY <3>1, <3>2, <3>3
    <2>4. /\ first \in Nat \ {0} /\ first + n <= Len(Flat) + 1 /\ first + n - 1 = n
        <3> HIDE DEF n
        <3> QED
            BY <2>2, <2>3
    <2>5. out' = <<SubSeq(Flat, first, first + n - 1)>>
        BY <2>1, <2>3, <2>4
    <2> HIDE DEF first, n
    <2> QED
        BY <1>1, <2>2, <2>4, <2>5, LookStep
<1> QED
    BY <1>2, <1>3

LEMMA ByteAtStep ==
    ASSUME IInv, NEW position \in 0..MaxBytes, ByteAt(position) PROVE IInv' /\ Bytes!Next
<1>1. /\ length \in Nat /\ length = Len(Flat) /\ Flat \in Seq(1..last) /\ position \in Nat
      /\ eos' = eos /\ last' = last /\ Keeps /\ UNCHANGED stream
      /\ length >= position \/ eos
    BY Counted DEF ByteAt, Keeps
<1>2. CASE position < length
    <2> DEFINE f == Flat
               first == position + 1
    <2>1. Awake
        BY <1>1, <1>2 DEF Awake
    <2>2. out' = <<<<f[first]>>>>
        BY <1>2 DEF ByteAt, Returns, Flat
    <2>3. first \in Nat \ {0} /\ first \in 1..Len(f) /\ first + 1 <= Len(f) + 1 /\ f \in Seq(1..last)
        BY <1>1, <1>2
    <2> HIDE DEF f, first
    <2>4. first + 1 - 1 = first
        BY <2>3
    <2>5. <<f[first]>> = SubSeq(f, first, first + 1 - 1)
        <3> DEFINE s == SubSeq(f, first, first)
        <3>1. \A i \in first..first : f[i] \in 1..last
            <4>1. f[first] \in 1..last
                BY <2>3, ElementOfSeq
            <4>2. \A i \in first..first : i = first
                BY <2>3
            <4> QED
                BY <4>1, <4>2
        <3>2. /\ s \in Seq(1..last) /\ Len(s) = 1 /\ s[1] = f[first]
            <4>1. /\ s \in Seq(1..last)
                  /\ Len(s) = IF first <= first THEN first - first + 1 ELSE 0
                  /\ \A i \in 1..first - first + 1 : s[i] = f[first + i - 1]
                BY <2>3, <3>1, SubSeqProperties
            <4>2. first - first + 1 = 1 /\ first <= first /\ first + 1 - 1 = first
                BY <2>3
            <4> HIDE DEF s
            <4> QED
                BY <4>1, <4>2
        <3> HIDE DEF s
        <3>3. <<f[first]>> = s
            BY <3>2
        <3> QED
            BY <2>4, <3>3 DEF s
    <2> DEFINE n == 1
    <2>6. /\ n \in Nat /\ first + n <= Len(Flat) + 1
          /\ out' = <<SubSeq(Flat, first, first + n - 1)>>
        BY <2>2, <2>3, <2>5 DEF f
    <2> HIDE DEF n
    <2> QED
        BY <1>1, <2>1, <2>3, <2>6, LookStep
<1>3. CASE ~(position < length)
    <2>1. out' = <<<<NoByte>>>>
        BY <1>3 DEF ByteAt, Returns
    <2>2. <<NoByte>> \in Seq(0..last)
        <3>1. NoByte \in 0..last
            BY Counted DEF NoByte
        <3> HIDE DEF NoByte
        <3> QED
            BY <3>1
    <2>3. out' \in Answers(last)
        BY <2>1, <2>2 DEF Answers
    <2>4. IInv'
        BY <1>1, <2>3, Counted, UnchangedStream, Shrinks
    <2>5. Bytes!Miss
        BY <1>1, <2>1, UnchangedStream DEF Bytes!Miss, Bytes!NoByte, NoByte, Flat
    <2> QED
        BY <2>4, <2>5 DEF Bytes!Next
<1> QED
    BY <1>2, <1>3

LEMMA PopAndDeleteFrontStep ==
    ASSUME IInv, PopAndDeleteFront PROVE IInv' /\ Bytes!Next
<1> DEFINE k == Len(Head(blockqueue))
<1>1. /\ blockqueue # <<>> /\ blockqueue' = Tail(blockqueue) /\ length' = length - k
      /\ ReturnsVoid /\ Keeps
    BY DEF PopAndDeleteFront
<1>2. /\ k \in 1..Len(Flat) /\ blockqueue' \in Queues(last)
      /\ Flat' = SubSeq(Flat, k + 1, Len(Flat))
    BY <1>1, FrontOff
<1> HIDE DEF k
<1>3. k \in 0..Len(Flat)
    BY <1>2
<1> QED
    BY <1>1, <1>2, <1>3, DropStep

LEMMA EraseFrontStep ==
    ASSUME IInv, NEW len \in 0..MaxBytes, EraseFront(len) PROVE IInv' /\ Bytes!Next
<1> DEFINE k == Least(len, length)
<1>1. /\ blockqueue' = Cut(blockqueue, k).rest /\ length' = length - k
      /\ ReturnsVoid /\ Keeps
    BY DEF EraseFront
<1>2. k \in 0..Len(Flat)
    BY Counted DEF Least
<1> HIDE DEF k
<1>3. blockqueue' \in Queues(last) /\ Flat' = SubSeq(Flat, k + 1, Len(Flat))
    BY <1>1, <1>2, CutFlat DEF Flat
<1> QED
    BY <1>1, <1>2, <1>3, DropStep

LEMMA ClearStep ==
    ASSUME IInv, Clear PROVE IInv' /\ Bytes!Next
<1> DEFINE k == Len(Flat)
<1>1. blockqueue' = <<>> /\ length' = 0 /\ ReturnsVoid /\ Keeps
    BY DEF Clear
<1>2. k \in Nat /\ k \in 0..Len(Flat) /\ length = k
    BY Counted
<1>3. blockqueue' \in Queues(last) /\ Flat' = <<>>
    BY <1>1, FlattenEmpty DEF Flat, Queues
<1>4. SubSeq(Flat, k + 1, Len(Flat)) = <<>>
    BY <1>2, SubSeqEmpty
<1> HIDE DEF k
<1>5. length' = length - k
    BY <1>1, <1>2
<1> QED
    BY <1>1, <1>2, <1>3, <1>4, <1>5, DropStep

LEMMA SetEOSStep ==
    ASSUME IInv, NEW value \in BOOLEAN, SetEOS(value) PROVE IInv' /\ Bytes!Next
<1>1. eos' \in BOOLEAN /\ out' = <<>> /\ UNCHANGED stream /\ last' = last
    BY DEF SetEOS, ReturnsVoid
<1>2. out' \in Answers(last)
    BY <1>1 DEF Answers
<1>3. IInv'
    BY <1>1, <1>2, UnchangedStream, Shrinks
<1>4. Bytes!SetEnd
    BY <1>1, UnchangedStream DEF Bytes!SetEnd, Flat
<1> QED
    BY <1>3, <1>4 DEF Bytes!Next

\* A block that goes in.
LEMMA PushStep ==
    ASSUME IInv, NEW n \in 1..MaxBlock, Push(n)
    PROVE  /\ NewBlock(n) \in Seq(1..last') /\ Len(NewBlock(n)) = n
           /\ NewBlock(n) \in Blocks(1..last', MaxBlock)
           /\ Flat \in Seq(1..last') /\ blockqueue \in Queues(last')
           /\ blockqueue \in Seq(Seq(1..last'))
           /\ last' \in 0..MaxBytes /\ length' \in 0..last' /\ length' = Len(Flat) + n
           /\ n \in Nat \ {0}
           /\ out' = <<>> /\ eos' = eos /\ eos \in BOOLEAN
<1>1. /\ last \in 0..MaxBytes /\ length \in 0..last /\ eos \in BOOLEAN
      /\ length = Len(Flat) /\ Flat \in Seq(1..last)
      /\ blockqueue \in Seq(Seq(1..last)) /\ blockqueue \in Queues(last)
    BY Counted DEF IInv, TypeOK
<1>2. /\ n \in 1..MaxBytes - last /\ length' = length + n /\ last' = last + n
      /\ out' = <<>> /\ eos' = eos
    BY DEF Push, ReturnsVoid
<1>3. /\ last' \in 0..MaxBytes /\ length' \in 0..last' /\ length' = Len(Flat) + n
      /\ n \in Nat \ {0} /\ last \in Nat
    BY <1>1, <1>2, StreamAssumption
<1>4. NewBlock(n) \in [1..n -> 1..last']
    <2>1. \A i \in 1..n : last + i \in 1..last'
        BY <1>2, <1>3
    <2> QED
        BY <2>1 DEF NewBlock
<1>5. NewBlock(n) \in Seq(1..last') /\ Len(NewBlock(n)) = n
    BY <1>3, <1>4
<1>6. 1..last \subseteq 1..last'
    BY <1>2, <1>3
<1>7. Seq(1..last) \subseteq Seq(1..last')
    BY <1>6, SeqMonotonic
<1>8. Blocks(1..last, MaxBlock) \subseteq Blocks(1..last', MaxBlock)
    BY <1>7 DEF Blocks
<1>9. blockqueue \in Queues(last')
    BY <1>1, <1>8, SeqMonotonic DEF Queues
<1>10. blockqueue \in Seq(Seq(1..last'))
    BY <1>1, <1>7, SeqMonotonic
<1> QED
    BY <1>1, <1>2, <1>3, <1>5, <1>7, <1>9, <1>10 DEF Blocks

LEMMA Grows ==
    ASSUME IInv, NEW n \in 1..MaxBlock, Push(n), blockqueue' \in Queues(last'),
           Len(Flat') = Len(Flat) + n
    PROVE  IInv'
<1>1. /\ last' \in 0..MaxBytes /\ length' \in 0..last' /\ length' = Len(Flat) + n
      /\ out' = <<>> /\ eos' \in BOOLEAN /\ last' \in Nat
    BY PushStep, StreamAssumption
<1>2. /\ blockqueue' \in Seq(Seq(1..last'))
      /\ \A i \in DOMAIN blockqueue' : Len(blockqueue'[i]) \in 1..MaxBlock
    BY <1>1, QueueType
<1>3. out' \in Seq(Seq(0..last')) /\ Len(out') <= 1
    BY <1>1
<1>4. TypeOK'
    BY <1>1, <1>2, <1>3 DEF TypeOK
<1> QED
    BY <1>1, <1>4 DEF IInv, LengthCounts, Flat

LEMMA PushBackStep ==
    ASSUME IInv, NEW n \in 1..MaxBlock, PushBack(n) PROVE IInv' /\ Bytes!Next
<1> DEFINE b == NewBlock(n)
           R == 1..last'
<1>1. Push(n) /\ blockqueue' = Append(blockqueue, b)
    BY DEF PushBack
<1>2. /\ b \in Seq(R) /\ Len(b) = n /\ b \in Blocks(R, MaxBlock)
      /\ Flat \in Seq(R) /\ blockqueue \in Seq(Blocks(R, MaxBlock))
      /\ blockqueue \in Seq(Seq(R))
      /\ n \in Nat \ {0} /\ out' = <<>> /\ eos' = eos
    BY <1>1, PushStep DEF Queues
<1>3. blockqueue' \in Queues(last')
    <2> DEFINE B == Blocks(R, MaxBlock)
    <2>1. b \in B /\ blockqueue \in Seq(B)
        BY <1>2
    <2> HIDE DEF B, b
    <2>2. Append(blockqueue, b) \in Seq(B)
        BY <2>1, AppendProperties
    <2> QED
        BY <1>1, <2>2 DEF B, b, Queues
<1>4. Flat' = Flat \o b
    <2> HIDE DEF b, R
    <2>1. FlattenSeq(Append(blockqueue, b)) = FlattenSeq(blockqueue) \o b
        BY <1>2, FlattenAppend
    <2> QED
        BY <1>1, <2>1 DEF Flat
<1> DEFINE f == Flat
<1> HIDE DEF b, R, f
<1>5. /\ SubSeq(f \o b, 1, Len(f)) = f /\ Len(f \o b) = Len(f) + Len(b)
      /\ Len(f) \in Nat
    <2>1. f \in Seq(R) /\ b \in Seq(R)
        BY <1>2 DEF f
    <2>2. SubSeq(f \o b, 1, Len(f)) = f
        BY <2>1, SplitConcat
    <2>3. Len(f \o b) = Len(f) + Len(b) /\ Len(f) \in Nat
        BY <2>1, ConcatProperties, LenProperties
    <2> QED
        BY <2>2, <2>3
<1>6. Len(Flat') = Len(Flat) + n
    BY <1>2, <1>4, <1>5 DEF f
<1>7. IInv'
    BY <1>1, <1>3, <1>6, Grows
<1>8. Len(Flat') > Len(Flat) /\ Flat = SubSeq(Flat', 1, Len(Flat))
    BY <1>2, <1>4, <1>5, <1>6 DEF f
<1>9. Bytes!Put
    BY <1>2, <1>8 DEF Bytes!Put, Flat
<1> QED
    BY <1>7, <1>9 DEF Bytes!Next

LEMMA PushFrontStep ==
    ASSUME IInv, NEW n \in 1..MaxBlock, PushFront(n) PROVE IInv' /\ Bytes!Next
<1> DEFINE b == NewBlock(n)
           R == 1..last'
<1>1. Push(n) /\ blockqueue' = <<b>> \o blockqueue
    BY DEF PushFront
<1>2. /\ b \in Seq(R) /\ Len(b) = n /\ b \in Blocks(R, MaxBlock)
      /\ Flat \in Seq(R) /\ blockqueue \in Seq(Blocks(R, MaxBlock))
      /\ blockqueue \in Seq(Seq(R))
      /\ n \in Nat \ {0} /\ out' = <<>> /\ eos' = eos
    BY <1>1, PushStep DEF Queues
<1>3. blockqueue' \in Queues(last')
    <2> DEFINE B == Blocks(R, MaxBlock)
    <2>1. b \in B /\ blockqueue \in Seq(B)
        BY <1>2
    <2> HIDE DEF B, b
    <2>2. <<b>> \in Seq(B)
        BY <2>1
    <2>3. <<b>> \o blockqueue \in Seq(B)
        BY <2>1, <2>2, ConcatProperties
    <2> QED
        BY <1>1, <2>3 DEF B, b, Queues
<1>4. Flat' = b \o Flat
    <2> HIDE DEF b, R
    <2>1. FlattenSeq(<<b>> \o blockqueue) = b \o FlattenSeq(blockqueue)
        BY <1>2, FlattenCons
    <2> QED
        BY <1>1, <2>1 DEF Flat
<1> DEFINE f == Flat
<1> HIDE DEF b, R, f
<1>5. /\ SubSeq(b \o f, Len(b) + 1, Len(b \o f)) = f /\ Len(b \o f) = Len(b) + Len(f)
      /\ Len(f) \in Nat
    BY <1>2, SplitConcat, ConcatProperties, LenProperties DEF f
<1>6. Len(Flat') = Len(Flat) + n
    BY <1>2, <1>4, <1>5 DEF f
<1>7. IInv'
    BY <1>1, <1>3, <1>6, Grows
<1>8. Len(Flat') > Len(Flat) /\ Len(Flat') - Len(Flat) = n
    BY <1>2, <1>5, <1>6 DEF f
<1>9. Flat = SubSeq(Flat', Len(Flat') - Len(Flat) + 1, Len(Flat'))
    BY <1>2, <1>4, <1>5, <1>8 DEF f
<1>10. Bytes!PutBack
    BY <1>2, <1>8, <1>9 DEF Bytes!PutBack, Flat
<1> QED
    BY <1>7, <1>10 DEF Bytes!Next

LEMMA NextStep == IInv /\ [Next]_vars => IInv' /\ [Bytes!Next]_(Bytes!vars)
<1> SUFFICES ASSUME IInv, [Next]_vars PROVE IInv' /\ [Bytes!Next]_(Bytes!vars)
    OBVIOUS
<1>1. ASSUME NEW n \in 1..MaxBlock, PushBack(n) \/ PushFront(n) PROVE IInv' /\ Bytes!Next
    BY <1>1, PushBackStep, PushFrontStep
<1>2. ASSUME NEW len \in 0..MaxBytes, GetBytes(len) \/ GetBlock(len)
      PROVE  IInv' /\ Bytes!Next
    BY <1>2, GetBytesStep, GetBlockStep
<1>3. ASSUME NEW len \in 0..MaxBytes, PeekBytes(len) \/ EraseFront(len) \/ ByteAt(len)
      PROVE  IInv' /\ Bytes!Next
    BY <1>3, PeekBytesStep, EraseFrontStep, ByteAtStep
<1>4. CASE ToBlock \/ GetFront \/ PeekFront
    BY <1>4, ToBlockStep, GetFrontStep, PeekFrontStep
<1>5. CASE PopAndDeleteFront \/ Clear
    BY <1>5, PopAndDeleteFrontStep, ClearStep
<1>6. ASSUME NEW value \in BOOLEAN, SetEOS(value) PROVE IInv' /\ Bytes!Next
    BY <1>6, SetEOSStep
<1>7. CASE UNCHANGED vars
    <2>1. IInv'
        BY <1>7 DEF IInv, TypeOK, LengthCounts, vars, stream
    <2>2. UNCHANGED Bytes!vars
        BY <1>7 DEF Bytes!vars, vars, stream
    <2> QED
        BY <2>1, <2>2
<1> QED
    BY <1>1, <1>2, <1>3, <1>4, <1>5, <1>6, <1>7 DEF Next

LEMMA InitStep == Init => IInv /\ Bytes!Init
<1> SUFFICES ASSUME Init PROVE IInv /\ Bytes!Init
    OBVIOUS
<1>1. FlattenSeq(blockqueue) = <<>> /\ Len(<<>>) = 0
    BY FlattenEmpty DEF Init
<1>2. IInv
    <2>1. /\ blockqueue \in Seq(Seq(1..last)) /\ DOMAIN blockqueue = {}
          /\ out \in Seq(Seq(0..last)) /\ Len(out) <= 1
        BY DEF Init
    <2>2. length \in 0..last /\ eos \in BOOLEAN /\ last \in 0..MaxBytes
        <3>1. length = 0 /\ last = 0
            BY DEF Init
        <3>2. length \in 0..last /\ last \in 0..MaxBytes
            BY <3>1, StreamAssumption
        <3>3. eos \in BOOLEAN
            BY DEF Init
        <3> QED
            BY <3>2, <3>3
    <2>3. length = Len(FlattenSeq(blockqueue))
        BY <1>1 DEF Init
    <2> QED
        BY <2>1, <2>2, <2>3 DEF IInv, TypeOK, LengthCounts
<1>3. Bytes!Init
    BY <1>1 DEF Init, Bytes!Init
<1> QED
    BY <1>2, <1>3

LEMMA Invariant == Spec => []IInv
<1> QED
    BY InitStep, NextStep, PTL DEF Spec

\* The blocks of BlockStream.cpp stay sequences of bytes that were put in, none
\* of them empty, and the count, the end and the answer keep their types.
THEOREM TypeCorrect == Spec => []TypeOK
<1>1. IInv => TypeOK
    BY DEF IInv
<1> QED
    BY <1>1, Invariant, PTL

\* The count that the waits of BlockStream.cpp look at is the number of bytes
\* in the blocks, for blocks and calls of every size.
THEOREM LengthCountsAlways == Spec => []LengthCounts
<1>1. IInv => LengthCounts
    BY DEF IInv
<1> QED
    BY <1>1, Invariant, PTL

\* SyncedBlockStream gives out the bytes that went in, in order and each once,
\* however its calls cut the blocks, join them and look at them, and answers
\* only when there is a byte or the stream has ended: it implements ByteStream.
THEOREM StreamImplementsBytes == Spec => ImplementsByteStream
<1> QED
    BY InitStep, NextStep, Invariant, PTL DEF Spec, ImplementsByteStream, Bytes!Spec

-----------------------------------------------------------------------------
(* SegmentReader, whose decoders read from such blocks. *)

\* The bytes of segment s after the first a of them up to number b.
Base(s) == 1 + s * (MaxInit + MaxMedia + 1)
Part(s, a, b) == [i \in 1..b - a |-> i + a + Base(s)]

Bounded == MaxInit \in Nat /\ MaxMedia \in Nat

LEMMA BaseType ==
    ASSUME Bounded, NEW s \in Nat PROVE Base(s) \in Nat
<1>1. MaxInit + MaxMedia + 1 \in Nat
    BY DEF Bounded
<1> DEFINE k == MaxInit + MaxMedia + 1
<1>2. s * k \in Nat
    <2> HIDE DEF k
    <2> QED
        BY <1>1 DEF k
<1> QED
    BY <1>2 DEF Base

LEMMA ContentIsPart ==
    ASSUME Bounded, NEW s \in Nat, NEW a \in Nat, NEW b \in Nat
    PROVE  Content(s, a + 1, b) = Part(s, a, b)
<1> DEFINE k == s * (MaxInit + MaxMedia + 1)
<1>1. k \in Int /\ Base(s) = 1 + k
    BY DEF Base, Bounded
<1>2. Content(s, a + 1, b) = [i \in 1..b - (a + 1) + 1 |-> i + (a + 1) + k]
    BY DEF Content
<1> HIDE DEF k
<1>3. b - (a + 1) + 1 = b - a
    OBVIOUS
<1>4. \A i \in 1..b - a : i + (a + 1) + k = i + a + Base(s)
    BY <1>1
<1> QED
    BY <1>2, <1>3, <1>4 DEF Part

LEMMA PartType ==
    ASSUME Bounded, NEW s \in Nat, NEW a \in Nat, NEW b \in Nat, a <= b
    PROVE  /\ Part(s, a, b) \in Seq(Nat) /\ Len(Part(s, a, b)) = b - a
           /\ Part(s, a, b) = <<>> <=> a = b
<1> DEFINE n == b - a
           x == Part(s, a, b)
<1>1. n \in Nat /\ Base(s) \in Nat
    BY BaseType
<1>2. x \in [1..n -> Nat]
    BY <1>1 DEF Part
<1> HIDE DEF n, x
<1>3. x \in Seq(Nat) /\ Len(x) = n
    BY <1>1, <1>2
<1>4. x = <<>> <=> n = 0
    BY <1>1, <1>3, EmptySeq
<1> QED
    BY <1>3, <1>4 DEF n, x

LEMMA PartJoins ==
    ASSUME Bounded, NEW s \in Nat, NEW a \in Nat, NEW b \in Nat, NEW c \in Nat, a <= b, b <= c
    PROVE  Part(s, a, b) \o Part(s, b, c) = Part(s, a, c)
<1> DEFINE x == Part(s, a, b)
           y == Part(s, b, c)
           z == Part(s, a, c)
           n == b - a
           m == c - b
           k == Base(s)
<1>1. n \in Nat /\ m \in Nat /\ c - a = n + m /\ b = a + n /\ k \in Nat
    BY BaseType
<1>2. x \in Seq(Nat) /\ Len(x) = n /\ y \in Seq(Nat) /\ Len(y) = m
    BY PartType
<1>3. z \in Seq(Nat) /\ Len(z) = n + m
    <2>1. a <= c
        OBVIOUS
    <2>2. z \in Seq(Nat) /\ Len(z) = c - a
        BY <2>1, PartType
    <2> QED
        BY <1>1, <2>2
<1>4. /\ \A i \in 1..n : x[i] = i + a + k
      /\ \A i \in 1..m : y[i] = i + b + k
      /\ \A i \in 1..n + m : z[i] = i + a + k
    BY <1>1 DEF Part
<1> HIDE DEF x, y, z, n, m, k
<1> DEFINE xy == x \o y
<1>5. /\ xy \in Seq(Nat) /\ Len(xy) = n + m
      /\ \A i \in 1..n + m : xy[i] = IF i <= n THEN x[i] ELSE y[i - n]
    BY <1>2, ConcatProperties
<1> HIDE DEF xy
<1>6. ASSUME NEW i \in 1..n + m PROVE xy[i] = z[i]
    <2>1. CASE i <= n
        <3>1. i \in 1..n
            BY <1>1, <2>1
        <3> QED
            BY <1>4, <1>5, <2>1, <3>1
    <2>2. CASE ~(i <= n)
        <3> DEFINE j == i - n
        <3>1. j \in 1..m /\ j + b + k = i + a + k
            BY <1>1, <2>2
        <3>2. xy[i] = y[j]
            BY <1>5, <2>2
        <3> HIDE DEF j
        <3> QED
            BY <1>4, <3>1, <3>2
    <2> QED
        BY <2>1, <2>2
<1>7. xy = z
    <2>1. Len(xy) = Len(z) /\ \A i \in 1..Len(xy) : xy[i] = z[i]
        BY <1>3, <1>5, <1>6
    <2>2. xy \in Seq(Nat) /\ z \in Seq(Nat)
        BY <1>3, <1>5
    <2> QED
        BY <2>1, <2>2, SeqEqual
<1> QED
    BY <1>7 DEF x, y, z, xy

\* A peek at no block, and at one.
Blank(len) == [pos |-> 0, fault |-> FALSE, data |-> [j \in 1..len |-> NoByte]]

LEMMA PeekNone ==
    ASSUME NEW len, NEW offset
    PROVE  BlockQueuePeekBytes(<<>>, len, offset) = Blank(len)
<1> DEFINE Is(h) == h = [i \in 0..Len(<<>>) |->
                            IF i = 0
                            THEN [pos |-> 0, fault |-> FALSE, data |-> [j \in 1..len |-> NoByte]]
                            ELSE PeekBlock(h[i - 1], <<>>[i], len, offset)]
           f == [i \in 0..0 |-> Blank(len)]
           g == CHOOSE h : Is(h)
<1>1. Len(<<>>) = 0
    OBVIOUS
<1>2. Is(f)
    BY <1>1 DEF Blank
<1>3. Is(g)
    <2> HIDE DEF Is, f
    <2> QED
        BY <1>2
<1>4. g[0] = Blank(len)
    <2>1. 0 \in 0..Len(<<>>)
        BY <1>1
    <2> HIDE DEF g
    <2> QED
        BY <1>3, <2>1 DEF Blank
<1>5. BlockQueuePeekBytes(<<>>, len, offset) = g[0]
    BY <1>1 DEF BlockQueuePeekBytes
<1> QED
    BY <1>4, <1>5

LEMMA PeekOne ==
    ASSUME NEW b, NEW len, NEW offset
    PROVE  BlockQueuePeekBytes(<<b>>, len, offset) = PeekBlock(Blank(len), b, len, offset)
<1> DEFINE Is(h) == h = [i \in 0..Len(<<b>>) |->
                            IF i = 0
                            THEN [pos |-> 0, fault |-> FALSE, data |-> [j \in 1..len |-> NoByte]]
                            ELSE PeekBlock(h[i - 1], <<b>>[i], len, offset)]
           one == PeekBlock(Blank(len), b, len, offset)
           f == [i \in 0..1 |-> IF i = 0 THEN Blank(len) ELSE one]
           g == CHOOSE h : Is(h)
<1>1. Len(<<b>>) = 1 /\ <<b>>[1] = b
    OBVIOUS
<1>2. Is(f)
    <2>1. \A i \in 0..1 : i # 0 => i = 1 /\ f[i - 1] = Blank(len)
        OBVIOUS
    <2>2. \A i \in 0..1 : i # 0 => PeekBlock(f[i - 1], <<b>>[i], len, offset) = one
        BY <1>1, <2>1
    <2> HIDE DEF one
    <2> QED
        BY <1>1, <2>2 DEF Blank
<1>3. Is(g)
    <2> HIDE DEF Is, f
    <2> QED
        BY <1>2
<1>4. g[0] = Blank(len)
    <2>1. 0 \in 0..Len(<<b>>)
        BY <1>1
    <2> HIDE DEF g
    <2> QED
        BY <1>3, <2>1 DEF Blank
<1>5. g[1] = PeekBlock(g[0], b, len, offset)
    <2>1. 1 \in 0..Len(<<b>>) /\ 1 - 1 = 0
        BY <1>1
    <2> HIDE DEF g
    <2> DEFINE q == <<b>>
    <2>2. g = [i \in 0..Len(q) |->
                IF i = 0
                THEN [pos |-> 0, fault |-> FALSE, data |-> [j \in 1..len |-> NoByte]]
                ELSE PeekBlock(g[i - 1], q[i], len, offset)]
        BY <1>3
    <2>3. Len(q) = 1 /\ q[1] = b
        BY <1>1
    <2> HIDE DEF q
    <2>4. \A i \in 0..1 : i # 0 => g[i] = PeekBlock(g[i - 1], q[i], len, offset)
        BY <2>2, <2>3
    <2>5. \A i \in 0..1 : i # 0 => i = 1 /\ i - 1 = 0
        OBVIOUS
    <2>6. \A i \in 0..1 : i # 0 => g[i] = PeekBlock(g[0], b, len, offset)
        BY <2>3, <2>4, <2>5
    <2> QED
        BY <2>6
<1>6. BlockQueuePeekBytes(<<b>>, len, offset) = g[1]
    BY <1>1 DEF BlockQueuePeekBytes
<1> QED
    BY <1>4, <1>5, <1>6

\* All of the block, and nothing of it.
LEMMA PeekWhole ==
    ASSUME NEW b \in Seq(Nat), b # <<>>
    PROVE  LET r == BlockQueuePeekBytes(<<b>>, Len(b), 0) IN r.data = b /\ ~r.fault
<1> DEFINE n == Len(b)
           blank == Blank(n)
           copy == Copy(blank, 0, b, 0, n)
<1>1. n \in Nat /\ n > 0 /\ b = [i \in 1..n |-> b[i]]
    BY EmptySeq
<1>2. blank.pos = 0 /\ blank.data = [j \in 1..n |-> NoByte] /\ ~blank.fault
    BY DEF Blank
<1>3. copy.data = [i \in 1..n |-> IF i \in 0 + 1..0 + n THEN b[0 + i - 0] ELSE blank.data[i]]
    <2>1. DOMAIN blank.data = 1..n
        BY <1>2
    <2>2. copy.data = [i \in DOMAIN blank.data |-> IF i \in 0 + 1..0 + n THEN b[0 + i - 0]
                                                   ELSE blank.data[i]]
        BY DEF Copy, Blank
    <2> HIDE DEF blank, copy
    <2> QED
        BY <2>1, <2>2
<1>4. copy.fault = (blank.fault \/ n < 0)
    BY DEF Copy, Blank
<1>5. copy.data = b
    <2>1. \A i \in 1..n : i \in 0 + 1..0 + n /\ 0 + i - 0 = i
        BY <1>1
    <2> HIDE DEF copy, blank, n
    <2> QED
        BY <1>1, <1>3, <2>1
<1>6. PeekBlock(blank, b, n, 0) = [copy EXCEPT !.pos = 0 + n]
    <2>1. ~(blank.pos >= n) /\ ~(0 + n - blank.pos < Len(b)) /\ n - 0 = n /\ blank.pos = 0
        BY <1>1, <1>2
    <2>2. PeekBlock(blank, b, n, 0) = [copy EXCEPT !.pos = @ + n]
        <3> HIDE DEF blank
        <3> QED
            BY <2>1 DEF PeekBlock
    <2>3. copy.pos = 0
        BY DEF Copy, Blank
    <2> HIDE DEF copy, blank, n
    <2> QED
        BY <2>2, <2>3
<1>7. BlockQueuePeekBytes(<<b>>, n, 0) = PeekBlock(blank, b, n, 0)
    BY PeekOne
<1>8. /\ [copy EXCEPT !.pos = 0 + n].data = copy.data
      /\ [copy EXCEPT !.pos = 0 + n].fault = copy.fault
    BY DEF Copy, Blank
<1>9. ~copy.fault
    <2>1. ~blank.fault /\ ~(n < 0)
        BY <1>1, <1>2
    <2> HIDE DEF copy, blank, n
    <2> QED
        BY <1>4, <2>1, Zenon
<1> HIDE DEF copy, blank
<1> QED
    BY <1>5, <1>6, <1>7, <1>8, <1>9

LEMMA PeekNothing ==
    ASSUME NEW q, NEW offset, q = <<>> \/ \E b : q = <<b>>
    PROVE  LET r == BlockQueuePeekBytes(q, 0, offset) IN r.data = <<>> /\ ~r.fault
<1>1. Blank(0).data = <<>> /\ ~Blank(0).fault /\ Blank(0).pos = 0
    <2>1. 1..0 = {}
        OBVIOUS
    <2>2. Blank(0).data = [j \in 1..0 |-> NoByte] /\ ~Blank(0).fault /\ Blank(0).pos = 0
        BY DEF Blank
    <2>3. [j \in 1..0 |-> NoByte] = <<>>
        OBVIOUS
    <2> QED
        BY <2>2, <2>3
<1>2. \A b : PeekBlock(Blank(0), b, 0, offset) = Blank(0)
    BY <1>1 DEF PeekBlock
<1> QED
    BY <1>1, <1>2, PeekNone, PeekOne

(* The invariant.  A decoder has been given the first initSegmentOffset bytes of
   the init segment and then MediaRead bytes of its media segment. *)

MediaRead(d) == Len(buffer[d]) - initSegmentOffset[d]

ReaderType ==
    /\ initSegment \in BOOLEAN
    /\ size \in [Sources -> Nat] /\ size[0] <= MaxInit
    /\ pushed \in [Sources -> Nat] /\ \A s \in Sources : pushed[s] <= size[s]
    /\ blockqueues \in [Sources -> Seq(Blocks(Nat, BLOCKSIZE))]
    /\ streamEnded \in [Sources -> BOOLEAN]
    /\ decoderInitialized \in [Decoders -> BOOLEAN]
    /\ initSegmentOffset \in [Decoders -> Nat]
    /\ pc \in [Decoders -> {"none", "read", "media", "ended"}]
    /\ buffer \in [Decoders -> Seq(Nat)]

\* The init segment is a single block, that nobody takes away.
InitWhole ==
    /\ pushed[0] \in {0, size[0]}
    /\ blockqueues[0] = IF pushed[0] = 0 THEN <<>> ELSE <<Part(0, 0, size[0])>>
    /\ streamEnded[0] => pushed[0] = size[0]

\* A decoder has seen nothing of it or all of it, and all of it before it has
\* read anything else.
InitSeen(d) ==
    /\ initSegmentOffset[d] \in {0, pushed[0]}
    /\ ~initSegment => initSegmentOffset[d] = 0
    /\ initSegment /\ (pc[d] \in {"media", "ended"} \/ decoderInitialized[d] \/ MediaRead(d) > 0)
          => initSegmentOffset[d] = size[0]

\* What it has read and what is in the stream are what was pushed.
MediaFlow(d) ==
    /\ MediaRead(d) \in 0..pushed[d]
    /\ buffer[d] = Part(0, 0, initSegmentOffset[d]) \o Part(d, 0, MediaRead(d))
    /\ FlattenSeq(blockqueues[d]) = Part(d, MediaRead(d), pushed[d])
    /\ pc[d] = "ended" => streamEnded[d] /\ MediaRead(d) = pushed[d]

ReaderInv ==
    /\ ReaderType
    /\ InitWhole
    /\ \A d \in Decoders : InitSeen(d) /\ MediaFlow(d)

LEMMA ReaderConstants ==
    ASSUME InitFitsOneRead
    PROVE  /\ Bounded
           /\ Decoders \subseteq Nat \ {0} /\ Sources \subseteq Nat
           /\ 0 \in Sources /\ Sources = {0} \cup Decoders
           /\ BLOCKSIZE \in Nat /\ BLOCKSIZE > 0 /\ MaxInit \in Nat /\ MaxInit <= BLOCKSIZE
           /\ \A len \in AskSizes : len \in Nat /\ len > 0 /\ MaxInit <= len
BY ReaderAssumption DEF InitFitsOneRead, Decoders,
       Sources, Bounded

LEMMA ReaderInitially == ASSUME InitFitsOneRead PROVE ReaderInit => ReaderInv
<1> SUFFICES ASSUME ReaderInit PROVE ReaderInv
    OBVIOUS
<1> USE DEF ReaderInit
<1>1. ReaderType
    <2>1. /\ size \in [Sources -> Nat] /\ size[0] <= MaxInit
        BY ReaderConstants DEF Bounded
    <2>2. /\ initSegment \in BOOLEAN
          /\ pushed \in [Sources -> Nat]
          /\ streamEnded \in [Sources -> BOOLEAN]
          /\ decoderInitialized \in [Decoders -> BOOLEAN]
          /\ initSegmentOffset \in [Decoders -> Nat]
          /\ pc \in [Decoders -> {"none", "read", "media", "ended"}]
        OBVIOUS
    <2>3. /\ blockqueues \in [Sources -> Seq(Blocks(Nat, BLOCKSIZE))]
          /\ buffer \in [Decoders -> Seq(Nat)]
        <3> DEFINE X == Seq(Blocks(Nat, BLOCKSIZE))
        <3>1. <<>> \in X /\ <<>> \in Seq(Nat)
            OBVIOUS
        <3> HIDE DEF X
        <3>2. blockqueues \in [Sources -> X]
            BY <3>1
        <3> QED
            BY <3>1, <3>2 DEF X
    <2>4. \A s \in Sources : pushed[s] <= size[s]
        BY <2>1
    <2> QED
        BY <2>1, <2>2, <2>3, <2>4 DEF ReaderType
<1>2. InitWhole
    BY ReaderConstants DEF InitWhole
<1>3. ASSUME NEW d \in Decoders PROVE InitSeen(d) /\ MediaFlow(d)
    <2>1. /\ initSegmentOffset[d] = 0 /\ buffer[d] = <<>> /\ pushed[d] = 0 /\ pushed[0] = 0
          /\ pc[d] = "none" /\ ~decoderInitialized[d] /\ blockqueues[d] = <<>>
        BY ReaderConstants
    <2>2. MediaRead(d) = 0
        BY <2>1 DEF MediaRead
    <2>3. Part(0, 0, 0) = <<>> /\ Part(d, 0, 0) = <<>> /\ <<>> \o <<>> = <<>>
        <3>1. Bounded /\ d \in Nat /\ 0 \in Nat
            BY ReaderConstants
        <3>2. Part(d, 0, 0) = <<>>
            BY <3>1, PartType
        <3>3. Part(0, 0, 0) = <<>>
            BY <3>1, PartType
        <3> QED
            BY <3>2, <3>3
    <2>4. InitSeen(d)
        BY <2>1, <2>2 DEF InitSeen
    <2>5. MediaFlow(d)
        BY <2>1, <2>2, <2>3, FlattenEmpty DEF MediaFlow
    <2> QED
        BY <2>4, <2>5
<1> QED
    BY <1>1, <1>2, <1>3 DEF ReaderInv

\* What the invariant says of the types, for one segment and one decoder.
LEMMA ReaderTypes ==
    ASSUME InitFitsOneRead, ReaderInv
    PROVE  /\ \A s \in Sources :
                /\ s \in Nat /\ size[s] \in Nat /\ pushed[s] \in Nat /\ pushed[s] <= size[s]
                /\ blockqueues[s] \in Seq(Blocks(Nat, BLOCKSIZE))
                /\ streamEnded[s] \in BOOLEAN
           /\ \A d \in Decoders :
                /\ d \in Sources /\ d \in Nat /\ d # 0
                /\ initSegmentOffset[d] \in Nat /\ buffer[d] \in Seq(Nat)
                /\ Len(buffer[d]) \in Nat
                /\ MediaRead(d) \in Nat /\ MediaRead(d) <= pushed[d]
                /\ Len(buffer[d]) = initSegmentOffset[d] + MediaRead(d)
                /\ initSegmentOffset[d] <= pushed[0]
           /\ 0 \in Sources /\ size[0] <= MaxInit
<1>1. /\ \A s \in Sources :
                /\ s \in Nat /\ size[s] \in Nat /\ pushed[s] \in Nat /\ pushed[s] <= size[s]
                /\ blockqueues[s] \in Seq(Blocks(Nat, BLOCKSIZE))
                /\ streamEnded[s] \in BOOLEAN
      /\ \A d \in Decoders :
                /\ d \in Sources /\ d \in Nat /\ d # 0
                /\ initSegmentOffset[d] \in Nat /\ buffer[d] \in Seq(Nat)
      /\ 0 \in Sources /\ size[0] <= MaxInit
    BY ReaderConstants DEF ReaderInv, ReaderType
<1>2. ASSUME NEW d \in Decoders
      PROVE  /\ Len(buffer[d]) \in Nat
             /\ MediaRead(d) \in Nat /\ MediaRead(d) <= pushed[d]
             /\ Len(buffer[d]) = initSegmentOffset[d] + MediaRead(d)
             /\ initSegmentOffset[d] <= pushed[0]
    <2>1. Len(buffer[d]) \in Nat /\ initSegmentOffset[d] \in Nat /\ pushed[d] \in Nat
          /\ pushed[0] \in Nat
        BY <1>1
    <2>2. MediaRead(d) \in 0..pushed[d] /\ initSegmentOffset[d] \in {0, pushed[0]}
        BY DEF ReaderInv, MediaFlow, InitSeen
    <2>3. MediaRead(d) = Len(buffer[d]) - initSegmentOffset[d]
        BY DEF MediaRead
    <2> QED
        BY <2>1, <2>2, <2>3
<1> QED
    BY <1>1, <1>2

\* The bytes of a stream.
LEMMA Lengths ==
    ASSUME InitFitsOneRead, ReaderInv
    PROVE  /\ Length(0) = pushed[0]
           /\ \A d \in Decoders : Length(d) = pushed[d] - MediaRead(d)
<1>1. Length(0) = pushed[0]
    <2>1. Length(0) = Len(FlattenSeq(blockqueues[0]))
        BY DEF Length
    <2>2. InitWhole /\ pushed[0] \in Nat /\ size[0] \in Nat /\ Bounded
        BY ReaderTypes, ReaderConstants DEF ReaderInv
    <2>3. CASE pushed[0] = 0
        <3>1. blockqueues[0] = <<>> /\ Len(<<>>) = 0
            BY <2>2, <2>3 DEF InitWhole
        <3> QED
            BY <2>1, <2>3, <3>1, FlattenEmpty
    <2>4. CASE pushed[0] # 0
        <3> DEFINE b == Part(0, 0, size[0])
        <3>1. blockqueues[0] = <<b>> /\ pushed[0] = size[0]
            BY <2>2, <2>4 DEF InitWhole
        <3>2. b \in Seq(Nat) /\ Len(b) = size[0]
            <4> DEFINE n == size[0]
            <4>1. n \in Nat /\ 0 \in Nat /\ 0 <= n /\ Bounded
                BY <2>2
            <4> HIDE DEF n
            <4>2. Part(0, 0, n) \in Seq(Nat) /\ Len(Part(0, 0, n)) = n - 0
                BY <4>1, PartType
            <4>3. n - 0 = n
                BY <4>1
            <4> QED
                BY <4>2, <4>3 DEF n
        <3> HIDE DEF b
        <3>3. FlattenSeq(<<b>>) = b
            BY <3>2, FlattenSingle
        <3> QED
            BY <2>1, <3>1, <3>2, <3>3
    <2> QED
        BY <2>3, <2>4
<1>2. ASSUME NEW d \in Decoders PROVE Length(d) = pushed[d] - MediaRead(d)
    <2>1. Length(d) = Len(FlattenSeq(blockqueues[d]))
        BY DEF Length
    <2>2. FlattenSeq(blockqueues[d]) = Part(d, MediaRead(d), pushed[d])
        BY DEF ReaderInv, MediaFlow
    <2>3. Bounded /\ d \in Nat /\ MediaRead(d) \in Nat /\ pushed[d] \in Nat
          /\ MediaRead(d) <= pushed[d]
        BY ReaderConstants, ReaderTypes
    <2> DEFINE m == MediaRead(d)
               p == pushed[d]
    <2>4. Len(Part(d, m, p)) = p - m
        <3>1. m \in Nat /\ p \in Nat /\ m <= p /\ d \in Nat /\ Bounded
            BY <2>3
        <3> HIDE DEF m, p
        <3> QED
            BY <3>1, PartType
    <2> QED
        BY <2>1, <2>2, <2>4
<1> QED
    BY <1>1, <1>2

\* A step that leaves a decoder and its stream alone, and the init segment.
LEMMA DecoderAlone ==
    ASSUME NEW d \in Decoders, InitSeen(d), MediaFlow(d),
           UNCHANGED <<initSegment, size[0], size[d], pushed[0], pushed[d], blockqueues[d],
                       streamEnded[d], decoderInitialized[d], initSegmentOffset[d], pc[d], buffer[d]>>
    PROVE  InitSeen(d)' /\ MediaFlow(d)'
<1>1. MediaRead(d)' = MediaRead(d)
    BY DEF MediaRead
<1>2. Part(d, MediaRead(d), pushed[d])' = Part(d, MediaRead(d), pushed[d])
      /\ Part(0, 0, initSegmentOffset[d])' = Part(0, 0, initSegmentOffset[d])
      /\ Part(d, 0, MediaRead(d))' = Part(d, 0, MediaRead(d))
    BY <1>1 DEF Part, Base
<1>3. InitSeen(d)'
    BY <1>1 DEF InitSeen
<1>4. MediaFlow(d)'
    BY <1>1, <1>2 DEF MediaFlow
<1> QED
    BY <1>3, <1>4

\* A download pushes a block.
LEMMA PushBackReads ==
    ASSUME InitFitsOneRead, ReaderInv, NEW s \in Sources, PushBlock(s)
    PROVE  ReaderInv'
<1> DEFINE p == pushed[s]
           n == Least(BLOCKSIZE, size[s] - pushed[s])
           block == Part(s, p, p + n)
<1>1. /\ p \in Nat /\ size[s] \in Nat /\ p < size[s] /\ ~streamEnded[s] /\ s \in Nat /\ Bounded
      /\ BLOCKSIZE \in Nat /\ BLOCKSIZE > 0
      /\ blockqueues[s] \in Seq(Blocks(Nat, BLOCKSIZE))
    <2>1. p < size[s] /\ ~streamEnded[s]
        BY DEF PushBlock
    <2> QED
        BY <2>1, ReaderTypes, ReaderConstants
<1>2. n \in 1..BLOCKSIZE /\ p + n <= size[s] /\ n \in Nat
      /\ (size[s] - p <= BLOCKSIZE => n = size[s] - p)
    BY <1>1 DEF Least
<1>3. /\ pushed' = [pushed EXCEPT ![s] = p + n]
      /\ blockqueues' = [blockqueues EXCEPT ![s] = Append(blockqueues[s], block)]
      /\ UNCHANGED <<initSegment, size, streamEnded, decoderInitialized, initSegmentOffset, pc, buffer>>
    <2>1. Content(s, p + 1, p + n) = block
        <3> DEFINE b == p + n
        <3>1. b \in Nat
            BY <1>1, <1>2
        <3> HIDE DEF b, p, n
        <3>2. Content(s, p + 1, b) = Part(s, p, b)
            BY <1>1, <3>1, ContentIsPart
        <3> QED
            BY <3>2 DEF b
    <2> HIDE DEF n, block
    <2> QED
        BY <2>1 DEF PushBlock, decoderVars, n
<1>4. block \in Seq(Nat) /\ Len(block) = n
    <2> DEFINE b == p + n
    <2>1. b \in Nat /\ p <= b /\ b - p = n
        BY <1>1, <1>2
    <2> HIDE DEF b, p, n
    <2>2. Part(s, p, b) \in Seq(Nat) /\ Len(Part(s, p, b)) = b - p
        BY <1>1, <2>1, PartType
    <2> QED
        BY <2>1, <2>2 DEF b
<1>5. block \in Blocks(Nat, BLOCKSIZE)
    <2> HIDE DEF block, n
    <2> QED
        BY <1>2, <1>4 DEF Blocks
<1>6. /\ pushed'[s] = p + n /\ blockqueues'[s] = Append(blockqueues[s], block)
      /\ \A r \in Sources : r # s => pushed'[r] = pushed[r] /\ blockqueues'[r] = blockqueues[r]
      /\ blockqueues' \in [Sources -> Seq(Blocks(Nat, BLOCKSIZE))]
    <2> HIDE DEF block, n, p
    <2>1. DOMAIN pushed = Sources /\ DOMAIN blockqueues = Sources
        BY DEF ReaderInv, ReaderType
    <2>2. Append(blockqueues[s], block) \in Seq(Blocks(Nat, BLOCKSIZE))
        BY <1>1, <1>5, AppendProperties
    <2>3. blockqueues \in [Sources -> Seq(Blocks(Nat, BLOCKSIZE))]
        BY DEF ReaderInv, ReaderType
    <2> QED
        BY <1>3, <2>1, <2>2, <2>3
<1>7. ReaderType'
    <2>1. pushed' \in [Sources -> Nat]
        <3>1. p + n \in Nat /\ pushed \in [Sources -> Nat]
            BY <1>1, <1>2 DEF ReaderInv, ReaderType
        <3> HIDE DEF p, n
        <3> QED
            BY <1>3, <3>1
    <2>2. \A r \in Sources : pushed'[r] <= size[r]
        <3> HIDE DEF p, n
        <3> QED
            BY <1>2, <1>6, ReaderTypes
    <2> HIDE DEF p, n, block
    <2> QED
        BY <1>3, <1>6, <2>1, <2>2 DEF ReaderInv, ReaderType
<1>8. InitWhole'
    <2>1. CASE s = 0
        <3>1. p = 0 /\ blockqueues[s] = <<>>
            BY <1>1, <2>1 DEF ReaderInv, InitWhole
        <3>2. size[s] <= BLOCKSIZE
            BY <1>1, <2>1, ReaderTypes, ReaderConstants
        <3>3. p + n = size[s]
            BY <1>1, <1>2, <3>1, <3>2
        <3>4. block = Part(0, 0, size[0])
            BY <2>1, <3>1, <3>3
        <3>5. Append(<<>>, block) = <<block>>
            OBVIOUS
        <3> HIDE DEF p, n, block
        <3> QED
            BY <1>1, <1>3, <1>6, <2>1, <3>1, <3>3, <3>4, <3>5 DEF InitWhole
    <2>2. CASE s # 0
        <3>1. pushed'[0] = pushed[0] /\ blockqueues'[0] = blockqueues[0]
            <4> HIDE DEF p, n, block
            <4> QED
                BY <1>6, <2>2, ReaderConstants
        <3>2. Part(0, 0, size[0])' = Part(0, 0, size[0])
            BY <1>3 DEF Part, Base
        <3> HIDE DEF p, n, block
        <3> QED
            BY <1>3, <3>1, <3>2 DEF ReaderInv, InitWhole
    <2> QED
        BY <2>1, <2>2
<1>9. ASSUME NEW d \in Decoders PROVE InitSeen(d)' /\ MediaFlow(d)'
    <2> DEFINE m == MediaRead(d)
    <2>1. /\ InitSeen(d) /\ MediaFlow(d) /\ d \in Sources /\ d # 0 /\ 0 \in Sources
          /\ m \in Nat /\ m <= pushed[d]
        BY ReaderTypes DEF ReaderInv
    <2> HIDE DEF p, n, block
    <2>2. CASE s # d /\ s # 0
        <3>1. UNCHANGED <<pushed[0], pushed[d], blockqueues[d]>>
            BY <1>6, <2>1, <2>2
        <3>2. UNCHANGED <<initSegment, size[0], size[d], streamEnded[d], decoderInitialized[d],
                          initSegmentOffset[d], pc[d], buffer[d]>>
            BY <1>3
        <3> QED
            BY <2>1, <3>1, <3>2, DecoderAlone
    <2>3. MediaRead(d)' = m
        BY <1>3 DEF MediaRead
    <2>4. CASE s = 0
        <3>1. UNCHANGED <<pushed[d], blockqueues[d]>> /\ pushed[0] = 0
            BY <1>1, <1>6, <2>1, <2>4 DEF ReaderInv, InitWhole, p
        <3>2. initSegmentOffset[d] = 0
            BY <2>1, <3>1 DEF InitSeen
        <3>3. InitSeen(d)'
            BY <1>3, <2>1, <2>3, <3>2 DEF InitSeen
        <3>4. MediaFlow(d)'
            BY <1>3, <2>1, <2>3, <3>1 DEF MediaFlow, Part, Base
        <3> QED
            BY <3>3, <3>4
    <2>5. CASE s = d
        <3>1. pushed'[d] = p + n /\ pushed'[0] = pushed[0]
              /\ blockqueues'[d] = Append(blockqueues[d], block)
            BY <1>6, <2>1, <2>5
        <3>2. InitSeen(d)'
            BY <1>3, <2>1, <2>3, <3>1 DEF InitSeen
        <3>3. FlattenSeq(blockqueues'[d]) = Part(d, m, p) \o block
            <4>1. blockqueues[d] \in Seq(Seq(Nat))
                BY <1>1, <2>5, BlocksAreSequences
            <4>2. FlattenSeq(Append(blockqueues[d], block)) = FlattenSeq(blockqueues[d]) \o block
                BY <1>4, <4>1, FlattenAppend
            <4> QED
                BY <2>1, <2>5, <3>1, <4>2 DEF MediaFlow, p
        <3>4. Part(d, m, p) \o block = Part(d, m, p + n)
            <4> DEFINE b == p + n
            <4>1. p \in Nat /\ n \in Nat /\ m <= p /\ block = Part(d, p, b)
                BY <1>1, <1>2, <2>1, <2>5 DEF p, block
            <4>2. b \in Nat /\ p <= b /\ d \in Nat /\ m \in Nat /\ Bounded
                BY <1>1, <2>1, <2>5, <4>1
            <4> HIDE DEF b, m
            <4>3. Part(d, m, p) \o Part(d, p, b) = Part(d, m, b)
                BY <4>1, <4>2, PartJoins
            <4> QED
                BY <4>1, <4>3 DEF b
        <3>5. m \in 0..p + n
            BY <1>1, <1>2, <2>1, <2>5 DEF p
        <3>6. buffer'[d] = Part(0, 0, initSegmentOffset'[d]) \o Part(d, 0, m)
            BY <1>3, <2>1 DEF MediaFlow
        <3>7. pc'[d] # "ended"
            BY <1>1, <1>3, <2>1, <2>5 DEF MediaFlow
        <3>8. MediaFlow(d)'
            BY <2>3, <3>1, <3>3, <3>4, <3>5, <3>6, <3>7 DEF MediaFlow
        <3> QED
            BY <3>2, <3>8
    <2> QED
        BY <2>2, <2>4, <2>5
<1> QED
    BY <1>7, <1>8, <1>9 DEF ReaderInv

\* The end of a stream.
LEMMA SetEOSReads ==
    ASSUME InitFitsOneRead, ReaderInv, NEW s \in Sources, SetStreamEOS(s)
    PROVE  ReaderInv'
<1>1. /\ ~streamEnded[s] /\ (pushed[s] = size[s] \/ s \in Decoders)
      /\ streamEnded' = [streamEnded EXCEPT ![s] = TRUE]
      /\ UNCHANGED <<initSegment, size, pushed, blockqueues, decoderInitialized,
                     initSegmentOffset, pc, buffer>>
    BY DEF SetStreamEOS, decoderVars
<1>2. streamEnded' \in [Sources -> BOOLEAN] /\ streamEnded'[s] = TRUE
      /\ \A r \in Sources : r # s => streamEnded'[r] = streamEnded[r]
    BY <1>1 DEF ReaderInv, ReaderType
<1>3. ReaderType'
    BY <1>1, <1>2 DEF ReaderInv, ReaderType
<1>4. InitWhole'
    <2>1. Part(0, 0, size[0])' = Part(0, 0, size[0])
        BY <1>1 DEF Part, Base
    <2>2. streamEnded'[0] => pushed[0] = size[0]
        BY <1>1, <1>2, ReaderTypes DEF ReaderInv, InitWhole
    <2> QED
        BY <1>1, <2>1, <2>2 DEF ReaderInv, InitWhole
<1>5. ASSUME NEW d \in Decoders PROVE InitSeen(d)' /\ MediaFlow(d)'
    <2>1. InitSeen(d) /\ MediaFlow(d) /\ d \in Sources
        BY ReaderTypes DEF ReaderInv
    <2>2. MediaRead(d)' = MediaRead(d)
        BY <1>1 DEF MediaRead
    <2>3. InitSeen(d)'
        BY <1>1, <2>1, <2>2 DEF InitSeen
    <2>4. streamEnded[d] => streamEnded'[d]
        BY <1>2, <2>1
    <2>5. MediaFlow(d)'
        BY <1>1, <2>1, <2>2, <2>4 DEF MediaFlow, Part, Base
    <2> QED
        BY <2>3, <2>5
<1> QED
    BY <1>3, <1>4, <1>5 DEF ReaderInv

\* A decoder is created, or knows enough of its segment.
LEMMA CreateReads ==
    ASSUME InitFitsOneRead, ReaderInv, NEW e \in Decoders, Create(e)
    PROVE  ReaderInv'
<1>1. /\ pc[e] = "none" /\ pc' = [pc EXCEPT ![e] = "read"]
      /\ UNCHANGED <<initSegment, size, pushed, blockqueues, streamEnded, decoderInitialized,
                     initSegmentOffset, buffer>>
    BY DEF Create, Goto, streamVars
<1>2. /\ pc' \in [Decoders -> {"none", "read", "media", "ended"}]
      /\ pc'[e] = "read" /\ \A d \in Decoders : d # e => pc'[d] = pc[d]
    BY <1>1 DEF ReaderInv, ReaderType
<1>3. ReaderType'
    BY <1>1, <1>2 DEF ReaderInv, ReaderType
<1>4. InitWhole'
    BY <1>1 DEF ReaderInv, InitWhole, Part, Base
<1>5. ASSUME NEW d \in Decoders PROVE InitSeen(d)' /\ MediaFlow(d)'
    <2>1. InitSeen(d) /\ MediaFlow(d)
        BY DEF ReaderInv
    <2>2. MediaRead(d)' = MediaRead(d)
        BY <1>1 DEF MediaRead
    <2>3. pc'[d] \in {"media", "ended"} => pc'[d] = pc[d]
        BY <1>2
    <2>4. InitSeen(d)'
        BY <1>1, <2>1, <2>2, <2>3 DEF InitSeen
    <2>5. MediaFlow(d)'
        BY <1>1, <2>1, <2>2, <2>3 DEF MediaFlow, Part, Base
    <2> QED
        BY <2>4, <2>5
<1> QED
    BY <1>3, <1>4, <1>5 DEF ReaderInv

LEMMA InitializeReads ==
    ASSUME InitFitsOneRead, ReaderInv, NEW e \in Decoders, Initialize(e)
    PROVE  ReaderInv'
<1>1. /\ pc[e] = "read" /\ buffer[e] # <<>>
      /\ decoderInitialized' = [decoderInitialized EXCEPT ![e] = TRUE]
      /\ UNCHANGED <<initSegment, size, pushed, blockqueues, streamEnded, initSegmentOffset, pc, buffer>>
    BY DEF Initialize, streamVars
<1>2. /\ decoderInitialized' \in [Decoders -> BOOLEAN]
      /\ \A d \in Decoders : d # e => decoderInitialized'[d] = decoderInitialized[d]
    BY <1>1 DEF ReaderInv, ReaderType
<1>3. ReaderType'
    BY <1>1, <1>2 DEF ReaderInv, ReaderType
<1>4. InitWhole'
    BY <1>1 DEF ReaderInv, InitWhole, Part, Base
<1>5. ASSUME NEW d \in Decoders PROVE InitSeen(d)' /\ MediaFlow(d)'
    <2>1. InitSeen(d) /\ MediaFlow(d)
        BY DEF ReaderInv
    <2>2. MediaRead(d)' = MediaRead(d)
        BY <1>1 DEF MediaRead
    <2>3. d = e /\ initSegment => initSegmentOffset[d] = size[0]
        <3>1. SUFFICES ASSUME d = e, initSegment, ~(MediaRead(d) > 0)
                       PROVE  initSegmentOffset[d] = size[0]
            BY <2>1 DEF InitSeen
        <3>2. Len(buffer[d]) # 0
            BY <1>1, <3>1, ReaderTypes, EmptySeq
        <3>3. initSegmentOffset[d] # 0
            BY <3>1, <3>2, ReaderTypes
        <3> QED
            BY <2>1, <3>3 DEF ReaderInv, InitSeen, InitWhole
    <2>4. InitSeen(d)'
        BY <1>1, <1>2, <2>1, <2>2, <2>3 DEF InitSeen
    <2>5. MediaFlow(d)'
        BY <1>1, <2>1, <2>2 DEF MediaFlow, Part, Base
    <2> QED
        BY <2>4, <2>5
<1> QED
    BY <1>3, <1>4, <1>5 DEF ReaderInv

\* The first half of Read: all of the init segment at once, or nothing more.
LEMMA PeekedInit ==
    ASSUME InitFitsOneRead, ReaderInv, NEW e \in Decoders, NEW len \in AskSizes,
           ReadInitSegment(e, len)
    PROVE  /\ initSegment /\ pc[e] = "read"
           /\ UNCHANGED <<initSegment, size, pushed, blockqueues, streamEnded, decoderInitialized>>
           /\ \/ /\ initSegmentOffset[e] = size[0]
                 /\ pc' = [pc EXCEPT ![e] = "media"]
                 /\ UNCHANGED <<initSegmentOffset, buffer>>
              \/ /\ initSegmentOffset[e] = 0 /\ pushed[0] = size[0] /\ size[0] > 0
                 /\ pc' = [pc EXCEPT ![e] = "read"]
                 /\ initSegmentOffset' = [initSegmentOffset EXCEPT ![e] = size[0]]
                 /\ buffer' = [buffer EXCEPT ![e] = buffer[e] \o Part(0, 0, size[0])]
<1> DEFINE offset == initSegmentOffset[e]
           p == pushed[0]
           ret == Amount(offset, len)
           peeked == BlockQueuePeekBytes(blockqueues[0], ret, offset)
<1>1. /\ initSegment /\ pc[e] = "read" /\ AwaitInit(e)
      /\ UNCHANGED <<initSegment, size, pushed, blockqueues, streamEnded, decoderInitialized>>
      /\ pc' = [pc EXCEPT ![e] = IF ret = 0 THEN "media"
                                 ELSE IF peeked.fault THEN "crashed" ELSE "read"]
      /\ buffer' = [buffer EXCEPT ![e] = @ \o peeked.data]
      /\ initSegmentOffset' = [initSegmentOffset EXCEPT ![e] = @ + ret]
    <2>1. BlockQueuePeekBytes(blockqueues[0], ret, offset) = peeked
        OBVIOUS
    <2> HIDE DEF peeked, ret
    <2> QED
        BY <2>1 DEF ReadInitSegment, PeekInitSegment, Goto,
                    streamVars, ret
<1>2. /\ offset \in Nat /\ p \in Nat /\ offset \in {0, p} /\ p \in {0, size[0]}
      /\ size[0] \in Nat /\ Length(0) = p
      /\ len \in Nat /\ len > 0 /\ p <= len
    <2>1. /\ offset \in Nat /\ p \in Nat /\ size[0] \in Nat /\ size[0] <= MaxInit /\ p <= size[0]
        BY ReaderTypes
    <2>2. offset \in {0, p} /\ p \in {0, size[0]}
        BY DEF ReaderInv, InitSeen, InitWhole
    <2>3. Length(0) = p
        BY Lengths
    <2>4. len \in Nat /\ len > 0 /\ MaxInit <= len /\ MaxInit \in Nat
        BY ReaderConstants
    <2> QED
        BY <2>1, <2>2, <2>3, <2>4
<1>3. ret = IF offset >= p THEN 0 ELSE p
    <2>1. Least(len, Length(0)) = p
        BY <1>2 DEF Least
    <2>2. ret = IF offset >= p THEN 0 ELSE IF offset + p > p THEN p - offset ELSE p
        BY <1>2, <2>1 DEF Amount
    <2> HIDE DEF ret, p, offset
    <2> QED
        BY <1>2, <2>2
<1>4. buffer \in [Decoders -> Seq(Nat)] /\ initSegmentOffset \in [Decoders -> Nat]
    BY DEF ReaderInv, ReaderType
<1>5. CASE offset >= p
    <2>1. streamEnded[0]
        <3> HIDE DEF p
        <3> QED
            BY <1>1, <1>2, <1>5 DEF AwaitInit
    <2>2. offset = size[0] /\ p = size[0]
        <3>1. p = size[0]
            BY <2>1 DEF ReaderInv, InitWhole
        <3> QED
            BY <1>2, <1>5, <3>1
    <2>3. ret = 0
        BY <1>3, <1>5
    <2>4. peeked.data = <<>>
        <3>1. blockqueues[0] = <<>> \/ \E b : blockqueues[0] = <<b>>
            BY DEF ReaderInv, InitWhole
        <3> DEFINE q == blockqueues[0]
        <3> HIDE DEF q, offset
        <3>2. BlockQueuePeekBytes(q, 0, offset).data = <<>>
            BY <3>1, PeekNothing DEF q
        <3> HIDE DEF ret
        <3> QED
            BY <2>3, <3>2 DEF q
    <2>5. buffer' = buffer /\ initSegmentOffset' = initSegmentOffset
        <3>1. buffer[e] \o <<>> = buffer[e] /\ initSegmentOffset[e] + 0 = initSegmentOffset[e]
            BY <1>4, ConcatEmptySeq
        <3> HIDE DEF peeked, ret, offset
        <3>2. buffer' = [buffer EXCEPT ![e] = buffer[e]]
            BY <1>1, <2>4, <3>1
        <3>3. initSegmentOffset' = [initSegmentOffset EXCEPT ![e] = initSegmentOffset[e]]
            BY <1>1, <2>3, <3>1
        <3> QED
            BY <1>4, <3>2, <3>3
    <2>6. pc' = [pc EXCEPT ![e] = "media"]
        <3> HIDE DEF peeked, ret
        <3> QED
            BY <1>1, <2>3
    <2> HIDE DEF peeked, ret
    <2> QED
        BY <1>1, <2>2, <2>5, <2>6
<1>6. CASE ~(offset >= p)
    <2>1. offset = 0 /\ p = size[0] /\ size[0] > 0
        BY <1>2, <1>6
    <2> DEFINE b == Part(0, 0, size[0])
    <2>2. blockqueues[0] = <<b>>
        BY <2>1 DEF ReaderInv, InitWhole
    <2>3. b \in Seq(Nat) /\ Len(b) = size[0] /\ b # <<>>
        <3> DEFINE n == size[0]
        <3>1. Bounded /\ n \in Nat /\ 0 \in Nat /\ 0 <= n /\ n # 0 /\ n - 0 = n
            BY <1>2, <2>1, ReaderConstants
        <3> HIDE DEF n
        <3>2. /\ Part(0, 0, n) \in Seq(Nat) /\ Len(Part(0, 0, n)) = n - 0
              /\ Part(0, 0, n) = <<>> <=> 0 = n
            BY <3>1, PartType
        <3> QED
            BY <3>1, <3>2 DEF n
    <2>4. ret = size[0]
        BY <1>3, <1>6, <2>1
    <2>5. peeked.data = b /\ ~peeked.fault
        <3> HIDE DEF b
        <3>1. /\ BlockQueuePeekBytes(<<b>>, Len(b), 0).data = b
              /\ ~BlockQueuePeekBytes(<<b>>, Len(b), 0).fault
            BY <2>3, PeekWhole
        <3> HIDE DEF ret, offset
        <3>2. peeked = BlockQueuePeekBytes(<<b>>, Len(b), 0)
            BY <2>1, <2>2, <2>3, <2>4
        <3> HIDE DEF peeked
        <3> QED
            BY <3>1, <3>2
    <2>6. size[0] # 0 /\ 0 + size[0] = size[0] /\ initSegmentOffset[e] = 0
        BY <1>2, <2>1
    <2> HIDE DEF b, peeked, ret
    <2>7. buffer' = [buffer EXCEPT ![e] = buffer[e] \o b]
        BY <1>1, <2>5
    <2>8. initSegmentOffset' = [initSegmentOffset EXCEPT ![e] = size[0]]
        BY <1>1, <2>4, <2>6
    <2>9. pc' = [pc EXCEPT ![e] = "read"]
        BY <1>1, <2>4, <2>5, <2>6
    <2> QED
        BY <1>1, <2>1, <2>7, <2>8, <2>9 DEF b
<1> QED
    BY <1>5, <1>6

LEMMA ReadInitReads ==
    ASSUME InitFitsOneRead, ReaderInv, NEW e \in Decoders, NEW len \in AskSizes,
           ReadInitSegment(e, len)
    PROVE  ReaderInv'
<1>1. /\ initSegment /\ pc[e] = "read"
      /\ UNCHANGED <<initSegment, size, pushed, blockqueues, streamEnded, decoderInitialized>>
    BY PeekedInit
<1>2. InitWhole'
    BY <1>1 DEF ReaderInv, InitWhole, Part, Base
<1>3. CASE /\ initSegmentOffset[e] = size[0]
           /\ pc' = [pc EXCEPT ![e] = "media"]
           /\ UNCHANGED <<initSegmentOffset, buffer>>
    <2>1. /\ pc' \in [Decoders -> {"none", "read", "media", "ended"}]
          /\ pc'[e] = "media" /\ \A d \in Decoders : d # e => pc'[d] = pc[d]
        BY <1>3 DEF ReaderInv, ReaderType
    <2>2. ReaderType'
        BY <1>1, <1>3, <2>1 DEF ReaderInv, ReaderType
    <2>3. ASSUME NEW d \in Decoders PROVE InitSeen(d)' /\ MediaFlow(d)'
        <3>1. InitSeen(d) /\ MediaFlow(d)
            BY DEF ReaderInv
        <3>2. MediaRead(d)' = MediaRead(d)
            BY <1>3 DEF MediaRead
        <3>3. InitSeen(d)'
            BY <1>1, <1>3, <2>1, <3>1, <3>2 DEF InitSeen
        <3>4. pc'[d] = "ended" => pc[d] = "ended"
            BY <2>1
        <3>5. MediaFlow(d)'
            BY <1>1, <1>3, <3>1, <3>2, <3>4 DEF MediaFlow, Part, Base
        <3> QED
            BY <3>3, <3>5
    <2> QED
        BY <1>2, <2>2, <2>3 DEF ReaderInv
<1>4. CASE /\ initSegmentOffset[e] = 0 /\ pushed[0] = size[0] /\ size[0] > 0
           /\ pc' = [pc EXCEPT ![e] = "read"]
           /\ initSegmentOffset' = [initSegmentOffset EXCEPT ![e] = size[0]]
           /\ buffer' = [buffer EXCEPT ![e] = buffer[e] \o Part(0, 0, size[0])]
    <2> DEFINE n == size[0]
               b == Part(0, 0, n)
    <2>1. /\ n \in Nat /\ Bounded /\ 0 \in Nat /\ 0 <= n /\ n # 0 /\ n - 0 = n /\ e \in Nat
        BY <1>4, ReaderTypes, ReaderConstants
    <2>2. b \in Seq(Nat) /\ Len(b) = n
        <3> HIDE DEF n
        <3> QED
            BY <2>1, PartType
    <2>3. MediaRead(e) = 0
        BY <1>1, <1>4, ReaderTypes DEF ReaderInv, InitSeen
    <2>4. Part(0, 0, 0) = <<>> /\ Part(e, 0, 0) = <<>>
        <3>1. Part(0, 0, 0) = <<>>
            BY <2>1, PartType
        <3>2. Part(e, 0, 0) = <<>>
            BY <2>1, PartType
        <3> QED
            BY <3>1, <3>2
    <2>5. buffer[e] = <<>>
        <3>1. buffer[e] = <<>> \o <<>>
            BY <1>4, <2>3, <2>4 DEF ReaderInv, MediaFlow
        <3> QED
            BY <3>1
    <2>6. <<>> \o b = b /\ b \o <<>> = b
        <3> HIDE DEF b
        <3> QED
            BY <2>2, ConcatEmptySeq
    <2> HIDE DEF n, b
    <2>7. /\ buffer'[e] = b /\ initSegmentOffset'[e] = n /\ pc'[e] = "read"
          /\ buffer' \in [Decoders -> Seq(Nat)]
          /\ initSegmentOffset' \in [Decoders -> Nat]
          /\ pc' \in [Decoders -> {"none", "read", "media", "ended"}]
          /\ \A d \in Decoders : d # e =>
                buffer'[d] = buffer[d] /\ initSegmentOffset'[d] = initSegmentOffset[d]
                /\ pc'[d] = pc[d]
        <3>1. buffer' = [buffer EXCEPT ![e] = b]
            BY <1>4, <2>5, <2>6 DEF b, n
        <3>2. initSegmentOffset' = [initSegmentOffset EXCEPT ![e] = n]
            BY <1>4 DEF n
        <3>3. /\ buffer \in [Decoders -> Seq(Nat)]
              /\ initSegmentOffset \in [Decoders -> Nat]
              /\ pc \in [Decoders -> {"none", "read", "media", "ended"}]
            BY DEF ReaderInv, ReaderType
        <3>4. pc' = [pc EXCEPT ![e] = "read"]
            BY <1>4
        <3> QED
            BY <2>1, <2>2, <3>1, <3>2, <3>3, <3>4
    <2>8. ReaderType'
        BY <1>1, <2>7 DEF ReaderInv, ReaderType
    <2>9. ASSUME NEW d \in Decoders PROVE InitSeen(d)' /\ MediaFlow(d)'
        <3>1. CASE d # e
            BY <1>1, <2>7, <3>1, DecoderAlone DEF ReaderInv
        <3>2. CASE d = e
            <4>1. MediaRead(d)' = 0
                <5>1. MediaRead(d)' = Len(b) - n
                    BY <2>7, <3>2 DEF MediaRead
                <5> QED
                    BY <2>1, <2>2, <5>1
            <4>2. InitSeen(d)'
                BY <1>1, <1>4, <2>7, <3>2, <4>1 DEF InitSeen, n
            <4>3. buffer'[d] = Part(0, 0, n) \o Part(d, 0, 0)
                BY <2>4, <2>6, <2>7, <3>2 DEF b
            <4>4. MediaFlow(d)'
                <5>1. MediaFlow(d) /\ pushed[d] \in Nat
                    BY ReaderTypes DEF ReaderInv
                <5>2. FlattenSeq(blockqueues'[d]) = Part(d, 0, pushed'[d])
                    BY <1>1, <2>3, <3>2, <5>1 DEF MediaFlow
                <5>3. 0 \in 0..pushed'[d]
                    BY <1>1, <5>1
                <5>4. buffer'[d] = Part(0, 0, initSegmentOffset'[d]) \o Part(d, 0, 0)
                    BY <2>7, <3>2, <4>3
                <5>5. pc'[d] # "ended"
                    BY <2>7, <3>2
                <5> QED
                    BY <4>1, <5>2, <5>3, <5>4, <5>5 DEF MediaFlow
            <4> QED
                BY <4>2, <4>4
        <3> QED
            BY <3>1, <3>2
    <2> QED
        BY <1>2, <2>8, <2>9 DEF ReaderInv
<1> QED
    BY <1>3, <1>4, PeekedInit

\* The other half: the next bytes of the media segment, or its end.
LEMMA ReadMedia ==
    ASSUME InitFitsOneRead, ReaderInv, NEW e \in Decoders, NEW len \in AskSizes,
           ReadMediaSegment(e, len)
    PROVE  /\ initSegment => initSegmentOffset[e] = size[0]
           /\ UNCHANGED <<initSegment, size, pushed, streamEnded, decoderInitialized, initSegmentOffset>>
           /\ \E b \in Nat, rest \in Seq(Blocks(Nat, BLOCKSIZE)) :
                /\ MediaRead(e) <= b /\ b <= pushed[e]
                /\ FlattenSeq(rest) = Part(e, b, pushed[e])
                /\ blockqueues' = [blockqueues EXCEPT ![e] = rest]
                /\ buffer' = [buffer EXCEPT ![e] = buffer[e] \o Part(e, MediaRead(e), b)]
                /\ \/ pc' = [pc EXCEPT ![e] = "read"]
                   \/ streamEnded[e] /\ b = pushed[e] /\ pc' = [pc EXCEPT ![e] = "ended"]
<1> DEFINE m == MediaRead(e)
           p == pushed[e]
           q == blockqueues[e]
           n == Least(len, Length(e))
           b == m + n
           rest == Cut(q, n).rest
           data == FlattenSeq(Cut(q, n).data)
<1>1. /\ \/ pc[e] = "read" /\ (decoderInitialized[e] \/ ~initSegment)
         \/ pc[e] = "media"
      /\ AwaitMedia(e)
      /\ blockqueues' = [blockqueues EXCEPT ![e] = rest]
      /\ buffer' = [buffer EXCEPT ![e] = buffer[e] \o data]
      /\ pc' = [pc EXCEPT ![e] = IF n = 0 THEN "ended" ELSE "read"]
      /\ UNCHANGED <<initSegment, size, pushed, streamEnded, decoderInitialized, initSegmentOffset>>
    <2>1. Cut(q, n) = Cut(q, n) /\ FlattenSeq(Cut(q, n).data) = data
        OBVIOUS
    <2>2. /\ blockqueues' = [blockqueues EXCEPT ![e] = Cut(q, n).rest]
          /\ buffer' = [buffer EXCEPT ![e] = buffer[e] \o FlattenSeq(Cut(q, n).data)]
        BY DEF ReadMediaSegment
    <2>3. /\ \/ pc[e] = "read" /\ (decoderInitialized[e] \/ ~initSegment)
             \/ pc[e] = "media"
          /\ AwaitMedia(e)
          /\ pc' = [pc EXCEPT ![e] = IF n = 0 THEN "ended" ELSE "read"]
          /\ UNCHANGED <<initSegment, size, pushed, streamEnded, decoderInitialized, initSegmentOffset>>
        BY DEF ReadMediaSegment, Goto
    <2> HIDE DEF n, data
    <2> QED
        BY <2>1, <2>2, <2>3
<1>2. initSegment => initSegmentOffset[e] = size[0]
    BY <1>1 DEF ReaderInv, InitSeen
<1>3. /\ m \in Nat /\ p \in Nat /\ m <= p /\ Length(e) = p - m
      /\ len \in Nat /\ len > 0 /\ e \in Nat /\ Bounded
      /\ q \in Seq(Blocks(Nat, BLOCKSIZE)) /\ BLOCKSIZE \in Nat
    BY ReaderTypes, ReaderConstants, Lengths
<1>4. /\ n \in 0..p - m /\ n \in Nat /\ (n = 0 => p = m)
    <2> HIDE DEF m, p
    <2> QED
        BY <1>3 DEF Least
<1>5. b \in Nat /\ m <= b /\ b <= p /\ b - m = n
    <2> HIDE DEF m, p, n
    <2> QED
        BY <1>3, <1>4
<1>6. FlattenSeq(q) = Part(e, m, p) /\ Len(FlattenSeq(q)) = p - m
    <2>1. FlattenSeq(q) = Part(e, m, p)
        BY DEF ReaderInv, MediaFlow
    <2>2. Len(Part(e, m, p)) = p - m
        <3> HIDE DEF m, p
        <3> QED
            BY <1>3, PartType
    <2> HIDE DEF m, p, q
    <2> QED
        BY <2>1, <2>2
<1>7. /\ rest \in Seq(Blocks(Nat, BLOCKSIZE))
      /\ data = SubSeq(FlattenSeq(q), 1, n)
      /\ FlattenSeq(rest) = SubSeq(FlattenSeq(q), n + 1, Len(FlattenSeq(q)))
    <2>1. n \in 0..Len(FlattenSeq(q))
        <3> HIDE DEF n, q, m, p
        <3> QED
            BY <1>4, <1>6
    <2> HIDE DEF n, q
    <2> QED
        BY <1>3, <2>1, CutSplits
<1>8. data = Part(e, m, b) /\ FlattenSeq(rest) = Part(e, b, p)
    <2> HIDE DEF m, p, b, n, q, rest, data
    <2> DEFINE x == Part(e, m, b)
               y == Part(e, b, p)
               z == Part(e, m, p)
    <2>1. Bounded /\ e \in Nat /\ m \in Nat /\ b \in Nat /\ p \in Nat /\ m <= b /\ b <= p
        BY <1>3, <1>5
    <2>2. x \o y = z
        BY <2>1, PartJoins
    <2>3. x \in Seq(Nat) /\ Len(x) = b - m
        BY <2>1, PartType
    <2>4. y \in Seq(Nat)
        BY <2>1, PartType
    <2> HIDE DEF x, y, z
    <2>5. SubSeq(x \o y, 1, Len(x)) = x /\ SubSeq(x \o y, Len(x) + 1, Len(x \o y)) = y
        BY <2>3, <2>4, SplitConcat
    <2>6. Len(x) = n /\ FlattenSeq(q) = z
        BY <1>5, <1>6, <2>3 DEF z
    <2>7. data = x /\ FlattenSeq(rest) = y
        BY <1>7, <2>2, <2>5, <2>6
    <2> QED
        BY <2>7 DEF x, y
<1>9. \/ pc' = [pc EXCEPT ![e] = "read"]
      \/ streamEnded[e] /\ b = p /\ pc' = [pc EXCEPT ![e] = "ended"]
    <2>1. CASE n = 0
        <3>1. p = m /\ b = p
            BY <1>3, <1>4, <2>1
        <3>2. Length(e) = 0
            BY <1>3, <3>1
        <3>3. streamEnded[e]
            BY <1>1, <3>2 DEF AwaitMedia
        <3> HIDE DEF n, b, p
        <3> QED
            BY <1>1, <2>1, <3>1, <3>3
    <2>2. CASE n # 0
        <3> HIDE DEF n
        <3> QED
            BY <1>1, <2>2
    <2> QED
        BY <2>1, <2>2
<1>10. buffer' = [buffer EXCEPT ![e] = buffer[e] \o Part(e, m, b)]
    <2> HIDE DEF data, m, b
    <2> QED
        BY <1>1, <1>8
<1> HIDE DEF b, rest
<1> QED
    BY <1>1, <1>2, <1>5, <1>7, <1>8, <1>9, <1>10

LEMMA ReadMediaReads ==
    ASSUME InitFitsOneRead, ReaderInv, NEW e \in Decoders, NEW len \in AskSizes,
           ReadMediaSegment(e, len)
    PROVE  ReaderInv'
<1> DEFINE m == MediaRead(e)
           o == initSegmentOffset[e]
<1>1. /\ initSegment => o = size[0]
      /\ UNCHANGED <<initSegment, size, pushed, streamEnded, decoderInitialized, initSegmentOffset>>
    BY ReadMedia
<1>2. PICK b \in Nat, rest \in Seq(Blocks(Nat, BLOCKSIZE)) :
         /\ m <= b /\ b <= pushed[e]
         /\ FlattenSeq(rest) = Part(e, b, pushed[e])
         /\ blockqueues' = [blockqueues EXCEPT ![e] = rest]
         /\ buffer' = [buffer EXCEPT ![e] = buffer[e] \o Part(e, m, b)]
         /\ \/ pc' = [pc EXCEPT ![e] = "read"]
            \/ streamEnded[e] /\ b = pushed[e] /\ pc' = [pc EXCEPT ![e] = "ended"]
    BY ReadMedia
<1> DEFINE given == Part(0, 0, o)
           read == Part(e, 0, m)
           more == Part(e, m, b)
           both == Part(e, 0, b)
<1>3. /\ Bounded /\ e \in Nat /\ m \in Nat /\ o \in Nat /\ pushed[e] \in Nat
      /\ buffer[e] \in Seq(Nat) /\ e \in Sources /\ e # 0
      /\ Len(buffer[e]) = o + m
    BY ReaderTypes, ReaderConstants
<1>4. /\ given \in Seq(Nat) /\ read \in Seq(Nat) /\ more \in Seq(Nat) /\ Len(more) = b - m
      /\ read \o more = both
    <2> HIDE DEF m, o
    <2>1. 0 \in Nat /\ 0 <= o /\ 0 <= m /\ m <= b /\ m \in Nat /\ o \in Nat
        BY <1>2, <1>3 DEF m
    <2>2. given \in Seq(Nat)
        BY <1>3, <2>1, PartType
    <2>3. read \in Seq(Nat)
        BY <1>3, <2>1, PartType
    <2>4. more \in Seq(Nat) /\ Len(more) = b - m
        <3>1. Bounded /\ e \in Nat /\ m \in Nat /\ b \in Nat /\ m <= b
            BY <1>3, <2>1
        <3> QED
            BY <3>1, PartType
    <2>5. read \o more = both
        BY <1>3, <2>1, PartJoins
    <2> QED
        BY <2>2, <2>3, <2>4, <2>5
<1>5. buffer[e] = given \o read
    BY DEF ReaderInv, MediaFlow
<1> HIDE DEF given, read, more, both, m, o
<1>6. buffer[e] \o more = given \o both
    <2>1. \A x, y, z \in Seq(Nat) : (x \o y) \o z = x \o (y \o z)
        <3> DEFINE R == Nat
        <3> HIDE DEF R
        <3>1. \A x, y, z \in Seq(R) : (x \o y) \o z = x \o (y \o z)
            BY Associative
        <3> QED
            BY <3>1 DEF R
    <2>2. (given \o read) \o more = given \o (read \o more)
        BY <1>4, <2>1
    <2> QED
        BY <1>4, <1>5, <2>2
<1>7. buffer[e] \o more \in Seq(Nat) /\ Len(buffer[e] \o more) = o + b
    <2>1. /\ buffer[e] \o more \in Seq(Nat)
          /\ Len(buffer[e] \o more) = Len(buffer[e]) + Len(more)
        BY <1>3, <1>4, ConcatProperties
    <2>2. m \in Nat /\ o \in Nat /\ b \in Nat /\ Len(buffer[e]) = o + m /\ Len(more) = b - m
        BY <1>3, <1>4
    <2> QED
        BY <2>1, <2>2
<1>8. /\ blockqueues' \in [Sources -> Seq(Blocks(Nat, BLOCKSIZE))]
      /\ buffer' \in [Decoders -> Seq(Nat)]
      /\ blockqueues'[e] = rest /\ buffer'[e] = buffer[e] \o more
      /\ \A s \in Sources : s # e => blockqueues'[s] = blockqueues[s]
      /\ \A d \in Decoders : d # e => buffer'[d] = buffer[d]
    <2>1. /\ blockqueues \in [Sources -> Seq(Blocks(Nat, BLOCKSIZE))]
          /\ buffer \in [Decoders -> Seq(Nat)]
        BY DEF ReaderInv, ReaderType
    <2>2. buffer' = [buffer EXCEPT ![e] = buffer[e] \o more]
        BY <1>2 DEF more
    <2>3. blockqueues' = [blockqueues EXCEPT ![e] = rest]
        BY <1>2
    <2> DEFINE X == Seq(Blocks(Nat, BLOCKSIZE))
    <2>4. rest \in X /\ blockqueues \in [Sources -> X]
        BY <2>1
    <2> HIDE DEF X
    <2>5. /\ blockqueues' \in [Sources -> X] /\ blockqueues'[e] = rest
          /\ \A s \in Sources : s # e => blockqueues'[s] = blockqueues[s]
        BY <1>3, <2>3, <2>4
    <2>6. /\ buffer' \in [Decoders -> Seq(Nat)] /\ buffer'[e] = buffer[e] \o more
          /\ \A d \in Decoders : d # e => buffer'[d] = buffer[d]
        BY <1>7, <2>1, <2>2
    <2> QED
        BY <2>5, <2>6 DEF X
<1>9. /\ pc' \in [Decoders -> {"none", "read", "media", "ended"}]
      /\ pc'[e] = "read" \/ (pc'[e] = "ended" /\ streamEnded[e] /\ b = pushed[e])
      /\ \A d \in Decoders : d # e => pc'[d] = pc[d]
    <2>1. pc \in [Decoders -> {"none", "read", "media", "ended"}]
        BY DEF ReaderInv, ReaderType
    <2> QED
        BY <1>2, <2>1
<1>10. ReaderType'
    BY <1>1, <1>8, <1>9 DEF ReaderInv, ReaderType
<1>11. InitWhole'
    <2>1. blockqueues'[0] = blockqueues[0]
        BY <1>3, <1>8, ReaderConstants
    <2> QED
        BY <1>1, <2>1 DEF ReaderInv, InitWhole, Part, Base
<1>12. ASSUME NEW d \in Decoders PROVE InitSeen(d)' /\ MediaFlow(d)'
    <2>1. CASE d # e
        <3>1. d \in Sources /\ InitSeen(d) /\ MediaFlow(d)
            BY ReaderTypes DEF ReaderInv
        <3>2. UNCHANGED <<blockqueues[d], pc[d], buffer[d]>>
            BY <1>8, <1>9, <2>1, <3>1
        <3>3. UNCHANGED <<initSegment, size[0], size[d], pushed[0], pushed[d], streamEnded[d],
                          decoderInitialized[d], initSegmentOffset[d]>>
            BY <1>1
        <3> QED
            BY <3>1, <3>2, <3>3, DecoderAlone
    <2>2. CASE d = e
        <3>1. MediaRead(d)' = b
            <4>1. MediaRead(d)' = Len(buffer'[e]) - initSegmentOffset'[e]
                BY <2>2 DEF MediaRead
            <4>2. Len(buffer'[e]) = o + b /\ initSegmentOffset'[e] = o
                BY <1>1, <1>7, <1>8 DEF o
            <4> QED
                BY <1>3, <4>1, <4>2
        <3>2. InitSeen(d)'
            <4>1. InitSeen(d)
                BY DEF ReaderInv
            <4>2. initSegment => initSegmentOffset[d] = size[0]
                BY <1>1, <2>2 DEF o
            <4> QED
                BY <1>1, <4>1, <4>2 DEF InitSeen
        <3>3. MediaFlow(d)'
            <4>1. b \in 0..pushed'[d]
                BY <1>1, <1>2, <1>3, <2>2
            <4>2. FlattenSeq(blockqueues'[d]) = Part(d, b, pushed'[d])
                BY <1>1, <1>2, <1>8, <2>2
            <4>3. buffer'[d] = Part(0, 0, initSegmentOffset'[d]) \o Part(d, 0, b)
                BY <1>1, <1>6, <1>8, <2>2 DEF given, both, o
            <4>4. pc'[d] = "ended" => streamEnded'[d] /\ b = pushed'[d]
                BY <1>1, <1>9, <2>2
            <4> QED
                BY <3>1, <4>1, <4>2, <4>3, <4>4 DEF MediaFlow
        <3> QED
            BY <3>2, <3>3
    <2> QED
        BY <2>1, <2>2
<1> QED
    BY <1>10, <1>11, <1>12 DEF ReaderInv

LEMMA ReaderKeeps ==
    ASSUME InitFitsOneRead PROVE ReaderInv /\ [ReaderNext]_readerVars => ReaderInv'
<1> SUFFICES ASSUME ReaderInv, [ReaderNext]_readerVars PROVE ReaderInv'
    OBVIOUS
<1>1. CASE UNCHANGED readerVars
    <2>1. UNCHANGED <<initSegment, size, pushed, blockqueues, streamEnded, decoderInitialized,
                      initSegmentOffset, pc, buffer>>
        BY <1>1 DEF readerVars, streamVars, decoderVars
    <2>2. ReaderType' /\ InitWhole'
        BY <2>1 DEF ReaderInv, ReaderType, InitWhole, Part, Base
    <2>3. ASSUME NEW d \in Decoders PROVE InitSeen(d)' /\ MediaFlow(d)'
        BY <2>1, DecoderAlone DEF ReaderInv
    <2> QED
        BY <2>2, <2>3 DEF ReaderInv
<1>2. ASSUME NEW s \in Sources, PushBlock(s) PROVE ReaderInv'
    BY <1>2, PushBackReads
<1>3. ASSUME NEW s \in Sources, SetStreamEOS(s) PROVE ReaderInv'
    BY <1>3, SetEOSReads
<1>4. ASSUME NEW d \in Decoders, Create(d) PROVE ReaderInv'
    BY <1>4, CreateReads
<1>5. ASSUME NEW d \in Decoders, Initialize(d) PROVE ReaderInv'
    BY <1>5, InitializeReads
<1>6. ASSUME NEW d \in Decoders, NEW len \in AskSizes, ReadInitSegment(d, len)
      PROVE  ReaderInv'
    BY <1>6, ReadInitReads
<1>7. ASSUME NEW d \in Decoders, NEW len \in AskSizes, ReadMediaSegment(d, len)
      PROVE  ReaderInv'
    BY <1>7, ReadMediaReads
<1> QED
    BY <1>1, <1>2, <1>3, <1>4, <1>5, <1>6, <1>7 DEF ReaderNext, Read

LEMMA ReaderInvariant == ASSUME InitFitsOneRead PROVE ReaderSpec => []ReaderInv
<1> QED
    BY ReaderInitially, ReaderKeeps, PTL DEF ReaderSpec

\* What a decoder was given is the init segment and then the part of its media
\* segment that it has read, as soon as it has read some.
LEMMA GivenSoFar ==
    ASSUME InitFitsOneRead, ReaderInv, NEW d \in Decoders
    PROVE  /\ InitContent = Part(0, 0, IF initSegment THEN size[0] ELSE 0)
           /\ \/ buffer[d] = InitContent \o Part(d, 0, MediaRead(d))
              \/ buffer[d] = <<>> /\ pc[d] # "ended"
<1>1. InitSeen(d) /\ MediaFlow(d) /\ initSegment \in BOOLEAN
    BY DEF ReaderInv, ReaderType
<1>2. InitContent = Part(0, 0, IF initSegment THEN size[0] ELSE 0)
    <2>1. Bounded /\ 0 \in Nat /\ size[0] \in Nat
        BY ReaderConstants, ReaderTypes
    <2>2. CASE initSegment
        <3> DEFINE n == size[0]
        <3>1. n \in Nat
            BY <2>1
        <3> HIDE DEF n
        <3>2. Content(0, 0 + 1, n) = Part(0, 0, n)
            BY <2>1, <3>1, ContentIsPart
        <3> QED
            BY <2>2, <3>2 DEF InitContent, n
    <2>3. CASE ~initSegment
        <3>1. Part(0, 0, 0) = <<>>
            BY <2>1, PartType
        <3> QED
            BY <2>3, <3>1 DEF InitContent
    <2> QED
        BY <2>2, <2>3
<1>3. CASE initSegmentOffset[d] = IF initSegment THEN size[0] ELSE 0
    BY <1>1, <1>2, <1>3 DEF MediaFlow
<1>4. CASE initSegmentOffset[d] # IF initSegment THEN size[0] ELSE 0
    <2>1. /\ initSegment /\ pc[d] # "ended" /\ ~(MediaRead(d) > 0)
          /\ initSegmentOffset[d] # size[0]
        BY <1>1, <1>4 DEF InitSeen
    <2>2. initSegmentOffset[d] = 0
        BY <1>1, <2>1 DEF InitSeen, ReaderInv, InitWhole
    <2>3. MediaRead(d) = 0
        BY <2>1, ReaderTypes
    <2>4. Part(0, 0, 0) = <<>> /\ Part(d, 0, 0) = <<>>
        <3>1. Bounded /\ d \in Nat /\ 0 \in Nat
            BY ReaderConstants
        <3>2. Part(0, 0, 0) = <<>>
            BY <3>1, PartType
        <3>3. Part(d, 0, 0) = <<>>
            BY <3>1, PartType
        <3> QED
            BY <3>2, <3>3
    <2>5. buffer[d] = <<>> \o <<>>
        BY <1>1, <2>2, <2>3, <2>4 DEF MediaFlow
    <2> QED
        BY <1>2, <2>1, <2>5
<1> QED
    BY <1>2, <1>3, <1>4

LEMMA StartsWith ==
    ASSUME NEW R, NEW x \in Seq(R), NEW y \in Seq(R)
    PROVE  IsPrefix(x, x \o y) /\ IsPrefix(<<>>, x)
<1>1. /\ Len(x) \in Nat /\ Len(y) \in Nat /\ x \o y \in Seq(R)
      /\ Len(x \o y) = Len(x) + Len(y)
      /\ \A i \in 1..Len(x) + Len(y) :
            (x \o y)[i] = IF i <= Len(x) THEN x[i] ELSE y[i - Len(x)]
    BY ConcatProperties, LenProperties
<1>2. SubSeq(x \o y, 1, Len(x)) = x
    BY SplitConcat
<1>3. IsPrefix(x, x \o y)
    BY <1>1, <1>2 DEF IsPrefix
<1>4. IsPrefix(<<>>, x)
    BY <1>1, SubSeqEmpty DEF IsPrefix
<1> QED
    BY <1>3, <1>4

LEMMA PrefixOfAll == ASSUME InitFitsOneRead, ReaderInv PROVE InitThenMedia
<1> SUFFICES ASSUME NEW d \in Decoders
             PROVE  IsPrefix(buffer[d], InitContent \o Content(d, 1, size[d]))
    BY DEF InitThenMedia
<1> DEFINE m == MediaRead(d)
           n == size[d]
           given == InitContent
           read == Part(d, 0, m)
           more == Part(d, m, n)
           all == Part(d, 0, n)
<1>1. /\ Bounded /\ d \in Nat /\ m \in Nat /\ n \in Nat /\ m <= n /\ 0 \in Nat /\ 0 <= m
      /\ 0 <= n /\ size[0] \in Nat
    <2>1. /\ d \in Nat /\ m \in Nat /\ n \in Nat /\ m <= pushed[d] /\ pushed[d] <= n
          /\ pushed[d] \in Nat /\ size[0] \in Nat
        BY ReaderTypes
    <2> HIDE DEF m, n
    <2> QED
        BY <2>1, ReaderConstants
<1> HIDE DEF m, n
<1>2. read \in Seq(Nat)
    BY <1>1, PartType
<1>3. more \in Seq(Nat)
    BY <1>1, PartType
<1>4. all \in Seq(Nat)
    BY <1>1, PartType
<1>5. read \o more = all
    BY <1>1, PartJoins
<1>6. Content(d, 1, n) = all
    <2>1. Content(d, 0 + 1, n) = Part(d, 0, n)
        BY <1>1, ContentIsPart
    <2> QED
        BY <2>1
<1>7. given \in Seq(Nat)
    <2> DEFINE k == IF initSegment THEN size[0] ELSE 0
    <2>1. k \in Nat /\ 0 <= k
        BY <1>1
    <2> HIDE DEF k
    <2>2. Part(0, 0, k) \in Seq(Nat)
        BY <1>1, <2>1, PartType
    <2> QED
        BY <2>2, GivenSoFar DEF k
<1> HIDE DEF given, read, more, all
<1>8. (given \o read) \o more = given \o all
    <2> DEFINE R == Nat
    <2> HIDE DEF R
    <2>1. \A x, y, z \in Seq(R) : (x \o y) \o z = x \o (y \o z)
        BY Associative
    <2>2. \A x, y, z \in Seq(Nat) : (x \o y) \o z = x \o (y \o z)
        BY <2>1 DEF R
    <2>3. (given \o read) \o more = given \o (read \o more)
        BY <1>2, <1>3, <1>7, <2>2
    <2> QED
        BY <1>5, <2>3
<1>9. given \o read \in Seq(Nat) /\ given \o all \in Seq(Nat)
    BY <1>2, <1>4, <1>7, ConcatProperties
<1>10. CASE buffer[d] = given \o read
    <2> DEFINE x == given \o read
    <2>1. x \in Seq(Nat) /\ more \in Seq(Nat)
        BY <1>3, <1>9
    <2> HIDE DEF x
    <2>2. IsPrefix(x, x \o more)
        BY <2>1, StartsWith
    <2> QED
        BY <1>6, <1>8, <1>10, <2>2 DEF x, n, given
<1>11. CASE buffer[d] = <<>>
    <2> DEFINE x == given \o all
    <2>1. x \in Seq(Nat)
        BY <1>9
    <2> HIDE DEF x
    <2>2. IsPrefix(<<>>, x)
        BY <2>1, StartsWith
    <2> QED
        BY <1>6, <1>11, <2>2 DEF x, n, given
<1> QED
    BY <1>10, <1>11, GivenSoFar DEF given, read, m

LEMMA AllAtTheEnd == ASSUME InitFitsOneRead, ReaderInv PROVE EndIsTheEnd
<1> SUFFICES ASSUME NEW d \in Decoders, pc[d] = "ended"
             PROVE  /\ streamEnded[d]
                    /\ buffer[d] = InitContent \o Content(d, 1, pushed[d])
    BY DEF EndIsTheEnd
<1>1. streamEnded[d] /\ MediaRead(d) = pushed[d]
    BY DEF ReaderInv, MediaFlow
<1> DEFINE p == pushed[d]
<1>2. Content(d, 0 + 1, p) = Part(d, 0, p)
    <2>1. Bounded /\ d \in Nat /\ p \in Nat /\ 0 \in Nat
        BY ReaderTypes, ReaderConstants
    <2> HIDE DEF p
    <2> QED
        BY <2>1, ContentIsPart
<1>3. buffer[d] = InitContent \o Part(d, 0, p)
    BY <1>1, GivenSoFar
<1> HIDE DEF p
<1>4. buffer[d] = InitContent \o Content(d, 1, p)
    BY <1>2, <1>3
<1> QED
    BY <1>1, <1>4 DEF p

LEMMA ReaderTypesFollow == ASSUME InitFitsOneRead, ReaderInv PROVE ReaderTypeOK
<1>1. \A s \in Sources : Length(s) <= pushed[s]
    <2>1. Length(0) = pushed[0] /\ pushed[0] \in Nat
        BY Lengths, ReaderTypes
    <2>2. ASSUME NEW d \in Decoders PROVE Length(d) <= pushed[d]
        <3>1. /\ Length(d) = pushed[d] - MediaRead(d)
              /\ pushed[d] \in Nat /\ MediaRead(d) \in Nat
            BY Lengths, ReaderTypes
        <3> QED
            BY <3>1
    <2> QED
        BY <2>1, <2>2, ReaderConstants
<1>2. \A d \in Decoders : initSegmentOffset[d] \in 0..size[0]
    BY ReaderTypes
<1>3. initSegmentOffset \in [Decoders -> 0..size[0]]
    BY <1>2 DEF ReaderInv, ReaderType
<1> QED
    BY <1>1, <1>3 DEF ReaderInv, ReaderType, ReaderTypeOK

\* MediaObjectDecoder::Read keeps its types: no decoder's offset leaves the init
\* segment, and no copy of Peek runs away, if a read holds the init segment.
THEOREM ReaderTypeCorrect ==
    ASSUME InitFitsOneRead PROVE ReaderSpec => []ReaderTypeOK
<1>1. ReaderInv => ReaderTypeOK
    BY ReaderTypesFollow
<1>2. ReaderSpec => []ReaderInv
    BY ReaderInvariant
<1> QED
    BY <1>1, <1>2, PTL

\* libav is given the init segment and then the media segment, from their first
\* byte on, nothing left out, nothing twice and nothing of another segment, by
\* MediaObjectDecoder::Read for segments and reads of every size, if a read holds
\* the init segment.
THEOREM InitThenMediaAlways ==
    ASSUME InitFitsOneRead PROVE ReaderSpec => []InitThenMedia
<1>1. ReaderInv => InitThenMedia
    BY PrefixOfAll
<1>2. ReaderSpec => []ReaderInv
    BY ReaderInvariant
<1> QED
    BY <1>1, <1>2, PTL

\* A decoder that MediaObjectDecoder::Read tells the end was given all that was
\* downloaded, if a read holds the init segment.
THEOREM EndIsTheEndAlways ==
    ASSUME InitFitsOneRead PROVE ReaderSpec => []EndIsTheEnd
<1>1. ReaderInv => EndIsTheEnd
    BY AllAtTheEnd
<1>2. ReaderSpec => []ReaderInv
    BY ReaderInvariant
<1> QED
    BY <1>1, <1>2, PTL
=============================================================================
