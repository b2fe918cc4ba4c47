------------------------------- MODULE Recursion -------------------------------
(***************************************************************************)
(* What definitions by recursion define: that the recursive functions      *)
(* behind folds and selections exist, for any finite set and sequence, and *)
(* what they return.  Induction is over sets of numbers and of sets.       *)
(***************************************************************************)
EXTENDS Integers, Sequences, FiniteSets, SequencesExt, Sieve, FiniteSetTheorems,
        SequenceTheorems, WellFoundedInduction, TLAPS

-----------------------------------------------------------------------------
(* Numbers. *)

\* A set of numbers that is not empty has a least element.
LEMMA Least ==
  ASSUME NEW T, T \subseteq Nat, T # {}
  PROVE  Min(T) \in T /\ \A y \in T : Min(T) <= y
<1>1. PICK x \in T : \A y \in T : ~ (<<y, x>> \in OpToRel(<, Nat))
  BY NatLessThanWellFounded, WFMin
<1>2. \A y \in T : y \in Nat /\ x \in Nat /\ ~ (y < x)
  BY <1>1 DEF OpToRel
<1>3. \A y \in T : x <= y
  BY <1>2
<1>4. QED
  BY <1>1, <1>3 DEF Min

\* One with a bound has a greatest.
LEMMA Greatest ==
  ASSUME NEW n \in Nat, NEW T, T \subseteq 0..n, T # {}
  PROVE  Max(T) \in T /\ \A y \in T : y <= Max(T)
<1> DEFINE Below == {n - x : x \in T}
<1>1. Below \subseteq Nat /\ Below # {}
  <2>1. \A x \in T : x \in Int /\ x <= n
    OBVIOUS
  <2>2. \A b \in Below : b \in Nat
    BY <2>1
  <2>3. QED
    BY <2>2
<1>2. PICK x \in Below : \A y \in Below : x <= y
  <2> HIDE DEF Below
  <2> QED BY <1>1, Least
<1>3. PICK m \in T : x = n - m
  OBVIOUS
<1>4. \A y \in T : y \in Int /\ m \in Int /\ n - m <= n - y
  <2>1. \A y \in T : n - y \in Below
    OBVIOUS
  <2>2. \A y \in T : y \in Int
    <3>1. \A y \in 0..n : y \in Int
      BY ONLY n \in Nat
    <3>2. QED
      BY <3>1
  <2> HIDE DEF Below
  <2>3. QED
    BY <1>2, <1>3, <2>1, <2>2
<1>5. \A y \in T : m >= y /\ y <= m
  BY <1>4
<1>6. QED
  <2>1. Max(T) \in T /\ \A y \in T : Max(T) >= y
    BY <1>5 DEF Max
  <2>2. \A y \in T : y \in Int
    BY <1>4
  <2>3. QED
    BY <2>1, <2>2

\* What holds of 0, and of a number if of the one before, holds of all.
LEMMA Counting ==
  ASSUME NEW n \in Nat, NEW T, 0 \in T, \A k \in 1..n : k - 1 \in T => k \in T
  PROVE  0..n \subseteq T
<1> DEFINE Bad == {k \in 0..n : k \notin T}
<1>1. ASSUME Bad # {} PROVE FALSE
  <2>1. Bad \subseteq Nat
    OBVIOUS
  <2> HIDE DEF Bad
  <2>2. Min(Bad) \in Bad /\ \A y \in Bad : Min(Bad) <= y
    BY <1>1, <2>1, Least
  <2> DEFINE k == Min(Bad)
  <2>3. k \in 0..n /\ k \notin T
    BY <2>2 DEF Bad
  <2> HIDE DEF k
  <2>4. k \in 1..n /\ k - 1 \in 0..n
    BY <2>3
  <2>5. k - 1 \notin Bad
    BY <2>2, <2>4 DEF k
  <2>6. QED
    BY <2>3, <2>4, <2>5 DEF Bad
<1>2. QED
  BY <1>1

-----------------------------------------------------------------------------
(* Sets. *)

\* What holds of the empty set, and of a set if of those with one element less,
\* holds of every part of a finite set.
LEMMA Parts ==
  ASSUME NEW S, IsFiniteSet(S), NEW T, {} \in T,
         \A s \in SUBSET S : s # {} /\ (\A x \in s : s \ {x} \in T) => s \in T
  PROVE  SUBSET S \subseteq T
<1> DEFINE Bad == {Cardinality(s) : s \in {s \in SUBSET S : s \notin T}}
<1>1. \A s \in SUBSET S : /\ IsFiniteSet(s) /\ Cardinality(s) \in Nat
                          /\ Cardinality(s) <= Cardinality(S)
  BY FS_Subset, FS_CardinalityType
<1>2. ASSUME Bad # {} PROVE FALSE
  <2>1. Bad \subseteq Nat
    BY <1>1
  <2> HIDE DEF Bad
  <2>2. Min(Bad) \in Bad /\ \A y \in Bad : Min(Bad) <= y
    BY <1>2, <2>1, Least
  <2>3. PICK s \in SUBSET S : s \notin T /\ Min(Bad) = Cardinality(s)
    BY <2>2 DEF Bad
  <2>4. PICK x \in s : s \ {x} \notin T
    BY <2>3
  <2>5. Cardinality(s \ {x}) = Cardinality(s) - 1
    BY <1>1, <2>4, FS_RemoveElement
  <2>6. Cardinality(s \ {x}) \in Bad
    BY <2>4 DEF Bad
  <2>7. QED
    BY <1>1, <2>2, <2>3, <2>5, <2>6
<1>3. QED
  BY <1>2

\* A function over the parts of a finite set can be given by recursion: with c,
\* which takes an element out, and g, which adds it to the value of the rest.
Folded(S, base, c, g, p) ==
  p = [s \in SUBSET S |-> IF s = {} THEN base ELSE g[<<c[s], p[s \ {c[s]}]>>]]

LEMMA FoldExists ==
  ASSUME NEW S, IsFiniteSet(S), NEW A, NEW base \in A,
         NEW c, \A s \in SUBSET S : s # {} => c[s] \in s,
         NEW g \in [S \X A -> A]
  PROVE  \E p \in [SUBSET S -> A] : Folded(S, base, c, g, p)
<1> DEFINE N == Cardinality(S)
           Small(k) == {s \in SUBSET S : Cardinality(s) <= k}
           Val(p, s) == IF s = {} THEN base ELSE g[<<c[s], p[s \ {c[s]}]>>]
           Good(k, p) == p \in [Small(k) -> A] /\ \A s \in Small(k) : p[s] = Val(p, s)
           T == {k \in 0..N : \E p : Good(k, p)}
<1>1. /\ N \in Nat
      /\ \A s \in SUBSET S : Cardinality(s) \in Nat /\ Cardinality(s) <= N
      /\ \A s \in SUBSET S : s # {} => Cardinality(s \ {c[s]}) = Cardinality(s) - 1
      /\ \A s \in SUBSET S : Cardinality(s) = 0 <=> s = {}
  BY FS_Subset, FS_CardinalityType, FS_RemoveElement, FS_EmptySet
<1>2. 0 \in T
  <2> DEFINE p == [s \in Small(0) |-> base]
  <2>1. \A s \in Small(0) : s = {}
    BY <1>1
  <2>2. Good(0, p)
    BY <2>1
  <2> HIDE DEF Good, p
  <2>3. QED
    BY <1>1, <2>2
<1>3. ASSUME NEW k \in 1..N, k - 1 \in T PROVE k \in T
  <2>1. PICK p : Good(k - 1, p)
    BY <1>3
  <2> DEFINE q == [s \in Small(k) |-> Val(p, s)]
  <2>2. \A s \in Small(k) : s # {} => s \ {c[s]} \in Small(k - 1)
    BY <1>1
  <2>3. \A s \in Small(k - 1) : s \in Small(k) /\ p[s] = Val(p, s)
    BY <1>1, <2>1
  <2>4. \A s \in Small(k) : s # {} => q[s \ {c[s]}] = p[s \ {c[s]}]
    BY <2>2, <2>3
  <2>5. \A s \in Small(k) : q[s] = Val(q, s)
    BY <2>4
  <2>6. \A s \in Small(k) : Val(p, s) \in A
    BY <2>1, <2>2
  <2>7. q \in [Small(k) -> A]
    BY <2>6
  <2> HIDE DEF q
  <2>8. Good(k, q)
    BY <2>5, <2>7
  <2> HIDE DEF Good
  <2>9. QED
    BY <2>8
<1>4. N \in T
  <2> HIDE DEF T
  <2>1. 0..N \subseteq T
    BY <1>1, <1>2, <1>3, Counting
  <2>2. QED
    BY <1>1, <2>1
<1>5. PICK p : Good(N, p)
  BY <1>4
<1>6. Small(N) = SUBSET S
  BY <1>1
<1>7. p \in [SUBSET S -> A] /\ \A s \in SUBSET S : p[s] = Val(p, s)
  BY <1>5, <1>6
<1>8. p = [s \in SUBSET S |-> p[s]] /\ [s \in SUBSET S |-> p[s]] = [s \in SUBSET S |-> Val(p, s)]
  <2> HIDE DEF Val
  <2>1. QED
    BY <1>7
<1>9. QED
  BY <1>7, <1>8 DEF Folded

\* Counting up, the greatest is the last.
LEMMA Intervals ==
  ASSUME NEW n \in Nat, NEW i \in 1..n
  PROVE  /\ 1..i # {} /\ 1..i \subseteq 1..n /\ i - 1 \in 0..n
         /\ Max(1..i) = i /\ (1..i) \ {Max(1..i)} = 1..(i - 1)
<1>1. i \in 1..i /\ i \in Nat /\ i <= n
  OBVIOUS
<1>2. 1..i \subseteq 0..i
  BY <1>1
<1> DEFINE T == 1..i
<1>3. T # {} /\ T \subseteq 0..i /\ i \in T /\ \A y \in T : y \in Int /\ y <= i
  BY <1>1, <1>2
<1> HIDE DEF T
<1> DEFINE m == Max(T)
<1>4. m \in T /\ i <= m
  BY <1>1, <1>3, Greatest
<1> HIDE DEF m
<1>5. m \in Int /\ m <= i /\ i <= m
  BY <1>3, <1>4
<1>a. m = i
  BY <1>1, <1>5
<1>6. (1..i) \ {i} = 1..(i - 1)
  BY <1>1
<1>7. QED
  BY <1>1, <1>6, <1>a DEF T, m

-----------------------------------------------------------------------------
(* Sequences. *)

\* What holds of the empty sequence, and of a sequence with one more element if
\* of it without, holds of all.
LEMMA Appending ==
  ASSUME NEW E, NEW T, <<>> \in T,
         \A s \in Seq(E) : \A y \in E : s \in T => Append(s, y) \in T
  PROVE  Seq(E) \subseteq T
<1> SUFFICES ASSUME NEW s \in Seq(E) PROVE s \in T
  OBVIOUS
<1> DEFINE n == Len(s)
           U == {i \in 0..n : SubSeq(s, 1, i) \in T}
<1>1. n \in Nat /\ \A i \in 1..n : s[i] \in E
  BY LenProperties, ElementOfSeq
<1>2. 0 \in U
  <2>1. SubSeq(s, 1, 0) = <<>>
    BY SubSeqEmpty
  <2>2. 0 \in 0..n
    BY <1>1
  <2> HIDE DEF n
  <2>3. QED
    BY <2>1, <2>2
<1>3. ASSUME NEW i \in 1..n, i - 1 \in U PROVE i \in U
  <2>1. SubSeq(s, 1, i - 1) \in Seq(E)
    <3>1. \A j \in 1..(i - 1) : s[j] \in E
      BY <1>1
    <3>2. QED
      BY <1>1, <3>1, SubSeqProperties
  <2>2. SubSeq(s, 1, i) = Append(SubSeq(s, 1, i - 1), s[i])
    <3>1. 1 \in 1..n /\ i \in 1..n
      BY <1>1
    <3>2. SubSeq(s, 1, i) = SubSeq(s, 1, i - 1) \o <<s[i]>>
      BY <3>1, SubSeqRecursiveSecond
    <3>3. SubSeq(s, 1, i - 1) \o <<s[i]>> = Append(SubSeq(s, 1, i - 1), s[i])
      BY <1>1, <2>1, AppendIsConcat
    <3>4. QED
      BY <3>2, <3>3
  <2> DEFINE u == SubSeq(s, 1, i - 1)
             v == SubSeq(s, 1, i)
  <2>3. u \in T /\ u \in Seq(E) /\ s[i] \in E /\ v = Append(u, s[i])
    BY <1>1, <1>3, <2>1, <2>2
  <2> HIDE DEF u, v
  <2>4. v \in T
    BY <2>3
  <2>5. i \in 0..n
    BY <1>1
  <2>6. QED
    BY <2>4, <2>5 DEF v
<1>4. n \in U
  <2> HIDE DEF U
  <2>1. 0..n \subseteq U
    BY <1>1, <1>2, <1>3, Counting
  <2>2. QED
    BY <1>1, <2>1
<1>5. SubSeq(s, 1, n) = s
  BY SubSeqFull
<1>6. QED
  BY <1>4, <1>5

\* A function over the sets of places of a sequence, as FoldLeft has it.
FoldedAlong(s, base, g, p) ==
  p = [S \in SUBSET DOMAIN s |->
         IF S = {} THEN base ELSE g[<<p[S \ {Max(S)}], s[Max(S)]>>]]

LEMMA AlongExists ==
  ASSUME NEW E, NEW s \in Seq(E), NEW A, NEW base \in A, NEW g \in [A \X E -> A]
  PROVE  \E p \in [SUBSET DOMAIN s -> A] : FoldedAlong(s, base, g, p)
<1> DEFINE D == DOMAIN s
           c == [S \in SUBSET D |-> Max(S)]
           h == [x \in D \X A |-> g[<<x[2], s[x[1]]>>]]
<1>1. D = 1..Len(s) /\ Len(s) \in Nat /\ \A i \in D : s[i] \in E
  BY LenProperties, ElementOfSeq
<1>2. \A S \in SUBSET D : S # {} => c[S] \in S
  <2>1. \A S \in SUBSET D : S \subseteq 0..Len(s)
    BY <1>1
  <2>2. QED
    BY <1>1, <2>1, Greatest
<1>3. h \in [D \X A -> A]
  BY <1>1
<1>4. IsFiniteSet(D)
  BY <1>1, FS_Interval
<1>5. PICK p \in [SUBSET D -> A] : Folded(D, base, c, h, p)
  <2> HIDE DEF D, c, h
  <2> QED BY <1>2, <1>3, <1>4, FoldExists
<1>6. ASSUME NEW S \in SUBSET D, S # {}
      PROVE  h[<<c[S], p[S \ {c[S]}]>>] = g[<<p[S \ {Max(S)}], s[Max(S)]>>]
  <2>1. c[S] = Max(S) /\ Max(S) \in D /\ p[S \ {Max(S)}] \in A
    BY <1>2, <1>5, <1>6
  <2> HIDE DEF c, D
  <2>2. QED
    BY <2>1
<1>7. [S \in SUBSET D |-> IF S = {} THEN base ELSE h[<<c[S], p[S \ {c[S]}]>>]]
        = [S \in SUBSET D |-> IF S = {} THEN base ELSE g[<<p[S \ {Max(S)}], s[Max(S)]>>]]
  <2> HIDE DEF c, h, D
  <2> QED BY <1>6
<1>8. p = [S \in SUBSET D |-> IF S = {} THEN base ELSE g[<<p[S \ {Max(S)}], s[Max(S)]>>]]
  <2> HIDE DEF c, h, D
  <2> QED BY <1>5, <1>7 DEF Folded
<1>9. QED
  BY <1>5, <1>8 DEF FoldedAlong

\* Two such functions, for a sequence and for it with one more element, agree on
\* what they have in common.
Along(s, A, base, g, p) ==
  /\ p[{}] = base
  /\ \A S \in SUBSET DOMAIN s :
       S # {} /\ p[S \ {Max(S)}] \in A => p[S] = g[<<p[S \ {Max(S)}], s[Max(S)]>>]

Adds(g, a, y, b) == b = g[<<a, y>>]

LEMMA AlongAppend ==
  ASSUME NEW E, NEW s \in Seq(E), NEW y \in E, NEW t, t = Append(s, y),
         NEW A, NEW base \in A, NEW g \in [A \X E -> A],
         NEW q, Along(s, A, base, g, q), NEW p, Along(t, A, base, g, p)
  PROVE  /\ q[DOMAIN s] \in A
         /\ Adds(g, q[DOMAIN s], y, p[DOMAIN t])
<1> DEFINE n == Len(s)
           T == {i \in 0..n : p[1..i] = q[1..i] /\ q[1..i] \in A}
<1>1. /\ n \in Nat /\ DOMAIN s = 1..n /\ \A i \in 1..n : s[i] \in E
      /\ t \in Seq(E) /\ DOMAIN t = 1..(n + 1)
      /\ \A i \in 1..n : t[i] = s[i]
      /\ t[n + 1] = y
  <2>1. n \in Nat /\ DOMAIN s = 1..n /\ \A i \in 1..n : s[i] \in E
    BY LenProperties, ElementOfSeq
  <2>2. t \in Seq(E) /\ Len(t) = n + 1 /\ (\A i \in 1..n : t[i] = s[i]) /\ t[n + 1] = y
    BY AppendProperties
  <2> HIDE DEF n
  <2>3. QED
    BY <2>1, <2>2, LenProperties
<1>2. Along(t, A, base, g, p)
  OBVIOUS
<1> HIDE DEF n
<1>3. 0 \in T
  <2>1. 1..0 = {} /\ 0 \in 0..n
    BY <1>1
  <2>2. q[{}] = base /\ p[{}] = base
    BY <1>2 DEF Along
  <2>3. QED
    BY <2>1, <2>2
<1>4. ASSUME NEW i \in 1..n + 1
      PROVE  /\ p[1..(i - 1)] \in A => p[1..i] = g[<<p[1..(i - 1)], t[i]>>]
             /\ i \in 1..n /\ q[1..(i - 1)] \in A => q[1..i] = g[<<q[1..(i - 1)], s[i]>>]
  <2> DEFINE S == 1..i
  <2>1. S # {} /\ S \in SUBSET DOMAIN t /\ Max(S) = i /\ S \ {Max(S)} = 1..(i - 1)
    <3> DEFINE k == n + 1
    <3>1. k \in Nat /\ i \in 1..k /\ DOMAIN t = 1..k
      BY <1>1
    <3> HIDE DEF k
    <3>2. /\ 1..i # {} /\ 1..i \subseteq 1..k
          /\ Max(1..i) = i /\ (1..i) \ {Max(1..i)} = 1..(i - 1)
      BY <3>1, Intervals
    <3>3. QED
      BY <3>1, <3>2
  <2>2. i \in 1..n => S \in SUBSET DOMAIN s
    BY <1>1
  <2> HIDE DEF S
  <2>3. p[S \ {Max(S)}] \in A => p[S] = g[<<p[S \ {Max(S)}], t[Max(S)]>>]
    BY <1>2, <2>1 DEF Along
  <2>4. i \in 1..n /\ q[S \ {Max(S)}] \in A => q[S] = g[<<q[S \ {Max(S)}], s[Max(S)]>>]
    BY <2>1, <2>2 DEF Along
  <2>5. QED
    BY <2>1, <2>3, <2>4 DEF S
<1>5. ASSUME NEW i \in 1..n, i - 1 \in T PROVE i \in T
  <2> DEFINE a == q[1..(i - 1)]
  <2>1. a \in A /\ p[1..(i - 1)] = a /\ s[i] \in E /\ t[i] = s[i] /\ i \in 1..n + 1
    BY <1>1, <1>5
  <2>2. q[1..i] = g[<<a, s[i]>>] /\ p[1..i] = q[1..i]
    BY <1>4, <2>1
  <2> HIDE DEF a
  <2>3. q[1..i] \in A
    BY <2>1, <2>2
  <2>4. i \in 0..n
    BY <1>1
  <2>5. QED
    BY <2>2, <2>3, <2>4
<1>6. n \in T
  <2> HIDE DEF T
  <2>1. 0..n \subseteq T
    BY <1>1, <1>3, <1>5, Counting
  <2>2. QED
    BY <1>1, <2>1
<1>7. p[1..(n + 1)] = g[<<q[1..n], y>>]
  <2>1. n + 1 \in 1..n + 1 /\ (n + 1) - 1 = n
    BY <1>1
  <2>2. QED
    BY <1>1, <1>4, <1>6, <2>1
<1>8. QED
  BY <1>1, <1>6, <1>7 DEF Adds

\* Appending to the second of two sequences appends to them both.
LEMMA ConcatAppend ==
  ASSUME NEW E, NEW a \in Seq(E), NEW b \in Seq(E), NEW y \in E
  PROVE  a \o Append(b, y) = Append(a \o b, y)
<1>1. <<y>> \in Seq(E) /\ a \o b \in Seq(E)
  BY ConcatProperties
<1>2. a \o (b \o <<y>>) = (a \o b) \o <<y>>
  BY <1>1, ConcatAssociative
<1>3. QED
  BY <1>1, <1>2, AppendIsConcat

LEMMA FrontAndLast ==
  ASSUME NEW E, NEW s \in Seq(E), s # <<>>
  PROVE  /\ Front(s) \in Seq(E) /\ Last(s) \in E /\ s = Append(Front(s), Last(s))
         /\ \A a \in Seq(E) : /\ a \o s # <<>>
                              /\ Front(a \o s) = a \o Front(s) /\ Last(a \o s) = Last(s)
<1>1. ASSUME NEW u \in Seq(E), NEW y \in E
      PROVE  Front(Append(u, y)) = u /\ Last(Append(u, y)) = y
  <2> DEFINE v == Append(u, y)
  <2>1. /\ v \in Seq(E) /\ Len(v) = Len(u) + 1 /\ Len(u) \in Nat
        /\ (\A i \in 1..Len(u) : v[i] = u[i]) /\ v[Len(u) + 1] = y
    BY AppendProperties, LenProperties
  <2> HIDE DEF v
  <2>2. Last(v) = y
    BY <2>1 DEF Last
  <2>3. Front(v) = SubSeq(v, 1, Len(u))
    BY <2>1 DEF Front
  <2>4. \A i \in 1..Len(u) : v[i] \in E
    BY <2>1, ElementOfSeq
  <2>5. /\ SubSeq(v, 1, Len(u)) \in Seq(E) /\ Len(SubSeq(v, 1, Len(u))) = Len(u)
        /\ \A i \in 1..Len(u) : SubSeq(v, 1, Len(u))[i] = v[i]
    <3>1. /\ SubSeq(v, 1, Len(u)) \in Seq(E)
          /\ Len(SubSeq(v, 1, Len(u))) = IF 1 <= Len(u) THEN Len(u) - 1 + 1 ELSE 0
          /\ \A i \in 1..Len(u) - 1 + 1 : SubSeq(v, 1, Len(u))[i] = v[1 + i - 1]
      BY <2>1, <2>4, SubSeqProperties
    <3>2. Len(u) - 1 + 1 = Len(u) /\ \A i \in 1..Len(u) : 1 + i - 1 = i
      BY <2>1
    <3>3. QED
      BY <2>1, <3>1, <3>2
  <2>6. SubSeq(v, 1, Len(u)) = u
    BY <2>1, <2>5, SeqEqual
  <2>7. QED
    BY <2>2, <2>3, <2>6 DEF v
<1>2. PICK u \in Seq(E), y \in E : s = Append(u, y)
  BY SequenceEmptyOrAppend
<1>3. Front(s) = u /\ Last(s) = y
  BY <1>1, <1>2
<1>4. ASSUME NEW a \in Seq(E)
      PROVE  a \o s # <<>> /\ Front(a \o s) = a \o u /\ Last(a \o s) = y
  <2> DEFINE w == a \o u
  <2>1. w \in Seq(E) /\ a \o s = Append(w, y)
    BY <1>2, ConcatProperties, ConcatAppend
  <2> HIDE DEF w
  <2>2. a \o s # <<>> /\ Front(a \o s) = w /\ Last(a \o s) = y
    BY <1>1, <2>1, AppendProperties
  <2>3. QED
    BY <2>2 DEF w
<1>5. QED
  BY <1>2, <1>3, <1>4

LEMMA TailConcat ==
  ASSUME NEW E, NEW s \in Seq(E), s # <<>>, NEW t \in Seq(E)
  PROVE  Tail(s \o t) = Tail(s) \o t /\ s \o t # <<>>
<1> DEFINE w == s \o t
           v == Tail(s)
           u == v \o t
<1>1. /\ Len(s) \in Nat /\ Len(s) > 0 /\ Len(t) \in Nat
      /\ w \in Seq(E) /\ Len(w) = Len(s) + Len(t)
      /\ \A i \in 1..Len(s) + Len(t) : w[i] = IF i <= Len(s) THEN s[i] ELSE t[i - Len(s)]
  BY LenProperties, ConcatProperties, EmptySeq
<1>2. v \in Seq(E) /\ Len(v) = Len(s) - 1 /\ \A i \in 1..Len(v) : v[i] = s[i + 1]
  BY HeadTailProperties
<1> HIDE DEF v
<1>3. /\ u \in Seq(E) /\ Len(u) = Len(s) - 1 + Len(t)
      /\ \A i \in 1..Len(s) - 1 + Len(t) :
           u[i] = IF i <= Len(s) - 1 THEN v[i] ELSE t[i - (Len(s) - 1)]
  <2>1. /\ u \in Seq(E) /\ Len(u) = Len(v) + Len(t)
        /\ \A i \in 1..Len(v) + Len(t) : u[i] = IF i <= Len(v) THEN v[i] ELSE t[i - Len(v)]
    BY <1>2, ConcatProperties
  <2> HIDE DEF u
  <2>2. QED
    BY <1>2, <2>1
<1> HIDE DEF w, u
<1>4. w # <<>>
  BY <1>1, EmptySeq
<1>5. /\ Tail(w) \in Seq(E) /\ Len(Tail(w)) = Len(s) + Len(t) - 1
      /\ \A i \in 1..Len(Tail(w)) : Tail(w)[i] = w[i + 1]
  BY <1>1, <1>4, HeadTailProperties
<1>6. ASSUME NEW i \in 1..Len(u) PROVE Tail(w)[i] = u[i]
  <2>1. i \in Nat /\ i >= 1 /\ i <= Len(s) + Len(t) - 1
    BY <1>1, <1>3
  <2>2. Tail(w)[i] = IF i + 1 <= Len(s) THEN s[i + 1] ELSE t[i + 1 - Len(s)]
    BY <1>1, <1>5, <2>1
  <2>3. u[i] = IF i <= Len(s) - 1 THEN s[i + 1] ELSE t[i - (Len(s) - 1)]
    BY <1>1, <1>2, <1>3, <2>1
  <2>4. i + 1 - Len(s) = i - (Len(s) - 1)
    BY <1>1, <2>1
  <2>5. QED
    BY <1>1, <2>1, <2>2, <2>3, <2>4
<1>7. Len(Tail(w)) = Len(u)
  BY <1>1, <1>3, <1>5
<1>8. Tail(w) = u
  BY <1>3, <1>5, <1>6, <1>7, SeqEqual
<1>9. QED
  BY <1>4, <1>8 DEF w, u, v
-----------------------------------------------------------------------------
(* Sequences without some elements (Sieve). *)

\* Leaving, as FoldLeft makes it.
LeavingFold(s, X, p) ==
  p = [S \in SUBSET DOMAIN s |->
         IF S = {} THEN <<>>
         ELSE IF s[Max(S)] \in X THEN p[S \ {Max(S)}]
         ELSE Append(p[S \ {Max(S)}], s[Max(S)])]

LEMMA LeavingIs ==
  ASSUME NEW s, NEW X
  PROVE  Leaving(s, X) = (CHOOSE p : LeavingFold(s, X, p))[DOMAIN s]
BY DEF Leaving, FoldLeft, MapThenFoldSet, LeavingFold

LEMMA LeavingAppend ==
  ASSUME NEW E, NEW s \in Seq(E), NEW y \in E, NEW X
  PROVE  /\ Leaving(<<>>, X) = <<>>
         /\ Leaving(s, X) \in Seq(E)
         /\ Leaving(Append(s, y), X)
              = IF y \in X THEN Leaving(s, X) ELSE Append(Leaving(s, X), y)
<1> DEFINE A == Seq(E)
           g == [a \in A \X E |-> IF a[2] \in X THEN a[1] ELSE Append(a[1], a[2])]
<1>1. \A a \in A : \A z \in E : g[<<a, z>>] = IF z \in X THEN a ELSE Append(a, z)
  <2> HIDE DEF A
  <2> QED OBVIOUS
<1>2. g \in [A \X E -> A]
  <2>1. \A a \in A \X E : a[1] \in A /\ a[2] \in E /\ Append(a[1], a[2]) \in A
    BY AppendProperties
  <2> HIDE DEF A
  <2>2. QED
    BY <2>1
<1>3. <<>> \in A
  OBVIOUS
<1> HIDE DEF A, g
<1>4. ASSUME NEW t \in Seq(E)
      PROVE  \E p : /\ Leaving(t, X) = p[DOMAIN t]
                   /\ Along(t, A, <<>>, g, p)
  <2>1. \A S \in SUBSET DOMAIN t : S # {} => t[Max(S)] \in E
    <3>1. Len(t) \in Nat /\ DOMAIN t = 1..Len(t) /\ \A i \in DOMAIN t : t[i] \in E
      BY LenProperties, ElementOfSeq
    <3>2. \A S \in SUBSET DOMAIN t : S \subseteq 0..Len(t)
      BY <3>1
    <3>3. \A S \in SUBSET DOMAIN t : S # {} => Max(S) \in S
      BY <3>1, <3>2, Greatest
    <3>4. QED
      BY <3>1, <3>3
  <2>2. PICK p \in [SUBSET DOMAIN t -> A] : FoldedAlong(t, <<>>, g, p)
    BY <1>2, <1>3, AlongExists
  <2>3. [S \in SUBSET DOMAIN t |->
           IF S = {} THEN <<>> ELSE g[<<p[S \ {Max(S)}], t[Max(S)]>>]]
          = [S \in SUBSET DOMAIN t |->
               IF S = {} THEN <<>>
               ELSE IF t[Max(S)] \in X THEN p[S \ {Max(S)}]
               ELSE Append(p[S \ {Max(S)}], t[Max(S)])]
    BY <1>1, <2>1, <2>2
  <2>4. LeavingFold(t, X, p)
    BY <2>2, <2>3 DEF FoldedAlong, LeavingFold
  <2>5. PICK q : LeavingFold(t, X, q) /\ Leaving(t, X) = q[DOMAIN t]
    BY <2>4, LeavingIs
  <2>6. /\ q[{}] = <<>>
        /\ \A S \in SUBSET DOMAIN t : S # {} =>
             q[S] = IF t[Max(S)] \in X THEN q[S \ {Max(S)}]
                    ELSE Append(q[S \ {Max(S)}], t[Max(S)])
    BY <2>5 DEF LeavingFold
  <2>7. ASSUME NEW S \in SUBSET DOMAIN t, S # {}, q[S \ {Max(S)}] \in A
        PROVE  q[S] = g[<<q[S \ {Max(S)}], t[Max(S)]>>]
    <3> DEFINE a == q[S \ {Max(S)}]
               z == t[Max(S)]
    <3>1. q[S] = (IF z \in X THEN a ELSE Append(a, z)) /\ a \in A /\ z \in E
      BY <2>1, <2>6, <2>7
    <3> HIDE DEF a, z
    <3>2. q[S] = g[<<a, z>>]
      BY <1>1, <3>1
    <3>3. QED
      BY <3>2 DEF a, z
  <2>8. Along(t, A, <<>>, g, q)
    BY <2>6, <2>7 DEF Along
  <2>9. QED
    BY <2>5, <2>8
<1>5. Append(s, y) \in Seq(E)
  BY AppendProperties
<1>6. PICK q : Leaving(s, X) = q[DOMAIN s] /\ Along(s, A, <<>>, g, q)
  BY <1>4
<1>7. PICK p : /\ Leaving(Append(s, y), X) = p[DOMAIN Append(s, y)]
               /\ Along(Append(s, y), A, <<>>, g, p)
  BY <1>4, <1>5
<1>8. PICK z : Leaving(<<>>, X) = z[{}] /\ Along(<<>>, A, <<>>, g, z)
  <2>1. <<>> \in Seq(E) /\ DOMAIN <<>> = {}
    OBVIOUS
  <2>2. QED
    BY <1>4, <2>1
<1>9. q[DOMAIN s] \in A /\ p[DOMAIN Append(s, y)] = g[<<q[DOMAIN s], y>>]
  <2> DEFINE none == <<>>
             t == Append(s, y)
  <2>1. none \in A /\ Along(s, A, none, g, q) /\ t = Append(s, y) /\ Along(t, A, none, g, p)
    BY <1>3, <1>6, <1>7
  <2> HIDE DEF none, t
  <2>2. q[DOMAIN s] \in A /\ Adds(g, q[DOMAIN s], y, p[DOMAIN t])
    BY <1>2, <2>1, AlongAppend
  <2>3. QED
    BY <2>2 DEF t, Adds
<1>10. Leaving(s, X) \in A /\ Leaving(Append(s, y), X) = g[<<Leaving(s, X), y>>]
  BY <1>6, <1>7, <1>9
<1>11. Leaving(<<>>, X) = <<>>
  BY <1>8 DEF Along
<1>12. QED
  BY <1>1, <1>10, <1>11 DEF A

LEMMA LeavingEmpty ==
  ASSUME NEW X
  PROVE  Leaving(<<>>, X) = <<>>
<1>1. <<>> \in Seq({0}) /\ 0 \in {0}
  OBVIOUS
<1>2. QED
  BY <1>1, LeavingAppend

LEMMA LeavingConcat ==
  ASSUME NEW E, NEW a \in Seq(E), NEW b \in Seq(E), NEW X
  PROVE  Leaving(a \o b, X) = Leaving(a, X) \o Leaving(b, X)
<1> DEFINE T == {c \in Seq(E) : Leaving(a \o c, X) = Leaving(a, X) \o Leaving(c, X)}
<1>1. CASE E = {}
  <2>1. a = <<>> /\ b = <<>>
    BY <1>1
  <2>2. a \o b = <<>> /\ Leaving(a, X) \o Leaving(b, X) = <<>> \o <<>> /\ <<>> \o <<>> = <<>>
    BY <2>1, LeavingEmpty, ConcatEmptySeq
  <2>3. QED
    BY <2>2, LeavingEmpty
<1>2. CASE E # {}
  <2>1. PICK e : e \in E
    BY <1>2
  <2>2. Leaving(<<>>, X) = <<>> /\ \A c \in Seq(E) : Leaving(c, X) \in Seq(E)
    BY <2>1, LeavingAppend
  <2>3. <<>> \in T
    <3>1. a \o <<>> = a /\ Leaving(a, X) \o <<>> = Leaving(a, X) /\ <<>> \in Seq(E)
      BY <2>2, ConcatEmptySeq
    <3>2. QED
      BY <2>2, <3>1
  <2>4. ASSUME NEW c \in Seq(E), NEW y \in E, c \in T PROVE Append(c, y) \in T
    <3> DEFINE u == a \o c
               v == Leaving(a, X)
               w == Leaving(c, X)
    <3>1. /\ u \in Seq(E) /\ v \in Seq(E) /\ w \in Seq(E)
          /\ Leaving(u, X) = v \o w /\ Append(c, y) \in Seq(E)
      BY <2>2, <2>4, ConcatProperties, AppendProperties
    <3>2. a \o Append(c, y) = Append(u, y) /\ v \o Append(w, y) = Append(v \o w, y)
      <4>1. a \o Append(c, y) = Append(u, y)
        BY ConcatAppend
      <4> HIDE DEF u, v, w
      <4>2. v \o Append(w, y) = Append(v \o w, y)
        BY <3>1, ConcatAppend
      <4>3. QED
        BY <4>1, <4>2
    <3>3. Leaving(Append(c, y), X) = IF y \in X THEN w ELSE Append(w, y)
      BY LeavingAppend
    <3>4. Leaving(Append(u, y), X) = IF y \in X THEN v \o w ELSE Append(v \o w, y)
      <4>0. \A d \in Seq(E) :
              Leaving(Append(d, y), X) = IF y \in X THEN Leaving(d, X) ELSE Append(Leaving(d, X), y)
        BY LeavingAppend
      <4> HIDE DEF u, v, w
      <4>1. Leaving(Append(u, y), X) = IF y \in X THEN Leaving(u, X) ELSE Append(Leaving(u, X), y)
        BY <3>1, <4>0
      <4>2. QED
        BY <3>1, <4>1
    <3>5. Leaving(a \o Append(c, y), X) = v \o Leaving(Append(c, y), X)
      BY <3>2, <3>3, <3>4
    <3>6. QED
      BY <3>1, <3>5
  <2>5. Seq(E) \subseteq T
    <3> HIDE DEF T
    <3> QED BY <2>3, <2>4, Appending
  <2>6. QED
    BY <2>5
<1>3. QED
  BY <1>1, <1>2
LEMMA LeavingType ==
  ASSUME NEW E, NEW s \in Seq(E), NEW X
  PROVE  Leaving(s, X) \in Seq(E \ X)
<1> DEFINE T == {c \in Seq(E) : Leaving(c, X) \in Seq(E \ X)}
<1>1. <<>> \in T
  <2>1. Leaving(<<>>, X) = <<>> /\ <<>> \in Seq(E \ X) /\ <<>> \in Seq(E)
    BY LeavingEmpty
  <2>2. QED
    BY <2>1
<1>2. ASSUME NEW c \in Seq(E), NEW y \in E, c \in T PROVE Append(c, y) \in T
  <2>1. Leaving(Append(c, y), X) = IF y \in X THEN Leaving(c, X) ELSE Append(Leaving(c, X), y)
    BY LeavingAppend
  <2>2. \A F : \A d \in Seq(F) : \A z \in F : Append(d, z) \in Seq(F)
    BY AppendProperties
  <2>3. CASE y \in X
    BY <1>2, <2>1, <2>2, <2>3
  <2>4. CASE y \notin X
    <3>1. Append(Leaving(c, X), y) \in Seq(E \ X)
      <4> DEFINE F == E \ X
                 d == Leaving(c, X)
      <4>1. y \in F /\ d \in Seq(F)
        BY <1>2, <2>4
      <4> HIDE DEF F, d
      <4>2. Append(d, y) \in Seq(F)
        BY <4>1, AppendProperties
      <4>3. QED
        BY <4>2 DEF F, d
    <3>2. QED
      BY <2>1, <2>2, <2>4, <3>1
  <2>5. QED
    BY <2>3, <2>4
<1>3. Seq(E) \subseteq T
  <2> HIDE DEF T
  <2> QED BY <1>1, <1>2, Appending
<1>4. QED
  BY <1>3

-----------------------------------------------------------------------------
(* FlattenSeq. *)

\* The function behind it: what the first sequences make, one after the other.
Flattened(s, p) ==
  p = [i \in 1..Len(s) |-> IF i = 1 THEN s[i] ELSE p[i - 1] \o s[i]]

LEMMA FlattenIs ==
  ASSUME NEW s
  PROVE  FlattenSeq(s) = IF Len(s) = 0 THEN s ELSE (CHOOSE p : Flattened(s, p))[Len(s)]
BY DEF FlattenSeq, Flattened

LEMMA FlattenExists ==
  ASSUME NEW E, NEW s \in Seq(Seq(E))
  PROVE  \E p \in [1..Len(s) -> Seq(E)] : Flattened(s, p)
<1> DEFINE F == Seq(E)
           T == {c \in Seq(F) : \E p \in [1..Len(c) -> F] : Flattened(c, p)}
<1>1. \A a, b \in F : a \o b \in F
  BY ConcatProperties
<1> HIDE DEF F
<1>2. <<>> \in T
  <2> DEFINE p == [i \in 1..0 |-> <<>>]
  <2>1. p \in [1..0 -> F] /\ p = [i \in 1..0 |-> IF i = 1 THEN <<>>[i] ELSE p[i - 1] \o <<>>[i]]
    <3>1. 1..0 = {}
      OBVIOUS
    <3>2. QED
      BY Zenon, <3>1
  <2>2. Len(<<>>) = 0 /\ <<>> \in Seq(F)
    OBVIOUS
  <2>3. QED
    BY <2>1, <2>2 DEF Flattened
<1>3. ASSUME NEW c \in Seq(F), NEW y \in F, c \in T PROVE Append(c, y) \in T
  <2> DEFINE t == Append(c, y)
             n == Len(c)
  <2>1. PICK p \in [1..n -> F] : Flattened(c, p)
    BY <1>3
  <2>2. /\ n \in Nat /\ Len(t) = n + 1 /\ t \in Seq(F)
        /\ t[n + 1] = y /\ \A i \in 1..n : t[i] = c[i] /\ c[i] \in F
    BY AppendProperties, LenProperties, ElementOfSeq
  <2>3. \A i \in 1..n : p[i] \in F /\ p[i] = IF i = 1 THEN c[i] ELSE p[i - 1] \o c[i]
    BY <2>1 DEF Flattened
  <2> HIDE DEF t, n
  <2> DEFINE q == [i \in 1..n + 1 |-> IF i <= n THEN p[i]
                                      ELSE IF i = 1 THEN y ELSE p[n] \o y]
  <2>4. \A i \in 1..n + 1 :
          q[i] \in F /\ q[i] = IF i = 1 THEN t[i] ELSE q[i - 1] \o t[i]
    <3> TAKE i \in 1..n + 1
    <3>1. CASE i \in 1..n
      <4>1. q[i] = p[i] /\ (i # 1 => i - 1 \in 1..n /\ q[i - 1] = p[i - 1])
        BY <2>2, <3>1
      <4>2. QED
        BY <2>2, <2>3, <3>1, <4>1
    <3>2. CASE i = n + 1
      <4>1. q[i] = IF n = 0 THEN y ELSE p[n] \o y
        BY <2>2, <3>2
      <4>2. n # 0 => n \in 1..n /\ q[n] = p[n] /\ p[n] \in F
        BY <2>2, <2>3
      <4>3. QED
        BY <1>1, <2>2, <3>2, <4>1, <4>2
    <3>3. QED
      BY <2>2, <3>1, <3>2
  <2>5. q \in [1..n + 1 -> F] /\ Flattened(t, q)
    <3>1. q = [i \in 1..n + 1 |-> q[i]]
      OBVIOUS
    <3> HIDE DEF q
    <3>2. QED
      BY <2>2, <2>4, <3>1 DEF Flattened
  <2>6. QED
    BY <2>2, <2>5 DEF t
<1>4. Seq(F) \subseteq T
  <2> HIDE DEF T
  <2> QED BY <1>2, <1>3, Appending
<1>5. QED
  BY <1>4 DEF F

LEMMA FlattenPicked ==
  ASSUME NEW E, NEW s \in Seq(Seq(E)), s # <<>>
  PROVE  \E p : /\ FlattenSeq(s) = p[Len(s)]
                /\ \A i \in 1..Len(s) :
                     p[i] = IF i = 1 THEN s[i] ELSE p[i - 1] \o s[i]
<1>1. Len(s) # 0
  BY EmptySeq
<1>2. \E p : Flattened(s, p)
  BY FlattenExists
<1>3. PICK p : Flattened(s, p) /\ FlattenSeq(s) = p[Len(s)]
  BY <1>1, <1>2, FlattenIs
<1>4. QED
  BY <1>3 DEF Flattened

\* What FlattenSeq makes of sequences, one more at a time.
LEMMA FlattenAppend ==
  ASSUME NEW E, NEW s \in Seq(Seq(E)), NEW y \in Seq(E)
  PROVE  /\ FlattenSeq(<<>>) = <<>>
         /\ FlattenSeq(s) \in Seq(E)
         /\ FlattenSeq(Append(s, y)) = FlattenSeq(s) \o y
<1> DEFINE F == Seq(E)
           t == Append(s, y)
           n == Len(s)
<1>1. /\ n \in Nat /\ Len(t) = n + 1 /\ t \in Seq(F) /\ t # <<>>
      /\ t[n + 1] = y /\ \A i \in 1..n : t[i] = s[i] /\ s[i] \in F
  BY AppendProperties, LenProperties, ElementOfSeq
<1>2. FlattenSeq(<<>>) = <<>>
  BY FlattenIs
<1>3. \A a, b \in F : a \o b \in F
  BY ConcatProperties
<1>4. PICK q : /\ FlattenSeq(t) = q[n + 1]
               /\ \A i \in 1..n + 1 : q[i] = IF i = 1 THEN t[i] ELSE q[i - 1] \o t[i]
  <2> HIDE DEF t
  <2>1. PICK q : /\ FlattenSeq(t) = q[Len(t)]
                 /\ \A i \in 1..Len(t) : q[i] = IF i = 1 THEN t[i] ELSE q[i - 1] \o t[i]
    BY <1>1, FlattenPicked
  <2>2. QED
    BY <1>1, <2>1
<1>5. <<>> \in F /\ <<>> \o y = y
  BY ConcatEmptySeq
<1> HIDE DEF F, t
<1>6. CASE n = 0
  <2>1. s = <<>>
    BY <1>6, EmptySeq
  <2>2. q[n + 1] = y
    BY <1>1, <1>4, <1>6
  <2>3. QED
    BY <1>2, <1>4, <1>5, <2>1, <2>2 DEF F, t
<1>7. CASE n # 0
  <2>1. s # <<>>
    BY <1>7
  <2>2. PICK p : /\ FlattenSeq(s) = p[n]
                 /\ \A i \in 1..n : p[i] = IF i = 1 THEN s[i] ELSE p[i - 1] \o s[i]
    BY <2>1, FlattenPicked
  <2> HIDE DEF n
  <2> DEFINE T == {k \in 0..n : k = 0 \/ (p[k] \in F /\ p[k] = q[k])}
  <2>3. \A k \in 1..n : k - 1 \in T => k \in T
    <3> TAKE k \in 1..n
    <3> HAVE k - 1 \in T
    <3>1. k \in Nat /\ k \in 1..n + 1 /\ k \in 0..n /\ (k = 1 \/ k - 1 # 0)
      BY <1>1
    <3>2. CASE k = 1
      BY <1>1, <1>4, <2>2, <3>1, <3>2
    <3>3. CASE k - 1 # 0
      <4>1. p[k - 1] \in F /\ p[k - 1] = q[k - 1] /\ k # 1
        BY <3>1, <3>3
      <4>2. QED
        BY <1>1, <1>3, <1>4, <2>2, <3>1, <4>1
    <3>4. QED
      BY <3>1, <3>2, <3>3
  <2>4. 0..n \subseteq T
    <3>1. 0 \in T
      BY <1>1
    <3> HIDE DEF T
    <3>2. QED
      BY <1>1, <2>3, <3>1, Counting
  <2>5. p[n] \in F /\ p[n] = q[n]
    BY <1>1, <1>7, <2>4
  <2>6. q[n + 1] = q[n] \o y
    <3> DEFINE m == n + 1
    <3>1. m \in 1..n + 1 /\ m # 1 /\ m - 1 = n /\ t[m] = y
      BY <1>1, <1>7
    <3>2. \A i \in 1..n + 1 : q[i] = IF i = 1 THEN t[i] ELSE q[i - 1] \o t[i]
      BY <1>4
    <3> HIDE DEF m
    <3>3. q[m] = q[m - 1] \o t[m]
      BY <3>1, <3>2
    <3>4. QED
      BY <3>1, <3>3 DEF m
  <2>7. QED
    BY <1>2, <1>4, <2>2, <2>5, <2>6 DEF F, t
<1>8. QED
  BY <1>6, <1>7

LEMMA FlattenConcat ==
  ASSUME NEW E, NEW a \in Seq(Seq(E)), NEW b \in Seq(Seq(E))
  PROVE  FlattenSeq(a \o b) = FlattenSeq(a) \o FlattenSeq(b)
<1> DEFINE F == Seq(E)
           T == {c \in Seq(F) : FlattenSeq(a \o c) = FlattenSeq(a) \o FlattenSeq(c)}
<1>1. <<>> \in F
  OBVIOUS
<1>2. /\ FlattenSeq(<<>>) = <<>>
      /\ \A c \in Seq(F) : FlattenSeq(c) \in F
      /\ \A c \in Seq(F) : \A y \in F : FlattenSeq(Append(c, y)) = FlattenSeq(c) \o y
  BY <1>1, FlattenAppend
<1>3. <<>> \in T
  <2>1. a \o <<>> = a /\ FlattenSeq(a) \o <<>> = FlattenSeq(a) /\ <<>> \in Seq(F)
    BY <1>2, ConcatEmptySeq
  <2>2. QED
    BY <1>2, <2>1
<1>4. ASSUME NEW c \in Seq(F), NEW y \in F, c \in T PROVE Append(c, y) \in T
  <2> DEFINE u == a \o c
             v == FlattenSeq(a)
             w == FlattenSeq(c)
             t == Append(c, y)
  <2>1. v \in F /\ w \in F /\ FlattenSeq(u) = v \o w
    BY <1>2, <1>4
  <2>2. u \in Seq(F) /\ t \in Seq(F)
    <3> HIDE DEF F
    <3> QED BY ConcatProperties, AppendProperties DEF F
  <2>3. a \o t = Append(u, y)
    <3> HIDE DEF F
    <3>1. a \in Seq(F)
      BY DEF F
    <3>2. QED
      BY <3>1, ConcatAppend
  <2>4. FlattenSeq(Append(u, y)) = FlattenSeq(u) \o y
    <3> HIDE DEF u, F
    <3> QED BY <1>2, <2>2
  <2>5. FlattenSeq(t) = w \o y
    BY <1>2
  <2> HIDE DEF u, v, w, t
  <2>6. (v \o w) \o y = v \o (w \o y)
    BY <2>1, ConcatAssociative
  <2>7. QED
    BY <2>1, <2>2, <2>3, <2>4, <2>5, <2>6 DEF t, v
<1>5. Seq(F) \subseteq T
  <2> HIDE DEF T, F
  <2> QED BY <1>3, <1>4, Appending
<1>6. QED
  BY <1>5

-----------------------------------------------------------------------------
(* Texts by their places: of some places, in their order, and of the first ones. *)

\* A sequence given place by place, one more place at a time.
LEMMA OnePlaceMore ==
  ASSUME NEW E, NEW g, NEW k \in Nat, \A j \in 1..k + 1 : g[j] \in E
  PROVE  /\ [j \in 1..k |-> g[j]] \in Seq(E)
         /\ [j \in 1..k + 1 |-> g[j]] = Append([j \in 1..k |-> g[j]], g[k + 1])
<1> DEFINE a == [j \in 1..k |-> g[j]]
           b == [j \in 1..k + 1 |-> g[j]]
<1>1. a \in Seq(E) /\ Len(a) = k /\ \A j \in 1..k : a[j] = g[j]
  <2>1. \A j \in 1..k : g[j] \in E
    OBVIOUS
  <2>2. a \in [1..k -> E]
    BY <2>1
  <2>3. QED
    BY <2>2, IsASeq
<1>2. b \in Seq(E) /\ Len(b) = k + 1 /\ \A j \in 1..k + 1 : b[j] = g[j]
  <2>1. b \in [1..k + 1 -> E]
    OBVIOUS
  <2>2. QED
    BY <2>1, IsASeq
<1> HIDE DEF a, b
<1>3. g[k + 1] \in E
  OBVIOUS
<1> DEFINE d == Append(a, g[k + 1])
<1>4. /\ d \in Seq(E) /\ Len(d) = k + 1
      /\ \A j \in 1..k : d[j] = a[j]
      /\ d[k + 1] = g[k + 1]
  BY <1>1, <1>3, AppendProperties
<1>5. \A j \in 1..k + 1 : b[j] = d[j]
  BY <1>1, <1>2, <1>4
<1> HIDE DEF d
<1>6. b = d
  BY <1>2, <1>4, <1>5, SeqEqual
<1>7. QED
  BY <1>1, <1>6 DEF a, b, d

\* The numbers up to n that are in S, in their order.
Chosen(n, S) == Leaving([i \in 1..n |-> i], Nat \ S)

LEMMA ChosenNext ==
  ASSUME NEW n \in Nat, NEW S
  PROVE  /\ Chosen(n, S) \in Seq((1..n) \cap S)
         /\ Chosen(0, S) = <<>>
         /\ Chosen(n + 1, S) = IF n + 1 \in S THEN Append(Chosen(n, S), n + 1) ELSE Chosen(n, S)
<1> DEFINE g == [j \in Nat |-> j]
           a == [j \in 1..n |-> j]
           b == [j \in 1..n + 1 |-> j]
<1>1. \A j \in 1..n + 1 : g[j] \in Nat /\ g[j] = j
  OBVIOUS
<1>2. [j \in 1..n |-> g[j]] = a /\ [j \in 1..n + 1 |-> g[j]] = b /\ g[n + 1] = n + 1
  OBVIOUS
<1>3. a \in Seq(Nat) /\ b = Append(a, n + 1)
  <2> HIDE DEF g
  <2>1. /\ [j \in 1..n |-> g[j]] \in Seq(Nat)
        /\ [j \in 1..n + 1 |-> g[j]] = Append([j \in 1..n |-> g[j]], g[n + 1])
    BY <1>1, OnePlaceMore
  <2>2. QED
    BY <1>2, <2>1
<1>4. a \in Seq(1..n)
  <2>1. a \in [1..n -> 1..n]
    OBVIOUS
  <2>2. QED
    BY <2>1, IsASeq
<1>5. Leaving(a, Nat \ S) \in Seq((1..n) \cap S)
  <2>1. (1..n) \ (Nat \ S) = (1..n) \cap S
    OBVIOUS
  <2> HIDE DEF a
  <2>2. Leaving(a, Nat \ S) \in Seq((1..n) \ (Nat \ S))
    BY <1>4, LeavingType
  <2>3. QED
    BY <2>1, <2>2
<1>6. Leaving(b, Nat \ S) = IF n + 1 \in S THEN Append(Leaving(a, Nat \ S), n + 1) ELSE Leaving(a, Nat \ S)
  <2> HIDE DEF a, b
  <2>1. n + 1 \in Nat
    OBVIOUS
  <2>2. \A y \in Nat :
          Leaving(Append(a, y), Nat \ S)
            = IF y \in Nat \ S THEN Leaving(a, Nat \ S) ELSE Append(Leaving(a, Nat \ S), y)
    <3> DEFINE X == Nat \ S
               N == Nat
    <3>1. a \in Seq(N)
      BY <1>3
    <3> HIDE DEF X, N
    <3>2. \A y \in N :
            Leaving(Append(a, y), X) = IF y \in X THEN Leaving(a, X) ELSE Append(Leaving(a, X), y)
      BY <3>1, LeavingAppend
    <3>3. QED
      BY <3>2 DEF X, N
  <2>3. QED
    BY <1>3, <2>1, <2>2
<1>7. [i \in 1..0 |-> i] = <<>>
  <2>1. 1..0 = {}
    OBVIOUS
  <2>2. QED
    BY <2>1
<1>8. QED
  BY <1>5, <1>6, <1>7, LeavingEmpty DEF Chosen

\* One that is larger than all others is chosen last, and what is larger than
\* all chosen makes no difference.
LEMMA ChosenLast ==
  ASSUME NEW n \in Nat, NEW S, S \subseteq Nat, NEW x \in 1..n, x \notin S, \A s \in S : s < x
  PROVE  Chosen(n, S \cup {x}) = Append(Chosen(n, S), x)
<1> DEFINE V == S \cup {x}
           T == {k \in 0..n : Chosen(k, V) = IF k < x THEN Chosen(k, S) ELSE Append(Chosen(k, S), x)}
<1>1. 0 \in T
  <2>1. 0 \in 0..n /\ 0 < x /\ 0 \in Nat
    OBVIOUS
  <2>2. Chosen(0, V) = <<>> /\ Chosen(0, S) = <<>>
    BY <2>1, ChosenNext
  <2> HIDE DEF V
  <2>3. QED
    BY <2>1, <2>2
<1>2. ASSUME NEW k \in 1..n, k - 1 \in T PROVE k \in T
  <2> DEFINE j == k - 1
  <2>1. j \in Nat /\ k \in Nat /\ x \in Nat /\ j + 1 = k /\ k \in 0..n
    OBVIOUS
  <2>2. Chosen(j, V) = IF j < x THEN Chosen(j, S) ELSE Append(Chosen(j, S), x)
    BY <1>2
  <2> HIDE DEF j, V
  <2>3. /\ Chosen(k, V) = IF k \in V THEN Append(Chosen(j, V), k) ELSE Chosen(j, V)
        /\ Chosen(k, S) = IF k \in S THEN Append(Chosen(j, S), k) ELSE Chosen(j, S)
    <3>1. \A U : Chosen(j + 1, U) = IF j + 1 \in U THEN Append(Chosen(j, U), j + 1) ELSE Chosen(j, U)
      BY <2>1, ChosenNext
    <3>2. QED
      BY <2>1, <3>1
  <2>4. k \in V <=> k \in S \/ k = x
    BY DEF V
  <2>5. CASE k < x
    BY <2>1, <2>2, <2>3, <2>4, <2>5
  <2>6. CASE k = x
    BY <2>1, <2>2, <2>3, <2>4, <2>6
  <2>7. CASE k > x
    BY <2>1, <2>2, <2>3, <2>4, <2>7
  <2>8. Chosen(k, V) = IF k < x THEN Chosen(k, S) ELSE Append(Chosen(k, S), x)
    BY <2>1, <2>5, <2>6, <2>7
  <2>9. QED
    BY <2>1, <2>8
<1>3. 0..n \subseteq T
  <2> HIDE DEF T
  <2> QED BY <1>1, <1>2, Counting
<1>4. n \in 0..n /\ ~ (n < x)
  OBVIOUS
<1>5. Chosen(n, V) = Append(Chosen(n, S), x)
  <2> HIDE DEF V
  <2> QED BY <1>3, <1>4
<1>6. QED
  BY <1>5

\* The texts of the places in order, and those of the places in S up to n, put
\* together.
TextsOf(t, order) == [k \in DOMAIN order |-> t[order[k]]]
Within(n, t, S) == FlattenSeq(TextsOf(t, Chosen(n, S)))

\* Each place of D has a text of E.
Tells(t, D, E) == \A i \in D : t[i] \in E

LEMMA TextsAppend ==
  ASSUME NEW D, NEW E, NEW t, Tells(t, D, E), NEW o \in Seq(D), NEW x \in D
  PROVE  /\ TextsOf(t, <<>>) = <<>>
         /\ TextsOf(t, o) \in Seq(E)
         /\ TextsOf(t, Append(o, x)) = Append(TextsOf(t, o), t[x])
<1> DEFINE k == Len(o)
           p == Append(o, x)
           g == [j \in 1..k + 1 |-> t[p[j]]]
<1>1. k \in Nat /\ DOMAIN o = 1..k /\ \A j \in 1..k : o[j] \in D
  BY LenProperties, ElementOfSeq
<1>2. /\ p \in Seq(D) /\ Len(p) = k + 1 /\ DOMAIN p = 1..k + 1
      /\ p[k + 1] = x /\ \A j \in 1..k : p[j] = o[j]
  BY AppendProperties, LenProperties
<1> HIDE DEF k, p
<1>3. \A j \in 1..k + 1 : g[j] = t[p[j]] /\ g[j] \in E
  BY <1>2, ElementOfSeq DEF Tells
<1>4. TextsOf(t, p) = [j \in 1..k + 1 |-> g[j]]
  BY <1>2 DEF TextsOf
<1>5. TextsOf(t, o) = [j \in 1..k |-> g[j]]
  <2>1. \A j \in 1..k : g[j] = t[o[j]]
    BY <1>1, <1>2
  <2> HIDE DEF g
  <2>2. QED
    BY <1>1, <2>1 DEF TextsOf
<1>6. g[k + 1] = t[x]
  BY <1>1, <1>2
<1> HIDE DEF g
<1>7. /\ [j \in 1..k |-> g[j]] \in Seq(E)
      /\ [j \in 1..k + 1 |-> g[j]] = Append([j \in 1..k |-> g[j]], g[k + 1])
  BY <1>1, <1>3, OnePlaceMore
<1>8. TextsOf(t, <<>>) = <<>>
  BY DEF TextsOf
<1>9. QED
  BY <1>4, <1>5, <1>6, <1>7, <1>8 DEF p

LEMMA WithinSame ==
  ASSUME NEW n \in Nat, NEW t, NEW u, NEW S, S \subseteq 1..n, \A i \in S : u[i] = t[i]
  PROVE  Within(n, u, S) = Within(n, t, S)
<1> DEFINE o == Chosen(n, S)
<1>1. o \in Seq(S)
  <2>1. (1..n) \cap S = S
    OBVIOUS
  <2>2. o \in Seq((1..n) \cap S)
    BY ChosenNext
  <2>3. QED
    BY <2>1, <2>2
<1>2. DOMAIN o = 1..Len(o) /\ \A j \in 1..Len(o) : o[j] \in S
  BY <1>1, LenProperties, ElementOfSeq
<1> HIDE DEF o
<1>3. TextsOf(u, o) = TextsOf(t, o)
  BY <1>2 DEF TextsOf
<1>4. QED
  BY <1>3 DEF Within, o

LEMMA WithinIs ==
  ASSUME NEW n \in Nat, NEW t, NEW E, NEW S, S \subseteq 1..n, \A i \in S : t[i] \in Seq(E)
  PROVE  /\ Within(n, t, S) \in Seq(E)
         /\ Within(n + 1, t, S) = Within(n, t, S)
<1> DEFINE o == Chosen(n, S)
           F == Seq(E)
<1>1. o \in Seq(S)
  <2>1. (1..n) \cap S = S
    OBVIOUS
  <2>2. o \in Seq((1..n) \cap S)
    BY ChosenNext
  <2>3. QED
    BY <2>1, <2>2
<1>3. TextsOf(t, o) \in Seq(F)
  <2>1. CASE S = {}
    <3>1. o = <<>>
      BY <1>1, <2>1
    <3> HIDE DEF o
    <3>2. TextsOf(t, o) = <<>>
      BY <3>1 DEF TextsOf
    <3>3. QED
      BY <3>2
  <2>2. CASE S # {}
    <3> HIDE DEF o, F
    <3>1. \A x \in S : TextsOf(t, o) \in Seq(F)
      <4>1. Tells(t, S, F)
        BY DEF F, Tells
      <4>2. QED
        BY <1>1, <4>1, TextsAppend
    <3>2. QED
      BY <2>2, <3>1
  <2>3. QED
    BY <2>1, <2>2
<1>4. Within(n, t, S) \in F
  <2>1. <<>> \in F
    OBVIOUS
  <2> HIDE DEF o
  <2>2. FlattenSeq(TextsOf(t, o)) \in Seq(E)
    BY <1>3, <2>1, FlattenAppend
  <2>3. QED
    BY <2>2 DEF Within, o
<1>6. Within(n + 1, t, S) = Within(n, t, S)
  <2>1. n + 1 \notin S
    OBVIOUS
  <2>2. Chosen(n + 1, S) = Chosen(n, S)
    BY <2>1, ChosenNext
  <2>3. QED
    BY <2>2 DEF Within
<1>7. QED
  BY <1>4, <1>6

LEMMA WithinNone ==
  ASSUME NEW n \in Nat, NEW t
  PROVE  Within(n, t, {}) = <<>>
<1>1. Chosen(n, {}) \in Seq({})
  <2>1. (1..n) \cap {} = {}
    OBVIOUS
  <2>2. QED
    BY <2>1, ChosenNext
<1>2. Chosen(n, {}) = <<>>
  <2> DEFINE o == Chosen(n, {})
  <2> HIDE DEF o
  <2>1. o \in Seq({}) => o = <<>>
    OBVIOUS
  <2>2. QED
    BY <1>1, <2>1 DEF o
<1>3. TextsOf(t, <<>>) = <<>>
  BY DEF TextsOf
<1>4. <<>> \in Seq(Seq({0})) /\ <<>> \in Seq({0})
  OBVIOUS
<1>5. FlattenSeq(<<>>) = <<>>
  BY <1>4, FlattenAppend
<1>6. QED
  BY <1>2, <1>3, <1>5 DEF Within

\* x is a place behind those of S.
Behind(n, S, x) == x \in 1..n /\ S \subseteq 1..n /\ \A s \in S : s < x

\* b goes on with y where a ends.
Continued(b, a, y) == b = a \o y

LEMMA WithinLast ==
  ASSUME NEW n \in Nat, NEW t, NEW E, NEW S, NEW x,
         Behind(n, S, x), Tells(t, S \cup {x}, Seq(E))
  PROVE  Continued(Within(n, t, S \cup {x}), Within(n, t, S), t[x])
<1>0. x \in 1..n /\ x \notin S /\ S \subseteq 1..n /\ \A s \in S : s < x
  BY DEF Behind
<1> DEFINE o == Chosen(n, S)
           F == Seq(E)
           D == S \cup {x}
<1>1. o \in Seq(D)
  <2>1. (1..n) \cap S = S
    BY <1>0
  <2>2. o \in Seq((1..n) \cap S)
    BY ChosenNext
  <2> HIDE DEF o
  <2>3. QED
    BY <2>1, <2>2, SeqMonotonic
<1>2. Chosen(n, D) = Append(o, x)
  <2>1. S \subseteq Nat
    BY <1>0
  <2>2. QED
    BY <1>0, <2>1, ChosenLast
<1>3. x \in D /\ Tells(t, D, F)
  OBVIOUS
<1>4. TextsOf(t, o) \in Seq(F) /\ TextsOf(t, Append(o, x)) = Append(TextsOf(t, o), t[x]) /\ t[x] \in F
  <2> HIDE DEF o, F, D
  <2>1. \A y \in D : /\ TextsOf(t, o) \in Seq(F)
                     /\ TextsOf(t, Append(o, y)) = Append(TextsOf(t, o), t[y])
    BY <1>1, <1>3, TextsAppend
  <2>2. QED
    BY <1>3, <2>1 DEF Tells
<1>5. FlattenSeq(Append(TextsOf(t, o), t[x])) = FlattenSeq(TextsOf(t, o)) \o t[x]
  <2> DEFINE a == TextsOf(t, o)
             b == t[x]
  <2>1. a \in Seq(Seq(E)) /\ b \in Seq(E)
    BY <1>4
  <2> HIDE DEF a, b
  <2>2. FlattenSeq(Append(a, b)) = FlattenSeq(a) \o b
    BY <2>1, FlattenAppend
  <2>3. QED
    BY <2>2 DEF a, b
<1>6. QED
  BY <1>2, <1>4, <1>5 DEF Within, Continued

\* Sequences given place by place, one after the other.
UpTo(g, k) == FlattenSeq([j \in 1..k |-> g[j]])

LEMMA UpToIs ==
  ASSUME NEW E, NEW g, NEW k \in Nat, Tells(g, 1..k, Seq(E))
  PROVE  UpTo(g, k) \in Seq(E) /\ UpTo(g, 0) = <<>>
<1> DEFINE a == [j \in 1..k |-> g[j]]
           F == Seq(E)
<1>1. a \in [1..k -> F]
  BY DEF Tells
<1>2. a \in Seq(F)
  <2> HIDE DEF a, F
  <2> QED BY <1>1
<1>3. FlattenSeq(a) \in Seq(E) /\ FlattenSeq(<<>>) = <<>>
  <2>1. <<>> \in Seq(E)
    OBVIOUS
  <2> HIDE DEF a
  <2>2. a \in Seq(Seq(E))
    BY <1>2
  <2>3. QED
    BY <2>1, <2>2, FlattenAppend
<1>4. [j \in 1..0 |-> g[j]] = <<>>
  <2>1. 1..0 = {}
    OBVIOUS
  <2>2. QED
    BY <2>1
<1>5. QED
  BY <1>3, <1>4 DEF UpTo

LEMMA UpToNext ==
  ASSUME NEW E, NEW g, NEW k \in Nat, Tells(g, 1..k + 1, Seq(E))
  PROVE  UpTo(g, k + 1) = UpTo(g, k) \o g[k + 1] /\ g[k + 1] \in Seq(E)
<1> DEFINE a == [j \in 1..k |-> g[j]]
           b == [j \in 1..k + 1 |-> g[j]]
           y == g[k + 1]
           F == Seq(E)
<1>1. y \in F /\ \A j \in 1..k + 1 : g[j] \in F
  BY DEF Tells
<1>2. a \in Seq(F) /\ b = Append(a, y)
  <2> HIDE DEF F
  <2>1. QED
    BY <1>1, OnePlaceMore
<1> HIDE DEF a, b, y
<1>3. FlattenSeq(Append(a, y)) = FlattenSeq(a) \o y
  BY <1>1, <1>2, FlattenAppend
<1>4. QED
  BY <1>1, <1>2, <1>3 DEF UpTo, a, b, y

LEMMA UpToSame ==
  ASSUME NEW g, NEW h, NEW k, \A j \in 1..k : g[j] = h[j]
  PROVE  UpTo(g, k) = UpTo(h, k)
<1>1. [j \in 1..k |-> g[j]] = [j \in 1..k |-> h[j]]
  OBVIOUS
<1>2. QED
  BY <1>1 DEF UpTo
=============================================================================
