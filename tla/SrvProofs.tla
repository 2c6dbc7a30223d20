----------------------------- MODULE SrvProofs -----------------------------
(***************************************************************************)
(* Proofs about Srv, for every domain and whatever its lookups answer: any  *)
(* number of records and links, of any hosts, ports, priorities and weights.*)
(***************************************************************************)
EXTENDS Srv, SequenceTheorems, WellFoundedInduction, TLAPS

-----------------------------------------------------------------------------
(* Folds over sequences, and a sort made of insertions.  Induction is by    *)
(* the least counterexample, so that every lemma quantifies over sets and   *)
(* functions only.                                                          *)

\* A set of naturals that is not empty has a least element.
LEMMA Least ==
    ASSUME NEW S, S \subseteq Nat, S # {}
    PROVE  \E m \in S : \A k \in S : m <= k
  <1> DEFINE R == OpToRel(<, Nat)
  <1>1. IsWellFoundedOn(R, Nat)
    BY NatLessThanWellFounded
  <1>2. R = {ss \in Nat \X Nat : ss[1] < ss[2]}
    BY DEF OpToRel
  <1> HIDE DEF R
  <1>3. PICK m \in S : \A k \in S : ~(<<k, m>> \in R)
    BY <1>1, WFMin
  <1>4. \A k \in Nat, l \in Nat : k < l => <<k, l>> \in R
    BY <1>2
  <1>5. \A k \in S : k \in Nat /\ m \in Nat /\ ~(k < m)
    BY <1>3, <1>4
  <1> QED
    BY <1>5

\* Induction up to N.
LEMMA UpTo ==
    ASSUME NEW N \in Nat, NEW T, 0 \in T, \A i \in 0..(N - 1) : i \in T => i + 1 \in T
    PROVE  0..N \subseteq T
  <1> SUFFICES ASSUME NEW j \in 0..N, j \notin T
               PROVE  FALSE
    OBVIOUS
  <1> DEFINE S == {k \in 0..N : k \notin T}
  <1>1. PICK m \in S : \A k \in S : m <= k
    <2>1. S \subseteq Nat /\ S # {}
      OBVIOUS
    <2> QED
      BY <2>1, Least
  <1>2. m # 0 /\ m - 1 \in 0..(N - 1)
    BY <1>1
  <1>3. m - 1 \in T
    BY <1>1, <1>2
  <1> QED
    BY <1>1, <1>2, <1>3

\* The maximum of a set of positions.
LEMMA MaxIs ==
    ASSUME NEW n \in Nat, NEW S, S \subseteq 0..n, S # {}
    PROVE  Max(S) \in S /\ \A k \in S : k <= Max(S)
  <1> DEFINE D == {d \in 0..n : n - d \in S}
  <1>0. \A k \in S : n - k \in D /\ k \in 0..n
    <2> TAKE k \in S
    <2> DEFINE d == n - k
    <2>1. d \in 0..n /\ n - d = k
      OBVIOUS
    <2>2. n - d \in S
      BY <2>1
    <2> HIDE DEF d
    <2>3. d \in D
      BY <2>1, <2>2
    <2> QED
      BY <2>3 DEF d
  <1>1. \A d \in D : d \in Nat /\ n - d \in S
    OBVIOUS
  <1> HIDE DEF D
  <1>2. D \subseteq Nat /\ D # {}
    BY <1>0, <1>1
  <1>3. PICK d \in D : \A e \in D : d <= e
    BY <1>2, Least
  <1>4. PICK k \in S : k = n - d
    BY <1>1, <1>3
  <1>5. \A j \in S : k >= j
    BY <1>0, <1>1, <1>3, <1>4
  <1> QED
    BY <1>0, <1>5 DEF Max

\* MapThenFoldSet's recursion, taking the greatest position first.
IsFold(f, n, base, step) ==
    f = [s \in SUBSET (1..n) |-> IF s = {} THEN base ELSE step[Max(s)][f[s \ {Max(s)}]]]

\* The function exists that FoldLeft is defined by, where step[i] is what the
\* i-th element does to the value so far.
LEMMA FoldExists ==
    ASSUME NEW N \in Nat, NEW A, NEW base \in A, NEW step \in [1..N -> [A -> A]]
    PROVE  \E f \in [SUBSET (1..N) -> A] : IsFold(f, N, base, step)
  <1> DEFINE Is(n, f) == f = [s \in SUBSET (1..n) |-> IF s = {} THEN base
                                           ELSE step[Max(s)][f[s \ {Max(s)}]]]
             T == {n \in 0..N : \E f \in [SUBSET (1..n) -> A] : Is(n, f)}
  <1>1. 0 \in T
    <2> DEFINE f0 == [s \in SUBSET (1..0) |-> base]
    <2>1. Is(0, f0) /\ f0 \in [SUBSET (1..0) -> A]
      OBVIOUS
    <2> QED
      BY <2>1
  <1>2. ASSUME NEW n \in 0..(N - 1), n \in T
        PROVE  n + 1 \in T
    <2>1. PICK f \in [SUBSET (1..n) -> A] : Is(n, f)
      BY <1>2
    <2> DEFINE g == [s \in SUBSET (1..(n + 1)) |->
                       IF n + 1 \in s THEN step[n + 1][f[s \ {n + 1}]] ELSE f[s]]
    <2>2. \A s \in SUBSET (1..(n + 1)) :
             /\ s \ {n + 1} \in SUBSET (1..n)
             /\ n + 1 \notin s => s \in SUBSET (1..n)
             /\ n + 1 \in s => Max(s) = n + 1
      <3> SUFFICES ASSUME NEW s \in SUBSET (1..(n + 1))
                   PROVE  /\ s \ {n + 1} \in SUBSET (1..n)
                          /\ n + 1 \notin s => s \in SUBSET (1..n)
                          /\ n + 1 \in s => Max(s) = n + 1
        OBVIOUS
      <3>1. s # {} => Max(s) \in s /\ \A k \in s : k <= Max(s)
        <4>1. n + 1 \in Nat /\ s \subseteq 0..(n + 1)
          OBVIOUS
        <4> QED
          BY <4>1, MaxIs
      <3>2. \A k \in s : k \in 1..(n + 1) /\ (k # n + 1 => k \in 1..n)
        OBVIOUS
      <3>3. ASSUME n + 1 \in s
            PROVE  Max(s) = n + 1
        <4>1. Max(s) \in 1..(n + 1) /\ n + 1 <= Max(s)
          BY <3>1, <3>2, <3>3
        <4> QED
          BY <4>1
      <3> QED
        BY <3>2, <3>3
    <2>3. g \in [SUBSET (1..(n + 1)) -> A]
      BY <2>2
    <2>4. ASSUME NEW s \in SUBSET (1..(n + 1))
          PROVE  g[s] = IF s = {} THEN base ELSE step[Max(s)][g[s \ {Max(s)}]]
      <3>1. CASE n + 1 \in s
        <4>1. g[s \ {n + 1}] = f[s \ {n + 1}]
          BY <2>2
        <4> QED
          BY <2>2, <3>1, <4>1
      <3>2. CASE n + 1 \notin s
        <4>1. s \in SUBSET (1..n) /\ s \ {Max(s)} \in SUBSET (1..n)
              /\ n + 1 \notin s \ {Max(s)} /\ s \ {Max(s)} \in SUBSET (1..(n + 1))
          BY <2>2, <3>2
        <4>2. f[s] = IF s = {} THEN base ELSE step[Max(s)][f[s \ {Max(s)}]]
          BY <2>1, <4>1
        <4> QED
          BY <3>2, <4>1, <4>2
      <3> QED
        BY <3>1, <3>2
    <2>5. Is(n + 1, g)
      BY <2>4
    <2>6. n + 1 \in 0..N
      OBVIOUS
    <2> HIDE DEF g, Is
    <2> QED
      BY <2>3, <2>5, <2>6
  <1>3. N \in T
    <2> HIDE DEF T
    <2>1. 0..N \subseteq T
      BY <1>1, <1>2, UpTo
    <2> QED
      BY <2>1
  <1> QED
    BY <1>3 DEF IsFold

\* The last of the first i positions.
LEMMA UpToIs ==
    ASSUME NEW i \in Nat \ {0}
    PROVE  /\ 1..i # {} /\ Max(1..i) = i /\ (1..i) \ {i} = 1..(i - 1)
           /\ 1..(i - 1) \in SUBSET (1..i)
  <1>1. Max(1..i) \in 1..i /\ \A k \in 1..i : k <= Max(1..i)
    <2>1. 1..i \subseteq 0..i /\ 1..i # {} /\ i \in Nat
      OBVIOUS
    <2> QED
      BY <2>1, MaxIs
  <1>2. i \in 1..i
    OBVIOUS
  <1>3. Max(1..i) = i
    BY <1>1, <1>2
  <1> QED
    BY <1>2, <1>3

\* The values after each element in turn.
IsRun(acc, N, base, step) ==
    acc[0] = base /\ \A i \in 1..N : acc[i] = step[i][acc[i - 1]]

\* What is known of that function where the value so far is in A.
Follows(F, N, A, base, step) ==
    /\ F[{}] = base
    /\ \A i \in 1..N : F[1..(i - 1)] \in A => F[1..i] = step[i][F[1..(i - 1)]]

\* A fold is the last of the values after each element.
LEMMA Unrolls ==
    ASSUME NEW N \in Nat, NEW A, NEW base \in A, NEW step \in [1..N -> [A -> A]], NEW F,
           Follows(F, N, A, base, step)
    PROVE  \E acc \in [0..N -> A] : IsRun(acc, N, base, step) /\ acc[N] = F[1..N]
  <1> DEFINE T == {i \in 0..N : F[1..i] \in A}
             acc == [i \in 0..N |-> F[1..i]]
  <1> USE DEF Follows
  <1>1. 1..0 = {}
    OBVIOUS
  <1>2. 0 \in T
    BY <1>1
  <1>3. ASSUME NEW i \in 0..(N - 1), i \in T
        PROVE  i + 1 \in T
    <2>1. i + 1 \in 1..N /\ i + 1 \in 0..N /\ (i + 1) - 1 = i
      OBVIOUS
    <2>2. F[1..(i + 1)] = step[i + 1][F[1..i]]
      BY <1>3, <2>1
    <2> QED
      BY <1>3, <2>1, <2>2
  <1>4. 0..N \subseteq T
    <2> HIDE DEF T
    <2> QED
      BY <1>2, <1>3, UpTo
  <1>5. acc \in [0..N -> A]
    BY <1>4
  <1>6. ASSUME NEW i \in 1..N
        PROVE  acc[i] = step[i][acc[i - 1]]
    <2>1. i \in 0..N /\ i - 1 \in 0..N
      OBVIOUS
    <2> QED
      BY <1>4, <2>1
  <1>7. acc[0] = base /\ acc[N] = F[1..N]
    BY <1>1
  <1> HIDE DEF acc
  <1> QED
    BY <1>5, <1>6, <1>7 DEF IsRun

-----------------------------------------------------------------------------
(* A sort made of insertions.                                               *)

\* x put behind the first p elements of t.
Ins(t, x, p) == SubSeq(t, 1, p) \o <<x>> \o SubSeq(t, p + 1, Len(t))

\* Where an element inserted goes, and where the others do.
Inserted(r, t, x, p) ==
    /\ Len(r) = Len(t) + 1
    /\ \A i \in 1..p : r[i] = t[i]
    /\ r[p + 1] = x
    /\ \A i \in (p + 1)..Len(t) : r[i + 1] = t[i]

\* An insertion makes a sequence of the same kind, longer by one.
LEMMA InsIs ==
    ASSUME NEW C, NEW t \in Seq(C), NEW x \in C, NEW p \in 0..Len(t)
    PROVE  Ins(t, x, p) \in Seq(C) /\ Inserted(Ins(t, x, p), t, x, p)
  <1> DEFINE a == SubSeq(t, 1, p)
             b == SubSeq(t, p + 1, Len(t))
             c == a \o <<x>>
  <1>0. Len(t) \in Nat /\ p \in Nat
    BY LenProperties
  <1>1. a \in Seq(C) /\ Len(a) = p /\ \A i \in 1..p : a[i] = t[i]
    BY SubSeqProperties
  <1>2. b \in Seq(C) /\ Len(b) = Len(t) - p /\ \A i \in 1..(Len(t) - p) : b[i] = t[p + i]
    BY SubSeqProperties
  <1> HIDE DEF a, b
  <1>3. <<x>> \in Seq(C) /\ Len(<<x>>) = 1 /\ <<x>>[1] = x
    OBVIOUS
  <1>4. c \in Seq(C) /\ Len(c) = p + 1 /\ \A i \in 1..(p + 1) : c[i] = IF i <= p THEN t[i] ELSE x
    BY <1>1, <1>3, ConcatProperties
  <1> HIDE DEF c
  <1>5. Ins(t, x, p) = c \o b
    BY DEF Ins, a, b, c
  <1>6. c \o b \in Seq(C) /\ Len(c \o b) = Len(t) + 1
    BY <1>2, <1>4, ConcatProperties
  <1>7. \A i \in 1..(p + 1) : (c \o b)[i] = IF i <= p THEN t[i] ELSE x
    BY <1>2, <1>4, <1>0, ConcatProperties
  <1>8. ASSUME NEW i \in (p + 1)..Len(t)
        PROVE  (c \o b)[i + 1] = t[i]
    <2>1. i + 1 > Len(c) /\ i + 1 \in 1..(Len(c) + Len(b)) /\ (i + 1) - Len(c) = i - p
      BY <1>0, <1>2, <1>4
    <2>2. (c \o b)[i + 1] = b[i - p]
      BY <1>2, <1>4, <2>1, ConcatProperties
    <2>3. i - p \in 1..(Len(t) - p) /\ p + (i - p) = i
      BY <1>0
    <2> QED
      BY <1>2, <2>2, <2>3
  <1>9. p + 1 \in 1..(p + 1) /\ ~(p + 1 <= p) /\ \A i \in 1..p : i \in 1..(p + 1) /\ i <= p
    BY <1>0
  <1> QED
    BY <1>5, <1>6, <1>7, <1>8, <1>9 DEF Inserted

\* The positions behind an insertion at p.
LEMMA Positions ==
    ASSUME NEW n \in Nat, NEW p \in 0..n, NEW j \in 1..(n + 1)
    PROVE  j \in 1..p \/ j = p + 1 \/ \E i \in (p + 1)..n : j = i + 1
  <1>1. CASE j > p + 1
    <2>1. j - 1 \in (p + 1)..n /\ j = (j - 1) + 1
      BY <1>1
    <2> QED
      BY <2>1
  <1> QED
    BY <1>1

\* The last position in G up to n, or 0.
LEMMA LastOf ==
    ASSUME NEW n \in Nat, NEW G, G \subseteq 1..n
    PROVE  /\ Max({0} \union G) \in 0..n
           /\ Max({0} \union G) # 0 => Max({0} \union G) \in G
           /\ \A k \in (Max({0} \union G) + 1)..n : k \notin G
  <1> DEFINE H == {0} \union G
  <1>1. H # {} /\ H \subseteq 0..n
    OBVIOUS
  <1> HIDE DEF H
  <1>2. Max(H) \in H /\ \A k \in H : k <= Max(H)
    BY <1>1, MaxIs
  <1>3. Max(H) \in 0..n /\ (Max(H) # 0 => Max(H) \in G)
    BY <1>1, <1>2 DEF H
  <1>4. ASSUME NEW k \in (Max(H) + 1)..n
        PROVE  k \notin G
    <2>1. ~(k <= Max(H))
      BY <1>3
    <2> QED
      BY <1>2, <2>1 DEF H
  <1> QED
    BY <1>3, <1>4 DEF H

\* r is s[1], ..., s[n] in another order.
Permutes(r, s, n) ==
    /\ Len(r) = n
    /\ \E q \in [1..n -> 1..n] :
          /\ \A j \in 1..n, k \in 1..n : q[j] = q[k] => j = k
          /\ \A m \in 1..n : \E j \in 1..n : q[j] = m
          /\ \A j \in 1..n : r[j] = s[q[j]]

\* Every element stands in LE to those behind it.
Ordered(r, LE) == \A j \in 1..Len(r), k \in 1..Len(r) : j < k => <<r[j], r[k]>> \in LE

\* An element is put behind one it does not precede, or in front, and before
\* those it precedes.
Fits(t, x, p, LE) ==
    /\ p # 0 => <<t[p], x>> \in LE
    /\ \A k \in (p + 1)..Len(t) : <<x, t[k]>> \in LE

\* Inserting the next element of s keeps a permutation of the elements so far.
LEMMA InsPermutes ==
    ASSUME NEW C, NEW s \in Seq(C), NEW n \in 0..(Len(s) - 1), NEW t \in Seq(C),
           Permutes(t, s, n), NEW p \in 0..n
    PROVE  Permutes(Ins(t, s[n + 1], p), s, n + 1)
  <1>0. Len(s) \in Nat /\ n \in Nat /\ p \in Nat /\ Len(t) = n /\ s[n + 1] \in C
    BY LenProperties, ElementOfSeq DEF Permutes
  <1>1. PICK q \in [1..n -> 1..n] :
          /\ \A j \in 1..n, k \in 1..n : q[j] = q[k] => j = k
          /\ \A m \in 1..n : \E j \in 1..n : q[j] = m
          /\ \A j \in 1..n : t[j] = s[q[j]]
    BY DEF Permutes
  <1> DEFINE r == Ins(t, s[n + 1], p)
             w == [j \in 1..(n + 1) |-> IF j <= p THEN q[j] ELSE IF j = p + 1 THEN n + 1
                                        ELSE q[j - 1]]
  <1>2. /\ Len(r) = n + 1
        /\ \A i \in 1..p : r[i] = t[i]
        /\ r[p + 1] = s[n + 1]
        /\ \A i \in (p + 1)..n : r[i + 1] = t[i]
    <2>1. p \in 0..Len(t)
      BY <1>0
    <2>2. Inserted(r, t, s[n + 1], p)
      BY <1>0, <2>1, InsIs
    <2> QED
      BY <1>0, <2>2 DEF Inserted
  <1>3. /\ \A i \in 1..p : w[i] = q[i] /\ i \in 1..n /\ i \in 1..(n + 1)
        /\ w[p + 1] = n + 1 /\ p + 1 \in 1..(n + 1)
    BY <1>0
  <1>4. ASSUME NEW i \in (p + 1)..n
        PROVE  w[i + 1] = q[i] /\ i \in 1..n /\ i + 1 \in 1..(n + 1)
    <2>1. i + 1 \in 1..(n + 1) /\ ~(i + 1 <= p) /\ i + 1 # p + 1 /\ (i + 1) - 1 = i /\ i \in 1..n
      BY <1>0
    <2> QED
      BY <2>1
  <1>5. \A j \in 1..(n + 1) : j \in 1..p \/ j = p + 1 \/ \E i \in (p + 1)..n : j = i + 1
    BY <1>0, Positions
  <1> HIDE DEF r, w
  <1>6. \A i \in 1..n : q[i] \in 1..n /\ q[i] # n + 1 /\ q[i] \in 1..(n + 1) /\ i # 0
    BY <1>0
  <1>7. \A j \in 1..(n + 1) : w[j] \in 1..(n + 1) /\ r[j] = s[w[j]]
    <2>1. \A i \in 1..p : w[i] \in 1..(n + 1) /\ r[i] = s[w[i]]
      BY <1>1, <1>2, <1>3, <1>6
    <2>2. w[p + 1] \in 1..(n + 1) /\ r[p + 1] = s[w[p + 1]]
      BY <1>0, <1>2, <1>3
    <2>3. ASSUME NEW i \in (p + 1)..n
          PROVE  w[i + 1] \in 1..(n + 1) /\ r[i + 1] = s[w[i + 1]]
      <3>1. w[i + 1] = q[i] /\ i \in 1..n /\ r[i + 1] = t[i]
        BY <1>2, <1>4
      <3> QED
        BY <1>1, <1>6, <3>1
    <2> QED
      BY <1>5, <2>1, <2>2, <2>3
  <1>8. ASSUME NEW j \in 1..(n + 1), NEW k \in 1..(n + 1), w[j] = w[k]
        PROVE  j = k
    <2>1. \A a \in 1..p, b \in (p + 1)..n : a # b
      BY <1>0
    <2>2. \A a \in 1..p : w[a] # w[p + 1] /\ \A b \in 1..p : w[a] = w[b] => a = b
      <3> TAKE a \in 1..p
      <3>1. a \in 1..n /\ w[a] = q[a] /\ q[a] # n + 1 /\ w[p + 1] = n + 1
        BY <1>3, <1>6
      <3>2. ASSUME NEW b \in 1..p, w[a] = w[b]
            PROVE  a = b
        <4>1. b \in 1..n /\ q[a] = q[b]
          BY <1>3, <3>1, <3>2
        <4> QED
          BY <1>1, <3>1, <4>1
      <3> QED
        BY <3>1, <3>2
    <2>3. ASSUME NEW a \in (p + 1)..n, NEW b \in (p + 1)..n
          PROVE  w[a + 1] # w[p + 1] /\ (w[a + 1] = w[b + 1] => a = b)
      <3>1. w[a + 1] = q[a] /\ a \in 1..n /\ w[b + 1] = q[b] /\ b \in 1..n
        BY <1>4
      <3>2. q[a] # n + 1 /\ (q[a] = q[b] => a = b)
        BY <1>1, <1>6, <3>1
      <3> QED
        BY <1>3, <3>1, <3>2
    <2>4. ASSUME NEW a \in 1..p, NEW b \in (p + 1)..n
          PROVE  w[a] # w[b + 1]
      <3>1. w[a] = q[a] /\ a \in 1..n /\ w[b + 1] = q[b] /\ b \in 1..n
        BY <1>3, <1>4
      <3> QED
        BY <1>1, <2>1, <3>1
    <2>5. CASE j \in 1..p
      BY <1>5, <1>8, <2>2, <2>4, <2>5
    <2>6. CASE j = p + 1
      BY <1>5, <1>8, <2>2, <2>3, <2>6
    <2>7. ASSUME NEW a \in (p + 1)..n, j = a + 1
          PROVE  j = k
      <3>1. k \notin 1..p /\ k # p + 1
        BY <1>8, <2>2, <2>3, <2>4, <2>7
      <3>2. PICK b \in (p + 1)..n : k = b + 1
        BY <1>5, <3>1
      <3> QED
        BY <1>8, <2>3, <2>7, <3>2
    <2> QED
      BY <1>5, <2>5, <2>6, <2>7
  <1>9. ASSUME NEW m \in 1..(n + 1)
        PROVE  \E j \in 1..(n + 1) : w[j] = m
    <2>1. m = n + 1 \/ m \in 1..n
      BY <1>0
    <2>2. ASSUME m \in 1..n
          PROVE  \E j \in 1..(n + 1) : w[j] = m
      <3>1. PICK i \in 1..n : q[i] = m
        BY <1>1, <2>2
      <3>2. i \in 1..p \/ i \in (p + 1)..n
        BY <1>0
      <3> QED
        BY <1>3, <1>4, <3>1, <3>2
    <2> QED
      BY <1>3, <2>1, <2>2
  <1>10. w \in [1..(n + 1) -> 1..(n + 1)]
    BY <1>7 DEF w
  <1>11. \E v \in [1..(n + 1) -> 1..(n + 1)] :
          /\ \A j \in 1..(n + 1), k \in 1..(n + 1) : v[j] = v[k] => j = k
          /\ \A m \in 1..(n + 1) : \E j \in 1..(n + 1) : v[j] = m
          /\ \A j \in 1..(n + 1) : r[j] = s[v[j]]
    BY <1>7, <1>8, <1>9, <1>10
  <1> QED
    BY <1>2, <1>11 DEF Permutes, r

\* Inserting an element where it fits keeps a sequence ordered.
LEMMA InsOrdered ==
    ASSUME NEW C, NEW LE, NEW t \in Seq(C), NEW x \in C, NEW p \in 0..Len(t),
           \A a \in C, b \in C, c \in C : <<a, b>> \in LE /\ <<b, c>> \in LE => <<a, c>> \in LE,
           Ordered(t, LE), Fits(t, x, p, LE)
    PROVE  Ordered(Ins(t, x, p), LE)
  <1> DEFINE r == Ins(t, x, p)
             n == Len(t)
  <1>0. n \in Nat /\ p \in 0..n /\ \A i \in 1..n : t[i] \in C
    BY LenProperties, ElementOfSeq
  <1>1. /\ Len(r) = n + 1
        /\ \A i \in 1..p : r[i] = t[i]
        /\ r[p + 1] = x
        /\ \A i \in (p + 1)..n : r[i + 1] = t[i]
    <2>1. Inserted(r, t, x, p)
      BY InsIs
    <2> HIDE DEF r
    <2> QED
      BY <2>1 DEF Inserted
  <1>2. \A a \in 1..n, b \in 1..n : a < b => <<t[a], t[b]>> \in LE
    BY DEF Ordered
  <1>3. (p # 0 => <<t[p], x>> \in LE) /\ \A k \in (p + 1)..n : <<x, t[k]>> \in LE
    BY DEF Fits
  <1> HIDE DEF r, n
  <1>4. ASSUME NEW i \in 1..p
        PROVE  i \in 1..n /\ <<t[i], x>> \in LE
    <2>1. i \in 1..n /\ p \in 1..n /\ p # 0 /\ (i = p \/ i < p)
      BY <1>0
    <2> QED
      BY <1>0, <1>2, <1>3, <2>1
  <1>5. \A i \in (p + 1)..n : i \in 1..n
    BY <1>0
  <1>6. ASSUME NEW j \in 1..(n + 1), NEW k \in 1..(n + 1), j < k
        PROVE  <<r[j], r[k]>> \in LE
    <2>1. j \in 1..p \/ j = p + 1 \/ \E i \in (p + 1)..n : j = i + 1
      BY <1>0, Positions
    <2>2. k \in 1..p \/ k = p + 1 \/ \E i \in (p + 1)..n : k = i + 1
      BY <1>0, Positions
    <2>3. CASE k \in 1..p
      <3>1. j \in 1..p
        BY <1>0, <1>6, <2>3
      <3> QED
        BY <1>1, <1>2, <1>4, <1>6, <2>3, <3>1
    <2>4. CASE k = p + 1
      <3>1. j \in 1..p
        BY <1>0, <1>6, <2>4
      <3> QED
        BY <1>1, <1>4, <2>4, <3>1
    <2>5. ASSUME NEW i \in (p + 1)..n, k = i + 1
          PROVE  <<r[j], r[k]>> \in LE
      <3>1. r[k] = t[i] /\ <<x, t[i]>> \in LE /\ i \in 1..n
        BY <1>1, <1>3, <1>5, <2>5
      <3>2. CASE j \in 1..p
        BY <1>0, <1>1, <1>4, <3>1, <3>2
      <3>3. CASE j = p + 1
        BY <1>1, <3>1, <3>3
      <3>4. ASSUME NEW h \in (p + 1)..n, j = h + 1
            PROVE  <<r[j], r[k]>> \in LE
        <4>1. h < i
          BY <1>0, <1>6, <2>5, <3>4
        <4> QED
          BY <1>1, <1>2, <1>5, <3>1, <3>4, <4>1
      <3> QED
        BY <2>1, <3>2, <3>3, <3>4
    <2> QED
      BY <2>2, <2>3, <2>4, <2>5
  <1> QED
    BY <1>1, <1>6 DEF Ordered, r, n

\* The values of a sort: each is the one before with the next element put in.
Sorts(acc, s, LE) ==
    /\ acc[0] = <<>>
    /\ \A i \in 1..Len(s) : \E p \in 0..Len(acc[i - 1]) :
          acc[i] = Ins(acc[i - 1], s[i], p) /\ Fits(acc[i - 1], s[i], p, LE)

\* Where LE is transitive, the last of them is s in order.
LEMMA SortIs ==
    ASSUME NEW C, NEW LE, NEW s \in Seq(C), NEW acc \in [0..Len(s) -> Seq(C)],
           \A a \in C, b \in C, c \in C : <<a, b>> \in LE /\ <<b, c>> \in LE => <<a, c>> \in LE,
           Sorts(acc, s, LE)
    PROVE  /\ acc[Len(s)] \in Seq(C)
           /\ Permutes(acc[Len(s)], s, Len(s))
           /\ Ordered(acc[Len(s)], LE)
  <1> DEFINE N == Len(s)
             T == {i \in 0..N : Permutes(acc[i], s, i) /\ Ordered(acc[i], LE)}
  <1>0. N \in Nat
    BY LenProperties
  <1>1. 0 \in T
    <2>1. Len(acc[0]) = 0 /\ 1..0 = {}
      BY DEF Sorts
    <2>2. \E q \in [1..0 -> 1..0] : TRUE
      <3>1. [j \in 1..0 |-> j] \in [1..0 -> 1..0]
        OBVIOUS
      <3> QED
        BY <3>1
    <2>3. Permutes(acc[0], s, 0)
      BY <2>1, <2>2 DEF Permutes
    <2>4. Ordered(acc[0], LE)
      BY <2>1 DEF Ordered
    <2> QED
      BY <1>0, <2>3, <2>4
  <1>2. ASSUME NEW i \in 0..(N - 1), i \in T
        PROVE  i + 1 \in T
    <2>1. i + 1 \in 1..N /\ (i + 1) - 1 = i /\ i \in 0..N /\ i + 1 \in 0..N
      BY <1>0
    <2> DEFINE t == acc[i]
    <2>2. t \in Seq(C) /\ s[i + 1] \in C /\ Permutes(t, s, i) /\ Ordered(t, LE)
      BY <1>2, <2>1, ElementOfSeq
    <2>3. PICK p \in 0..Len(t) : acc[i + 1] = Ins(t, s[i + 1], p) /\ Fits(t, s[i + 1], p, LE)
      BY <2>1 DEF Sorts
    <2> HIDE DEF t
    <2>4. p \in 0..i
      BY <2>2 DEF Permutes
    <2>5. Permutes(acc[i + 1], s, i + 1)
      BY <2>2, <2>3, <2>4, InsPermutes
    <2>6. Ordered(acc[i + 1], LE)
      BY <2>2, <2>3, InsOrdered
    <2> QED
      BY <2>1, <2>5, <2>6
  <1>3. N \in T
    <2> HIDE DEF T
    <2>1. 0..N \subseteq T
      BY <1>0, <1>1, <1>2, UpTo
    <2> QED
      BY <1>0, <2>1
  <1>4. acc[N] \in Seq(C)
    BY <1>0
  <1> QED
    BY <1>3, <1>4

-----------------------------------------------------------------------------
\* What is flattened out of sequences over C is one.
LEMMA FlattenIs ==
    ASSUME NEW C, NEW ss \in Seq(Seq(C))
    PROVE  FlattenSeq(ss) \in Seq(C)
  <1> DEFINE N == Len(ss)
             Is(f) == f = [i \in 1..N |-> IF i = 1 THEN ss[i] ELSE f[i - 1] \o ss[i]]
             F == CHOOSE f : Is(f)
             On(i, g) == \A k \in 1..i : g[k] = IF k = 1 THEN ss[k] ELSE g[k - 1] \o ss[k]
             T == {i \in 0..N : \E g \in [1..i -> Seq(C)] : On(i, g)}
  <1>0. N \in Nat /\ \A i \in 1..N : ss[i] \in Seq(C)
    BY LenProperties, ElementOfSeq
  <1>1. 0 \in T
    <2> DEFINE e == [k \in 1..0 |-> <<>>]
    <2>1. e \in [1..0 -> Seq(C)]
      OBVIOUS
    <2> HIDE DEF e
    <2>2. On(0, e) /\ 0 \in 0..N
      BY <1>0
    <2> HIDE DEF On
    <2> QED
      BY <2>1, <2>2
  <1>2. ASSUME NEW i \in 0..(N - 1), i \in T
        PROVE  i + 1 \in T
    <2>1. PICK g \in [1..i -> Seq(C)] :
             \A k \in 1..i : g[k] = IF k = 1 THEN ss[k] ELSE g[k - 1] \o ss[k]
      BY <1>2
    <2> DEFINE h == [k \in 1..(i + 1) |-> IF k <= i THEN g[k]
                       ELSE IF k = 1 THEN ss[k] ELSE g[i] \o ss[k]]
    <2>2. \A k \in 1..(i + 1) : h[k] \in Seq(C)
      BY <1>0, ConcatProperties
    <2>3. ASSUME NEW k \in 1..(i + 1)
          PROVE  h[k] = IF k = 1 THEN ss[k] ELSE h[k - 1] \o ss[k]
      <3>1. CASE k = i + 1
        <4>1. k # 1 => h[k - 1] = g[i] /\ k - 1 = i
          BY <3>1
        <4>2. h[k] = IF k = 1 THEN ss[k] ELSE g[i] \o ss[k]
          BY <3>1
        <4> QED
          BY <4>1, <4>2
      <3>2. CASE k \in 1..i
        <4>1. h[k] = g[k] /\ (k # 1 => h[k - 1] = g[k - 1])
          BY <3>2
        <4> QED
          BY <2>1, <3>2, <4>1
      <3>3. k = i + 1 \/ k \in 1..i
        OBVIOUS
      <3> QED
        BY <3>1, <3>2, <3>3
    <2>4. h \in [1..(i + 1) -> Seq(C)] /\ i + 1 \in 0..N
      BY <1>0, <2>2
    <2> HIDE DEF h
    <2> QED
      BY <2>3, <2>4
  <1>3. N \in T
    <2> HIDE DEF T
    <2>1. 0..N \subseteq T
      BY <1>0, <1>1, <1>2, UpTo
    <2> QED
      BY <1>0, <2>1
  <1>4. Is(F)
    <2>1. PICK g \in [1..N -> Seq(C)] :
             \A k \in 1..N : g[k] = IF k = 1 THEN ss[k] ELSE g[k - 1] \o ss[k]
      BY <1>3
    <2>2. Is(g)
      BY <2>1
    <2> QED
      BY <2>2
  <1> HIDE DEF F
  <1> DEFINE U == {i \in 0..N : i # 0 => F[i] \in Seq(C)}
  <1>5. 0 \in U
    BY <1>0
  <1>6. ASSUME NEW i \in 0..(N - 1), i \in U
        PROVE  i + 1 \in U
    <2>1. i + 1 \in 1..N /\ (i + 1) - 1 = i
      BY <1>0
    <2>2. F[i + 1] = IF i + 1 = 1 THEN ss[i + 1] ELSE F[i] \o ss[i + 1]
      BY <1>4, <2>1
    <2>3. i + 1 # 1 => F[i] \in Seq(C)
      BY <1>6
    <2>4. F[i + 1] \in Seq(C)
      BY <1>0, <2>1, <2>2, <2>3, ConcatProperties
    <2> QED
      BY <2>1, <2>4
  <1>7. N \in U
    <2> HIDE DEF U
    <2>1. 0..N \subseteq U
      BY <1>0, <1>5, <1>6, UpTo
    <2> QED
      BY <1>0, <2>1
  <1>8. CASE N = 0
    <2>1. ss = <<>>
      BY <1>8, EmptySeq
    <2> QED
      BY <1>8, <2>1 DEF FlattenSeq
  <1>9. CASE N # 0
    <2>1. FlattenSeq(ss) = F[N]
      BY <1>9 DEF FlattenSeq, F
    <2> QED
      BY <1>7, <1>9, <2>1
  <1> QED
    BY <1>8, <1>9

-----------------------------------------------------------------------------
(* The connections.                                                         *)

\* What the lookups' answers turn into.
Sources == {"json", "xml", "txt", "starttls", "direct", "quic", "default"}
Connection == [type : Types, url : Nat, port : U16, target : Nat, secure : BOOLEAN,
               priority : U16, weight : U16, src : Sources]

\* The keys by which Less is a total preorder, without the last comparison.
Rank(c) == <<Idx(c), c.url, c.port, c.target, IF c.secure THEN 0 ELSE 1, c.priority>>
RankLE == {cc \in Connection \X Connection : ~Lexical(Rank(cc[2]), Rank(cc[1]))}
BeforeLE == {cc \in Connection \X Connection : ~Before(cc[2], cc[1])}

-----------------------------------------------------------------------------
(* The orders.                                                              *)

\* Lexical on three keys.
LEMMA Lexical3 ==
    ASSUME NEW a1 \in Int, NEW a2 \in Int, NEW a3 \in Int,
           NEW b1 \in Int, NEW b2 \in Int, NEW b3 \in Int
    PROVE  Lexical(<<a1, a2, a3>>, <<b1, b2, b3>>)
             <=> a1 < b1 \/ (a1 = b1 /\ (a2 < b2 \/ (a2 = b2 /\ a3 < b3)))
  <1> DEFINE a == <<a1, a2, a3>>
             b == <<b1, b2, b3>>
             P(i) == a[i] < b[i] /\ \A j \in 1..(i - 1) : a[j] = b[j]
  <1>1. DOMAIN a = 1..3 /\ a[1] = a1 /\ a[2] = a2 /\ a[3] = a3 /\ b[1] = b1 /\ b[2] = b2 /\ b[3] = b3
    OBVIOUS
  <1>2. Lexical(a, b) <=> \E i \in 1..3 : P(i)
    BY <1>1 DEF Lexical
  <1>3. 1..3 = {1, 2, 3} /\ 1..(1 - 1) = {} /\ 1..(2 - 1) = {1} /\ 1..(3 - 1) = {1, 2}
    OBVIOUS
  <1> HIDE DEF a, b
  <1>4. (P(1) <=> a1 < b1) /\ (P(2) <=> a2 < b2 /\ a1 = b1)
        /\ (P(3) <=> a3 < b3 /\ a1 = b1 /\ a2 = b2)
    BY <1>1, <1>3
  <1> HIDE DEF P
  <1>5. Lexical(a, b) <=> P(1) \/ P(2) \/ P(3)
    BY <1>2, <1>3
  <1> QED
    BY <1>4, <1>5 DEF a, b

\* The keys are numbers, and idx tells the kinds of connections apart.
LEMMA Keys ==
    ASSUME NEW c \in Connection
    PROVE  /\ Idx(c) \in Int /\ c.url \in Int /\ c.port \in Int /\ c.target \in Int
           /\ (IF c.secure THEN 0 ELSE 1) \in Int /\ c.priority \in Int /\ c.weight \in Int
           /\ c.secure \in BOOLEAN
           /\ \A d \in Connection : Idx(c) = Idx(d) <=> c.type = d.type
  <1>1. \A d \in Connection :
          /\ d.type \in Types
          /\ d.type = "QUIC" => Idx(d) = 0
          /\ d.type = "WebTransport" => Idx(d) = 1
          /\ d.type = "DirectTLS" => Idx(d) = 2
          /\ d.type = "StartTLS" => Idx(d) = 3
          /\ d.type = "WebSocket" => Idx(d) = 4
    BY DEF Connection, Idx, Types
  <1>2. Idx(c) \in Int /\ \A d \in Connection : Idx(c) = Idx(d) <=> c.type = d.type
    BY <1>1 DEF Types
  <1>3. /\ c.url \in Int /\ c.port \in Int /\ c.target \in Int /\ c.priority \in Int
        /\ c.weight \in Int
    <2>1. c.url \in Nat /\ c.port \in U16 /\ c.target \in Nat /\ c.priority \in U16 /\ c.weight \in U16
      BY DEF Connection
    <2>2. \A x \in U16 : x \in Int
      BY DEF U16
    <2>3. \A x \in Nat : x \in Int
      OBVIOUS
    <2> QED
      BY <2>1, <2>2, <2>3, Zenon
  <1>4. c.secure \in BOOLEAN
    BY DEF Connection
  <1> QED
    BY <1>2, <1>3, <1>4

\* Rank compared key by key.
RankLess(a, b) ==
    \/ Idx(a) < Idx(b)
    \/ Idx(a) = Idx(b) /\ a.url < b.url
    \/ Idx(a) = Idx(b) /\ a.url = b.url /\ a.port < b.port
    \/ Idx(a) = Idx(b) /\ a.url = b.url /\ a.port = b.port /\ a.target < b.target
    \/ Idx(a) = Idx(b) /\ a.url = b.url /\ a.port = b.port /\ a.target = b.target
         /\ a.secure /\ ~b.secure
    \/ Idx(a) = Idx(b) /\ a.url = b.url /\ a.port = b.port /\ a.target = b.target
         /\ a.secure = b.secure /\ a.priority < b.priority

\* Lexical on Rank is RankLess, and tells any two apart whose keys differ.
LEMMA RankIs ==
    ASSUME NEW a \in Connection, NEW b \in Connection
    PROVE  /\ Lexical(Rank(a), Rank(b)) <=> RankLess(a, b)
           /\ Rank(a) = Rank(b) => ~RankLess(a, b) /\ ~RankLess(b, a)
           /\ ~RankLess(a, b) /\ ~RankLess(b, a) => Rank(a) = Rank(b)
  <1> DEFINE sec(c) == IF c.secure THEN 0 ELSE 1
  <1>0. /\ Idx(a) \in Int /\ a.url \in Int /\ a.port \in Int /\ a.target \in Int
        /\ sec(a) \in Int /\ a.priority \in Int /\ a.secure \in BOOLEAN
        /\ Idx(b) \in Int /\ b.url \in Int /\ b.port \in Int /\ b.target \in Int
        /\ sec(b) \in Int /\ b.priority \in Int /\ b.secure \in BOOLEAN
    BY Keys
  <1>1. /\ sec(a) < sec(b) <=> a.secure /\ ~b.secure
        /\ sec(a) = sec(b) <=> (a.secure = b.secure)
        /\ sec(b) < sec(a) <=> b.secure /\ ~a.secure
    BY <1>0
  <1> HIDE DEF sec
  <1>2. /\ Rank(a) = <<Idx(a), a.url, a.port, a.target, sec(a), a.priority>>
        /\ Rank(b) = <<Idx(b), b.url, b.port, b.target, sec(b), b.priority>>
    BY DEF Rank, sec
  <1>3. Lexical(Rank(a), Rank(b)) <=>
             \/ Idx(a) < Idx(b)
             \/ Idx(a) = Idx(b) /\ a.url < b.url
             \/ Idx(a) = Idx(b) /\ a.url = b.url /\ a.port < b.port
             \/ Idx(a) = Idx(b) /\ a.url = b.url /\ a.port = b.port /\ a.target < b.target
             \/ Idx(a) = Idx(b) /\ a.url = b.url /\ a.port = b.port /\ a.target = b.target
                  /\ sec(a) < sec(b)
             \/ Idx(a) = Idx(b) /\ a.url = b.url /\ a.port = b.port /\ a.target = b.target
                  /\ sec(a) = sec(b) /\ a.priority < b.priority
    <2> DEFINE r == Rank(a)
               q == Rank(b)
               P(i) == r[i] < q[i] /\ \A j \in 1..(i - 1) : r[j] = q[j]
    <2>1. /\ DOMAIN r = 1..6
          /\ r[1] = Idx(a) /\ r[2] = a.url /\ r[3] = a.port /\ r[4] = a.target
          /\ r[5] = sec(a) /\ r[6] = a.priority
          /\ q[1] = Idx(b) /\ q[2] = b.url /\ q[3] = b.port /\ q[4] = b.target
          /\ q[5] = sec(b) /\ q[6] = b.priority
      BY <1>2
    <2>2. Lexical(r, q) <=> \E i \in 1..6 : P(i)
      BY <2>1 DEF Lexical
    <2>3. /\ 1..6 = {1, 2, 3, 4, 5, 6} /\ 1..(1 - 1) = {} /\ 1..(2 - 1) = {1}
          /\ 1..(3 - 1) = {1, 2} /\ 1..(4 - 1) = {1, 2, 3} /\ 1..(5 - 1) = {1, 2, 3, 4}
          /\ 1..(6 - 1) = {1, 2, 3, 4, 5}
      OBVIOUS
    <2> HIDE DEF r, q
    <2>4. /\ P(1) <=> Idx(a) < Idx(b)
          /\ P(2) <=> Idx(a) = Idx(b) /\ a.url < b.url
          /\ P(3) <=> Idx(a) = Idx(b) /\ a.url = b.url /\ a.port < b.port
          /\ P(4) <=> Idx(a) = Idx(b) /\ a.url = b.url /\ a.port = b.port /\ a.target < b.target
          /\ P(5) <=> Idx(a) = Idx(b) /\ a.url = b.url /\ a.port = b.port /\ a.target = b.target
                  /\ sec(a) < sec(b)
          /\ P(6) <=> Idx(a) = Idx(b) /\ a.url = b.url /\ a.port = b.port /\ a.target = b.target
                  /\ sec(a) = sec(b) /\ a.priority < b.priority
      BY <2>1, <2>3
    <2> HIDE DEF P
    <2>5. Lexical(r, q) <=> P(1) \/ P(2) \/ P(3) \/ P(4) \/ P(5) \/ P(6)
      BY <2>2, <2>3
    <2> QED
      BY <2>4, <2>5 DEF r, q
  <1>4. Lexical(Rank(a), Rank(b)) <=> RankLess(a, b)
    BY <1>1, <1>3 DEF RankLess
  <1>5. Rank(a) = Rank(b) <=> /\ Idx(a) = Idx(b) /\ a.url = b.url /\ a.port = b.port
                              /\ a.target = b.target /\ sec(a) = sec(b)
                              /\ a.priority = b.priority
    BY <1>2
  <1>6. Rank(a) = Rank(b) => ~RankLess(a, b) /\ ~RankLess(b, a)
    BY <1>0, <1>1, <1>5 DEF RankLess
  <1>7. ~RankLess(a, b) /\ ~RankLess(b, a) => Rank(a) = Rank(b)
    BY <1>0, <1>1, <1>5 DEF RankLess
  <1> QED
    BY <1>4, <1>6, <1>7

\* RankLess orders all connections, and keeps those of one place together.
LEMMA RankOrder ==
    ASSUME NEW a \in Connection, NEW b \in Connection, NEW c \in Connection
    PROVE  /\ ~RankLess(b, a) /\ ~RankLess(c, b) => ~RankLess(c, a)
           /\ ~RankLess(b, a) /\ ~RankLess(c, b) /\ Same(a, c) => Same(b, c)
           /\ ~RankLess(a, a) /\ (RankLess(a, b) => ~RankLess(b, a))
  <1>0. /\ Idx(a) \in Int /\ a.url \in Int /\ a.port \in Int /\ a.target \in Int
        /\ a.priority \in Int /\ a.secure \in BOOLEAN
        /\ Idx(b) \in Int /\ b.url \in Int /\ b.port \in Int /\ b.target \in Int
        /\ b.priority \in Int /\ b.secure \in BOOLEAN
        /\ Idx(c) \in Int /\ c.url \in Int /\ c.port \in Int /\ c.target \in Int
        /\ c.priority \in Int /\ c.secure \in BOOLEAN
    BY Keys
  <1>1. (Idx(a) = Idx(c) <=> a.type = c.type) /\ (Idx(b) = Idx(c) <=> b.type = c.type)
    BY Keys
  <1>2. ~RankLess(b, a) /\ ~RankLess(c, b) => ~RankLess(c, a)
    BY <1>0 DEF RankLess
  <1>3. ~RankLess(b, a) /\ ~RankLess(c, b) /\ Same(a, c) => Same(b, c)
    BY <1>0, <1>1 DEF RankLess, Same
  <1>4. ~RankLess(a, a) /\ (RankLess(a, b) => ~RankLess(b, a))
    BY <1>0 DEF RankLess
  <1> QED
    BY <1>2, <1>3, <1>4

\* What RankLE says of two connections.
LEMMA RankLEIs ==
    /\ \A a \in Connection, b \in Connection : <<a, b>> \in RankLE <=> ~RankLess(b, a)
    /\ \A a \in Connection, b \in Connection, c \in Connection :
          <<a, b>> \in RankLE /\ <<b, c>> \in RankLE => <<a, c>> \in RankLE
    /\ \A a \in Connection, b \in Connection :
          (Less(a, b) => <<a, b>> \in RankLE) /\ (~Less(a, b) => <<b, a>> \in RankLE)
  <1>1. \A a \in Connection, b \in Connection : <<a, b>> \in RankLE <=> ~RankLess(b, a)
    BY RankIs DEF RankLE
  <1>2. \A a \in Connection, b \in Connection, c \in Connection :
          <<a, b>> \in RankLE /\ <<b, c>> \in RankLE => <<a, c>> \in RankLE
    BY <1>1, RankOrder
  <1>3. ASSUME NEW a \in Connection, NEW b \in Connection
        PROVE  (Less(a, b) => <<a, b>> \in RankLE) /\ (~Less(a, b) => <<b, a>> \in RankLE)
    <2>1. Less(a, b) <=> Lexical(Rank(a), Rank(b)) \/ (Rank(a) = Rank(b) /\ b.weight < a.priority)
      BY DEF Less, Rank
    <2>2. Less(a, b) => RankLess(a, b) \/ Rank(a) = Rank(b)
      BY <2>1, RankIs
    <2>3. ~Less(a, b) => ~RankLess(a, b)
      BY <2>1, RankIs
    <2> QED
      BY <1>1, <2>2, <2>3, RankIs, RankOrder
  <1> QED
    BY <1>1, <1>2, <1>3

\* And BeforeLE.
LEMMA BeforeLEIs ==
    /\ \A a \in Connection, b \in Connection : <<a, b>> \in BeforeLE <=> ~Before(b, a)
    /\ \A a \in Connection, b \in Connection, c \in Connection :
          <<a, b>> \in BeforeLE /\ <<b, c>> \in BeforeLE => <<a, c>> \in BeforeLE
    /\ \A a \in Connection, b \in Connection :
          (Before(a, b) => <<a, b>> \in BeforeLE) /\ (~Before(a, b) => <<b, a>> \in BeforeLE)
  <1>1. \A a \in Connection, b \in Connection : <<a, b>> \in BeforeLE <=> ~Before(b, a)
    BY DEF BeforeLE
  <1>2. \A a \in Connection, b \in Connection :
          Before(a, b) <=> \/ a.priority < b.priority
                           \/ /\ a.priority = b.priority
                              /\ Idx(a) < Idx(b) \/ (Idx(a) = Idx(b) /\ b.weight < a.weight)
    BY Keys, Lexical3 DEF Before
  <1>3. \A a \in Connection : a.priority \in Int /\ a.weight \in Int /\ Idx(a) \in Int
    BY Keys
  <1>4. ASSUME NEW a \in Connection, NEW b \in Connection, NEW c \in Connection
        PROVE  (~Before(b, a) /\ ~Before(c, b) => ~Before(c, a)) /\ (Before(a, b) => ~Before(b, a))
    BY <1>2, <1>3
  <1> QED
    BY <1>1, <1>4
-----------------------------------------------------------------------------
(* sort_dedup.                                                              *)

\* ret.sort(): whatever the last comparison of Ord says, the result is in the
\* order of the keys before it.
LEMMA SortLess ==
    ASSUME NEW s \in Seq(Connection)
    PROVE  /\ Sort(s, Less) \in Seq(Connection)
           /\ Permutes(Sort(s, Less), s, Len(s))
           /\ Ordered(Sort(s, Less), RankLE)
  <1> DEFINE N == Len(s)
             A == Seq(Connection)
             none == <<>>
             P(t, x) == Max({0} \union {k \in DOMAIN t : ~Less(x, t[k])})
             Op(t, x) == Ins(t, x, P(t, x))
             Is(f) == f = [u \in SUBSET DOMAIN s |-> IF u = {} THEN none
                             ELSE Op(f[u \ {Max(u)}], s[Max(u)])]
             F == CHOOSE f : Is(f)
             step == [i \in 1..N |-> [t \in A |-> Op(t, s[i])]]
  <1>1. Sort(s, Less) = F[DOMAIN s]
    BY DEF Sort, FoldLeft, MapThenFoldSet, Ins
  <1>2. N \in Nat /\ DOMAIN s = 1..N /\ \A i \in 1..N : s[i] \in Connection
    BY LenProperties, ElementOfSeq
  <1>3. ASSUME NEW t \in A, NEW x \in Connection
        PROVE  P(t, x) \in 0..Len(t) /\ Fits(t, x, P(t, x), RankLE) /\ Op(t, x) \in A
    <2> DEFINE G == {k \in DOMAIN t : ~Less(x, t[k])}
    <2>1. Len(t) \in Nat /\ DOMAIN t = 1..Len(t) /\ \A k \in 1..Len(t) : t[k] \in Connection
      BY LenProperties, ElementOfSeq
    <2>2. G \subseteq 1..Len(t)
      BY <2>1
    <2>3. /\ P(t, x) \in 0..Len(t)
          /\ P(t, x) # 0 => P(t, x) \in G
          /\ \A k \in (P(t, x) + 1)..Len(t) : k \notin G
      <3> HIDE DEF G
      <3>1. P(t, x) = Max({0} \union G)
        BY DEF G
      <3> HIDE DEF P
      <3> QED
        BY <2>1, <2>2, <3>1, LastOf
    <2> HIDE DEF P
    <2>4. \A k \in (P(t, x) + 1)..Len(t) : k \in 1..Len(t)
      BY <2>1, <2>3
    <2>5. /\ P(t, x) # 0 => <<t[P(t, x)], x>> \in RankLE
          /\ \A k \in (P(t, x) + 1)..Len(t) : <<x, t[k]>> \in RankLE
      BY <2>1, <2>3, <2>4, RankLEIs
    <2>6. Op(t, x) \in A
      BY <2>3, InsIs
    <2> QED
      BY <2>3, <2>5, <2>6 DEF Fits
  <1> HIDE DEF P, N, F
  <1>4. step \in [1..N -> [A -> A]] /\ none \in A
    BY <1>2, <1>3
  <1>5. \E f : Is(f)
    <2> HIDE DEF step, A, none
    <2>1. PICK g \in [SUBSET (1..N) -> A] : IsFold(g, N, none, step)
      BY <1>2, <1>4, FoldExists
    <2>2. ASSUME NEW u \in SUBSET (1..N), u # {}
          PROVE  g[u] = Op(g[u \ {Max(u)}], s[Max(u)])
      <3>1. Max(u) \in 1..N
        <4>1. u \subseteq 0..N
          BY <1>2
        <4> QED
          BY <1>2, <2>2, <4>1, MaxIs
      <3>2. g[u \ {Max(u)}] \in A
        OBVIOUS
      <3>3. step[Max(u)][g[u \ {Max(u)}]] = Op(g[u \ {Max(u)}], s[Max(u)])
        BY <3>1, <3>2 DEF step
      <3> QED
        BY <2>1, <2>2, <3>3 DEF IsFold
    <2>3. Is(g)
      BY <1>2, <2>1, <2>2 DEF IsFold
    <2> QED
      BY <2>3
  <1>6. Is(F)
    BY <1>5 DEF F
  <1>7. ASSUME NEW i \in 1..N
        PROVE  F[1..i] = Op(F[1..(i - 1)], s[i])
    <2>1. 1..i \in SUBSET (DOMAIN s) /\ i \in Nat \ {0}
      BY <1>2
    <2>2. F[1..i] = Op(F[(1..i) \ {Max(1..i)}], s[Max(1..i)])
      BY <1>6, <2>1, UpToIs
    <2> QED
      BY <2>1, <2>2, UpToIs
  <1>8. PICK acc \in [0..N -> A] : IsRun(acc, N, none, step) /\ acc[N] = F[1..N]
    <2>1. Follows(F, N, A, none, step)
      BY <1>6, <1>7 DEF Follows
    <2> HIDE DEF step, A, none
    <2> QED
      BY <1>2, <1>4, <2>1, Unrolls
  <1>9. ASSUME NEW i \in 1..N
        PROVE  \E p \in 0..Len(acc[i - 1]) :
                  acc[i] = Ins(acc[i - 1], s[i], p) /\ Fits(acc[i - 1], s[i], p, RankLE)
    <2>1. acc[i - 1] \in A /\ s[i] \in Connection
      BY <1>2
    <2>2. acc[i] = Op(acc[i - 1], s[i])
      BY <1>8, <2>1 DEF IsRun
    <2>3. /\ P(acc[i - 1], s[i]) \in 0..Len(acc[i - 1])
          /\ Fits(acc[i - 1], s[i], P(acc[i - 1], s[i]), RankLE)
      BY <1>3, <2>1
    <2> QED
      BY <2>2, <2>3
  <1>10. Sorts(acc, s, RankLE)
    BY <1>8, <1>9 DEF Sorts, IsRun, N
  <1>11. Sort(s, Less) = acc[Len(s)]
    BY <1>1, <1>2, <1>8 DEF N
  <1> QED
    BY <1>10, <1>11, SortIs, RankLEIs DEF N

\* ret.sort_by(..).
LEMMA SortBefore ==
    ASSUME NEW s \in Seq(Connection)
    PROVE  /\ Sort(s, Before) \in Seq(Connection)
           /\ Permutes(Sort(s, Before), s, Len(s))
           /\ Ordered(Sort(s, Before), BeforeLE)
  <1> DEFINE N == Len(s)
             A == Seq(Connection)
             none == <<>>
             P(t, x) == Max({0} \union {k \in DOMAIN t : ~Before(x, t[k])})
             Op(t, x) == Ins(t, x, P(t, x))
             Is(f) == f = [u \in SUBSET DOMAIN s |-> IF u = {} THEN none
                             ELSE Op(f[u \ {Max(u)}], s[Max(u)])]
             F == CHOOSE f : Is(f)
             step == [i \in 1..N |-> [t \in A |-> Op(t, s[i])]]
  <1>1. Sort(s, Before) = F[DOMAIN s]
    BY DEF Sort, FoldLeft, MapThenFoldSet, Ins
  <1>2. N \in Nat /\ DOMAIN s = 1..N /\ \A i \in 1..N : s[i] \in Connection
    BY LenProperties, ElementOfSeq
  <1>3. ASSUME NEW t \in A, NEW x \in Connection
        PROVE  P(t, x) \in 0..Len(t) /\ Fits(t, x, P(t, x), BeforeLE) /\ Op(t, x) \in A
    <2> DEFINE G == {k \in DOMAIN t : ~Before(x, t[k])}
    <2>1. Len(t) \in Nat /\ DOMAIN t = 1..Len(t) /\ \A k \in 1..Len(t) : t[k] \in Connection
      BY LenProperties, ElementOfSeq
    <2>2. G \subseteq 1..Len(t)
      BY <2>1
    <2>3. /\ P(t, x) \in 0..Len(t)
          /\ P(t, x) # 0 => P(t, x) \in G
          /\ \A k \in (P(t, x) + 1)..Len(t) : k \notin G
      <3> HIDE DEF G
      <3>1. P(t, x) = Max({0} \union G)
        BY DEF G
      <3> HIDE DEF P
      <3> QED
        BY <2>1, <2>2, <3>1, LastOf
    <2> HIDE DEF P
    <2>4. \A k \in (P(t, x) + 1)..Len(t) : k \in 1..Len(t)
      BY <2>1, <2>3
    <2>5. /\ P(t, x) # 0 => <<t[P(t, x)], x>> \in BeforeLE
          /\ \A k \in (P(t, x) + 1)..Len(t) : <<x, t[k]>> \in BeforeLE
      BY <2>1, <2>3, <2>4, BeforeLEIs
    <2>6. Op(t, x) \in A
      BY <2>3, InsIs
    <2> QED
      BY <2>3, <2>5, <2>6 DEF Fits
  <1> HIDE DEF P, N, F
  <1>4. step \in [1..N -> [A -> A]] /\ none \in A
    BY <1>2, <1>3
  <1>5. \E f : Is(f)
    <2> HIDE DEF step, A, none
    <2>1. PICK g \in [SUBSET (1..N) -> A] : IsFold(g, N, none, step)
      BY <1>2, <1>4, FoldExists
    <2>2. ASSUME NEW u \in SUBSET (1..N), u # {}
          PROVE  g[u] = Op(g[u \ {Max(u)}], s[Max(u)])
      <3>1. Max(u) \in 1..N
        <4>1. u \subseteq 0..N
          BY <1>2
        <4> QED
          BY <1>2, <2>2, <4>1, MaxIs
      <3>2. g[u \ {Max(u)}] \in A
        OBVIOUS
      <3>3. step[Max(u)][g[u \ {Max(u)}]] = Op(g[u \ {Max(u)}], s[Max(u)])
        BY <3>1, <3>2 DEF step
      <3> QED
        BY <2>1, <2>2, <3>3 DEF IsFold
    <2>3. Is(g)
      BY <1>2, <2>1, <2>2 DEF IsFold
    <2> QED
      BY <2>3
  <1>6. Is(F)
    BY <1>5 DEF F
  <1>7. ASSUME NEW i \in 1..N
        PROVE  F[1..i] = Op(F[1..(i - 1)], s[i])
    <2>1. 1..i \in SUBSET (DOMAIN s) /\ i \in Nat \ {0}
      BY <1>2
    <2>2. F[1..i] = Op(F[(1..i) \ {Max(1..i)}], s[Max(1..i)])
      BY <1>6, <2>1, UpToIs
    <2> QED
      BY <2>1, <2>2, UpToIs
  <1>8. PICK acc \in [0..N -> A] : IsRun(acc, N, none, step) /\ acc[N] = F[1..N]
    <2>1. Follows(F, N, A, none, step)
      BY <1>6, <1>7 DEF Follows
    <2> HIDE DEF step, A, none
    <2> QED
      BY <1>2, <1>4, <2>1, Unrolls
  <1>9. ASSUME NEW i \in 1..N
        PROVE  \E p \in 0..Len(acc[i - 1]) :
                  acc[i] = Ins(acc[i - 1], s[i], p) /\ Fits(acc[i - 1], s[i], p, BeforeLE)
    <2>1. acc[i - 1] \in A /\ s[i] \in Connection
      BY <1>2
    <2>2. acc[i] = Op(acc[i - 1], s[i])
      BY <1>8, <2>1 DEF IsRun
    <2>3. /\ P(acc[i - 1], s[i]) \in 0..Len(acc[i - 1])
          /\ Fits(acc[i - 1], s[i], P(acc[i - 1], s[i]), BeforeLE)
      BY <1>3, <2>1
    <2> QED
      BY <2>2, <2>3
  <1>10. Sorts(acc, s, BeforeLE)
    BY <1>8, <1>9 DEF Sorts, IsRun, N
  <1>11. Sort(s, Before) = acc[Len(s)]
    BY <1>1, <1>2, <1>8 DEF N
  <1> QED
    BY <1>10, <1>11, SortIs, BeforeLEIs DEF N

\* What dedup has kept of the first i elements of s: each way to each place
\* once, by its first record, and the last kept is the place of the last read.
KeptOf(s, i) ==
    {t \in Seq(Connection) :
        /\ \A j \in 1..Len(t) : \E k \in 1..i : t[j] = s[k]
        /\ \A j \in 1..Len(t), k \in 1..Len(t) : j < k => ~Same(t[j], t[k])
        /\ \A k \in 1..i : \E j \in 1..Len(t) : Same(t[j], s[k]) /\ <<t[j], s[k]>> \in RankLE
        /\ i # 0 => Len(t) # 0 /\ Same(t[Len(t)], s[i])}

\* What one record adds to the deduplicated list.
DedupAdd(t, x) == IF t # <<>> /\ Same(t[Len(t)], x) THEN t ELSE Append(t, x)

\* One more element.  If it is of a place kept, then so is the one before it,
\* which is ranked between, and so it is the last kept.
LEMMA DedupStep ==
    ASSUME NEW s \in Seq(Connection), Ordered(s, RankLE), NEW i \in 0..(Len(s) - 1),
           NEW t \in KeptOf(s, i)
    PROVE  DedupAdd(t, s[i + 1]) \in KeptOf(s, i + 1)
  <1> DEFINE x == s[i + 1]
             n == Len(t)
  <1>0. /\ Len(s) \in Nat /\ i \in Nat /\ i + 1 \in 1..Len(s) /\ i + 1 \in 1..(i + 1)
        /\ \A k \in 1..Len(s) : s[k] \in Connection
        /\ x \in Connection
        /\ \A k \in 1..i : k \in 1..Len(s) /\ k \in 1..(i + 1) /\ k < i + 1
        /\ \A k \in 1..(i + 1) : k \in 1..i \/ k = i + 1
    BY LenProperties, ElementOfSeq
  <1>1. /\ t \in Seq(Connection) /\ n \in Nat
        /\ \A j \in 1..n : t[j] \in Connection /\ \E k \in 1..i : t[j] = s[k]
        /\ \A j \in 1..n, k \in 1..n : j < k => ~Same(t[j], t[k])
        /\ \A k \in 1..i : \E j \in 1..n : Same(t[j], s[k]) /\ <<t[j], s[k]>> \in RankLE
        /\ i # 0 => n # 0 /\ Same(t[n], s[i])
    BY LenProperties, ElementOfSeq DEF KeptOf
  <1>2. t = <<>> <=> n = 0
    BY <1>1, EmptySeq
  <1>3. \A k \in 1..i : <<s[k], x>> \in RankLE
    BY <1>0 DEF Ordered
  <1>4. \A j \in 1..n : <<t[j], x>> \in RankLE
    BY <1>1, <1>3
  <1>5. \A a, b, c : (Same(a, b) => Same(b, a)) /\ Same(a, a) /\ (Same(a, b) /\ Same(b, c) => Same(a, c))
    BY DEF Same
  <1> HIDE DEF x, n
  <1>6. CASE t # <<>> /\ Same(t[n], x)
    <2>1. n \in 1..n
      BY <1>1, <1>2, <1>6
    <2>2. \A k \in 1..(i + 1) : \E j \in 1..n : Same(t[j], s[k]) /\ <<t[j], s[k]>> \in RankLE
      BY <1>0, <1>1, <1>4, <1>6, <2>1 DEF x
    <2>3. \A j \in 1..n : \E k \in 1..(i + 1) : t[j] = s[k]
      BY <1>0, <1>1
    <2>4. DedupAdd(t, x) = t
      BY <1>6 DEF DedupAdd, n
    <2>5. i + 1 # 0 => n # 0 /\ Same(t[n], s[i + 1])
      BY <1>2, <1>6 DEF x
    <2>6. t \in KeptOf(s, i + 1)
      BY <1>1, <2>2, <2>3, <2>5 DEF KeptOf, n
    <2> QED
      BY <2>4, <2>6 DEF x
  <1>7. CASE ~(t # <<>> /\ Same(t[n], x))
    <2> DEFINE r == Append(t, x)
    <2>1. /\ r \in Seq(Connection) /\ Len(r) = n + 1 /\ r[n + 1] = x
          /\ \A j \in 1..n : r[j] = t[j]
      BY <1>0, <1>1, AppendProperties DEF n
    <2> HIDE DEF r
    <2>2. /\ \A j \in 1..(n + 1) : j \in 1..n \/ j = n + 1
          /\ \A j \in 1..n : j \in 1..(n + 1)
          /\ n + 1 \in 1..(n + 1) /\ n + 1 # 0
          /\ \A j \in 1..(n + 1), k \in 1..(n + 1) :
                j < k => j \in 1..n /\ (k \in 1..n \/ k = n + 1)
      BY <1>1
    <2>3. ASSUME NEW j \in 1..n, Same(t[j], x)
          PROVE  FALSE
      <3>1. PICK k \in 1..i : t[j] = s[k]
        BY <1>1
      <3>2. i \in 1..i /\ i # 0 /\ s[i] \in Connection /\ n \in 1..n
        BY <1>0, <1>1
      <3>3. k = i \/ <<s[k], s[i]>> \in RankLE
        <4>1. k = i \/ k < i
          BY <1>0
        <4> QED
          BY <1>0, <3>2, <4>1 DEF Ordered
      <3>4. <<s[i], x>> \in RankLE
        BY <1>3, <3>2
      <3>5. Same(s[i], x)
        <4>1. CASE k = i
          BY <2>3, <3>1, <4>1
        <4>2. CASE k # i
          <5>1. s[k] \in Connection /\ <<s[k], s[i]>> \in RankLE /\ Same(s[k], x)
            BY <1>0, <2>3, <3>1, <3>3, <4>2
          <5>2. ~RankLess(s[i], s[k]) /\ ~RankLess(x, s[i])
            BY <1>0, <3>2, <3>4, <5>1, RankLEIs
          <5> QED
            BY <1>0, <3>2, <5>1, <5>2, RankOrder
        <4> QED
          BY <4>1, <4>2
      <3>6. Same(t[n], x)
        BY <1>1, <1>5, <3>2, <3>5
      <3> QED
        BY <1>2, <1>7, <3>2, <3>6
    <2>4. \A j \in 1..(n + 1) : \E k \in 1..(i + 1) : r[j] = s[k]
      BY <1>0, <1>1, <2>1, <2>2 DEF x
    <2>5. \A j \in 1..(n + 1), k \in 1..(n + 1) : j < k => ~Same(r[j], r[k])
      BY <1>1, <2>1, <2>2, <2>3
    <2>6. <<x, x>> \in RankLE
      BY <1>0, RankLEIs, RankOrder
    <2>7. ASSUME NEW k \in 1..(i + 1)
          PROVE  \E j \in 1..(n + 1) : Same(r[j], s[k]) /\ <<r[j], s[k]>> \in RankLE
      <3>1. CASE k = i + 1
        BY <1>5, <2>1, <2>2, <2>6, <3>1 DEF x
      <3>2. CASE k \in 1..i
        BY <1>1, <2>1, <2>2, <3>2
      <3> QED
        BY <1>0, <3>1, <3>2
    <2>8. Same(r[n + 1], s[i + 1])
      BY <1>5, <2>1 DEF x
    <2>9. r \in KeptOf(s, i + 1)
      BY <2>1, <2>2, <2>4, <2>5, <2>7, <2>8 DEF KeptOf
    <2>10. DedupAdd(t, x) = r
      BY <1>7 DEF DedupAdd, n, r
    <2> QED
      BY <2>9, <2>10 DEF x
  <1> QED
    BY <1>6, <1>7

\* ret.dedup(), of a list in the order of ret.sort().
LEMMA DedupIs ==
    ASSUME NEW s \in Seq(Connection), Ordered(s, RankLE)
    PROVE  Dedup(s) \in KeptOf(s, Len(s))
  <1> DEFINE N == Len(s)
             A == Seq(Connection)
             none == <<>>
             Op(t, x) == DedupAdd(t, x)
             Is(f) == f = [u \in SUBSET DOMAIN s |-> IF u = {} THEN none
                             ELSE Op(f[u \ {Max(u)}], s[Max(u)])]
             F == CHOOSE f : Is(f)
             step == [i \in 1..N |-> [t \in A |-> Op(t, s[i])]]
  <1>1. Dedup(s) = F[DOMAIN s]
    BY DEF Dedup, FoldLeft, MapThenFoldSet, DedupAdd
  <1>2. N \in Nat /\ DOMAIN s = 1..N /\ \A i \in 1..N : s[i] \in Connection
    BY LenProperties, ElementOfSeq
  <1>3. \A t \in A, x \in Connection : Op(t, x) \in A
    BY AppendProperties DEF DedupAdd
  <1> HIDE DEF Op, N, F
  <1>4. step \in [1..N -> [A -> A]] /\ none \in A
    BY <1>2, <1>3
  <1>5. \E f : Is(f)
    <2> HIDE DEF step, A, none
    <2>1. PICK g \in [SUBSET (1..N) -> A] : IsFold(g, N, none, step)
      BY <1>2, <1>4, FoldExists
    <2>2. ASSUME NEW u \in SUBSET (1..N), u # {}
          PROVE  g[u] = Op(g[u \ {Max(u)}], s[Max(u)])
      <3>1. Max(u) \in 1..N
        <4>1. u \subseteq 0..N
          BY <1>2
        <4> QED
          BY <1>2, <2>2, <4>1, MaxIs
      <3>2. g[u \ {Max(u)}] \in A
        OBVIOUS
      <3>3. step[Max(u)][g[u \ {Max(u)}]] = Op(g[u \ {Max(u)}], s[Max(u)])
        BY <3>1, <3>2 DEF step
      <3> QED
        BY <2>1, <2>2, <3>3 DEF IsFold
    <2>3. Is(g)
      BY <1>2, <2>1, <2>2 DEF IsFold
    <2> QED
      BY <2>3
  <1>6. Is(F)
    BY <1>5 DEF F
  <1>7. ASSUME NEW i \in 1..N
        PROVE  F[1..i] = Op(F[1..(i - 1)], s[i])
    <2>1. 1..i \in SUBSET (DOMAIN s) /\ i \in Nat \ {0}
      BY <1>2
    <2>2. F[1..i] = Op(F[(1..i) \ {Max(1..i)}], s[Max(1..i)])
      BY <1>6, <2>1, UpToIs
    <2> QED
      BY <2>1, <2>2, UpToIs
  <1>8. PICK acc \in [0..N -> A] : IsRun(acc, N, none, step) /\ acc[N] = F[1..N]
    <2>1. Follows(F, N, A, none, step)
      BY <1>6, <1>7 DEF Follows
    <2> HIDE DEF step, A, none
    <2> QED
      BY <1>2, <1>4, <2>1, Unrolls
  <1> DEFINE T == {i \in 0..N : acc[i] \in KeptOf(s, i)}
  <1>9. 0 \in T
    <2>1. acc[0] = <<>> /\ 1..0 = {}
      BY <1>8 DEF IsRun
    <2>2. Len(<<>>) = 0 /\ <<>> \in Seq(Connection)
      OBVIOUS
    <2>3. <<>> \in KeptOf(s, 0)
      BY <2>1, <2>2 DEF KeptOf
    <2> QED
      BY <1>2, <2>1, <2>3
  <1>10. ASSUME NEW i \in 0..(N - 1), i \in T
         PROVE  i + 1 \in T
    <2>1. i + 1 \in 1..N /\ (i + 1) - 1 = i /\ i + 1 \in 0..N
      BY <1>2
    <2>2. acc[i] \in KeptOf(s, i) /\ acc[i] \in A
      BY <1>10
    <2>3. acc[i + 1] = DedupAdd(acc[i], s[i + 1])
      BY <1>8, <2>1, <2>2 DEF IsRun, Op
    <2>4. acc[i + 1] \in KeptOf(s, i + 1)
      BY <2>2, <2>3, DedupStep DEF N
    <2> QED
      BY <2>1, <2>4
  <1>11. N \in T
    <2> HIDE DEF T
    <2>1. 0..N \subseteq T
      BY <1>2, <1>9, <1>10, UpTo
    <2> QED
      BY <1>2, <2>1
  <1> QED
    BY <1>1, <1>2, <1>8, <1>11 DEF N

\* sort_dedup: the records come from s; no place is there twice; the list is
\* ordered; and of each place the record kept is ranked no higher than any.
LEMMA SortDedupIs ==
    ASSUME NEW s \in Seq(Connection)
    PROVE  LET r == SortDedup(s) IN
           /\ r \in Seq(Connection)
           /\ \A j \in 1..Len(r) : \E k \in 1..Len(s) : r[j] = s[k]
           /\ \A j \in 1..Len(r), k \in 1..Len(r) :
                 j < k => ~Same(r[j], r[k]) /\ ~Before(r[k], r[j])
           /\ \A k \in 1..Len(s) : \E j \in 1..Len(r) : Same(r[j], s[k]) /\ ~RankLess(s[k], r[j])
  <1> DEFINE a == Sort(s, Less)
             b == Dedup(a)
             r == Sort(b, Before)
  <1>1. a \in Seq(Connection) /\ Permutes(a, s, Len(s)) /\ Ordered(a, RankLE)
    BY SortLess
  <1> HIDE DEF a
  <1>2. b \in KeptOf(a, Len(a))
    BY <1>1, DedupIs
  <1> HIDE DEF b
  <1>3. b \in Seq(Connection)
    BY <1>2 DEF KeptOf
  <1>4. r \in Seq(Connection) /\ Permutes(r, b, Len(b)) /\ Ordered(r, BeforeLE)
    BY <1>3, SortBefore
  <1>5. r = SortDedup(s)
    BY DEF SortDedup, a, b
  <1> HIDE DEF r
  <1>6. PICK p \in [1..Len(s) -> 1..Len(s)] :
          /\ \A m \in 1..Len(s) : \E j \in 1..Len(s) : p[j] = m
          /\ \A j \in 1..Len(s) : a[j] = s[p[j]]
    BY <1>1 DEF Permutes
  <1>7. PICK q \in [1..Len(b) -> 1..Len(b)] :
          /\ \A j \in 1..Len(b), k \in 1..Len(b) : q[j] = q[k] => j = k
          /\ \A m \in 1..Len(b) : \E j \in 1..Len(b) : q[j] = m
          /\ \A j \in 1..Len(b) : r[j] = b[q[j]]
    BY <1>4 DEF Permutes
  <1>8. Len(a) = Len(s) /\ Len(r) = Len(b) /\ Len(b) \in Nat
    BY <1>1, <1>3, <1>4, LenProperties DEF Permutes
  <1>9. /\ \A j \in 1..Len(r) : r[j] \in Connection
        /\ \A j \in 1..Len(b) : b[j] \in Connection
        /\ \A j \in 1..Len(s) : s[j] \in Connection
    BY <1>3, <1>4, ElementOfSeq
  <1>10. \A j \in 1..Len(r) : \E k \in 1..Len(s) : r[j] = s[k]
    <2>1. \A j \in 1..Len(b) : \E k \in 1..Len(s) : b[j] = a[k]
      BY <1>2, <1>8 DEF KeptOf
    <2> TAKE j \in 1..Len(r)
    <2>2. j \in 1..Len(b)
      BY <1>8
    <2>3. q[j] \in 1..Len(b) /\ r[j] = b[q[j]]
      BY <1>7, <2>2
    <2>4. PICK k \in 1..Len(s) : r[j] = a[k]
      BY <2>1, <2>3
    <2>5. p[k] \in 1..Len(s) /\ a[k] = s[p[k]]
      BY <1>6
    <2> QED
      BY <2>4, <2>5
  <1>11. ASSUME NEW j \in 1..Len(r), NEW k \in 1..Len(r), j < k
         PROVE  ~Same(r[j], r[k]) /\ ~Before(r[k], r[j])
    <2>1. ~Before(r[k], r[j])
      BY <1>4, <1>9, <1>11, BeforeLEIs DEF Ordered
    <2>2. /\ q[j] \in 1..Len(b) /\ q[k] \in 1..Len(b) /\ q[j] # q[k]
          /\ r[j] = b[q[j]] /\ r[k] = b[q[k]]
      <3>1. j \in 1..Len(b) /\ k \in 1..Len(b) /\ j # k
        BY <1>8, <1>11
      <3> QED
        BY <1>7, <3>1
    <2>3. q[j] < q[k] \/ q[k] < q[j]
      BY <1>8, <2>2
    <2>4. \A x, y : Same(x, y) => Same(y, x)
      BY DEF Same
    <2>5. \A x \in 1..Len(b), y \in 1..Len(b) : x < y => ~Same(b[x], b[y])
      BY <1>2 DEF KeptOf
    <2>6. ~Same(r[j], r[k])
      BY <2>2, <2>3, <2>4, <2>5
    <2> QED
      BY <2>1, <2>6
  <1>12. ASSUME NEW k \in 1..Len(s)
         PROVE  \E j \in 1..Len(r) : Same(r[j], s[k]) /\ ~RankLess(s[k], r[j])
    <2>1. PICK h \in 1..Len(s) : a[h] = s[k]
      BY <1>6
    <2>2. PICK m \in 1..Len(b) : Same(b[m], a[h]) /\ <<b[m], a[h]>> \in RankLE
      BY <1>2, <1>8 DEF KeptOf
    <2>3. PICK j \in 1..Len(b) : q[j] = m
      BY <1>7
    <2>4. r[j] = b[m]
      BY <1>7, <2>3
    <2> QED
      BY <1>8, <1>9, <2>1, <2>2, <2>4, RankLEIs
  <1> QED
    BY <1>4, <1>5, <1>10, <1>11, <1>12

-----------------------------------------------------------------------------
(* What the answers turn into.                                              *)

\* Only what came over HTTPS is secure, and "." is no host.
Good == {c \in Connection :
           /\ c.secure => c.src \in {"json", "xml"}
           /\ c.src \in {"starttls", "direct", "quic"} => c.target # 0}

\* The ones from the host-meta of the JSON format.
JsonGood == {c \in Good : c.src = "json"}

\* What the lookups may have come to.
AnswersTyped ==
    /\ is_c2s \in BOOLEAN
    /\ answer = [l \in Lookups |-> answer[l]]
    /\ \A l \in Lookups : answer[l] \in Answers[l]

\* The numbers of the model are in the ranges they are compared in.
LEMMA Ports == 0 \in U16 /\ MaxPriority \in U16 /\ {443, 5222, 5269} \subseteq U16
  BY DEF U16, MaxPriority

\* wss_to_srv
LEMMA WssIs ==
    ASSUME NEW u, u.url \in Nat, u.port \in U16, u.host \in Nat,
           NEW sec \in BOOLEAN, NEW src \in {"json", "xml", "txt"},
           sec => src \in {"json", "xml"}
    PROVE  WssToSrv(u, sec, src) \in Good /\ WssToSrv(u, sec, src).src = src
  <1>1. WssToSrv(u, sec, src) \in Connection
    BY Ports DEF WssToSrv, Connection, Types, Sources
  <1>2. WssToSrv(u, sec, src).src = src /\ WssToSrv(u, sec, src).secure = sec
    BY DEF WssToSrv
  <1> QED
    BY <1>1, <1>2 DEF Good

\* Link::into_xmpp_connection, for all links of an answer.
LEMMA LinksIs ==
    ASSUME SrvAssumption, NEW a \in Answers["json"], a # NoAnswer
    PROVE  Links(a) \in Seq(JsonGood)
  <1> DEFINE Made(k) == IF k.plain THEN WssToSrv(k.conn, TRUE, "json")
                   ELSE [type |-> k.type, url |-> k.conn.url, port |-> k.conn.port,
                         target |-> k.sni, secure |-> TRUE, priority |-> k.priority,
                         weight |-> k.weight, src |-> "json"]
             Of(k) == IF k.c2s = is_c2s /\ (k.plain \/ k.ips > 0) THEN <<Made(k)>> ELSE <<>>
             ss == [i \in DOMAIN a.links |-> Of(a.links[i])]
  <1>1. a.links \in Seq(Link)
    BY DEF SrvAssumption
  <1>2. \A i \in DOMAIN a.links : a.links[i] \in Link
    BY <1>1
  <1>3. ASSUME NEW k \in Link
        PROVE  Made(k) \in JsonGood
    <2>1. k.conn.url \in Nat /\ k.conn.port \in U16 /\ k.conn.host \in Nat /\ k.plain \in BOOLEAN
      BY <1>3 DEF Link, Url
    <2>2. CASE k.plain
      BY <2>1, <2>2, WssIs DEF JsonGood
    <2>3. CASE ~k.plain
      <3>1. k.type \in Types /\ k.sni \in Nat /\ k.priority \in U16 /\ k.weight \in U16
        BY <1>3, <2>3 DEF Link
      <3> QED
        BY <2>1, <2>3, <3>1 DEF JsonGood, Good, Connection, Sources
    <2> QED
      BY <2>1, <2>2, <2>3
  <1> HIDE DEF Made
  <1>4. \A k \in Link : Of(k) \in Seq(JsonGood)
    BY <1>3
  <1>5. Links(a) = FlattenSeq(ss)
    BY DEF Links, Made
  <1>6. ss \in Seq(Seq(JsonGood))
    <2> HIDE DEF Of
    <2>1. a.links \in [1..Len(a.links) -> Link] /\ Len(a.links) \in Nat
      BY <1>1, LenProperties
    <2>2. ss \in [1..Len(a.links) -> Seq(JsonGood)]
      BY <1>2, <1>4, <2>1
    <2> HIDE DEF ss
    <2> QED
      BY <2>1, <2>2, SeqDef
  <1> HIDE DEF ss
  <1> QED
    BY <1>5, <1>6, FlattenIs

\* collect_srvs
LEMMA SrvRecordsIs ==
    ASSUME SrvAssumption, AnswersTyped, NEW l \in {"starttls", "direct", "quic"}, NEW type \in Types
    PROVE  SrvRecords(l, type) \in Seq(Good)
  <1> DEFINE r == answer[l]
             Made(x) == [type |-> type, url |-> 0, port |-> x.port, target |-> x.target,
                         secure |-> FALSE, priority |-> x.priority, weight |-> x.weight, src |-> l]
             Of(x) == IF x.target = 0 THEN <<>> ELSE <<Made(x)>>
             ss == [i \in DOMAIN r |-> Of(r[i])]
  <1>1. CASE r = NoAnswer
    BY <1>1 DEF SrvRecords
  <1>2. CASE r # NoAnswer
    <2>1. r \in Seq(SrvRecord)
      BY <1>2 DEF SrvAssumption, AnswersTyped, Lookups
    <2>2. \A x \in SrvRecord : x.target # 0 => Made(x) \in Good
      BY DEF SrvRecord, Good, Connection, Sources
    <2> HIDE DEF Made
    <2>3. \A x \in SrvRecord : Of(x) \in Seq(Good)
      BY <2>2
    <2>4. SrvRecords(l, type) = FlattenSeq(ss)
      BY <1>2 DEF SrvRecords, Made
    <2>5. ss \in Seq(Seq(Good))
      <3> HIDE DEF Of
      <3>1. r \in [1..Len(r) -> SrvRecord] /\ Len(r) \in Nat
        BY <2>1, LenProperties
      <3> HIDE DEF r
      <3>2. ss \in [1..Len(r) -> Seq(Good)]
        BY <2>3, <3>1
      <3> HIDE DEF ss
      <3> QED
        BY <3>1, <3>2, SeqDef
    <2> HIDE DEF ss
    <2> QED
      BY <2>4, <2>5, FlattenIs
  <1> QED
    BY <1>1, <1>2

\* collect_host_meta_xml
LEMMA XmlLinksIs ==
    ASSUME SrvAssumption, AnswersTyped
    PROVE  XmlLinks \in Seq(Good)
  <1> DEFINE r == answer["xml"]
             Of(u) == WssToSrv(u, TRUE, "xml")
  <1>1. CASE ~is_c2s \/ r = NoAnswer
    BY <1>1 DEF XmlLinks
  <1>2. CASE ~(~is_c2s \/ r = NoAnswer)
    <2>1. r \in Seq(Url)
      BY <1>2 DEF SrvAssumption, AnswersTyped, Lookups
    <2>2. \A u \in Url : Of(u) \in Good
      BY WssIs DEF Url
    <2> HIDE DEF Of
    <2>3. XmlLinks = [i \in DOMAIN r |-> Of(r[i])]
      BY <1>2 DEF XmlLinks, Of
    <2>4. r \in [1..Len(r) -> Url] /\ Len(r) \in Nat
      BY <2>1, LenProperties
    <2> HIDE DEF r
    <2>5. XmlLinks \in [1..Len(r) -> Good]
      BY <2>2, <2>3, <2>4
    <2> QED
      BY <2>4, <2>5, SeqDef
  <1> QED
    BY <1>1, <1>2

\* What one TXT record adds to the list.
TxtAdd(t, r) ==
    LET c == WssToSrv(r, FALSE, "txt") IN
    IF r.c2s = is_c2s /\ ~\E i \in DOMAIN t : Same(t[i], c) THEN Append(t, c) ELSE t

\* collect_txts
LEMMA CollectTxtsIs ==
    ASSUME SrvAssumption, AnswersTyped, NEW conns \in Seq(Good)
    PROVE  CollectTxts(conns) \in Seq(Good)
  <1> DEFINE s == answer["txt"]
             N == Len(s)
             A == Seq(Good)
             Txt == [url : Nat, port : U16, host : Nat, c2s : BOOLEAN]
             Op(t, x) == TxtAdd(t, x)
             Is(f) == f = [u \in SUBSET DOMAIN s |-> IF u = {} THEN conns
                             ELSE Op(f[u \ {Max(u)}], s[Max(u)])]
             F == CHOOSE f : Is(f)
             step == [i \in 1..N |-> [t \in A |-> Op(t, s[i])]]
  <1> SUFFICES ASSUME s # NoAnswer
               PROVE  CollectTxts(conns) \in Seq(Good)
    BY DEF CollectTxts
  <1>1. CollectTxts(conns) = F[DOMAIN s]
    BY DEF CollectTxts, FoldLeft, MapThenFoldSet, TxtAdd
  <1>2. s \in Seq(Txt)
    BY DEF SrvAssumption, AnswersTyped, Lookups
  <1> HIDE DEF s
  <1>3. N \in Nat /\ DOMAIN s = 1..N /\ \A i \in 1..N : s[i] \in Txt
    BY <1>2, LenProperties, ElementOfSeq
  <1>4. ASSUME NEW t \in A, NEW x \in Txt
        PROVE  Op(t, x) \in A
    <2>1. WssToSrv(x, FALSE, "txt") \in Good
      BY WssIs
    <2> QED
      BY <2>1, AppendProperties DEF TxtAdd
  <1> HIDE DEF Op, N, F, Txt
  <1>5. step \in [1..N -> [A -> A]] /\ conns \in A
    BY <1>3, <1>4
  <1>6. \E f : Is(f)
    <2> HIDE DEF step, A
    <2>1. PICK g \in [SUBSET (1..N) -> A] : IsFold(g, N, conns, step)
      BY <1>3, <1>5, FoldExists
    <2>2. ASSUME NEW u \in SUBSET (1..N), u # {}
          PROVE  g[u] = Op(g[u \ {Max(u)}], s[Max(u)])
      <3>1. Max(u) \in 1..N
        <4>1. u \subseteq 0..N
          BY <1>3
        <4> QED
          BY <1>3, <2>2, <4>1, MaxIs
      <3>2. g[u \ {Max(u)}] \in A
        OBVIOUS
      <3>3. step[Max(u)][g[u \ {Max(u)}]] = Op(g[u \ {Max(u)}], s[Max(u)])
        BY <3>1, <3>2 DEF step
      <3> QED
        BY <2>1, <2>2, <3>3 DEF IsFold
    <2>3. Is(g)
      BY <1>3, <2>1, <2>2 DEF IsFold
    <2> QED
      BY <2>3
  <1>7. Is(F)
    BY <1>6 DEF F
  <1>8. ASSUME NEW i \in 1..N
        PROVE  F[1..i] = Op(F[1..(i - 1)], s[i])
    <2>1. 1..i \in SUBSET (DOMAIN s) /\ i \in Nat \ {0}
      BY <1>3
    <2>2. F[1..i] = Op(F[(1..i) \ {Max(1..i)}], s[Max(1..i)])
      BY <1>7, <2>1, UpToIs
    <2> QED
      BY <2>1, <2>2, UpToIs
  <1>9. PICK acc \in [0..N -> A] : IsRun(acc, N, conns, step) /\ acc[N] = F[1..N]
    <2>1. Follows(F, N, A, conns, step)
      BY <1>7, <1>8 DEF Follows
    <2>2. N \in Nat
      BY <1>3
    <2> HIDE DEF step, A, Is
    <2> QED
      BY <1>5, <2>1, <2>2, Unrolls
  <1> QED
    BY <1>1, <1>3, <1>9

\* All of it together, before sort_dedup.
LEMMA CollectedIs ==
    ASSUME SrvAssumption, AnswersTyped, ret \in Seq(JsonGood)
    PROVE  /\ Collected \in Seq(Good)
           /\ HostMeta2 => Collected \in Seq(JsonGood)
  <1>1. ret \in Seq(Good)
    <2>1. JsonGood \subseteq Good
      BY DEF JsonGood
    <2> QED
      BY <2>1
  <1>2. CollectTxts(ret \o XmlLinks) \in Seq(Good)
    BY <1>1, XmlLinksIs, CollectTxtsIs, ConcatProperties
  <1>3. /\ SrvRecords("starttls", "StartTLS") \in Seq(Good)
        /\ SrvRecords("direct", "DirectTLS") \in Seq(Good)
        /\ SrvRecords("quic", "QUIC") \in Seq(Good)
    BY SrvRecordsIs DEF Types
  <1> DEFINE s1 == CollectTxts(ret \o XmlLinks)
             s2 == SrvRecords("starttls", "StartTLS")
             s3 == SrvRecords("direct", "DirectTLS")
             s4 == SrvRecords("quic", "QUIC")
  <1>4. Collected = IF HostMeta2 THEN ret ELSE s1 \o s2 \o s3 \o s4
    BY DEF Collected
  <1> HIDE DEF s1, s2, s3, s4
  <1>5. s1 \in Seq(Good) /\ s2 \in Seq(Good) /\ s3 \in Seq(Good) /\ s4 \in Seq(Good)
    BY <1>2, <1>3 DEF s1, s2, s3, s4
  <1>6. s1 \o s2 \o s3 \o s4 \in Seq(Good)
    BY <1>5, ConcatProperties
  <1> QED
    BY <1>1, <1>4, <1>6

-----------------------------------------------------------------------------
(* The specification.                                                       *)

\* While the lookups are under way, the list holds what the host-meta brought.
Gathering == pc = "lookup" => ret \in Seq(JsonGood) /\ names = {Domain}

\* Keys are pinned by the new host-meta format and by nothing else.
PinsInv ==
    /\ "json" \in pending => pins = {}
    /\ pins # {} => HostMeta2 /\ pins \subseteq answer["json"].pins

\* The inductive invariant.
IndInv ==
    /\ AnswersTyped /\ Gathering /\ PinsInv
    /\ pc = "done" => pending = {}
    /\ TypeOK
    /\ OneConnectionPerPlace /\ PreferredStays /\ HostMeta2IsAlone /\ DnsAloneIsNotTrusted

\* It holds at the start.
LEMMA InitInv ==
    ASSUME Init
    PROVE  IndInv
  <1> USE DEF Init
  <1>1. AnswersTyped
    BY SrvAssumption DEF AnswersTyped, SrvAssumption
  <1>2. Gathering /\ PinsInv /\ pc # "done"
    BY DEF Gathering, PinsInv
  <1>3. TypeOK
    BY DEF TypeOK
  <1> QED
    BY <1>1, <1>2, <1>3
       DEF IndInv, OneConnectionPerPlace, PreferredStays, HostMeta2IsAlone, DnsAloneIsNotTrusted

\* A lookup keeps it.
LEMMA LookupKeeps ==
    ASSUME IndInv, NEW l \in Lookups, Lookup(l)
    PROVE  IndInv'
  <1>1. /\ l \in pending /\ pending' = pending \ {l} /\ pending \subseteq Lookups
        /\ is_c2s' = is_c2s /\ names' = names /\ pc' = pc /\ pc = "lookup"
    BY DEF IndInv, Lookup, TypeOK
  <1>2. PICK a \in Answers[l] :
          /\ answer' = [answer EXCEPT ![l] = a]
          /\ \/ /\ l = "json" /\ a # NoAnswer
                /\ ret' = ret \o Links(a)
                /\ pins' = IF a.xmpp THEN pins \union a.pins ELSE pins
             \/ ~(l = "json" /\ a # NoAnswer) /\ UNCHANGED <<ret, pins>>
    BY DEF Lookup
  <1>3. /\ answer = [k \in Lookups |-> answer[k]] /\ is_c2s \in BOOLEAN
        /\ \A k \in Lookups : answer[k] \in Answers[k]
    BY DEF IndInv, AnswersTyped
  <1>4. /\ answer' = [k \in Lookups |-> answer'[k]]
        /\ \A k \in Lookups : answer'[k] = IF k = l THEN a ELSE answer[k]
    BY <1>2, <1>3
  <1>5. AnswersTyped'
    BY <1>1, <1>2, <1>3, <1>4 DEF AnswersTyped
  <1>6. ret' \in Seq(JsonGood)
    <2>1. ret \in Seq(JsonGood)
      BY <1>1 DEF IndInv, Gathering
    <2>2. l = "json" /\ a # NoAnswer => Links(a) \in Seq(JsonGood)
      BY SrvAssumption, LinksIs
    <2> QED
      BY <1>2, <2>1, <2>2, ConcatProperties
  <1>7. Gathering'
    BY <1>1, <1>6 DEF IndInv, Gathering
  <1>8. PinsInv'
    <2>1. "json" \in Lookups
      BY DEF Lookups
    <2>2. CASE l = "json"
      <3>1. pins = {} /\ "json" \notin pending' /\ answer'["json"] = a
        BY <1>1, <1>4, <2>1, <2>2 DEF IndInv, PinsInv
      <3>2. pins' # {} => a # NoAnswer /\ a.xmpp /\ pins' \subseteq a.pins
        BY <1>2, <3>1
      <3> QED
        BY <3>1, <3>2 DEF PinsInv, HostMeta2
    <2>3. CASE l # "json"
      BY <1>1, <1>2, <1>4, <2>1, <2>3 DEF IndInv, PinsInv, HostMeta2
    <2> QED
      BY <2>2, <2>3
  <1>9. TypeOK'
    <2>1. \A i \in DOMAIN ret' : ret'[i] \in JsonGood
      BY <1>6
    <2>2. \A c \in JsonGood : c.priority \in U16 /\ c.src = "json"
      BY DEF JsonGood, Good, Connection
    <2> QED
      BY <1>1, <2>1, <2>2 DEF TypeOK
  <1> QED
    BY <1>1, <1>5, <1>7, <1>8, <1>9
       DEF IndInv, OneConnectionPerPlace, PreferredStays, HostMeta2IsAlone, DnsAloneIsNotTrusted

\* The defaults: three ways to the domain, of different kinds.
LEMMA DefaultsAre ==
    ASSUME Domain \in Nat
    PROVE  /\ DOMAIN Defaults = 1..3
           /\ \A i \in 1..3 : Defaults[i].priority \in U16 /\ Defaults[i].src = "default"
           /\ \A i \in 1..3, j \in 1..3 : i < j => ~Same(Defaults[i], Defaults[j])
  <1>1. /\ DOMAIN Defaults = 1..3
        /\ Defaults[1].type = "StartTLS" /\ Defaults[2].type = "DirectTLS"
        /\ Defaults[3].type = "QUIC"
    BY DEF Defaults
  <1>2. \A i \in 1..3 : Defaults[i].priority = 0 /\ Defaults[i].src = "default"
    BY DEF Defaults
  <1>3. \A i \in 1..3 : i = 1 \/ i = 2 \/ i = 3
    OBVIOUS
  <1> HIDE DEF Defaults
  <1>4. \A i \in 1..3, j \in 1..3 : i < j => Defaults[i].type # Defaults[j].type
    BY <1>1, <1>3
  <1> QED
    BY <1>1, <1>2, <1>4, Ports DEF Same

\* collect_posh brings only what a service published.
LEMMA PoshIs ==
    ASSUME SrvAssumption, AnswersTyped, NEW fp, CollectPosh # NoAnswer, fp \in CollectPosh.fps
    PROVE  \E l \in {"posh_client", "posh_server"} :
             answer[l] # NoAnswer /\ answer[l].expires > 0 /\ fp \in answer[l].fps
  <1> DEFINE client == Published("posh_client")
             server == Published("posh_server")
  <1>1. \A l \in {"posh_client", "posh_server"} : Published(l) # NoAnswer =>
          answer[l] # NoAnswer /\ answer[l].expires > 0 /\ Published(l) = answer[l]
    BY DEF Published, SrvAssumption, AnswersTyped, Lookups
  <1>2. \/ client # NoAnswer /\ fp \in client.fps
        \/ server # NoAnswer /\ fp \in server.fps
    <2>1. CASE client # NoAnswer /\ server # NoAnswer
      <3>1. CollectPosh.fps = client.fps \union server.fps
        BY <2>1 DEF CollectPosh
      <3> QED
        BY <2>1, <3>1
    <2>2. CASE server = NoAnswer
      <3>1. CollectPosh = client
        BY <2>2 DEF CollectPosh
      <3> QED
        BY <3>1
    <2>3. CASE server # NoAnswer /\ client = NoAnswer
      <3>1. CollectPosh = server
        BY <2>3 DEF CollectPosh
      <3> QED
        BY <3>1
    <2> QED
      BY <2>1, <2>2, <2>3
  <1> QED
    BY <1>1, <1>2

\* The end of get_xmpp_connections establishes what is promised of the list.
LEMMA FinishKeeps ==
    ASSUME IndInv, Finish
    PROVE  IndInv'
  <1> DEFINE s == Collected
             r == SortDedup(s)
  <1>1. /\ pc = "lookup" /\ pending = {} /\ pc' = "done" /\ found' = s
        /\ ret' = IF r = <<>> THEN Defaults ELSE r
        /\ names' = names \union {r[i].target : i \in {j \in DOMAIN r : r[j].secure}}
        /\ posh' = CollectPosh
        /\ is_c2s' = is_c2s /\ pending' = pending /\ answer' = answer /\ pins' = pins
    BY DEF Finish
  <1>2. AnswersTyped /\ ret \in Seq(JsonGood) /\ names = {Domain}
    BY <1>1 DEF IndInv, Gathering
  <1>3. s \in Seq(Good) /\ (HostMeta2 => s \in Seq(JsonGood))
    BY <1>2, SrvAssumption, CollectedIs
  <1> HIDE DEF s
  <1>4. s \in Seq(Connection)
    <2>1. Good \subseteq Connection
      BY DEF Good
    <2> QED
      BY <1>3, <2>1
  <1>5. /\ r \in Seq(Connection)
        /\ \A j \in 1..Len(r) : \E k \in 1..Len(s) : r[j] = s[k]
        /\ \A j \in 1..Len(r), k \in 1..Len(r) :
              j < k => ~Same(r[j], r[k]) /\ ~Before(r[k], r[j])
        /\ \A k \in 1..Len(s) : \E j \in 1..Len(r) : Same(r[j], s[k]) /\ ~RankLess(s[k], r[j])
    BY <1>4, SortDedupIs
  <1> HIDE DEF r
  <1>6. /\ Len(r) \in Nat /\ DOMAIN r = 1..Len(r) /\ Len(s) \in Nat /\ DOMAIN s = 1..Len(s)
        /\ \A i \in 1..Len(s) : s[i] \in Good
        /\ HostMeta2 => \A i \in 1..Len(s) : s[i] \in JsonGood
    BY <1>3, <1>4, <1>5, LenProperties, ElementOfSeq
  <1>7. /\ \A i \in 1..Len(r) : r[i] \in Good
        /\ HostMeta2 => \A i \in 1..Len(r) : r[i] \in JsonGood
    BY <1>5, <1>6
  <1>8. r = <<>> => s = <<>>
    <2>1. r = <<>> => 1..Len(s) = {}
      BY <1>5, <1>6
    <2>2. 1..Len(s) = {} => Len(s) = 0
      BY <1>6
    <2> QED
      BY <1>4, <2>1, <2>2, EmptySeq
  <1>9. \A c \in Good : /\ c \in Connection /\ c.priority \in U16 /\ c.secure \in BOOLEAN
                        /\ c.secure => c.src \in {"json", "xml"}
                        /\ c.src \in {"starttls", "direct", "quic"} => c.target # 0
    BY DEF Good, Connection
  <1>10. AnswersTyped' /\ Gathering' /\ PinsInv' /\ (pc' = "done" => pending' = {})
    BY <1>1 DEF IndInv, AnswersTyped, Gathering, PinsInv, HostMeta2
  <1>11. Domain \in Nat
    BY SrvAssumption DEF SrvAssumption
  <1>12. TypeOK'
    <2>1. ret' # <<>>
      <3>1. Defaults # <<>>
        BY DEF Defaults
      <3> QED
        BY <1>1, <3>1
    <2>2. \A i \in DOMAIN ret' :
            /\ ret'[i].priority \in U16
            /\ ret'[i].src \in {"starttls", "direct", "quic"} => ret'[i].target # 0
      <3>1. CASE r = <<>>
        BY <1>1, <1>11, <3>1, DefaultsAre
      <3>2. CASE r # <<>>
        BY <1>1, <1>6, <1>7, <1>9, <3>2
      <3> QED
        BY <3>1, <3>2
    <2> QED
      BY <1>1, <2>1, <2>2 DEF TypeOK
  <1>13. OneConnectionPerPlace'
    <2>1. CASE r = <<>>
      BY <1>1, <1>8, <1>11, <2>1, DefaultsAre DEF OneConnectionPerPlace
    <2>2. CASE r # <<>>
      BY <1>1, <1>5, <1>6, <2>2 DEF OneConnectionPerPlace
    <2> QED
      BY <2>1, <2>2
  <1>14. PreferredStays'
    <2>1. CASE r = <<>>
      BY <1>1, <1>8, <2>1 DEF PreferredStays
    <2>2. CASE r # <<>>
      <3>1. ASSUME NEW i \in 1..Len(s)
            PROVE  \E j \in 1..Len(r) :
                     /\ Same(r[j], s[i])
                     /\ s[i].secure => r[j].secure
                     /\ s[i].secure = r[j].secure => r[j].priority <= s[i].priority
        <4>1. PICK j \in 1..Len(r) : Same(r[j], s[i]) /\ ~RankLess(s[i], r[j])
          BY <1>5
        <4>2. r[j] \in Connection /\ s[i] \in Connection
          BY <1>6, <1>7, <1>9
        <4>3. Idx(s[i]) = Idx(r[j])
          BY <4>1, <4>2, Keys DEF Same
        <4>4. /\ ~(s[i].secure /\ ~r[j].secure)
              /\ s[i].secure = r[j].secure => ~(s[i].priority < r[j].priority)
          BY <4>1, <4>3 DEF Same, RankLess
        <4>5. s[i].priority \in Int /\ r[j].priority \in Int
          BY <4>2, Keys
        <4>6. ~(s[i].priority < r[j].priority) => r[j].priority <= s[i].priority
          BY <4>5
        <4> QED
          BY <4>1, <4>4, <4>6
      <3> QED
        BY <1>1, <1>6, <2>2, <3>1 DEF PreferredStays
    <2> QED
      BY <2>1, <2>2
  <1>15. HostMeta2IsAlone'
    <2>1. HostMeta2' <=> HostMeta2
      BY <1>1 DEF HostMeta2
    <2>2. CASE r = <<>>
      BY <1>1, <1>11, <2>2, DefaultsAre DEF HostMeta2IsAlone
    <2>3. CASE r # <<>>
      <3>1. \A c \in JsonGood : c.src = "json"
        BY DEF JsonGood
      <3> QED
        BY <1>1, <1>6, <1>7, <2>1, <2>3, <3>1 DEF HostMeta2IsAlone
    <2> QED
      BY <2>2, <2>3
  <1>16. DnsAloneIsNotTrusted'
    <2> SUFFICES ASSUME NEW c \in Certs, VerifyCert(c)'
                 PROVE  VouchedFor(c)'
      BY DEF DnsAloneIsNotTrusted
    <2>1. CASE c.key \in pins
      BY <1>1, <2>1 DEF IndInv, PinsInv, VouchedFor, HostMeta2
    <2>2. CASE posh' # NoAnswer /\ c.fp \in posh'.fps
      <3>1. \E l \in {"posh_client", "posh_server"} :
              answer[l] # NoAnswer /\ answer[l].expires > 0 /\ c.fp \in answer[l].fps
        BY <1>1, <1>2, <2>2, SrvAssumption, PoshIs
      <3> QED
        BY <1>1, <3>1 DEF VouchedFor
    <2>3. CASE c.ca /\ c.names \intersect names' # {}
      <3>1. PICK n \in names' : n \in c.names
        BY <2>3
      <3>2. CASE n = Domain
        BY <2>3, <3>1, <3>2 DEF VouchedFor
      <3>3. CASE n # Domain
        <4>1. PICK i \in DOMAIN r : r[i].secure /\ n = r[i].target
          BY <1>1, <1>2, <3>1, <3>3
        <4>2. PICK k \in 1..Len(s) : r[i] = s[k]
          BY <1>5, <1>6, <4>1
        <4>3. s[k].src \in {"json", "xml"} /\ s[k].target \in c.names /\ k \in DOMAIN s
          BY <1>6, <1>9, <3>1, <4>1, <4>2
        <4> QED
          BY <1>1, <2>3, <4>3 DEF VouchedFor
      <3> QED
        BY <3>2, <3>3
    <2> QED
      BY <1>1, <2>1, <2>2, <2>3 DEF VerifyCert
  <1> QED
    BY <1>10, <1>12, <1>13, <1>14, <1>15, <1>16 DEF IndInv

\* Every step keeps the invariant.
LEMMA NextInv ==
    ASSUME IndInv, [Next]_vars
    PROVE  IndInv'
  <1>1. CASE UNCHANGED vars
    BY <1>1 DEF vars, IndInv, AnswersTyped, Gathering, PinsInv, HostMeta2, TypeOK,
       OneConnectionPerPlace, PreferredStays, HostMeta2IsAlone, DnsAloneIsNotTrusted,
       VerifyCert, VouchedFor
  <1>2. CASE Next
    BY <1>2, LookupKeeps, FinishKeeps DEF Next
  <1> QED
    BY <1>1, <1>2

\* The inductive invariant is an invariant.
THEOREM Inductive == Spec => []IndInv
  BY InitInv, NextInv, PTL DEF Spec

\* get_xmpp_connections keeps its lists in range and never returns an empty
\* one; the "." of an SRV record is never connected to.
THEOREM TypeCorrect == Spec => []TypeOK
  <1>1. IndInv => TypeOK
    BY DEF IndInv
  <1> QED
    BY <1>1, Inductive, PTL

\* sort_dedup leaves each way to each place once and in order, whatever came.
THEOREM OnePerPlace == Spec => []OneConnectionPerPlace
  <1>1. IndInv => OneConnectionPerPlace
    BY DEF IndInv
  <1> QED
    BY <1>1, Inductive, PTL

\* sort_dedup keeps, of several records for one place, the preferred one.
THEOREM PreferredKept == Spec => []PreferredStays
  <1>1. IndInv => PreferredStays
    BY DEF IndInv
  <1> QED
    BY <1>1, Inductive, PTL

\* The new host-meta format suppresses everything else.
THEOREM HostMeta2Alone == Spec => []HostMeta2IsAlone
  <1>1. IndInv => HostMeta2IsAlone
    BY DEF IndInv
  <1> QED
    BY <1>1, Inductive, PTL

\* XmppServerCertVerifier accepts no certificate on the word of DNS alone.
THEOREM DnsNotTrusted == Spec => []DnsAloneIsNotTrusted
  <1>1. IndInv => DnsAloneIsNotTrusted
    BY DEF IndInv
  <1> QED
    BY <1>1, Inductive, PTL
=============================================================================
