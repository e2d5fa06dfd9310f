------------------------------ MODULE DataLemmas -----------------------------
(***************************************************************************)
(* Induction in a form that needs no operator as a parameter: the set of    *)
(* the numbers, or of the finite sets, for which something fails has a     *)
(* least element.  With it: bounds, Max and Min, that a function defined   *)
(* by recursion exists, and what FlattenSeq() of the community modules does. *)
(* From that, what it makes of a sequence with one element more, and what  *)
(* becomes of two sequences when an element goes from one to the other.    *)
(***************************************************************************)
EXTENDS SequencesExt, FiniteSetTheorems, SequenceTheorems, TLAPS

\* Every set of numbers that is not empty has a least element.
LEMMA LeastOf ==
    ASSUME NEW T \in SUBSET Nat, T # {}
    PROVE  \E n \in T : \A m \in T : n <= m
<1>1. \E n \in T : \A m \in T : ~(<<m, n>> \in OpToRel(<, Nat))
  BY NatLessThanWellFounded, WFMin
<1>2. ASSUME NEW n \in T, NEW m \in T, ~(<<m, n>> \in OpToRel(<, Nat))
      PROVE  n <= m
  BY <1>2 DEF OpToRel
<1> QED
  BY <1>1, <1>2

\* Every set of numbers below a bound that is not empty has a greatest
\* one: the least of its bounds.
LEMMA GreatestOf ==
    ASSUME NEW T \in SUBSET Nat, T # {}, NEW b \in Nat, \A m \in T : m <= b
    PROVE  \E n \in T : \A m \in T : m <= n
<1> DEFINE Bounds == {n \in Nat : \A m \in T : m <= n}
<1>1. PICK n \in Bounds : \A m \in Bounds : n <= m
  BY LeastOf
<1>2. CASE n \in T
  BY <1>1, <1>2
<1>3. CASE n \notin T
  <2>1. \A m \in T : m < n
    BY <1>3
  <2>2. n \in Nat
    OBVIOUS
  <2>3. PICK k : k \in T
    OBVIOUS
  <2>4. k \in Nat /\ k < n
    BY <2>1, <2>3
  <2>5. n - 1 \in Nat
    BY <2>2, <2>4
  <2>6. \A m \in T : m <= n - 1
    BY <2>1, <2>2
  <2>7. n <= n - 1
    BY <1>1, <2>5, <2>6
  <2> QED
    BY <2>2, <2>7
<1> QED
  BY <1>2, <1>3

\* A finite set of numbers has a bound.
LEMMA FiniteIsBounded ==
    ASSUME NEW T \in SUBSET Nat, IsFiniteSet(T)
    PROVE  \E b \in Nat : \A m \in T : m <= b
<1> DEFINE Bad == {U \in FiniteSubsetsOf(T) : ~\E b \in Nat : \A m \in U : m <= b}
<1> SUFFICES ASSUME Bad # {}
             PROVE  FALSE
  <2>1. T \in FiniteSubsetsOf(T)
    BY DEF FiniteSubsetsOf
  <2> QED
    BY <2>1
<1>1. PICK U \in Bad : \A V \in Bad : ~(<<V, U>> \in StrictSubsetOrdering(T))
  <2>1. Bad \subseteq FiniteSubsetsOf(T)
    OBVIOUS
  <2> HIDE DEF Bad
  <2> QED
    BY <2>1, FS_StrictSubsetOrderingWellFounded, WFMin
<1>2. U \subseteq T /\ IsFiniteSet(U)
  BY DEF FiniteSubsetsOf
<1>3. PICK x : x \in U
  <2>1. U # {}
    BY <1>1
  <2> QED
    BY <2>1
<1>4. U \ {x} \in FiniteSubsetsOf(T)
  BY <1>2, FS_RemoveElement DEF FiniteSubsetsOf
<1>5. <<U \ {x}, U>> \in StrictSubsetOrdering(T)
  BY <1>2, <1>3 DEF StrictSubsetOrdering
<1>6. PICK b \in Nat : \A m \in U \ {x} : m <= b
  BY <1>1, <1>4, <1>5
<1>7. x \in Nat
  BY <1>2, <1>3
<1>8. \A m \in U : m <= b + x
  BY <1>2, <1>6, <1>7
<1> QED
  BY <1>1, <1>6, <1>7, <1>8

\* Max of a finite set of numbers, which the code takes for the newest
\* record or date, is its greatest element.
LEMMA MaxOf ==
    ASSUME NEW T \in SUBSET Nat, IsFiniteSet(T), T # {}
    PROVE  Max(T) \in T /\ \A m \in T : m <= Max(T)
<1>1. \E n \in T : \A m \in T : n >= m
  BY FiniteIsBounded, GreatestOf
<1> QED
  BY <1>1 DEF Max

\* Min of a set of numbers is its least element.
LEMMA MinOf ==
    ASSUME NEW T \in SUBSET Nat, T # {}
    PROVE  Min(T) \in T /\ \A m \in T : Min(T) <= m
<1>1. \E n \in T : \A m \in T : n <= m
  BY LeastOf
<1> QED
  BY <1>1 DEF Min

\* f is defined by recursion over 0..N: by its first value and, with function
\* G[n], from each value the next.
Recurses(f, N, first, G) == f[0] = first /\ \A n \in 1..N : f[n] = G[n][f[n - 1]]

\* There is such a function.
LEMMA Recursion ==
    ASSUME NEW V, NEW N \in Nat, NEW first \in V, NEW G \in [1..N -> [V -> V]]
    PROVE  \E f \in [0..N -> V] : Recurses(f, N, first, G)
<1> DEFINE Good(k) == \E f \in [0..k -> V] : Recurses(f, k, first, G)
           Bad == {k \in 0..N : ~Good(k)}
<1>1. Good(0)
  <2>1. [n \in 0..0 |-> first] \in [0..0 -> V] /\ Recurses([n \in 0..0 |-> first], 0, first, G)
    BY DEF Recurses
  <2> QED
    BY <2>1
<1>2. ASSUME NEW k \in 1..N, Good(k - 1) PROVE Good(k)
  <2>1. k \in Nat /\ k <= N /\ k - 1 \in Nat
    OBVIOUS
  <2>2. PICK f \in [0..k - 1 -> V] : Recurses(f, k - 1, first, G)
    BY <1>2
  <2> DEFINE g == [n \in 0..k |-> IF n = k THEN G[k][f[k - 1]] ELSE f[n]]
  <2>3. f[k - 1] \in V /\ G[k][f[k - 1]] \in V
    BY <2>1, <2>2
  <2>4. g \in [0..k -> V]
    BY <2>1, <2>2, <2>3
  <2>5. Recurses(g, k, first, G)
    <3>1. g[0] = first
      BY <2>1, <2>2 DEF Recurses
    <3>2. ASSUME NEW n \in 1..k PROVE g[n] = G[n][g[n - 1]]
      BY <2>1, <2>2, <3>2 DEF Recurses
    <3> QED
      BY <3>1, <3>2 DEF Recurses
  <2> QED
    BY <2>4, <2>5
<1>3. ASSUME Bad # {} PROVE FALSE
  <2> HIDE DEF Good
  <2>1. Bad \in SUBSET Nat
    OBVIOUS
  <2> HIDE DEF Bad
  <2>2. PICK k \in Bad : \A m \in Bad : k <= m
    BY <1>3, <2>1, LeastOf
  <2> USE DEF Bad
  <2>3. k \in 1..N /\ k - 1 \notin Bad
    BY <1>1, <2>2
  <2>4. Good(k - 1)
    BY <2>3
  <2> QED
    BY <1>2, <2>2, <2>3, <2>4
<1>4. Good(N)
  <2> HIDE DEF Good
  <2> QED
    BY <1>3
<1> QED
  BY <1>4

\* f is the function in FlattenSeq().
Flattens(f, seqs) ==
    f = [i \in 1..Len(seqs) |-> IF i = 1 THEN seqs[i] ELSE f[i - 1] \o seqs[i]]

\* FlattenSeq() appends each sequence to those before it.
LEMMA FlattenSteps ==
    ASSUME NEW S, NEW seqs \in Seq(Seq(S))
    PROVE  \E f \in [0..Len(seqs) -> Seq(S)] :
               /\ f[0] = <<>> /\ f[Len(seqs)] = FlattenSeq(seqs)
               /\ \A n \in 1..Len(seqs) : f[n] = f[n - 1] \o seqs[n]
<1> DEFINE N == Len(seqs)
           V == Seq(S)
           G == [n \in 1..N |-> [s \in V |-> s \o seqs[n]]]
           flatten == CHOOSE f : Flattens(f, seqs)
<1>1. N \in Nat /\ <<>> \in V /\ \A i \in 1..N : seqs[i] \in V
  OBVIOUS
<1>2. \A s, t \in V : s \o t \in V /\ <<>> \o t = t
  OBVIOUS
<1>3. G \in [1..N -> [V -> V]]
  <2> HIDE DEF V, N
  <2> QED
    BY <1>1, <1>2
<1>4. PICK f \in [0..N -> V] : Recurses(f, N, <<>>, G)
  <2> HIDE DEF G, V, N
  <2> QED
    BY <1>1, <1>3, Recursion
<1>5. f[0] = <<>>
  BY <1>4 DEF Recurses
<1>6. ASSUME NEW n \in 1..N PROVE f[n] = f[n - 1] \o seqs[n]
  <2> HIDE DEF V, N
  <2>1. n - 1 \in 0..N
    BY <1>1
  <2>2. f[n - 1] \in V
    BY <1>4, <2>1
  <2> QED
    BY <1>4, <2>2 DEF Recurses
<1> DEFINE h == [i \in 1..N |-> f[i]]
<1>7. 1 \in 1..N => f[1] = seqs[1]
  <2> HIDE DEF V, N
  <2> SUFFICES ASSUME 1 \in 1..N PROVE f[1] = seqs[1]
    OBVIOUS
  <2>1. ASSUME NEW n \in 1..N, n = 1 PROVE f[n] = f[0] \o seqs[n]
    <3>1. n - 1 = 0
      BY <2>1
    <3> QED
      BY <1>6, <3>1
  <2>2. f[1] = <<>> \o seqs[1]
    BY <1>5, <2>1
  <2> QED
    BY <1>1, <1>2, <2>2
<1>8. Flattens(h, seqs)
  <2>1. ASSUME NEW i \in 1..N
        PROVE  h[i] = IF i = 1 THEN seqs[i] ELSE h[i - 1] \o seqs[i]
    <3> HIDE DEF V, N
    <3>1. CASE i = 1
      BY <1>7, <3>1
    <3>2. CASE i # 1
      <4>1. i - 1 \in 1..N
        BY <1>1, <3>2
      <4> QED
        BY <1>6, <3>2, <4>1
    <3> QED
      BY <3>1, <3>2
  <2> QED
    BY <2>1 DEF Flattens
<1>9. Flattens(flatten, seqs)
  BY <1>8
<1>10. ASSUME N > 0 PROVE f[N] = FlattenSeq(seqs)
  <2>1. FlattenSeq(seqs) = flatten[N]
    BY <1>10 DEF FlattenSeq, Flattens
  <2>2. \A i \in 1..N : flatten[i] = IF i = 1 THEN seqs[i] ELSE flatten[i - 1] \o seqs[i]
    BY <1>9 DEF Flattens
  <2> DEFINE Bad == {i \in 1..N : flatten[i] # f[i]}
  <2> HIDE DEF flatten, N, V
  <2>3. ASSUME Bad # {} PROVE FALSE
    <3>1. Bad \in SUBSET Nat
      BY <1>1
    <3> HIDE DEF Bad
    <3>2. PICK i \in Bad : \A j \in Bad : i <= j
      BY <2>3, <3>1, LeastOf
    <3> USE DEF Bad
    <3>3. i \in 1..N /\ flatten[i] # f[i]
      BY <3>2
    <3>4. CASE i = 1
      BY <1>7, <2>2, <3>3, <3>4
    <3>5. CASE i # 1
      <4>1. i - 1 \in 1..N /\ i - 1 \notin Bad
        BY <1>1, <3>2, <3>3, <3>5
      <4>2. flatten[i - 1] = f[i - 1]
        BY <4>1
      <4> QED
        BY <1>6, <2>2, <3>3, <3>5, <4>2
    <3> QED
      BY <3>4, <3>5
  <2>4. N \in 1..N
    BY <1>1, <1>10
  <2> QED
    BY <2>1, <2>3, <2>4
<1>11. f[N] = FlattenSeq(seqs)
  <2>1. CASE N = 0
    <3>1. seqs = <<>>
      BY <2>1
    <3>2. FlattenSeq(seqs) = <<>>
      BY <2>1, <3>1 DEF FlattenSeq
    <3> QED
      BY <1>5, <2>1, <3>2
  <2> QED
    BY <1>1, <1>10, <2>1
<1> QED
  BY <1>4, <1>5, <1>6, <1>11

-------------------------------------------------------------------------------
(* Sequences: what FlattenSeq() makes of a longer one, and pipes end to end. *)

\* FlattenSeq() of a concatenation is the concatenation.
LEMMA FlattenConcat ==
    ASSUME NEW S, NEW s \in Seq(Seq(S)), NEW t \in Seq(Seq(S))
    PROVE  /\ FlattenSeq(s \o t) = FlattenSeq(s) \o FlattenSeq(t)
           /\ FlattenSeq(s) \in Seq(S)
<1> DEFINE st == s \o t
           M == Len(s)
           N == Len(t)
<1>1. /\ M \in Nat /\ N \in Nat /\ st \in Seq(Seq(S)) /\ Len(st) = M + N
      /\ \A i \in 1..M : st[i] = s[i]
      /\ \A i \in 1..N : st[M + i] = t[i]
      /\ \A i \in 1..M : s[i] \in Seq(S)
      /\ \A i \in 1..N : t[i] \in Seq(S)
  <2>1. /\ M \in Nat /\ N \in Nat
        /\ \A i \in 1..M : s[i] \in Seq(S)
        /\ \A i \in 1..N : t[i] \in Seq(S)
    BY LenProperties, ElementOfSeq
  <2>2. /\ st \in Seq(Seq(S)) /\ Len(st) = M + N
        /\ \A i \in 1..M + N : st[i] = IF i <= M THEN s[i] ELSE t[i - M]
    BY ConcatProperties
  <2> HIDE DEF st, M, N
  <2>3. ASSUME NEW i \in 1..N PROVE st[M + i] = t[i]
    <3>1. M + i \in 1..M + N /\ ~(M + i <= M) /\ (M + i) - M = i
      BY <2>1
    <3> QED
      BY <3>1, <2>2
  <2> QED
    BY <2>1, <2>2, <2>3
<1> HIDE DEF st, M, N
<1>2. PICK f \in [0..M -> Seq(S)] :
          /\ f[0] = <<>> /\ f[M] = FlattenSeq(s)
          /\ \A n \in 1..M : f[n] = f[n - 1] \o s[n]
  BY FlattenSteps DEF M
<1>3. PICK g \in [0..N -> Seq(S)] :
          /\ g[0] = <<>> /\ g[N] = FlattenSeq(t)
          /\ \A n \in 1..N : g[n] = g[n - 1] \o t[n]
  BY FlattenSteps DEF N
<1>4. PICK h \in [0..M + N -> Seq(S)] :
          /\ h[0] = <<>> /\ h[M + N] = FlattenSeq(st)
          /\ \A n \in 1..M + N : h[n] = h[n - 1] \o st[n]
  <2>1. \E f_ \in [0..Len(st) -> Seq(S)] :
            /\ f_[0] = <<>> /\ f_[Len(st)] = FlattenSeq(st)
            /\ \A n \in 1..Len(st) : f_[n] = f_[n - 1] \o st[n]
    <3>1. ASSUME NEW seqs \in Seq(Seq(S))
          PROVE  \E f_ \in [0..Len(seqs) -> Seq(S)] :
                     /\ f_[0] = <<>> /\ f_[Len(seqs)] = FlattenSeq(seqs)
                     /\ \A n \in 1..Len(seqs) : f_[n] = f_[n - 1] \o seqs[n]
      BY FlattenSteps
    <3>2. st \in Seq(Seq(S))
      BY <1>1
    <3> QED
      BY <3>1, <3>2
  <2> QED
    BY <1>1, <2>1
<1>5. \A n \in 0..M : h[n] = f[n]
  <2> DEFINE Bad == {n \in 0..M : h[n] # f[n]}
  <2> SUFFICES ASSUME Bad # {} PROVE FALSE
    OBVIOUS
  <2>1. Bad \in SUBSET Nat
    BY <1>1
  <2> HIDE DEF Bad
  <2>2. PICK n \in Bad : \A m \in Bad : n <= m
    BY <2>1, LeastOf
  <2>3. n \in 0..M /\ h[n] # f[n] /\ \A m \in 0..M : h[m] # f[m] => n <= m
    BY <2>2 DEF Bad
  <2>4. n # 0
    BY <1>2, <1>4, <2>3
  <2>5. n \in 1..M /\ n - 1 \in 0..M /\ ~(n <= n - 1) /\ n \in 1..M + N
    BY <1>1, <2>3, <2>4
  <2>6. h[n - 1] = f[n - 1]
    BY <2>3, <2>5
  <2>7. h[n] = h[n - 1] \o st[n] /\ f[n] = f[n - 1] \o s[n] /\ st[n] = s[n]
    BY <1>1, <1>2, <1>4, <2>5
  <2> QED
    BY <2>3, <2>6, <2>7
<1>6. \A n \in 0..N : h[M + n] = FlattenSeq(s) \o g[n]
  <2> DEFINE Bad == {n \in 0..N : h[M + n] # FlattenSeq(s) \o g[n]}
  <2> SUFFICES ASSUME Bad # {} PROVE FALSE
    OBVIOUS
  <2>1. Bad \in SUBSET Nat
    BY <1>1
  <2> HIDE DEF Bad
  <2>2. PICK n \in Bad : \A m \in Bad : n <= m
    BY <2>1, LeastOf
  <2> DEFINE F == FlattenSeq(s)
  <2>a. n \in 0..N /\ h[M + n] # F \o g[n] /\ \A m \in 0..N : h[M + m] # F \o g[m] => n <= m
    BY <2>2 DEF Bad
  <2>3. F \in Seq(S) /\ F \o <<>> = F
    BY <1>1, <1>2, ConcatEmptySeq
  <2> HIDE DEF F
  <2>4. n # 0
    <3>1. M + 0 = M /\ M \in 0..M
      BY <1>1
    <3>2. h[M + 0] = F \o g[0]
      BY <1>2, <1>3, <1>5, <2>3, <3>1 DEF F
    <3> QED
      BY <2>a, <3>2
  <2>5. /\ n \in 1..N /\ n - 1 \in 0..N /\ ~(n <= n - 1) /\ M + n \in 1..M + N
        /\ (M + n) - 1 = M + (n - 1)
    BY <1>1, <2>a, <2>4
  <2>6. h[M + n] = h[M + (n - 1)] \o st[M + n] /\ st[M + n] = t[n]
    BY <1>1, <1>4, <2>5
  <2>7. h[M + (n - 1)] = F \o g[n - 1]
    BY <2>a, <2>5
  <2>8. h[M + n] = (F \o g[n - 1]) \o t[n]
    BY <2>6, <2>7
  <2>9. (F \o g[n - 1]) \o t[n] = F \o (g[n - 1] \o t[n])
    <3>1. g[n - 1] \in Seq(S) /\ t[n] \in Seq(S)
      BY <1>1, <1>3, <2>5
    <3>2. \A u, v, w \in Seq(S) : (u \o v) \o w = u \o (v \o w)
      BY ConcatAssociative, SMTT(30)
    <3> QED
      BY <3>1, <3>2, <2>3
  <2>10. h[M + n] = F \o g[n]
    BY <1>3, <2>5, <2>8, <2>9
  <2> QED
    BY <2>a, <2>10
<1>7. N \in 0..N /\ M \in 0..M
  BY <1>1
<1>8. FlattenSeq(s) \in Seq(S)
  BY <1>2, <1>7
<1> QED
  BY <1>3, <1>4, <1>6, <1>7, <1>8 DEF st

\* Of one sequence, it is that.
LEMMA FlattenOne ==
    ASSUME NEW S, NEW x \in Seq(S)
    PROVE  FlattenSeq(<<x>>) = x /\ <<x>> \in Seq(Seq(S)) /\ FlattenSeq(<<>>) = <<>>
<1>1. <<x>> \in Seq(Seq(S)) /\ Len(<<x>>) = 1 /\ <<x>>[1] = x
  OBVIOUS
<1>2. PICK f \in [0..1 -> Seq(S)] :
          /\ f[0] = <<>> /\ f[1] = FlattenSeq(<<x>>)
          /\ \A n \in 1..1 : f[n] = f[n - 1] \o <<x>>[n]
  BY <1>1, FlattenSteps
<1>3. f[1] = <<>> \o x
  <2>1. 1 \in 1..1 /\ 1 - 1 = 0
    OBVIOUS
  <2>2. f[1] = f[1 - 1] \o <<x>>[1]
    BY <1>2, <2>1
  <2> QED
    BY <1>1, <1>2, <2>1, <2>2
<1>4. FlattenSeq(<<>>) = <<>>
  BY DEF FlattenSeq
<1> QED
  BY <1>1, <1>2, <1>3, <1>4, ConcatEmptySeq

\* With one sequence more at the beginning.
LEMMA FlattenCons ==
    ASSUME NEW S, NEW x \in Seq(S), NEW s \in Seq(Seq(S))
    PROVE  FlattenSeq(<<x>> \o s) = x \o FlattenSeq(s) /\ <<x>> \o s \in Seq(Seq(S))
<1>1. FlattenSeq(<<x>>) = x /\ <<x>> \in Seq(Seq(S))
  BY FlattenOne
<1> QED
  BY <1>1, FlattenConcat, ConcatProperties

\* With one more at the end.
LEMMA FlattenAppend ==
    ASSUME NEW S, NEW n \in Nat, NEW s \in [1..n + 1 -> Seq(S)]
    PROVE  /\ FlattenSeq(s) = FlattenSeq([k \in 1..n |-> s[k]]) \o s[n + 1]
           /\ FlattenSeq([k \in 1..n |-> s[k]]) \in Seq(S)
<1> DEFINE r == [k \in 1..n |-> s[k]]
           x == s[n + 1]
           V == Seq(S)
<1>1. n + 1 \in 1..n + 1 /\ \A k \in 1..n : k \in 1..n + 1
  OBVIOUS
<1>2. x \in V /\ \A k \in 1..n : s[k] \in V
  BY <1>1
<1>3. r \in Seq(V) /\ Len(r) = n
  <2> HIDE DEF V
  <2>1. r \in [1..n -> V]
    BY <1>2
  <2> QED
    BY <2>1
<1>4. s \in Seq(V) /\ Len(s) = n + 1
  <2> HIDE DEF V
  <2>1. s \in [1..n + 1 -> V]
    BY DEF V
  <2> QED
    BY <2>1
<1>5. <<x>> \in Seq(V) /\ Len(<<x>>) = 1 /\ <<x>>[1] = x
  <2> HIDE DEF V, x
  <2> QED
    BY <1>2
<1>6. s = r \o <<x>>
  <2> DEFINE rx == r \o <<x>>
  <2>0. \A k \in 1..n : r[k] = s[k]
    OBVIOUS
  <2> HIDE DEF V, r
  <2>1. /\ rx \in Seq(V) /\ Len(rx) = n + 1
        /\ \A i \in 1..n + 1 : rx[i] = IF i <= n THEN r[i] ELSE <<x>>[i - n]
    <3> HIDE DEF x
    <3> QED
      BY <1>3, <1>5, ConcatProperties
  <2> HIDE DEF rx
  <2>2. ASSUME NEW i \in 1..n + 1 PROVE s[i] = rx[i]
    <3>1. CASE i \in 1..n
      BY <3>1, <2>0, <2>1
    <3>2. CASE i = n + 1
      <4>1. ~(i <= n) /\ i - n = 1
        BY <3>2
      <4> QED
        BY <4>1, <3>2, <2>1, <1>5
    <3> QED
      BY <3>1, <3>2
  <2>3. s = rx
    BY <1>4, <2>1, <2>2, SeqEqual
  <2> QED
    BY <2>3 DEF rx
<1>7. FlattenSeq(<<x>>) = x
  <2> HIDE DEF x, r
  <2> QED
    BY <1>2, FlattenOne
<1> HIDE DEF r, x
<1>8. /\ FlattenSeq(r \o <<x>>) = FlattenSeq(r) \o FlattenSeq(<<x>>)
      /\ FlattenSeq(r) \in Seq(S)
  BY <1>3, <1>5, FlattenConcat DEF V
<1> QED
  BY <1>6, <1>7, <1>8 DEF r, x

\* The beginning of a sequence that goes on.
LEMMA PrefixOfConcat ==
    ASSUME NEW S, NEW s \in Seq(S), NEW t \in Seq(S)
    PROVE  IsPrefix(s, s \o t)
<1> DEFINE st == s \o t
<1>1. /\ Len(s) \in Nat /\ Len(t) \in Nat
      /\ st \in Seq(S) /\ Len(st) = Len(s) + Len(t)
      /\ \A i \in 1..Len(s) + Len(t) : st[i] = IF i <= Len(s) THEN s[i] ELSE t[i - Len(s)]
  BY LenProperties, ConcatProperties
<1> HIDE DEF st
<1>2. \A i \in 1..Len(s) : s[i] \in S /\ st[i] = s[i]
  BY <1>1, ElementOfSeq
<1>3. /\ SubSeq(s, 1, Len(s)) \in Seq(S) /\ SubSeq(st, 1, Len(s)) \in Seq(S)
      /\ Len(SubSeq(s, 1, Len(s))) = Len(SubSeq(st, 1, Len(s)))
      /\ \A i \in 1..Len(s) : SubSeq(s, 1, Len(s))[i] = s[i] /\ SubSeq(st, 1, Len(s))[i] = st[i]
      /\ Len(SubSeq(s, 1, Len(s))) = Len(s)
  <2>1. 1 \in Int /\ Len(s) \in Int /\ (Len(s) - 1) + 1 = Len(s)
    BY <1>1
  <2>2. /\ SubSeq(s, 1, Len(s)) \in Seq(S)
        /\ Len(SubSeq(s, 1, Len(s))) = IF 1 <= Len(s) THEN Len(s) - 1 + 1 ELSE 0
        /\ \A i \in 1..Len(s) - 1 + 1 : SubSeq(s, 1, Len(s))[i] = s[1 + i - 1]
    BY <1>2, <2>1, SubSeqProperties
  <2>3. /\ SubSeq(st, 1, Len(s)) \in Seq(S)
        /\ Len(SubSeq(st, 1, Len(s))) = IF 1 <= Len(s) THEN Len(s) - 1 + 1 ELSE 0
        /\ \A i \in 1..Len(s) - 1 + 1 : SubSeq(st, 1, Len(s))[i] = st[1 + i - 1]
    BY <1>2, <2>1, SubSeqProperties
  <2> QED
    BY <1>1, <2>1, <2>2, <2>3
<1>4. SubSeq(s, 1, Len(s)) = SubSeq(st, 1, Len(s))
  BY <1>2, <1>3, SeqEqual
<1> QED
  BY <1>1, <1>4 DEF IsPrefix, st

\* A sequence is its head and the rest.
LEMMA HeadAndTail ==
    ASSUME NEW S, NEW t \in Seq(S), t # <<>>
    PROVE  t = <<Head(t)>> \o Tail(t) /\ <<Head(t)>> \in Seq(S) /\ Head(t) = t[1]
<1>1. Head(t) \in S /\ Tail(t) \in Seq(S)
  BY HeadTailProperties
<1> QED
  BY <1>1

\* A piece that moves from one pipe to the next changes nothing of the whole.
LEMMA PieceMoves ==
    ASSUME NEW S, NEW s \in Seq(S), NEW t \in Seq(S), t # <<>>
    PROVE  Append(s, Head(t)) \o Tail(t) = s \o t
<1>1. /\ Head(t) \in S /\ Tail(t) \in Seq(S) /\ t = <<Head(t)>> \o Tail(t)
      /\ <<Head(t)>> \in Seq(S)
  <2>1. Head(t) \in S /\ Tail(t) \in Seq(S)
    BY HeadTailProperties
  <2> QED
    BY <2>1
<1>2. Append(s, Head(t)) = s \o <<Head(t)>>
  BY <1>1, AppendIsConcat
<1>3. (s \o <<Head(t)>>) \o Tail(t) = s \o (<<Head(t)>> \o Tail(t))
  BY <1>1, ConcatAssociative, SMTT(30)
<1> QED
  BY <1>1, <1>2, <1>3

\* Nor does what is behind the two.
LEMMA PieceMovesBefore ==
    ASSUME NEW S, NEW s \in Seq(S), NEW t \in Seq(S), NEW r \in Seq(S), t # <<>>,
           NEW u, u = Append(s, Head(t)), NEW v, v = Tail(t)
    PROVE  u \o (v \o r) = s \o (t \o r)
<1>1. u \in Seq(S) /\ v \in Seq(S)
  <2>1. Head(t) \in S /\ Tail(t) \in Seq(S)
    BY HeadTailProperties
  <2> QED
    BY <2>1, AppendProperties
<1>2. u \o v = s \o t
  BY PieceMoves
<1>3. (u \o v) \o r = u \o (v \o r)
  BY ONLY <1>1, r \in Seq(S), ConcatAssociative, SMTT(30)
<1>4. (s \o t) \o r = s \o (t \o r)
  BY ONLY s \in Seq(S), t \in Seq(S), r \in Seq(S), ConcatAssociative, SMTT(30)
<1> QED
  BY ONLY <1>2, <1>3, <1>4

\* With one element more in front, the others come one place later.
LEMMA FirstOfCons ==
    ASSUME NEW S, NEW x \in S, NEW s \in Seq(S)
    PROVE  /\ <<x>> \o s \in Seq(S) /\ Len(<<x>> \o s) = Len(s) + 1
           /\ (<<x>> \o s)[1] = x /\ \A i \in 1..Len(s) : (<<x>> \o s)[i + 1] = s[i]
<1>1. <<x>> \in Seq(S) /\ Len(<<x>>) = 1 /\ <<x>>[1] = x /\ Len(s) \in Nat
  BY LenProperties
<1> DEFINE xs == <<x>> \o s
<1>2. /\ xs \in Seq(S) /\ Len(xs) = 1 + Len(s)
      /\ \A i \in 1..1 + Len(s) : xs[i] = IF i <= 1 THEN <<x>>[i] ELSE s[i - 1]
  BY <1>1, ConcatProperties
<1> HIDE DEF xs
<1>3. ASSUME NEW i \in 1..Len(s) PROVE xs[i + 1] = s[i]
  <2>1. i + 1 \in 1..1 + Len(s) /\ ~(i + 1 <= 1) /\ (i + 1) - 1 = i
    BY <1>1
  <2> QED
    BY <1>2, <2>1
<1>4. xs[1] = x
  BY <1>1, <1>2
<1> QED
  BY <1>1, <1>2, <1>3, <1>4 DEF xs
===============================================================================
