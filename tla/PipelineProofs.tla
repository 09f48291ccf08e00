--------------------------- MODULE PipelineProofs ----------------------------
(***************************************************************************)
(* Theorems about the pipeline: the table it holds is what a plan of the   *)
(* review makes of the raw table, and such a table accounts for every row  *)
(* of data and every cell; what follows it is made from what is there; and *)
(* the evidence of a snapshot lists its rows page by page.                 *)
(*                                                                         *)
(* The ledger is a concatenation of five families of issues.  It is never  *)
(* unfolded: the lemmas say of each family which issues are in it, and of  *)
(* the repeated rows that each has one issue, once; the rest follows from  *)
(* what an issue of a family says.                                         *)
(***************************************************************************)
EXTENDS Pipeline, SequenceTheorems, FiniteSetTheorems, WellFoundedInduction, TLAPS

(* A set of naturals that is not empty has a least element.                *)
LEMMA NatMin ==
    ASSUME NEW S \in SUBSET Nat, S # {}
    PROVE  Min(S) \in S /\ \A x \in S : Min(S) <= x
<1>1. PICK x \in S : \A y \in S : ~(<<y, x>> \in OpToRel(<, Nat))
    BY NatLessThanWellFounded, WFMin
<1>2. \A y \in S : x <= y
  <2> TAKE y \in S
  <2>1. x \in Nat /\ y \in Nat
      OBVIOUS
  <2>2. ~(y < x)
      BY <1>1, <2>1 DEF OpToRel
  <2> QED
      BY <2>1, <2>2
<1> QED
    BY <1>1, <1>2 DEF Min

(* A bounded one has a greatest.                                           *)
LEMMA NatMax ==
    ASSUME NEW S \in SUBSET Nat, S # {}, NEW n \in Nat, \A x \in S : x <= n
    PROVE  Max(S) \in S /\ \A x \in S : x <= Max(S)
<1> DEFINE T == {m \in Nat : \E x \in S : m = n - x}
<1>1. T \in SUBSET Nat /\ T # {}
  <2>1. PICK x \in S : TRUE
      OBVIOUS
  <2>2. n - x \in Nat
      BY <2>1
  <2>3. n - x \in T
      BY <2>1, <2>2
  <2> QED
      BY <2>3
<1>2. PICK x \in S : Min(T) = n - x /\ \A m \in T : Min(T) <= m
  <2>1. Min(T) \in T /\ \A m \in T : Min(T) <= m
      BY <1>1, NatMin
  <2> QED
      BY <2>1
<1>3. \A y \in S : x >= y
  <2> TAKE y \in S
  <2>1. n - y \in T
      OBVIOUS
  <2> QED
      BY <1>2, <2>1
<1> QED
    BY <1>2, <1>3 DEF Max

(* The numbers of a set in their order.                                    *)
LEMMA InOrder ==
    ASSUME NEW rows \in SUBSET Nat, IsFiniteSet(rows)
    PROVE  /\ Cardinality(rows) \in Nat
           /\ RowsIn(rows) \in [1..Cardinality(rows) -> rows]
           /\ \A k, l \in 1..Cardinality(rows) : k < l => RowsIn(rows)[k] < RowsIn(rows)[l]
           /\ \A r \in rows : \E k \in 1..Cardinality(rows) : RowsIn(rows)[k] = r
<1> DEFINE n == Cardinality(rows)
           below(r) == {q \in rows : q < r}
           rank == [r \in rows |-> Cardinality(below(r)) + 1]
<1>1. n \in Nat /\ IsFiniteSet(1..n) /\ Cardinality(1..n) = n
    BY FS_CardinalityType, FS_Interval
<1>2. \A r \in rows : IsFiniteSet(below(r)) /\ Cardinality(below(r)) \in 0..n - 1
  <2> TAKE r \in rows
  <2>1. IsFiniteSet(rows \ {r}) /\ Cardinality(rows \ {r}) = n - 1
      BY FS_RemoveElement
  <2>2. below(r) \in SUBSET (rows \ {r})
      OBVIOUS
  <2>3. IsFiniteSet(below(r)) /\ Cardinality(below(r)) <= n - 1
      BY <2>1, <2>2, FS_Subset
  <2>4. Cardinality(below(r)) \in Nat
      BY <2>3, FS_CardinalityType
  <2> QED
      BY <1>1, <2>3, <2>4
<1>3. \A q, r \in rows : q < r => rank[q] < rank[r]
  <2> TAKE q, r \in rows
  <2> HAVE q < r
  <2>1. below(q) \cup {q} \in SUBSET below(r) /\ q \notin below(q)
    <3>1. q \in Nat /\ r \in Nat /\ \A p \in rows : p \in Nat
        OBVIOUS
    <3>2. \A p \in below(q) : p < r
        BY <3>1
    <3>3. \A p \in below(q) : p \in below(r)
        BY <3>2
    <3>4. q \in below(r) /\ q \notin below(q)
        BY <3>1
    <3> HIDE DEF below
    <3> QED
        BY <3>3, <3>4
  <2>2. IsFiniteSet(below(q) \cup {q}) /\ Cardinality(below(q) \cup {q}) = Cardinality(below(q)) + 1
      BY <1>2, <2>1, FS_AddElement
  <2>3. Cardinality(below(q)) + 1 <= Cardinality(below(r))
      BY <1>2, <2>1, <2>2, FS_Subset
  <2>4. rank[q] = Cardinality(below(q)) + 1 /\ rank[r] = Cardinality(below(r)) + 1
      OBVIOUS
  <2>5. Cardinality(below(q)) \in Int /\ Cardinality(below(r)) \in Int
      BY <1>2
  <2> HIDE DEF below, rank
  <2> QED
      BY <2>3, <2>4, <2>5
<1>4. rank \in [rows -> 1..n]
  <2>1. \A r \in rows : Cardinality(below(r)) + 1 \in 1..n
    <3> TAKE r \in rows
    <3>1. Cardinality(below(r)) \in 0..n - 1
        BY <1>2
    <3> HIDE DEF below, n
    <3> QED
        BY <1>1, <3>1
  <2> QED
      BY <2>1
<1>5. rank \in Injection(rows, 1..n)
  <2> SUFFICES ASSUME NEW q \in rows, NEW r \in rows, rank[q] = rank[r] PROVE q = r
      BY <1>4 DEF Injection, IsInjective
  <2>1. q \in Nat /\ r \in Nat /\ rank[q] \in Int /\ rank[r] \in Int
      BY <1>4
  <2>2. ~(q < r) /\ ~(r < q)
      BY <1>3, <2>1
  <2> QED
      BY <2>1, <2>2
<1>6. rank \in Surjection(rows, 1..n)
    BY <1>1, <1>5, FS_Injection
<1>7. \A k \in 1..n : RowsIn(rows)[k] \in rows /\ rank[RowsIn(rows)[k]] = k
  <2> TAKE k \in 1..n
  <2>1. PICK r \in rows : rank[r] = k
      BY <1>6 DEF Surjection
  <2>2. Cardinality(below(r)) = k - 1
      BY <1>2, <2>1
  <2>3. RowsIn(rows)[k] \in rows /\ Cardinality(below(RowsIn(rows)[k])) = k - 1
      BY <2>2 DEF RowsIn
  <2> QED
      BY <2>3
<1>8. RowsIn(rows) \in [1..n -> rows]
    BY <1>7 DEF RowsIn
<1>9. \A k, l \in 1..n : k < l => RowsIn(rows)[k] < RowsIn(rows)[l]
  <2> TAKE k, l \in 1..n
  <2> DEFINE a == RowsIn(rows)[k]
             b == RowsIn(rows)[l]
  <2> HAVE k < l
  <2>1. a \in Nat /\ b \in Nat /\ a \in rows /\ b \in rows /\ rank[a] = k /\ rank[b] = l
      BY <1>7
  <2>2. a # b /\ (b < a => rank[b] < rank[a])
      BY <1>3, <2>1
  <2> HIDE DEF a, b, rank
  <2>3. a < b
      BY <2>1, <2>2
  <2> QED
      BY <2>3 DEF a, b
<1>10. \A r \in rows : \E k \in 1..n : RowsIn(rows)[k] = r
  <2> TAKE r \in rows
  <2>1. rank[r] \in 1..n
      BY <1>4
  <2>2. RowsIn(rows)[rank[r]] = r
      BY <1>5, <1>7, <2>1 DEF Injection, IsInjective
  <2> QED
      BY <2>1, <2>2
<1> QED
    BY <1>1, <1>8, <1>9, <1>10

(* Where the elements of the sequences 1..m of ss are in flat: at[k], of[k] *)
(* is the sequence of the k-th and its place there.                         *)
Lays(flat, ss, m, at, of) ==
    LET there == 1..Len(flat)
    IN /\ at \in [there -> 1..m] /\ of \in [there -> Nat]
       /\ \A k \in there : of[k] \in 1..Len(ss[at[k]]) /\ flat[k] = ss[at[k]][of[k]]
       /\ \A k, l \in there : k < l => \/ at[k] < at[l]
                                       \/ at[k] = at[l] /\ of[k] < of[l]
       /\ \A i \in 1..m : \A j \in 1..Len(ss[i]) : \E k \in there : at[k] = i /\ of[k] = j
Laid(flat, ss, m) ==
    \E at \in [1..Len(flat) -> 1..m], of \in [1..Len(flat) -> Nat] : Lays(flat, ss, m, at, of)

(* One sequence by itself.                                                 *)
LEMMA LaidFirst ==
    ASSUME NEW S, NEW ss, ss[1] \in Seq(S)
    PROVE  Laid(ss[1], ss, 1)
<1> DEFINE flat == ss[1]
           at == [k \in 1..Len(flat) |-> 1]
           of == [k \in 1..Len(flat) |-> k]
<1>1. Len(flat) \in Nat
    BY LenProperties
<1>2. at \in [1..Len(flat) -> 1..1] /\ of \in [1..Len(flat) -> Nat]
    BY <1>1
<1>3. \A k \in 1..Len(flat) : at[k] = 1 /\ of[k] = k
    OBVIOUS
<1> HIDE DEF at, of
<1>4. Lays(flat, ss, 1, at, of)
    BY <1>1, <1>2, <1>3 DEF Lays
<1> QED
    BY <1>2, <1>4 DEF Laid

(* One more sequence at the end.                                           *)
LEMMA LaidNext ==
    ASSUME NEW S, NEW m \in Nat \ {0, 1}, NEW flat \in Seq(S), NEW ss,
           \A i \in 1..m : ss[i] \in Seq(S), Laid(flat, ss, m - 1)
    PROVE  Laid(flat \o ss[m], ss, m)
<1> DEFINE more == flat \o ss[m]
           n == Len(flat)
<1>1. PICK at0 \in [1..n -> 1..m - 1], of0 \in [1..n -> Nat] : Lays(flat, ss, m - 1, at0, of0)
    BY DEF Laid
<1>0. /\ \A k \in 1..n : of0[k] \in 1..Len(ss[at0[k]])
      /\ \A k \in 1..n : flat[k] = ss[at0[k]][of0[k]]
    BY <1>1 DEF Lays
<1>2. /\ m \in 1..m /\ m - 1 \in Nat /\ \A i \in 1..m - 1 : i \in 1..m /\ i < m
      /\ \A i \in 1..m : i \in 1..m - 1 \/ i = m
    OBVIOUS
<1>3. ss[m] \in Seq(S)
    BY <1>2
<1>4. /\ n \in Nat /\ Len(ss[m]) \in Nat /\ Len(more) = n + Len(ss[m])
      /\ \A k \in 1..Len(more) : more[k] = IF k <= n THEN flat[k] ELSE ss[m][k - n]
    BY <1>3, LenProperties, ConcatProperties
<1> HIDE DEF more
<1> DEFINE at == [k \in 1..Len(more) |-> IF k <= n THEN at0[k] ELSE m]
           of == [k \in 1..Len(more) |-> IF k <= n THEN of0[k] ELSE k - n]
<1>5. /\ \A k \in 1..Len(more) : k \in 1..n \/ (k - n \in 1..Len(ss[m]) /\ ~(k <= n))
      /\ \A k \in 1..n : k \in 1..Len(more) /\ k <= n
    BY <1>4
<1>6. \A k \in 1..n : /\ at[k] = at0[k] /\ of[k] = of0[k] /\ at0[k] \in 1..m - 1 /\ of0[k] \in Nat
                      /\ more[k] = flat[k]
    BY <1>4, <1>5
<1>7. \A k \in 1..Len(more) : k \notin 1..n =>
          at[k] = m /\ of[k] = k - n /\ more[k] = ss[m][k - n] /\ k - n \in 1..Len(ss[m])
    BY <1>4, <1>5
<1>8. at \in [1..Len(more) -> 1..m] /\ of \in [1..Len(more) -> Nat]
  <2>1. \A k \in 1..Len(more) :
            (IF k <= n THEN at0[k] ELSE m) \in 1..m /\ (IF k <= n THEN of0[k] ELSE k - n) \in Nat
    <3> TAKE k \in 1..Len(more)
    <3>1. CASE k \in 1..n
        BY <1>2, <1>5, <1>6, <3>1
    <3>2. CASE k \notin 1..n
        BY <1>2, <1>5, <1>7, <3>2
    <3> QED
        BY <3>1, <3>2
  <2> QED
      BY <2>1
<1> HIDE DEF at, of
<1>9. \A k \in 1..Len(more) : of[k] \in 1..Len(ss[at[k]]) /\ more[k] = ss[at[k]][of[k]]
  <2> TAKE k \in 1..Len(more)
  <2>1. CASE k \in 1..n
    <3> QED
        BY <1>0, <1>6, <2>1
  <2>2. CASE k \notin 1..n
      BY <1>7, <2>2
  <2> QED
      BY <2>1, <2>2
<1>10. \A k, l \in 1..Len(more) : k < l => \/ at[k] < at[l]
                                           \/ at[k] = at[l] /\ of[k] < of[l]
  <2> TAKE k, l \in 1..Len(more)
  <2> HAVE k < l
  <2>1. CASE k \in 1..n /\ l \in 1..n
    <3>1. at0[k] < at0[l] \/ (at0[k] = at0[l] /\ of0[k] < of0[l])
        BY <1>1, <2>1 DEF Lays
    <3> QED
        BY <1>6, <2>1, <3>1
  <2>2. CASE k \in 1..n /\ l \notin 1..n
    <3>1. at[k] \in 1..m - 1 /\ at[l] = m
        BY <1>6, <1>7, <2>2
    <3> QED
        BY <3>1
  <2>3. CASE k \notin 1..n
    <3>1. l \notin 1..n
        BY <1>4, <2>3
    <3>2. at[k] = m /\ at[l] = m /\ of[k] = k - n /\ of[l] = l - n
        BY <1>7, <2>3, <3>1
    <3> QED
        BY <1>4, <3>2
  <2> QED
      BY <2>1, <2>2, <2>3
<1>11. \A i \in 1..m : \A j \in 1..Len(ss[i]) : \E k \in 1..Len(more) : at[k] = i /\ of[k] = j
  <2> TAKE i \in 1..m
  <2> TAKE j \in 1..Len(ss[i])
  <2>1. CASE i \in 1..m - 1
    <3>0. \A a \in 1..m - 1 : \A b \in 1..Len(ss[a]) : \E k \in 1..n : at0[k] = a /\ of0[k] = b
        BY <1>1 DEF Lays
    <3>1. PICK k \in 1..n : at0[k] = i /\ of0[k] = j
        BY <2>1, <3>0
    <3> QED
        BY <1>5, <1>6, <3>1
  <2>2. CASE i = m
    <3>1. /\ j + n \in 1..Len(more) /\ j + n \notin 1..n /\ (j + n) - n = j
        BY <1>4, <2>2
    <3>2. at[j + n] = m /\ of[j + n] = (j + n) - n
        BY <1>7, <3>1
    <3> QED
        BY <2>2, <3>1, <3>2
  <2> QED
      BY <1>2, <2>1, <2>2
<1>12. Lays(more, ss, m, at, of)
    BY <1>8, <1>9, <1>10, <1>11 DEF Lays
<1> QED
    BY <1>8, <1>12 DEF Laid, more

(* The recursion of FlattenSeq: there is a function that obeys it, of its  *)
(* values up to m.                                                         *)
FlattensTo(g, ss, m) ==
    g = [i \in 1..m |-> IF i = 1 THEN ss[i] ELSE g[i - 1] \o ss[i]]

LEMMA FlattenDefined ==
    ASSUME NEW n \in Nat, NEW ss
    PROVE  \E g : FlattensTo(g, ss, n)
<1> DEFINE without == {m \in Nat : ~\E g : FlattensTo(g, ss, m)}
<1>1. SUFFICES ASSUME without # {} PROVE FALSE
    OBVIOUS
<1>2. without \in SUBSET Nat
    OBVIOUS
<1>3. PICK m \in without : \A k \in without : m <= k
  <2> HIDE DEF without
  <2> QED
      BY <1>1, <1>2, NatMin
<1>4. m \in Nat /\ ~\E g : FlattensTo(g, ss, m)
    OBVIOUS
<1>5. m # 0
  <2> SUFFICES ASSUME m = 0 PROVE FALSE
      OBVIOUS
  <2> DEFINE g == [i \in 1..0 |-> i]
  <2>1. g = [i \in 1..0 |-> IF i = 1 THEN ss[i] ELSE g[i - 1] \o ss[i]]
      OBVIOUS
  <2> HIDE DEF g
  <2> QED
      BY <1>4, <2>1 DEF FlattensTo
<1>6. m - 1 \in Nat /\ m - 1 \notin without
    BY <1>3, <1>4, <1>5
<1>7. PICK g : FlattensTo(g, ss, m - 1)
    BY <1>6
<1> DEFINE h == [i \in 1..m |-> IF i = 1 THEN ss[i] ELSE g[i - 1] \o ss[i]]
<1>8. \A i \in 1..m - 1 : h[i] = g[i]
  <2> TAKE i \in 1..m - 1
  <2>1. i \in 1..m
      BY <1>4
  <2>2. g[i] = IF i = 1 THEN ss[i] ELSE g[i - 1] \o ss[i]
      BY <1>7 DEF FlattensTo
  <2> QED
      BY <2>1, <2>2
<1>9. \A i \in 1..m : (IF i = 1 THEN ss[i] ELSE g[i - 1] \o ss[i])
                          = (IF i = 1 THEN ss[i] ELSE h[i - 1] \o ss[i])
  <2> TAKE i \in 1..m
  <2>1. CASE i = 1
      BY <2>1
  <2>2. CASE i # 1
    <3>1. i - 1 \in 1..m - 1
        BY <1>4, <2>2
    <3>2. h[i - 1] = g[i - 1]
        BY <1>8, <3>1
    <3> HIDE DEF h
    <3> QED
        BY <2>2, <3>2
  <2> QED
      BY <2>1, <2>2
<1>10. h = [i \in 1..m |-> IF i = 1 THEN ss[i] ELSE h[i - 1] \o ss[i]]
  <2>1. [i \in 1..m |-> IF i = 1 THEN ss[i] ELSE g[i - 1] \o ss[i]]
            = [i \in 1..m |-> IF i = 1 THEN ss[i] ELSE h[i - 1] \o ss[i]]
    <3> HIDE DEF h
    <3> QED
        BY <1>9, Zenon
  <2> QED
      BY <2>1
<1> HIDE DEF h
<1>11. FlattensTo(h, ss, m)
    BY <1>10 DEF FlattensTo
<1> QED
    BY <1>4, <1>11

(* A sequence of n sequences of S, folded away from the provers.           *)
Listing(ss, n, S) == n \in Nat /\ ss \in [1..n -> Seq(S)]

(* FlattenSeq lays the sequences end to end.                               *)
LEMMA Flattened ==
    ASSUME NEW S, NEW n, NEW ss, Listing(ss, n, S)
    PROVE  FlattenSeq(ss) \in Seq(S) /\ Laid(FlattenSeq(ss), ss, n)
<1> USE DEF Listing
<1>1. ss \in Seq(Seq(S)) /\ Len(ss) = n
  <2>1. ss \in Seq(Seq(S))
      BY SeqDef
  <2>2. Len(ss) \in Nat /\ DOMAIN ss = 1..Len(ss) /\ DOMAIN ss = 1..n
      BY <2>1, LenProperties
  <2> QED
      BY <2>1, <2>2
<1>2. CASE n = 0
  <2>1. FlattenSeq(ss) = ss /\ ss \in Seq(S) /\ Len(ss) = 0
    <3>1. ss \in [1..0 -> S]
        BY <1>2
    <3> QED
        BY <1>1, <1>2, <3>1, SeqDef DEF FlattenSeq
  <2> DEFINE none == [k \in 1..0 |-> 0]
  <2>2. none \in [1..0 -> 1..0] /\ none \in [1..0 -> Nat]
      OBVIOUS
  <2> HIDE DEF none
  <2>3. Lays(ss, ss, 0, none, none)
      BY <2>1, <2>2 DEF Lays
  <2>4. Laid(ss, ss, 0)
      BY <2>1, <2>2, <2>3 DEF Laid
  <2> QED
      BY <1>2, <2>1, <2>4
<1>3. CASE n # 0
  <2> DEFINE g == CHOOSE h : FlattensTo(h, ss, n)
  <2>1. FlattensTo(g, ss, n)
      BY FlattenDefined
  <2>2. FlattenSeq(ss) = g[n]
      BY <1>1, <1>3 DEF FlattenSeq, FlattensTo
  <2> HIDE DEF g
  <2>3. \A i \in 1..n : g[i] = IF i = 1 THEN ss[i] ELSE g[i - 1] \o ss[i]
      BY <2>1 DEF FlattensTo
  <2> DEFINE good(i) == g[i] \in Seq(S) /\ Laid(g[i], ss, i)
             bad == {i \in 1..n : ~good(i)}
  <2>4. good(1)
    <3>1. 1 \in 1..n
        BY <1>3
    <3>2. g[1] = ss[1] /\ ss[1] \in Seq(S)
        BY <2>3, <3>1
    <3> QED
        BY <3>2, LaidFirst
  <2>5. \A i \in 1..n : i # 1 /\ good(i - 1) => good(i)
    <3> TAKE i \in 1..n
    <3> HAVE i # 1 /\ good(i - 1)
    <3>1. i \in Nat \ {0, 1} /\ \A j \in 1..i : j \in 1..n
        OBVIOUS
    <3>2. \A j \in 1..i : ss[j] \in Seq(S)
        BY <3>1
    <3>3. Laid(g[i - 1] \o ss[i], ss, i)
        BY <3>1, <3>2, LaidNext
    <3>4. ss[i] \in Seq(S) /\ g[i] = g[i - 1] \o ss[i]
        BY <2>3
    <3>5. g[i - 1] \o ss[i] \in Seq(S)
        BY <3>4, ConcatProperties
    <3> QED
        BY <3>3, <3>4, <3>5
  <2> HIDE DEF good
  <2>6. bad = {}
    <3> SUFFICES ASSUME bad # {} PROVE FALSE
        OBVIOUS
    <3>1. bad \in SUBSET Nat
        OBVIOUS
    <3>2. PICK i \in bad : \A j \in bad : i <= j
      <4> HIDE DEF bad
      <4> QED
          BY <3>1, NatMin
    <3>3. i \in 1..n /\ ~good(i) /\ i # 1
        BY <2>4
    <3>4. i - 1 \in 1..n /\ i - 1 \notin bad
        BY <3>2, <3>3
    <3> QED
        BY <2>5, <3>3, <3>4
  <2>7. good(n)
      BY <1>3, <2>6
  <2> QED
      BY <2>2, <2>7 DEF good
<1> QED
    BY <1>2, <1>3

(* A column has an id of its own, which is not the one for no column.      *)
LEMMA ColumnIdOwn ==
    ASSUME NEW src, RawTable(src), NEW c \in Columns(src), NEW d \in Columns(src)
    PROVE  /\ ColumnId(src, c) = ColumnId(src, d) => c = d
           /\ ColumnId(src, c) # NoField
<1> DEFINE same(e) == {x \in 1..e : src.headers[x].slug = src.headers[e].slug}
<1>1. \A e \in Columns(src) : /\ e \in Nat \ {0} /\ IsFiniteSet(same(e)) /\ same(e) # {}
                              /\ Cardinality(same(e)) \in Nat
  <2> TAKE e \in Columns(src)
  <2>1. e \in Nat \ {0}
      BY DEF RawTable
  <2>2. same(e) \in SUBSET (1..e) /\ e \in same(e)
      BY <2>1
  <2> HIDE DEF same
  <2>3. IsFiniteSet(1..e)
      BY <2>1, FS_Interval
  <2> QED
      BY <2>1, <2>2, <2>3, FS_Subset, FS_CardinalityType
<1>2. \A e \in Columns(src) : ColumnId(src, e) = <<src.headers[e].slug, Cardinality(same(e))>>
    BY DEF ColumnId
<1>3. \A a, b \in Columns(src) : a < b /\ src.headers[a].slug = src.headers[b].slug =>
          Cardinality(same(a)) # Cardinality(same(b))
  <2> TAKE a, b \in Columns(src)
  <2> HAVE a < b /\ src.headers[a].slug = src.headers[b].slug
  <2>1. a \in Nat \ {0} /\ b \in Nat \ {0}
      BY <1>1
  <2>2. \A x \in same(a) : x \in same(b)
      BY <2>1
  <2>3. b \in same(b) /\ b \notin same(a)
      BY <2>1
  <2>4. same(a) \in SUBSET same(b) /\ same(a) # same(b)
      BY <2>2, <2>3
  <2> HIDE DEF same
  <2> QED
      BY <1>1, <2>4, FS_Subset
<1>4. ColumnId(src, c) = ColumnId(src, d) => c = d
  <2> HAVE ColumnId(src, c) = ColumnId(src, d)
  <2>1. src.headers[c].slug = src.headers[d].slug /\ Cardinality(same(c)) = Cardinality(same(d))
      BY <1>2
  <2>2. c \in Nat /\ d \in Nat
      BY <1>1
  <2>3. ~(c < d) /\ ~(d < c)
      BY <1>3, <2>1
  <2> QED
      BY <2>2, <2>3
<1>5. ColumnId(src, c) # NoField
  <2>1. Cardinality(same(c)) # 0
    <3> HIDE DEF same
    <3> QED
        BY <1>1, FS_EmptySet
  <2> DEFINE n == Cardinality(same(c))
  <2>2. n \in Nat /\ n # 0
      BY <1>1, <2>1
  <2>3. ColumnId(src, c)[2] = n /\ NoField[2] = 0
      BY <1>2 DEF NoField
  <2> HIDE DEF n
  <2> QED
      BY <2>2, <2>3
<1> QED
    BY <1>4, <1>5

(* A proposed column has the id and the place of its source column.        *)
LEMMA ColumnFields ==
    ASSUME NEW src, NEW c
    PROVE  ProposedColumn(src, c).id = ColumnId(src, c) /\ ProposedColumn(src, c).sourceColumn = c
BY DEF ProposedColumn, ColumnOfType

(* The earliest row of the texts of a row: it is its own canonical row.    *)
LEMMA CanonicalRow ==
    ASSUME NEW src, RawTable(src), NEW r \in DataRows(src)
    PROVE  LET k == Canonical(src, r)
           IN /\ k \in DataRows(src) /\ k <= r /\ RowKey(src, k) = RowKey(src, r)
              /\ Canonical(src, k) = k
<1> DEFINE alike(x) == {q \in DataRows(src) : q <= x /\ RowKey(src, q) = RowKey(src, x)}
           k == Canonical(src, r)
<1>1. DataRows(src) \in SUBSET Nat
    BY DEF RawTable, DataRows
<1>2. \A x \in DataRows(src) : alike(x) \in SUBSET Nat /\ x \in alike(x)
    BY <1>1
<1>3. \A x \in DataRows(src) : Canonical(src, x) = Min(alike(x))
    BY DEF Canonical
<1>4. \A x \in DataRows(src) : /\ Canonical(src, x) \in alike(x)
                               /\ \A y \in alike(x) : Canonical(src, x) <= y
  <2> TAKE x \in DataRows(src)
  <2> HIDE DEF alike
  <2> QED
      BY <1>2, <1>3, NatMin
<1>5. k \in DataRows(src) /\ k <= r /\ RowKey(src, k) = RowKey(src, r)
    BY <1>4
<1>6. Canonical(src, k) \in alike(k) /\ Canonical(src, k) \in alike(r)
  <2>1. Canonical(src, k) \in alike(k)
      BY <1>4, <1>5
  <2> HIDE DEF k
  <2>2. /\ Canonical(src, k) \in DataRows(src) /\ Canonical(src, k) <= k
        /\ RowKey(src, Canonical(src, k)) = RowKey(src, r)
      BY <1>5, <2>1
  <2>3. Canonical(src, k) <= r
      BY <1>1, <1>5, <2>2
  <2> QED
      BY <2>1, <2>2, <2>3
<1>7. k <= Canonical(src, k) /\ Canonical(src, k) <= k
    BY <1>4, <1>6
<1>8. k \in Nat /\ Canonical(src, k) \in Nat
    BY <1>1, <1>5, <1>6
<1> HIDE DEF k
<1>9. Canonical(src, k) = k
    BY <1>7, <1>8
<1> QED
    BY <1>5, <1>9 DEF k

(* A sequence of sequences laid end to end holds what each of them holds.  *)
LEMMA FlattenHolds ==
    ASSUME NEW S, NEW n, NEW ss, Listing(ss, n, S), NEW i \in 1..n, NEW j \in 1..Len(ss[i])
    PROVE  \E k \in 1..Len(FlattenSeq(ss)) : FlattenSeq(ss)[k] = ss[i][j]
<1> DEFINE flat == FlattenSeq(ss)
<1>1. flat \in Seq(S) /\ Laid(flat, ss, n)
    BY Flattened
<1> HIDE DEF flat
<1>2. PICK at \in [1..Len(flat) -> 1..n], of \in [1..Len(flat) -> Nat] : Lays(flat, ss, n, at, of)
    BY <1>1 DEF Laid
<1>3. /\ \A k \in 1..Len(flat) : flat[k] = ss[at[k]][of[k]]
      /\ \A a \in 1..n : \A b \in 1..Len(ss[a]) : \E k \in 1..Len(flat) : at[k] = a /\ of[k] = b
    BY <1>2 DEF Lays
<1>4. PICK k \in 1..Len(flat) : at[k] = i /\ of[k] = j
    BY <1>3
<1>5. \E l \in 1..Len(flat) : flat[l] = ss[i][j]
    BY <1>3, <1>4
<1> QED
    BY <1>5 DEF flat

(* Of sequences of one element or none, no two of which are alike, no      *)
(* element comes twice.                                                    *)
LEMMA FlattenOnce ==
    ASSUME NEW S, NEW n, NEW ss, Listing(ss, n, S),
           \A i \in 1..n : Len(ss[i]) <= 1,
           \A i, j \in 1..n : Len(ss[i]) = 1 /\ Len(ss[j]) = 1 /\ ss[i][1] = ss[j][1] => i = j
    PROVE  \A k, l \in 1..Len(FlattenSeq(ss)) : FlattenSeq(ss)[k] = FlattenSeq(ss)[l] => k = l
<1> DEFINE flat == FlattenSeq(ss)
<1>1. flat \in Seq(S) /\ Laid(flat, ss, n)
    BY Flattened
<1> HIDE DEF flat
<1>2. PICK at \in [1..Len(flat) -> 1..n], of \in [1..Len(flat) -> Nat] : Lays(flat, ss, n, at, of)
    BY <1>1 DEF Laid
<1>3. /\ \A k \in 1..Len(flat) : of[k] \in 1..Len(ss[at[k]]) /\ flat[k] = ss[at[k]][of[k]]
      /\ \A k, l \in 1..Len(flat) : k < l => at[k] < at[l] \/ (at[k] = at[l] /\ of[k] < of[l])
    BY <1>2 DEF Lays
<1>4. \A i \in 1..n : Len(ss[i]) \in Nat
    BY LenProperties DEF Listing
<1>5. Len(flat) \in Nat
    BY <1>1, LenProperties
<1>6. \A k \in 1..Len(flat) : of[k] = 1 /\ Len(ss[at[k]]) = 1 /\ at[k] \in 1..n
  <2> TAKE k \in 1..Len(flat)
  <2>1. at[k] \in 1..n /\ of[k] \in 1..Len(ss[at[k]])
      BY <1>2, <1>3
  <2>2. Len(ss[at[k]]) <= 1 /\ Len(ss[at[k]]) \in Nat
      BY <1>4, <2>1
  <2>3. \A a, b : b \in Nat /\ b <= 1 /\ a \in 1..b => a = 1 /\ b = 1
      OBVIOUS
  <2> QED
      BY <2>1, <2>2, <2>3, Zenon
<1>7. SUFFICES ASSUME NEW k \in 1..Len(flat), NEW l \in 1..Len(flat), flat[k] = flat[l]
               PROVE  k = l
    BY DEF flat
<1>8. ss[at[k]][1] = ss[at[l]][1]
    BY <1>3, <1>6, <1>7
<1>9. at[k] = at[l]
    BY <1>6, <1>8
<1>10. ~(k < l) /\ ~(l < k)
  <2>1. ~(at[k] < at[l]) /\ ~(at[l] < at[k]) /\ ~(of[k] < of[l]) /\ ~(of[l] < of[k])
      BY <1>6, <1>9
  <2> QED
      BY <1>3, <2>1
<1> QED
    BY <1>5, <1>7, <1>10

(* The two sequences of at most one element.                               *)
LEMMA OneOrNone ==
    ASSUME NEW S
    PROVE  /\ <<>> \in Seq(S) /\ Len(<<>>) = 0
           /\ \A x \in S : <<x>> \in Seq(S) /\ Len(<<x>>) = 1 /\ <<x>>[1] = x
BY EmptySeq

(* The rows of data, in their order.                                       *)
LEMMA RowsOfData ==
    ASSUME NEW src, RawTable(src)
    PROVE  /\ IsFiniteSet(DataRows(src)) /\ DataRows(src) \subseteq Rows(src)
           /\ Cardinality(DataRows(src)) \in Nat
           /\ DataRowSeq(src) \in [1..Cardinality(DataRows(src)) -> DataRows(src)]
           /\ \A k, l \in 1..Cardinality(DataRows(src)) :
                 DataRowSeq(src)[k] = DataRowSeq(src)[l] => k = l
           /\ \A r \in DataRows(src) :
                 \E k \in 1..Cardinality(DataRows(src)) : DataRowSeq(src)[k] = r
<1>1. DataRows(src) \in SUBSET Rows(src)
    BY DEF DataRows
<1>2. DataRows(src) \in SUBSET Nat /\ IsFiniteSet(DataRows(src))
    BY <1>1, FS_Subset DEF RawTable
<1> DEFINE n == Cardinality(DataRows(src))
           rows == DataRowSeq(src)
<1>3. /\ n \in Nat /\ rows \in [1..n -> DataRows(src)]
      /\ \A k, l \in 1..n : k < l => rows[k] < rows[l]
      /\ \A r \in DataRows(src) : \E k \in 1..n : rows[k] = r
    BY <1>2, InOrder DEF DataRowSeq
<1> HIDE DEF n, rows
<1>4. \A k, l \in 1..n : rows[k] = rows[l] => k = l
  <2> TAKE k, l \in 1..n
  <2> HAVE rows[k] = rows[l]
  <2>1. rows[k] \in Nat /\ rows[l] \in Nat
      BY <1>2, <1>3
  <2>2. ~(rows[k] < rows[l]) /\ ~(rows[l] < rows[k])
      BY <2>1
  <2>3. ~(k < l) /\ ~(l < k)
      BY <1>3, <2>2
  <2> QED
      BY <2>3
<1> QED
    BY <1>1, <1>2, <1>3, <1>4 DEF n, rows
----

(* The issues a profile may have: those of the headers,                    *)
HeaderSet(src) ==
    {Issue(<<name, 0, c>>, "header", HeaderRow, ColumnId(src, c), NoText, NoText,
           "confirm-type", NoRow) : name \in {"header", "ambiguous"}, c \in Columns(src)}

(* those of the rows that repeat an earlier one,                           *)
Duplicate(src, r) ==
    Issue(<<"duplicate", r, 0>>, "duplicate", r, NoField, CellText(src, r, 1), NoText,
          "exclude-row", Canonical(src, r))
Repeated(src) == {r \in DataRows(src) : Canonical(src, r) # r}
DuplicateSet(src) == {Duplicate(src, r) : r \in Repeated(src)}
Places(src) == DataRows(src) \X Columns(src)

(* those of the spellings of a category,                                   *)
CategorySet(src) ==
    {CategoryIssue(src, p[1], ProposedColumn(src, p[2])) :
        p \in {x \in Places(src) : Varies(src, x[1], x[2])}}

(* those of missing texts,                                                 *)
MissingSet(src) ==
    {Issue(<<"missing", p[1], n>>, "missing", p[1], ColumnId(src, p[2]), NoText, NoText,
           "none", NoRow) : p \in Places(src), n \in Columns(src) \cup {0}}

(* and those of what is written in a cell.                                 *)
Written(src) == {x \in Places(src) : CellText(src, x[1], x[2]) # NoText}
TextsOf(src) ==
    {NoText} \cup UNION {{CellText(src, p[1], p[2]), CellAt(src, p[1], p[2]).cached} : p \in Places(src)}
CellRules ==
    {<<"formula", "formula-cache", "use-cache">>, <<"date", "ambiguous-date", "confirm-type">>,
     <<"precision", "precision", "confirm-type">>, <<"malformed", "malformed", "none">>}
CellSet(src) ==
    {CellIssue(w[1], w[2], p[1], ProposedColumn(src, p[2]), CellText(src, p[1], p[2]), t, w[3]) :
        w \in CellRules, p \in Written(src), t \in TextsOf(src)}
IssueSet(src) ==
    HeaderSet(src) \cup DuplicateSet(src) \cup CategorySet(src) \cup MissingSet(src) \cup CellSet(src)

(* The issues of headers are among these.                                  *)
LEMMA HeaderIssuesAre ==
    ASSUME NEW src, RawTable(src)
    PROVE  HeaderIssues(src) \in Seq(HeaderSet(src))
<1> DEFINE S == HeaderSet(src)
           n == Len(src.headers)
           issue(c, id) == Issue(<<id, 0, c>>, "header", HeaderRow, ColumnId(src, c),
                                 NoText, NoText, "confirm-type", NoRow)
           first(c) == Min({d \in 1..c : ~src.headers[d].blank
                                             /\ src.headers[d].fold = src.headers[c].fold})
           blanks == [c \in Columns(src) |-> When(src.headers[c].blank, issue(c, "header"))]
           twice == [c \in Columns(src) |->
                        When(~src.headers[c].blank
                                 /\ src.headers[first(c)].label # src.headers[c].label,
                             issue(c, "ambiguous"))]
<1>1. n \in Nat /\ Columns(src) = 1..n
    BY DEF RawTable
<1>2. \A c \in Columns(src) : issue(c, "header") \in S /\ issue(c, "ambiguous") \in S
  <2>1. S = {issue(c, name) : name \in {"header", "ambiguous"}, c \in Columns(src)}
      BY DEF HeaderSet
  <2> HIDE DEF issue, S
  <2> QED
      BY <2>1
<1>3. HeaderIssues(src) = FlattenSeq(blanks) \o FlattenSeq(twice)
    BY DEF HeaderIssues
<1> HIDE DEF issue, S, n, first
<1>4. Listing(blanks, n, S) /\ Listing(twice, n, S)
    BY <1>1, <1>2, OneOrNone DEF When, Listing
<1> HIDE DEF blanks, twice
<1>5. FlattenSeq(blanks) \in Seq(S) /\ FlattenSeq(twice) \in Seq(S)
    BY <1>4, Flattened
<1> QED
    BY <1>3, <1>5, ConcatProperties DEF S

(* Each repeated row has its issue, once.                                  *)
LEMMA DuplicateIssuesAre ==
    ASSUME NEW src, RawTable(src)
    PROVE  /\ DuplicateIssues(src) \in Seq(DuplicateSet(src))
           /\ \A k, l \in 1..Len(DuplicateIssues(src)) :
                 DuplicateIssues(src)[k] = DuplicateIssues(src)[l] => k = l
           /\ \A r \in Repeated(src) :
                 \E k \in 1..Len(DuplicateIssues(src)) : DuplicateIssues(src)[k] = Duplicate(src, r)
<1> DEFINE S == DuplicateSet(src)
           n == Cardinality(DataRows(src))
           rows == DataRowSeq(src)
           ss == [i \in 1..n |-> DuplicateIssue(src, rows[i], Canonical(src, rows[i]))]
<1>1. /\ n \in Nat /\ rows \in [1..n -> DataRows(src)]
      /\ \A k, l \in 1..n : rows[k] = rows[l] => k = l
      /\ \A r \in DataRows(src) : \E k \in 1..n : rows[k] = r
    BY RowsOfData
<1> HIDE DEF rows, n
<1>2. DuplicateIssues(src) = FlattenSeq(ss)
  <2>1. DOMAIN rows = 1..n
      BY <1>1
  <2> QED
      BY <2>1 DEF DuplicateIssues, DuplicatesIn, rows
<1>3. \A i \in 1..n : IF rows[i] \in Repeated(src) THEN ss[i] = <<Duplicate(src, rows[i])>>
                                                   ELSE ss[i] = <<>>
  <2> TAKE i \in 1..n
  <2>1. rows[i] \in DataRows(src) /\ ss[i] = DuplicateIssue(src, rows[i], Canonical(src, rows[i]))
      BY <1>1
  <2> HIDE DEF ss
  <2>2. rows[i] \in Repeated(src) <=> Canonical(src, rows[i]) # rows[i]
      BY <2>1 DEF Repeated
  <2>3. CASE rows[i] \in Repeated(src)
      BY <2>1, <2>2, <2>3 DEF DuplicateIssue, When, Duplicate
  <2>4. CASE rows[i] \notin Repeated(src)
      BY <2>1, <2>2, <2>4 DEF DuplicateIssue, When, Duplicate
  <2> QED
      BY <2>3, <2>4
<1>4. \A r \in Repeated(src) : Duplicate(src, r) \in S
    BY DEF DuplicateSet
<1>5. \A i \in 1..n : /\ ss[i] \in Seq(S) /\ Len(ss[i]) <= 1
                      /\ Len(ss[i]) = 1 => ss[i][1] = Duplicate(src, rows[i])
                      /\ rows[i] \in Repeated(src) => Len(ss[i]) = 1
  <2> TAKE i \in 1..n
  <2> HIDE DEF ss, S
  <2>1. CASE rows[i] \in Repeated(src)
    <3>1. ss[i] = <<Duplicate(src, rows[i])>> /\ Duplicate(src, rows[i]) \in S
        BY <1>3, <1>4, <2>1
    <3>2. ss[i] \in Seq(S) /\ Len(ss[i]) = 1 /\ ss[i][1] = Duplicate(src, rows[i])
        BY <3>1, OneOrNone, Zenon
    <3> QED
        BY <3>2
  <2>2. CASE rows[i] \notin Repeated(src)
    <3>1. ss[i] = <<>>
        BY <1>3, <2>2
    <3>2. ss[i] \in Seq(S) /\ Len(ss[i]) = 0
        BY <3>1, OneOrNone, Zenon
    <3> QED
        BY <2>2, <3>2
  <2> QED
      BY <2>1, <2>2
<1>6. Listing(ss, n, S)
    BY <1>1, <1>5 DEF Listing
<1>7. \A q, r : Duplicate(src, q) = Duplicate(src, r) => q = r
  <2> TAKE q, r
  <2>1. Duplicate(src, q).sourceRow = q /\ Duplicate(src, r).sourceRow = r
      BY DEF Duplicate, Issue
  <2> QED
      BY <2>1
<1> HIDE DEF ss, S
<1>8. \A i, j \in 1..n : Len(ss[i]) = 1 /\ Len(ss[j]) = 1 /\ ss[i][1] = ss[j][1] => i = j
    BY <1>1, <1>5, <1>7
<1>9. FlattenSeq(ss) \in Seq(S)
    BY <1>6, Flattened
<1>10. \A k, l \in 1..Len(FlattenSeq(ss)) : FlattenSeq(ss)[k] = FlattenSeq(ss)[l] => k = l
  <2>1. \A i \in 1..n : Len(ss[i]) <= 1
      BY <1>5
  <2> QED
      BY <1>6, <1>8, <2>1, FlattenOnce
<1>11. \A r \in Repeated(src) : \E k \in 1..Len(FlattenSeq(ss)) :
            FlattenSeq(ss)[k] = Duplicate(src, r)
  <2> TAKE r \in Repeated(src)
  <2>1. PICK i \in 1..n : rows[i] = r
      BY <1>1 DEF Repeated
  <2>2. Len(ss[i]) = 1 /\ ss[i][1] = Duplicate(src, r)
      BY <1>5, <2>1
  <2>3. 1 \in 1..Len(ss[i])
      BY <2>2
  <2> QED
      BY <1>6, <2>2, <2>3, FlattenHolds
<1> QED
    BY <1>2, <1>9, <1>10, <1>11 DEF S

(* The issues of categories are among theirs.                              *)
LEMMA CategoryIssuesAre ==
    ASSUME NEW src, RawTable(src)
    PROVE  CategoryIssues(src) \in Seq(CategorySet(src))
<1> DEFINE S == CategorySet(src)
           m == Len(src.headers)
           n == Cardinality(DataRows(src))
           rows == DataRowSeq(src)
           columns == ProposedColumns(src)
           item(c, i) == When(columns[c].type \in {"text", "mixed"} /\ Varies(src, rows[i], c),
                              CategoryIssue(src, rows[i], columns[c]))
           inner(c) == [i \in 1..n |-> item(c, i)]
           ss == [c \in 1..m |-> FlattenSeq(inner(c))]
<1>1. n \in Nat /\ rows \in [1..n -> DataRows(src)]
    BY RowsOfData
<1>2. m \in Nat /\ Columns(src) = 1..m
    BY DEF RawTable
<1>3. DOMAIN columns = 1..m /\ \A c \in 1..m : columns[c] = ProposedColumn(src, c)
    BY <1>2 DEF ProposedColumns
<1>4. CategoryIssues(src) = FlattenSeq(ss)
  <2>1. DOMAIN rows = 1..n
      BY <1>1
  <2> HIDE DEF n, m
  <2> QED
      BY <1>3, <2>1 DEF CategoryIssues, CategoriesIn
<1> HIDE DEF rows, n, m, columns
<1>5. \A c \in 1..m : \A i \in 1..n : item(c, i) \in Seq(S)
  <2> TAKE c \in 1..m
  <2> TAKE i \in 1..n
  <2>1. rows[i] \in DataRows(src) /\ c \in Columns(src) /\ columns[c] = ProposedColumn(src, c)
      BY <1>1, <1>2, <1>3
  <2>2. CASE columns[c].type \in {"text", "mixed"} /\ Varies(src, rows[i], c)
    <3> DEFINE p == <<rows[i], c>>
    <3>1. p \in Places(src) /\ Varies(src, p[1], p[2])
        BY <2>1, <2>2 DEF Places
    <3>2. CategoryIssue(src, p[1], ProposedColumn(src, p[2])) \in S
        BY <3>1 DEF CategorySet
    <3>3. CategoryIssue(src, rows[i], columns[c]) \in S
        BY <2>1, <3>2
    <3>4. item(c, i) = <<CategoryIssue(src, rows[i], columns[c])>>
        BY <2>2 DEF When
    <3> HIDE DEF S, item
    <3> QED
        BY <3>3, <3>4, OneOrNone
  <2>3. CASE ~(columns[c].type \in {"text", "mixed"} /\ Varies(src, rows[i], c))
    <3>1. item(c, i) = <<>>
        BY <2>3 DEF When
    <3> HIDE DEF S, item
    <3> QED
        BY <3>1, OneOrNone
  <2> QED
      BY <2>2, <2>3
<1> HIDE DEF S, item
<1>6. \A c \in 1..m : FlattenSeq(inner(c)) \in Seq(S)
  <2> TAKE c \in 1..m
  <2>1. Listing(inner(c), n, S)
      BY <1>1, <1>5 DEF Listing
  <2> HIDE DEF inner
  <2> QED
      BY <2>1, Flattened
<1>7. Listing(ss, m, S)
    BY <1>2, <1>6 DEF Listing
<1> HIDE DEF ss
<1> QED
    BY <1>4, <1>7, Flattened DEF S

(* The issues of missing texts are among theirs.                           *)
LEMMA MissingIssuesAre ==
    ASSUME NEW src, RawTable(src)
    PROVE  MissingIssues(src) \in Seq(MissingSet(src))
<1> DEFINE S == MissingSet(src)
           m == Len(src.headers)
           n == Cardinality(DataRows(src))
           rows == DataRowSeq(src)
           issue(r, c) == Issue(<<"missing", r, IF c = Min(Missing(src, r)) THEN 0 ELSE c>>,
                                "missing", r, ColumnId(src, c), NoText, NoText, "none", NoRow)
           item(i, c) == When(c \in Missing(src, rows[i]), issue(rows[i], c))
           inner(i) == [c \in 1..m |-> item(i, c)]
           ss == [i \in 1..n |-> FlattenSeq(inner(i))]
<1>1. n \in Nat /\ rows \in [1..n -> DataRows(src)]
    BY RowsOfData
<1>2. m \in Nat /\ Columns(src) = 1..m
    BY DEF RawTable
<1>3. MissingIssues(src) = FlattenSeq(ss)
  <2>1. DOMAIN rows = 1..n
      BY <1>1
  <2> HIDE DEF n, m
  <2> QED
      BY <1>2, <2>1 DEF MissingIssues
<1> HIDE DEF rows, n, m
<1>4. \A r \in DataRows(src) : \A c \in Columns(src) : issue(r, c) \in S
  <2> TAKE r \in DataRows(src)
  <2> TAKE c \in Columns(src)
  <2> DEFINE p == <<r, c>>
             k == IF c = Min(Missing(src, r)) THEN 0 ELSE c
  <2>1. p \in Places(src) /\ k \in Columns(src) \cup {0}
      BY DEF Places
  <2>2. p[1] = r /\ p[2] = c
      OBVIOUS
  <2> HIDE DEF p, k
  <2>3. Issue(<<"missing", p[1], k>>, "missing", p[1], ColumnId(src, p[2]), NoText, NoText,
              "none", NoRow) \in S
      BY <2>1 DEF MissingSet
  <2>4. Issue(<<"missing", r, k>>, "missing", r, ColumnId(src, c), NoText, NoText,
              "none", NoRow) \in S
      BY <2>2, <2>3
  <2> QED
      BY <2>4 DEF k
<1>5. \A i \in 1..n : \A c \in 1..m : item(i, c) \in Seq(S)
  <2> TAKE i \in 1..n
  <2> TAKE c \in 1..m
  <2>1. issue(rows[i], c) \in S
      BY <1>1, <1>2, <1>4
  <2>2. item(i, c) = <<issue(rows[i], c)>> \/ item(i, c) = <<>>
      BY DEF When
  <2> HIDE DEF S, item, issue
  <2> QED
      BY <2>1, <2>2, OneOrNone
<1> HIDE DEF S, item
<1>6. \A i \in 1..n : FlattenSeq(inner(i)) \in Seq(S)
  <2> TAKE i \in 1..n
  <2>1. Listing(inner(i), m, S)
      BY <1>2, <1>5 DEF Listing
  <2> HIDE DEF inner
  <2> QED
      BY <2>1, Flattened
<1>7. Listing(ss, n, S)
    BY <1>1, <1>6 DEF Listing
<1> HIDE DEF ss
<1> QED
    BY <1>3, <1>7, Flattened DEF S

(* The issues of a cell, the first of which is that of its formula.        *)
FormulaIssue(src, r, c) ==
    CellIssue("formula", "formula-cache", r, ProposedColumn(src, c), CellText(src, r, c),
              CellAt(src, r, c).cached, "use-cache")

(* The first of two sequences begins their concatenation.                  *)
LEMMA ConcatFirst ==
    ASSUME NEW S, NEW u \in Seq(S), NEW v \in Seq(S), 1 \in 1..Len(u)
    PROVE  1 \in 1..Len(u \o v) /\ (u \o v)[1] = u[1]
<1>1. Len(u) \in Nat /\ Len(v) \in Nat /\ 1 <= Len(u)
    BY LenProperties
<1>2. 1 \in 1..Len(u) + Len(v)
    BY <1>1
<1> QED
    BY <1>1, <1>2, ConcatProperties

(* The issues of one cell: that of its formula comes first.                *)
LEMMA IssuesOfCellAre ==
    ASSUME NEW src, NEW r \in DataRows(src), NEW c \in Columns(src), CellText(src, r, c) # NoText
    PROVE  LET s == IssuesOfCell(CellAt(src, r, c), CellText(src, r, c), r, ProposedColumn(src, c))
           IN /\ s \in Seq(CellSet(src))
              /\ CellAt(src, r, c).type = "formula" =>
                    1 \in 1..Len(s) /\ s[1] = FormulaIssue(src, r, c)
<1> DEFINE S == CellSet(src)
           t == CellText(src, r, c)
           column == ProposedColumn(src, c)
           cell == CellAt(src, r, c)
           issue(id, kind, normalized, action) == CellIssue(id, kind, r, column, t, normalized, action)
           a == When(cell.type = "formula", issue("formula", "formula-cache", cell.cached, "use-cache"))
           b == When(t.kind = "slashDate", issue("date", "ambiguous-date", NoText, "confirm-type"))
           d == When(t.kind = "decimal" /\ SignificantDigits(t.dec) > InputLimit(cell),
                     issue("precision", "precision", t, "confirm-type"))
           e == When(/\ t.kind # "decimal" /\ cell.type # "formula"
                     /\ column.type \in {"decimal", "integer", "mixed"},
                     issue("malformed", "malformed", t, "none"))
<1>1. \A w \in CellRules : \A x \in TextsOf(src) : issue(w[1], w[2], x, w[3]) \in S
  <2> TAKE w \in CellRules
  <2> TAKE x \in TextsOf(src)
  <2> DEFINE p == <<r, c>>
  <2>1. p \in Written(src) /\ p[1] = r /\ p[2] = c
      BY DEF Written, Places
  <2> HIDE DEF p
  <2>2. CellIssue(w[1], w[2], p[1], ProposedColumn(src, p[2]), CellText(src, p[1], p[2]), x, w[3]) \in S
      BY <2>1 DEF CellSet
  <2> QED
      BY <2>1, <2>2
<1>2. {NoText, t, cell.cached} \subseteq TextsOf(src)
  <2> DEFINE p == <<r, c>>
  <2>1. p \in Places(src) /\ p[1] = r /\ p[2] = c
      BY DEF Places
  <2> HIDE DEF p
  <2> QED
      BY <2>1 DEF TextsOf
<1>3. /\ issue("formula", "formula-cache", cell.cached, "use-cache") \in S
      /\ issue("date", "ambiguous-date", NoText, "confirm-type") \in S
      /\ issue("precision", "precision", t, "confirm-type") \in S
      /\ issue("malformed", "malformed", t, "none") \in S
  <2> DEFINE w1 == <<"formula", "formula-cache", "use-cache">>
             w2 == <<"date", "ambiguous-date", "confirm-type">>
             w3 == <<"precision", "precision", "confirm-type">>
             w4 == <<"malformed", "malformed", "none">>
  <2>1. w1 \in CellRules /\ w2 \in CellRules /\ w3 \in CellRules /\ w4 \in CellRules
      BY DEF CellRules
  <2>2. /\ issue(w1[1], w1[2], cell.cached, w1[3]) \in S /\ issue(w2[1], w2[2], NoText, w2[3]) \in S
        /\ issue(w3[1], w3[2], t, w3[3]) \in S /\ issue(w4[1], w4[2], t, w4[3]) \in S
    <3> HIDE DEF issue, w1, w2, w3, w4, S
    <3> QED
        BY <1>1, <1>2, <2>1
  <2> HIDE DEF issue, S
  <2> QED
      BY <2>2
<1>4. IssuesOfCell(cell, t, r, column) = a \o b \o d \o e
    BY DEF IssuesOfCell
<1>5. /\ a \in Seq(S) /\ b \in Seq(S) /\ d \in Seq(S) /\ e \in Seq(S)
      /\ cell.type = "formula" => Len(a) = 1 /\ a[1] = FormulaIssue(src, r, c)
  <2>1. /\ a = <<issue("formula", "formula-cache", cell.cached, "use-cache")>> \/ a = <<>>
        /\ b = <<issue("date", "ambiguous-date", NoText, "confirm-type")>> \/ b = <<>>
        /\ d = <<issue("precision", "precision", t, "confirm-type")>> \/ d = <<>>
        /\ e = <<issue("malformed", "malformed", t, "none")>> \/ e = <<>>
      BY DEF When
  <2>2. cell.type = "formula" =>
            a = <<issue("formula", "formula-cache", cell.cached, "use-cache")>>
      BY DEF When
  <2>3. FormulaIssue(src, r, c) = issue("formula", "formula-cache", cell.cached, "use-cache")
      BY DEF FormulaIssue
  <2> HIDE DEF S, issue, a, b, d, e, cell
  <2>4. a \in Seq(S) /\ b \in Seq(S) /\ d \in Seq(S) /\ e \in Seq(S)
      BY <1>3, <2>1, OneOrNone
  <2> QED
      BY <1>3, <2>2, <2>3, <2>4, OneOrNone
<1> HIDE DEF S, a, b, d, e
<1>6. a \o b \in Seq(S) /\ a \o b \o d \in Seq(S) /\ a \o b \o d \o e \in Seq(S)
    BY <1>5, ConcatProperties
<1>7. cell.type = "formula" =>
          1 \in 1..Len(a \o b \o d \o e) /\ (a \o b \o d \o e)[1] = FormulaIssue(src, r, c)
  <2> HAVE cell.type = "formula"
  <2>1. 1 \in 1..Len(a) /\ a[1] = FormulaIssue(src, r, c)
    <3>1. Len(a) = 1 /\ a[1] = FormulaIssue(src, r, c)
        BY <1>5
    <3>2. 1 \in 1..1
        OBVIOUS
    <3> QED
        BY <3>1, <3>2
  <2>2. 1 \in 1..Len(a \o b) /\ (a \o b)[1] = a[1]
      BY <1>5, <2>1, ConcatFirst
  <2>3. 1 \in 1..Len(a \o b \o d) /\ (a \o b \o d)[1] = a[1]
      BY <1>5, <1>6, <2>2, ConcatFirst
  <2>4. 1 \in 1..Len(a \o b \o d \o e) /\ (a \o b \o d \o e)[1] = a[1]
      BY <1>5, <1>6, <2>3, ConcatFirst
  <2> QED
      BY <2>1, <2>4
<1> QED
    BY <1>4, <1>6, <1>7 DEF S

(* The issues of all cells; a formula has one.                             *)
LEMMA CellIssuesAre ==
    ASSUME NEW src, RawTable(src)
    PROVE  /\ CellIssues(src) \in Seq(CellSet(src))
           /\ \A r \in DataRows(src) : \A c \in Columns(src) :
                 CellText(src, r, c) # NoText /\ CellAt(src, r, c).type = "formula" =>
                     \E k \in 1..Len(CellIssues(src)) : CellIssues(src)[k] = FormulaIssue(src, r, c)
<1> DEFINE S == CellSet(src)
           m == Len(src.headers)
           n == Cardinality(DataRows(src))
           rows == DataRowSeq(src)
           columns == ProposedColumns(src)
           item(c, i) == IF CellText(src, rows[i], c) = NoText THEN <<>>
                         ELSE IssuesOfCell(CellAt(src, rows[i], c), CellText(src, rows[i], c), rows[i],
                                           columns[c])
           inner(c) == [i \in 1..n |-> item(c, i)]
           ss == [c \in 1..m |-> FlattenSeq(inner(c))]
<1>1. /\ n \in Nat /\ rows \in [1..n -> DataRows(src)]
      /\ \A r \in DataRows(src) : \E k \in 1..n : rows[k] = r
    BY RowsOfData
<1>2. m \in Nat /\ Columns(src) = 1..m
    BY DEF RawTable
<1>3. DOMAIN columns = 1..m /\ \A c \in 1..m : columns[c] = ProposedColumn(src, c)
    BY <1>2 DEF ProposedColumns
<1>4. CellIssues(src) = FlattenSeq(ss)
  <2>1. DOMAIN rows = 1..n
      BY <1>1
  <2> HIDE DEF n, m
  <2> QED
      BY <1>3, <2>1 DEF CellIssues, CellsIn
<1> HIDE DEF rows, n, m, columns
<1>5. \A c \in 1..m : \A i \in 1..n :
          /\ item(c, i) \in Seq(S)
          /\ CellText(src, rows[i], c) # NoText /\ CellAt(src, rows[i], c).type = "formula" =>
                 1 \in 1..Len(item(c, i)) /\ item(c, i)[1] = FormulaIssue(src, rows[i], c)
  <2> TAKE c \in 1..m
  <2> TAKE i \in 1..n
  <2>1. rows[i] \in DataRows(src) /\ c \in Columns(src) /\ columns[c] = ProposedColumn(src, c)
      BY <1>1, <1>2, <1>3
  <2>2. CASE CellText(src, rows[i], c) # NoText
    <3>1. item(c, i) = IssuesOfCell(CellAt(src, rows[i], c), CellText(src, rows[i], c), rows[i],
                                    ProposedColumn(src, c))
        BY <2>1, <2>2
    <3> HIDE DEF S, item
    <3> QED
        BY <2>1, <2>2, <3>1, IssuesOfCellAre DEF S
  <2>3. CASE CellText(src, rows[i], c) = NoText
    <3>1. item(c, i) = <<>>
        BY <2>3
    <3> HIDE DEF S, item
    <3> QED
        BY <2>3, <3>1, OneOrNone
  <2> QED
      BY <2>2, <2>3
<1> HIDE DEF S, item
<1>6. \A c \in 1..m : /\ FlattenSeq(inner(c)) \in Seq(S)
                      /\ \A i \in 1..n : \A j \in 1..Len(item(c, i)) :
                            \E k \in 1..Len(FlattenSeq(inner(c))) :
                                FlattenSeq(inner(c))[k] = item(c, i)[j]
  <2> TAKE c \in 1..m
  <2>1. Listing(inner(c), n, S) /\ \A i \in 1..n : inner(c)[i] = item(c, i)
      BY <1>1, <1>5 DEF Listing
  <2> HIDE DEF inner
  <2>2. FlattenSeq(inner(c)) \in Seq(S)
      BY <2>1, Flattened
  <2>3. ASSUME NEW i \in 1..n, NEW j \in 1..Len(inner(c)[i])
        PROVE  \E k \in 1..Len(FlattenSeq(inner(c))) : FlattenSeq(inner(c))[k] = inner(c)[i][j]
      BY <2>1, FlattenHolds
  <2> QED
      BY <2>1, <2>2, <2>3
<1> HIDE DEF inner
<1>7. Listing(ss, m, S) /\ \A c \in 1..m : ss[c] = FlattenSeq(inner(c))
    BY <1>2, <1>6 DEF Listing
<1> HIDE DEF ss
<1>8. /\ FlattenSeq(ss) \in Seq(S)
      /\ \A c \in 1..m : \A j \in 1..Len(ss[c]) :
             \E k \in 1..Len(FlattenSeq(ss)) : FlattenSeq(ss)[k] = ss[c][j]
  <2>1. ASSUME NEW c \in 1..m, NEW j \in 1..Len(ss[c])
        PROVE  \E k \in 1..Len(FlattenSeq(ss)) : FlattenSeq(ss)[k] = ss[c][j]
      BY <1>7, FlattenHolds
  <2> QED
      BY <1>7, <2>1, Flattened
<1>9. ASSUME NEW r \in DataRows(src), NEW c \in Columns(src), CellText(src, r, c) # NoText,
             CellAt(src, r, c).type = "formula"
      PROVE  \E k \in 1..Len(FlattenSeq(ss)) : FlattenSeq(ss)[k] = FormulaIssue(src, r, c)
  <2>1. PICK i \in 1..n : rows[i] = r
      BY <1>1
  <2>2. c \in 1..m
      BY <1>2
  <2>3. 1 \in 1..Len(item(c, i)) /\ item(c, i)[1] = FormulaIssue(src, r, c)
      BY <1>5, <1>9, <2>1, <2>2
  <2>4. PICK j \in 1..Len(ss[c]) : ss[c][j] = FormulaIssue(src, r, c)
      BY <1>6, <1>7, <2>2, <2>3
  <2> QED
      BY <1>8, <2>2, <2>4
<1> QED
    BY <1>4, <1>8, <1>9 DEF S

(* An issue has the fields it is made of.                                  *)
LEMMA IssueFields ==
    ASSUME NEW id, NEW kind, NEW row, NEW field, NEW original, NEW normalized, NEW action,
           NEW canonical
    PROVE  LET q == Issue(id, kind, row, field, original, normalized, action, canonical)
           IN /\ q.id = id /\ q.kind = kind /\ q.sourceRow = row /\ q.fieldId = field
              /\ q.original = original /\ q.normalized = normalized /\ q.status = "proposed"
              /\ q.action = action /\ q.canonicalSourceRow = canonical
BY DEF Issue

(* What an issue of the profile says: its original is what the cell holds, *)
(* it names a column or none, and a row to be left out is a repeated one.  *)
IssueTells(src, q) ==
    /\ q.status = "proposed"
    /\ q.original # NoText =>
          \A c \in Columns(src) : q.fieldId = ColumnId(src, c) =>
              q.original = CellText(src, q.sourceRow, c)
    /\ q.fieldId = NoField \/ \E c \in Columns(src) : q.fieldId = ColumnId(src, c)
    /\ q.kind = "duplicate" <=> q.action = "exclude-row"
    /\ q.kind = "duplicate" => \E r \in Repeated(src) : q = Duplicate(src, r)
    /\ q.kind # "duplicate" => q.canonicalSourceRow = NoRow
    /\ q.kind = "category" => q.original # NoText
    /\ \A r : \A c \in Columns(src) : q.id = <<"formula", r, c>> =>
          q.original # NoText /\ q.sourceRow = r /\ q.fieldId = ColumnId(src, c)

(* An issue of a header tells the truth.                                   *)
LEMMA HeaderTells ==
    ASSUME NEW src, RawTable(src), NEW q \in HeaderSet(src)
    PROVE  IssueTells(src, q)
<1>1. PICK name \in {"header", "ambiguous"}, c \in Columns(src) :
          q = Issue(<<name, 0, c>>, "header", HeaderRow, ColumnId(src, c), NoText, NoText,
                    "confirm-type", NoRow)
    BY DEF HeaderSet
<1>2. /\ q.id = <<name, 0, c>> /\ q.kind = "header" /\ q.sourceRow = HeaderRow
      /\ q.fieldId = ColumnId(src, c) /\ q.original = NoText /\ q.status = "proposed"
      /\ q.action = "confirm-type" /\ q.canonicalSourceRow = NoRow
    BY <1>1, IssueFields
<1>3. \A r, d : q.id # <<"formula", r, d>>
    BY <1>2
<1> QED
    BY <1>2, <1>3 DEF IssueTells

(* What the issue of a repeated row says.                                  *)
LEMMA DuplicateFields ==
    ASSUME NEW src, NEW r
    PROVE  LET q == Duplicate(src, r)
           IN /\ q.id = <<"duplicate", r, 0>> /\ q.kind = "duplicate" /\ q.sourceRow = r
              /\ q.fieldId = NoField /\ q.status = "proposed" /\ q.action = "exclude-row"
              /\ q.canonicalSourceRow = Canonical(src, r)
BY IssueFields DEF Duplicate

(* An issue of a repeated row tells the truth.                             *)
LEMMA DuplicateTells ==
    ASSUME NEW src, RawTable(src), NEW q \in DuplicateSet(src)
    PROVE  IssueTells(src, q)
<1>1. PICK r \in Repeated(src) : q = Duplicate(src, r)
    BY DEF DuplicateSet
<1>2. /\ q.id = <<"duplicate", r, 0>> /\ q.kind = "duplicate" /\ q.sourceRow = r
      /\ q.fieldId = NoField /\ q.status = "proposed" /\ q.action = "exclude-row"
    BY <1>1, DuplicateFields
<1>3. \A s, d : q.id # <<"formula", s, d>>
    BY <1>2
<1>4. \A c \in Columns(src) : ColumnId(src, c) # NoField
    BY ColumnIdOwn
<1> QED
    BY <1>1, <1>2, <1>3, <1>4 DEF IssueTells

(* An issue of a category tells the truth.                                 *)
LEMMA CategoryTells ==
    ASSUME NEW src, RawTable(src), NEW q \in CategorySet(src)
    PROVE  IssueTells(src, q)
<1>1. PICK p \in Places(src) : /\ Varies(src, p[1], p[2])
                               /\ q = CategoryIssue(src, p[1], ProposedColumn(src, p[2]))
    BY DEF CategorySet
<1> DEFINE r == p[1]
           c == p[2]
<1>2. c \in Columns(src)
    BY DEF Places
<1>3. /\ q.id = <<"category", r, 0>> /\ q.kind = "category" /\ q.sourceRow = r
      /\ q.fieldId = ColumnId(src, c) /\ q.original = CellText(src, r, c)
      /\ q.status = "proposed" /\ q.action = "map-category" /\ q.canonicalSourceRow = NoRow
    BY <1>1, IssueFields, ColumnFields DEF CategoryIssue, CategoryId
<1>4. \A s, d : q.id # <<"formula", s, d>>
    BY <1>3
<1>5. CellText(src, r, c) # NoText
    BY <1>1 DEF Varies
<1> HIDE DEF r, c
<1>6. \A d \in Columns(src) : ColumnId(src, c) = ColumnId(src, d) => c = d
    BY <1>2, ColumnIdOwn
<1> QED
    BY <1>2, <1>3, <1>4, <1>5, <1>6 DEF IssueTells

(* An issue of a missing text tells the truth.                             *)
LEMMA MissingTells ==
    ASSUME NEW src, RawTable(src), NEW q \in MissingSet(src)
    PROVE  IssueTells(src, q)
<1>1. PICK p \in Places(src), n \in Columns(src) \cup {0} :
          q = Issue(<<"missing", p[1], n>>, "missing", p[1], ColumnId(src, p[2]), NoText, NoText,
                    "none", NoRow)
    BY DEF MissingSet
<1>2. p[2] \in Columns(src)
    BY DEF Places
<1>3. /\ q.id = <<"missing", p[1], n>> /\ q.kind = "missing" /\ q.sourceRow = p[1]
      /\ q.fieldId = ColumnId(src, p[2]) /\ q.original = NoText /\ q.status = "proposed"
      /\ q.action = "none" /\ q.canonicalSourceRow = NoRow
    BY <1>1, IssueFields
<1>4. \A s, d : q.id # <<"formula", s, d>>
    BY <1>3
<1> QED
    BY <1>2, <1>3, <1>4 DEF IssueTells

(* An issue of a cell tells the truth.                                     *)
LEMMA CellTells ==
    ASSUME NEW src, RawTable(src), NEW q \in CellSet(src)
    PROVE  IssueTells(src, q)
<1>1. PICK w \in CellRules, p \in Written(src), t \in TextsOf(src) :
          q = CellIssue(w[1], w[2], p[1], ProposedColumn(src, p[2]), CellText(src, p[1], p[2]), t, w[3])
    BY DEF CellSet
<1> DEFINE r == p[1]
           c == p[2]
<1>2. c \in Columns(src) /\ CellText(src, r, c) # NoText
    BY DEF Written, Places
<1>3. /\ q.id = <<w[1], r, c>> /\ q.kind = w[2] /\ q.sourceRow = r /\ q.fieldId = ColumnId(src, c)
      /\ q.original = CellText(src, r, c) /\ q.status = "proposed" /\ q.action = w[3]
      /\ q.canonicalSourceRow = NoRow
    BY <1>1, IssueFields, ColumnFields DEF CellIssue
<1>4. w[2] # "duplicate" /\ w[3] # "exclude-row"
    BY DEF CellRules
<1> HIDE DEF r, c
<1>5. \A d \in Columns(src) : ColumnId(src, c) = ColumnId(src, d) => c = d
    BY <1>2, ColumnIdOwn
<1>6. \A s, d : q.id = <<"formula", s, d>> => s = r /\ d = c
    BY <1>3
<1> QED
    BY <1>2, <1>3, <1>4, <1>5, <1>6 DEF IssueTells

(* So every issue of the profile does.                                     *)
LEMMA IssueSetTells ==
    ASSUME NEW src, RawTable(src), NEW q \in IssueSet(src)
    PROVE  IssueTells(src, q)
BY HeaderTells, DuplicateTells, CategoryTells, MissingTells, CellTells DEF IssueSet

(* What the ledger records of an issue differs in its status only.         *)
LEMMA RecordedFields ==
    ASSUME NEW src, RawTable(src), NEW q \in IssueSet(src), NEW approved
    PROVE  LET w == Recorded(q, approved)
           IN /\ w.id = q.id /\ w.kind = q.kind /\ w.sourceRow = q.sourceRow
              /\ w.fieldId = q.fieldId /\ w.original = q.original /\ w.action = q.action
              /\ w.canonicalSourceRow = q.canonicalSourceRow
              /\ w.status = "resolved" <=> q.id \in approved
<1>1. \E id, kind, row, field, original, normalized, action, canonical :
          q = Issue(id, kind, row, field, original, normalized, action, canonical)
  <2>1. CASE q \in HeaderSet(src)
    <3>1. PICK name \in {"header", "ambiguous"}, c \in Columns(src) :
              q = Issue(<<name, 0, c>>, "header", HeaderRow, ColumnId(src, c), NoText, NoText,
                        "confirm-type", NoRow)
        BY <2>1 DEF HeaderSet
    <3> QED
        BY <3>1
  <2>2. CASE q \in DuplicateSet(src)
      BY <2>2 DEF DuplicateSet, Duplicate
  <2>3. CASE q \in CategorySet(src)
      BY <2>3 DEF CategorySet, CategoryIssue
  <2>4. CASE q \in MissingSet(src)
    <3>1. PICK p \in Places(src), n \in Columns(src) \cup {0} :
              q = Issue(<<"missing", p[1], n>>, "missing", p[1], ColumnId(src, p[2]), NoText,
                        NoText, "none", NoRow)
        BY <2>4 DEF MissingSet
    <3> QED
        BY <3>1
  <2>5. CASE q \in CellSet(src)
    <3>1. PICK w \in CellRules, p \in Written(src), t \in TextsOf(src) :
              q = CellIssue(w[1], w[2], p[1], ProposedColumn(src, p[2]),
                            CellText(src, p[1], p[2]), t, w[3])
        BY <2>5 DEF CellSet
    <3> QED
        BY <3>1 DEF CellIssue
  <2> QED
      BY <2>1, <2>2, <2>3, <2>4, <2>5 DEF IssueSet
<1>2. PICK id, kind, row, field, original, normalized, action, canonical :
          q = Issue(id, kind, row, field, original, normalized, action, canonical)
    BY <1>1
<1>3. q.status = "proposed" /\ q.id = id /\ q.kind = kind
    BY <1>2, IssueFields
<1>4. \A s : LET w == [q EXCEPT !.status = s]
             IN /\ w.id = q.id /\ w.kind = q.kind /\ w.sourceRow = q.sourceRow
                /\ w.fieldId = q.fieldId /\ w.original = q.original /\ w.action = q.action
                /\ w.canonicalSourceRow = q.canonicalSourceRow /\ w.status = s
    BY <1>2 DEF Issue
<1>5. CASE q.id \in approved
    BY <1>4, <1>5 DEF Recorded
<1>6. CASE q.id \notin approved /\ q.kind = "missing"
    BY <1>4, <1>6 DEF Recorded
<1>7. CASE q.id \notin approved /\ q.kind # "missing"
    BY <1>3, <1>7 DEF Recorded
<1> QED
    BY <1>5, <1>6, <1>7

(* An element is met in s.                                                 *)
Holds(s, e) == \E k \in 1..Len(s) : s[k] = e

(* What one of two sequences holds, their concatenation holds.             *)
LEMMA ConcatHolds ==
    ASSUME NEW S, NEW u \in Seq(S), NEW v \in Seq(S), NEW e, Holds(u, e) \/ Holds(v, e)
    PROVE  Holds(u \o v, e)
<1>1. /\ Len(u) \in Nat /\ Len(v) \in Nat /\ Len(u \o v) = Len(u) + Len(v)
      /\ \A i \in 1..Len(u) + Len(v) : (u \o v)[i] = IF i <= Len(u) THEN u[i] ELSE v[i - Len(u)]
    BY LenProperties, ConcatProperties
<1>2. CASE Holds(u, e)
  <2>1. PICK k \in 1..Len(u) : u[k] = e
      BY <1>2 DEF Holds
  <2>2. k \in 1..Len(u) + Len(v) /\ k <= Len(u)
      BY <1>1
  <2> QED
      BY <1>1, <2>1, <2>2 DEF Holds
<1>3. CASE Holds(v, e)
  <2>1. PICK k \in 1..Len(v) : v[k] = e
      BY <1>3 DEF Holds
  <2> DEFINE i == Len(u) + k
  <2>2. i \in 1..Len(u) + Len(v) /\ ~(i <= Len(u)) /\ i - Len(u) = k
      BY <1>1
  <2> HIDE DEF i
  <2>3. (u \o v)[i] = v[k] /\ i \in 1..Len(u \o v)
      BY <1>1, <2>2
  <2> QED
      BY <2>1, <2>3 DEF Holds
<1> QED
    BY <1>2, <1>3

(* Elements of D are met once in s.                                        *)
Once(s, D) == \A k, l \in 1..Len(s) : s[k] = s[l] /\ s[k] \in D => k = l

(* What only one of two sequences holds, and once, is met once.            *)
LEMMA ConcatOnce ==
    ASSUME NEW S, NEW u \in Seq(S), NEW v \in Seq(S), NEW D,
           \/ Once(u, D) /\ \A k \in 1..Len(v) : v[k] \notin D
           \/ Once(v, D) /\ \A k \in 1..Len(u) : u[k] \notin D
    PROVE  Once(u \o v, D)
<1>1. /\ Len(u) \in Nat /\ Len(v) \in Nat /\ Len(u \o v) = Len(u) + Len(v)
      /\ \A i \in 1..Len(u) + Len(v) : (u \o v)[i] = IF i <= Len(u) THEN u[i] ELSE v[i - Len(u)]
    BY LenProperties, ConcatProperties
<1> DEFINE m == Len(u)
           s == u \o v
<1>2. \A i \in 1..Len(s) : \/ i \in 1..m /\ s[i] = u[i]
                           \/ i - m \in 1..Len(v) /\ i \notin 1..m /\ s[i] = v[i - m]
    BY <1>1
<1> HIDE DEF s
<1>3. SUFFICES ASSUME NEW k \in 1..Len(s), NEW l \in 1..Len(s), s[k] = s[l], s[k] \in D
               PROVE  k = l
    BY DEF Once, s
<1>4. CASE Once(u, D) /\ \A i \in 1..Len(v) : v[i] \notin D
  <2>1. k \in 1..m /\ l \in 1..m /\ s[k] = u[k] /\ s[l] = u[l]
      BY <1>2, <1>3, <1>4
  <2> QED
      BY <1>3, <1>4, <2>1 DEF Once
<1>5. CASE Once(v, D) /\ \A i \in 1..Len(u) : u[i] \notin D
  <2>1. k - m \in 1..Len(v) /\ l - m \in 1..Len(v) /\ s[k] = v[k - m] /\ s[l] = v[l - m]
      BY <1>2, <1>3, <1>5
  <2>2. k - m = l - m
      BY <1>3, <1>5, <2>1 DEF Once
  <2> QED
      BY <1>1, <2>2
<1> QED
    BY <1>4, <1>5

(* The issues of the profile are of these sets; a repeated row has one,    *)
(* once; a formula has one.                                                *)
LEMMA IssuesOfProfile ==
    ASSUME NEW src, RawTable(src)
    PROVE  LET issues == ProfileTable(src).issues
           IN /\ issues \in Seq(IssueSet(src))
              /\ Once(issues, DuplicateSet(src))
              /\ \A r \in Repeated(src) : Holds(issues, Duplicate(src, r))
              /\ \A r \in DataRows(src) : \A c \in Columns(src) :
                    CellText(src, r, c) # NoText /\ CellAt(src, r, c).type = "formula" =>
                        Holds(issues, FormulaIssue(src, r, c))
<1> DEFINE S == IssueSet(src)
           D == DuplicateSet(src)
           h == HeaderIssues(src)
           d == DuplicateIssues(src)
           g == CategoryIssues(src)
           m == MissingIssues(src)
           x == CellIssues(src)
<1>1. ProfileTable(src).issues = h \o d \o g \o m \o x
    BY DEF ProfileTable
<1>2. /\ h \in Seq(HeaderSet(src)) /\ d \in Seq(D) /\ g \in Seq(CategorySet(src))
      /\ m \in Seq(MissingSet(src)) /\ x \in Seq(CellSet(src))
    BY HeaderIssuesAre, DuplicateIssuesAre, CategoryIssuesAre, MissingIssuesAre, CellIssuesAre
<1>3. h \in Seq(S) /\ d \in Seq(S) /\ g \in Seq(S) /\ m \in Seq(S) /\ x \in Seq(S)
  <2>1. /\ HeaderSet(src) \subseteq S /\ D \subseteq S /\ CategorySet(src) \subseteq S
        /\ MissingSet(src) \subseteq S /\ CellSet(src) \subseteq S
      BY DEF IssueSet
  <2> HIDE DEF S, D, h, d, g, m, x
  <2> QED
      BY <1>2, <2>1, SeqMonotonic
<1>4. Once(d, D)
    BY DuplicateIssuesAre DEF Once
<1>5. /\ \A k \in 1..Len(h) : h[k] \notin D
      /\ \A k \in 1..Len(g) : g[k] \notin D
      /\ \A k \in 1..Len(m) : m[k] \notin D
      /\ \A k \in 1..Len(x) : x[k] \notin D
  <2>1. \A q \in D : q.kind = "duplicate"
      BY DuplicateFields DEF DuplicateSet
  <2>2. \A q \in HeaderSet(src) : q.kind = "header"
    <3> TAKE q \in HeaderSet(src)
    <3>1. PICK name \in {"header", "ambiguous"}, c \in Columns(src) :
              q = Issue(<<name, 0, c>>, "header", HeaderRow, ColumnId(src, c), NoText, NoText,
                        "confirm-type", NoRow)
        BY DEF HeaderSet
    <3> QED
        BY <3>1, IssueFields
  <2>3. \A q \in CategorySet(src) : q.kind = "category"
      BY IssueFields DEF CategorySet, CategoryIssue
  <2>4. \A q \in MissingSet(src) : q.kind = "missing"
    <3> TAKE q \in MissingSet(src)
    <3>1. PICK p \in Places(src), n \in Columns(src) \cup {0} :
              q = Issue(<<"missing", p[1], n>>, "missing", p[1], ColumnId(src, p[2]), NoText,
                        NoText, "none", NoRow)
        BY DEF MissingSet
    <3> QED
        BY <3>1, IssueFields
  <2>5. \A q \in CellSet(src) : q.kind # "duplicate"
    <3> TAKE q \in CellSet(src)
    <3>1. PICK w \in CellRules, p \in Written(src), t \in TextsOf(src) :
              q = CellIssue(w[1], w[2], p[1], ProposedColumn(src, p[2]),
                            CellText(src, p[1], p[2]), t, w[3])
        BY DEF CellSet
    <3>2. q.kind = w[2]
        BY <3>1, IssueFields DEF CellIssue
    <3> QED
        BY <3>2 DEF CellRules
  <2> HIDE DEF D, h, d, g, m, x
  <2>6. /\ \A k \in 1..Len(h) : h[k] \in HeaderSet(src)
        /\ \A k \in 1..Len(g) : g[k] \in CategorySet(src)
        /\ \A k \in 1..Len(m) : m[k] \in MissingSet(src)
        /\ \A k \in 1..Len(x) : x[k] \in CellSet(src)
      BY <1>2, ElementOfSeq
  <2>7. /\ \A k \in 1..Len(h) : h[k].kind = "header"
        /\ \A k \in 1..Len(g) : g[k].kind = "category"
        /\ \A k \in 1..Len(m) : m[k].kind = "missing"
        /\ \A k \in 1..Len(x) : x[k].kind # "duplicate"
      BY <2>2, <2>3, <2>4, <2>5, <2>6
  <2> QED
      BY <2>1, <2>7
<1>6. /\ \A r \in Repeated(src) : Holds(d, Duplicate(src, r))
      /\ \A r \in DataRows(src) : \A c \in Columns(src) :
            CellText(src, r, c) # NoText /\ CellAt(src, r, c).type = "formula" =>
                Holds(x, FormulaIssue(src, r, c))
    BY DuplicateIssuesAre, CellIssuesAre DEF Holds
<1> HIDE DEF S, D, h, d, g, m, x
<1>7. h \o d \in Seq(S) /\ h \o d \o g \in Seq(S) /\ h \o d \o g \o m \in Seq(S)
    BY <1>3, ConcatProperties
<1>8. h \o d \o g \o m \o x \in Seq(S)
    BY <1>3, <1>7, ConcatProperties
<1>9. Once(h \o d \o g \o m \o x, D)
  <2>1. Once(h \o d, D)
      BY <1>3, <1>4, <1>5, ConcatOnce
  <2>2. Once(h \o d \o g, D)
      BY <1>3, <1>5, <1>7, <2>1, ConcatOnce
  <2>3. Once(h \o d \o g \o m, D)
      BY <1>3, <1>5, <1>7, <2>2, ConcatOnce
  <2> QED
      BY <1>3, <1>5, <1>7, <2>3, ConcatOnce
<1>10. \A e : Holds(d, e) => Holds(h \o d \o g \o m \o x, e)
  <2> TAKE e
  <2> HAVE Holds(d, e)
  <2>1. Holds(h \o d, e)
      BY <1>3, ConcatHolds
  <2>2. Holds(h \o d \o g, e)
      BY <1>3, <1>7, <2>1, ConcatHolds
  <2>3. Holds(h \o d \o g \o m, e)
      BY <1>3, <1>7, <2>2, ConcatHolds
  <2> QED
      BY <1>3, <1>7, <2>3, ConcatHolds
<1>11. \A e : Holds(x, e) => Holds(h \o d \o g \o m \o x, e)
    BY <1>3, <1>7, ConcatHolds
<1> DEFINE all == h \o d \o g \o m \o x
<1>12. /\ \A r \in Repeated(src) : Holds(all, Duplicate(src, r))
       /\ \A r \in DataRows(src) : \A c \in Columns(src) :
             CellText(src, r, c) # NoText /\ CellAt(src, r, c).type = "formula" =>
                 Holds(all, FormulaIssue(src, r, c))
    BY <1>6, <1>10, <1>11
<1>13. ProfileTable(src).issues = all /\ all \in Seq(S) /\ Once(all, D)
    BY <1>1, <1>8, <1>9 DEF all
<1> QED
    BY <1>12, <1>13 DEF S, D

(* A column of the table that is column c of the file.                     *)
IsColumn(src, column, c) == column.id = ColumnId(src, c) /\ column.sourceColumn = c
ColumnsOf(src, columns) ==
    DOMAIN columns = Columns(src) /\ \A c \in Columns(src) : IsColumn(src, columns[c], c)

(* A plan for a file: it names issues the profile proposes, and its columns*)
(* are those of the file, whatever the user made of their types.           *)
PlannedFor(src, plan) == PlanKnown(src, plan) /\ ColumnsOf(src, plan.columns)

(* The proposed columns are those of the file.                             *)
LEMMA ProposedNamed ==
    ASSUME NEW src, RawTable(src)
    PROVE  ColumnsOf(src, ProposedColumns(src))
BY ColumnFields DEF ProposedColumns, IsColumn, ColumnsOf

(* The columns of the table are those of the file.                         *)
LEMMA ColumnsNamed ==
    ASSUME NEW src, RawTable(src), NEW plan, PlannedFor(src, plan)
    PROVE  LET columns == NormalizeTable(src, plan).columns
           IN DOMAIN columns = Columns(src) /\ \A c \in Columns(src) : IsColumn(src, columns[c], c)
<1>1. NormalizeTable(src, plan).columns \in {ProposedColumns(src), plan.columns}
    BY DEF NormalizeTable, NormalizeProfiled, ProfileTable
<1> QED
    BY <1>1, ProposedNamed DEF PlannedFor, ColumnsOf

(* No decision of a review or of a caller renames or moves a column.       *)
LEMMA DecisionKeepsColumn ==
    ASSUME NEW src, NEW c \in Columns(src), NEW moved
    PROVE  LET p == ProposedColumns(src)[c]
           IN /\ Decided(p, moved).id = p.id /\ Decided(p, moved).sourceColumn = p.sourceColumn
              /\ AsDeclared(p).id = p.id /\ AsDeclared(p).sourceColumn = p.sourceColumn
<1> DEFINE p == ProposedColumns(src)[c]
<1>1. PICK type : p = ColumnOfType(src, c, type)
    BY DEF ProposedColumns, ProposedColumn
<1>2. /\ Confirmed(p).id = p.id /\ Confirmed(p).sourceColumn = p.sourceColumn
      /\ AsText(p).id = p.id /\ AsText(p).sourceColumn = p.sourceColumn
    BY <1>1 DEF ColumnOfType, Confirmed, AsText
<1>3. LET m == [Confirmed(p) EXCEPT !.role = "measure", !.additive = TRUE, !.unit = "USD"]
          d == [Confirmed(p) EXCEPT !.type = "date", !.role = "date"]
      IN /\ m.id = p.id /\ m.sourceColumn = p.sourceColumn
         /\ d.id = p.id /\ d.sourceColumn = p.sourceColumn
    BY <1>1 DEF ColumnOfType, Confirmed
<1> HIDE DEF p
<1> QED
    BY <1>2, <1>3 DEF Decided, AsDeclared, p

(* A plan of a review, or of a caller of the packages, is one for the file.*)
LEMMA PlansNamed ==
    ASSUME NEW src, RawTable(src), NEW plan \in Plans(src), PlanKnown(src, plan)
    PROVE  PlannedFor(src, plan)
<1> DEFINE profile == ProfileTable(src)
           p == ProposedColumns(src)
           most == MaxMoves[src]
<1>1. profile.columns = p
    BY DEF ProfileTable
<1> HIDE DEF profile
<1>2. CASE plan \in SessionPlans(profile, most)
  <2>1. plan.columns = p
      BY <1>1, <1>2 DEF SessionPlans, Plan
  <2> QED
      BY <2>1, ProposedNamed DEF PlannedFor
<1>3. CASE plan \in UploadPlans(profile, most)
  <2>1. PICK moved : plan = UploadPlan(profile, moved)
      BY <1>3 DEF UploadPlans
  <2>2. plan.columns = [i \in DOMAIN p |-> Decided(p[i], moved)]
      BY <1>1, <2>1 DEF UploadPlan, Plan
  <2> QED
      BY <2>2, ProposedNamed, DecisionKeepsColumn DEF PlannedFor, ColumnsOf, IsColumn
<1>4. CASE plan \in PackagePlans(profile, most)
  <2>1. plan.columns = [i \in DOMAIN p |-> AsDeclared(p[i])]
      BY <1>1, <1>4 DEF PackagePlans, Plan
  <2> QED
      BY <2>1, ProposedNamed, DecisionKeepsColumn DEF PlannedFor, ColumnsOf, IsColumn
<1> QED
    BY <1>2, <1>3, <1>4 DEF Plans, profile

(* A kept row has the value of every column by its id.                     *)
LEMMA RowsOfTable ==
    ASSUME NEW src, RawTable(src), NEW plan, PlannedFor(src, plan)
    PROVE  LET t == NormalizeTable(src, plan)
               issues == ProfileTable(src).issues
           IN /\ DOMAIN t.rows = DataRows(src) \ Excluded(issues, plan.issueIds)
              /\ \A r \in DOMAIN t.rows : DOMAIN t.rows[r] = {ColumnId(src, c) : c \in Columns(src)}
              /\ \A r \in DOMAIN t.rows : \A c \in Columns(src) :
                    \E column : /\ IsColumn(src, column, c)
                                /\ t.rows[r][ColumnId(src, c)]
                                       = NormalizedValue(src, issues, plan, r, column)
<1> DEFINE t == NormalizeTable(src, plan)
           issues == ProfileTable(src).issues
           columns == t.columns
           kept == DataRows(src) \ Excluded(issues, plan.issueIds)
           fields == {columns[i].id : i \in DOMAIN columns}
           column(f) == CHOOSE p \in Range(columns) : p.id = f
<1>1. DOMAIN columns = Columns(src) /\ \A c \in Columns(src) : IsColumn(src, columns[c], c)
    BY ColumnsNamed
<1>2. t.rows = [r \in kept |-> [f \in fields |-> NormalizedValue(src, issues, plan, r, column(f))]]
    BY DEF NormalizeTable, NormalizeProfiled
<1> HIDE DEF columns
<1>3. fields = {ColumnId(src, c) : c \in Columns(src)}
    BY <1>1 DEF IsColumn
<1>4. \A c \in Columns(src) : IsColumn(src, column(ColumnId(src, c)), c)
  <2> TAKE c \in Columns(src)
  <2>1. columns[c] \in Range(columns) /\ columns[c].id = ColumnId(src, c)
      BY <1>1 DEF Range, IsColumn
  <2>2. column(ColumnId(src, c)) \in Range(columns) /\ column(ColumnId(src, c)).id = ColumnId(src, c)
      BY <2>1
  <2> HIDE DEF column
  <2>3. PICK d \in Columns(src) : column(ColumnId(src, c)) = columns[d]
      BY <1>1, <2>2 DEF Range
  <2>4. ColumnId(src, d) = ColumnId(src, c)
      BY <1>1, <2>2, <2>3 DEF IsColumn
  <2>5. d = c
      BY <2>4, ColumnIdOwn
  <2> QED
      BY <1>1, <2>3, <2>5
<1> HIDE DEF t, issues, kept, column
<1>5. DOMAIN t.rows = kept /\ \A r \in kept : DOMAIN t.rows[r] = fields
    BY <1>2
<1>6. \A r \in kept : \A c \in Columns(src) :
          t.rows[r][ColumnId(src, c)] = NormalizedValue(src, issues, plan, r, column(ColumnId(src, c)))
    BY <1>2, <1>3
<1>7. \A r \in kept : \A c \in Columns(src) : \E w : /\ IsColumn(src, w, c)
          /\ t.rows[r][ColumnId(src, c)] = NormalizedValue(src, issues, plan, r, w)
  <2> TAKE r \in kept
  <2> TAKE c \in Columns(src)
  <2> WITNESS column(ColumnId(src, c))
  <2> QED
      BY <1>4, <1>6
<1> QED
    BY <1>3, <1>5, <1>7 DEF t, issues, kept

(* A ledger has the issues of the profile, resolved when approved.         *)
LedgerTells(src, ledger, issues, approved) ==
    /\ DOMAIN ledger = 1..Len(issues) /\ Len(issues) \in Nat
    /\ \A i \in 1..Len(issues) :
          /\ issues[i] \in IssueSet(src) /\ IssueTells(src, issues[i])
          /\ ledger[i].id = issues[i].id /\ ledger[i].kind = issues[i].kind
          /\ ledger[i].sourceRow = issues[i].sourceRow
          /\ ledger[i].fieldId = issues[i].fieldId
          /\ ledger[i].original = issues[i].original
          /\ ledger[i].action = issues[i].action
          /\ ledger[i].canonicalSourceRow = issues[i].canonicalSourceRow
          /\ ledger[i].status = "resolved" <=> issues[i].id \in approved

(* So has the ledger of a normalized table.                                *)
LEMMA LedgerOfTable ==
    ASSUME NEW src, RawTable(src), NEW plan
    PROVE  LedgerTells(src, NormalizeTable(src, plan).qualityIssues, ProfileTable(src).issues,
                       plan.issueIds)
<1> DEFINE ledger == NormalizeTable(src, plan).qualityIssues
           issues == ProfileTable(src).issues
<1>1. issues \in Seq(IssueSet(src))
    BY IssuesOfProfile
<1>2. ledger = [i \in DOMAIN issues |-> Recorded(issues[i], plan.issueIds)]
    BY DEF NormalizeTable, NormalizeProfiled
<1> HIDE DEF ledger, issues
<1>3. Len(issues) \in Nat /\ DOMAIN issues = 1..Len(issues)
    BY <1>1, LenProperties
<1>4. ASSUME NEW i \in 1..Len(issues)
      PROVE  /\ issues[i] \in IssueSet(src) /\ IssueTells(src, issues[i])
             /\ ledger[i].id = issues[i].id /\ ledger[i].kind = issues[i].kind
             /\ ledger[i].sourceRow = issues[i].sourceRow
             /\ ledger[i].fieldId = issues[i].fieldId
             /\ ledger[i].original = issues[i].original
             /\ ledger[i].action = issues[i].action
             /\ ledger[i].canonicalSourceRow = issues[i].canonicalSourceRow
             /\ ledger[i].status = "resolved" <=> issues[i].id \in plan.issueIds
  <2>1. issues[i] \in IssueSet(src)
      BY <1>1, <1>4, ElementOfSeq
  <2>2. ledger[i] = Recorded(issues[i], plan.issueIds)
      BY <1>2, <1>3
  <2> QED
      BY <2>1, <2>2, RecordedFields, IssueSetTells
<1> QED
    BY <1>2, <1>3, <1>4 DEF LedgerTells, ledger, issues

(* What the ledger told of a cell is what the cell held.                   *)
LEMMA ToldIsHeld ==
    ASSUME NEW src, RawTable(src), NEW plan, NEW r, NEW c \in Columns(src)
    PROVE  LET t == NormalizeTable(src, plan)
               told == ToldOf(t, r, ColumnId(src, c))
           IN /\ told \subseteq 1..Len(ProfileTable(src).issues)
              /\ \A i \in told : t.qualityIssues[i].original = CellText(src, r, c)
              /\ told # {} => Min(told) \in told /\ Max(told) \in told
<1> DEFINE t == NormalizeTable(src, plan)
           told == ToldOf(t, r, ColumnId(src, c))
           issues == ProfileTable(src).issues
<1>1. /\ DOMAIN t.qualityIssues = 1..Len(issues) /\ Len(issues) \in Nat
      /\ \A i \in 1..Len(issues) : /\ IssueTells(src, issues[i])
                                   /\ t.qualityIssues[i].original = issues[i].original
                                   /\ t.qualityIssues[i].fieldId = issues[i].fieldId
                                   /\ t.qualityIssues[i].sourceRow = issues[i].sourceRow
  <2>1. LedgerTells(src, t.qualityIssues, issues, plan.issueIds)
      BY LedgerOfTable
  <2> HIDE DEF t, issues
  <2> QED
      BY <2>1 DEF LedgerTells
<1>2. \A i \in told : /\ i \in 1..Len(issues) /\ t.qualityIssues[i].sourceRow = r
                      /\ t.qualityIssues[i].fieldId = ColumnId(src, c)
                      /\ t.qualityIssues[i].original # NoText
    BY <1>1 DEF ToldOf
<1> HIDE DEF t, told, issues
<1>3. \A i \in told : t.qualityIssues[i].original = CellText(src, r, c)
    BY <1>1, <1>2 DEF IssueTells
<1>4. told # {} => Min(told) \in told /\ Max(told) \in told
  <2> HAVE told # {}
  <2>1. told \in SUBSET Nat /\ \A i \in told : i <= Len(issues)
      BY <1>1, <1>2
  <2> QED
      BY <1>1, <2>1, NatMin, NatMax
<1> QED
    BY <1>2, <1>3, <1>4 DEF t, told, issues

(* The issues that left a row out.                                         *)
Excluding(t, r) == {i \in DOMAIN t.qualityIssues :
    /\ t.qualityIssues[i].kind = "duplicate" /\ t.qualityIssues[i].sourceRow = r
    /\ t.qualityIssues[i].status = "resolved"}

(* The rows left out are repeated ones, by one issue each, in favour of a  *)
(* kept row of the same texts.                                             *)
LEMMA RowsLeftOut ==
    ASSUME NEW src, RawTable(src), NEW plan, PlannedFor(src, plan)
    PROVE  LET t == NormalizeTable(src, plan)
           IN /\ DOMAIN t.rows \subseteq DataRows(src)
              /\ \A r \in DOMAIN t.rows : Excluding(t, r) = {}
              /\ \A r \in DataRows(src) \ DOMAIN t.rows : \E i \in DOMAIN t.qualityIssues :
                    /\ Excluding(t, r) = {i}
                    /\ LET kept == t.qualityIssues[i].canonicalSourceRow
                       IN kept \in DOMAIN t.rows /\ RowKey(src, kept) = RowKey(src, r)
<1> DEFINE t == NormalizeTable(src, plan)
           issues == ProfileTable(src).issues
           n == Len(issues)
           approved == plan.issueIds
           out == Excluded(issues, approved)
<1>1. /\ DOMAIN t.qualityIssues = 1..n /\ n \in Nat
      /\ \A i \in 1..n : /\ IssueTells(src, issues[i])
                         /\ t.qualityIssues[i].kind = issues[i].kind
                         /\ t.qualityIssues[i].sourceRow = issues[i].sourceRow
                         /\ t.qualityIssues[i].canonicalSourceRow = issues[i].canonicalSourceRow
                         /\ t.qualityIssues[i].status = "resolved" <=> issues[i].id \in approved
  <2>1. LedgerTells(src, t.qualityIssues, issues, plan.issueIds)
      BY LedgerOfTable
  <2> HIDE DEF t, issues
  <2> QED
      BY <2>1 DEF LedgerTells
<1>2. DOMAIN t.rows = DataRows(src) \ out
    BY RowsOfTable
<1>3. DOMAIN issues = 1..n /\ Once(issues, DuplicateSet(src))
    BY IssuesOfProfile, LenProperties
<1>4. \A r : r \in out <=> \E i \in 1..n : /\ issues[i].kind = "duplicate" /\ issues[i].sourceRow = r
                                           /\ issues[i].id \in approved
    BY <1>3 DEF Excluded, IssuesOf
<1> HIDE DEF t, issues, n, approved, out
<1>5. \A r : \A i : i \in Excluding(t, r) <=>
          /\ i \in 1..n /\ issues[i].kind = "duplicate" /\ issues[i].sourceRow = r
          /\ issues[i].id \in approved
    BY <1>1 DEF Excluding
<1>6. \A i \in 1..n : issues[i].kind = "duplicate" =>
          issues[i].sourceRow \in Repeated(src) /\ issues[i] = Duplicate(src, issues[i].sourceRow)
  <2> TAKE i \in 1..n
  <2> HAVE issues[i].kind = "duplicate"
  <2>1. PICK r \in Repeated(src) : issues[i] = Duplicate(src, r)
      BY <1>1 DEF IssueTells
  <2>2. issues[i].sourceRow = r
      BY <2>1, DuplicateFields
  <2> QED
      BY <2>1, <2>2
<1>7. \A r : r \in out <=> Excluding(t, r) # {}
    BY <1>4, <1>5
<1>8. \A r \in DOMAIN t.rows : Excluding(t, r) = {}
    BY <1>2, <1>7
<1>9. ASSUME NEW r \in DataRows(src) \ DOMAIN t.rows
      PROVE  \E i \in DOMAIN t.qualityIssues :
                /\ Excluding(t, r) = {i}
                /\ LET kept == t.qualityIssues[i].canonicalSourceRow
                   IN kept \in DOMAIN t.rows /\ RowKey(src, kept) = RowKey(src, r)
  <2>1. r \in out
      BY <1>2
  <2>2. PICK i : i \in Excluding(t, r)
      BY <1>7, <2>1
  <2>3. /\ i \in 1..n /\ issues[i].kind = "duplicate" /\ issues[i].sourceRow = r
        /\ issues[i] = Duplicate(src, r) /\ r \in Repeated(src)
      BY <1>5, <1>6, <2>2
  <2>4. \A j \in Excluding(t, r) : j = i
    <3> TAKE j \in Excluding(t, r)
    <3>1. j \in 1..n /\ issues[j] = Duplicate(src, r)
        BY <1>5, <1>6
    <3>2. issues[i] \in DuplicateSet(src)
        BY <2>3 DEF DuplicateSet
    <3> QED
        BY <1>3, <2>3, <3>1, <3>2 DEF Once, n
  <2>5. Excluding(t, r) = {i}
      BY <2>2, <2>4
  <2> DEFINE k == Canonical(src, r)
  <2>6. t.qualityIssues[i].canonicalSourceRow = k
      BY <1>1, <2>3, DuplicateFields
  <2>7. k \in DataRows(src) /\ RowKey(src, k) = RowKey(src, r) /\ Canonical(src, k) = k
      BY CanonicalRow
  <2> HIDE DEF k
  <2>8. k \notin out
    <3>1. k \notin Repeated(src)
        BY <2>7 DEF Repeated
    <3>2. \A j \in Excluding(t, k) : FALSE
        BY <1>5, <1>6, <3>1
    <3> QED
        BY <1>7, <3>2
  <2>9. k \in DOMAIN t.rows
      BY <1>2, <2>7, <2>8
  <2>10. i \in DOMAIN t.qualityIssues
      BY <1>1, <2>3
  <2> QED
      BY <2>5, <2>6, <2>7, <2>9, <2>10
<1> QED
    BY <1>2, <1>8, <1>9 DEF t

(* The value of a kept cell, when the ledger says nothing of it.           *)
LEMMA ValueUntold ==
    ASSUME NEW src, RawTable(src), NEW plan, PlannedFor(src, plan),
           NEW r \in DataRows(src), NEW c \in Columns(src), NEW column, IsColumn(src, column, c),
           ToldOf(NormalizeTable(src, plan), r, ColumnId(src, c)) = {}
    PROVE  LET v == NormalizedValue(src, ProfileTable(src).issues, plan, r, column)
               t == CellText(src, r, c)
           IN \/ v = t
              \/ v.kind = "decimal" /\ v = Trim(t)
              \/ v.kind = "flag" /\ v = Flag(t)
<1> DEFINE issues == ProfileTable(src).issues
           n == Len(issues)
           cell == CellAt(src, r, c)
           t == CellText(src, r, c)
           ledger == NormalizeTable(src, plan).qualityIssues
<1>1. /\ DOMAIN ledger = 1..n /\ n \in Nat
      /\ \A i \in 1..n : /\ IssueTells(src, issues[i])
                         /\ ledger[i].original = issues[i].original
                         /\ ledger[i].fieldId = issues[i].fieldId
                         /\ ledger[i].sourceRow = issues[i].sourceRow
  <2>1. LedgerTells(src, ledger, issues, plan.issueIds)
      BY LedgerOfTable
  <2> HIDE DEF ledger, issues
  <2> QED
      BY <2>1 DEF LedgerTells
<1>2. issues \in Seq(IssueSet(src)) /\ DOMAIN issues = 1..n
    BY IssuesOfProfile, LenProperties
<1>3. column.id = ColumnId(src, c) /\ column.sourceColumn = c /\ cell.text = t
    BY DEF IsColumn, CellText
<1>4. \A i \in 1..n : issues[i].sourceRow = r /\ issues[i].fieldId = ColumnId(src, c) =>
          issues[i].original = NoText
    BY <1>1 DEF ToldOf
<1>5. cell.type = "formula" => t = NoText
  <2> SUFFICES ASSUME cell.type = "formula", t # NoText PROVE FALSE
      OBVIOUS
  <2>1. Holds(issues, FormulaIssue(src, r, c))
      BY IssuesOfProfile
  <2>2. PICK i \in 1..n : issues[i] = FormulaIssue(src, r, c)
      BY <2>1 DEF Holds
  <2>3. issues[i].sourceRow = r /\ issues[i].fieldId = ColumnId(src, c) /\ issues[i].original = t
      BY <2>2, IssueFields, ColumnFields DEF FormulaIssue, CellIssue
  <2> QED
      BY <1>4, <2>3
<1>6. ~CacheUsed(cell, r, column, plan)
  <2> SUFFICES ASSUME CacheUsed(cell, r, column, plan) PROVE FALSE
      OBVIOUS
  <2>1. <<"formula", r, c>> \in plan.issueIds
      BY <1>3 DEF CacheUsed
  <2>2. PICK q \in Range(issues) : q.id = <<"formula", r, c>>
      BY <2>1 DEF PlannedFor, PlanKnown
  <2>3. PICK i \in 1..n : issues[i] = q
      BY <1>2, <2>2 DEF Range
  <2>4. q.original # NoText /\ q.sourceRow = r /\ q.fieldId = ColumnId(src, c)
      BY <1>1, <2>2, <2>3 DEF IssueTells
  <2> QED
      BY <1>4, <2>3, <2>4
<1>7. Mapped(issues, plan.issueIds, r, column) = {}
  <2> SUFFICES ASSUME NEW i \in 1..n, issues[i].kind = "category", issues[i].sourceRow = r,
                      issues[i].fieldId = column.id
               PROVE  FALSE
      BY <1>2 DEF Mapped, IssuesOf
  <2>1. issues[i].original # NoText
      BY <1>1 DEF IssueTells
  <2> QED
      BY <1>3, <1>4, <2>1
<1>8. NormalizedValue(src, issues, plan, r, column) =
          IF cell.type = "formula" THEN NoText ELSE ToCellValue(t, column)
    BY <1>3, <1>6, <1>7 DEF NormalizedValue
<1> HIDE DEF issues, n, cell, ledger
<1>9. "kind" \in DOMAIN t
    BY DEF RawTable, DataRows
<1> HIDE DEF t
<1>10. \/ ToCellValue(t, column) = t
       \/ ToCellValue(t, column) = Flag(t)
       \/ t.kind = "decimal" /\ ToCellValue(t, column) = Trim(t)
    BY DEF ToCellValue
<1>11. Flag(t).kind = "flag"
    BY DEF Flag, Text
<1>12. Trim(t).kind = t.kind
    BY <1>9 DEF Trim
<1> QED
    BY <1>5, <1>8, <1>10, <1>11, <1>12 DEF issues, t

(* The canonical row of a row of data is kept.                             *)
LEMMA CanonicalKept ==
    ASSUME NEW src, RawTable(src), NEW plan, PlannedFor(src, plan), NEW r \in DataRows(src)
    PROVE  Canonical(src, r) \in DOMAIN NormalizeTable(src, plan).rows
<1> DEFINE t == NormalizeTable(src, plan)
           k == Canonical(src, r)
<1>1. k \in DataRows(src) /\ Canonical(src, k) = k
    BY CanonicalRow
<1>2. \A x \in DataRows(src) \ DOMAIN t.rows : x \in Repeated(src)
  <2> TAKE x \in DataRows(src) \ DOMAIN t.rows
  <2>1. PICK i \in DOMAIN t.qualityIssues : Excluding(t, x) = {i}
      BY RowsLeftOut
  <2>2. t.qualityIssues[i].kind = "duplicate" /\ t.qualityIssues[i].sourceRow = x
      BY <2>1 DEF Excluding
  <2>3. /\ IssueTells(src, ProfileTable(src).issues[i])
        /\ t.qualityIssues[i].kind = ProfileTable(src).issues[i].kind
        /\ t.qualityIssues[i].sourceRow = ProfileTable(src).issues[i].sourceRow
    <3> DEFINE issues == ProfileTable(src).issues
    <3>1. LedgerTells(src, t.qualityIssues, issues, plan.issueIds)
        BY LedgerOfTable
    <3>2. i \in DOMAIN t.qualityIssues
        BY <2>1
    <3> HIDE DEF t
    <3>3. /\ IssueTells(src, issues[i]) /\ t.qualityIssues[i].kind = issues[i].kind
          /\ t.qualityIssues[i].sourceRow = issues[i].sourceRow
      <4> HIDE DEF issues
      <4> QED
          BY <3>1, <3>2 DEF LedgerTells
    <3> QED
        BY <3>3
  <2>4. PICK y \in Repeated(src) : ProfileTable(src).issues[i] = Duplicate(src, y)
      BY <2>2, <2>3 DEF IssueTells
  <2> QED
      BY <2>2, <2>3, <2>4, DuplicateFields
<1> HIDE DEF t, k
<1>3. k \notin Repeated(src)
    BY <1>1 DEF Repeated
<1> QED
    BY <1>1, <1>2, <1>3 DEF t, k

(* A kept cell is told as it was, by its value or by the ledger, and the   *)
(* rows of evidence tell the same.                                         *)
LEMMA CellsTold ==
    ASSUME NEW src, RawTable(src), NEW plan, PlannedFor(src, plan)
    PROVE  LET t == NormalizeTable(src, plan)
               told(r, c) == OriginalValue(t, r, ColumnId(src, c))
           IN /\ \A r \in DOMAIN t.rows : \A c \in Columns(src) :
                    \/ told(r, c) = CellText(src, r, c)
                    \/ told(r, c).kind = "decimal" /\ told(r, c) = Trim(CellText(src, r, c))
                    \/ told(r, c).kind = "flag" /\ told(r, c) = Flag(CellText(src, r, c))
              /\ \A r \in DOMAIN t.rows :
                    LET originals == EvidenceRow(t, r).originals
                    IN \A f \in DOMAIN originals : originals[f] = OriginalValue(t, r, f)
<1> DEFINE t == NormalizeTable(src, plan)
           issues == ProfileTable(src).issues
           value(r, c) == t.rows[r][ColumnId(src, c)]
           listed(r, c) == ToldOf(t, r, ColumnId(src, c))
<1>1. DOMAIN t.rows \subseteq DataRows(src)
    BY RowsLeftOut
<1>2. /\ \A r \in DOMAIN t.rows : DOMAIN t.rows[r] = {ColumnId(src, c) : c \in Columns(src)}
      /\ \A r \in DOMAIN t.rows : \A c \in Columns(src) :
            \E column : /\ IsColumn(src, column, c)
                        /\ value(r, c) = NormalizedValue(src, issues, plan, r, column)
    BY RowsOfTable
<1>3. \A r : \A c \in Columns(src) : listed(r, c) # {} =>
          /\ Min(listed(r, c)) \in listed(r, c) /\ Max(listed(r, c)) \in listed(r, c)
          /\ \A i \in listed(r, c) : t.qualityIssues[i].original = CellText(src, r, c)
    BY ToldIsHeld
<1>4. \A r : \A c \in Columns(src) : listed(r, c) # {} =>
          OriginalValue(t, r, ColumnId(src, c)) = CellText(src, r, c)
    BY <1>3 DEF OriginalValue
<1>5. \A r \in DOMAIN t.rows : \A c \in Columns(src) : listed(r, c) = {} =>
          OriginalValue(t, r, ColumnId(src, c)) = value(r, c)
    BY DEF OriginalValue
<1>6. ASSUME NEW r \in DOMAIN t.rows, NEW c \in Columns(src), listed(r, c) = {}
      PROVE  \/ value(r, c) = CellText(src, r, c)
             \/ value(r, c).kind = "decimal" /\ value(r, c) = Trim(CellText(src, r, c))
             \/ value(r, c).kind = "flag" /\ value(r, c) = Flag(CellText(src, r, c))
  <2>1. PICK column : /\ IsColumn(src, column, c)
                      /\ value(r, c) = NormalizedValue(src, issues, plan, r, column)
      BY <1>2
  <2>2. r \in DataRows(src)
      BY <1>1
  <2> HIDE DEF value
  <2> QED
      BY <1>6, <2>1, <2>2, ValueUntold
<1>7. ASSUME NEW r \in DOMAIN t.rows, NEW f \in DOMAIN EvidenceRow(t, r).originals
      PROVE  EvidenceRow(t, r).originals[f] = OriginalValue(t, r, f)
  <2>1. EvidenceRow(t, r).originals
            = [g \in {h \in DOMAIN t.rows[r] : ToldOf(t, r, h) # {}} |->
                  t.qualityIssues[Max(ToldOf(t, r, g))].original]
      BY DEF EvidenceRow
  <2>2. f \in DOMAIN t.rows[r] /\ ToldOf(t, r, f) # {}
      BY <1>7, <2>1
  <2>3. PICK c \in Columns(src) : f = ColumnId(src, c)
      BY <1>2, <2>2
  <2>4. EvidenceRow(t, r).originals[f] = t.qualityIssues[Max(ToldOf(t, r, f))].original
      BY <2>1, <2>2
  <2> HIDE DEF t
  <2> QED
      BY <1>3, <1>4, <2>2, <2>3, <2>4
<1> HIDE DEF t, value, listed
<1>8. \A r \in DOMAIN t.rows : \A c \in Columns(src) :
          LET told == OriginalValue(t, r, ColumnId(src, c))
          IN \/ told = CellText(src, r, c)
             \/ told.kind = "decimal" /\ told = Trim(CellText(src, r, c))
             \/ told.kind = "flag" /\ told = Flag(CellText(src, r, c))
    BY <1>4, <1>5, <1>6
<1> QED
    BY <1>7, <1>8 DEF t

(* The rules of one value are other rules than those of the table.         *)
LEMMA CellRulesOther ==
    ASSUME NEW t, NEW column
    PROVE  CheckCellValue(t, column)
               \subseteq {"cell.type", "cell.date", "cell.decimal", "cell.integer",
                          "cell.significantDigits"}
BY DEF CheckCellValue, Rule

(* The table has a value for every column of every kept row, and its       *)
(* ledger names columns and kept rows of it.                               *)
LEMMA TableChecked ==
    ASSUME NEW src, RawTable(src), NEW plan, PlannedFor(src, plan)
    PROVE  CheckNormalizedTable(NormalizeTable(src, plan))
               \cap {"row.values.columns", "issue.fieldId", "issue.canonicalRow"} = {}
<1> DEFINE t == NormalizeTable(src, plan)
           issues == ProfileTable(src).issues
           n == Len(issues)
           bad == {"row.values.columns", "issue.fieldId", "issue.canonicalRow"}
<1>1. /\ DOMAIN t.qualityIssues = 1..n /\ n \in Nat
      /\ \A i \in 1..n : /\ IssueTells(src, issues[i])
                         /\ t.qualityIssues[i].fieldId = issues[i].fieldId
                         /\ t.qualityIssues[i].canonicalSourceRow = issues[i].canonicalSourceRow
  <2>1. DOMAIN t.qualityIssues = 1..n /\ n \in Nat
    <3>1. LedgerTells(src, t.qualityIssues, issues, plan.issueIds)
        BY LedgerOfTable
    <3> HIDE DEF t, issues
    <3> QED
        BY <3>1 DEF LedgerTells
  <2>2. ASSUME NEW i \in 1..n
        PROVE  /\ IssueTells(src, issues[i])
               /\ t.qualityIssues[i].fieldId = issues[i].fieldId
               /\ t.qualityIssues[i].canonicalSourceRow = issues[i].canonicalSourceRow
    <3>1. LedgerTells(src, t.qualityIssues, issues, plan.issueIds)
        BY LedgerOfTable
    <3> HIDE DEF t, issues
    <3> QED
        BY <3>1 DEF LedgerTells
  <2> HIDE DEF t, issues, n
  <2> QED
      BY <2>1, <2>2
<1>2. DOMAIN t.columns = Columns(src) /\ \A c \in Columns(src) : t.columns[c].id = ColumnId(src, c)
    BY ColumnsNamed DEF IsColumn
<1>3. \A r \in DOMAIN t.rows : DOMAIN t.rows[r] = {ColumnId(src, c) : c \in Columns(src)}
    BY RowsOfTable
<1>4. \A r \in DataRows(src) : Canonical(src, r) \in DOMAIN t.rows
    BY CanonicalKept
<1> HIDE DEF t, issues, n
<1>5. {t.columns[i].id : i \in DOMAIN t.columns} = {ColumnId(src, c) : c \in Columns(src)}
    BY <1>2
<1>6. UniqueIds(t.columns) \cap bad = {} /\ UniqueIds(t.qualityIssues) \cap bad = {}
    BY DEF UniqueIds, Rule
<1>7. \A r \in DOMAIN t.rows :
          Rule(DOMAIN t.rows[r] = {t.columns[i].id : i \in DOMAIN t.columns},
               "row.values.columns") \cap bad = {}
    BY <1>3, <1>5 DEF Rule
<1>8. \A v, column : CheckCellValue(v, column) \cap bad = {}
    BY CellRulesOther
<1>9. ASSUME NEW i \in DOMAIN t.qualityIssues
      PROVE  CheckIssue(t.qualityIssues[i], t) \cap bad = {}
  <2> DEFINE q == t.qualityIssues[i]
  <2>1. /\ IssueTells(src, issues[i]) /\ q.fieldId = issues[i].fieldId
        /\ q.canonicalSourceRow = issues[i].canonicalSourceRow
      BY <1>1
  <2>2. q.fieldId = NoField \/ HasColumn(t, q.fieldId)
    <3>1. q.fieldId = NoField \/ \E c \in Columns(src) : q.fieldId = ColumnId(src, c)
        BY <2>1 DEF IssueTells
    <3> QED
        BY <1>2, <3>1 DEF HasColumn, HasId
  <2>3. q.canonicalSourceRow = NoRow \/ q.canonicalSourceRow \in DOMAIN t.rows
    <3>1. CASE issues[i].kind = "duplicate"
      <4>1. PICK r \in Repeated(src) : issues[i] = Duplicate(src, r)
          BY <2>1, <3>1 DEF IssueTells
      <4>2. r \in DataRows(src) /\ q.canonicalSourceRow = Canonical(src, r)
          BY <2>1, <4>1, DuplicateFields DEF Repeated
      <4> QED
          BY <1>4, <4>2
    <3>2. CASE issues[i].kind # "duplicate"
        BY <2>1, <3>2 DEF IssueTells
    <3> QED
        BY <3>1, <3>2
  <2> HIDE DEF q
  <2>4. CheckIssue(q, t) = {}
      BY <2>2, <2>3 DEF CheckIssue, Rule
  <2> QED
      BY <2>4 DEF q
<1> HIDE DEF bad
<1>10. ASSUME NEW rule \in CheckNormalizedTable(t)
       PROVE  rule \notin bad
  <2> DEFINE ids == UniqueIds(t.columns) \cup UniqueIds(t.qualityIssues)
             rows == UNION {Rule(DOMAIN t.rows[r] = {t.columns[i].id : i \in DOMAIN t.columns},
                                 "row.values.columns") : r \in DOMAIN t.rows}
             cells == UNION {UNION {CheckCellValue(t.rows[r][f], ById(t.columns, f)) :
                                       f \in DOMAIN t.rows[r]} : r \in DOMAIN t.rows}
             ledger == UNION {CheckIssue(t.qualityIssues[i], t) : i \in DOMAIN t.qualityIssues}
  <2>1. CheckNormalizedTable(t) = ids \cup rows \cup cells \cup ledger
      BY DEF CheckNormalizedTable
  <2>2. rule \in ids => rule \notin bad
      BY <1>6
  <2>3. rule \in rows => rule \notin bad
      BY <1>7
  <2>4. rule \in cells => rule \notin bad
      BY <1>8
  <2>5. rule \in ledger => rule \notin bad
      BY <1>9
  <2> HIDE DEF ids, rows, cells, ledger
  <2> QED
      BY <1>10, <2>1, <2>2, <2>3, <2>4, <2>5
<1> QED
    BY <1>10 DEF t, bad

(* The summary counts every row of data.                                   *)
LEMMA RowsCounted ==
    ASSUME NEW src, RawTable(src), NEW plan, PlannedFor(src, plan)
    PROVE  QualitySummaryOf(NormalizeTable(src, plan)).rawRows = Cardinality(DataRows(src))
<1> DEFINE t == NormalizeTable(src, plan)
           issues == ProfileTable(src).issues
           n == Len(issues)
           kept == DOMAIN t.rows
           gone == DataRows(src) \ kept
           marked == {i \in DOMAIN t.qualityIssues : /\ t.qualityIssues[i].action = "exclude-row"
                                                     /\ t.qualityIssues[i].status = "resolved"}
<1>1. /\ DOMAIN t.qualityIssues = 1..n /\ n \in Nat
      /\ \A i \in 1..n : /\ IssueTells(src, issues[i])
                         /\ t.qualityIssues[i].action = issues[i].action
                         /\ t.qualityIssues[i].kind = issues[i].kind
                         /\ t.qualityIssues[i].sourceRow = issues[i].sourceRow
  <2>1. DOMAIN t.qualityIssues = 1..n /\ n \in Nat
    <3>1. LedgerTells(src, t.qualityIssues, issues, plan.issueIds)
        BY LedgerOfTable
    <3> HIDE DEF t, issues
    <3> QED
        BY <3>1 DEF LedgerTells
  <2>2. ASSUME NEW i \in 1..n
        PROVE  /\ IssueTells(src, issues[i])
               /\ t.qualityIssues[i].action = issues[i].action
               /\ t.qualityIssues[i].kind = issues[i].kind
               /\ t.qualityIssues[i].sourceRow = issues[i].sourceRow
    <3>1. LedgerTells(src, t.qualityIssues, issues, plan.issueIds)
        BY LedgerOfTable
    <3> HIDE DEF t, issues
    <3> QED
        BY <3>1 DEF LedgerTells
  <2> HIDE DEF t, issues, n
  <2> QED
      BY <2>1, <2>2
<1>2. /\ kept \subseteq DataRows(src) /\ \A r \in kept : Excluding(t, r) = {}
      /\ \A r \in gone : \E i \in DOMAIN t.qualityIssues : Excluding(t, r) = {i}
    BY RowsLeftOut
<1>3. QualitySummaryOf(t).rawRows = Cardinality(kept) + Cardinality(marked)
    BY DEF QualitySummaryOf
<1>4. IsFiniteSet(DataRows(src))
    BY RowsOfData
<1> HIDE DEF t, issues, n, kept
<1>5. \A i \in marked : i \in Excluding(t, t.qualityIssues[i].sourceRow)
                            /\ t.qualityIssues[i].sourceRow \in DataRows(src)
  <2> TAKE i \in marked
  <2>1. i \in 1..n /\ t.qualityIssues[i].action = "exclude-row" /\ t.qualityIssues[i].status = "resolved"
      BY <1>1
  <2>2. t.qualityIssues[i].kind = "duplicate" /\ issues[i].kind = "duplicate"
      BY <1>1, <2>1 DEF IssueTells
  <2>3. PICK r \in Repeated(src) : issues[i] = Duplicate(src, r)
      BY <1>1, <2>1, <2>2 DEF IssueTells
  <2>4. t.qualityIssues[i].sourceRow = r /\ r \in DataRows(src)
      BY <1>1, <2>1, <2>3, DuplicateFields DEF Repeated
  <2> QED
      BY <1>1, <2>1, <2>2, <2>4 DEF Excluding
<1>6. \A r : \A i \in Excluding(t, r) : i \in marked /\ t.qualityIssues[i].sourceRow = r
  <2> TAKE r
  <2> TAKE i \in Excluding(t, r)
  <2>1. /\ i \in 1..n /\ t.qualityIssues[i].kind = "duplicate" /\ t.qualityIssues[i].sourceRow = r
        /\ t.qualityIssues[i].status = "resolved"
      BY <1>1 DEF Excluding
  <2>2. t.qualityIssues[i].action = "exclude-row"
      BY <1>1, <2>1 DEF IssueTells
  <2> QED
      BY <1>1, <2>1, <2>2
<1> HIDE DEF marked
<1> DEFINE row == [i \in marked |-> t.qualityIssues[i].sourceRow]
<1>7. row \in [marked -> gone]
    BY <1>2, <1>5
<1>8. row \in Surjection(marked, gone)
    BY <1>2, <1>6, <1>7 DEF Surjection
<1>9. row \in Injection(marked, gone)
  <2>1. ASSUME NEW i \in marked, NEW j \in marked, row[i] = row[j]
        PROVE  i = j
    <3>1. i \in Excluding(t, row[i]) /\ j \in Excluding(t, row[i]) /\ row[i] \in gone
        BY <1>5, <1>7, <2>1
    <3> QED
        BY <1>2, <3>1
  <2> QED
      BY <1>7, <2>1 DEF Injection, IsInjective
<1>10. IsFiniteSet(gone) /\ IsFiniteSet(kept)
    BY <1>2, <1>4, FS_Subset
<1>11. Cardinality(marked) = Cardinality(gone)
    BY <1>8, <1>9, <1>10, FS_Injection
<1>12. Cardinality(gone) = Cardinality(DataRows(src)) - Cardinality(kept)
  <2>1. DataRows(src) \cap kept = kept
      BY <1>2
  <2> QED
      BY <1>4, <2>1, FS_Difference
<1>13. Cardinality(DataRows(src)) \in Nat /\ Cardinality(kept) \in Nat
    BY <1>4, <1>10, FS_CardinalityType
<1> QED
    BY <1>3, <1>11, <1>12, <1>13 DEF t

(* The table is what a plan for this raw table makes of it.                *)
TablePlanned ==
    /\ raw \in Tables
    /\ IsThere(table) => \E plan \in Plans(raw) :
           PlanKnown(raw, plan) /\ table = <<NormalizeTable(raw, plan)>>

(* Such a plan has the columns of the file.                                *)
LEMMA TablePlan ==
    ASSUME TablePlanned, IsThere(table)
    PROVE  \E plan : PlannedFor(raw, plan) /\ table = <<NormalizeTable(raw, plan)>>
<1>1. RawTable(raw)
    BY RawAssumption DEF TablePlanned
<1> QED
    BY <1>1, PlansNamed DEF TablePlanned

(* At first there is no table.                                             *)
LEMMA TablePlannedInit ==
    ASSUME Init
    PROVE  TablePlanned
BY DEF Init, TablePlanned, IsThere, Tables

(* Only normalizing writes the table, and nothing changes the file.        *)
LEMMA TablePlannedStep ==
    ASSUME TablePlanned, [Next]_vars
    PROVE  TablePlanned'
<1>1. CASE Normalize
  <2>1. PICK plan \in Plans(raw) : PlanKnown(raw, plan) /\ table' = <<NormalizeTable(raw, plan)>>
      BY <1>1 DEF Normalize, Review, Approve
  <2>2. raw' = raw
      BY <1>1 DEF Normalize
  <2> QED
      BY <2>1, <2>2 DEF TablePlanned
<1>2. CASE raw' = raw /\ table' = table
    BY <1>2 DEF TablePlanned, IsThere
<1>3. CASE AnalyzeTable
    BY <1>2, <1>3 DEF AnalyzeTable, Refuse
<1>4. CASE SubmitScenario
    BY <1>2, <1>4 DEF SubmitScenario, Refuse
<1>5. CASE BuildModel
    BY <1>2, <1>5 DEF BuildModel, Refuse
<1>6. CASE WriteWorkbook
    BY <1>2, <1>6 DEF WriteWorkbook, Refuse
<1>7. CASE WriteDeck
    BY <1>2, <1>7 DEF WriteDeck, Refuse
<1>8. CASE UNCHANGED vars
    BY <1>2, <1>8 DEF vars
<1> QED
    BY <1>1, <1>3, <1>4, <1>5, <1>6, <1>7, <1>8 DEF Next

(* A table in the pipeline is this raw table normalized by a plan that one *)
(* of its reviews can send, any issues, groups, columns and formulas ticked*)
(* or not, or a caller of the packages, and that names only issues of its  *)
(* profile. No step of the controller puts any other table there, or keeps *)
(* one of another file.                                                    *)
THEOREM TableFromPlan == Spec => []TablePlanned
<1> QED
    BY TablePlannedInit, TablePlannedStep, PTL DEF Spec

(* Such a table accounts for every row of data and every cell.             *)
LEMMA TableAccounts ==
    ASSUME TablePlanned
    PROVE  RowsTold
<1> SUFFICES ASSUME IsThere(table) PROVE RowsTold
    BY DEF RowsTold
<1>1. PICK plan : PlannedFor(raw, plan) /\ table = <<NormalizeTable(raw, plan)>>
    BY TablePlan
<1> DEFINE t == table[1]
           told(r, c) == OriginalValue(t, r, ColumnId(raw, c))
<1>2. RawTable(raw) /\ t = NormalizeTable(raw, plan)
    BY <1>1, RawAssumption DEF TablePlanned
<1>3. /\ \A r \in DOMAIN t.rows : Excluding(t, r) = {}
      /\ \A r \in DataRows(raw) \ DOMAIN t.rows : \E i \in DOMAIN t.qualityIssues :
            /\ Excluding(t, r) = {i}
            /\ LET kept == t.qualityIssues[i].canonicalSourceRow
               IN kept \in DOMAIN t.rows /\ RowKey(raw, kept) = RowKey(raw, r)
    BY <1>1, <1>2, RowsLeftOut
<1>4. /\ \A r \in DOMAIN t.rows : \A c \in Columns(raw) :
            \/ told(r, c) = CellText(raw, r, c)
            \/ told(r, c).kind = "decimal" /\ told(r, c) = Trim(CellText(raw, r, c))
            \/ told(r, c).kind = "flag" /\ told(r, c) = Flag(CellText(raw, r, c))
      /\ \A r \in DOMAIN t.rows :
            LET originals == EvidenceRow(t, r).originals
            IN \A f \in DOMAIN originals : originals[f] = OriginalValue(t, r, f)
    BY <1>1, <1>2, CellsTold
<1>5. CheckNormalizedTable(t) \cap {"row.values.columns", "issue.fieldId", "issue.canonicalRow"} = {}
    BY <1>1, <1>2, TableChecked
<1>6. QualitySummaryOf(t).rawRows = Cardinality(DataRows(raw))
    BY <1>1, <1>2, RowsCounted
<1>7. \A r \in DataRows(raw) :
          IF r \in DOMAIN t.rows THEN Excluding(t, r) = {}
          ELSE /\ Cardinality(Excluding(t, r)) = 1
               /\ \A i \in Excluding(t, r) :
                     LET kept == t.qualityIssues[i].canonicalSourceRow
                     IN kept \in DOMAIN t.rows /\ RowKey(raw, kept) = RowKey(raw, r)
  <2> TAKE r \in DataRows(raw)
  <2>1. CASE r \in DOMAIN t.rows
      BY <1>3, <2>1
  <2>2. CASE r \notin DOMAIN t.rows
    <3>1. PICK i \in DOMAIN t.qualityIssues :
              /\ Excluding(t, r) = {i}
              /\ LET kept == t.qualityIssues[i].canonicalSourceRow
                 IN kept \in DOMAIN t.rows /\ RowKey(raw, kept) = RowKey(raw, r)
        BY <1>3, <2>2
    <3>2. Cardinality(Excluding(t, r)) = 1
        BY <3>1, FS_Singleton
    <3> HIDE DEF t
    <3> QED
        BY <2>2, <3>1, <3>2
  <2> QED
      BY <2>1, <2>2
<1> HIDE DEF t
<1> QED
    BY <1>4, <1>5, <1>6, <1>7 DEF RowsTold, Excluding, t

-----------------------------------------------------------------------------
(* The rows of a selection, as spans and as pages                          *)

(* Numbers that ascend are the numbers of their set in their order.        *)
LEMMA Enumerated ==
    ASSUME NEW rows \in SUBSET Nat, NEW n \in Nat, NEW s \in [1..n -> rows],
           \A k, l \in 1..n : k < l => s[k] < s[l], \A r \in rows : \E k \in 1..n : s[k] = r
    PROVE  IsFiniteSet(rows) /\ Cardinality(rows) = n /\ RowsIn(rows) = s
<1> DEFINE below(r) == {q \in rows : q < r}
<1>1. \A k, l \in 1..n : s[k] = s[l] => k = l
  <2> TAKE k, l \in 1..n
  <2>1. s[k] \in Nat /\ s[l] \in Nat /\ (k < l => s[k] < s[l]) /\ (l < k => s[l] < s[k])
      OBVIOUS
  <2> QED
      BY <2>1
<1>2. \A k \in 1..n : \A i \in 1..n : s[i] < s[k] => i < k
  <2> TAKE k \in 1..n
  <2> TAKE i \in 1..n
  <2>1. s[k] \in Nat /\ s[i] \in Nat /\ (k < i => s[k] < s[i])
      OBVIOUS
  <2> QED
      BY <2>1
<1>3. IsFiniteSet(rows) /\ Cardinality(rows) = n
  <2>1. s \in Surjection(1..n, rows) /\ s \in Injection(1..n, rows)
      BY <1>1 DEF Surjection, Injection, IsInjective
  <2>2. IsFiniteSet(1..n) /\ Cardinality(1..n) = n
      BY FS_Interval
  <2> QED
      BY <2>1, <2>2, FS_Surjection
<1>4. \A k \in 1..n : Cardinality(below(s[k])) = k - 1
  <2> TAKE k \in 1..n
  <2> DEFINE front == [i \in 1..k - 1 |-> s[i]]
  <2>1. \A i \in 1..k - 1 : i \in 1..n /\ i < k
      OBVIOUS
  <2>2. front \in [1..k - 1 -> below(s[k])]
      BY <2>1
  <2>3. \A q \in below(s[k]) : \E i \in 1..k - 1 : front[i] = q
    <3> TAKE q \in below(s[k])
    <3>1. PICK i \in 1..n : s[i] = q
        OBVIOUS
    <3>2. i < k
        BY <1>2, <3>1
    <3>3. i \in 1..k - 1 /\ front[i] = q
        BY <3>1, <3>2
    <3> QED
        BY <3>3
  <2>4. \A i, j \in 1..k - 1 : front[i] = front[j] => i = j
      BY <1>1, <2>1
  <2> HIDE DEF front, below
  <2>5. front \in Surjection(1..k - 1, below(s[k])) /\ front \in Injection(1..k - 1, below(s[k]))
      BY <2>2, <2>3, <2>4 DEF Surjection, Injection, IsInjective
  <2>6. IsFiniteSet(1..k - 1) /\ Cardinality(1..k - 1) = k - 1
      BY FS_Interval
  <2> QED
      BY <2>5, <2>6, FS_Surjection
<1>5. \A k \in 1..n : RowsIn(rows)[k] = s[k]
  <2> TAKE k \in 1..n
  <2> DEFINE chosen == CHOOSE r \in rows : Cardinality(below(r)) = k - 1
  <2>1. chosen \in rows /\ Cardinality(below(chosen)) = k - 1
    <3>1. s[k] \in rows /\ Cardinality(below(s[k])) = k - 1
        BY <1>4
    <3> HIDE DEF below
    <3> QED
        BY <3>1
  <2>2. RowsIn(rows)[k] = chosen
      BY <1>3 DEF RowsIn
  <2> HIDE DEF chosen
  <2>3. PICK j \in 1..n : s[j] = chosen
      BY <2>1
  <2>4. Cardinality(below(chosen)) = j - 1
      BY <1>4, <2>3
  <2>5. j = k
      BY <2>1, <2>4
  <2> QED
      BY <2>2, <2>3, <2>5
<1>6. RowsIn(rows) \in [1..n -> rows]
    BY <1>3, InOrder
<1> QED
    BY <1>3, <1>5, <1>6

(* The numbers up to n, in their order.                                    *)
LEMMA IdentityOrder ==
    ASSUME NEW n \in Nat
    PROVE  RowsIn(1..n) = [k \in 1..n |-> k]
<1> DEFINE s == [k \in 1..n |-> k]
<1>1. s \in [1..n -> 1..n] /\ (\A k, l \in 1..n : k < l => s[k] < s[l])
      /\ (\A r \in 1..n : \E k \in 1..n : s[k] = r)
    OBVIOUS
<1>2. 1..n \in SUBSET Nat
    OBVIOUS
<1> HIDE DEF s
<1> QED
    BY <1>1, <1>2, Enumerated DEF s

(* A span of a set of rows: they are all there, and none is beside it.     *)
Runs(s, rows) ==
    /\ s.first \in rows /\ s.last \in rows /\ s.first <= s.last
    /\ s.first - 1 \notin rows /\ s.last + 1 \notin rows
    /\ \A q \in s.first..s.last : q \in rows

(* From a row on there is a last one before a gap.                         *)
LEMMA LastOfRun ==
    ASSUME NEW rows \in SUBSET Nat, IsFiniteSet(rows), NEW r \in rows
    PROVE  LET last == Min({q \in rows : q >= r /\ q + 1 \notin rows})
           IN last \in rows /\ r <= last /\ last + 1 \notin rows /\ \A q \in r..last : q \in rows
<1> DEFINE ends == {q \in rows : q >= r /\ q + 1 \notin rows}
           last == Min(ends)
           n == Cardinality(rows)
<1>1. ends \in SUBSET Nat /\ ends # {}
  <2>1. /\ n \in Nat /\ RowsIn(rows) \in [1..n -> rows]
        /\ \A k, l \in 1..n : k < l => RowsIn(rows)[k] < RowsIn(rows)[l]
        /\ \A q \in rows : \E k \in 1..n : RowsIn(rows)[k] = q
      BY InOrder
  <2> HIDE DEF n
  <2>2. n \in 1..n
      BY <2>1
  <2> DEFINE top == RowsIn(rows)[n]
  <2>3. top \in rows
      BY <2>1, <2>2
  <2>4. \A q \in rows : q <= top
    <3> TAKE q \in rows
    <3>1. PICK k \in 1..n : RowsIn(rows)[k] = q
        BY <2>1
    <3>2. k < n \/ k = n
        BY <2>1
    <3>3. q \in Nat /\ top \in Nat /\ (k < n => q < top)
        BY <2>1, <2>2, <2>3, <3>1
    <3> QED
        BY <3>1, <3>2, <3>3
  <2> HIDE DEF top
  <2>5. top + 1 \notin rows
    <3>1. top \in Nat /\ ~(top + 1 <= top)
        BY <2>3
    <3> QED
        BY <2>4, <3>1
  <2>6. r <= top /\ r \in Nat /\ top \in Nat
      BY <2>3, <2>4
  <2>7. top \in ends
      BY <2>3, <2>5, <2>6
  <2> QED
      BY <2>7
<1>2. last \in ends /\ \A q \in ends : last <= q
  <2> HIDE DEF ends
  <2> QED
      BY <1>1, NatMin
<1> HIDE DEF last
<1>3. last \in rows /\ r <= last /\ last + 1 \notin rows /\ last \in Nat /\ r \in Nat
    BY <1>2
<1>4. \A q \in r..last : q \in rows
  <2> DEFINE gaps == {q \in r..last : q \notin rows}
  <2> SUFFICES ASSUME gaps # {} PROVE FALSE
      OBVIOUS
  <2>1. gaps \in SUBSET Nat
      BY <1>3
  <2>2. Min(gaps) \in gaps /\ \A q \in gaps : Min(gaps) <= q
    <3> HIDE DEF gaps
    <3> QED
        BY <2>1, NatMin
  <2> DEFINE w == Min(gaps)
  <2>3. w \in r..last /\ w \notin rows
      BY <2>2
  <2> HIDE DEF w
  <2>4. w # r /\ w - 1 \in r..last /\ ~(w <= w - 1)
      BY <1>3, <2>3
  <2>5. w - 1 \in rows
    <3>1. w - 1 \notin gaps
        BY <2>2, <2>4 DEF w
    <3> QED
        BY <2>4, <3>1
  <2>6. w - 1 >= r /\ (w - 1) + 1 = w
    <3>1. \A x \in r..last : x >= r /\ x \in Int
        BY <1>3
    <3> QED
        BY <2>3, <2>4, <3>1
  <2>7. w - 1 \in ends
      BY <2>3, <2>5, <2>6
  <2>8. last <= w - 1 /\ w <= last
      BY <1>2, <2>3, <2>7
  <2> QED
      BY <1>3, <2>3, <2>8
<1> QED
    BY <1>3, <1>4 DEF last

(* And a first one after a gap.                                            *)
LEMMA FirstOfRun ==
    ASSUME NEW rows \in SUBSET (Nat \ {0}), NEW r \in rows
    PROVE  \E a \in rows : a <= r /\ a - 1 \notin rows /\ \A q \in a..r : q \in rows
<1> DEFINE from == {a \in 1..r : \A q \in a..r : q \in rows}
<1>1. from \in SUBSET Nat /\ r \in from
    OBVIOUS
<1>2. Min(from) \in from /\ \A a \in from : Min(from) <= a
  <2> HIDE DEF from
  <2> QED
      BY <1>1, NatMin
<1> DEFINE a == Min(from)
<1>3. a \in 1..r /\ \A q \in a..r : q \in rows
    BY <1>2
<1> HIDE DEF a
<1>4. a \in rows /\ a <= r
    BY <1>3
<1>5. a - 1 \notin rows
  <2> SUFFICES ASSUME a - 1 \in rows PROVE FALSE
      OBVIOUS
  <2>1. a - 1 \in 1..r /\ ~(a <= a - 1)
      BY <1>3
  <2>2. \A q \in a - 1..r : q = a - 1 \/ q \in a..r
      BY <1>3
  <2>3. a - 1 \in from
      BY <1>3, <2>1, <2>2
  <2> QED
      BY <1>2, <2>1, <2>3 DEF a
<1> QED
    BY <1>3, <1>4, <1>5

(* The spans of a set of rows are its runs, apart and in their order, and  *)
(* every row is in one.                                                    *)
Apart(spans, n) == \A i, j \in 1..n : i < j => spans[j].first > spans[i].last + 1

(* The spans of a set of rows are its maximal runs, apart and ascending,   *)
(* and no row is in none.                                                  *)
LEMMA SpansAreRuns ==
    ASSUME NEW rows \in SUBSET (Nat \ {0}), IsFiniteSet(rows)
    PROVE  LET spans == CanonicalizeSpans(rows)
           IN /\ Len(spans) \in Nat /\ DOMAIN spans = 1..Len(spans)
              /\ \A i \in 1..Len(spans) : Runs(spans[i], rows)
              /\ Apart(spans, Len(spans))
              /\ \A r \in rows : \E i \in 1..Len(spans) : r \in spans[i].first..spans[i].last
<1> DEFINE first == {r \in rows : r - 1 \notin rows}
           lastOf(r) == Min({q \in rows : q >= r /\ q + 1 \notin rows})
           starts == RowsIn(first)
           n == Cardinality(first)
           spans == CanonicalizeSpans(rows)
<1>0. rows \in SUBSET Nat
    OBVIOUS
<1>1. first \in SUBSET Nat /\ IsFiniteSet(first)
  <2>1. first \in SUBSET rows
      OBVIOUS
  <2> QED
      BY <1>0, <2>1, FS_Subset
<1>2. /\ n \in Nat /\ starts \in [1..n -> first]
      /\ \A k, l \in 1..n : k < l => starts[k] < starts[l]
      /\ \A r \in first : \E k \in 1..n : starts[k] = r
  <2> HIDE DEF first
  <2> QED
      BY <1>1, InOrder
<1>3. spans = [i \in 1..n |-> Span(starts[i], lastOf(starts[i]))]
  <2>1. DOMAIN starts = 1..n
    <3> HIDE DEF starts, n
    <3> QED
        BY <1>2
  <2>2. spans = [i \in DOMAIN starts |-> Span(starts[i], lastOf(starts[i]))]
      BY DEF CanonicalizeSpans
  <2> QED
      BY <2>1, <2>2
<1> HIDE DEF n, starts, spans
<1>5. Len(spans) = n /\ DOMAIN spans = 1..n
  <2> DEFINE S == {Span(starts[i], lastOf(starts[i])) : i \in 1..n}
  <2>1. spans \in [1..n -> S]
    <3>1. \A i \in 1..n : Span(starts[i], lastOf(starts[i])) \in S
        OBVIOUS
    <3> HIDE DEF S, lastOf
    <3> QED
        BY <1>3, <3>1
  <2> HIDE DEF S
  <2>2. spans \in Seq(S)
      BY <1>2, <2>1, SeqDef
  <2>3. Len(spans) \in Nat /\ DOMAIN spans = 1..Len(spans) /\ DOMAIN spans = 1..n
      BY <2>1, <2>2, LenProperties
  <2>4. Len(spans) = n
    <3>1. \A a, b \in Nat : 1..a = 1..b => a = b
        OBVIOUS
    <3> QED
        BY <1>2, <2>3, <3>1
  <2> QED
      BY <2>3, <2>4
<1>6. \A i \in 1..n : /\ spans[i].first = starts[i] /\ spans[i].last = lastOf(starts[i])
                      /\ starts[i] \in rows /\ starts[i] - 1 \notin rows
  <2> TAKE i \in 1..n
  <2>1. spans[i] = Span(starts[i], lastOf(starts[i]))
      BY <1>3
  <2>2. starts[i] \in first
      BY <1>2
  <2> HIDE DEF lastOf
  <2> QED
      BY <2>1, <2>2 DEF Span
<1>7. \A i \in 1..n : /\ spans[i].last \in rows /\ spans[i].first <= spans[i].last
                      /\ spans[i].last + 1 \notin rows
                      /\ \A q \in spans[i].first..spans[i].last : q \in rows
  <2> TAKE i \in 1..n
  <2> DEFINE last == lastOf(starts[i])
  <2>0. ASSUME NEW r \in rows
        PROVE  /\ lastOf(r) \in rows /\ r <= lastOf(r) /\ lastOf(r) + 1 \notin rows
               /\ \A q \in r..lastOf(r) : q \in rows
      BY <1>0, LastOfRun
  <2>1. last \in rows /\ starts[i] <= last /\ last + 1 \notin rows
        /\ \A q \in starts[i]..last : q \in rows
    <3>1. starts[i] \in rows
        BY <1>6
    <3> HIDE DEF lastOf
    <3> QED
        BY <2>0, <3>1
  <2>2. spans[i].last = last /\ spans[i].first = starts[i]
      BY <1>6
  <2> HIDE DEF last, lastOf, first
  <2> QED
      BY <2>1, <2>2
<1> HIDE DEF lastOf, first
<1>8. \A i \in 1..n : Runs(spans[i], rows)
  <2> TAKE i \in 1..n
  <2> QED
      BY <1>6, <1>7 DEF Runs
<1>9. Apart(spans, n)
  <2> SUFFICES ASSUME NEW i \in 1..n, NEW j \in 1..n, i < j
               PROVE  spans[j].first > spans[i].last + 1
      BY DEF Apart
  <2>1. /\ spans[i].first < spans[j].first /\ spans[j].first - 1 \notin rows
        /\ spans[i].first \in Nat /\ spans[j].first \in Nat /\ spans[i].last \in Nat
      BY <1>0, <1>2, <1>6, <1>7
  <2>2. \A q \in spans[i].first..spans[i].last : q \in rows
      BY <1>7
  <2>3. spans[j].first - 1 \notin spans[i].first..spans[i].last
      BY <2>1, <2>2
  <2>4. \A a, b, c \in Nat : a < b /\ b - 1 \notin a..c => b > c + 1
      OBVIOUS
  <2> QED
      BY <2>1, <2>3, <2>4
<1>10. \A r \in rows : \E i \in 1..n : r \in spans[i].first..spans[i].last
  <2> TAKE r \in rows
  <2>1. PICK a \in rows : a <= r /\ a - 1 \notin rows /\ \A q \in a..r : q \in rows
      BY FirstOfRun
  <2>2. PICK i \in 1..n : starts[i] = a
      BY <1>2, <2>1 DEF first
  <2>3. spans[i].first = a /\ spans[i].last + 1 \notin rows /\ a <= spans[i].last
        /\ spans[i].last \in Nat /\ r \in Nat /\ a \in Nat
      BY <1>0, <1>6, <1>7, <2>2
  <2>4. ~(spans[i].last < r)
    <3> SUFFICES ASSUME spans[i].last < r PROVE FALSE
        OBVIOUS
    <3>1. spans[i].last + 1 \in a..r
        BY <2>3
    <3> QED
        BY <2>1, <2>3, <3>1
  <2>5. r \in spans[i].first..spans[i].last
      BY <2>1, <2>3, <2>4
  <2> QED
      BY <2>5
<1> QED
    BY <1>2, <1>5, <1>8, <1>9, <1>10 DEF spans

(* Selecting the spans of a set of rows is selecting its rows, in order.   *)
LEMMA RowsOfSpans ==
    ASSUME NEW rows \in SUBSET (Nat \ {0}), IsFiniteSet(rows)
    PROVE  SelectionRows(CanonicalizeSpans(rows)) = RowsIn(rows)
<1> DEFINE spans == CanonicalizeSpans(rows)
           n == Len(spans)
           ss == [i \in DOMAIN spans |->
                     [k \in 1..SpanLength(spans[i]) |-> spans[i].first + k - 1]]
           flat == FlattenSeq(ss)
<1>1. /\ n \in Nat /\ DOMAIN spans = 1..n /\ \A i \in 1..n : Runs(spans[i], rows)
      /\ \A r \in rows : \E i \in 1..n : r \in spans[i].first..spans[i].last
    BY SpansAreRuns
<1>2. Apart(spans, n)
    BY SpansAreRuns
<1>3. SelectionRows(spans) = flat
    BY DEF SelectionRows
<1> HIDE DEF spans, n
<1>4. \A i \in 1..n : /\ spans[i].first \in Nat /\ spans[i].last \in Nat
                      /\ spans[i].first <= spans[i].last
                      /\ SpanLength(spans[i]) = spans[i].last - spans[i].first + 1
                      /\ SpanLength(spans[i]) \in Nat
  <2> TAKE i \in 1..n
  <2>1. spans[i].first \in Nat /\ spans[i].last \in Nat /\ spans[i].first <= spans[i].last
      BY <1>1 DEF Runs
  <2> QED
      BY <2>1 DEF SpanLength
<1>5. \A i \in 1..n : \A k \in 1..SpanLength(spans[i]) :
          /\ spans[i].first + k - 1 \in rows
          /\ spans[i].first + k - 1 \in spans[i].first..spans[i].last
  <2> TAKE i \in 1..n
  <2> TAKE k \in 1..SpanLength(spans[i])
  <2>1. spans[i].first + k - 1 \in spans[i].first..spans[i].last
      BY <1>4
  <2> QED
      BY <1>1, <2>1 DEF Runs
<1>6. \A i \in 1..n : /\ ss[i] \in Seq(rows) /\ Len(ss[i]) = SpanLength(spans[i])
                      /\ \A k \in 1..Len(ss[i]) : ss[i][k] = spans[i].first + k - 1
  <2> TAKE i \in 1..n
  <2> DEFINE m == SpanLength(spans[i])
  <2>1. m \in Nat
      BY <1>4
  <2>2. ss[i] = [k \in 1..m |-> spans[i].first + k - 1]
      BY <1>1
  <2> HIDE DEF m, ss
  <2>3. ss[i] \in [1..m -> rows]
      BY <1>5, <2>2 DEF m
  <2>4. ss[i] \in Seq(rows)
      BY <2>1, <2>3, SeqDef
  <2>5. Len(ss[i]) \in Nat /\ DOMAIN ss[i] = 1..Len(ss[i]) /\ DOMAIN ss[i] = 1..m
      BY <2>3, <2>4, LenProperties
  <2>6. Len(ss[i]) = m
    <3>1. \A a, b \in Nat : 1..a = 1..b => a = b
        OBVIOUS
    <3> QED
        BY <2>1, <2>5, <3>1
  <2> QED
      BY <2>2, <2>4, <2>6 DEF m
<1>7. Listing(ss, n, rows)
  <2>1. DOMAIN ss = 1..n /\ ss = [i \in DOMAIN ss |-> ss[i]]
      BY <1>1
  <2> HIDE DEF ss
  <2>2. ss \in [1..n -> Seq(rows)]
      BY <1>6, <2>1
  <2> QED
      BY <1>1, <2>2 DEF Listing
<1> HIDE DEF ss
<1>8. flat \in Seq(rows) /\ Laid(flat, ss, n)
    BY <1>7, Flattened
<1> HIDE DEF flat
<1> DEFINE m == Len(flat)
<1>9. m \in Nat /\ flat \in [1..m -> rows]
    BY <1>8, LenProperties
<1>10. PICK at \in [1..m -> 1..n], of \in [1..m -> Nat] : Lays(flat, ss, n, at, of)
    BY <1>8 DEF Laid
<1> HIDE DEF m
<1>11. /\ \A k \in 1..m : of[k] \in 1..Len(ss[at[k]]) /\ flat[k] = ss[at[k]][of[k]]
       /\ \A k, l \in 1..m : k < l => at[k] < at[l] \/ (at[k] = at[l] /\ of[k] < of[l])
       /\ \A i \in 1..n : \A j \in 1..Len(ss[i]) : \E k \in 1..m : at[k] = i /\ of[k] = j
    BY <1>10 DEF Lays, m
<1>12. \A k \in 1..m : /\ at[k] \in 1..n /\ of[k] \in Nat
                       /\ flat[k] = spans[at[k]].first + of[k] - 1
                       /\ spans[at[k]].first <= flat[k] /\ flat[k] <= spans[at[k]].last
                       /\ spans[at[k]].first \in Nat /\ spans[at[k]].last \in Nat
  <2> TAKE k \in 1..m
  <2>1. at[k] \in 1..n /\ of[k] \in Nat
      BY <1>10
  <2>2. of[k] \in 1..SpanLength(spans[at[k]]) /\ flat[k] = spans[at[k]].first + of[k] - 1
      BY <1>6, <1>11, <2>1
  <2>3. flat[k] \in spans[at[k]].first..spans[at[k]].last
      BY <1>5, <2>1, <2>2
  <2>4. spans[at[k]].first \in Nat /\ spans[at[k]].last \in Nat
      BY <1>4, <2>1
  <2> QED
      BY <2>1, <2>2, <2>3, <2>4
<1>13. \A k, l \in 1..m : k < l => flat[k] < flat[l]
  <2> TAKE k, l \in 1..m
  <2> HAVE k < l
  <2>0. flat[k] \in Nat /\ flat[l] \in Nat
      BY <1>9
  <2>1. CASE at[k] < at[l]
    <3>1. spans[at[l]].first > spans[at[k]].last + 1
        BY <1>2, <1>12, <2>1 DEF Apart
    <3>2. /\ flat[k] <= spans[at[k]].last /\ spans[at[l]].first <= flat[l]
          /\ spans[at[k]].last \in Nat /\ spans[at[l]].first \in Nat
        BY <1>12
    <3> QED
        BY <2>0, <3>1, <3>2
  <2>2. CASE at[k] = at[l] /\ of[k] < of[l]
    <3>1. /\ flat[k] = spans[at[k]].first + of[k] - 1 /\ of[k] \in Nat
          /\ flat[l] = spans[at[l]].first + of[l] - 1 /\ of[l] \in Nat
          /\ spans[at[k]].first \in Nat
        BY <1>12
    <3> QED
        BY <2>0, <2>2, <3>1
  <2> QED
      BY <1>11, <2>1, <2>2
<1>14. \A r \in rows : \E k \in 1..m : flat[k] = r
  <2> TAKE r \in rows
  <2>1. PICK i \in 1..n : r \in spans[i].first..spans[i].last
      BY <1>1
  <2> DEFINE j == r - spans[i].first + 1
  <2>2. j \in 1..Len(ss[i]) /\ spans[i].first + j - 1 = r
    <3>1. /\ spans[i].first \in Nat /\ spans[i].last \in Nat
          /\ Len(ss[i]) = spans[i].last - spans[i].first + 1
        BY <1>4, <1>6
    <3>2. r \in Nat /\ spans[i].first <= r /\ r <= spans[i].last
        BY <2>1, <3>1
    <3>3. \A a, b \in Nat : a <= r /\ r <= b =>
              r - a + 1 \in 1..b - a + 1 /\ a + (r - a + 1) - 1 = r
        BY <3>2
    <3> QED
        BY <3>1, <3>2, <3>3
  <2>3. ss[i][j] = r
      BY <1>6, <2>2
  <2> HIDE DEF j
  <2>4. PICK k \in 1..m : at[k] = i /\ of[k] = j
      BY <1>11, <2>2
  <2> QED
      BY <1>11, <2>3, <2>4
<1>15. rows \in SUBSET Nat
    OBVIOUS
<1>16. RowsIn(rows) = flat
    BY <1>9, <1>13, <1>14, <1>15, Enumerated
<1> QED
    BY <1>3, <1>16 DEF spans

(* The recursion of SpanRowCount: there is a function that obeys it.       *)
CountsTo(g, spans, m) ==
    g = [i \in 0..m |-> IF i = 0 THEN 0 ELSE g[i - 1] + SpanLength(spans[i])]

(* A count that goes up span by span exists.                               *)
LEMMA CountDefined ==
    ASSUME NEW n \in Nat, NEW spans
    PROVE  \E g : CountsTo(g, spans, n)
<1> DEFINE without == {m \in Nat : ~\E g : CountsTo(g, spans, m)}
<1>1. SUFFICES ASSUME without # {} PROVE FALSE
    OBVIOUS
<1>2. without \in SUBSET Nat
    OBVIOUS
<1>3. PICK m \in without : \A k \in without : m <= k
  <2> HIDE DEF without
  <2> QED
      BY <1>1, <1>2, NatMin
<1>4. m \in Nat /\ ~\E g : CountsTo(g, spans, m)
    OBVIOUS
<1>5. m # 0
  <2> SUFFICES ASSUME m = 0 PROVE FALSE
      OBVIOUS
  <2> DEFINE g == [i \in 0..0 |-> 0]
  <2>1. g = [i \in 0..0 |-> IF i = 0 THEN 0 ELSE g[i - 1] + SpanLength(spans[i])]
      OBVIOUS
  <2> HIDE DEF g
  <2> QED
      BY <1>4, <2>1 DEF CountsTo
<1>6. m - 1 \in Nat /\ m - 1 \notin without
    BY <1>3, <1>4, <1>5
<1>7. PICK g : CountsTo(g, spans, m - 1)
    BY <1>6
<1> DEFINE h == [i \in 0..m |-> IF i = 0 THEN 0 ELSE g[i - 1] + SpanLength(spans[i])]
<1>8. \A i \in 0..m - 1 : h[i] = g[i]
  <2> TAKE i \in 0..m - 1
  <2>1. i \in 0..m
      BY <1>4
  <2>2. g[i] = IF i = 0 THEN 0 ELSE g[i - 1] + SpanLength(spans[i])
      BY <1>7 DEF CountsTo
  <2> QED
      BY <2>1, <2>2
<1>9. \A i \in 0..m : (IF i = 0 THEN 0 ELSE g[i - 1] + SpanLength(spans[i]))
                          = (IF i = 0 THEN 0 ELSE h[i - 1] + SpanLength(spans[i]))
  <2> TAKE i \in 0..m
  <2>1. CASE i = 0
      BY <2>1
  <2>2. CASE i # 0
    <3>1. i - 1 \in 0..m - 1
        BY <1>4, <2>2
    <3>2. h[i - 1] = g[i - 1]
        BY <1>8, <3>1
    <3> HIDE DEF h
    <3> QED
        BY <2>2, <3>2
  <2> QED
      BY <2>1, <2>2
<1>10. h = [i \in 0..m |-> IF i = 0 THEN 0 ELSE h[i - 1] + SpanLength(spans[i])]
  <2>1. [i \in 0..m |-> IF i = 0 THEN 0 ELSE g[i - 1] + SpanLength(spans[i])]
            = [i \in 0..m |-> IF i = 0 THEN 0 ELSE h[i - 1] + SpanLength(spans[i])]
    <3> HIDE DEF h
    <3> QED
        BY <1>9, Zenon
  <2> QED
      BY <2>1
<1> HIDE DEF h
<1>11. CountsTo(h, spans, m)
    BY <1>10 DEF CountsTo
<1> QED
    BY <1>4, <1>11

(* The spans of a set of rows have as many rows as the set.                *)
LEMMA SpansCounted ==
    ASSUME NEW rows \in SUBSET (Nat \ {0}), IsFiniteSet(rows)
    PROVE  SpanRowCount(CanonicalizeSpans(rows)) = Cardinality(rows)
<1> DEFINE spans == CanonicalizeSpans(rows)
           n == Len(spans)
           covered(i) == {r \in rows : \E j \in 1..i : r \in spans[j].first..spans[j].last}
<1>1. /\ n \in Nat /\ \A i \in 1..n : Runs(spans[i], rows)
      /\ \A r \in rows : \E i \in 1..n : r \in spans[i].first..spans[i].last
    BY SpansAreRuns
<1>2. Apart(spans, n)
    BY SpansAreRuns
<1> DEFINE g == CHOOSE f : CountsTo(f, spans, n)
<1>3. CountsTo(g, spans, n)
    BY <1>1, CountDefined
<1>4. SpanRowCount(spans) = g[n]
    BY DEF SpanRowCount, CountsTo
<1> HIDE DEF spans, n, g
<1>5. g[0] = 0 /\ \A i \in 1..n : g[i] = g[i - 1] + SpanLength(spans[i])
  <2>1. g = [i \in 0..n |-> IF i = 0 THEN 0 ELSE g[i - 1] + SpanLength(spans[i])]
      BY <1>3 DEF CountsTo
  <2>2. 0 \in 0..n /\ \A i \in 1..n : i \in 0..n /\ i # 0
      BY <1>1
  <2> QED
      BY <2>1, <2>2
<1> DEFINE good(i) == g[i] = Cardinality(covered(i))
           bad == {i \in 0..n : ~good(i)}
<1>6. good(0)
  <2>1. covered(0) = {}
      OBVIOUS
  <2> HIDE DEF covered
  <2> QED
      BY <1>5, <2>1, FS_EmptySet
<1>7. \A i \in 1..n : good(i - 1) => good(i)
  <2> TAKE i \in 1..n
  <2> HAVE good(i - 1)
  <2> DEFINE run == spans[i].first..spans[i].last
  <2>0. i - 1 \in Nat /\ \A j \in 1..i - 1 : j \in 1..n /\ j < i
      BY <1>1
  <2>1. /\ spans[i].first \in Nat /\ spans[i].last \in Nat /\ spans[i].first <= spans[i].last
        /\ run \subseteq rows
      BY <1>1 DEF Runs
  <2>2. IsFiniteSet(run) /\ Cardinality(run) = SpanLength(spans[i])
    <3>1. \A a, b \in Int : a <= b => IsFiniteSet(a..b) /\ Cardinality(a..b) = b - a + 1
      <4> TAKE a, b \in Int
      <4> HAVE a <= b
      <4>1. ~(a > b)
          OBVIOUS
      <4> QED
          BY <4>1, FS_Interval
    <3>2. spans[i].first \in Int /\ spans[i].last \in Int
        BY <2>1
    <3> QED
        BY <2>1, <3>1, <3>2 DEF SpanLength
  <2>3. covered(i) = covered(i - 1) \cup run
    <3>1. \A j \in 1..i : j \in 1..i - 1 \/ j = i
        OBVIOUS
    <3>2. i \in 1..i /\ \A j \in 1..i - 1 : j \in 1..i
        OBVIOUS
    <3> QED
        BY <2>1, <3>1, <3>2
  <2>4. covered(i - 1) \cap run = {}
    <3> SUFFICES ASSUME NEW r \in covered(i - 1), r \in run PROVE FALSE
        OBVIOUS
    <3>1. PICK j \in 1..i - 1 : r \in spans[j].first..spans[j].last
        OBVIOUS
    <3>2. spans[i].first > spans[j].last + 1 /\ spans[j].last \in Nat
        BY <1>1, <1>2, <2>0 DEF Apart, Runs
    <3>3. r <= spans[j].last /\ spans[i].first <= r /\ r \in Nat
        BY <2>1, <3>1, <3>2
    <3> QED
        BY <2>1, <3>2, <3>3
  <2>5. IsFiniteSet(covered(i - 1))
    <3>1. covered(i - 1) \in SUBSET rows
        OBVIOUS
    <3> QED
        BY <3>1, FS_Subset
  <2> HIDE DEF covered, run
  <2>6. Cardinality(covered(i - 1) \cup run)
            = Cardinality(covered(i - 1)) + Cardinality(run) - Cardinality({})
      BY <2>2, <2>4, <2>5, FS_Union
  <2>7. Cardinality({}) = 0 /\ Cardinality(covered(i - 1)) \in Nat /\ Cardinality(run) \in Nat
      BY <2>2, <2>5, FS_EmptySet, FS_CardinalityType
  <2> QED
      BY <1>5, <2>2, <2>3, <2>6, <2>7
<1> HIDE DEF good
<1>8. bad = {}
  <2> SUFFICES ASSUME bad # {} PROVE FALSE
      OBVIOUS
  <2>1. bad \in SUBSET Nat
      BY <1>1
  <2>2. PICK i \in bad : \A j \in bad : i <= j
    <3> HIDE DEF bad
    <3> QED
        BY <2>1, NatMin
  <2>3. i \in 1..n /\ ~good(i)
      BY <1>1, <1>6, <2>2
  <2>4. i - 1 \in 0..n /\ ~(i <= i - 1)
      BY <1>1, <2>3
  <2>5. i - 1 \notin bad
      BY <2>2, <2>4
  <2> QED
      BY <1>7, <2>3, <2>4, <2>5
<1>9. g[n] = Cardinality(covered(n))
  <2>1. n \in 0..n
      BY <1>1
  <2>2. good(n)
      BY <1>8, <2>1
  <2> QED
      BY <2>2 DEF good
<1>10. covered(n) = rows
    BY <1>1
<1> QED
    BY <1>4, <1>9, <1>10 DEF spans

(* Multiples keep the order, and division finds the multiple below.        *)
LEMMA Multiples ==
    ASSUME NEW a \in Int, NEW b \in Int, NEW p \in Nat, a <= b
    PROVE  a * p \in Int /\ b * p \in Int /\ a * p <= b * p
OBVIOUS

(* Division finds the multiple at or below.                                *)
LEMMA Divided ==
    ASSUME NEW n \in Nat, NEW p \in Nat \ {0}
    PROVE  n \div p \in Nat /\ (n \div p) * p <= n /\ n < (n \div p) * p + p
OBVIOUS

(* So many pages of p rows hold n rows: none is without rows, and the last *)
(* is the only one that is not full.                                       *)
LEMMA PagesNeeded ==
    ASSUME NEW n \in Nat, NEW p \in Nat \ {0}
    PROVE  LET pages == (n + p - 1) \div p
           IN /\ pages \in Nat /\ n <= pages * p
              /\ \A i \in 1..pages : (i - 1) * p \in Nat /\ (i - 1) * p < n
              /\ \A i \in 1..pages : i < pages <=> i * p < n
<1> DEFINE pages == (n + p - 1) \div p
<1>1. n + p - 1 \in Nat
    OBVIOUS
<1>2. pages \in Nat /\ pages * p <= n + p - 1 /\ n + p - 1 < pages * p + p
    BY <1>1, Divided
<1> HIDE DEF pages
<1>3. n <= pages * p
  <2>1. pages * p \in Int
      BY <1>2
  <2> QED
      BY <1>2, <2>1
<1>4. \A i \in 1..pages : /\ (i - 1) * p \in Nat /\ (i - 1) * p < n
                          /\ i * p \in Nat /\ i * p = (i - 1) * p + p
  <2> TAKE i \in 1..pages
  <2>1. i * p \in Int /\ pages * p \in Int /\ i * p <= pages * p
      BY <1>2, Multiples
  <2>2. i * p = (i - 1) * p + p /\ (i - 1) * p \in Int
      BY <1>2
  <2>3. 0 * p \in Int /\ 0 * p <= (i - 1) * p
      BY <1>2, Multiples
  <2>4. 0 * p = 0
      OBVIOUS
  <2> HIDE DEF pages
  <2> QED
      BY <1>2, <2>1, <2>2, <2>3, <2>4
<1>5. \A i \in 1..pages : i < pages => i * p < n
  <2> TAKE i \in 1..pages
  <2> HAVE i < pages
  <2>1. i + 1 \in 1..pages /\ (i + 1) - 1 = i
      BY <1>2
  <2>2. ((i + 1) - 1) * p < n
      BY <1>4, <2>1
  <2> QED
      BY <2>1, <2>2
<1>6. \A i \in 1..pages : i * p < n => i < pages
  <2> TAKE i \in 1..pages
  <2> HAVE i * p < n
  <2> SUFFICES ASSUME i = pages PROVE FALSE
      BY <1>2
  <2>1. pages * p \in Int
      BY <1>2
  <2> QED
      BY <1>3, <2>1
<1> QED
    BY <1>2, <1>3, <1>4, <1>5, <1>6 DEF pages

(* A selection of rows of the table, within the envelope of evidence, is   *)
(* one that the contract accepts.                                          *)
LEMMA SelectionChecked ==
    ASSUME NEW t, NEW rows \in SUBSET (1..MaxExpandedRows), rows \subseteq DOMAIN t.rows,
           NEW id, NEW fields, NEW excluded
    PROVE  CheckSelection(Selection(id, rows, fields, excluded), t)
<1> DEFINE s == Selection(id, rows, fields, excluded)
           spans == CanonicalizeSpans(rows)
<1>1. MaxExpandedRows \in Nat \ {0}
    BY EvidenceAssumption
<1>2. rows \in SUBSET (Nat \ {0})
    BY <1>1
<1>3. IsFiniteSet(rows) /\ Cardinality(rows) \in Nat /\ Cardinality(rows) <= MaxExpandedRows
  <2>1. IsFiniteSet(1..MaxExpandedRows) /\ Cardinality(1..MaxExpandedRows) = MaxExpandedRows
      BY <1>1, FS_Interval
  <2> QED
      BY <2>1, FS_Subset, FS_CardinalityType
<1>4. s.spans = spans /\ s.rowCount = Cardinality(rows)
    BY DEF Selection
<1>5. /\ Len(spans) \in Nat /\ DOMAIN spans = 1..Len(spans)
      /\ \A i \in 1..Len(spans) : Runs(spans[i], rows)
      /\ Apart(spans, Len(spans))
    BY <1>2, <1>3, SpansAreRuns
<1>6. SpanRowCount(spans) = Cardinality(rows)
    BY <1>2, <1>3, SpansCounted
<1>7. SelectionRows(spans) = RowsIn(rows)
    BY <1>2, <1>3, RowsOfSpans
<1>8. Range(RowsIn(rows)) \subseteq rows
    BY <1>2, <1>3, InOrder DEF Range
<1> HIDE DEF s, spans
<1>9. \A i \in 1..Len(spans) : /\ 1 <= spans[i].first /\ spans[i].first <= spans[i].last
                               /\ spans[i].last <= MaxExpandedRows
  <2> TAKE i \in 1..Len(spans)
  <2>1. spans[i].first \in rows /\ spans[i].last \in rows /\ spans[i].first <= spans[i].last
      BY <1>5 DEF Runs
  <2>2. spans[i].first \in 1..MaxExpandedRows /\ spans[i].last \in 1..MaxExpandedRows
      BY <2>1
  <2> QED
      BY <1>1, <2>1, <2>2
<1>10. \A i \in 1..Len(spans) : i > 1 => spans[i].first > spans[i - 1].last + 1
    BY <1>5 DEF Apart
<1>11. ValidSpans(spans, Cardinality(rows))
    BY <1>5, <1>6, <1>9, <1>10 DEF ValidSpans
<1>12. Expandable(spans)
    BY <1>3, <1>5, <1>6, <1>9 DEF Expandable
<1> QED
    BY <1>4, <1>7, <1>8, <1>11, <1>12 DEF CheckSelection, s

(* A page holds the rows from its offset on, and leads to the next.        *)
PageIs(t, s, rows, offset, size) ==
    LET n == Cardinality(rows)
        end == IF offset + size < n THEN offset + size ELSE n
        page == ReadEvidencePage(t, s, offset, size)
    IN /\ page.rows = SubSeq(RowsIn(rows), offset + 1, end)
       /\ page.next = IF offset + size < n THEN end ELSE 0

(* All rows of a selection of rows of the table contribute to its pages.   *)
LEMMA PageOfRows ==
    ASSUME NEW rows \in SUBSET (Nat \ {0}), IsFiniteSet(rows), NEW t, rows \subseteq DOMAIN t.rows,
           NEW s, s.spans = CanonicalizeSpans(rows), NEW offset \in Nat, NEW size \in Nat
    PROVE  PageIs(t, s, rows, offset, size)
<1> DEFINE n == Cardinality(rows)
           all == RowsIn(rows)
<1>1. n \in Nat /\ all \in [1..n -> rows]
    BY InOrder
<1>2. SelectionRows(s.spans) = all
    BY RowsOfSpans
<1> HIDE DEF n, all
<1>3. Keep(all, LAMBDA r : r \in DOMAIN t.rows) = all
  <2>1. {i \in DOMAIN all : all[i] \in DOMAIN t.rows} = 1..n
      BY <1>1
  <2>2. RowsIn(1..n) = [k \in 1..n |-> k]
      BY <1>1, IdentityOrder
  <2>3. Keep(all, LAMBDA r : r \in DOMAIN t.rows) = [k \in 1..n |-> all[k]]
      BY <2>1, <2>2 DEF Keep
  <2> QED
      BY <1>1, <2>3
<1>4. Len(all) = n
    BY <1>1, LenProperties
<1> QED
    BY <1>2, <1>3, <1>4 DEF ReadEvidencePage, PageIs, n, all

(* The rows cut into pages of p, and put together again.                   *)
Cut(ss, s, S, n, p, pages) ==
    /\ n \in Nat /\ s \in [1..n -> S] /\ p \in Nat \ {0} /\ pages = (n + p - 1) \div p
    /\ ss = [i \in 1..pages |-> SubSeq(s, (i - 1) * p + 1, IF i * p < n THEN i * p ELSE n)]

(* A cut holds the rows from its offset on, p of them or those left.       *)
LEMMA PageCut ==
    ASSUME NEW S, NEW n, NEW s, NEW p, NEW pages, NEW ss, Cut(ss, s, S, n, p, pages),
           NEW i \in 1..pages
    PROVE  /\ ss[i] \in Seq(S) /\ (i - 1) * p \in Nat /\ Len(ss[i]) \in 0..p
           /\ (i - 1) * p + Len(ss[i]) = IF i * p < n THEN i * p ELSE n
           /\ \A j \in 1..Len(ss[i]) : (i - 1) * p + j \in 1..n /\ ss[i][j] = s[(i - 1) * p + j]
<1> DEFINE from == (i - 1) * p
           to == IF i * p < n THEN i * p ELSE n
<1>0. n \in Nat /\ s \in [1..n -> S] /\ p \in Nat \ {0} /\ pages = (n + p - 1) \div p
    BY DEF Cut
<1>1. pages \in Nat /\ from \in Nat /\ from < n
    BY <1>0, PagesNeeded
<1>2. i * p \in Int /\ i * p = from + p
    BY <1>0, <1>1
<1>3. ss[i] = SubSeq(s, from + 1, to)
    BY DEF Cut
<1> HIDE DEF from
<1>4. to \in 1..n /\ from + 1 <= to /\ to - from \in 0..p
    BY <1>0, <1>1, <1>2
<1>5. s \in Seq(S) /\ Len(s) = n
    BY <1>0, SeqDef, LenProperties
<1> HIDE DEF to
<1>6. /\ SubSeq(s, from + 1, to) \in Seq(S)
      /\ Len(SubSeq(s, from + 1, to)) = to - from
      /\ \A j \in 1..to - from : SubSeq(s, from + 1, to)[j] = s[from + j]
  <2>1. \A j \in from + 1..to : j \in 1..n /\ s[j] \in S
      BY <1>0, <1>1, <1>4
  <2>2. to - (from + 1) + 1 = to - from /\ from + 1 <= to
      BY <1>0, <1>1, <1>4, <1>5
  <2>3. \A j \in 1..to - from : from + 1 + j - 1 = from + j
      BY <1>0, <1>1, <1>4
  <2> QED
      BY <1>1, <1>4, <2>1, <2>2, <2>3, SubSeqProperties
<1>7. \A j \in 1..to - from : from + j \in 1..n
    BY <1>0, <1>1, <1>4
<1>8. from + (to - from) = to
    BY <1>1, <1>4
<1> QED
    BY <1>1, <1>3, <1>4, <1>6, <1>7, <1>8 DEF from, to

(* Every place of the rows is in one of the pages.                         *)
InPage(m, ss, p, pages) ==
    \E i \in 1..pages : \E j \in 1..Len(ss[i]) : (i - 1) * p + j = m

(* Every place is in one of the pages.                                     *)
LEMMA PageFound ==
    ASSUME NEW S, NEW n, NEW s, NEW p, NEW pages, NEW ss, Cut(ss, s, S, n, p, pages),
           NEW m \in 1..n
    PROVE  InPage(m, ss, p, pages)
<1> DEFINE d == (m - 1) \div p
<1>0. n \in Nat /\ p \in Nat \ {0} /\ pages = (n + p - 1) \div p
    BY DEF Cut
<1>1. m - 1 \in Nat /\ m - 1 < n
    BY <1>0
<1>2. d \in Nat /\ d * p \in Nat /\ d * p <= m - 1 /\ m - 1 < d * p + p
    BY <1>0, <1>1, Divided
<1>3. pages \in Nat /\ n <= pages * p
    BY <1>0, PagesNeeded
<1> HIDE DEF d
<1>4. d < pages
  <2> SUFFICES ASSUME pages <= d PROVE FALSE
      BY <1>2, <1>3
  <2>1. pages * p \in Int /\ d * p \in Int /\ pages * p <= d * p
      BY <1>0, <1>2, <1>3, Multiples
  <2> QED
      BY <1>0, <1>1, <1>2, <1>3, <2>1
<1> DEFINE i == d + 1
           j == m - d * p
<1>5. i \in 1..pages /\ i - 1 = d /\ i * p \in Int /\ i * p = d * p + p
    BY <1>0, <1>2, <1>3, <1>4
<1>6. Len(ss[i]) \in 0..p /\ d * p + Len(ss[i]) = IF i * p < n THEN i * p ELSE n
  <2>1. Len(ss[i]) \in 0..p /\ (i - 1) * p + Len(ss[i]) = IF i * p < n THEN i * p ELSE n
    <3> HIDE DEF i
    <3> QED
        BY <1>5, PageCut
  <2> QED
      BY <1>5, <2>1
<1>7. j \in Nat /\ j >= 1 /\ d * p + j = m
    BY <1>0, <1>1, <1>2
<1> HIDE DEF i, j
<1>8. j <= Len(ss[i])
  <2>1. PICK from \in Nat : from = d * p
      BY <1>2
  <2>2. PICK to \in Int : to = i * p
      BY <1>5
  <2>3. PICK size \in Nat : size = Len(ss[i])
      BY <1>0, <1>6
  <2>4. from + size = (IF to < n THEN to ELSE n) /\ to = from + p
      BY <1>5, <1>6, <2>1, <2>2, <2>3
  <2>5. from <= m - 1 /\ m - 1 < from + p /\ from + j = m
      BY <1>2, <1>7, <2>1
  <2>6. j <= size
    <3> HIDE <2>1, <2>2, <2>3
    <3> QED
        BY <1>0, <1>1, <1>7, <2>4, <2>5
  <2> QED
      BY <2>3, <2>6
<1>9. j \in 1..Len(ss[i]) /\ (i - 1) * p + j = m
    BY <1>5, <1>6, <1>7, <1>8
<1> QED
    BY <1>5, <1>9 DEF InPage

(* The pages one after the other are the rows in their order.              *)
LEMMA PagesListed ==
    ASSUME NEW rows \in SUBSET Nat, IsFiniteSet(rows), NEW p \in Nat \ {0},
           NEW pages, NEW ss, Cut(ss, RowsIn(rows), rows, Cardinality(rows), p, pages)
    PROVE  FlattenSeq(ss) = RowsIn(rows)
<1> DEFINE n == Cardinality(rows)
           s == RowsIn(rows)
           flat == FlattenSeq(ss)
<1>1. n \in Nat /\ s \in [1..n -> rows]
    BY InOrder
<1>2. \A k, l \in 1..n : k < l => s[k] < s[l]
    BY InOrder
<1>3. \A r \in rows : \E k \in 1..n : s[k] = r
    BY InOrder
<1>4. Cut(ss, s, rows, n, p, pages)
    OBVIOUS
<1> HIDE DEF n, s
<1>0. p \in Nat \ {0}
    OBVIOUS
<1>5. pages \in Nat
    BY <1>1, <1>4, PagesNeeded DEF Cut
<1>6. \A i \in 1..pages :
         /\ ss[i] \in Seq(rows) /\ (i - 1) * p \in Nat /\ Len(ss[i]) \in 0..p
         /\ \A j \in 1..Len(ss[i]) : (i - 1) * p + j \in 1..n /\ ss[i][j] = s[(i - 1) * p + j]
  <2> TAKE i \in 1..pages
  <2>1. ss[i] \in Seq(rows) /\ (i - 1) * p \in Nat /\ Len(ss[i]) \in 0..p
      BY <1>4, PageCut
  <2>2. \A j \in 1..Len(ss[i]) : (i - 1) * p + j \in 1..n /\ ss[i][j] = s[(i - 1) * p + j]
      BY <1>4, PageCut
  <2> QED
      BY <2>1, <2>2
<1>7. \A m \in 1..n : InPage(m, ss, p, pages)
  <2> TAKE m \in 1..n
  <2> QED
      BY <1>4, PageFound
<1>8. Listing(ss, pages, rows)
  <2>1. DOMAIN ss = 1..pages /\ ss = [i \in 1..pages |-> ss[i]]
      BY <1>4 DEF Cut
  <2> QED
      BY <1>5, <1>6, <2>1 DEF Listing
<1>9. flat \in Seq(rows) /\ Laid(flat, ss, pages)
    BY <1>8, Flattened
<1>10. Len(flat) \in Nat /\ flat \in [1..Len(flat) -> rows]
    BY <1>9, LenProperties
<1> HIDE DEF flat
<1>11. PICK at \in [1..Len(flat) -> 1..pages], of \in [1..Len(flat) -> Nat] :
           Lays(flat, ss, pages, at, of)
    BY <1>9 DEF Laid
<1> DEFINE place(k) == (at[k] - 1) * p + of[k]
<1>12. \A k \in 1..Len(flat) :
          /\ at[k] \in 1..pages /\ of[k] \in 1..Len(ss[at[k]]) /\ flat[k] = ss[at[k]][of[k]]
          /\ (at[k] - 1) * p \in Nat /\ of[k] \in 1..p
          /\ place(k) \in 1..n /\ flat[k] = s[place(k)]
  <2> TAKE k \in 1..Len(flat)
  <2>1. at[k] \in 1..pages /\ of[k] \in 1..Len(ss[at[k]]) /\ flat[k] = ss[at[k]][of[k]]
      BY <1>11 DEF Lays
  <2>2. Len(ss[at[k]]) \in 0..p /\ (at[k] - 1) * p \in Nat
      BY <1>6, <2>1
  <2>3. place(k) \in 1..n /\ ss[at[k]][of[k]] = s[place(k)]
      BY <1>6, <2>1
  <2> QED
      BY <2>1, <2>2, <2>3
<1>13. \A k, l \in 1..Len(flat) : k < l => place(k) < place(l)
  <2> TAKE k, l \in 1..Len(flat)
  <2> HAVE k < l
  <2>1. at[k] < at[l] \/ (at[k] = at[l] /\ of[k] < of[l])
      BY <1>11 DEF Lays
  <2>2. /\ at[k] \in Nat /\ at[l] \in Nat /\ of[k] \in 1..p /\ of[l] \in 1..p
        /\ (at[k] - 1) * p \in Nat /\ (at[l] - 1) * p \in Nat
    <3>1. /\ at[k] \in 1..pages /\ of[k] \in 1..p /\ (at[k] - 1) * p \in Nat
          /\ at[l] \in 1..pages /\ of[l] \in 1..p /\ (at[l] - 1) * p \in Nat
        BY <1>12
    <3> QED
        BY <1>5, <3>1
  <2>3. CASE at[k] < at[l]
    <3>1. at[k] \in Int /\ at[l] - 1 \in Int /\ at[k] <= at[l] - 1
        BY <2>2, <2>3
    <3>2. at[k] * p \in Int /\ at[k] * p <= (at[l] - 1) * p
        BY <3>1, Multiples
    <3>3. at[k] * p = (at[k] - 1) * p + p
        BY <3>1
    <3>4. PICK a, b \in Nat : a = (at[k] - 1) * p /\ b = (at[l] - 1) * p
        BY <2>2
    <3>5. a + p <= b
      <4>1. at[k] * p = a + p
          BY <3>3, <3>4
      <4>2. at[k] * p <= b
          BY <3>2, <3>4
      <4> QED
          BY <4>1, <4>2
    <3>6. of[k] <= p /\ of[l] > 0 /\ of[k] \in Nat /\ of[l] \in Nat
        BY <1>0, <2>2
    <3>7. a + of[k] < b + of[l]
        BY <1>0, <3>5, <3>6
    <3> QED
        BY <3>4, <3>7
  <2>4. CASE at[k] = at[l] /\ of[k] < of[l]
      BY <2>2, <2>4
  <2> QED
      BY <2>1, <2>3, <2>4
<1>14. \A m \in 1..n : \E k \in 1..Len(flat) : place(k) = m
  <2> TAKE m \in 1..n
  <2>1. PICK i \in 1..pages : \E j \in 1..Len(ss[i]) : (i - 1) * p + j = m
      BY <1>7 DEF InPage
  <2>2. PICK j \in 1..Len(ss[i]) : (i - 1) * p + j = m
      BY <2>1
  <2>3. \E k \in 1..Len(flat) : at[k] = i /\ of[k] = j
      BY <1>11 DEF Lays
  <2> QED
      BY <2>2, <2>3
<1>15. \A k \in 1..Len(flat) : place(k) \in 1..n /\ flat[k] = s[place(k)]
    BY <1>12
<1> HIDE DEF place
<1>16. \A k, l \in 1..Len(flat) : k < l => flat[k] < flat[l]
    BY <1>2, <1>13, <1>15
<1>17. \A r \in rows : \E k \in 1..Len(flat) : flat[k] = r
    BY <1>3, <1>14, <1>15
<1>18. RowsIn(rows) = flat
    BY <1>10, <1>16, <1>17, Enumerated
<1> QED
    BY <1>18 DEF flat

(* What EvidenceComplete says of one selection.                            *)
Paged(t, s) ==
    LET pages == (s.rowCount + MaxEvidencePage - 1) \div MaxEvidencePage
        page(i) == ReadEvidencePage(t, s, (i - 1) * MaxEvidencePage, MaxEvidencePage)
        listed == FlattenSeq([i \in 1..pages |-> page(i).rows])
    IN /\ CheckSelection(s, t)
       /\ listed = RowsIn(Range(listed)) /\ Len(listed) = s.rowCount
       /\ \A r \in Range(listed) : \A f \in s.fieldIds : IsAmount(t.rows[r][f])
       /\ Range(listed) \cap s.excludedRowIds = {}
       /\ \A i \in 1..pages : ~PageRefused((i - 1) * MaxEvidencePage, MaxEvidencePage)
       /\ \A i \in 1..pages : page(i).next = IF i < pages THEN i * MaxEvidencePage ELSE 0

(* It holds of every selection of admitted rows with amounts.              *)
LEMMA SelectionPaged ==
    ASSUME NEW t, NEW rows \in SUBSET (1..MaxExpandedRows), rows \subseteq DOMAIN t.rows,
           NEW id, NEW fields, NEW excluded,
           \A r \in rows : \A f \in fields : IsAmount(t.rows[r][f]),
           rows \cap excluded = {}
    PROVE  Paged(t, Selection(id, rows, fields, excluded))
<1> DEFINE s == Selection(id, rows, fields, excluded)
           p == MaxEvidencePage
           n == Cardinality(rows)
           pages == (n + p - 1) \div p
           page(i) == ReadEvidencePage(t, s, (i - 1) * p, p)
           ss == [i \in 1..pages |-> page(i).rows]
           listed == FlattenSeq(ss)
<1>1. MaxExpandedRows \in Nat \ {0} /\ p \in Nat \ {0}
    BY EvidenceAssumption
<1>2. rows \in SUBSET (Nat \ {0}) /\ rows \in SUBSET Nat
    BY <1>1
<1>3. IsFiniteSet(rows)
  <2>1. IsFiniteSet(1..MaxExpandedRows) /\ rows \subseteq 1..MaxExpandedRows
      BY <1>1, FS_Interval
  <2> QED
      BY <2>1, FS_Subset
<1>4. n \in Nat /\ RowsIn(rows) \in [1..n -> rows] /\ \A r \in rows : \E k \in 1..n : RowsIn(rows)[k] = r
    BY <1>2, <1>3, InOrder
<1>5. /\ s.spans = CanonicalizeSpans(rows) /\ s.rowCount = n
      /\ s.fieldIds = fields /\ s.excludedRowIds = excluded
    BY DEF Selection
<1>6. CheckSelection(s, t)
    BY SelectionChecked
<1> HIDE DEF s, p, n, pages
<1>7. /\ pages \in Nat
      /\ \A i \in 1..pages : (i - 1) * p \in Nat /\ i * p \in Int /\ (i - 1) * p + p = i * p
      /\ \A i \in 1..pages : i < pages <=> i * p < n
  <2>1. /\ pages \in Nat /\ \A i \in 1..pages : (i - 1) * p \in Nat /\ (i - 1) * p < n
        /\ \A i \in 1..pages : i < pages <=> i * p < n
      BY <1>1, <1>4, PagesNeeded DEF pages
  <2>2. \A i \in 1..pages : i * p \in Int /\ (i - 1) * p + p = i * p
      BY <1>1, <2>1
  <2> QED
      BY <2>1, <2>2
<1>8. \A i \in 1..pages :
         /\ page(i).rows = SubSeq(RowsIn(rows), (i - 1) * p + 1, IF i * p < n THEN i * p ELSE n)
         /\ page(i).next = IF i < pages THEN i * p ELSE 0
  <2> TAKE i \in 1..pages
  <2>1. PICK offset \in Nat : offset = (i - 1) * p
      BY <1>7
  <2>2. offset + p = i * p /\ (i < pages <=> i * p < n)
      BY <1>7, <2>1
  <2>3. s.spans = CanonicalizeSpans(rows) /\ p \in Nat
      BY <1>1, <1>5
  <2>4. PageIs(t, s, rows, offset, p)
      BY <1>2, <1>3, <2>3, PageOfRows
  <2> QED
      BY <2>1, <2>2, <2>4 DEF PageIs, n
<1>9. Cut(ss, RowsIn(rows), rows, n, p, pages)
    BY <1>1, <1>4, <1>8 DEF Cut, pages
<1>10. listed = RowsIn(rows)
    BY <1>1, <1>2, <1>3, <1>9, PagesListed DEF n
<1>11. Range(RowsIn(rows)) = rows
    BY <1>4 DEF Range
<1>12. Len(RowsIn(rows)) = n
    BY <1>4, LenProperties
<1>13. \A i \in 1..pages : ~PageRefused((i - 1) * p, p)
    BY <1>1, <1>7 DEF PageRefused, p
<1> QED
    BY <1>5, <1>6, <1>8, <1>10, <1>11, <1>12, <1>13 DEF Paged, pages, p, s

(* A selection the engine makes: rows of the table with an amount in each  *)
(* of its columns, and beside them the copies of these that were left out. *)
Selects(t, s) ==
    \E rows \in SUBSET DOMAIN t.rows : \E id, fields :
        /\ s = Selection(id, rows, fields, CopiesOf(t, rows))
        /\ \A r \in rows : \A f \in fields : IsAmount(t.rows[r][f])

(* None of these copies is a row of the table.                             *)
LEMMA CopiesLeftOut ==
    ASSUME NEW src, RawTable(src), NEW plan, PlannedFor(src, plan), NEW rows
    PROVE  CopiesOf(NormalizeTable(src, plan), rows) \cap DOMAIN NormalizeTable(src, plan).rows = {}
<1> DEFINE t == NormalizeTable(src, plan)
<1>1. \A r \in DOMAIN t.rows : Excluding(t, r) = {}
    BY RowsLeftOut
<1> HIDE DEF t
<1>2. ASSUME NEW r \in DOMAIN t.rows, r \in CopiesOf(t, rows)
      PROVE  FALSE
  <2>1. PICK q \in Range(t.qualityIssues) :
            r = q.sourceRow /\ q.kind = "duplicate" /\ q.status = "resolved"
      BY <1>2 DEF CopiesOf
  <2>2. PICK i \in DOMAIN t.qualityIssues : t.qualityIssues[i] = q
      BY DEF Range
  <2>3. i \in Excluding(t, r)
      BY <2>1, <2>2 DEF Excluding
  <2> QED
      BY <1>1, <2>3
<1> QED
    BY <1>2 DEF t

(* So it holds of every selection the engine makes.                        *)
LEMMA SelectsPaged ==
    ASSUME NEW src, RawTable(src), Rows(src) \subseteq 1..MaxExpandedRows,
           NEW plan, PlannedFor(src, plan), NEW s, Selects(NormalizeTable(src, plan), s)
    PROVE  Paged(NormalizeTable(src, plan), s)
<1> DEFINE t == NormalizeTable(src, plan)
<1>1. DOMAIN t.rows \subseteq 1..MaxExpandedRows
    BY RowsLeftOut, RowsOfData
<1>2. \A rows : CopiesOf(t, rows) \cap DOMAIN t.rows = {}
    BY CopiesLeftOut
<1> HIDE DEF t
<1>3. PICK rows \in SUBSET DOMAIN t.rows : \E id, fields :
          /\ s = Selection(id, rows, fields, CopiesOf(t, rows))
          /\ \A r \in rows : \A f \in fields : IsAmount(t.rows[r][f])
    BY DEF Selects, t
<1>4. PICK id, fields :
          /\ s = Selection(id, rows, fields, CopiesOf(t, rows))
          /\ \A r \in rows : \A f \in fields : IsAmount(t.rows[r][f])
    BY <1>3
<1>5. rows \cap CopiesOf(t, rows) = {}
    BY <1>2
<1>6. rows \in SUBSET (1..MaxExpandedRows)
    BY <1>1
<1>7. Paged(t, Selection(id, rows, fields, CopiesOf(t, rows)))
    BY <1>4, <1>5, <1>6, SelectionPaged
<1> QED
    BY <1>4, <1>7 DEF t

-----------------------------------------------------------------------------
(* The proofs of the engine                                                *)

(* A proof of the engine is of the revision of the table and has such      *)
(* selections; a metric of a part that is defined has such a proof.        *)
Proves(t, p) ==
    /\ p.revision = t.revision
    /\ \A k \in DOMAIN p.selections : Selects(t, p.selections[k])
GoodPart(t, x) == x.metric.defined => Proves(t, x.proof)
Parts(t, s) == \E S : s \in Seq(S) /\ \A x \in S : GoodPart(t, x)

(* The proof of a sum selects the rows whose amounts it adds.              *)
LEMMA SumProves ==
    ASSUME NEW t, NEW id, NEW unit, NEW field, NEW scope, NEW mask \in SUBSET DOMAIN t.rows,
           NEW total
    PROVE  Proves(t, BuildSum(t, id, unit, field, scope, mask, total).proof)
<1> DEFINE rows == Amounts(t, mask, field)
           s == Selection(id, rows, {field}, CopiesOf(t, rows))
           p == BuildSum(t, id, unit, field, scope, mask, total).proof
<1>1. rows \in SUBSET DOMAIN t.rows /\ \A r \in rows : \A f \in {field} : IsAmount(t.rows[r][f])
    BY DEF Amounts
<1>2. Selects(t, s)
  <2> HIDE DEF rows
  <2> QED
      BY <1>1 DEF Selects
<1>3. p.selections = <<s>> /\ p.revision = t.revision
  <2> HIDE DEF s
  <2> QED
      BY DEF BuildSum, SumOver, SumWith, Proof, s
<1> HIDE DEF s, p
<1>4. \A k \in DOMAIN <<s>> : <<s>>[k] = s
    OBVIOUS
<1> QED
    BY <1>2, <1>3, <1>4 DEF Proves, p

(* The proof of a composite figure selects nothing.                        *)
LEMMA CompositeProves ==
    ASSUME NEW t, NEW u, u.revision = t.revision, NEW id, NEW unit, NEW scope, NEW eligible,
           NEW total, NEW expression, NEW value
    PROVE  Proves(t, Composite(u, id, unit, scope, eligible, total, expression, value).proof)
<1>1. LET p == Composite(u, id, unit, scope, eligible, total, expression, value).proof
      IN p.selections = <<>> /\ p.revision = t.revision
    BY DEF Composite, Proof
<1>2. \A k \in DOMAIN <<>> : FALSE
    OBVIOUS
<1> QED
    BY <1>1, <1>2 DEF Proves

(* One part, two sequences of parts, parts by their places.                *)
LEMMA OnePart ==
    ASSUME NEW t, NEW x, GoodPart(t, x)
    PROVE  Parts(t, <<x>>)
<1> DEFINE S == {x}
<1>1. <<x>> \in Seq(S)
    BY OneOrNone
<1>2. \A y \in S : GoodPart(t, y)
    OBVIOUS
<1> HIDE DEF S
<1> QED
    BY <1>1, <1>2 DEF Parts

LEMMA PartsJoined ==
    ASSUME NEW t, NEW u, NEW v, Parts(t, u), Parts(t, v)
    PROVE  Parts(t, u \o v)
<1>1. PICK S : u \in Seq(S) /\ \A x \in S : GoodPart(t, x)
    BY DEF Parts
<1>2. PICK T : v \in Seq(T) /\ \A x \in T : GoodPart(t, x)
    BY DEF Parts
<1>3. u \in Seq(S \cup T) /\ v \in Seq(S \cup T)
    BY <1>1, <1>2, SeqDef
<1>4. u \o v \in Seq(S \cup T)
    BY <1>3, ConcatProperties
<1>5. \A x \in S \cup T : GoodPart(t, x)
    BY <1>1, <1>2
<1> QED
    BY <1>4, <1>5 DEF Parts

LEMMA PartsInOrder ==
    ASSUME NEW t, NEW n \in Nat, NEW s, s = [i \in 1..n |-> s[i]],
           \A i \in 1..n : GoodPart(t, s[i])
    PROVE  Parts(t, s)
<1> DEFINE S == {s[i] : i \in 1..n}
<1>1. s \in [1..n -> S]
    OBVIOUS
<1>2. \A x \in S : GoodPart(t, x)
    OBVIOUS
<1> HIDE DEF S
<1>3. s \in Seq(S)
    BY <1>1, SeqDef
<1> QED
    BY <1>2, <1>3 DEF Parts

(* The ratios of the pack: none is a sum, and one that is not defined has  *)
(* no proof.                                                               *)
LEMMA RatioPart ==
    ASSUME NEW t, NEW u, u.revision = t.revision, NEW name, NEW scope, NEW rows, NEW total,
           NEW expression, NEW value
    PROVE  Parts(t, Ratio(u, name, scope, rows, total, expression, value))
<1> DEFINE x == Composite(u, Id(name), "ratio", scope, rows, total, expression, value)
<1>1. GoodPart(t, x)
  <2>1. Proves(t, x.proof)
      BY CompositeProves
  <2> HIDE DEF x
  <2> QED
      BY <2>1 DEF GoodPart
<1> HIDE DEF x
<1>2. Parts(t, <<x>>)
    BY <1>1, OnePart
<1> QED
    BY <1>2 DEF Ratio, x

(* One that is not defined has no proof to state.                          *)
LEMMA NoRatioPart ==
    ASSUME NEW t, NEW name, NEW scope, NEW rows, NEW total, NEW proof
    PROVE  Parts(t, NoRatio(name, scope, rows, total, proof))
<1> DEFINE m == NotDefined(Id(name), scope, rows, total, Id(proof))
           x == [metric |-> m]
<1>1. m.defined = FALSE
    BY DEF NotDefined, Metric
<1> HIDE DEF m
<1>2. x.metric = m
    OBVIOUS
<1>3. GoodPart(t, x)
    BY <1>1, <1>2 DEF GoodPart
<1> HIDE DEF x
<1>4. Parts(t, <<x>>)
    BY <1>3, OnePart
<1> QED
    BY <1>4 DEF NoRatio, x, m

(* So the parts of the pack, whichever branch makes them.                  *)
LEMMA TargetGapParts ==
    ASSUME NEW t, NEW ctx, NEW metrics
    PROVE  Parts(t, TargetGapPart(t, ctx, metrics))
BY RatioPart, NoRatioPart DEF TargetGapPart

LEMMA ChangeParts ==
    ASSUME NEW t, NEW ctx, NEW metrics, NEW name, NEW june, NEW may
    PROVE  Parts(t, ChangePart(t, ctx, metrics, name, june, may))
BY RatioPart, NoRatioPart DEF ChangePart, ChangePartOf

LEMMA MarginParts ==
    ASSUME NEW t, NEW ctx, NEW metrics, NEW contribution
    PROVE  Parts(t, MarginPart(t, ctx, metrics, contribution))
BY RatioPart, NoRatioPart DEF MarginPart

LEMMA ContributionParts ==
    ASSUME NEW t, NEW ctx, NEW metrics
    PROVE  Parts(t, ContributionPart(t, ctx, metrics))
<1>1. \A id, unit, scope, eligible, total, expression, value :
          Parts(t, <<Composite(t, id, unit, scope, eligible, total, expression, value)>>)
  <2> TAKE id, unit, scope, eligible, total, expression, value
  <2> DEFINE x == Composite(t, id, unit, scope, eligible, total, expression, value)
  <2>1. Proves(t, x.proof)
      BY CompositeProves
  <2> HIDE DEF x
  <2>2. Parts(t, <<x>>)
      BY <2>1, OnePart DEF GoodPart
  <2> QED
      BY <2>2 DEF x
<1> QED
    BY <1>1 DEF ContributionPart

(* The counts of quality select nothing either.                            *)
LEMMA QualityParts ==
    ASSUME NEW t
    PROVE  Parts(t, QualityTrio(t)) /\ \A i \in 1..3 : Proves(t, QualityTrio(t)[i].proof)
<1>1. QualityTrio(t) = [i \in 1..3 |-> QualityCount(t, QualityKinds[i])]
    BY DEF QualityTrio
<1>2. \A i \in 1..3 : Proves(t, QualityTrio(t)[i].proof)
  <2>1. \A kind : Proves(t, QualityCount(t, kind).proof)
      BY CompositeProves DEF QualityCount, CountOf
  <2> QED
      BY <1>1, <2>1
<1>3. \A i \in 1..3 : GoodPart(t, QualityTrio(t)[i])
    BY <1>2 DEF GoodPart
<1>4. QualityTrio(t) = [i \in 1..3 |-> QualityTrio(t)[i]]
    BY <1>1
<1> HIDE DEF QualityTrio
<1>5. Parts(t, QualityTrio(t))
    BY <1>3, <1>4, PartsInOrder
<1> QED
    BY <1>2, <1>5

(* The eight sums of the pack.                                             *)
LEMMA EightParts ==
    ASSUME NEW t, NEW a, NEW b, NEW c, NEW d, NEW e, NEW f, NEW g, NEW h,
           GoodPart(t, a), GoodPart(t, b), GoodPart(t, c), GoodPart(t, d),
           GoodPart(t, e), GoodPart(t, f), GoodPart(t, g), GoodPart(t, h)
    PROVE  Parts(t, <<a, b, c, d, e, f, g, h>>)
<1> DEFINE s == <<a, b, c, d, e, f, g, h>>
<1>1. s = [i \in 1..8 |-> s[i]]
    OBVIOUS
<1>2. \A i \in 1..8 : GoodPart(t, s[i])
  <2>1. /\ s[1] = a /\ s[2] = b /\ s[3] = c /\ s[4] = d
        /\ s[5] = e /\ s[6] = f /\ s[7] = g /\ s[8] = h
      OBVIOUS
  <2>2. \A i \in 1..8 : i = 1 \/ i = 2 \/ i = 3 \/ i = 4 \/ i = 5 \/ i = 6 \/ i = 7 \/ i = 8
      OBVIOUS
  <2> HIDE DEF s
  <2> QED
      BY <2>1, <2>2
<1> HIDE DEF s
<1>3. Parts(t, s)
    BY <1>1, <1>2, PartsInOrder
<1> QED
    BY <1>3 DEF s

LEMMA PackSumParts ==
    ASSUME NEW t, NEW ctx,
           {ctx.pairMask, ctx.juneMask, ctx.juneNorthRows, ctx.mayNorthRows}
               \subseteq SUBSET DOMAIN t.rows
    PROVE  Parts(t, PackSums(t, ctx))
<1> DEFINE sum(name, slug, scope, mask, rows) ==
               BuildSum(t, Id(name), UnitOf(t, slug), Field(slug), scope, mask,
                        Cardinality(rows))
<1>1. \A name, slug, scope, rows : \A mask \in SUBSET DOMAIN t.rows :
          GoodPart(t, sum(name, slug, scope, mask, rows))
  <2> TAKE name, slug, scope, rows
  <2> TAKE mask \in SUBSET DOMAIN t.rows
  <2>1. Proves(t, sum(name, slug, scope, mask, rows).proof)
      BY SumProves
  <2> HIDE DEF sum
  <2> QED
      BY <2>1 DEF GoodPart
<1>2. PackSums(t, ctx) =
          <<sum("north-june-revenue", "revenue", ctx.juneNorth, ctx.pairMask, ctx.juneNorthRows),
            sum("north-june-target", "target_revenue", ctx.juneNorth, ctx.pairMask,
                ctx.juneNorthRows),
            sum("north-may-orders", "order_volume", ctx.mayNorth, ctx.mayNorthRows,
                ctx.mayNorthRows),
            sum("north-june-orders", "order_volume", ctx.juneNorth, ctx.juneNorthRows,
                ctx.juneNorthRows),
            sum("north-may-downtime", "downtime_minutes", ctx.mayNorth, ctx.mayNorthRows,
                ctx.mayNorthRows),
            sum("north-june-downtime", "downtime_minutes", ctx.juneNorth, ctx.juneNorthRows,
                ctx.juneNorthRows),
            sum("june-revenue", "revenue", ctx.juneAll, ctx.juneMask, ctx.juneAllRows),
            sum("june-operating-cost", "operating_cost", ctx.juneAll, ctx.juneMask,
                ctx.juneAllRows)>>
    BY DEF PackSums
<1> HIDE DEF sum
<1> QED
    BY <1>1, <1>2, EightParts

(* The masks of the pack hold rows of the table.                           *)
LEMMA MonthRows ==
    ASSUME NEW t, NEW scope
    PROVE  LET ctx == PackContext(t, scope)
           IN {ctx.pairMask, ctx.juneMask, ctx.juneNorthRows, ctx.mayNorthRows}
                  \subseteq SUBSET DOMAIN t.rows
<1>1. \A period, regions : ScopeRows(t, period, regions) \subseteq DOMAIN t.rows
    BY DEF ScopeRows
<1>2. \A rows, fields : SharedMask(t, rows, fields) \subseteq rows
    BY DEF SharedMask
<1>3. \A period, complete : LET m == Month(t, period, complete)
                            IN m.northRows \subseteq DOMAIN t.rows /\ m.allRows \subseteq DOMAIN t.rows
    BY <1>1 DEF Month
<1>4. \A june, may : LET ctx == ContextOf(t, june, may)
                     IN /\ ctx.pairMask \subseteq june.northRows /\ ctx.juneMask \subseteq june.allRows
                        /\ ctx.juneNorthRows = june.northRows /\ ctx.mayNorthRows = may.northRows
    BY <1>2 DEF ContextOf
<1> QED
    BY <1>3, <1>4 DEF PackContext

(* So all parts of the pack are good.                                      *)
LEMMA PackPartsGood ==
    ASSUME NEW t, NEW scope
    PROVE  Parts(t, PackParts(t, PackContext(t, scope)))
<1> DEFINE ctx == PackContext(t, scope)
           sums == PackSums(t, ctx)
           metrics == MetricsOf(sums)
<1>1. Parts(t, sums)
    BY MonthRows, PackSumParts
<1> HIDE DEF ctx, sums, metrics
<1>2. Parts(t, PartsOver(t, ctx, sums))
    BY <1>1, TargetGapParts, ChangeParts, ContributionParts, MarginParts, QualityParts,
       PartsJoined DEF PartsOver
<1> QED
    BY <1>2 DEF PackParts, sums, ctx

(* The proofs stated are those of the parts whose metric is defined.       *)
LEMMA StatedProve ==
    ASSUME NEW t, NEW parts, Parts(t, parts)
    PROVE  \A p \in Range(ProofsStated(parts)) : Proves(t, p)
<1> DEFINE chosen == {i \in DOMAIN parts : parts[i].metric.defined}
           at == RowsIn(chosen)
<1>1. PICK S : parts \in Seq(S) /\ \A x \in S : GoodPart(t, x)
    BY DEF Parts
<1>2. /\ Len(parts) \in Nat /\ DOMAIN parts = 1..Len(parts)
      /\ \A i \in DOMAIN parts : GoodPart(t, parts[i])
    BY <1>1, LenProperties
<1>3. chosen \in SUBSET Nat /\ IsFiniteSet(chosen) /\ chosen \subseteq DOMAIN parts
  <2>1. chosen \subseteq 1..Len(parts) /\ chosen \in SUBSET Nat
      BY <1>2
  <2>2. IsFiniteSet(1..Len(parts))
      BY <1>2, FS_Interval
  <2> QED
      BY <1>2, <2>1, <2>2, FS_Subset
<1>4. \A i \in chosen : Proves(t, parts[i].proof)
    BY <1>2 DEF GoodPart
<1> HIDE DEF chosen
<1>5. at \in [1..Cardinality(chosen) -> chosen]
    BY <1>3, InOrder
<1>6. ProofsStated(parts) = [k \in DOMAIN at |-> parts[at[k]].proof]
    BY DEF ProofsStated, ProofsOf, Keep, chosen
<1> HIDE DEF at
<1> QED
    BY <1>4, <1>5, <1>6 DEF Range

(* What of a table the plan decides alone: the revision says it all.       *)
LEMMA TableFields ==
    ASSUME NEW src, NEW plan
    PROVE  LET t == NormalizeTable(src, plan)
               issues == ProfileTable(src).issues
           IN /\ {"rows", "qualityIssues", "columns", "revision"} \subseteq DOMAIN t
              /\ t.qualityIssues = [i \in DOMAIN issues |-> Recorded(issues[i], plan.issueIds)]
              /\ t.revision = [columns |-> t.columns, rows |-> t.rows, approved |-> plan.issueIds]
BY DEF NormalizeTable, NormalizeProfiled

(* Binding the currency changes neither rows nor ledger.                   *)
LEMMA BoundTable ==
    ASSUME NEW t, {"rows", "qualityIssues", "columns", "revision"} \subseteq DOMAIN t
    PROVE  LET u == BindSampleCurrency(t)
           IN /\ u.rows = t.rows /\ u.qualityIssues = t.qualityIssues
              /\ u.revision = t.revision
BY DEF BindSampleCurrency

(* What a proof selects rests on the rows and the ledger alone.            *)
LEMMA SameSelects ==
    ASSUME NEW t, NEW u, u.rows = t.rows, u.qualityIssues = t.qualityIssues,
           u.revision = t.revision, NEW p, Proves(u, p)
    PROVE  Proves(t, p)
<1>1. \A rows : CopiesOf(t, rows) = CopiesOf(u, rows)
    BY DEF CopiesOf
<1>2. \A s : Selects(u, s) => Selects(t, s)
    BY <1>1 DEF Selects
<1> QED
    BY <1>2 DEF Proves

(* Two tables of one file and one revision agree on both.                  *)
LEMMA SameRevision ==
    ASSUME NEW src, NEW plan, NEW other,
           NormalizeTable(src, plan).revision = NormalizeTable(src, other).revision
    PROVE  LET t == NormalizeTable(src, plan)
               u == NormalizeTable(src, other)
           IN u.rows = t.rows /\ u.qualityIssues = t.qualityIssues
<1> DEFINE t == NormalizeTable(src, plan)
           u == NormalizeTable(src, other)
           issues == ProfileTable(src).issues
<1>1. /\ t.qualityIssues = [i \in DOMAIN issues |-> Recorded(issues[i], plan.issueIds)]
      /\ t.revision = [columns |-> t.columns, rows |-> t.rows, approved |-> plan.issueIds]
    BY TableFields
<1>2. /\ u.qualityIssues = [i \in DOMAIN issues |-> Recorded(issues[i], other.issueIds)]
      /\ u.revision = [columns |-> u.columns, rows |-> u.rows, approved |-> other.issueIds]
    BY TableFields
<1>3. t.revision.rows = t.rows /\ t.revision.approved = plan.issueIds
  <2> HIDE DEF t
  <2> QED
      BY <1>1
<1>4. u.revision.rows = u.rows /\ u.revision.approved = other.issueIds
  <2> HIDE DEF u
  <2> QED
      BY <1>2
<1>5. t.revision = u.revision
    OBVIOUS
<1> HIDE DEF t, u, issues
<1>6. u.rows = t.rows /\ plan.issueIds = other.issueIds
    BY <1>3, <1>4, <1>5
<1>7. u.qualityIssues = t.qualityIssues
    BY <1>1, <1>2, <1>6
<1> QED
    BY <1>6, <1>7 DEF t, u

(* The proofs of the generic analysis: totals of measures and counts.      *)
LEMMA GenericProves ==
    ASSUME NEW src, RawTable(src), NEW plan, PlannedFor(src, plan), NEW scope
    PROVE  LET t == NormalizeTable(src, plan)
           IN \A p \in Range(Generic(t, scope).provenance) : Proves(t, p)
<1> DEFINE t == NormalizeTable(src, plan)
           totals == GenericTotals(t, scope)
           trio == QualityTrio(t)
           parts == totals \o trio
           inScope == IF DateColumns(t) # {} /\ scope.period # NoPeriod
                      THEN ScopeRows(t, scope.period, scope.regions) ELSE DOMAIN t.rows
           chosen == {i \in DOMAIN t.columns :
                         /\ t.columns[i].role = "measure" /\ t.columns[i].additive
                         /\ t.columns[i].confirmed
                         /\ t.columns[i].type \in {"decimal", "integer", "mixed"}
                         /\ t.columns[i].id[1] \in CatalogColumns /\ t.columns[i].id[2] = 1}
           at == RowsIn(chosen)
           n == Cardinality(chosen)
           total(c) == BuildSum(t, <<"total", c.id>>, c.unit, c.id, scope, inScope,
                                Cardinality(inScope))
<1>1. DOMAIN t.columns = 1..Len(src.headers) /\ Len(src.headers) \in Nat
    BY ColumnsNamed DEF RawTable
<1> HIDE DEF t
<1>2. inScope \in SUBSET DOMAIN t.rows
    BY DEF ScopeRows
<1>3. chosen \in SUBSET Nat /\ IsFiniteSet(chosen)
  <2>1. chosen \subseteq 1..Len(src.headers) /\ chosen \in SUBSET Nat
      BY <1>1
  <2>2. IsFiniteSet(1..Len(src.headers))
      BY <1>1, FS_Interval
  <2> QED
      BY <2>1, <2>2, FS_Subset
<1>4. totals = [k \in DOMAIN at |-> total(t.columns[at[k]])]
    BY DEF GenericTotals, Keep
<1>5. Generic(t, scope).provenance = [i \in DOMAIN parts |-> parts[i].proof]
    BY DEF Generic, ProofsOf
<1> HIDE DEF chosen, inScope
<1>6. n \in Nat /\ DOMAIN at = 1..n
    BY <1>3, InOrder
<1>7. \A c : Proves(t, total(c).proof)
    BY <1>2, SumProves
<1> HIDE DEF at, total, n
<1>8. totals \in [1..n -> Range(totals)] /\ \A i \in 1..n : Proves(t, totals[i].proof)
    BY <1>4, <1>6, <1>7 DEF Range
<1>9. trio \in [1..3 -> Range(trio)] /\ \A i \in 1..3 : Proves(t, trio[i].proof)
  <2>1. \A i \in 1..3 : Proves(t, trio[i].proof)
      BY QualityParts
  <2>2. trio \in [1..3 -> Range(trio)]
      BY DEF QualityTrio, Range
  <2> QED
      BY <2>1, <2>2
<1> DEFINE S == {x \in Range(totals) \cup Range(trio) : Proves(t, x.proof)}
<1> HIDE DEF totals, trio
<1>10. totals \in [1..n -> S] /\ trio \in [1..3 -> S]
    BY <1>8, <1>9
<1>11. totals \in Seq(S) /\ trio \in Seq(S)
  <2>1. totals \in Seq(S)
      BY <1>6, <1>10, SeqDef
  <2>2. trio \in Seq(S)
      BY <1>10, SeqDef
  <2> QED
      BY <2>1, <2>2
<1>12. \A x \in S : Proves(t, x.proof)
    OBVIOUS
<1> HIDE DEF S
<1>13. parts \in Seq(S)
    BY <1>11, ConcatProperties
<1> HIDE DEF parts
<1>14. \A i \in DOMAIN parts : parts[i] \in S
    BY <1>13, LenProperties
<1> QED
    BY <1>5, <1>12, <1>14 DEF Range, t

(* So do all proofs of an analysis, the pack's or the generic one.         *)
LEMMA AnalysisProves ==
    ASSUME NEW src, RawTable(src), NEW plan, PlannedFor(src, plan), NEW scope, NEW sample
    PROVE  LET t == NormalizeTable(src, plan)
               a == Analyze(t, scope, sample)
           IN a.revision = t.revision /\ \A p \in Range(a.provenance) : Proves(t, p)
<1> DEFINE t == NormalizeTable(src, plan)
           a == Analyze(t, scope, sample)
           u == BindSampleCurrency(t)
           parts == PackParts(u, PackContext(u, scope))
<1>1. \A p \in Range(Generic(t, scope).provenance) : Proves(t, p)
    BY GenericProves
<1>2. u.rows = t.rows /\ u.qualityIssues = t.qualityIssues /\ u.revision = t.revision
    BY TableFields, BoundTable
<1> HIDE DEF t
<1>3. \A p \in Range(ProofsStated(parts)) : Proves(t, p)
  <2>1. \A p \in Range(ProofsStated(parts)) : Proves(u, p)
      BY PackPartsGood, StatedProve
  <2> HIDE DEF u, parts
  <2> QED
      BY <1>2, <2>1, SameSelects
<1>4. BuildSamplePack(t, scope).provenance = ProofsStated(parts)
    BY DEF BuildSamplePack, PackResult
<1>5. a.revision = t.revision
    BY DEF Analyze, SnapshotOf
<1>6. a.provenance = IF UsesPack(t, sample) THEN BuildSamplePack(t, scope).provenance
                     ELSE Generic(t, scope).provenance
    BY DEF Analyze, SnapshotOf
<1> HIDE DEF a, parts, u
<1> QED
    BY <1>1, <1>3, <1>4, <1>5, <1>6 DEF t, a

-----------------------------------------------------------------------------
(* What each thing in the pipeline was made from                           *)

(* What every other thing in the pipeline was made from.                   *)
SnapshotDerived ==
    IsThere(snapshot) =>
        /\ IsThere(table)
        /\ \E plan : /\ PlannedFor(raw, plan)
                     /\ snapshot = <<Analyze(NormalizeTable(raw, plan), ScopeOf, bound)>>
ScenarioDerived ==
    IsThere(scenario) =>
        /\ IsThere(snapshot) /\ BaselineDefined(snapshot[1])
        /\ \E text \in CostChanges :
              /\ typed = <<text>> /\ PercentAccepted(text)
              /\ CostChangeAccepted(ParsePercentInput(text))
              /\ scenario = <<RunScenario(snapshot[1], ParsePercentInput(text))>>
ModelDerived ==
    IsThere(model) =>
        /\ IsThere(table) /\ IsThere(snapshot)
        /\ ~ModelRefused(table[1], snapshot[1], IsThere(scenario), ScenarioOr)
        /\ model = <<BuildExportModel(table[1], snapshot[1], IsThere(scenario), ScenarioOr)>>
ReportsDerived ==
    /\ IsThere(workbook) => /\ IsThere(model) /\ ~WorkbookRefused(model[1])
                            /\ workbook = <<BuildWorkbook(model[1])>>
    /\ IsThere(deck) => /\ IsThere(model) /\ ~DeckRefused(model[1])
                        /\ deck = <<BuildPresentation(model[1])>>
Derived == SnapshotDerived /\ ScenarioDerived /\ ModelDerived /\ ReportsDerived

(* At first nothing is there.                                              *)
LEMMA DerivedInit ==
    ASSUME Init
    PROVE  Derived
BY DEF Init, Derived, SnapshotDerived, ScenarioDerived, ModelDerived, ReportsDerived, IsThere

(* A step that changes nothing but plans and what was refused.             *)
LEMMA DerivedKept ==
    ASSUME Derived,
           UNCHANGED <<raw, bound, table, snapshot, scenario, typed, model, workbook, deck>>
    PROVE  Derived'
<1>1. /\ raw' = raw /\ bound' = bound /\ table' = table /\ snapshot' = snapshot
      /\ scenario' = scenario /\ typed' = typed /\ model' = model /\ workbook' = workbook
      /\ deck' = deck
    OBVIOUS
<1>2. ScopeOf' = ScopeOf /\ ScenarioOr' = ScenarioOr
    BY <1>1 DEF ScopeOf, ScenarioOr, IsThere
<1>3. SnapshotDerived'
    BY <1>1, <1>2 DEF Derived, SnapshotDerived, IsThere
<1>4. ScenarioDerived'
    BY <1>1, <1>2 DEF Derived, ScenarioDerived, IsThere
<1>5. ModelDerived'
    BY <1>1, <1>2 DEF Derived, ModelDerived, IsThere
<1>6. ReportsDerived'
    BY <1>1, <1>2 DEF Derived, ReportsDerived, IsThere
<1> QED
    BY <1>3, <1>4, <1>5, <1>6 DEF Derived

(* Another table leaves what was made from the one before it, until the    *)
(* model is built.                                                         *)
LEMMA DerivedNormalize ==
    ASSUME TablePlanned, Derived, Normalize
    PROVE  Derived'
<1>1. /\ raw' = raw /\ bound' = bound /\ snapshot' = snapshot
      /\ scenario' = scenario /\ typed' = typed /\ model' = model /\ workbook' = workbook
      /\ deck' = deck /\ ~IsThere(model)
    BY DEF Normalize
<1>2. IsThere(table')
  <2>1. \E plan : table' = <<NormalizeTable(raw, plan)>>
      BY DEF Normalize, Review, Approve
  <2> QED
      BY <2>1 DEF IsThere, None
<1>3. ScopeOf' = ScopeOf
    BY <1>1 DEF ScopeOf
<1>4. SnapshotDerived'
    BY <1>1, <1>2, <1>3 DEF Derived, SnapshotDerived, IsThere
<1>5. ScenarioDerived'
    BY <1>1 DEF Derived, ScenarioDerived, IsThere
<1>6. ModelDerived'
    BY <1>1 DEF ModelDerived, IsThere
<1>7. ReportsDerived'
    BY <1>1 DEF Derived, ReportsDerived, IsThere
<1> QED
    BY <1>4, <1>5, <1>6, <1>7 DEF Derived

(* An analysis starts over: the scenario goes with the old snapshot.       *)
LEMMA DerivedAnalyze ==
    ASSUME TablePlanned, Derived, AnalyzeTable
    PROVE  Derived'
<1>1. CASE AnalyzeRefused
    BY <1>1, DerivedKept DEF AnalyzeTable, Refuse
<1>2. CASE ~AnalyzeRefused
  <2>1. /\ raw' = raw /\ bound' = bound /\ table' = table /\ model' = model
        /\ workbook' = workbook /\ deck' = deck /\ ~IsThere(model) /\ IsThere(table)
        /\ scenario' = None /\ typed' = None
        /\ snapshot' = <<Analyze(table[1], ScopeOf, bound)>>
      BY <1>2 DEF AnalyzeTable
  <2>2. PICK plan : PlannedFor(raw, plan) /\ table = <<NormalizeTable(raw, plan)>>
      BY <2>1, TablePlan
  <2>3. snapshot' = <<Analyze(NormalizeTable(raw, plan), ScopeOf, bound)>>
      BY <2>1, <2>2
  <2>4. ScopeOf' = ScopeOf
      BY <2>1 DEF ScopeOf
  <2>5. SnapshotDerived'
      BY <2>1, <2>2, <2>3, <2>4 DEF SnapshotDerived, IsThere
  <2>6. ScenarioDerived'
      BY <2>1 DEF ScenarioDerived, IsThere
  <2>7. ModelDerived'
      BY <2>1 DEF ModelDerived, IsThere
  <2>8. ReportsDerived'
      BY <2>1 DEF Derived, ReportsDerived, IsThere
  <2> QED
      BY <2>5, <2>6, <2>7, <2>8 DEF Derived
<1> QED
    BY <1>1, <1>2

(* A scenario is run on the snapshot that is there, or refused.            *)
LEMMA DerivedSubmit ==
    ASSUME Derived, SubmitScenario
    PROVE  Derived'
<1>1. PICK text \in CostChanges :
          LET change == ParsePercentInput(text)
          IN IF ~PercentAccepted(text) THEN Refuse("typed")
             ELSE IF ~CostChangeAccepted(change) \/ ~BaselineDefined(snapshot[1])
             THEN Refuse("scenario")
             ELSE /\ scenario' = <<RunScenario(snapshot[1], change)>> /\ typed' = <<text>>
                  /\ refused' = "none"
                  /\ UNCHANGED <<raw, bound, plans, table, snapshot, model, workbook, deck>>
    BY DEF SubmitScenario
<1> DEFINE change == ParsePercentInput(text)
<1>2. CASE Refuse("typed") \/ Refuse("scenario")
    BY <1>2, DerivedKept DEF Refuse
<1>3. CASE ~Refuse("typed") /\ ~Refuse("scenario")
  <2>1. /\ PercentAccepted(text) /\ CostChangeAccepted(change) /\ BaselineDefined(snapshot[1])
        /\ scenario' = <<RunScenario(snapshot[1], change)>> /\ typed' = <<text>>
        /\ raw' = raw /\ bound' = bound /\ table' = table /\ snapshot' = snapshot
        /\ model' = model /\ workbook' = workbook /\ deck' = deck
      BY <1>1, <1>3
  <2>2. IsThere(snapshot) /\ ~IsThere(model)
      BY DEF SubmitScenario
  <2>3. ScopeOf' = ScopeOf
      BY <2>1 DEF ScopeOf
  <2>4. SnapshotDerived'
      BY <2>1, <2>3 DEF Derived, SnapshotDerived, IsThere
  <2>5. ScenarioDerived'
      BY <2>1, <2>2 DEF ScenarioDerived, IsThere
  <2>6. ModelDerived'
      BY <2>1, <2>2 DEF ModelDerived, IsThere
  <2>7. ReportsDerived'
      BY <2>1 DEF Derived, ReportsDerived, IsThere
  <2> QED
      BY <2>4, <2>5, <2>6, <2>7 DEF Derived
<1> QED
    BY <1>2, <1>3

(* A model is built from what is there, or refused.                        *)
LEMMA DerivedModel ==
    ASSUME Derived, BuildModel
    PROVE  Derived'
<1>1. CASE ModelRefused(table[1], snapshot[1], IsThere(scenario), ScenarioOr)
    BY <1>1, DerivedKept DEF BuildModel, Refuse
<1>2. CASE ~ModelRefused(table[1], snapshot[1], IsThere(scenario), ScenarioOr)
  <2>1. /\ raw' = raw /\ bound' = bound /\ table' = table /\ snapshot' = snapshot
        /\ scenario' = scenario /\ typed' = typed /\ workbook' = workbook /\ deck' = deck
        /\ ~IsThere(model) /\ IsThere(table) /\ IsThere(snapshot)
        /\ model' = <<BuildExportModel(table[1], snapshot[1], IsThere(scenario), ScenarioOr)>>
      BY <1>2 DEF BuildModel
  <2>2. ScopeOf' = ScopeOf /\ ScenarioOr' = ScenarioOr /\ IsThere(scenario)' = IsThere(scenario)
      BY <2>1 DEF ScopeOf, ScenarioOr, IsThere
  <2>3. SnapshotDerived'
      BY <2>1, <2>2 DEF Derived, SnapshotDerived, IsThere
  <2>4. ScenarioDerived'
      BY <2>1 DEF Derived, ScenarioDerived, IsThere
  <2>5. ModelDerived'
      BY <1>2, <2>1, <2>2 DEF ModelDerived, IsThere
  <2>6. ReportsDerived'
      BY <2>1 DEF Derived, ReportsDerived, IsThere
  <2> QED
      BY <2>3, <2>4, <2>5, <2>6 DEF Derived
<1> QED
    BY <1>1, <1>2

(* A report is written from the model, or refused.                         *)
LEMMA DerivedWrite ==
    ASSUME Derived, WriteWorkbook \/ WriteDeck
    PROVE  Derived'
<1>1. CASE Refuse("workbook") \/ Refuse("deck")
    BY <1>1, DerivedKept DEF Refuse
<1>2. CASE ~Refuse("workbook") /\ ~Refuse("deck")
  <2>1. /\ raw' = raw /\ bound' = bound /\ table' = table /\ snapshot' = snapshot
        /\ scenario' = scenario /\ typed' = typed /\ model' = model /\ IsThere(model)
        /\ \/ /\ ~WorkbookRefused(model[1]) /\ workbook' = <<BuildWorkbook(model[1])>>
              /\ deck' = deck
           \/ /\ ~DeckRefused(model[1]) /\ deck' = <<BuildPresentation(model[1])>>
              /\ workbook' = workbook
      BY <1>2 DEF WriteWorkbook, WriteDeck
  <2>2. ScopeOf' = ScopeOf /\ ScenarioOr' = ScenarioOr
      BY <2>1 DEF ScopeOf, ScenarioOr, IsThere
  <2>3. SnapshotDerived'
      BY <2>1, <2>2 DEF Derived, SnapshotDerived, IsThere
  <2>4. ScenarioDerived'
      BY <2>1 DEF Derived, ScenarioDerived, IsThere
  <2>5. ModelDerived'
      BY <2>1, <2>2 DEF Derived, ModelDerived, IsThere
  <2>6. ReportsDerived'
      BY <2>1 DEF Derived, ReportsDerived, IsThere
  <2> QED
      BY <2>3, <2>4, <2>5, <2>6 DEF Derived
<1> QED
    BY <1>1, <1>2

(* So for every step.                                                      *)
LEMMA DerivedStep ==
    ASSUME TablePlanned, Derived, [Next]_vars
    PROVE  Derived'
<1>1. CASE UNCHANGED vars
    BY <1>1, DerivedKept DEF vars
<1> QED
    BY <1>1, DerivedNormalize, DerivedAnalyze, DerivedSubmit, DerivedModel, DerivedWrite DEF Next

(* Nothing in the pipeline is stale but by the table: the snapshot is the  *)
(* analysis of a table that a plan of the review made of this very file,   *)
(* the scenario was run on the snapshot that is there with the percentage  *)
(* that was typed, the model was built from the table, the snapshot and    *)
(* the scenario that are there, and each report was written from the model *)
(* that is there. So in every interleaving of approvals, analyses,         *)
(* scenarios and exports, those refused included.                          *)
THEOREM EachFromTheLast == Spec => []Derived
<1> QED
    BY TableFromPlan, DerivedInit, DerivedStep, PTL DEF Spec

(* What a current snapshot selects can be paged in the table that is       *)
(* there.                                                                  *)
LEMMA SnapshotPaged ==
    ASSUME TablePlanned, Derived
    PROVE  EvidenceComplete
<1> SUFFICES ASSUME IsThere(snapshot), snapshot[1].revision = table[1].revision, RowsAdmitted
             PROVE  EvidenceComplete
    BY DEF EvidenceComplete
<1>1. IsThere(table)
    BY DEF Derived, SnapshotDerived
<1>2. PICK plan : PlannedFor(raw, plan) /\ table = <<NormalizeTable(raw, plan)>>
    BY <1>1, TablePlan
<1>3. PICK other : /\ PlannedFor(raw, other)
                   /\ snapshot = <<Analyze(NormalizeTable(raw, other), ScopeOf, bound)>>
    BY DEF Derived, SnapshotDerived
<1>4. RawTable(raw)
    BY RawAssumption DEF TablePlanned
<1> DEFINE t == NormalizeTable(raw, plan)
           u == NormalizeTable(raw, other)
           a == snapshot[1]
<1>5. table[1] = t /\ a = Analyze(u, ScopeOf, bound)
    BY <1>2, <1>3
<1>6. a.revision = u.revision /\ \A p \in Range(a.provenance) : Proves(u, p)
    BY <1>3, <1>4, <1>5, AnalysisProves
<1>7. u.rows = t.rows /\ u.qualityIssues = t.qualityIssues /\ u.revision = t.revision
    BY <1>2, <1>3, <1>5, <1>6, SameRevision
<1>8. \A p \in Range(a.provenance) : Proves(t, p)
  <2> HIDE DEF t, u
  <2> QED
      BY <1>6, <1>7, SameSelects
<1>9. \A s : Selects(t, s) => Paged(t, s)
    BY <1>2, <1>4, SelectsPaged DEF RowsAdmitted
<1> HIDE DEF t, u
<1>10. \A p \in Range(snapshot[1].provenance) : \A k \in DOMAIN p.selections :
           Paged(table[1], p.selections[k])
    BY <1>5, <1>8, <1>9 DEF Proves
<1> QED
    BY <1>10 DEF EvidenceComplete, Paged

(* Each selection of a current snapshot satisfies the contract, holds rows *)
(* of the table with an amount in each of its columns and none that was    *)
(* left out, and its pages list each of its rows once, in the order of the *)
(* source, none of them refused. So for every raw table within the         *)
(* envelope of evidence, every plan, and every size of a page.             *)
THEOREM EvidencePaged == Spec => []EvidenceComplete
<1> QED
    BY TableFromPlan, EachFromTheLast, SnapshotPaged, PTL

-----------------------------------------------------------------------------
(* What the model and the workbook hold                                    *)

(* Parts whose proofs are of one revision.                                 *)
Stamped(revision, s) == \E S : s \in Seq(S) /\ \A x \in S : x.proof.revision = revision

(* Two sequences of such parts, their proofs, three parts, none or one.    *)
LEMMA StampedJoined ==
    ASSUME NEW revision, NEW u, NEW v, Stamped(revision, u), Stamped(revision, v)
    PROVE  Stamped(revision, u \o v)
<1>1. PICK S : u \in Seq(S) /\ \A x \in S : x.proof.revision = revision
    BY DEF Stamped
<1>2. PICK T : v \in Seq(T) /\ \A x \in T : x.proof.revision = revision
    BY DEF Stamped
<1>3. u \in Seq(S \cup T) /\ v \in Seq(S \cup T)
    BY <1>1, <1>2, SeqDef
<1>4. u \o v \in Seq(S \cup T)
    BY <1>3, ConcatProperties
<1>5. \A x \in S \cup T : x.proof.revision = revision
    BY <1>1, <1>2
<1> QED
    BY <1>4, <1>5 DEF Stamped

LEMMA StampedProofs ==
    ASSUME NEW revision, NEW parts, Stamped(revision, parts)
    PROVE  \A p \in Range(ProofsOf(parts)) : p.revision = revision
<1>1. PICK S : parts \in Seq(S) /\ \A x \in S : x.proof.revision = revision
    BY DEF Stamped
<1>2. \A i \in DOMAIN parts : parts[i] \in S
    BY <1>1, LenProperties
<1>3. ProofsOf(parts) = [i \in DOMAIN parts |-> parts[i].proof]
    BY DEF ProofsOf
<1> QED
    BY <1>1, <1>2, <1>3 DEF Range

(* So the legs of a scenario, with the difference of margins or without.   *)
LEMMA LegStamped ==
    ASSUME NEW name, NEW of, NEW unit, NEW s, NEW expression, NEW value
    PROVE  Leg(name, of, unit, s, expression, value).proof.revision = s.revision
<1> DEFINE p == ScenarioProof(ScenarioMetric(name), s, expression, value)
<1>1. Leg(name, of, unit, s, expression, value).proof = p
    BY DEF Leg
<1>2. p.revision = s.revision
    BY DEF ScenarioProof
<1> QED
    BY <1>1, <1>2

LEMMA ThreeStamped ==
    ASSUME NEW revision, NEW a, NEW b, NEW c,
           a.proof.revision = revision, b.proof.revision = revision, c.proof.revision = revision
    PROVE  Stamped(revision, <<a, b, c>>)
<1> DEFINE S == {a, b, c}
<1>1. <<a, b, c>> \in Seq(S) /\ \A x \in S : x.proof.revision = revision
    OBVIOUS
<1> HIDE DEF S
<1> QED
    BY <1>1 DEF Stamped

LEMMA NoneOrOneStamped ==
    ASSUME NEW revision
    PROVE  /\ Stamped(revision, <<>>)
           /\ \A d : d.proof.revision = revision => Stamped(revision, <<d>>)
<1>1. Stamped(revision, <<>>)
  <2> DEFINE S == {}
  <2>1. <<>> \in Seq(S) /\ \A x \in S : x.proof.revision = revision
      OBVIOUS
  <2> HIDE DEF S
  <2> QED
      BY <2>1 DEF Stamped
<1>2. ASSUME NEW d, d.proof.revision = revision
      PROVE  Stamped(revision, <<d>>)
  <2> DEFINE S == {d}
  <2>1. <<d>> \in Seq(S)
      BY OneOrNone
  <2>2. \A x \in S : x.proof.revision = revision
      BY <1>2
  <2> HIDE DEF S
  <2> QED
      BY <2>1, <2>2 DEF Stamped
<1> QED
    BY <1>1, <1>2

LEMMA LegsStamped ==
    ASSUME NEW s, NEW change
    PROVE  Stamped(s.revision, ScenarioLegs(s, change))
<1> DEFINE Good(x) == x.proof.revision = s.revision
           Legs(legs) == Stamped(s.revision, legs)
<1>1. \A name, of, unit, expression, value : Good(Leg(name, of, unit, s, expression, value))
    BY LegStamped
<1>2. \A a, b, c, d : Good(a) /\ Good(b) /\ Good(c) /\ Good(d) =>
          /\ Legs(<<a, b, c>> \o <<>>) /\ Legs(<<a, b, c>> \o <<d>>)
  <2> TAKE a, b, c, d
  <2> HAVE Good(a) /\ Good(b) /\ Good(c) /\ Good(d)
  <2>1. /\ Stamped(s.revision, <<a, b, c>>) /\ Stamped(s.revision, <<d>>)
        /\ Stamped(s.revision, <<>>)
      BY ThreeStamped, NoneOrOneStamped
  <2> QED
      BY <2>1, StampedJoined
<1> HIDE DEF Good, Legs
<1>3. CASE BaselineMargins(s) = {}
  <2>1. Legs(ScenarioLegs(s, change))
      BY <1>1, <1>2, <1>3, Zenon DEF ScenarioLegs
  <2> QED
      BY <2>1 DEF Legs
<1>4. CASE BaselineMargins(s) # {}
  <2>1. Legs(ScenarioLegs(s, change))
      BY <1>1, <1>2, <1>4, Zenon DEF ScenarioLegs
  <2> QED
      BY <2>1 DEF Legs
<1> QED
    BY <1>3, <1>4

(* A scenario is of the revision of its snapshot, and tells its change.    *)
LEMMA ScenarioStamped ==
    ASSUME NEW s, NEW change
    PROVE  LET result == RunScenario(s, change)
           IN /\ result.costChange = change
              /\ \A p \in Range(result.provenance) : p.revision = s.revision
<1> DEFINE legs == IF Disabled(s) THEN <<>> ELSE ScenarioLegs(s, change)
<1>1. Stamped(s.revision, legs)
  <2>1. Stamped(s.revision, <<>>)
      BY NoneOrOneStamped
  <2> QED
      BY <2>1, LegsStamped
<1>2. RunScenario(s, change) = ResultOf(s, change, legs)
    BY DEF RunScenario
<1> HIDE DEF legs
<1>3. /\ ResultOf(s, change, legs).costChange = change
      /\ ResultOf(s, change, legs).provenance = ProofsOf(legs)
    BY DEF ResultOf
<1> QED
    BY <1>1, <1>2, <1>3, StampedProofs

(* What an analysis counts rests on the rows and the ledger alone.         *)
LEMMA SameSummary ==
    ASSUME NEW t, NEW u, u.rows = t.rows, u.qualityIssues = t.qualityIssues
    PROVE  QualitySummaryOf(u) = QualitySummaryOf(t)
BY DEF QualitySummaryOf

(* An analysis counts the table it is given.                               *)
LEMMA AnalysisCounts ==
    ASSUME NEW t, NEW scope, NEW sample
    PROVE  Analyze(t, scope, sample).qualitySummary = QualitySummaryOf(t)
BY DEF Analyze, SnapshotOf

(* Of the two tables of one file, those of one revision agree on what a    *)
(* model takes from the analysis.                                          *)
LEMMA ModelHolds ==
    ASSUME TablePlanned, Derived, IsThere(model)
    PROVE  /\ model[1].table = table[1]
           /\ model[1].qualitySummary = QualitySummaryOf(table[1])
           /\ \A p \in Range(model[1].provenance) : p.revision = table[1].revision
           /\ model[1].hasScenario = IsThere(scenario) /\ model[1].scenario = ScenarioOr
           /\ snapshot[1].revision = table[1].revision
<1>1. /\ IsThere(table) /\ IsThere(snapshot) /\ table[1].revision = snapshot[1].revision
      /\ model = <<BuildExportModel(table[1], snapshot[1], IsThere(scenario), ScenarioOr)>>
    BY DEF Derived, ModelDerived, ModelRefused, Stale
<1>2. PICK plan : PlannedFor(raw, plan) /\ table = <<NormalizeTable(raw, plan)>>
    BY <1>1, TablePlan
<1>3. PICK other : /\ PlannedFor(raw, other)
                   /\ snapshot = <<Analyze(NormalizeTable(raw, other), ScopeOf, bound)>>
    BY <1>1 DEF Derived, SnapshotDerived
<1>4. RawTable(raw)
    BY RawAssumption DEF TablePlanned
<1> DEFINE t == NormalizeTable(raw, plan)
           u == NormalizeTable(raw, other)
           a == snapshot[1]
<1>5. table[1] = t /\ a = Analyze(u, ScopeOf, bound)
    BY <1>2, <1>3
<1>6. a.revision = u.revision /\ \A p \in Range(a.provenance) : Proves(u, p)
    BY <1>3, <1>4, <1>5, AnalysisProves
<1>7. u.rows = t.rows /\ u.qualityIssues = t.qualityIssues /\ u.revision = t.revision
    BY <1>1, <1>5, <1>6, SameRevision
<1>8. a.qualitySummary = QualitySummaryOf(u)
    BY <1>5, AnalysisCounts
<1> HIDE DEF t, u, a
<1>9. a.qualitySummary = QualitySummaryOf(t)
    BY <1>7, <1>8, SameSummary
<1>10. \A p \in Range(a.provenance) : p.revision = t.revision
    BY <1>6, <1>7 DEF Proves
<1>11. /\ model[1].table = table[1] /\ model[1].qualitySummary = a.qualitySummary
       /\ model[1].provenance = a.provenance /\ model[1].hasScenario = IsThere(scenario)
       /\ model[1].scenario = ScenarioOr
    BY <1>1 DEF BuildExportModel, a
<1> QED
    BY <1>1, <1>5, <1>9, <1>10, <1>11 DEF a

(* So nothing in a model is of another revision.                           *)
LEMMA OfOneRevision ==
    ASSUME TablePlanned, Derived
    PROVE  ModelOfOneRevision
<1> SUFFICES ASSUME IsThere(model) PROVE ModelOfOneRevision
    BY DEF ModelOfOneRevision
<1>1. /\ model[1].table = table[1]
      /\ model[1].qualitySummary = QualitySummaryOf(table[1])
      /\ \A p \in Range(model[1].provenance) : p.revision = table[1].revision
      /\ model[1].hasScenario = IsThere(scenario) /\ model[1].scenario = ScenarioOr
      /\ snapshot[1].revision = table[1].revision
    BY ModelHolds
<1>2. CASE IsThere(scenario)
  <2>1. PICK change : scenario = <<RunScenario(snapshot[1], change)>>
      BY <1>2 DEF Derived, ScenarioDerived
  <2>2. model[1].scenario = RunScenario(snapshot[1], change)
      BY <1>1, <1>2, <2>1 DEF ScenarioOr
  <2>3. /\ model[1].scenario.costChange = change
        /\ \A p \in Range(model[1].scenario.provenance) : p.revision = snapshot[1].revision
      BY <2>2, ScenarioStamped
  <2> QED
      BY <1>1, <2>2, <2>3 DEF ModelOfOneRevision
<1>3. CASE ~IsThere(scenario)
  <2>1. model[1].scenario = NoScenario
      BY <1>1, <1>3 DEF ScenarioOr
  <2>2. Range(NoScenario.provenance) = {}
      BY DEF NoScenario, Range
  <2> QED
      BY <1>1, <1>3, <2>1, <2>2 DEF ModelOfOneRevision
<1> QED
    BY <1>2, <1>3

(* The two sheets of a model hold every row of data once.                  *)
LEMMA CleanSheet ==
    ASSUME NEW m, DOMAIN m.table.rows \in SUBSET Nat, IsFiniteSet(DOMAIN m.table.rows)
    PROVE  LET clean == CleanRows(m)
           IN /\ {row.sourceRow : row \in Range(clean)} = DOMAIN m.table.rows
              /\ \A i, j \in DOMAIN clean : i < j => clean[i].sourceRow < clean[j].sourceRow
              /\ Len(clean) = Cardinality(DOMAIN m.table.rows)
<1> DEFINE rows == RowsIn(DOMAIN m.table.rows)
           clean == CleanRows(m)
           n == Cardinality(DOMAIN m.table.rows)
<1>1. /\ n \in Nat /\ rows \in [1..n -> DOMAIN m.table.rows]
      /\ \A k, l \in 1..n : k < l => rows[k] < rows[l]
      /\ \A r \in DOMAIN m.table.rows : \E k \in 1..n : rows[k] = r
    BY InOrder
<1>2. DOMAIN clean = DOMAIN rows /\ \A k \in DOMAIN rows : clean[k].sourceRow = rows[k]
    BY DEF CleanRows
<1>3. clean = [k \in DOMAIN rows |-> clean[k]]
    BY DEF CleanRows
<1> HIDE DEF rows, clean, n
<1>4. DOMAIN clean = 1..n /\ \A k \in 1..n : clean[k].sourceRow = rows[k]
    BY <1>1, <1>2
<1>5. {row.sourceRow : row \in Range(clean)} = DOMAIN m.table.rows
  <2>1. \A row \in Range(clean) : row.sourceRow \in DOMAIN m.table.rows
      BY <1>1, <1>4 DEF Range
  <2>2. \A r \in DOMAIN m.table.rows : \E row \in Range(clean) : row.sourceRow = r
      BY <1>1, <1>4 DEF Range
  <2> QED
      BY <2>1, <2>2
<1>6. \A i, j \in DOMAIN clean : i < j => clean[i].sourceRow < clean[j].sourceRow
    BY <1>1, <1>4
<1>7. Len(clean) = n
    BY <1>1, <1>3, <1>4
<1> QED
    BY <1>5, <1>6, <1>7 DEF clean, n

(* The excluded copies in the ledger are the rows of data that are not     *)
(* kept.                                                                   *)
LEMMA QualitySheet ==
    ASSUME NEW src, RawTable(src), NEW plan, PlannedFor(src, plan)
    PROVE  LET t == NormalizeTable(src, plan)
           IN {q.sourceRow : q \in {i \in Range(t.qualityIssues) :
                                       i.kind = "duplicate" /\ i.status = "resolved"}}
                  = DataRows(src) \ DOMAIN t.rows
<1> DEFINE t == NormalizeTable(src, plan)
           copies == {i \in Range(t.qualityIssues) :
                         i.kind = "duplicate" /\ i.status = "resolved"}
<1>1. /\ \A r \in DOMAIN t.rows : Excluding(t, r) = {}
      /\ \A r \in DataRows(src) \ DOMAIN t.rows : \E i \in DOMAIN t.qualityIssues :
             Excluding(t, r) = {i}
    BY RowsLeftOut
<1>2. \A i \in DOMAIN t.qualityIssues :
          t.qualityIssues[i].kind = "duplicate" => t.qualityIssues[i].sourceRow \in DataRows(src)
  <2> DEFINE issues == ProfileTable(src).issues
  <2>1. DOMAIN t.qualityIssues = 1..Len(issues)
    <3>1. LedgerTells(src, t.qualityIssues, issues, plan.issueIds)
        BY LedgerOfTable
    <3> HIDE DEF t, issues
    <3> QED
        BY <3>1 DEF LedgerTells
  <2>2. ASSUME NEW i \in 1..Len(issues)
        PROVE  /\ IssueTells(src, issues[i])
               /\ t.qualityIssues[i].kind = issues[i].kind
               /\ t.qualityIssues[i].sourceRow = issues[i].sourceRow
    <3>1. LedgerTells(src, t.qualityIssues, issues, plan.issueIds)
        BY LedgerOfTable
    <3> HIDE DEF t, issues
    <3> QED
        BY <3>1 DEF LedgerTells
  <2> HIDE DEF t, issues
  <2>3. \A i \in 1..Len(issues) : issues[i].kind = "duplicate" =>
            \E r \in Repeated(src) : issues[i] = Duplicate(src, r)
      BY <2>2 DEF IssueTells
  <2>4. \A i \in 1..Len(issues) : issues[i].kind = "duplicate" =>
            issues[i].sourceRow \in DataRows(src)
      BY <2>3, DuplicateFields DEF Repeated
  <2> QED
      BY <2>1, <2>2, <2>4
<1> HIDE DEF t
<1>3. ASSUME NEW q \in copies
      PROVE  q.sourceRow \in DataRows(src) \ DOMAIN t.rows
  <2>1. PICK i \in DOMAIN t.qualityIssues : q = t.qualityIssues[i]
      BY DEF Range
  <2>2. i \in Excluding(t, q.sourceRow)
      BY <2>1 DEF Excluding
  <2> QED
      BY <1>1, <1>2, <2>1, <2>2
<1>4. ASSUME NEW r \in DataRows(src) \ DOMAIN t.rows
      PROVE  \E q \in copies : q.sourceRow = r
  <2>1. PICK i \in DOMAIN t.qualityIssues : Excluding(t, r) = {i}
      BY <1>1
  <2>2. /\ t.qualityIssues[i].kind = "duplicate" /\ t.qualityIssues[i].sourceRow = r
        /\ t.qualityIssues[i].status = "resolved"
      BY <2>1 DEF Excluding
  <2>3. t.qualityIssues[i] \in copies
      BY <2>2 DEF Range
  <2> QED
      BY <2>2, <2>3
<1> HIDE DEF copies
<1>5. {q.sourceRow : q \in copies} = DataRows(src) \ DOMAIN t.rows
    BY <1>3, <1>4
<1> QED
    BY <1>5 DEF copies, t

(* So a workbook holds every row of data once, and its preview counts      *)
(* them.                                                                   *)
LEMMA WorkbookAccounts ==
    ASSUME TablePlanned, Derived
    PROVE  RowsExported
<1> SUFFICES ASSUME IsThere(workbook) PROVE RowsExported
    BY DEF RowsExported
<1>1. IsThere(model) /\ workbook = <<BuildWorkbook(model[1])>>
    BY DEF Derived, ReportsDerived
<1>2. IsThere(table)
    BY <1>1 DEF Derived, ModelDerived
<1>3. PICK plan : PlannedFor(raw, plan) /\ table = <<NormalizeTable(raw, plan)>>
    BY <1>2, TablePlan
<1>4. RawTable(raw)
    BY RawAssumption DEF TablePlanned
<1> DEFINE m == model[1]
           t == NormalizeTable(raw, plan)
           clean == workbook[1].clean
           copies == {q.sourceRow : q \in {i \in Range(workbook[1].quality) :
                                              i.kind = "duplicate" /\ i.status = "resolved"}}
<1>5. m.table = t /\ m.qualitySummary = QualitySummaryOf(t)
    BY <1>1, <1>3, ModelHolds
<1>6. clean = CleanRows(m) /\ workbook[1].quality = t.qualityIssues
    BY <1>1, <1>5 DEF BuildWorkbook, QualityRows
<1>7. DOMAIN t.rows \subseteq DataRows(raw) /\ DataRows(raw) \subseteq Rows(raw)
    BY <1>3, <1>4, RowsLeftOut DEF DataRows
<1>8. copies = DataRows(raw) \ DOMAIN t.rows
    BY <1>3, <1>4, <1>6, QualitySheet
<1>9. QualitySummaryOf(t).rawRows = Cardinality(DataRows(raw))
    BY <1>3, <1>4, RowsCounted
<1>10. QualitySummaryOf(t).retainedRows = Cardinality(DOMAIN t.rows)
    BY DEF QualitySummaryOf
<1> HIDE DEF m, t, clean, copies
<1>11. DOMAIN m.table.rows \in SUBSET Nat /\ IsFiniteSet(DOMAIN m.table.rows)
    BY <1>4, <1>5, <1>7, FS_Subset DEF RawTable
<1>12. /\ {row.sourceRow : row \in Range(clean)} = DOMAIN t.rows
       /\ \A i, j \in DOMAIN clean : i < j => clean[i].sourceRow < clean[j].sourceRow
       /\ Len(clean) = Cardinality(DOMAIN t.rows)
    BY <1>5, <1>6, <1>11, CleanSheet
<1>13. /\ WorkbookPreview(m).retained = m.qualitySummary.retainedRows
       /\ WorkbookPreview(m).raw = m.qualitySummary.rawRows
    BY DEF WorkbookPreview
<1>14. /\ DOMAIN t.rows \cup copies = DataRows(raw) /\ DOMAIN t.rows \cap copies = {}
       /\ WorkbookPreview(m).retained = Len(clean)
       /\ WorkbookPreview(m).raw = Cardinality(DataRows(raw))
    BY <1>5, <1>7, <1>8, <1>9, <1>10, <1>12, <1>13
<1> QED
    BY <1>12, <1>14 DEF RowsExported, m, clean, copies

(* Every row of data is kept, or left out by exactly one resolved issue in *)
(* favour of a kept row of the same texts; every cell of a kept row is     *)
(* told as it was, by its value or by the ledger, and in the rows of       *)
(* evidence alike; the summary counts every row; and a workbook has every  *)
(* row of data once, in the cleaned sheet in the order of the source or in *)
(* the quality sheet as a copy.  So for every raw table and every plan     *)
(* that the review of the session can send (each change ticked or not),    *)
(* that of an upload (each group, spelling, column and formula column      *)
(* decided or not) or a caller of the packages, for any number of controls *)
(* moved and whichever analyses, scenarios and exports came before.        *)
THEOREM Accounted == Spec => []RowsAccounted
<1>1. TablePlanned /\ Derived => RowsAccounted
    BY TableAccounts, WorkbookAccounts DEF RowsAccounted
<1> QED
    BY <1>1, TableFromPlan, EachFromTheLast, PTL

(* A model mixes nothing: the snapshot it was built from may be that of an *)
(* earlier table, but then of the same revision, and so of the same rows   *)
(* and the same ledger; its proofs and those of its scenario carry this    *)
(* revision, its summary counts this table, and its scenario is what the   *)
(* snapshot gives for the change it names.                                 *)
THEOREM OneRevision == Spec => []ModelOfOneRevision
<1> QED
    BY TableFromPlan, EachFromTheLast, OfOneRevision, PTL
=============================================================================
