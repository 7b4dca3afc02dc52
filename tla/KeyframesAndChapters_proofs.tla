-------------------- MODULE KeyframesAndChapters_proofs ---------------------
(***************************************************************************)
(* What the selection of keyframes and the fusion of a timeline compute,   *)
(* for inputs of any length.                                               *)
(*                                                                         *)
(* Both sort, and both go through what they sorted.  An order by InOrder   *)
(* holds every element once, because in a strict total order no two        *)
(* elements have equally many before them.                                 *)
(***************************************************************************)
EXTENDS KeyframeSelection, Timeline, EvidenceReduction_proofs

-----------------------------------------------------------------------------
(* Orders.                                                                 *)

StrictOrder(R, S) ==
    /\ \A x \in S : <<x, x>> \notin R
    /\ \A x, y, z \in S : <<x, y>> \in R /\ <<y, z>> \in R => <<x, z>> \in R
    /\ \A x, y \in S : x # y => <<x, y>> \in R \/ <<y, x>> \in R

\* o lists the n elements of S, each once, in the order R.
Lists(o, n, S, R) ==
    /\ n \in Nat
    /\ o \in [1..n -> S]
    /\ \A x \in S : \E k \in 1..n : o[k] = x
    /\ \A j, k \in 1..n : j < k => <<o[j], o[k]>> \in R

Below(x, S, R) == {y \in S : <<y, x>> \in R}

LEMMA MoreBelow ==
    ASSUME NEW S, IsFiniteSet(S), NEW R, StrictOrder(R, S),
           NEW x \in S, NEW y \in S, <<x, y>> \in R
    PROVE  /\ Cardinality(Below(x, S, R)) \in Nat
           /\ Cardinality(Below(y, S, R)) \in Nat
           /\ Cardinality(Below(x, S, R)) < Cardinality(Below(y, S, R))
<1> DEFINE A == Below(x, S, R)
           B == Below(y, S, R)
<1>1. A \in SUBSET S /\ B \in SUBSET S  BY DEF Below
<1>2. x \notin A  BY DEF Below, StrictOrder
<1>3. A \cup {x} \in SUBSET B  BY DEF Below, StrictOrder
<1> HIDE DEF A, B
<1>4. IsFiniteSet(A) /\ IsFiniteSet(B)  BY <1>1, FS_Subset
<1>5. Cardinality(A \cup {x}) = Cardinality(A) + 1
  BY <1>2, <1>4, FS_AddElement
<1>6. Cardinality(A \cup {x}) <= Cardinality(B)
  BY <1>3, <1>4, FS_Subset
<1>7. Cardinality(A) \in Nat /\ Cardinality(B) \in Nat
  BY <1>4, FS_CardinalityType
<1>8. Cardinality(A) < Cardinality(B)  BY <1>5, <1>6, <1>7
<1> QED  BY <1>7, <1>8 DEF A, B

LEMMA InOrderLists ==
    ASSUME NEW S, IsFiniteSet(S), NEW R, StrictOrder(R, S)
    PROVE  Lists(InOrder(S, R), Cardinality(S), S, R)
<1> PICK n : n = Cardinality(S)  OBVIOUS
<1>1. n \in Nat  BY FS_CardinalityType
<1> DEFINE rank == [x \in S |-> Cardinality(Below(x, S, R)) + 1]
<1>2. \A x \in S : rank[x] \in 1..n
  <2> TAKE x \in S
  <2>1. Below(x, S, R) \in SUBSET (S \ {x})
    BY DEF Below, StrictOrder
  <2>2. IsFiniteSet(S \ {x}) /\ Cardinality(S \ {x}) = n - 1
    BY FS_RemoveElement
  <2>3. /\ IsFiniteSet(Below(x, S, R))
        /\ Cardinality(Below(x, S, R)) <= n - 1
    BY <2>1, <2>2, FS_Subset
  <2>4. Cardinality(Below(x, S, R)) \in Nat
    BY <2>3, FS_CardinalityType
  <2> QED  BY <1>1, <2>3, <2>4
<1>3. \A x, y \in S : <<x, y>> \in R => rank[x] < rank[y]
  <2> TAKE x \in S, y \in S
  <2> HAVE <<x, y>> \in R
  <2>1. /\ Cardinality(Below(x, S, R)) \in Nat
        /\ Cardinality(Below(y, S, R)) \in Nat
        /\ Cardinality(Below(x, S, R)) < Cardinality(Below(y, S, R))
    BY MoreBelow
  <2> QED  BY <2>1
<1>4. rank \in [S -> 1..n]  BY <1>2
<1>5. \A k \in 1..n : \A x \in S :
         rank[x] = k <=> Cardinality({y \in S : <<y, x>> \in R}) = k - 1
  <2> TAKE k \in 1..n
  <2> TAKE x \in S
  <2>1. rank[x] = Cardinality(Below(x, S, R)) + 1  OBVIOUS
  <2>2. Cardinality(Below(x, S, R)) \in Nat
    <3>1. Below(x, S, R) \in SUBSET S  BY DEF Below
    <3> QED  BY <3>1, FS_Subset, FS_CardinalityType
  <2>3. Below(x, S, R) = {y \in S : <<y, x>> \in R}  BY DEF Below
  <2> QED  BY <1>1, <2>1, <2>2, <2>3
<1> HIDE DEF rank
<1>6. \A x, y \in S : rank[x] = rank[y] => x = y
  <2> TAKE x \in S, y \in S
  <2> HAVE rank[x] = rank[y]
  <2>1. ~ (rank[x] < rank[y]) /\ ~ (rank[y] < rank[x])
    BY <1>1, <1>2
  <2> QED  BY <1>3, <2>1 DEF StrictOrder
<1>7. rank \in Injection(S, 1..n)
  BY <1>4, <1>6 DEF Injection, IsInjective
<1>8. IsFiniteSet(1..n) /\ Cardinality(1..n) = n
  BY <1>1, FS_Interval
<1>9. rank \in Surjection(S, 1..n)
  BY <1>7, <1>8, FS_Injection
<1>10. \A k \in 1..n : \E x \in S : rank[x] = k
  BY <1>9 DEF Surjection
<1> PICK o : o = InOrder(S, R)  OBVIOUS
<1>11. /\ o = [k \in 1..n |-> o[k]]
       /\ \A k \in 1..n : o[k] =
             CHOOSE x \in S : Cardinality({y \in S : <<y, x>> \in R}) = k - 1
  <2> DEFINE c(k) == CHOOSE x \in S :
                        Cardinality({y \in S : <<y, x>> \in R}) = k - 1
  <2>1. o = [k \in 1..n |-> c(k)]  BY Zenon DEF InOrder
  <2> HIDE DEF c
  <2>2. o = [k \in 1..n |-> o[k]] /\ \A k \in 1..n : o[k] = c(k)
    BY <2>1
  <2> QED  BY <2>2, Zenon DEF c
<1>12. \A k \in 1..n : o[k] \in S /\ rank[o[k]] = k
  <2> TAKE k \in 1..n
  <2>1. \E x \in S : Cardinality({y \in S : <<y, x>> \in R}) = k - 1
    BY <1>5, <1>10
  <2>2. /\ o[k] \in S
        /\ Cardinality({y \in S : <<y, o[k]>> \in R}) = k - 1
    BY <1>11, <2>1
  <2> QED  BY <1>5, <2>2
<1>13. o \in [1..n -> S]  BY <1>11, <1>12
<1>14. \A x \in S : \E k \in 1..n : o[k] = x
  BY <1>2, <1>6, <1>12
<1>15. ASSUME NEW j \in 1..n, NEW k \in 1..n, j < k
       PROVE  <<o[j], o[k]>> \in R
  <2>1. o[j] \in S /\ o[k] \in S /\ rank[o[j]] = j /\ rank[o[k]] = k
    BY <1>12
  <2>2. o[j] # o[k]  BY <1>15, <2>1
  <2>3. ~ (rank[o[k]] < rank[o[j]])  BY <1>1, <1>15, <2>1
  <2>4. <<o[k], o[j]>> \notin R  BY <1>3, <2>1, <2>3
  <2> QED  BY <2>1, <2>2, <2>4 DEF StrictOrder
<1> QED  BY <1>1, <1>13, <1>14, <1>15 DEF Lists

\* A set of numbers, the least first.
LEMMA AscendingLists ==
    ASSUME NEW S, S \subseteq Int, IsFiniteSet(S)
    PROVE  /\ Cardinality(S) \in Nat
           /\ Ascending(S) \in [1..Cardinality(S) -> S]
           /\ \A x \in S : \E k \in 1..Cardinality(S) : Ascending(S)[k] = x
           /\ \A j, k \in 1..Cardinality(S) :
                 j < k => Ascending(S)[j] < Ascending(S)[k]
<1> DEFINE R == {p \in S \X S : p[1] < p[2]}
<1>1. \A x, y \in S : <<x, y>> \in R <=> x < y  OBVIOUS
<1>2. StrictOrder(R, S)
  <2> HIDE DEF R
  <2>1. \A x \in S : x \in Int  OBVIOUS
  <2> QED  BY <1>1, <2>1 DEF StrictOrder
<1> PICK o : o = Ascending(S)  OBVIOUS
<1> PICK n : n = Cardinality(S)  OBVIOUS
<1>3. Lists(o, n, S, R)
  <2>1. o = InOrder(S, R)  BY DEF Ascending
  <2> HIDE DEF R
  <2> QED  BY <1>2, <2>1, InOrderLists
<1> HIDE DEF R
<1>4. /\ n \in Nat /\ o \in [1..n -> S]
      /\ \A x \in S : \E k \in 1..n : o[k] = x
      /\ \A j, k \in 1..n : j < k => <<o[j], o[k]>> \in R
  BY <1>3 DEF Lists
<1>5. \A j, k \in 1..n : j < k => o[j] < o[k]
  <2> TAKE j \in 1..n, k \in 1..n
  <2> HAVE j < k
  <2>1. o[j] \in S /\ o[k] \in S /\ <<o[j], o[k]>> \in R  BY <1>4
  <2> QED  BY <1>1, <2>1
<1> QED  BY <1>4, <1>5

\* The elements at some positions, in their order.
IsPicked(t, s, P) ==
    \E n \in Nat : \E at \in [1..n -> P] :
       /\ t = [k \in 1..n |-> s[at[k]]]
       /\ \A i \in P : \E k \in 1..n : at[k] = i
       /\ \A j, k \in 1..n : j < k => at[j] < at[k]

LEMMA PickedIs ==
    ASSUME NEW s, NEW P, P \subseteq Int, IsFiniteSet(P)
    PROVE  IsPicked(Picked(s, P), s, P)
<1> PICK o : o = Ascending(P)  OBVIOUS
<1> PICK n : n = Cardinality(P)  OBVIOUS
<1>1. /\ n \in Nat /\ o \in [1..n -> P]
      /\ \A i \in P : \E k \in 1..n : o[k] = i
      /\ \A j, k \in 1..n : j < k => o[j] < o[k]
  BY AscendingLists
<1>2. DOMAIN o = 1..n  BY <1>1
<1>3. Picked(s, P) = [k \in 1..n |-> s[o[k]]]
  BY <1>2 DEF Picked, Through
<1> QED  BY <1>1, <1>3 DEF IsPicked

\* The elements of s, each once, with the keys in their order.
SortedAt(at, n, t, s, key) ==
    /\ DOMAIN s = 1..n
    /\ t = [k \in 1..n |-> s[at[k]]]
    /\ \A i \in 1..n : \E k \in 1..n : at[k] = i
    /\ \A j, k \in 1..n : j < k => at[j] # at[k] /\ key[at[j]] <= key[at[k]]

IsSortOf(t, s, key) ==
    \E n \in Nat : \E at \in [1..n -> 1..n] : SortedAt(at, n, t, s, key)

LEMMA SortedByIs ==
    ASSUME NEW T, NEW s \in Seq(T), NEW key \in [DOMAIN s -> Int]
    PROVE  IsSortOf(SortedBy(s, key), s, key)
<1> PICK n : n = Len(s)  OBVIOUS
<1>1. n \in Nat /\ DOMAIN s = 1..n /\ DOMAIN key = 1..n
      /\ \A i \in 1..n : key[i] \in Int
  OBVIOUS
<1> PICK R : R = Earlier(key)  OBVIOUS
<1>2. \A i, j \in 1..n :
         <<i, j>> \in R <=> \/ key[i] < key[j]
                            \/ key[i] = key[j] /\ i < j
  BY <1>1 DEF Earlier
<1>3. StrictOrder(R, 1..n)
  <2>1. \A i \in 1..n : <<i, i>> \notin R  BY <1>1, <1>2
  <2>2. \A i, j, k \in 1..n :
           <<i, j>> \in R /\ <<j, k>> \in R => <<i, k>> \in R
    BY <1>1, <1>2
  <2>3. \A i, j \in 1..n : i # j => <<i, j>> \in R \/ <<j, i>> \in R
    BY <1>1, <1>2
  <2> QED  BY <2>1, <2>2, <2>3 DEF StrictOrder
<1>4. IsFiniteSet(1..n) /\ Cardinality(1..n) = n
  <2>1. 1 \in Int /\ n \in Int  BY <1>1
  <2>2. /\ IsFiniteSet(1..n)
        /\ Cardinality(1..n) = IF 1 > n THEN 0 ELSE n - 1 + 1
    BY <2>1, FS_Interval, Zenon
  <2> QED  BY <1>1, <2>2
<1> PICK o : o = InOrder(1..n, R)  OBVIOUS
<1>5. Lists(o, n, 1..n, R)
  BY <1>3, <1>4, InOrderLists
<1>6. /\ o \in [1..n -> 1..n] /\ DOMAIN o = 1..n
      /\ \A i \in 1..n : \E k \in 1..n : o[k] = i
      /\ \A j, k \in 1..n : j < k => <<o[j], o[k]>> \in R
  BY <1>5 DEF Lists
<1>7. SortedBy(s, key) = [k \in 1..n |-> s[o[k]]]
  BY <1>1, <1>6 DEF SortedBy, Through
<1>8. \A j, k \in 1..n : j < k => o[j] # o[k] /\ key[o[j]] <= key[o[k]]
  <2> TAKE j \in 1..n, k \in 1..n
  <2> HAVE j < k
  <2>1. o[j] \in 1..n /\ o[k] \in 1..n /\ <<o[j], o[k]>> \in R
    BY <1>6
  <2>2. key[o[j]] \in Int /\ key[o[k]] \in Int  BY <1>1, <2>1
  <2>3. o[j] # o[k]  BY <1>3, <2>1 DEF StrictOrder
  <2> QED  BY <1>2, <2>1, <2>2, <2>3
<1> PICK t : t = SortedBy(s, key)  OBVIOUS
<1>9. SortedAt(o, n, t, s, key)
  BY <1>1, <1>6, <1>7, <1>8 DEF SortedAt
<1>10. n \in Nat /\ o \in [1..n -> 1..n]  BY <1>1, <1>6
<1>11. IsSortOf(t, s, key)  BY <1>9, <1>10, Zenon DEF IsSortOf
<1> QED  BY <1>11

\* A finite set of numbers that is not empty has a least and a greatest.
LEMMA LeastAndGreatest ==
    ASSUME NEW S, S \subseteq Nat, IsFiniteSet(S), S # {}
    PROVE  /\ Min(S) \in S /\ \A x \in S : Min(S) <= x
           /\ Max(S) \in S /\ \A x \in S : x <= Max(S)
<1>1. \E x \in S : \A y \in S : x <= y  BY LeastNumber
<1>2. Min(S) \in S /\ \A x \in S : Min(S) <= x  BY <1>1 DEF Min
<1> PICK n : n = Cardinality(S)  OBVIOUS
<1> PICK o : o = Ascending(S)  OBVIOUS
<1>3. /\ n \in Nat /\ o \in [1..n -> S]
      /\ \A x \in S : \E k \in 1..n : o[k] = x
      /\ \A j, k \in 1..n : j < k => o[j] < o[k]
  <2>1. S \subseteq Int  OBVIOUS
  <2> QED  BY <2>1, AscendingLists
<1>4. n \in 1..n
  <2>1. PICK x \in S : TRUE  OBVIOUS
  <2>2. PICK k \in 1..n : o[k] = x  BY <1>3
  <2> QED  BY <1>3
<1>5. \A x \in S : o[n] >= x
  <2> TAKE x \in S
  <2>1. PICK k \in 1..n : o[k] = x  BY <1>3
  <2>2. k = n \/ k < n  BY <1>3
  <2>3. o[n] \in S /\ o[n] \in Nat /\ x \in Nat  BY <1>3, <1>4
  <2> QED  BY <1>3, <1>4, <2>1, <2>2, <2>3
<1>6. o[n] \in S  BY <1>3, <1>4
<1>7. Max(S) \in S /\ \A x \in S : Max(S) >= x
  BY <1>5, <1>6 DEF Max
<1>8. \A x \in S : x \in Nat  OBVIOUS
<1>9. \A x \in S : x <= Max(S)  BY <1>7, <1>8
<1> QED  BY <1>2, <1>7, <1>9

\* The values of a finite sequence are finitely many.
LEMMA ValuesAreFinite ==
    ASSUME NEW n \in Nat, NEW f, DOMAIN f = 1..n
    PROVE  IsFiniteSet({f[k] : k \in 1..n})
<1> DEFINE T == {f[k] : k \in 1..n}
           g == [k \in 1..n |-> f[k]]
<1>1. g \in Surjection(1..n, T)  BY DEF Surjection
<1>2. IsFiniteSet(1..n)  BY FS_Interval
<1> HIDE DEF T, g
<1>3. IsFiniteSet(T)  BY <1>1, <1>2, FS_Surjection
<1> QED  BY <1>3 DEF T

-----------------------------------------------------------------------------
(* Chapters.                                                               *)

\* A chunk of the rows at the positions in P refers to them in their order,
\* and to nothing else, and spans them.
Spans(chunk, rows, P) ==
    /\ chunk.refs \in Seq(STRING)
    /\ \A j \in P : /\ chunk.start <= rows[j].start
                    /\ rows[j].end <= chunk.end
                    /\ \E a \in DOMAIN chunk.refs : chunk.refs[a] = rows[j].id
    /\ \A a \in DOMAIN chunk.refs : \E j \in P : chunk.refs[a] = rows[j].id
    /\ \A a, b \in DOMAIN chunk.refs :
          a < b => \E i, j \in P : /\ i < j
                                   /\ chunk.refs[a] = rows[i].id
                                   /\ chunk.refs[b] = rows[j].id

LEMMA ChunkSpans ==
    ASSUME NEW rows \in Seq(Segment), NEW P, P \subseteq DOMAIN rows, P # {},
           NEW segs, IsPicked(segs, rows, P),
           NEW number, NEW frame, NEW described
    PROVE  Spans(ChunkOf(number, segs, frame, described), rows, P)
<1> PICK chunk : chunk = ChunkOf(number, segs, frame, described)  OBVIOUS
<1>0. PICK n \in Nat : \E at \in [1..n -> P] :
         /\ segs = [k \in 1..n |-> rows[at[k]]]
         /\ \A i \in P : \E k \in 1..n : at[k] = i
         /\ \A j, k \in 1..n : j < k => at[j] < at[k]
  BY DEF IsPicked
<1>1. PICK at \in [1..n -> P] :
         /\ segs = [k \in 1..n |-> rows[at[k]]]
         /\ \A i \in P : \E k \in 1..n : at[k] = i
         /\ \A j, k \in 1..n : j < k => at[j] < at[k]
  BY <1>0
<1>2. /\ DOMAIN segs = 1..n
      /\ \A k \in 1..n : at[k] \in P /\ segs[k] = rows[at[k]]
      /\ \A j \in P : rows[j] \in Segment
  BY <1>1
<1>3. \A j \in P : rows[j].start \in Nat /\ rows[j].end \in Nat
  BY <1>2 DEF Segment
<1> DEFINE segments == {segs[i] : i \in DOMAIN segs}
           starts == {s.start : s \in segments}
           ends == {s.end : s \in segments}
<1>4. /\ chunk.start = Min(starts) /\ chunk.end = Max(ends)
      /\ chunk.refs = [i \in 1..n |-> segs[i].id]
  BY <1>2 DEF ChunkOf
<1>5. \A j \in P : rows[j].start \in starts /\ rows[j].end \in ends
  <2> TAKE j \in P
  <2>1. PICK k \in 1..n : at[k] = j  BY <1>1
  <2>2. segs[k] = rows[j] /\ k \in DOMAIN segs  BY <1>2, <2>1
  <2>3. rows[j] \in segments  BY <2>2
  <2> QED  BY <2>3
<1>6. \A k \in 1..n : segs[k].start \in Nat /\ segs[k].end \in Nat
  BY <1>2, <1>3
<1>7. /\ starts \subseteq Nat /\ starts # {} /\ IsFiniteSet(starts)
      /\ ends \subseteq Nat /\ ends # {} /\ IsFiniteSet(ends)
  <2> PICK f : f = [k \in 1..n |-> segs[k].start]  OBVIOUS
  <2> PICK g : g = [k \in 1..n |-> segs[k].end]  OBVIOUS
  <2>1. segments = {segs[k] : k \in 1..n}  BY <1>2
  <2>2. /\ starts = {segs[k].start : k \in 1..n}
        /\ ends = {segs[k].end : k \in 1..n}
    <3> HIDE DEF segments
    <3>1. \A s : s \in segments <=> \E k \in 1..n : s = segs[k]
      BY <2>1
    <3> QED  BY <3>1
  <2>3. starts = {f[k] : k \in 1..n} /\ ends = {g[k] : k \in 1..n}
    <3> HIDE DEF starts, ends
    <3> QED  BY <2>2
  <2>4. DOMAIN f = 1..n /\ DOMAIN g = 1..n  OBVIOUS
  <2> HIDE DEF starts, ends
  <2>5. IsFiniteSet(starts) /\ IsFiniteSet(ends)
    <3>1. IsFiniteSet({f[k] : k \in 1..n})
      BY <2>4, ValuesAreFinite, Zenon
    <3>2. IsFiniteSet({g[k] : k \in 1..n})
      BY <2>4, ValuesAreFinite, Zenon
    <3> QED  BY <2>3, <3>1, <3>2, Zenon
  <2>6. starts \subseteq Nat /\ ends \subseteq Nat
    BY <1>6, <2>2
  <2>7. starts # {} /\ ends # {}
    BY <1>5
  <2> QED  BY <2>5, <2>6, <2>7
<1> HIDE DEF segments, starts, ends
<1>8. \A j \in P : chunk.start <= rows[j].start /\ rows[j].end <= chunk.end
  <2>1. /\ \A x \in starts : Min(starts) <= x
        /\ \A x \in ends : x <= Max(ends)
    BY <1>7, LeastAndGreatest
  <2> QED  BY <1>4, <1>5, <2>1
<1>9. /\ DOMAIN chunk.refs = 1..n
      /\ \A k \in 1..n : chunk.refs[k] = rows[at[k]].id
  BY <1>2, <1>4
<1>10. \A j \in P : \E a \in 1..n : chunk.refs[a] = rows[j].id
  <2> TAKE j \in P
  <2>1. PICK k \in 1..n : at[k] = j  BY <1>1
  <2>2. chunk.refs[k] = rows[j].id  BY <1>9, <2>1
  <2> QED  BY <2>2
<1>11. \A a, b \in 1..n :
          a < b => \E i, j \in P : /\ i < j
                                   /\ chunk.refs[a] = rows[i].id
                                   /\ chunk.refs[b] = rows[j].id
  BY <1>1, <1>2, <1>9
<1>12. \A a \in 1..n : \E j \in P : chunk.refs[a] = rows[j].id
  BY <1>2, <1>9
<1>13. \A j \in P :
          /\ chunk.start <= rows[j].start
          /\ rows[j].end <= chunk.end
          /\ \E a \in DOMAIN chunk.refs : chunk.refs[a] = rows[j].id
  BY <1>8, <1>9, <1>10
<1>14. \A a \in DOMAIN chunk.refs : \E j \in P : chunk.refs[a] = rows[j].id
  BY <1>9, <1>12
<1>15. \A a, b \in DOMAIN chunk.refs :
          a < b => \E i, j \in P : /\ i < j
                                   /\ chunk.refs[a] = rows[i].id
                                   /\ chunk.refs[b] = rows[j].id
  <2> PICK D : D = DOMAIN chunk.refs  OBVIOUS
  <2>1. D = 1..n  BY <1>9
  <2>2. \A a, b \in D :
           a < b => \E i, j \in P : /\ i < j
                                    /\ chunk.refs[a] = rows[i].id
                                    /\ chunk.refs[b] = rows[j].id
    BY <1>11, <2>1, Zenon
  <2> QED  BY <2>2
<1>16. chunk.refs \in Seq(STRING)
  <2>1. \A k \in 1..n : segs[k].id \in STRING  BY <1>2 DEF Segment
  <2> QED  BY <1>4, <2>1
<1>17. Spans(chunk, rows, P)  BY <1>13, <1>14, <1>15, <1>16, Zenon DEF Spans
<1> QED  BY <1>17

\* Twice the distance of a keyframe from the midpoint of a segment.
DistanceTo(seg, times, k) == LET d == Midpoint(seg) - 2 * times[k]
                             IN  IF d >= 0 THEN d ELSE -d

IsNearest(seg, times, k) ==
    /\ \A j \in DOMAIN times :
          DistanceTo(seg, times, k) <= DistanceTo(seg, times, j)
    /\ \A j \in DOMAIN times :
          j > k => DistanceTo(seg, times, k) < DistanceTo(seg, times, j)

\* Numbers that have all the smaller ones with them are as many as the
\* greatest of them.
LEMMA FirstOnes ==
    ASSUME NEW m \in Nat, NEW S, S \subseteq 1..m,
           \A i \in S : \A j \in 1..m : j <= i => j \in S
    PROVE  Cardinality(S) \in 0..m /\ S = 1..Cardinality(S)
<1>1. IsFiniteSet(1..m) /\ \A i \in 1..m : i \in Nat
  BY FS_Interval
<1>2. IsFiniteSet(S)  BY <1>1, FS_Subset
<1>3. CASE S = {}
  <2>1. Cardinality({}) = 0  BY FS_EmptySet
  <2>2. 1..0 = {} /\ 0 \in 0..m  OBVIOUS
  <2> QED  BY <1>3, <2>1, <2>2
<1>4. CASE S # {}
  <2>1. S \subseteq Nat  BY <1>1
  <2> PICK c : c = Max(S)  OBVIOUS
  <2>2. c \in S /\ \A x \in S : x <= c
    BY <1>2, <1>4, <2>1, LeastAndGreatest
  <2>3. c \in 1..m /\ c \in Nat  BY <2>2
  <2>4. S = 1..c
    <3>1. \A x \in S : x \in 1..c  BY <2>2, <2>3
    <3>2. \A x \in 1..c : x \in 1..m /\ x <= c  BY <2>3
    <3> QED  BY <2>2, <3>1, <3>2
  <2>5. Cardinality(1..c) = c
    <3>1. 1 \in Int /\ c \in Int  BY <2>3
    <3>2. Cardinality(1..c) = IF 1 > c THEN 0 ELSE c - 1 + 1
      BY <3>1, FS_Interval, Zenon
    <3> QED  BY <2>3, <3>2
  <2>6. Cardinality(S) = c  BY <2>4, <2>5
  <2> QED  BY <2>3, <2>4, <2>6
<1> QED  BY <1>3, <1>4

Abs(d) == IF d >= 0 THEN d ELSE -d

LEMMA Nearer ==
    ASSUME NEW a \in Nat, NEW b \in Nat, NEW mid \in Nat
    PROVE  /\ a < b /\ mid < a + b => Abs(mid - 2 * a) < Abs(mid - 2 * b)
           /\ b < a /\ a + b <= mid => Abs(mid - 2 * a) <= Abs(mid - 2 * b)
BY DEF Abs

LEMMA SmallerSum ==
    ASSUME NEW a \in Nat, NEW b \in Nat, NEW c \in Nat, NEW d \in Nat,
           NEW mid \in Nat, c <= a, d <= b, a + b <= mid
    PROVE  c + d <= mid
OBVIOUS

\* bisect_right in the midpoints of the keyframes finds the nearest one, of
\* two as near the later.
LEMMA ChapterIsNearest ==
    ASSUME NEW times \in Seq(Nat), times # <<>>,
           \A i, j \in DOMAIN times : i < j => times[i] < times[j],
           NEW seg \in Segment
    PROVE  /\ Chapter(seg, times) \in DOMAIN times
           /\ IsNearest(seg, times, Chapter(seg, times))
<1> PICK m : m = Len(times)  OBVIOUS
<1>1. /\ m \in Nat \ {0} /\ DOMAIN times = 1..m
      /\ \A i \in 1..m : times[i] \in Nat
  OBVIOUS
<1>2. \A i, j \in 1..m : i < j => times[i] < times[j]
  BY <1>1
<1> PICK mid : mid = Midpoint(seg)  OBVIOUS
<1>3. mid \in Nat  BY DEF Midpoint, Segment
<1> DEFINE S == {i \in DOMAIN Boundaries(times) :
                    Boundaries(times)[i] <= Midpoint(seg)}
<1>4. /\ S \subseteq 1..(m - 1) /\ m - 1 \in Nat
      /\ \A i \in 1..(m - 1) : i \in S <=> times[i] + times[i + 1] <= mid
  BY <1>1 DEF Boundaries
<1>5. Chapter(seg, times) = 1 + Cardinality(S)  BY DEF Chapter
<1> HIDE DEF S
<1>6. \A i \in S : \A j \in 1..(m - 1) : j <= i => j \in S
  <2> TAKE i \in S
  <2> TAKE j \in 1..(m - 1)
  <2> HAVE j <= i
  <2>1. i \in 1..(m - 1) /\ times[i] + times[i + 1] <= mid  BY <1>4
  <2>2. /\ i \in 1..m /\ i + 1 \in 1..m /\ j \in 1..m /\ j + 1 \in 1..m
        /\ (j = i \/ (j < i /\ j + 1 < i + 1))
    BY <1>1, <2>1
  <2>3. times[j] <= times[i] /\ times[j + 1] <= times[i + 1]
    BY <1>1, <1>2, <2>2
  <2>4. times[j] + times[j + 1] <= mid
    <3>1. /\ times[i] \in Nat /\ times[i + 1] \in Nat
          /\ times[j] \in Nat /\ times[j + 1] \in Nat
      BY <1>1, <2>2
    <3> PICK a, b : a = times[i] /\ b = times[i + 1]  OBVIOUS
    <3> PICK a1, b1 : a1 = times[j] /\ b1 = times[j + 1]  OBVIOUS
    <3>2. /\ a \in Nat /\ b \in Nat /\ a1 \in Nat /\ b1 \in Nat
          /\ a1 <= a /\ b1 <= b /\ a + b <= mid
      BY <2>1, <2>3, <3>1
    <3>3. a1 + b1 <= mid
      BY ONLY <1>3, <3>2, SmallerSum
    <3> QED  BY <3>3
  <2> QED  BY <1>4, <2>4
<1> PICK c : c = Cardinality(S)  OBVIOUS
<1>7. c \in 0..(m - 1) /\ S = 1..c
  BY <1>4, <1>6, FirstOnes
<1> PICK k : k = c + 1  OBVIOUS
<1>8. k \in 1..m /\ Chapter(seg, times) = k
  BY <1>1, <1>5, <1>7
<1>9. \A j \in 1..m : j < k => j \in S /\ times[j] + times[j + 1] <= mid
  <2> TAKE j \in 1..m
  <2> HAVE j < k
  <2>1. j \in 1..c /\ j \in 1..(m - 1)  BY <1>1, <1>7
  <2> QED  BY <1>4, <1>7, <2>1
<1>10. k < m => mid < times[k] + times[k + 1]
  <2> HAVE k < m
  <2>1. k \in 1..(m - 1) /\ k \notin S
    <3>1. c \in Nat /\ k \in 1..m  BY <1>1, <1>7, <1>8
    <3>2. k \notin 1..c /\ k \in 1..(m - 1)  BY <1>1, <3>1
    <3> QED  BY <1>7, <3>2
  <2>2. k \in 1..m /\ k + 1 \in 1..m  BY <1>1, <2>1
  <2> QED  BY <1>1, <1>3, <1>4, <2>1, <2>2
<1>11. ASSUME NEW j \in 1..m, j > k
       PROVE  DistanceTo(seg, times, k) < DistanceTo(seg, times, j)
  <2>1. k < m /\ k + 1 \in 1..m /\ (j = k + 1 \/ k + 1 < j)
    BY <1>1, <1>8, <1>11
  <2>2. times[k + 1] <= times[j]  BY <1>1, <1>2, <2>1
  <2> PICK a : a = times[k]  OBVIOUS
  <2> PICK b : b = times[j]  OBVIOUS
  <2>3. a \in Nat /\ b \in Nat /\ a < b /\ mid < a + b
    BY <1>1, <1>2, <1>3, <1>8, <1>10, <1>11, <2>1, <2>2
  <2>4. Abs(mid - 2 * a) < Abs(mid - 2 * b)
    BY <1>3, <2>3, Nearer, Zenon
  <2> QED  BY <2>4 DEF DistanceTo, Abs
<1>12. ASSUME NEW j \in 1..m, j < k
       PROVE  DistanceTo(seg, times, k) <= DistanceTo(seg, times, j)
  <2>1. k - 1 \in 1..m /\ k - 1 < k /\ (j = k - 1 \/ j < k - 1)
    BY <1>1, <1>8, <1>12
  <2>2. times[j] <= times[k - 1]  BY <1>1, <1>2, <2>1
  <2>3. times[k - 1] + times[(k - 1) + 1] <= mid  BY <1>9, <2>1
  <2>4. (k - 1) + 1 = k  BY <1>1, <1>8
  <2> PICK a : a = times[k]  OBVIOUS
  <2> PICK b : b = times[j]  OBVIOUS
  <2>5. a \in Nat /\ b \in Nat /\ b < a /\ a + b <= mid
    <3>1. times[k - 1] \in Nat /\ a \in Nat /\ b \in Nat
      BY <1>1, <1>8, <2>1
    <3>2. times[k - 1] + a <= mid  BY <2>3, <2>4
    <3>3. b < a  BY <1>2, <1>8, <1>12
    <3> QED  BY <1>3, <2>2, <3>1, <3>2, <3>3
  <2>6. Abs(mid - 2 * a) <= Abs(mid - 2 * b)
    BY <1>3, <2>5, Nearer, Zenon
  <2> QED  BY <2>6 DEF DistanceTo, Abs
<1>13. DistanceTo(seg, times, k) \in Int
  BY <1>1, <1>3, <1>8 DEF DistanceTo
<1>14. \A j \in 1..m : DistanceTo(seg, times, j) \in Int
  BY <1>1, <1>3 DEF DistanceTo
<1>15. \A j \in 1..m :
          DistanceTo(seg, times, k) <= DistanceTo(seg, times, j)
  <2> TAKE j \in 1..m
  <2>1. j < k \/ j = k \/ j > k  BY <1>8
  <2> QED  BY <1>11, <1>12, <1>13, <1>14, <2>1
<1>16. IsNearest(seg, times, k)
  BY <1>1, <1>11, <1>15 DEF IsNearest
<1> QED  BY <1>1, <1>8, <1>16

\* Every row is in the part of one chunk; a chunk spans its part, and has the
\* keyframe that is nearest to the segments of it, if there is any.
Chaptered(chunks, rows, times, part) ==
    /\ \A c \in DOMAIN chunks : Spans(chunks[c], rows, part[c])
    /\ \A j \in DOMAIN rows : \E c \in DOMAIN chunks : j \in part[c]
    /\ \A c, d \in DOMAIN chunks : \A j \in DOMAIN rows :
          j \in part[c] /\ j \in part[d] => c = d
    /\ \A c \in DOMAIN chunks : \A j \in part[c] :
          /\ j \in DOMAIN rows
          /\ \A k \in chunks[c].frames : IsNearest(rows[j], times, k)
          /\ times # <<>> => chunks[c].frames # {}

LEMMA ChunksWithoutKeyframes ==
    ASSUME NEW rows \in Seq(Segment), NEW chunks,
           chunks = [i \in DOMAIN rows |-> ChunkOf(i, <<rows[i]>>, {}, {})]
    PROVE  Chaptered(chunks, rows, <<>>, [i \in DOMAIN rows |-> {i}])
<1> PICK part : part = [i \in DOMAIN rows |-> {i}]  OBVIOUS
<1>1. /\ DOMAIN chunks = DOMAIN rows /\ DOMAIN rows \subseteq Nat
      /\ \A i \in DOMAIN rows : /\ part[i] = {i}
                                /\ chunks[i] = ChunkOf(i, <<rows[i]>>, {}, {})
  OBVIOUS
<1>2. ASSUME NEW i \in DOMAIN rows
      PROVE  Spans(chunks[i], rows, part[i])
  <2> DEFINE at == [k \in 1..1 |-> i]
  <2> PICK P : P = {i}  OBVIOUS
  <2> PICK segs : segs = <<rows[i]>>  OBVIOUS
  <2>1. /\ at \in [1..1 -> P] /\ 1 \in Nat
        /\ segs = [k \in 1..1 |-> rows[at[k]]]
        /\ \A j \in P : \E k \in 1..1 : at[k] = j
        /\ \A j, k \in 1..1 : j < k => at[j] < at[k]
    OBVIOUS
  <2> HIDE DEF at
  <2>2. IsPicked(segs, rows, P)  BY <2>1 DEF IsPicked
  <2>3. P \subseteq DOMAIN rows /\ P # {}  OBVIOUS
  <2>4. Spans(ChunkOf(i, segs, {}, {}), rows, P)
    BY <2>2, <2>3, ChunkSpans
  <2> QED  BY <1>1, <2>4
<1>3. \A i \in DOMAIN chunks : chunks[i].frames = {}
  BY <1>1 DEF ChunkOf
<1>4. Chaptered(chunks, rows, <<>>, part)
  BY <1>1, <1>2, <1>3 DEF Chaptered
<1> QED  BY <1>4

\* used lists the numbers of U, the least first.
ListsUp(used, U) ==
    \E n \in Nat :
       /\ used \in [1..n -> U]
       /\ \A x \in U : \E k \in 1..n : used[k] = x
       /\ \A j, k \in 1..n : j < k => used[j] < used[k]

LEMMA AscendingListsUp ==
    ASSUME NEW U, U \subseteq Int, IsFiniteSet(U)
    PROVE  ListsUp(Ascending(U), U)
<1>1. Cardinality(U) \in Nat  BY FS_CardinalityType
<1> QED  BY <1>1, AscendingLists DEF ListsUp

LEMMA FramesOfChunk ==
    ASSUME NEW number, NEW segs, NEW frame, NEW described
    PROVE  ChunkOf(number, segs, frame, described).frames = frame
BY DEF ChunkOf

\* The rows of each chapter that is used.
PartsOf(rows, times, used) ==
    [i \in DOMAIN used |->
        {j \in DOMAIN rows : Chapter(rows[j], times) = used[i]}]

\* The chunks of the chapters that are used.
ChunksFor(rows, times, used, described) ==
    [i \in DOMAIN used |->
        ChunkOf(used[i], InChapter(used[i], rows, times), {used[i]}, described)]

LEMMA ChunksOfKeyframes ==
    ASSUME NEW rows \in Seq(Segment), NEW times \in Seq(Nat), times # <<>>,
           \A i, j \in DOMAIN times : i < j => times[i] < times[j],
           NEW described
    PROVE  Chaptered(ChunksFor(rows, times, UsedChapters(rows, times), described),
                     rows, times,
                     PartsOf(rows, times, UsedChapters(rows, times)))
<1> PICK used : used = UsedChapters(rows, times)  OBVIOUS
<1> PICK chunks : chunks = ChunksFor(rows, times, used, described)  OBVIOUS
<1>0. chunks = [i \in DOMAIN used |->
                   ChunkOf(used[i], InChapter(used[i], rows, times),
                           {used[i]}, described)]
  BY DEF ChunksFor
<1> DEFINE Of(k) == {j \in DOMAIN rows : Chapter(rows[j], times) = k}
<1> PICK part : part = [i \in DOMAIN used |-> Of(used[i])]  OBVIOUS
<1> PICK U : U = {k \in DOMAIN times :
                     \E i \in DOMAIN rows : Chapter(rows[i], times) = k}
  OBVIOUS
<1>1. U \subseteq Int /\ IsFiniteSet(U)
  <2> PICK m : m = Len(times)  OBVIOUS
  <2>1. m \in Nat /\ DOMAIN times = 1..m  OBVIOUS
  <2>2. U \subseteq 1..m  BY <2>1
  <2>3. IsFiniteSet(1..m) /\ 1..m \subseteq Int  BY <2>1, FS_Interval
  <2> QED  BY <2>2, <2>3, FS_Subset
<1>2. ListsUp(used, U)
  <2>1. used = Ascending(U)  BY DEF UsedChapters
  <2>2. ListsUp(Ascending(U), U)  BY <1>1, AscendingListsUp
  <2> QED  BY <2>1, <2>2
<1> PICK n \in Nat :
      /\ used \in [1..n -> U]
      /\ \A x \in U : \E k \in 1..n : used[k] = x
      /\ \A j, k \in 1..n : j < k => used[j] < used[k]
  BY <1>2 DEF ListsUp
<1>3. DOMAIN used = 1..n /\ DOMAIN chunks = 1..n
  BY <1>0
<1>4. \A i \in 1..n :
         /\ used[i] \in U /\ part[i] = Of(used[i])
         /\ chunks[i] = ChunkOf(used[i], InChapter(used[i], rows, times),
                                {used[i]}, described)
  BY <1>0, <1>3
<1>5. ASSUME NEW i \in 1..n
      PROVE  Spans(chunks[i], rows, part[i])
  <2> PICK P : P = Of(used[i])  OBVIOUS
  <2>1. P \subseteq DOMAIN rows /\ P # {}  BY <1>4
  <2>2. P \subseteq Int /\ IsFiniteSet(P)
    <3> PICK m : m = Len(rows)  OBVIOUS
    <3>1. m \in Nat /\ DOMAIN rows = 1..m  OBVIOUS
    <3>2. IsFiniteSet(1..m) /\ 1..m \subseteq Int  BY <3>1, FS_Interval
    <3> QED  BY <2>1, <3>1, <3>2, FS_Subset
  <2>3. InChapter(used[i], rows, times) = Picked(rows, P)
    BY DEF InChapter
  <2>4. IsPicked(Picked(rows, P), rows, P)
    BY <2>2, PickedIs
  <2> HIDE DEF Of
  <2>5. Spans(ChunkOf(used[i], Picked(rows, P), {used[i]}, described), rows, P)
    BY <2>1, <2>4, ChunkSpans
  <2> QED  BY <1>4, <2>3, <2>5
<1>6. \A i \in 1..n : chunks[i].frames = {used[i]}
  <2> TAKE i \in 1..n
  <2> PICK segs : segs = InChapter(used[i], rows, times)  OBVIOUS
  <2>1. chunks[i] = ChunkOf(used[i], segs, {used[i]}, described)  BY <1>4
  <2>2. ChunkOf(used[i], segs, {used[i]}, described).frames = {used[i]}
    BY FramesOfChunk
  <2> QED  BY <2>1, <2>2, Zenon
<1>7. \A j \in DOMAIN rows : /\ Chapter(rows[j], times) \in DOMAIN times
                             /\ IsNearest(rows[j], times,
                                          Chapter(rows[j], times))
  <2> TAKE j \in DOMAIN rows
  <2>1. rows[j] \in Segment  OBVIOUS
  <2> QED  BY <2>1, ChapterIsNearest
<1>8. \A j \in DOMAIN rows : \E i \in 1..n : j \in part[i]
  <2> TAKE j \in DOMAIN rows
  <2>1. Chapter(rows[j], times) \in U  BY <1>7
  <2>2. PICK i \in 1..n : used[i] = Chapter(rows[j], times)
    BY <2>1
  <2> QED  BY <1>4, <2>2
<1>9. ASSUME NEW c \in 1..n, NEW d \in 1..n, NEW j \in DOMAIN rows,
             j \in part[c], j \in part[d]
      PROVE  c = d
  <2>1. used[c] = used[d]  BY <1>4, <1>9
  <2>2. used[c] \in Int /\ ~ (used[c] < used[d]) /\ ~ (used[d] < used[c])
    <3> PICK u : u = used[c]  OBVIOUS
    <3> PICK v : v = used[d]  OBVIOUS
    <3>1. u \in U /\ u \in Int  BY <1>1, <1>4
    <3>2. u = v  BY <2>1
    <3>3. ~ (u < v) /\ ~ (v < u)  BY <3>1, <3>2
    <3> QED  BY <3>1, <3>3
  <2>3. c = d \/ c < d \/ d < c  OBVIOUS
  <2> QED  BY <2>2, <2>3
<1>10. ASSUME NEW c \in 1..n, NEW j \in part[c]
       PROVE  /\ j \in DOMAIN rows
              /\ \A k \in chunks[c].frames : IsNearest(rows[j], times, k)
              /\ chunks[c].frames # {}
  <2>1. j \in DOMAIN rows /\ Chapter(rows[j], times) = used[c]
    BY <1>4
  <2>2. IsNearest(rows[j], times, used[c])  BY <1>7, <2>1
  <2>3. chunks[c].frames = {used[c]}  BY <1>6
  <2> QED  BY <2>1, <2>2, <2>3
<1> HIDE DEF Of
<1>11. Chaptered(chunks, rows, times, part)
  <2> PICK D : D = DOMAIN chunks  OBVIOUS
  <2>1. D = 1..n  BY <1>3
  <2>2. /\ \A c \in D : Spans(chunks[c], rows, part[c])
        /\ \A j \in DOMAIN rows : \E c \in D : j \in part[c]
        /\ \A c, d \in D : \A j \in DOMAIN rows :
              j \in part[c] /\ j \in part[d] => c = d
    BY <1>5, <1>8, <1>9, <2>1, Zenon
  <2>3. \A c \in D : \A j \in part[c] :
           /\ j \in DOMAIN rows
           /\ \A k \in chunks[c].frames : IsNearest(rows[j], times, k)
           /\ times # <<>> => chunks[c].frames # {}
    BY <1>10, <2>1, Zenon
  <2> QED  BY <2>2, <2>3, Zenon DEF Chaptered
<1>12. part = PartsOf(rows, times, used)  BY DEF Of, PartsOf
<1> QED  BY <1>11, <1>12, Zenon


\* The chunks that refer to a segment.
Holding(chunks, id) == {c \in DOMAIN chunks : Contains(chunks[c].refs, id)}

LEMMA HoldingIsPart ==
    ASSUME NEW rows, \A i, j \in DOMAIN rows : rows[i].id = rows[j].id => i = j,
           NEW chunk, NEW P, P \subseteq DOMAIN rows, Spans(chunk, rows, P),
           NEW j \in DOMAIN rows
    PROVE  Contains(chunk.refs, rows[j].id) <=> j \in P
<1> PICK refs : refs = chunk.refs  OBVIOUS
<1>1. refs \in Seq(STRING)  BY DEF Spans
<1>2. DOMAIN refs = 1..Len(refs)  BY <1>1
<1>3. /\ \A a \in DOMAIN refs : \E i \in P : refs[a] = rows[i].id
      /\ \A i \in P : \E a \in DOMAIN refs : refs[a] = rows[i].id
  BY DEF Spans
<1>4. Contains(refs, rows[j].id) <=> \E a \in DOMAIN refs : refs[a] = rows[j].id
  BY <1>2 DEF Contains
<1>5. (\E a \in DOMAIN refs : refs[a] = rows[j].id) <=> j \in P
  BY <1>3
<1> QED  BY <1>4, <1>5

\* What the fusion promises of a segment, and of the order in a chunk.
HeldByOne(chunks, times, seg) ==
    \E c \in DOMAIN chunks :
       /\ Holding(chunks, seg.id) = {c}
       /\ chunks[c].start <= seg.start /\ seg.end <= chunks[c].end
       /\ \A k \in chunks[c].frames : IsNearest(seg, times, k)
       /\ times # <<>> => chunks[c].frames # {}

InOrderOfStart(refs, transcript) ==
    \A i, j \in DOMAIN transcript : \A a, b \in DOMAIN refs :
       /\ a < b
       /\ refs[a] = transcript[i].id
       /\ refs[b] = transcript[j].id
       => transcript[i].start <= transcript[j].start

LEMMA ChapteredHolds ==
    ASSUME NEW rows, \A i, j \in DOMAIN rows : rows[i].id = rows[j].id => i = j,
           NEW chunks, NEW times, NEW part, Chaptered(chunks, rows, times, part),
           NEW j \in DOMAIN rows
    PROVE  HeldByOne(chunks, times, rows[j])
<1>1. PICK c \in DOMAIN chunks : j \in part[c]  BY DEF Chaptered
<1>2. \A d \in DOMAIN chunks : Contains(chunks[d].refs, rows[j].id) <=> d = c
  <2> TAKE d \in DOMAIN chunks
  <2>1. Spans(chunks[d], rows, part[d])  BY DEF Chaptered
  <2>2. part[d] \subseteq DOMAIN rows  BY DEF Chaptered
  <2>3. Contains(chunks[d].refs, rows[j].id) <=> j \in part[d]
    BY <2>1, <2>2, HoldingIsPart
  <2>4. j \in part[d] <=> d = c  BY <1>1 DEF Chaptered
  <2> QED  BY <2>3, <2>4
<1>3. Holding(chunks, rows[j].id) = {c}  BY <1>2 DEF Holding
<1>4. Spans(chunks[c], rows, part[c])  BY DEF Chaptered
<1>5. chunks[c].start <= rows[j].start /\ rows[j].end <= chunks[c].end
  BY <1>1, <1>4 DEF Spans
<1>6. /\ \A k \in chunks[c].frames : IsNearest(rows[j], times, k)
      /\ times # <<>> => chunks[c].frames # {}
  BY <1>1 DEF Chaptered
<1> QED  BY <1>3, <1>5, <1>6, Zenon DEF HeldByOne

Increasing(times) == \A i, j \in DOMAIN times : i < j => times[i] < times[j]

Distinct(transcript) ==
    \A i, j \in DOMAIN transcript : transcript[i].id = transcript[j].id => i = j

LEMMA FusionIsChaptered ==
    ASSUME NEW transcript, NEW times \in Seq(Nat), Increasing(times),
           NEW described, ByStart(transcript) \in Seq(Segment)
    PROVE  \E part : Chaptered(BuildChunks(transcript, times, described),
                               ByStart(transcript), times, part)
<1> PICK rows : rows = ByStart(transcript)  OBVIOUS
<1> PICK chunks : chunks = BuildChunks(transcript, times, described)  OBVIOUS
<1>1. CASE times = <<>>
  <2>1. chunks = [i \in DOMAIN rows |-> ChunkOf(i, <<rows[i]>>, {}, {})]
    BY <1>1 DEF BuildChunks
  <2>2. rows \in Seq(Segment)  OBVIOUS
  <2>3. Chaptered(chunks, rows, <<>>, [i \in DOMAIN rows |-> {i}])
    BY <2>1, <2>2, ChunksWithoutKeyframes
  <2> QED  BY <1>1, <2>3
<1>2. CASE times # <<>>
  <2>1. chunks = ChunksFor(rows, times, UsedChapters(rows, times), described)
    BY <1>2 DEF BuildChunks, ChunksFor
  <2>2. rows \in Seq(Segment)  OBVIOUS
  <2>3. \A i, j \in DOMAIN times : i < j => times[i] < times[j]
    BY DEF Increasing
  <2>4. Chaptered(ChunksFor(rows, times, UsedChapters(rows, times), described),
                  rows, times, PartsOf(rows, times, UsedChapters(rows, times)))
    BY <1>2, <2>2, <2>3, ChunksOfKeyframes
  <2> QED  BY <2>1, <2>4
<1> QED  BY <1>1, <1>2

\* The rows are the segments, in the order of their start.
LEMMA RowsOf ==
    ASSUME NEW transcript \in Seq(Segment), Distinct(transcript),
           NEW rows, rows = ByStart(transcript)
    PROVE  /\ rows \in Seq(Segment) /\ Distinct(rows)
           /\ \A i \in DOMAIN transcript : \E k \in DOMAIN rows :
                 rows[k] = transcript[i]
           /\ \A j, k \in DOMAIN rows : j < k => rows[j].start <= rows[k].start
<1> PICK key : key = [i \in DOMAIN transcript |-> transcript[i].start]
  OBVIOUS
<1>1. \A i \in DOMAIN transcript : /\ transcript[i] \in Segment
                                   /\ transcript[i].start \in Nat
                                   /\ key[i] = transcript[i].start
  <2> TAKE i \in DOMAIN transcript
  <2>1. transcript[i] \in Segment  OBVIOUS
  <2>2. transcript[i].start \in Nat  BY <2>1 DEF Segment
  <2> QED  BY <2>1, <2>2
<1>2. key \in [DOMAIN transcript -> Int]
  <2> PICK D : D = DOMAIN transcript  OBVIOUS
  <2>1. key = [i \in D |-> transcript[i].start]
        /\ \A i \in D : transcript[i].start \in Int
    BY <1>1
  <2> QED  BY <2>1
<1>3. IsSortOf(rows, transcript, key)
  <2>1. rows = SortedBy(transcript, key)  BY DEF ByStart
  <2>2. IsSortOf(SortedBy(transcript, key), transcript, key)
    BY <1>2, SortedByIs
  <2> QED  BY <2>1, <2>2
<1>4. PICK n \in Nat : \E at \in [1..n -> 1..n] :
         SortedAt(at, n, rows, transcript, key)
  BY <1>3 DEF IsSortOf
<1>5. PICK at \in [1..n -> 1..n] : SortedAt(at, n, rows, transcript, key)
  BY <1>4
<1>6. /\ DOMAIN transcript = 1..n
      /\ rows = [k \in 1..n |-> transcript[at[k]]]
      /\ \A i \in 1..n : \E k \in 1..n : at[k] = i
      /\ \A j, k \in 1..n :
            j < k => at[j] # at[k] /\ key[at[j]] <= key[at[k]]
  BY <1>5 DEF SortedAt
<1>7. /\ DOMAIN rows = 1..n
      /\ \A k \in 1..n : /\ at[k] \in 1..n
                         /\ rows[k] = transcript[at[k]]
                         /\ rows[k] \in Segment
                         /\ rows[k].start = key[at[k]]
  BY <1>1, <1>6
<1>8. rows \in Seq(Segment)
  <2>1. \A k \in 1..n : transcript[at[k]] \in Segment  BY <1>7
  <2> QED  BY <1>6, <2>1
<1>9. ASSUME NEW j \in 1..n, NEW k \in 1..n, rows[j].id = rows[k].id
      PROVE  j = k
  <2>1. at[j] = at[k]
    <3>1. transcript[at[j]].id = transcript[at[k]].id  BY <1>7, <1>9
    <3>2. at[j] \in DOMAIN transcript /\ at[k] \in DOMAIN transcript
      BY <1>6, <1>7
    <3> QED  BY <3>1, <3>2 DEF Distinct
  <2>2. ~ (j < k) /\ ~ (k < j)  BY <1>6, <2>1
  <2> QED  BY <2>2
<1>10. \A j, k \in 1..n : j < k => rows[j].start <= rows[k].start
  BY <1>6, <1>7
<1>11. \A i \in 1..n : \E k \in 1..n : rows[k] = transcript[i]
  BY <1>6, <1>7
<1>12. Distinct(rows)  BY <1>7, <1>9 DEF Distinct
<1> QED  BY <1>6, <1>7, <1>8, <1>10, <1>11, <1>12

LEMMA FusionFollows ==
    ASSUME NEW transcript \in Seq(Segment), Distinct(transcript),
           NEW times \in Seq(Nat), Increasing(times), NEW described,
           NEW chunks, chunks = BuildChunks(transcript, times, described)
    PROVE  /\ \A i \in DOMAIN transcript :
                 HeldByOne(chunks, times, transcript[i])
           /\ \A c \in DOMAIN chunks :
                 InOrderOfStart(chunks[c].refs, transcript)
<1> PICK rows : rows = ByStart(transcript)  OBVIOUS
<1>1. /\ rows \in Seq(Segment) /\ Distinct(rows)
      /\ \A i \in DOMAIN transcript : \E k \in DOMAIN rows :
            rows[k] = transcript[i]
      /\ \A j, k \in DOMAIN rows : j < k => rows[j].start <= rows[k].start
  BY RowsOf
<1>2. \E part : Chaptered(chunks, rows, times, part)
  BY <1>1, FusionIsChaptered
<1> PICK part : Chaptered(chunks, rows, times, part)  BY <1>2
<1>3. \A i, j \in DOMAIN rows : rows[i].id = rows[j].id => i = j
  BY <1>1 DEF Distinct
<1>4. ASSUME NEW i \in DOMAIN transcript
      PROVE  HeldByOne(chunks, times, transcript[i])
  <2>1. PICK k \in DOMAIN rows : rows[k] = transcript[i]  BY <1>1
  <2>2. HeldByOne(chunks, times, rows[k])  BY <1>3, ChapteredHolds
  <2> QED  BY <2>1, <2>2
<1>5. ASSUME NEW c \in DOMAIN chunks
      PROVE  InOrderOfStart(chunks[c].refs, transcript)
  <2> PICK refs : refs = chunks[c].refs  OBVIOUS
  <2> PICK P : P = part[c]  OBVIOUS
  <2>1. /\ P \subseteq DOMAIN rows
        /\ \A a, b \in DOMAIN refs :
              a < b => \E i, j \in P : /\ i < j
                                       /\ refs[a] = rows[i].id
                                       /\ refs[b] = rows[j].id
    BY <1>5 DEF Chaptered, Spans
  <2>2. ASSUME NEW i \in DOMAIN transcript, NEW j \in DOMAIN transcript,
               NEW a \in DOMAIN refs, NEW b \in DOMAIN refs, a < b,
               refs[a] = transcript[i].id, refs[b] = transcript[j].id
        PROVE  transcript[i].start <= transcript[j].start
    <3>1. PICK x \in P, y \in P : /\ x < y
                                  /\ refs[a] = rows[x].id
                                  /\ refs[b] = rows[y].id
      BY <2>1, <2>2
    <3>2. PICK v \in DOMAIN rows : rows[v] = transcript[i]  BY <1>1
    <3>3. PICK w \in DOMAIN rows : rows[w] = transcript[j]  BY <1>1
    <3>4. x = v /\ y = w
      <4>1. rows[x].id = rows[v].id /\ rows[y].id = rows[w].id
        BY <2>2, <3>1, <3>2, <3>3, Zenon
      <4>2. x \in DOMAIN rows /\ y \in DOMAIN rows  BY <2>1, <3>1
      <4> QED  BY <1>3, <4>1, <4>2, Zenon
    <3>5. rows[x].start <= rows[y].start  BY <1>1, <2>1, <3>1
    <3> QED  BY <3>2, <3>3, <3>4, <3>5
  <2>3. InOrderOfStart(refs, transcript)
    BY <2>2 DEF InOrderOfStart
  <2> QED  BY <2>3
<1> QED  BY <1>4, <1>5

-----------------------------------------------------------------------------
(* Candidates for keyframes.                                               *)

KeyframeReasons == {"stable", "sample"}
Candidate == [frame: FrameFeature, reason: KeyframeReasons, stability: Int]

\* The values of one feature of some frames.
LEMMA ValuesOf ==
    ASSUME NEW n \in Nat \ {0}, NEW f \in [1..n -> Nat]
    PROVE  /\ {f[i] : i \in 1..n} \subseteq Nat
           /\ {f[i] : i \in 1..n} # {}
           /\ IsFiniteSet({f[i] : i \in 1..n})
<1>1. {f[i] : i \in 1..n} \subseteq Nat  OBVIOUS
<1>2. 1 \in 1..n  OBVIOUS
<1>3. DOMAIN f = 1..n /\ n \in Nat  OBVIOUS
<1>4. IsFiniteSet({f[i] : i \in 1..n})  BY <1>3, ValuesAreFinite
<1> QED  BY <1>1, <1>2, <1>4

LEMMA NormalizedIsNumber ==
    ASSUME NEW values, values \subseteq Nat, values # {}, IsFiniteSet(values),
           NEW v \in Nat
    PROVE  Normalize(v, values) \in Int
<1> PICK lo : lo = Min(values)  OBVIOUS
<1> PICK hi : hi = Max(values)  OBVIOUS
<1>1. lo \in Nat /\ hi \in Nat  BY LeastAndGreatest
<1>2. Normalize(v, values) = IF hi <= lo THEN One
                             ELSE ((v - lo) * One) \div (hi - lo)
  BY DEF Normalize
<1>3. CASE hi <= lo  BY <1>2, <1>3 DEF One
<1>4. CASE ~ (hi <= lo)
  <2> PICK a : a = (v - lo) * One  OBVIOUS
  <2> PICK d : d = hi - lo  OBVIOUS
  <2>1. a \in Int /\ d \in Nat \ {0}  BY <1>1, <1>4 DEF One
  <2>2. a \div d \in Int  BY <2>1
  <2> QED  BY <1>2, <1>4, <2>2
<1> QED  BY <1>3, <1>4

\* A field of frames is a set that can be normalised.
LEMMA FieldsAreNumbers ==
    ASSUME NEW n \in Nat \ {0}, NEW s \in [1..n -> FrameFeature], NEW v \in Nat
    PROVE  /\ Normalize(v, Field(s, Diff)) \in Int
           /\ Normalize(v, Field(s, Sharp)) \in Int
           /\ Normalize(v, Field(s, Text)) \in Int
<1>1. /\ DOMAIN s = 1..n
      /\ \A i \in 1..n : /\ s[i].diff \in Nat /\ s[i].sharp \in Nat
                         /\ s[i].text \in Nat
  <2>1. \A i \in 1..n : s[i] \in FrameFeature  OBVIOUS
  <2> QED  BY <2>1 DEF FrameFeature
<1> PICK d : d = [i \in 1..n |-> s[i].diff]  OBVIOUS
<1> PICK h : h = [i \in 1..n |-> s[i].sharp]  OBVIOUS
<1> PICK t : t = [i \in 1..n |-> s[i].text]  OBVIOUS
<1>2. /\ d \in [1..n -> Nat] /\ h \in [1..n -> Nat] /\ t \in [1..n -> Nat]
  BY <1>1
<1>3. /\ Field(s, Diff) = {d[i] : i \in 1..n}
      /\ Field(s, Sharp) = {h[i] : i \in 1..n}
      /\ Field(s, Text) = {t[i] : i \in 1..n}
  BY <1>1 DEF Field, Diff, Sharp, Text
<1>4. Normalize(v, {d[i] : i \in 1..n}) \in Int
  BY <1>2, ValuesOf, NormalizedIsNumber
<1>5. Normalize(v, {h[i] : i \in 1..n}) \in Int
  BY <1>2, ValuesOf, NormalizedIsNumber
<1>6. Normalize(v, {t[i] : i \in 1..n}) \in Int
  BY <1>2, ValuesOf, NormalizedIsNumber
<1> QED  BY <1>3, <1>4, <1>5, <1>6

\* Where a key is greatest.
Tops(n, f) == {i \in 1..n : \A j \in 1..n : f[j] <= f[i]}

LEMMA FirstTop ==
    ASSUME NEW n \in Nat \ {0}, NEW f \in [1..n -> Int]
    PROVE  Min(Tops(n, f)) \in 1..n
<1> DEFINE R == {p \in (1..n) \X (1..n) : \/ f[p[1]] < f[p[2]]
                                          \/ f[p[1]] = f[p[2]] /\ p[1] < p[2]}
<1>1. \A i, j \in 1..n :
         <<i, j>> \in R <=> f[i] < f[j] \/ (f[i] = f[j] /\ i < j)
  OBVIOUS
<1>2. \A i \in 1..n : f[i] \in Int /\ i \in Nat  OBVIOUS
<1> HIDE DEF R
<1>3. StrictOrder(R, 1..n)
  <2>1. \A i \in 1..n : <<i, i>> \notin R  BY <1>1, <1>2
  <2>2. \A i, j, k \in 1..n :
           <<i, j>> \in R /\ <<j, k>> \in R => <<i, k>> \in R
    BY <1>1, <1>2
  <2>3. \A i, j \in 1..n : i # j => <<i, j>> \in R \/ <<j, i>> \in R
    BY <1>1, <1>2
  <2> QED  BY <2>1, <2>2, <2>3 DEF StrictOrder
<1>4. IsFiniteSet(1..n) /\ Cardinality(1..n) = n
  <2>1. 1 \in Int /\ n \in Int  OBVIOUS
  <2>2. /\ IsFiniteSet(1..n)
        /\ Cardinality(1..n) = IF 1 > n THEN 0 ELSE n - 1 + 1
    BY <2>1, FS_Interval, Zenon
  <2> QED  BY <2>2
<1> PICK o : o = InOrder(1..n, R)  OBVIOUS
<1>5. Lists(o, n, 1..n, R)  BY <1>3, <1>4, InOrderLists
<1>6. /\ o \in [1..n -> 1..n]
      /\ \A i \in 1..n : \E k \in 1..n : o[k] = i
      /\ \A j, k \in 1..n : j < k => <<o[j], o[k]>> \in R
  BY <1>5 DEF Lists
<1>7. o[n] \in Tops(n, f)
  <2>1. n \in 1..n /\ o[n] \in 1..n  BY <1>6
  <2>2. ASSUME NEW i \in 1..n PROVE f[i] <= f[o[n]]
    <3>1. PICK k \in 1..n : o[k] = i  BY <1>6
    <3>2. k = n \/ k < n  OBVIOUS
    <3>3. k < n => <<i, o[n]>> \in R  BY <1>6, <2>1, <3>1
    <3> QED  BY <1>1, <1>2, <2>1, <3>1, <3>2, <3>3
  <2> QED  BY <2>1, <2>2 DEF Tops
<1>8. Tops(n, f) \subseteq 1..n  BY DEF Tops
<1>9. Tops(n, f) \subseteq Nat /\ Tops(n, f) # {} /\ IsFiniteSet(Tops(n, f))
  BY <1>4, <1>7, <1>8, FS_Subset
<1> QED  BY <1>8, <1>9, LeastAndGreatest

\* Candidates that stand for one of the frames.
CandidatesOf(frames) ==
    {c \in Candidate : \E i \in DOMAIN frames : c.frame = frames[i]}

LEMMA CandidateFor ==
    ASSUME NEW frames, NEW f \in FrameFeature, NEW v \in Int,
           NEW reason \in KeyframeReasons, \E i \in DOMAIN frames : f = frames[i]
    PROVE  [frame |-> f, reason |-> reason, stability |-> v]
              \in CandidatesOf(frames)
BY DEF CandidatesOf, Candidate

LEMMA RepresentativeIsOne ==
    ASSUME NEW n \in Nat \ {0}, NEW s \in [1..n -> FrameFeature], Len(s) = n
    PROVE  Representative(s) \in 1..n
<1> PICK f : f = [i \in 1..n |-> s[i].sharp]  OBVIOUS
<1>1. \A i \in 1..n : s[i].sharp \in Nat
  <2>1. \A i \in 1..n : s[i] \in FrameFeature  OBVIOUS
  <2> QED  BY <2>1 DEF FrameFeature
<1>2. f \in [1..n -> Int] /\ \A i \in 1..n : f[i] = s[i].sharp
  BY <1>1
<1>3. FirstMax(s, Sharp) = Min(Tops(n, f))
  <2>1. DOMAIN s = 1..n  OBVIOUS
  <2>2. {i \in DOMAIN s : \A j \in DOMAIN s : Sharp(s[j]) <= Sharp(s[i])}
           = Tops(n, f)
    BY <1>2, <2>1 DEF Tops, Sharp
  <2> QED  BY <2>2 DEF FirstMax
<1>4. FirstMax(s, Sharp) \in 1..n  BY <1>2, <1>3, FirstTop
<1>5. (n + 1) \div 2 \in 1..n  OBVIOUS
<1> QED  BY <1>4, <1>5 DEF Representative

LEMMA StableCandidateIs ==
    ASSUME NEW n \in Nat \ {0}, NEW s \in [1..n -> FrameFeature], Len(s) = n,
           NEW frames, \A k \in 1..n : \E i \in DOMAIN frames : s[k] = frames[i]
    PROVE  StableCandidate(s) \in CandidatesOf(frames)
<1> PICK chosen : chosen = s[Representative(s)]  OBVIOUS
<1> PICK w : w = Normalize(chosen.diff, Field(s, Diff))  OBVIOUS
<1>1. Representative(s) \in 1..n  BY RepresentativeIsOne
<1>2. chosen \in FrameFeature /\ \E i \in DOMAIN frames : chosen = frames[i]
  BY <1>1
<1>3. chosen.diff \in Nat  BY <1>2 DEF FrameFeature
<1>4. w \in Int  BY <1>3, FieldsAreNumbers
<1>5. One - w \in Int  BY <1>4 DEF One
<1>6. StableCandidate(s) = [frame |-> chosen, reason |-> "stable",
                            stability |-> One - w]
  BY DEF StableCandidate
<1>7. StableCandidate(s) \in CandidatesOf(frames)
  <2>1. "stable" \in KeyframeReasons  BY DEF KeyframeReasons
  <2>2. [frame |-> chosen, reason |-> "stable", stability |-> One - w]
           \in CandidatesOf(frames)
    BY <1>2, <1>5, <2>1, CandidateFor, Zenon
  <2> QED  BY <1>6, <2>2, Zenon
<1> QED  BY <1>7

\* Runs of positions that go on as long as they can.
AreRuns(runs, stable, m) ==
    \A x \in runs : /\ x = <<x[1], x[2]>>
                    /\ x[1] \in 1..m /\ x[2] \in 1..m /\ x[1] <= x[2]
                    /\ x[1]..x[2] \subseteq stable
                    /\ x[2] + 1 \notin stable

LEMMA RunsAreOrdered ==
    ASSUME NEW m \in Nat, NEW stable, NEW runs, AreRuns(runs, stable, m)
    PROVE  StrictOrder({p \in runs \X runs : p[1][1] < p[2][1]}, runs)
<1> PICK R : R = {p \in runs \X runs : p[1][1] < p[2][1]}  OBVIOUS
<1>1. \A x, y \in runs : <<x, y>> \in R <=> x[1] < y[1]  OBVIOUS
<1>2. \A x \in runs : /\ x[1] \in Int /\ x[2] \in Int /\ x[1] <= x[2]
                      /\ x = <<x[1], x[2]>>
  BY DEF AreRuns
<1>3. \A x \in runs : <<x, x>> \notin R  BY <1>1, <1>2
<1>4. \A x, y, z \in runs : <<x, y>> \in R /\ <<y, z>> \in R => <<x, z>> \in R
  <2> TAKE x \in runs, y \in runs, z \in runs
  <2> PICK a : a = x[1]  OBVIOUS
  <2> PICK b : b = y[1]  OBVIOUS
  <2> PICK c : c = z[1]  OBVIOUS
  <2>1. /\ a \in Int /\ b \in Int /\ c \in Int
        /\ <<x, y>> \in R <=> a < b
        /\ <<y, z>> \in R <=> b < c
        /\ <<x, z>> \in R <=> a < c
    BY <1>1, <1>2
  <2> QED  BY <2>1
<1>5. ASSUME NEW x \in runs, NEW y \in runs, x[1] = y[1]
      PROVE  ~ (x[2] < y[2])
  <2> SUFFICES ASSUME x[2] < y[2] PROVE FALSE
    OBVIOUS
  <2>1. x[2] + 1 \in y[1]..y[2]  BY <1>2, <1>5
  <2> QED  BY <2>1 DEF AreRuns
<1>6. \A x, y \in runs : x # y => <<x, y>> \in R \/ <<y, x>> \in R
  <2> TAKE x \in runs, y \in runs
  <2>1. CASE x[1] < y[1]  BY <1>1, <2>1
  <2>2. CASE y[1] < x[1]  BY <1>1, <2>2
  <2>3. CASE x[1] = y[1]
    <3>1. ~ (x[2] < y[2]) /\ ~ (y[2] < x[2])  BY <1>5, <2>3
    <3>2. x[2] = y[2]  BY <1>2, <3>1
    <3>3. x = <<x[1], x[2]>> /\ y = <<y[1], y[2]>>  BY <1>2
    <3> QED  BY <2>3, <3>2, <3>3, Zenon
  <2>4. x[1] < y[1] \/ y[1] < x[1] \/ x[1] = y[1]  BY <1>2
  <2> QED  BY <2>1, <2>2, <2>3, <2>4
<1>7. StrictOrder(R, runs)  BY <1>3, <1>4, <1>6, Zenon DEF StrictOrder
<1> QED  BY <1>7

\* A part of the frames.
LEMMA PartOfFrames ==
    ASSUME NEW frames \in Seq(FrameFeature),
           NEW a \in DOMAIN frames, NEW b \in DOMAIN frames, a <= b
    PROVE  \E n \in Nat \ {0} :
              /\ SubSeq(frames, a, b) \in [1..n -> FrameFeature]
              /\ Len(SubSeq(frames, a, b)) = n
              /\ \A k \in 1..n : \E i \in DOMAIN frames :
                    SubSeq(frames, a, b)[k] = frames[i]
<1> PICK m : m = Len(frames)  OBVIOUS
<1>1. /\ m \in Nat /\ DOMAIN frames = 1..m /\ a \in 1..m /\ b \in 1..m
      /\ \A i \in 1..m : frames[i] \in FrameFeature
  OBVIOUS
<1> PICK s : s = SubSeq(frames, a, b)  OBVIOUS
<1> PICK n : n = b - a + 1  OBVIOUS
<1>2. /\ a \in Int /\ b \in Int /\ n \in Nat \ {0} /\ 1..(b - a + 1) = 1..n
      /\ \A i \in a..b : i \in 1..m
      /\ \A k \in 1..n : a + k - 1 \in 1..m
  BY <1>1
<1>3. \A i \in a..b : frames[i] \in FrameFeature  BY <1>1, <1>2
<1>4. /\ s \in Seq(FrameFeature)
      /\ Len(s) = IF a <= b THEN b - a + 1 ELSE 0
      /\ \A i \in 1..(b - a + 1) : s[i] = frames[a + i - 1]
  <2>1. /\ SubSeq(frames, a, b) \in Seq(FrameFeature)
        /\ Len(SubSeq(frames, a, b)) = IF a <= b THEN b - a + 1 ELSE 0
        /\ \A i \in 1..(b - a + 1) :
              SubSeq(frames, a, b)[i] = frames[a + i - 1]
    BY <1>2, <1>3, SubSeqProperties
  <2> QED  BY <2>1, Zenon
<1>5. Len(s) = n  BY <1>4, Zenon
<1>6. s \in [1..n -> FrameFeature]
  <2>1. s \in [1..Len(s) -> FrameFeature]  BY <1>4, LenProperties, Zenon
  <2> QED  BY <1>5, <2>1, Zenon
<1>7. \A k \in 1..n : \E i \in DOMAIN frames : s[k] = frames[i]
  BY <1>1, <1>2, <1>4
<1> QED  BY <1>2, <1>5, <1>6, <1>7

LEMMA StableCandidatesAre ==
    ASSUME NEW frames \in Seq(FrameFeature)
    PROVE  StableCandidates(frames) \in Seq(CandidatesOf(frames))
<1> PICK m : m = Len(frames)  OBVIOUS
<1>1. m \in Nat /\ DOMAIN frames = 1..m  OBVIOUS
<1> DEFINE stable == {i \in 1..m : IsStable([j \in 1..m |-> frames[j].diff], i)}
           runs == {seg \in stable \X stable :
                       /\ seg[1]..seg[2] \subseteq stable
                       /\ seg[1] - 1 \notin stable
                       /\ seg[2] + 1 \notin stable
                       /\ seg[2] - seg[1] + 1 >= MinStableLen}
           R == {p \in runs \X runs : p[1][1] < p[2][1]}
<1>2. StableSegments(frames) = InOrder(runs, R)
  <2>1. StableSegments(frames) = RunsInOrder(LongRuns(stable))
    BY Zenon DEF StableSegments
  <2> HIDE DEF stable
  <2>2. LongRuns(stable) = runs  BY Zenon DEF LongRuns
  <2> HIDE DEF runs
  <2>3. RunsInOrder(runs) = InOrder(runs, R)  BY Zenon DEF RunsInOrder
  <2> QED  BY <2>1, <2>2, <2>3, Zenon
<1>3. stable \subseteq 1..m  OBVIOUS
<1> HIDE DEF stable
<1>4. IsFiniteSet(runs)
  <2>1. IsFiniteSet(1..m)  BY <1>1, FS_Interval
  <2>2. IsFiniteSet(stable)  BY <1>3, <2>1, FS_Subset
  <2>3. IsFiniteSet(stable \X stable)  BY <2>2, FS_Product
  <2>4. runs \subseteq stable \X stable  OBVIOUS
  <2> QED  BY <2>3, <2>4, FS_Subset
<1>5. ASSUME NEW x \in runs
      PROVE  /\ x = <<x[1], x[2]>>
             /\ x[1] \in 1..m /\ x[2] \in 1..m /\ x[1] <= x[2]
             /\ x[1]..x[2] \subseteq stable
             /\ x[2] + 1 \notin stable
  <2>1. /\ x \in stable \X stable
        /\ x[1]..x[2] \subseteq stable
        /\ x[2] + 1 \notin stable
        /\ x[2] - x[1] + 1 >= MinStableLen
    OBVIOUS
  <2> HIDE DEF runs
  <2>2. x[1] \in stable /\ x[2] \in stable /\ x = <<x[1], x[2]>>
    BY <2>1
  <2>3. x[1] \in 1..m /\ x[2] \in 1..m
    BY <1>3, <2>2
  <2>4. x[1] <= x[2]
    BY <2>1, <2>3, SelectionAssumption DEF SelectionAssumption
  <2> QED  BY <2>1, <2>2, <2>3, <2>4
<1> HIDE DEF runs
<1>6. AreRuns(runs, stable, m)  BY <1>5 DEF AreRuns
<1>7. StrictOrder(R, runs)  BY <1>1, <1>6, RunsAreOrdered
<1> HIDE DEF R
<1> PICK segs : segs = StableSegments(frames)  OBVIOUS
<1> PICK n : n = Cardinality(runs)  OBVIOUS
<1>8. Lists(segs, n, runs, R)
  <2>1. Lists(InOrder(runs, R), Cardinality(runs), runs, R)
    BY <1>4, <1>7, InOrderLists
  <2> QED  BY <1>2, <2>1, Zenon
<1>9. n \in Nat /\ segs \in [1..n -> runs]  BY <1>8 DEF Lists
<1>10. \A k \in 1..n :
          StableCandidate(SubSeq(frames, segs[k][1], segs[k][2]))
             \in CandidatesOf(frames)
  <2> TAKE k \in 1..n
  <2> PICK x : x = segs[k]  OBVIOUS
  <2>1. x[1] \in DOMAIN frames /\ x[2] \in DOMAIN frames /\ x[1] <= x[2]
    BY <1>1, <1>5, <1>9
  <2>2. PICK l \in Nat \ {0} :
           /\ SubSeq(frames, x[1], x[2]) \in [1..l -> FrameFeature]
           /\ Len(SubSeq(frames, x[1], x[2])) = l
           /\ \A j \in 1..l : \E i \in DOMAIN frames :
                 SubSeq(frames, x[1], x[2])[j] = frames[i]
    BY <2>1, PartOfFrames, Zenon
  <2>3. StableCandidate(SubSeq(frames, x[1], x[2])) \in CandidatesOf(frames)
    BY <2>2, StableCandidateIs, Zenon
  <2> QED  BY <2>3, Zenon
<1>11. StableCandidates(frames)
          = [k \in 1..n |->
               StableCandidate(SubSeq(frames, segs[k][1], segs[k][2]))]
  <2>1. DOMAIN segs = 1..n  BY <1>9
  <2> QED  BY <2>1, Zenon DEF StableCandidates
<1> QED  BY <1>9, <1>10, <1>11

LEMMA RankIsNumber ==
    ASSUME NEW n \in Nat \ {0}, NEW s \in [1..n -> FrameFeature],
           NEW f \in FrameFeature
    PROVE  FallbackRank(f, s) \in Int
<1> PICK d : d = Normalize(f.diff, Field(s, Diff))  OBVIOUS
<1> PICK h : h = Normalize(f.sharp, Field(s, Sharp))  OBVIOUS
<1>1. f.diff \in Nat /\ f.sharp \in Nat  BY DEF FrameFeature
<1>2. d \in Int /\ h \in Int  BY <1>1, FieldsAreNumbers
<1> PICK calm : calm = IF Max(Field(s, Diff)) = Min(Field(s, Diff))
                       THEN One ELSE One - d
  OBVIOUS
<1>3. calm \in Int
  <2>1. One \in Int /\ One - d \in Int  BY <1>2 DEF One
  <2> QED  BY <2>1, Zenon
<1>4. FallbackRank(f, s) = 65 * calm + 35 * h
  BY Zenon DEF FallbackRank
<1>5. 65 * calm + 35 * h \in Int  BY <1>2, <1>3
<1> QED  BY <1>4, <1>5, Zenon

\* The frames of a bucket, if there are any.
LEMMA BucketOfFrames ==
    ASSUME NEW frames \in Seq(FrameFeature), NEW b, InBucket(frames, b) # <<>>
    PROVE  \E n \in Nat \ {0} :
              /\ InBucket(frames, b) \in [1..n -> FrameFeature]
              /\ \A k \in 1..n : \E i \in DOMAIN frames :
                    InBucket(frames, b)[k] = frames[i]
<1> PICK m : m = Len(frames)  OBVIOUS
<1>1. /\ m \in Nat /\ DOMAIN frames = 1..m
      /\ \A i \in 1..m : frames[i] \in FrameFeature
  OBVIOUS
<1> PICK P : P = {i \in DOMAIN frames : Bucket(frames[i].ts) = b}  OBVIOUS
<1>2. P \subseteq 1..m  BY <1>1
<1>3. P \subseteq Int /\ IsFiniteSet(P)
  <2>1. IsFiniteSet(1..m) /\ 1..m \subseteq Int  BY <1>1, FS_Interval
  <2> QED  BY <1>2, <2>1, FS_Subset
<1> PICK s : s = InBucket(frames, b)  OBVIOUS
<1>4. IsPicked(s, frames, P)
  <2>1. s = Picked(frames, P)  BY DEF InBucket
  <2> QED  BY <1>3, <2>1, PickedIs, Zenon
<1>5. PICK n \in Nat : \E at \in [1..n -> P] :
         s = [k \in 1..n |-> frames[at[k]]]
  BY <1>4 DEF IsPicked
<1>6. PICK at \in [1..n -> P] : s = [k \in 1..n |-> frames[at[k]]]
  BY <1>5
<1>7. n # 0
  <2> SUFFICES ASSUME n = 0 PROVE FALSE
    OBVIOUS
  <2>1. 1..n = {}  OBVIOUS
  <2>2. s = <<>>  BY <1>6, <2>1
  <2> QED  BY <2>2
<1>8. \A k \in 1..n : at[k] \in 1..m  BY <1>2, <1>6
<1>9. /\ s \in [1..n -> FrameFeature]
      /\ \A k \in 1..n : \E i \in DOMAIN frames : s[k] = frames[i]
  BY <1>1, <1>6, <1>8
<1> QED  BY <1>7, <1>9

LEMMA SampleCandidateIs ==
    ASSUME NEW frames \in Seq(FrameFeature), NEW b, InBucket(frames, b) # <<>>
    PROVE  SampleCandidate(frames, b) \in CandidatesOf(frames)
<1> PICK s : s = InBucket(frames, b)  OBVIOUS
<1>1. PICK n \in Nat \ {0} :
         /\ s \in [1..n -> FrameFeature]
         /\ \A k \in 1..n : \E i \in DOMAIN frames : s[k] = frames[i]
  BY BucketOfFrames
<1> DEFINE Rank(f) == FallbackRank(f, s)
<1> PICK rank : rank = [i \in 1..n |-> FallbackRank(s[i], s)]  OBVIOUS
<1>2. rank \in [1..n -> Int]
  <2>1. \A i \in 1..n : FallbackRank(s[i], s) \in Int
    <3> TAKE i \in 1..n
    <3>1. s[i] \in FrameFeature  BY <1>1
    <3> QED  BY <1>1, <3>1, RankIsNumber
  <2> QED  BY <2>1
<1>3. {i \in DOMAIN s : \A j \in DOMAIN s : Rank(s[j]) <= Rank(s[i])}
         = Tops(n, rank)
  <2>1. DOMAIN s = 1..n  BY <1>1
  <2>2. \A i \in 1..n : rank[i] = Rank(s[i])  OBVIOUS
  <2> HIDE DEF Rank
  <2> QED  BY <2>1, <2>2 DEF Tops
<1> PICK top : top = Min(Tops(n, rank))  OBVIOUS
<1>4. top \in 1..n  BY <1>1, <1>2, FirstTop
<1>5. SampleCandidate(frames, b)
         = [frame |-> s[top], reason |-> "sample", stability |-> One \div 2]
  BY <1>3, Zenon DEF SampleCandidate, FirstMax
<1>6. "sample" \in KeyframeReasons  BY DEF KeyframeReasons
<1>7. One \div 2 \in Int  BY DEF One
<1>8. s[top] \in FrameFeature /\ \E i \in DOMAIN frames : s[top] = frames[i]
  BY <1>1, <1>4
<1>9. [frame |-> s[top], reason |-> "sample", stability |-> One \div 2]
         \in CandidatesOf(frames)
  BY <1>6, <1>7, <1>8, CandidateFor, Zenon
<1> QED  BY <1>5, <1>9, Zenon

LEMMA BucketsGrow ==
    ASSUME NEW t \in Nat, NEW u \in Nat, t <= u
    PROVE  Bucket(t) \in Nat /\ Bucket(u) \in Nat /\ Bucket(t) <= Bucket(u)
<1> PICK G \in Nat \ {0} : G = BucketGap
  BY SelectionAssumption DEF SelectionAssumption
<1>1. t \div G \in Nat /\ G * (t \div G) <= t /\ t < G * (t \div G) + G
  BY DivMod
<1>2. u \div G \in Nat /\ G * (u \div G) <= u /\ u < G * (u \div G) + G
  BY DivMod
<1>3. t \div G <= u \div G
  <2> PICK p \in Nat : p = t \div G  BY <1>1
  <2> PICK q \in Nat : q = u \div G  BY <1>2
  <2> SUFFICES ASSUME q < p PROVE FALSE
    OBVIOUS
  <2>1. G * p <= t /\ u < G * q + G  BY <1>1, <1>2, Zenon
  <2>2. G * (q + 1) = G * q + G  OBVIOUS
  <2>3. G * (q + 1) <= G * p
    <3> PICK e \in Nat : p = q + 1 + e
      <4>1. p - (q + 1) \in Nat /\ p = q + 1 + (p - (q + 1))  OBVIOUS
      <4> QED  BY <4>1
    <3>1. G * p = G * (q + 1) + G * e  OBVIOUS
    <3>2. G * e \in Nat /\ G * (q + 1) \in Nat  OBVIOUS
    <3> QED  BY <3>1, <3>2
  <2> QED  BY <2>1, <2>2, <2>3
<1> QED  BY <1>1, <1>2, <1>3 DEF Bucket

\* Every frame is in a bucket that the loops over the buckets reach.
LEMMA TimesAreReached ==
    ASSUME NEW frames \in Seq(FrameFeature), frames # <<>>
    PROVE  /\ Bucket(Duration(frames)) \in Nat
           /\ \A i \in DOMAIN frames :
                 Bucket(frames[i].ts) \in 0..Bucket(Duration(frames))
<1> PICK n : n = Len(frames)  OBVIOUS
<1>1. n \in Nat \ {0} /\ DOMAIN frames = 1..n  OBVIOUS
<1>2. \A i \in 1..n : frames[i].ts \in Nat
  <2>1. \A i \in 1..n : frames[i] \in FrameFeature  BY <1>1
  <2> QED  BY <2>1 DEF FrameFeature
<1> PICK f : f = [i \in 1..n |-> frames[i].ts]  OBVIOUS
<1>3. f \in [1..n -> Nat] /\ \A i \in 1..n : f[i] = frames[i].ts  BY <1>2
<1> PICK T : T = {f[i] : i \in 1..n}  OBVIOUS
<1>4. Duration(frames) = Max(T)
  <2>1. {frames[i].ts : i \in DOMAIN frames} = T  BY <1>1, <1>3
  <2> QED  BY <2>1, Zenon DEF Duration
<1>5. T \subseteq Nat /\ T # {} /\ IsFiniteSet(T)  BY <1>1, <1>3, ValuesOf
<1>6. Max(T) \in Nat /\ \A x \in T : x <= Max(T)
  BY <1>5, LeastAndGreatest
<1> PICK d \in Nat : d = Max(T)  BY <1>6
<1>7. ASSUME NEW i \in 1..n
      PROVE  Bucket(frames[i].ts) \in 0..Bucket(d)
  <2>1. frames[i].ts \in Nat /\ frames[i].ts <= d  BY <1>2, <1>3, <1>6
  <2>2. /\ Bucket(frames[i].ts) \in Nat /\ Bucket(d) \in Nat
        /\ Bucket(frames[i].ts) <= Bucket(d)
    BY <2>1, BucketsGrow
  <2> QED  BY <2>2
<1>8. Bucket(d) \in Nat  BY BucketsGrow
<1> QED  BY <1>1, <1>4, <1>7, <1>8

LEMMA SampleCandidatesAre ==
    ASSUME NEW frames \in Seq(FrameFeature), frames # <<>>
    PROVE  /\ SampleCandidates(frames) \in Seq(CandidatesOf(frames))
           /\ SampledBuckets(frames) # {} => SampleCandidates(frames) # <<>>
<1> PICK B : B = SampledBuckets(frames)  OBVIOUS
<1> PICK last \in Nat : last = Bucket(Duration(frames))  BY TimesAreReached
<1>1. /\ B \subseteq 0..last
      /\ \A b \in B : InBucket(frames, b) # <<>>
  BY DEF SampledBuckets
<1>2. B \subseteq Int /\ IsFiniteSet(B)
  <2>1. IsFiniteSet(0..last) /\ 0..last \subseteq Int  BY FS_Interval
  <2> QED  BY <1>1, <2>1, FS_Subset
<1>3. ListsUp(Ascending(B), B)  BY <1>2, AscendingListsUp
<1> PICK o : o = Ascending(B)  OBVIOUS
<1>4. PICK n \in Nat : /\ o \in [1..n -> B]
                       /\ \A x \in B : \E k \in 1..n : o[k] = x
  BY <1>3 DEF ListsUp
<1>5. \A k \in 1..n : SampleCandidate(frames, o[k]) \in CandidatesOf(frames)
  <2> TAKE k \in 1..n
  <2>1. InBucket(frames, o[k]) # <<>>  BY <1>1, <1>4
  <2> QED  BY <2>1, SampleCandidateIs
<1>6. SampleCandidates(frames) = [k \in 1..n |-> SampleCandidate(frames, o[k])]
  <2>1. DOMAIN o = 1..n  BY <1>4
  <2> QED  BY <2>1, Zenon DEF SampleCandidates
<1>7. SampleCandidates(frames) \in Seq(CandidatesOf(frames))
  BY <1>5, <1>6
<1>8. B # {} => SampleCandidates(frames) # <<>>
  <2> HAVE B # {}
  <2>1. PICK k \in 1..n : TRUE  BY <1>4
  <2>2. k \in DOMAIN SampleCandidates(frames)  BY <1>6, <2>1
  <2> QED  BY <2>2
<1> QED  BY <1>7, <1>8

\* A sort has the same elements.
SameElements(t, s) ==
    /\ \A k \in DOMAIN t : \E i \in DOMAIN s : t[k] = s[i]
    /\ \A i \in DOMAIN s : \E k \in DOMAIN t : t[k] = s[i]

LEMMA SortKeepsElements ==
    ASSUME NEW T, NEW s \in Seq(T), NEW key \in [DOMAIN s -> Int]
    PROVE  /\ SortedBy(s, key) \in Seq(T)
           /\ SameElements(SortedBy(s, key), s)
<1> PICK t : t = SortedBy(s, key)  OBVIOUS
<1>1. IsSortOf(t, s, key)  BY SortedByIs
<1>2. PICK n \in Nat : \E at \in [1..n -> 1..n] : SortedAt(at, n, t, s, key)
  BY <1>1 DEF IsSortOf
<1>3. PICK at \in [1..n -> 1..n] : SortedAt(at, n, t, s, key)
  BY <1>2
<1>4. /\ DOMAIN s = 1..n
      /\ t = [k \in 1..n |-> s[at[k]]]
      /\ \A i \in 1..n : \E k \in 1..n : at[k] = i
  BY <1>3 DEF SortedAt
<1>5. \A k \in 1..n : at[k] \in 1..n /\ s[at[k]] \in T  BY <1>4
<1>6. t \in Seq(T)  BY <1>4, <1>5
<1>7. DOMAIN t = 1..n /\ \A k \in 1..n : t[k] = s[at[k]]  BY <1>4
<1>8. SameElements(t, s)
  <2>1. \A k \in 1..n : \E i \in 1..n : t[k] = s[i]  BY <1>5, <1>7
  <2>2. \A i \in 1..n : \E k \in 1..n : t[k] = s[i]
    <3> TAKE i \in 1..n
    <3>1. PICK k \in 1..n : at[k] = i  BY <1>4
    <3>2. t[k] = s[i]  BY <1>7, <3>1
    <3> QED  BY <3>2
  <2> QED  BY <1>4, <1>7, <2>1, <2>2, Zenon DEF SameElements
<1> QED  BY <1>6, <1>8

LEMMA SameAreNotEmpty ==
    ASSUME NEW T, NEW s \in Seq(T), s # <<>>, NEW t, SameElements(t, s)
    PROVE  t # <<>>
<1>1. 1 \in DOMAIN s  OBVIOUS
<1>2. PICK k \in DOMAIN t : t[k] = s[1]  BY <1>1, Zenon DEF SameElements
<1> QED  BY <1>2

LEMMA ConcatenationIs ==
    ASSUME NEW T, NEW s \in Seq(T), NEW t \in Seq(T)
    PROVE  /\ s \o t \in Seq(T)
           /\ s # <<>> \/ t # <<>> => s \o t # <<>>
OBVIOUS

LEMMA StableOrSampled ==
    ASSUME NEW frames \in Seq(FrameFeature), frames # <<>>
    PROVE  StableCandidates(frames) # <<>> \/ SampledBuckets(frames) # {}
<1> SUFFICES ASSUME StableCandidates(frames) = <<>>
             PROVE  SampledBuckets(frames) # {}
  OBVIOUS
<1>1. 1 \in DOMAIN frames  OBVIOUS
<1> PICK b : b = Bucket(frames[1].ts)  OBVIOUS
<1>2. b \in 0..Bucket(Duration(frames))  BY <1>1, TimesAreReached
<1>3. InBucket(frames, b) # <<>>
  <2> PICK m : m = Len(frames)  OBVIOUS
  <2>1. m \in Nat /\ DOMAIN frames = 1..m  OBVIOUS
  <2> PICK P : P = {i \in DOMAIN frames : Bucket(frames[i].ts) = b}  OBVIOUS
  <2>2. 1 \in P /\ P \subseteq 1..m  BY <1>1, <2>1
  <2>3. P \subseteq Int /\ IsFiniteSet(P)
    <3>1. IsFiniteSet(1..m) /\ 1..m \subseteq Int  BY <2>1, FS_Interval
    <3> QED  BY <2>2, <3>1, FS_Subset
  <2>4. IsPicked(Picked(frames, P), frames, P)  BY <2>3, PickedIs
  <2>5. PICK n \in Nat : \E at \in [1..n -> P] :
           /\ Picked(frames, P) = [k \in 1..n |-> frames[at[k]]]
           /\ \A i \in P : \E k \in 1..n : at[k] = i
    BY <2>4 DEF IsPicked
  <2>6. PICK k \in 1..n : TRUE  BY <2>2, <2>5
  <2>7. k \in DOMAIN Picked(frames, P)  BY <2>5, <2>6
  <2>8. Picked(frames, P) # <<>>  BY <2>7
  <2> QED  BY <2>8 DEF InBucket
<1>4. DOMAIN StableCandidates(frames) = {}  OBVIOUS
<1>5. b \in SampledBuckets(frames)
  BY <1>2, <1>3, <1>4, Zenon DEF SampledBuckets
<1> QED  BY <1>5

LEMMA CandidatesAre ==
    ASSUME NEW frames \in Seq(FrameFeature), frames # <<>>
    PROVE  /\ Candidates(frames) \in Seq(CandidatesOf(frames))
           /\ Candidates(frames) # <<>>
<1> PICK T : T = CandidatesOf(frames)  OBVIOUS
<1> PICK s : s = StableCandidates(frames)  OBVIOUS
<1> PICK t : t = SampleCandidates(frames)  OBVIOUS
<1> PICK all : all = s \o t  OBVIOUS
<1>1. s \in Seq(T) /\ t \in Seq(T) /\ (s # <<>> \/ t # <<>>)
  BY StableCandidatesAre, SampleCandidatesAre, StableOrSampled
<1>2. all \in Seq(T) /\ all # <<>>  BY <1>1, ConcatenationIs
<1> PICK n : n = Len(all)  OBVIOUS
<1>3. n \in Nat \ {0} /\ DOMAIN all = 1..n /\ \A i \in 1..n : all[i] \in T
  BY <1>2
<1> PICK key : key = [i \in DOMAIN all |-> all[i].frame.ts]  OBVIOUS
<1>4. key \in [DOMAIN all -> Int]
  <2>1. \A c \in T : c.frame.ts \in Int
    BY DEF CandidatesOf, Candidate, FrameFeature
  <2>2. \A i \in 1..n : all[i].frame.ts \in Int  BY <1>3, <2>1
  <2> QED  BY <1>3, <2>2
<1>5. SortedBy(all, key) \in Seq(T) /\ SameElements(SortedBy(all, key), all)
  BY <1>2, <1>4, SortKeepsElements
<1>6. Candidates(frames) = SortedBy(all, key)
  BY Zenon DEF Candidates, ByTime
<1>7. SortedBy(all, key) # <<>>
  BY <1>2, <1>5, SameAreNotEmpty
<1> QED  BY <1>5, <1>6, <1>7

-----------------------------------------------------------------------------
(* Selection.                                                              *)

LEMMA ScoreIsNumber ==
    ASSUME NEW candidates \in Seq(Candidate), candidates # <<>>,
           NEW c \in Candidate
    PROVE  Score(c, candidates) \in Int
<1> PICK n : n = Len(candidates)  OBVIOUS
<1>1. /\ n \in Nat \ {0} /\ DOMAIN candidates = 1..n
      /\ \A i \in 1..n : candidates[i] \in Candidate
  OBVIOUS
<1> PICK s : s = [i \in DOMAIN candidates |-> candidates[i].frame]  OBVIOUS
<1>2. s \in [1..n -> FrameFeature]
  <2>1. \A i \in 1..n : candidates[i].frame \in FrameFeature
    BY <1>1 DEF Candidate
  <2> QED  BY <1>1, <2>1
<1>3. /\ c.stability \in Int
      /\ c.frame.sharp \in Nat /\ c.frame.text \in Nat
  BY DEF Candidate, FrameFeature
<1> PICK h : h = Normalize(c.frame.sharp, Field(s, Sharp))  OBVIOUS
<1> PICK t : t = Normalize(c.frame.text, Field(s, Text))  OBVIOUS
<1>4. h \in Int /\ t \in Int  BY <1>1, <1>2, <1>3, FieldsAreNumbers
<1>5. Score(c, candidates) = 45 * c.stability + 30 * h + 25 * t
  BY Zenon DEF Score
<1>6. 45 * c.stability + 30 * h + 25 * t \in Int  BY <1>3, <1>4
<1> QED  BY <1>5, <1>6

\* Two hashes differ in some of their bits, whichever is named first.
LEMMA DistanceIs ==
    ASSUME NEW c \in Candidate, NEW d \in Candidate
    PROVE  /\ Distance(c, d) \in 0..HashBits
           /\ Distance(c, d) = Distance(d, c)
<1> PICK a : a = c.frame.hash  OBVIOUS
<1> PICK b : b = d.frame.hash  OBVIOUS
<1>1. a \subseteq 1..HashBits /\ b \subseteq 1..HashBits
  BY DEF Candidate, FrameFeature
<1> PICK N \in Nat : N = HashBits
  BY SelectionAssumption DEF SelectionAssumption
<1> PICK S : S = SymDiff(a, b)  OBVIOUS
<1>2. S = SymDiff(b, a) /\ S \subseteq 1..N
  BY <1>1 DEF SymDiff
<1>3. IsFiniteSet(1..N) /\ Cardinality(1..N) = N
  <2>1. 1 \in Int /\ N \in Int  OBVIOUS
  <2>2. /\ IsFiniteSet(1..N)
        /\ Cardinality(1..N) = IF 1 > N THEN 0 ELSE N - 1 + 1
    BY <2>1, FS_Interval, Zenon
  <2> QED  BY <2>2
<1>4. IsFiniteSet(S) /\ Cardinality(S) <= Cardinality(1..N)
  BY <1>2, <1>3, FS_Subset
<1>5. Cardinality(S) \in Nat  BY <1>4, FS_CardinalityType
<1>6. Distance(c, d) = Cardinality(S) /\ Distance(d, c) = Cardinality(S)
  BY <1>2 DEF Distance, HammingDistance
<1> QED  BY <1>3, <1>4, <1>5, <1>6

LEMMA ConflictsAreMutual ==
    ASSUME NEW c \in Candidate, NEW d \in Candidate
    PROVE  /\ Conflicts(c, d) <=> Conflicts(d, c)
           /\ Gap(c, d) \in Nat
           /\ ~Conflicts(c, d) <=> /\ Gap(c, d) >= MinGap
                                   /\ Distance(c, d) >= MinHashDist
<1>1. c.frame.ts \in Nat /\ d.frame.ts \in Nat
  BY DEF Candidate, FrameFeature
<1>2. Gap(c, d) \in Nat /\ Gap(c, d) = Gap(d, c)
  BY <1>1 DEF Gap
<1>3. Distance(c, d) \in 0..HashBits /\ Distance(c, d) = Distance(d, c)
  BY DistanceIs
<1>4. MinGap \in Nat /\ MinHashDist \in Nat /\ HashBits \in Nat
  BY SelectionAssumption DEF SelectionAssumption
<1>5. Distance(c, d) \in Nat  BY <1>3, <1>4
<1> QED  BY <1>2, <1>3, <1>4, <1>5 DEF Conflicts

\* The more are selected, the less is new.
LEMMA NoveltyFalls ==
    ASSUME NEW c \in Candidate, NEW S, NEW T,
           S \subseteq T, T \subseteq Candidate
    PROVE  /\ Novelty(c, S) \in Int /\ Novelty(c, T) \in Int
           /\ Novelty(c, T) <= Novelty(c, S)
<1> PICK N \in Nat \ {0} : N = HashBits
  BY SelectionAssumption DEF SelectionAssumption
<1> DEFINE Far(X) == {Distance(c, d) : d \in X}
<1>1. \A d \in T : Distance(c, d) \in 0..N
  <2> TAKE d \in T
  <2>1. d \in Candidate  OBVIOUS
  <2> QED  BY <2>1, DistanceIs
<1>2. ASSUME NEW X, X \subseteq T, X # {}
      PROVE  /\ Min(Far(X)) \in Far(X) /\ Min(Far(X)) \in 0..N
             /\ \A x \in Far(X) : Min(Far(X)) <= x
  <2>1. Far(X) \subseteq 0..N /\ Far(X) # {}  BY <1>1, <1>2
  <2>2. IsFiniteSet(0..N) /\ 0..N \subseteq Nat  BY FS_Interval
  <2>3. IsFiniteSet(Far(X)) /\ Far(X) \subseteq Nat  BY <2>1, <2>2, FS_Subset
  <2> HIDE DEF Far
  <2> QED  BY <2>1, <2>3, LeastAndGreatest
<1>3. ASSUME NEW x \in 0..N
      PROVE  (One * x) \div N \in Nat /\ (One * x) \div N <= One
  <2> PICK q : q = (One * x) \div N  OBVIOUS
  <2>1. One * x \in Nat /\ One * x <= One * N  BY DEF One
  <2>2. q \in Nat /\ N * q <= One * x  BY <2>1, DivMod
  <2>3. N * q <= 60 * N  BY <2>1, <2>2 DEF One
  <2>4. q <= 60
    <3> SUFFICES ASSUME q > 60 PROVE FALSE
      BY <2>2
    <3> PICK e \in Nat : q = 61 + e
      <4>1. q - 61 \in Nat /\ q = 61 + (q - 61)  BY <2>2
      <4> QED  BY <4>1
    <3>1. N * q = 61 * N + N * e /\ N * e \in Nat  OBVIOUS
    <3> QED  BY <2>3, <3>1
  <2> QED  BY <2>2, <2>4 DEF One
<1>4. ASSUME NEW x \in 0..N, NEW y \in 0..N, x <= y
      PROVE  (One * x) \div N <= (One * y) \div N
  <2> PICK p : p = (One * x) \div N  OBVIOUS
  <2> PICK q : q = (One * y) \div N  OBVIOUS
  <2>1. One * x \in Nat /\ One * y \in Nat /\ One * x <= One * y
    BY <1>4 DEF One
  <2>2. p \in Nat /\ N * p <= One * x  BY <2>1, DivMod
  <2>3. q \in Nat /\ One * y < N * q + N  BY <2>1, DivMod
  <2>4. N * p < N * q + N
    <3>1. N * p \in Nat /\ N * q \in Nat  BY <2>2, <2>3
    <3> QED  BY <2>1, <2>2, <2>3, <3>1
  <2>5. p <= q
    <3> SUFFICES ASSUME q < p PROVE FALSE
      BY <2>2, <2>3
    <3> PICK e \in Nat : p = q + 1 + e
      <4>1. p - (q + 1) \in Nat /\ p = q + 1 + (p - (q + 1))  BY <2>2, <2>3
      <4> QED  BY <4>1
    <3>1. q \in Nat  BY <2>3
    <3>2. N * p = N * q + N + N * e /\ N * e \in Nat /\ N * q \in Nat
      BY <3>1
    <3> QED  BY <2>4, <3>2
  <2> QED  BY <2>5
<1>5. One \in Int  BY DEF One
<1>6. \A X : Novelty(c, X) = IF X = {} THEN One
                             ELSE (One * Min(Far(X))) \div N
  BY DEF Novelty
<1> HIDE DEF Far
<1>7. \A X : X \subseteq T => Novelty(c, X) \in Int /\ Novelty(c, X) <= One
  <2> SUFFICES ASSUME NEW X, X \subseteq T
               PROVE  Novelty(c, X) \in Int /\ Novelty(c, X) <= One
    OBVIOUS
  <2>1. CASE X = {}  BY <1>5, <1>6, <2>1
  <2>2. CASE X # {}
    <3>1. Min(Far(X)) \in 0..N  BY <1>2, <2>2
    <3> PICK v : v = (One * Min(Far(X))) \div N  OBVIOUS
    <3>2. v \in Nat /\ v <= One  BY <1>3, <3>1
    <3>3. Novelty(c, X) = v  BY <1>6, <2>2
    <3> QED  BY <3>2, <3>3
  <2> QED  BY <2>1, <2>2
<1>8. Novelty(c, T) <= Novelty(c, S)
  <2>1. CASE S = {}  BY <1>6, <1>7, <2>1
  <2>2. CASE S # {}
    <3>1. T # {}  BY <2>2
    <3>2. /\ Min(Far(S)) \in Far(S) /\ Min(Far(S)) \in 0..N
          /\ Min(Far(T)) \in 0..N
          /\ \A x \in Far(T) : Min(Far(T)) <= x
      BY <1>2, <2>2, <3>1
    <3>3. Far(S) \subseteq Far(T)  BY DEF Far
    <3>4. Min(Far(T)) <= Min(Far(S))  BY <3>2, <3>3
    <3>5. (One * Min(Far(T))) \div N <= (One * Min(Far(S))) \div N
      BY <1>4, <3>2, <3>4
    <3> QED  BY <1>6, <2>2, <3>1, <3>5, Zenon
  <2> QED  BY <2>1, <2>2
<1> QED  BY <1>7, <1>8

LEMMA WorthFalls ==
    ASSUME NEW candidates \in Seq(Candidate), candidates # <<>>,
           NEW c \in Candidate, NEW S, NEW T,
           S \subseteq T, T \subseteq Candidate, Worth(c, candidates, T)
    PROVE  Worth(c, candidates, S)
<1> PICK v : v = Score(c, candidates)  OBVIOUS
<1> PICK p : p = Novelty(c, S)  OBVIOUS
<1> PICK q : q = Novelty(c, T)  OBVIOUS
<1>1. v \in Int /\ p \in Int /\ q \in Int /\ q <= p
  BY ScoreIsNumber, NoveltyFalls
<1>2. v + 25 * q >= 35 * One  BY DEF Worth
<1>3. v + 25 * p >= 35 * One  BY <1>1, <1>2 DEF One
<1> QED  BY <1>3 DEF Worth

\* No two that are selected conflict.
Compatible(S) == /\ S \subseteq Candidate
                 /\ \A c, d \in S : c # d => ~Conflicts(c, d)

LEMMA OneMoreFits ==
    ASSUME NEW S, Compatible(S), NEW c \in Candidate, Fits(c, S)
    PROVE  Compatible(S \cup {c})
<1>1. \A d \in S : d \in Candidate /\ ~Conflicts(c, d)
  BY DEF Compatible, Fits
<1>2. \A d \in S : ~Conflicts(d, c)  BY <1>1, ConflictsAreMutual
<1> QED  BY <1>1, <1>2 DEF Compatible

\* What a bucket adds.
LEMMA BucketAdds ==
    ASSUME NEW S, Compatible(S), NEW b, NEW ranked \in Seq(Candidate)
    PROVE  /\ Compatible(TakeFromBucket(S, b, ranked))
           /\ S \subseteq TakeFromBucket(S, b, ranked)
           /\ \A i \in DOMAIN ranked :
                 Bucket(ranked[i].frame.ts) = b /\ Fits(ranked[i], S) =>
                    \E d \in TakeFromBucket(S, b, ranked) :
                       Bucket(d.frame.ts) = b
<1> PICK m : m = Len(ranked)  OBVIOUS
<1>1. /\ m \in Nat /\ DOMAIN ranked = 1..m
      /\ \A i \in 1..m : ranked[i] \in Candidate
  OBVIOUS
<1> PICK fitting : fitting = {i \in DOMAIN ranked :
                                /\ Bucket(ranked[i].frame.ts) = b
                                /\ Fits(ranked[i], S)}
  OBVIOUS
<1>2. TakeFromBucket(S, b, ranked)
         = IF fitting = {} THEN S ELSE S \cup {ranked[Min(fitting)]}
  BY DEF TakeFromBucket
<1>3. CASE fitting = {}
  <2>1. TakeFromBucket(S, b, ranked) = S  BY <1>2, <1>3
  <2>2. \A i \in DOMAIN ranked :
           ~ (Bucket(ranked[i].frame.ts) = b /\ Fits(ranked[i], S))
    BY <1>3
  <2> QED  BY <2>1, <2>2
<1>4. CASE fitting # {}
  <2>1. fitting \subseteq 1..m  BY <1>1
  <2>2. IsFiniteSet(1..m) /\ 1..m \subseteq Nat
    <3>1. 1 \in Int /\ m \in Int  BY <1>1
    <3>2. IsFiniteSet(1..m)  BY <3>1, FS_Interval, Zenon
    <3>3. 1..m \subseteq Nat  OBVIOUS
    <3> QED  BY <3>2, <3>3
  <2>3. IsFiniteSet(fitting) /\ fitting \subseteq Nat
    BY <2>1, <2>2, FS_Subset
  <2> PICK i : i = Min(fitting)  OBVIOUS
  <2>4. i \in fitting  BY <1>4, <2>3, LeastAndGreatest
  <2> PICK c : c = ranked[i]  OBVIOUS
  <2>5. c \in Candidate /\ Bucket(c.frame.ts) = b /\ Fits(c, S)
    BY <1>1, <2>4
  <2>6. Compatible(S \cup {c})  BY <2>5, OneMoreFits
  <2>7. TakeFromBucket(S, b, ranked) = S \cup {c}  BY <1>2, <1>4
  <2>8. c \in S \cup {c}  OBVIOUS
  <2>9. \E d \in S \cup {c} : Bucket(d.frame.ts) = b  BY <2>5, <2>8
  <2> QED  BY <2>6, <2>7, <2>9
<1> QED  BY <1>3, <1>4

\* What grows with every turn holds all that it held.
LEMMA TurnsGrow ==
    ASSUME NEW N \in Nat, NEW g, \A n \in 1..N : g[n - 1] \subseteq g[n],
           NEW m \in 0..N
    PROVE  g[m] \subseteq g[N]
<1> DEFINE S == {n \in 0..N : m <= n => g[m] \subseteq g[n]}
<1>1. 0 \in S
  <2>1. m <= 0 => m = 0  OBVIOUS
  <2> QED  BY <2>1
<1>2. ASSUME NEW n \in 1..N, n - 1 \in S
      PROVE  n \in S
  <2>1. n \in 0..N /\ n - 1 \in 0..N /\ (m <= n => m <= n - 1 \/ m = n)
    OBVIOUS
  <2>2. g[n - 1] \subseteq g[n]  OBVIOUS
  <2>3. m <= n - 1 => g[m] \subseteq g[n - 1]  BY <1>2
  <2> QED  BY <2>1, <2>2, <2>3
<1>3. \A n \in 0..N : n \in S
  <2> HIDE DEF S
  <2> QED  BY <1>1, <1>2, EveryTurn
<1>4. N \in 0..N /\ m <= N  OBVIOUS
<1> QED  BY <1>3, <1>4

\* The turns of the first pass.
CoverTurns(g, ranked, N) ==
    g = [n \in 0..N |->
            IF n = 0 THEN {} ELSE TakeFromBucket(g[n - 1], n - 1, ranked)]

LEMMA CoverInTurns ==
    ASSUME NEW ranked \in Seq(Candidate), NEW N \in Nat
    PROVE  CoverTurns(CHOOSE g : CoverTurns(g, ranked, N), ranked, N)
<1> DEFINE X == {S \in SUBSET Candidate : Compatible(S)}
           F == [q \in X \X Nat |-> TakeFromBucket(q[1], q[2] - 1, ranked)]
<1>1. F \in [X \X Nat -> X]
  <2> SUFFICES ASSUME NEW q \in X \X Nat
               PROVE  TakeFromBucket(q[1], q[2] - 1, ranked) \in X
    BY Zenon
  <2>1. Compatible(q[1])  OBVIOUS
  <2>2. Compatible(TakeFromBucket(q[1], q[2] - 1, ranked))
    BY <2>1, BucketAdds
  <2> QED  BY <2>2 DEF Compatible
<1>2. {} \in X  BY DEF Compatible
<1>3. PICK g \in [0..N -> X] : Loop(g, {}, F, N)
  <2> HIDE DEF F, X
  <2> QED  BY <1>1, <1>2, LoopExists
<1>4. \A n \in 1..N :
         F[<<g[n - 1], n>>] = TakeFromBucket(g[n - 1], n - 1, ranked)
  <2> TAKE n \in 1..N
  <2>1. n - 1 \in 0..N /\ n \in Nat  OBVIOUS
  <2> HIDE DEF X
  <2>2. <<g[n - 1], n>> \in X \X Nat  BY <2>1
  <2> QED  BY <2>2
<1>5. CoverTurns(g, ranked, N)
  <2> HIDE DEF F, X
  <2>1. \A n \in 0..N : n = 0 \/ n \in 1..N  OBVIOUS
  <2> QED  BY <1>3, <1>4, <2>1 DEF Loop, CoverTurns
<1> QED  BY <1>5

\* The first pass leaves no bucket out that has a candidate that would fit.
LEMMA CoveringReaches ==
    ASSUME NEW candidates, NEW ranked \in Seq(Candidate),
           ranked = ByScore(candidates),
           NEW frames, Bucket(Duration(frames)) \in Nat
    PROVE  /\ Compatible(CoverBuckets(frames, candidates))
           /\ \A i \in DOMAIN ranked :
                 /\ Bucket(ranked[i].frame.ts) \in 0..Bucket(Duration(frames))
                 /\ Fits(ranked[i], CoverBuckets(frames, candidates))
                 => \E d \in CoverBuckets(frames, candidates) :
                       Bucket(d.frame.ts) = Bucket(ranked[i].frame.ts)
<1> PICK N \in Nat : N = Bucket(Duration(frames)) + 1  OBVIOUS
<1> PICK g : g = CHOOSE e : CoverTurns(e, ranked, N)  OBVIOUS
<1>1. CoverTurns(g, ranked, N)  BY CoverInTurns
<1>2. CoverBuckets(frames, candidates) = g[N]
  BY DEF CoverBuckets, CoverTurns
<1>3. \A n \in 0..N :
         g[n] = IF n = 0 THEN {} ELSE TakeFromBucket(g[n - 1], n - 1, ranked)
  BY <1>1 DEF CoverTurns
<1> DEFINE S == {n \in 0..N : Compatible(g[n])}
<1>4. \A n \in 0..N : n \in S
  <2>1. 0 \in S
    <3>1. 0 \in 0..N /\ g[0] = {}  BY <1>3
    <3> QED  BY <3>1 DEF Compatible
  <2>2. ASSUME NEW n \in 1..N, n - 1 \in S
        PROVE  n \in S
    <3>1. n \in 0..N /\ n # 0  OBVIOUS
    <3>2. g[n] = TakeFromBucket(g[n - 1], n - 1, ranked)  BY <1>3, <3>1
    <3>3. Compatible(g[n - 1])  BY <2>2
    <3>4. Compatible(g[n])  BY <3>2, <3>3, BucketAdds
    <3> QED  BY <3>1, <3>4
  <2> HIDE DEF S
  <2> QED  BY <2>1, <2>2, EveryTurn
<1>5. \A n \in 1..N : /\ n - 1 \in 0..N /\ n \in 0..N
                      /\ Compatible(g[n - 1])
                      /\ g[n] = TakeFromBucket(g[n - 1], n - 1, ranked)
  <2> TAKE n \in 1..N
  <2>1. n - 1 \in 0..N /\ n \in 0..N /\ n # 0  OBVIOUS
  <2> QED  BY <1>3, <1>4, <2>1
<1>6. \A n \in 1..N : g[n - 1] \subseteq g[n]  BY <1>5, BucketAdds
<1>7. Compatible(g[N])  BY <1>4
<1>8. ASSUME NEW i \in DOMAIN ranked, NEW b \in 0..(N - 1),
             Bucket(ranked[i].frame.ts) = b, Fits(ranked[i], g[N])
      PROVE  \E d \in g[N] : Bucket(d.frame.ts) = b
  <2> PICK n \in 1..N : n = b + 1 /\ b = n - 1  OBVIOUS
  <2>1. g[n - 1] \subseteq g[N] /\ g[n] \subseteq g[N]
    BY <1>5, <1>6, TurnsGrow
  <2>2. Fits(ranked[i], g[n - 1])  BY <1>8, <2>1 DEF Fits
  <2>3. \E d \in TakeFromBucket(g[n - 1], n - 1, ranked) :
           Bucket(d.frame.ts) = n - 1
    BY <1>5, <1>8, <2>2, BucketAdds
  <2>4. \E d \in g[n] : Bucket(d.frame.ts) = n - 1  BY <1>5, <2>3
  <2> QED  BY <2>1, <2>4
<1>9. 0..Bucket(Duration(frames)) = 0..(N - 1)  OBVIOUS
<1> QED  BY <1>2, <1>7, <1>8, <1>9

\* What one turn of the second pass makes of a selection.
Turn(S, c, covering, candidates) ==
    IF c \in covering THEN S ELSE TakeIfWorth(S, c, candidates)

OtherTurns(g, covering, ranked, candidates) ==
    g = [n \in 0..Len(ranked) |->
            IF n = 0 THEN covering
            ELSE IF ranked[n] \in covering THEN g[n - 1]
            ELSE TakeIfWorth(g[n - 1], ranked[n], candidates)]

LEMMA TurnKeeps ==
    ASSUME NEW S, Compatible(S), NEW c \in Candidate,
           NEW covering, NEW candidates
    PROVE  /\ Compatible(Turn(S, c, covering, candidates))
           /\ S \subseteq Turn(S, c, covering, candidates)
           /\ c \in covering \/ c \in Turn(S, c, covering, candidates)
                 \/ ~Fits(c, S) \/ ~Worth(c, candidates, S)
<1>1. CASE c \in covering
  BY <1>1 DEF Turn
<1>2. CASE c \notin covering /\ Fits(c, S) /\ Worth(c, candidates, S)
  <2>1. Turn(S, c, covering, candidates) = S \cup {c}
    BY <1>2 DEF Turn, TakeIfWorth
  <2>2. Compatible(S \cup {c})  BY <1>2, OneMoreFits
  <2> QED  BY <2>1, <2>2
<1>3. CASE c \notin covering /\ ~ (Fits(c, S) /\ Worth(c, candidates, S))
  <2>1. Turn(S, c, covering, candidates) = S
    BY <1>3 DEF Turn, TakeIfWorth
  <2> QED  BY <1>3, <2>1
<1> QED  BY <1>1, <1>2, <1>3

LEMMA OthersInTurns ==
    ASSUME NEW ranked \in Seq(Candidate), NEW candidates,
           NEW covering, Compatible(covering)
    PROVE  OtherTurns(CHOOSE g : OtherTurns(g, covering, ranked, candidates),
                      covering, ranked, candidates)
<1> DEFINE X == {S \in SUBSET Candidate : Compatible(S)}
           F == [q \in X \X Nat |->
                    IF q[2] \in DOMAIN ranked
                    THEN Turn(q[1], ranked[q[2]], covering, candidates)
                    ELSE q[1]]
<1> PICK m : m = Len(ranked)  OBVIOUS
<1>1. m \in Nat /\ DOMAIN ranked = 1..m
      /\ \A n \in 1..m : ranked[n] \in Candidate
  OBVIOUS
<1>2. F \in [X \X Nat -> X]
  <2> SUFFICES ASSUME NEW q \in X \X Nat
               PROVE  (IF q[2] \in DOMAIN ranked
                       THEN Turn(q[1], ranked[q[2]], covering, candidates)
                       ELSE q[1]) \in X
    BY Zenon
  <2>1. q[1] \in X /\ Compatible(q[1])  OBVIOUS
  <2>2. q[2] \in DOMAIN ranked =>
           Turn(q[1], ranked[q[2]], covering, candidates) \in X
    <3> HAVE q[2] \in DOMAIN ranked
    <3>1. ranked[q[2]] \in Candidate  BY <1>1
    <3>2. Compatible(Turn(q[1], ranked[q[2]], covering, candidates))
      BY <2>1, <3>1, TurnKeeps
    <3> QED  BY <3>2 DEF Compatible
  <2> QED  BY <2>1, <2>2
<1>3. covering \in X  BY DEF Compatible
<1>4. PICK g \in [0..m -> X] : Loop(g, covering, F, m)
  <2> HIDE DEF F, X
  <2> QED  BY <1>1, <1>2, <1>3, LoopExists
<1>5. \A n \in 1..m :
         F[<<g[n - 1], n>>]
            = IF ranked[n] \in covering THEN g[n - 1]
              ELSE TakeIfWorth(g[n - 1], ranked[n], candidates)
  <2> TAKE n \in 1..m
  <2>1. n - 1 \in 0..m /\ n \in Nat /\ n \in DOMAIN ranked  BY <1>1
  <2> HIDE DEF X
  <2>2. <<g[n - 1], n>> \in X \X Nat  BY <2>1
  <2> QED  BY <2>1, <2>2 DEF Turn
<1>6. OtherTurns(g, covering, ranked, candidates)
  <2> HIDE DEF F, X
  <2>1. \A n \in 0..m : n = 0 \/ n \in 1..m  BY <1>1
  <2> QED  BY <1>4, <1>5, <2>1 DEF Loop, OtherTurns
<1> QED  BY <1>6

\* The second pass starts from the covered buckets and makes one turn after the
\* other.
LEMMA TurnByTurn ==
    ASSUME NEW g, NEW covering, NEW ranked, NEW candidates, NEW m \in Nat,
           m = Len(ranked), OtherTurns(g, covering, ranked, candidates)
    PROVE  /\ g[0] = covering
           /\ \A n \in 1..m :
                 g[n] = Turn(g[n - 1], ranked[n], covering, candidates)
<1>1. g = [n \in 0..m |->
             IF n = 0 THEN covering
             ELSE IF ranked[n] \in covering THEN g[n - 1]
             ELSE TakeIfWorth(g[n - 1], ranked[n], candidates)]
  BY DEF OtherTurns
<1>2. 0 \in 0..m  OBVIOUS
<1>3. g[0] = covering  BY <1>1, <1>2
<1>4. ASSUME NEW n \in 1..m
      PROVE  g[n] = Turn(g[n - 1], ranked[n], covering, candidates)
  <2>1. n \in 0..m /\ n # 0  OBVIOUS
  <2>2. g[n] = IF ranked[n] \in covering THEN g[n - 1]
               ELSE TakeIfWorth(g[n - 1], ranked[n], candidates)
    BY <1>1, <2>1
  <2> QED  BY <2>2 DEF Turn
<1> QED  BY <1>3, <1>4

\* The second pass takes every candidate that fits and is worth it.
LEMMA OthersAreTaken ==
    ASSUME NEW candidates \in Seq(Candidate), candidates # <<>>,
           NEW ranked \in Seq(Candidate), ranked = ByScore(candidates),
           NEW covering, Compatible(covering)
    PROVE  /\ Compatible(TakeOthers(covering, candidates))
           /\ covering \subseteq TakeOthers(covering, candidates)
           /\ \A i \in DOMAIN ranked :
                 \/ ranked[i] \in TakeOthers(covering, candidates)
                 \/ ~Fits(ranked[i], TakeOthers(covering, candidates))
                 \/ ~Worth(ranked[i], candidates,
                           TakeOthers(covering, candidates))
<1> PICK m : m = Len(ranked)  OBVIOUS
<1>1. /\ m \in Nat /\ DOMAIN ranked = 1..m
      /\ \A n \in 1..m : ranked[n] \in Candidate
  OBVIOUS
<1> PICK g : g = CHOOSE e : OtherTurns(e, covering, ranked, candidates)
  OBVIOUS
<1>2. OtherTurns(g, covering, ranked, candidates)  BY OthersInTurns
<1> PICK taken : taken = TakeOthers(covering, candidates)  OBVIOUS
<1>3. taken = g[m]
  BY DEF TakeOthers, OtherTurns
<1>4. g[0] = covering
  BY <1>1, <1>2, TurnByTurn
<1>5. \A n \in 1..m : g[n] = Turn(g[n - 1], ranked[n], covering, candidates)
  BY <1>1, <1>2, TurnByTurn
<1> DEFINE S == {n \in 0..m : Compatible(g[n])}
<1>6. \A n \in 0..m : n \in S
  <2>1. 0 \in S  BY <1>1, <1>4
  <2>2. ASSUME NEW n \in 1..m, n - 1 \in S
        PROVE  n \in S
    <3>1. n \in 0..m /\ Compatible(g[n - 1])  BY <1>1, <2>2
    <3>2. ranked[n] \in Candidate  BY <1>1
    <3>3. Compatible(g[n])  BY <1>5, <3>1, <3>2, TurnKeeps
    <3> QED  BY <3>1, <3>3
  <2> HIDE DEF S
  <2> QED  BY <1>1, <2>1, <2>2, EveryTurn
<1>7. \A n \in 1..m : /\ n - 1 \in 0..m /\ n \in 0..m
                      /\ Compatible(g[n - 1]) /\ ranked[n] \in Candidate
  <2> TAKE n \in 1..m
  <2>1. n - 1 \in 0..m /\ n \in 0..m  BY <1>1
  <2> QED  BY <1>1, <1>6, <2>1
<1>8. \A n \in 1..m : g[n - 1] \subseteq g[n]  BY <1>5, <1>7, TurnKeeps
<1>9. \A n \in 0..m : g[n] \subseteq taken
  BY <1>1, <1>3, <1>8, TurnsGrow
<1>10. Compatible(taken)  BY <1>1, <1>3, <1>6
<1>11. covering \subseteq taken  BY <1>1, <1>4, <1>9
<1>12. ASSUME NEW i \in 1..m
       PROVE  \/ ranked[i] \in taken
              \/ ~Fits(ranked[i], taken)
              \/ ~Worth(ranked[i], candidates, taken)
  <2> PICK c : c = ranked[i]  OBVIOUS
  <2>1. /\ g[i - 1] \subseteq taken /\ g[i] \subseteq taken
        /\ c \in Candidate /\ Compatible(g[i - 1])
        /\ g[i] = Turn(g[i - 1], c, covering, candidates)
    BY <1>5, <1>7, <1>9
  <2>2. \/ c \in covering \/ c \in g[i]
        \/ ~Fits(c, g[i - 1]) \/ ~Worth(c, candidates, g[i - 1])
    BY <2>1, TurnKeeps
  <2>3. ~Fits(c, g[i - 1]) => ~Fits(c, taken)  BY <2>1 DEF Fits
  <2>4. taken \subseteq Candidate  BY <1>10 DEF Compatible
  <2>5. Worth(c, candidates, taken) => Worth(c, candidates, g[i - 1])
    BY <2>1, <2>4, WorthFalls
  <2> QED  BY <1>11, <2>1, <2>2, <2>3, <2>5
<1> QED  BY <1>1, <1>10, <1>11, <1>12

LEMMA RankedAre ==
    ASSUME NEW candidates \in Seq(Candidate), candidates # <<>>
    PROVE  /\ ByScore(candidates) \in Seq(Candidate)
           /\ SameElements(ByScore(candidates), candidates)
<1> PICK n : n = Len(candidates)  OBVIOUS
<1>1. /\ n \in Nat /\ DOMAIN candidates = 1..n
      /\ \A i \in 1..n : candidates[i] \in Candidate
  OBVIOUS
<1> PICK key : key = [i \in DOMAIN candidates |->
                        -Score(candidates[i], candidates)]
  OBVIOUS
<1>2. \A i \in 1..n : -Score(candidates[i], candidates) \in Int
  <2> TAKE i \in 1..n
  <2>1. candidates[i] \in Candidate  BY <1>1
  <2>2. Score(candidates[i], candidates) \in Int  BY <2>1, ScoreIsNumber
  <2> QED  BY <2>2
<1>3. key \in [DOMAIN candidates -> Int]  BY <1>1, <1>2
<1>4. ByScore(candidates) = SortedBy(candidates, key)  BY DEF ByScore
<1>5. /\ SortedBy(candidates, key) \in Seq(Candidate)
      /\ SameElements(SortedBy(candidates, key), candidates)
  BY <1>3, SortKeepsElements
<1> QED  BY <1>4, <1>5, Zenon

Separated(c, d) == Gap(c, d) >= MinGap /\ Distance(c, d) >= MinHashDist

\* The selection promises this of the candidates.
LEMMA SelectionIs ==
    ASSUME NEW frames \in Seq(FrameFeature), frames # <<>>,
           NEW candidates, candidates = Candidates(frames),
           NEW selected, selected = SelectKeyframes(frames)
    PROVE  /\ selected # {}
           /\ \A c, d \in selected : c # d => Separated(c, d)
           /\ \A c \in ToSet(candidates) \ selected :
                 (\A d \in selected : Separated(c, d)) =>
                    /\ ~Worth(c, candidates, selected)
                    /\ \E d \in selected :
                          Bucket(d.frame.ts) = Bucket(c.frame.ts)
<1>1. candidates \in Seq(CandidatesOf(frames)) /\ candidates # <<>>
  BY CandidatesAre
<1> PICK n : n = Len(candidates)  OBVIOUS
<1>2. /\ n \in Nat \ {0} /\ DOMAIN candidates = 1..n
      /\ \A i \in 1..n : candidates[i] \in CandidatesOf(frames)
  BY <1>1
<1>3. ASSUME NEW c \in CandidatesOf(frames)
      PROVE  /\ c \in Candidate
             /\ Bucket(c.frame.ts) \in 0..Bucket(Duration(frames))
  <2>1. c \in Candidate /\ \E i \in DOMAIN frames : c.frame = frames[i]
    BY DEF CandidatesOf
  <2> QED  BY <2>1, TimesAreReached
<1>4. candidates \in Seq(Candidate)
  <2>1. CandidatesOf(frames) \subseteq Candidate  BY <1>3
  <2> QED  BY <1>1, <2>1, SeqMonotonic, Zenon
<1> PICK ranked : ranked = ByScore(candidates)  OBVIOUS
<1>5. ranked \in Seq(Candidate) /\ SameElements(ranked, candidates)
  BY <1>1, <1>4, RankedAre
<1> PICK covering : covering = CoverBuckets(frames, candidates)  OBVIOUS
<1>6. Bucket(Duration(frames)) \in Nat  BY TimesAreReached
<1>7. /\ Compatible(covering)
      /\ \A i \in DOMAIN ranked :
            /\ Bucket(ranked[i].frame.ts) \in 0..Bucket(Duration(frames))
            /\ Fits(ranked[i], covering)
            => \E d \in covering :
                  Bucket(d.frame.ts) = Bucket(ranked[i].frame.ts)
  BY <1>5, <1>6, CoveringReaches
<1>8. selected = TakeOthers(covering, candidates)
  BY DEF SelectKeyframes
<1>9. /\ Compatible(selected)
      /\ covering \subseteq selected
      /\ \A i \in DOMAIN ranked :
            \/ ranked[i] \in selected
            \/ ~Fits(ranked[i], selected)
            \/ ~Worth(ranked[i], candidates, selected)
  BY <1>1, <1>4, <1>5, <1>7, <1>8, OthersAreTaken
<1>10. \A c, d \in Candidate : ~Conflicts(c, d) <=> Separated(c, d)
  BY ConflictsAreMutual DEF Separated
<1>11. \A c, d \in selected : c # d => Separated(c, d)
  BY <1>9, <1>10 DEF Compatible
<1>12. ASSUME NEW c \in ToSet(candidates) \ selected,
              \A d \in selected : Separated(c, d)
       PROVE  /\ ~Worth(c, candidates, selected)
              /\ \E d \in selected : Bucket(d.frame.ts) = Bucket(c.frame.ts)
  <2>1. PICK j \in 1..n : c = candidates[j]  BY <1>2 DEF ToSet
  <2>2. PICK i \in DOMAIN ranked : ranked[i] = c
    BY <1>2, <1>5, <2>1 DEF SameElements
  <2>3. /\ c \in Candidate
        /\ Bucket(c.frame.ts) \in 0..Bucket(Duration(frames))
    BY <1>2, <1>3, <2>1
  <2>4. selected \subseteq Candidate  BY <1>9 DEF Compatible
  <2>5. Fits(c, selected)  BY <1>10, <1>12, <2>3, <2>4 DEF Fits
  <2>6. Fits(c, covering)  BY <1>9, <2>5 DEF Fits
  <2>7. \E d \in covering : Bucket(d.frame.ts) = Bucket(c.frame.ts)
    BY <1>7, <2>2, <2>3, <2>6
  <2>8. ~Worth(c, candidates, selected)  BY <1>9, <2>2, <2>5
  <2> QED  BY <1>9, <2>7, <2>8
<1>13. selected # {}
  <2> SUFFICES ASSUME selected = {} PROVE FALSE
    OBVIOUS
  <2>1. candidates[1] \in ToSet(candidates) \ selected
    BY <1>2 DEF ToSet
  <2>2. \E d \in selected :
           Bucket(d.frame.ts) = Bucket(candidates[1].frame.ts)
    BY <1>12, <2>1
  <2> QED  BY <2>2
<1> QED  BY <1>11, <1>12, <1>13

=============================================================================
