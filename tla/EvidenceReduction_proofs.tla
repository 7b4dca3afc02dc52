---------------------- MODULE EvidenceReduction_proofs ----------------------
(***************************************************************************)
(* What the reduction of evidence keeps, for sections of any number and    *)
(* length: every section, their order, and the limit of a request.         *)
(*                                                                         *)
(* _partition is a loop over the sections with a loop over the pieces of   *)
(* each in it.  Both are recursive functions here; that such a function    *)
(* exists, and that what every turn of a loop keeps is kept by the whole,  *)
(* follow from the least number for which they would fail.                 *)
(***************************************************************************)
EXTENDS EvidenceReduction, FiniteSetTheorems, SequenceTheorems, TLAPS

-----------------------------------------------------------------------------
(* Numbers and loops.                                                      *)

\* A set of numbers that is not empty has a least one.
LEMMA LeastNumber ==
    ASSUME NEW S, S \subseteq Nat, S # {}
    PROVE  \E i \in S : \A j \in S : i <= j
<1>1. PICK i \in S : \A j \in S : <<j, i>> \notin OpToRel(<, Nat)
  BY NatLessThanWellFounded, WFMin
<1>2. \A j \in S : ~ (j < i)
  BY <1>1 DEF OpToRel
<1> QED  BY <1>2

\* What holds at first and is kept by every turn holds at the end.
LEMMA EveryTurn ==
    ASSUME NEW N \in Nat, NEW S, 0 \in S,
           \A n \in 1..N : n - 1 \in S => n \in S
    PROVE  \A n \in 0..N : n \in S
<1> DEFINE bad == {n \in 0..N : n \notin S}
<1> SUFFICES ASSUME bad # {} PROVE FALSE
  OBVIOUS
<1>1. bad \subseteq Nat  OBVIOUS
<1>2. PICK m \in bad : \A j \in bad : m <= j
  <2> HIDE DEF bad
  <2> QED  BY <1>1, LeastNumber
<1>3. m \in 1..N /\ m - 1 \in 0..N  OBVIOUS
<1>4. m - 1 \notin bad  BY <1>2, <1>3
<1> QED  BY <1>3, <1>4

\* Turn n of a loop takes the value g[n - 1] to F[<<g[n - 1], n>>].
Loop(g, x, F, N) ==
    g = [n \in 0..N |-> IF n = 0 THEN x ELSE F[<<g[n - 1], n>>]]

LEMMA LoopExists ==
    ASSUME NEW X, NEW x \in X, NEW F \in [X \X Nat -> X], NEW N \in Nat
    PROVE  \E g \in [0..N -> X] : Loop(g, x, F, N)
<1> DEFINE S == {n \in Nat : \E g \in [0..n -> X] : Loop(g, x, F, n)}
<1>1. 0 \in S
  <2> DEFINE g == [n \in 0..0 |-> x]
  <2>1. g \in [0..0 -> X]  OBVIOUS
  <2>2. Loop(g, x, F, 0)  BY DEF Loop
  <2> HIDE DEF g
  <2> QED  BY <2>1, <2>2
<1>2. ASSUME NEW n \in 1..N, n - 1 \in S
      PROVE  n \in S
  <2>1. PICK g \in [0..(n - 1) -> X] : Loop(g, x, F, n - 1)
    BY <1>2
  <2> DEFINE h == [k \in 0..n |-> IF k = n THEN F[<<g[n - 1], n>>] ELSE g[k]]
  <2>2. n - 1 \in 0..(n - 1) /\ g[n - 1] \in X /\ n \in Nat
    BY <2>1
  <2>3. F[<<g[n - 1], n>>] \in X  BY <2>2
  <2>4. \A k \in 0..n : k # n => k \in 0..(n - 1)  OBVIOUS
  <2>5. h \in [0..n -> X]  BY <2>3, <2>4
  <2>6. \A k \in 0..(n - 1) :
           g[k] = IF k = 0 THEN x ELSE F[<<g[k - 1], k>>]
    BY <2>1 DEF Loop
  <2>7. \A k \in 0..n : h[k] = IF k = 0 THEN x ELSE F[<<h[k - 1], k>>]
    <3> TAKE k \in 0..n
    <3>1. CASE k = 0
      <4>1. 0 \in 0..(n - 1) /\ 0 # n  OBVIOUS
      <4> QED  BY <2>6, <3>1, <4>1
    <3>2. CASE k # 0 /\ k # n
      <4>1. k \in 0..(n - 1) /\ k - 1 \in 0..n /\ k - 1 # n  BY <3>2
      <4> QED  BY <2>6, <3>2, <4>1
    <3>3. CASE k # 0 /\ k = n
      <4>1. n - 1 \in 0..n /\ n - 1 # n  OBVIOUS
      <4> QED  BY <3>3, <4>1
    <3> QED  BY <3>1, <3>2, <3>3
  <2> HIDE DEF h
  <2>8. Loop(h, x, F, n)
    BY <2>5, <2>7 DEF Loop
  <2> QED  BY <2>2, <2>5, <2>8
<1> HIDE DEF S
<1>3. N \in 0..N  OBVIOUS
<1>4. N \in S  BY <1>1, <1>2, <1>3, EveryTurn
<1> QED  BY <1>4 DEF S

LEMMA DivMod ==
    ASSUME NEW x \in Nat, NEW d \in Nat \ {0}
    PROVE  /\ x \div d \in Nat
           /\ d * (x \div d) <= x /\ x < d * (x \div d) + d
OBVIOUS

-----------------------------------------------------------------------------
(* Texts.                                                                  *)

\* A text that some of the sections 1 to N went into.
TextOf(N) == [len: Nat, of: (SUBSET (1..N)) \ {{}}]

\* Neither its first nor its last section is behind those of the other.
Before(A, B) == /\ \A b \in B : \E a \in A : a <= b
                /\ \A a \in A : \E b \in B : a <= b

Ordered(texts) == \A i, j \in DOMAIN texts :
                     i < j => Before(texts[i].of, texts[j].of)
Covered(texts) == UNION {texts[i].of : i \in DOMAIN texts}

\* Batches that fit, in order, of the sections in done, all before those in
\* rest.
Packed(batches, N, done, rest) ==
    /\ batches \in Seq(TextOf(N))
    /\ \A i \in DOMAIN batches : batches[i].len <= Limit
    /\ Ordered(batches)
    /\ Covered(batches) = done
    /\ \A i \in DOMAIN batches : \A B \in rest : Before(batches[i].of, B)

LEMMA LimitIsANumber ==
    /\ Limit \in Nat /\ Limit >= 1000
    /\ Limit <= MaxInput /\ Limit <= InputBudget
    /\ PieceLength \in Nat \ {0} /\ PieceLength = Limit - MarkerBudget
<1>1. MaxInput \in Nat /\ InputBudget \in Int
  <2>1. Context - MaxOutput - InputReserve - PromptReserve \in Int
    BY ReductionAssumption DEF InputReserve, PromptReserve
  <2> QED  BY <2>1, ReductionAssumption DEF InputBudget, BytesPerChar
<1>2. \E x \in {MaxInput, InputBudget} :
         \A y \in {MaxInput, InputBudget} : x <= y
  BY <1>1
<1>3. /\ Limit \in {MaxInput, InputBudget}
      /\ \A y \in {MaxInput, InputBudget} : Limit <= y
  BY <1>2 DEF Limit, Min
<1>4. Limit >= 1000  BY ReductionAssumption
<1>5. Limit \in Nat  BY <1>1, <1>3, <1>4
<1> QED  BY <1>1, <1>3, <1>4, <1>5 DEF PieceLength, MarkerBudget

LEMMA MarkersFit ==
    ASSUME NEW i, NEW j
    PROVE  MarkerLength(i, j) \in Nat /\ MarkerLength(i, j) <= MarkerBudget
<1>1. \A n : Digits(n) \in 1..7  BY DEF Digits
<1> QED  BY <1>1 DEF MarkerLength, MarkerBudget

\* Every piece of a section is of it and fits.
LEMMA SplitFits ==
    ASSUME NEW N \in Nat, NEW section \in TextOf(N)
    PROVE  /\ SplitSection(section) \in Seq(TextOf(N))
           /\ SplitSection(section) # <<>>
           /\ \A i \in DOMAIN SplitSection(section) :
                 /\ SplitSection(section)[i].of = section.of
                 /\ SplitSection(section)[i].len <= Limit
<1> DEFINE pieces == SplitSection(section)
<1>1. section.len \in Nat /\ section.of \in (SUBSET (1..N)) \ {{}}
  BY DEF TextOf
<1>2. CASE section.len <= Limit
  <2>1. pieces = <<section>>  BY <1>2 DEF SplitSection
  <2>2. /\ <<section>> \in Seq(TextOf(N)) /\ <<section>> # <<>>
        /\ DOMAIN <<section>> = {1} /\ <<section>>[1] = section
    OBVIOUS
  <2> HIDE DEF pieces
  <2>3. /\ pieces \in Seq(TextOf(N)) /\ pieces # <<>>
        /\ \A i \in DOMAIN pieces : pieces[i] = section
    BY <2>1, <2>2
  <2> QED  BY <1>2, <2>3 DEF pieces
<1>3. CASE section.len > Limit
  <2> DEFINE n == (section.len + PieceLength - 1) \div PieceLength
             Length(i) == IF i < n THEN PieceLength
                          ELSE section.len - (n - 1) * PieceLength
  <2>1. /\ PieceLength \in Nat \ {0} /\ PieceLength = Limit - MarkerBudget
        /\ Limit \in Nat /\ Limit >= 1000
    BY LimitIsANumber
  <2>2. /\ n \in Nat /\ PieceLength * n <= section.len + PieceLength - 1
        /\ section.len - 1 < PieceLength * n
    <3> PICK x : x = section.len + PieceLength - 1  OBVIOUS
    <3> PICK y : y = section.len  OBVIOUS
    <3>1. y \in Nat /\ x \in Nat /\ x = y + PieceLength - 1  BY <1>1, <2>1
    <3>2. /\ x \div PieceLength \in Nat
          /\ PieceLength * (x \div PieceLength) <= x
          /\ x < PieceLength * (x \div PieceLength) + PieceLength
      BY <2>1, <3>1, DivMod
    <3>3. PieceLength * (x \div PieceLength) \in Nat  BY <2>1, <3>2
    <3>4. y - 1 < PieceLength * (x \div PieceLength)
      BY <2>1, <3>1, <3>2, <3>3
    <3>5. n = x \div PieceLength  OBVIOUS
    <3> HIDE DEF n
    <3> QED  BY <3>1, <3>2, <3>4, <3>5
  <2> HIDE DEF n
  <2>3. n # 0
    <3>1. n = 0 => PieceLength * n = 0  BY <2>1
    <3> QED  BY <1>1, <1>3, <2>1, <2>2, <3>1
  <2>4. \A i \in 1..n : Length(i) \in Nat /\ Length(i) <= PieceLength
    <3>1. (n - 1) * PieceLength = PieceLength * n - PieceLength
      BY <2>1, <2>2
    <3>2. PieceLength * n \in Nat  BY <2>1, <2>2
    <3> DEFINE q == PieceLength * n
               r == (n - 1) * PieceLength
    <3>3. /\ r = q - PieceLength /\ q \in Nat
          /\ q <= section.len + PieceLength - 1 /\ section.len - 1 < q
      BY <2>2, <3>1, <3>2
    <3> HIDE DEF q, r
    <3>4. section.len - r \in Nat /\ section.len - r <= PieceLength
      BY <1>1, <2>1, <3>3
    <3> QED  BY <2>1, <3>4 DEF r
  <2> HIDE DEF Length
  <2>5. pieces = [i \in 1..n |-> [len |-> MarkerLength(i, n) + Length(i),
                                  of |-> section.of]]
    BY <1>1, <1>3, <2>1 DEF SplitSection, n, Length
  <2>6. \A i \in 1..n : /\ MarkerLength(i, n) + Length(i) \in Nat
                        /\ MarkerLength(i, n) + Length(i) <= Limit
    <3> TAKE i \in 1..n
    <3>1. /\ MarkerLength(i, n) \in Nat
          /\ MarkerLength(i, n) <= MarkerBudget /\ MarkerBudget = 48
      BY MarkersFit DEF MarkerBudget
    <3> QED  BY <2>1, <2>4, <3>1
  <2> HIDE DEF pieces
  <2>7. \A i \in 1..n : /\ pieces[i] \in TextOf(N)
                        /\ pieces[i].of = section.of
                        /\ pieces[i].len <= Limit
    BY <1>1, <2>5, <2>6 DEF TextOf
  <2>8. pieces \in Seq(TextOf(N)) /\ DOMAIN pieces = 1..n /\ Len(pieces) = n
    <3>1. pieces \in [1..n -> TextOf(N)]  BY <2>5, <2>7
    <3> QED  BY <2>2, <3>1
  <2>9. pieces # <<>>  BY <2>3, <2>8
  <2> QED  BY <2>7, <2>8, <2>9 DEF pieces
<1> QED  BY <1>1, <1>2, <1>3, LimitIsANumber

-----------------------------------------------------------------------------
(* Packing.                                                                *)

LEMMA BeforeItself ==
    ASSUME NEW A, A \subseteq Nat
    PROVE  Before(A, A)
<1>1. \A a \in A : a <= a  OBVIOUS
<1> QED  BY <1>1 DEF Before

LEMMA BeforeBoth ==
    ASSUME NEW A, NEW B, NEW C
    PROVE  /\ Before(A, C) /\ Before(B, C) => Before(A \cup B, C)
           /\ Before(C, A) /\ Before(C, B) => Before(C, A \cup B)
BY DEF Before

\* Batches without their last one.
LEMMA FrontOf ==
    ASSUME NEW T, NEW s \in Seq(T), s # <<>>
    PROVE  /\ Len(s) \in Nat \ {0} /\ Last(s) \in T /\ Last(s) = s[Len(s)]
           /\ Front(s) \in Seq(T) /\ Len(Front(s)) = Len(s) - 1
           /\ \A i \in 1..(Len(s) - 1) : Front(s)[i] = s[i]
<1>1. Len(s) \in Nat \ {0}  OBVIOUS
<1>2. Last(s) = s[Len(s)] /\ s[Len(s)] \in T  BY <1>1 DEF Last
<1> PICK k \in Nat : Len(s) = k + 1
  <2>1. Len(s) - 1 \in Nat /\ Len(s) = (Len(s) - 1) + 1  BY <1>1
  <2> QED  BY <2>1
<1>3. /\ SubSeq(s, 1, k) \in Seq(T)
      /\ Len(SubSeq(s, 1, k)) = k
  OBVIOUS
<1>4. \A i \in 1..k : SubSeq(s, 1, k)[i] = s[i]
  OBVIOUS
<1>5. /\ SubSeq(s, 1, Len(s) - 1) \in Seq(T)
      /\ Len(SubSeq(s, 1, Len(s) - 1)) = Len(s) - 1
      /\ \A i \in 1..(Len(s) - 1) : SubSeq(s, 1, Len(s) - 1)[i] = s[i]
  <2>1. k = Len(s) - 1  BY <1>1
  <2> QED  BY <2>1, <1>3, <1>4
<1> QED  BY <1>1, <1>2, <1>5 DEF Front

\* The last element of a sequence replaced, or one added.
LEMMA AppendedTo ==
    ASSUME NEW T, NEW s \in Seq(T), NEW e \in T
    PROVE  /\ Append(s, e) \in Seq(T) /\ Len(Append(s, e)) = Len(s) + 1
           /\ DOMAIN Append(s, e) = 1..(Len(s) + 1)
           /\ \A i \in 1..Len(s) : Append(s, e)[i] = s[i]
           /\ Append(s, e)[Len(s) + 1] = e
OBVIOUS

LEMMA JoinedIsText ==
    ASSUME NEW N, NEW batch \in TextOf(N), NEW piece \in TextOf(N)
    PROVE  /\ Joined(batch, piece) \in TextOf(N)
           /\ Joined(batch, piece).of = batch.of \cup piece.of
BY DEF TextOf, Joined, Separator

\* A batch that is last in a packing takes more, or another batch follows.
LEMMA LastChanges ==
    ASSUME NEW N \in Nat, NEW done, NEW rest, NEW batches,
           Packed(batches, N, done, rest),
           NEW piece \in TextOf(N), piece.len <= Limit, piece.of \in rest,
           \A B \in rest : Before(piece.of, B)
    PROVE  Packed(Append(batches, piece), N, done \cup piece.of, rest)
<1> DEFINE r == Append(batches, piece)
<1>1. batches \in Seq(TextOf(N))  BY DEF Packed
<1> PICK n : n = Len(batches)  OBVIOUS
<1>2. n \in Nat /\ DOMAIN batches = 1..n  BY <1>1
<1>3. /\ r \in Seq(TextOf(N)) /\ DOMAIN r = 1..(n + 1)
      /\ \A i \in 1..n : r[i] = batches[i]
      /\ r[n + 1] = piece
  BY <1>1, AppendedTo
<1> HIDE DEF r
<1>4. \A i \in DOMAIN r : \/ i \in 1..n /\ r[i] = batches[i]
                          \/ i = n + 1 /\ r[i] = piece
  <2> TAKE i \in DOMAIN r
  <2>1. i \in 1..n \/ i = n + 1
    <3>1. i \in 1..(n + 1)  BY <1>3
    <3> QED  BY <1>2, <3>1
  <2> QED  BY <1>3, <2>1
<1>5. \A i \in DOMAIN r : r[i].len <= Limit
  BY <1>2, <1>4 DEF Packed
<1>6. \A i \in DOMAIN r : \A B \in rest : Before(r[i].of, B)
  BY <1>2, <1>4 DEF Packed
<1>7. Ordered(r)
  <2> SUFFICES ASSUME NEW i \in DOMAIN r, NEW j \in DOMAIN r, i < j
               PROVE  Before(r[i].of, r[j].of)
    BY DEF Ordered
  <2>1. i \in 1..n /\ r[i] = batches[i]  BY <1>2, <1>3, <1>4
  <2>2. CASE j \in 1..n
    BY <1>2, <1>3, <2>1, <2>2 DEF Packed, Ordered
  <2>3. CASE j = n + 1
    BY <1>2, <1>3, <2>1, <2>3 DEF Packed
  <2> QED  BY <1>4, <2>2, <2>3
<1>8. Covered(r) = done \cup piece.of
  <2>1. done = UNION {batches[i].of : i \in 1..n}
    BY <1>2 DEF Packed, Covered
  <2>2. ASSUME NEW k, k \in Covered(r)
        PROVE  k \in done \cup piece.of
    <3>1. PICK i \in DOMAIN r : k \in r[i].of  BY <2>2 DEF Covered
    <3> QED  BY <1>4, <2>1, <3>1
  <2>3. ASSUME NEW k, k \in done
        PROVE  k \in Covered(r)
    <3>1. PICK i \in 1..n : k \in batches[i].of  BY <2>1, <2>3
    <3>2. i \in DOMAIN r /\ r[i] = batches[i]  BY <1>2, <1>3
    <3> QED  BY <3>1, <3>2 DEF Covered
  <2>4. ASSUME NEW k, k \in piece.of
        PROVE  k \in Covered(r)
    <3>1. n + 1 \in DOMAIN r /\ r[n + 1] = piece  BY <1>2, <1>3
    <3> QED  BY <2>4, <3>1 DEF Covered
  <2> QED  BY <2>2, <2>3, <2>4
<1>9. Packed(r, N, done \cup piece.of, rest)
  BY <1>3, <1>5, <1>6, <1>7, <1>8 DEF Packed
<1> QED  BY <1>9 DEF r

\* A packing without its last batch.
LEMMA WithoutLast ==
    ASSUME NEW N \in Nat, NEW done, NEW rest, NEW batches,
           Packed(batches, N, done, rest), batches # <<>>
    PROVE  \E before :
              /\ Packed(Front(batches), N, before, rest \cup {Last(batches).of})
              /\ done = before \cup Last(batches).of
              /\ Last(batches) \in TextOf(N)
              /\ \A B \in rest : Before(Last(batches).of, B)
<1> DEFINE f == Front(batches)
           l == Last(batches)
           before == Covered(f)
<1>1. batches \in Seq(TextOf(N))  BY DEF Packed
<1> PICK n : n = Len(batches)  OBVIOUS
<1>2. /\ n \in Nat \ {0} /\ l \in TextOf(N) /\ l = batches[n]
      /\ f \in Seq(TextOf(N)) /\ Len(f) = n - 1
      /\ \A i \in 1..(n - 1) : f[i] = batches[i]
  BY <1>1, FrontOf
<1> HIDE DEF f, l
<1>3. /\ DOMAIN f = 1..(n - 1) /\ DOMAIN batches = 1..n
      /\ n \in DOMAIN batches
      /\ \A i \in DOMAIN f : i \in DOMAIN batches /\ i < n
  BY <1>1, <1>2
<1>4. \A i \in DOMAIN f : /\ f[i].len <= Limit
                          /\ \A B \in rest : Before(f[i].of, B)
                          /\ Before(f[i].of, l.of)
  BY <1>2, <1>3 DEF Packed, Ordered
<1>5. Ordered(f)
  BY <1>2, <1>3 DEF Packed, Ordered
<1>6. Packed(f, N, before, rest \cup {l.of})
  BY <1>2, <1>4, <1>5 DEF Packed
<1>7. done = before \cup l.of
  <2>1. done = UNION {batches[i].of : i \in 1..n}
    BY <1>3 DEF Packed, Covered
  <2>2. \A i \in 1..n : i \in 1..(n - 1) \/ i = n  BY <1>2
  <2>3. before = UNION {f[i].of : i \in 1..(n - 1)}
    BY <1>3 DEF Covered
  <2>4. ASSUME NEW k, k \in done
        PROVE  k \in before \cup l.of
    <3>1. PICK i \in 1..n : k \in batches[i].of  BY <2>1, <2>4
    <3> QED  BY <1>2, <2>2, <2>3, <3>1
  <2>5. ASSUME NEW k, k \in before \cup l.of
        PROVE  k \in done
    <3>1. CASE k \in l.of
      BY <1>2, <1>3, <2>1, <3>1
    <3>2. CASE k \in before
      <4>1. PICK i \in 1..(n - 1) : k \in f[i].of  BY <2>3, <3>2
      <4>2. i \in 1..n /\ f[i] = batches[i]  BY <1>2
      <4> QED  BY <2>1, <4>1, <4>2
    <3> QED  BY <2>5, <3>1, <3>2
  <2> QED  BY <2>4, <2>5
<1>8. \A B \in rest : Before(l.of, B)
  BY <1>2, <1>3 DEF Packed
<1>9. /\ Packed(f, N, before, rest \cup {l.of}) /\ done = before \cup l.of
      /\ l \in TextOf(N) /\ \A B \in rest : Before(l.of, B)
  BY <1>2, <1>6, <1>7, <1>8
<1> HIDE DEF before
<1> QED  BY <1>9 DEF f, l

LEMMA PackKeeps ==
    ASSUME NEW N \in Nat, NEW done, NEW rest, NEW batches,
           Packed(batches, N, done, rest),
           NEW piece \in TextOf(N), piece.len <= Limit, piece.of \in rest,
           \A B \in rest : Before(piece.of, B)
    PROVE  Packed(Pack(batches, piece), N, done \cup piece.of, rest)
<1>1. CASE batches # <<>> /\ Joined(Last(batches), piece).len <= Limit
  <2> DEFINE l == Last(batches)
             j == Joined(l, piece)
  <2>0. \E before :
           /\ Packed(Front(batches), N, before, rest \cup {Last(batches).of})
           /\ done = before \cup Last(batches).of
           /\ Last(batches) \in TextOf(N)
           /\ \A B \in rest : Before(Last(batches).of, B)
    BY <1>1, WithoutLast
  <2>1. PICK before :
           /\ Packed(Front(batches), N, before, rest \cup {l.of})
           /\ done = before \cup l.of /\ l \in TextOf(N)
           /\ \A B \in rest : Before(l.of, B)
    BY <2>0
  <2>2. /\ j \in TextOf(N) /\ j.of = l.of \cup piece.of /\ j.len <= Limit
    BY <1>1, <2>1, JoinedIsText
  <2> HIDE DEF l, j
  <2>3. l.of \subseteq Nat /\ piece.of \subseteq Nat /\ j.of \subseteq Nat
    BY <2>1, <2>2 DEF TextOf
  <2>4. Packed(Front(batches), N, before, rest \cup {j.of})
    <3> PICK f : f = Front(batches)  OBVIOUS
    <3>1. Packed(f, N, before, rest \cup {l.of})  BY <2>1
    <3>2. \A i \in DOMAIN f : /\ Before(f[i].of, l.of)
                              /\ Before(f[i].of, piece.of)
                              /\ \A B \in rest : Before(f[i].of, B)
      BY <3>1 DEF Packed
    <3>3. \A i \in DOMAIN f : Before(f[i].of, j.of)
      BY <2>2, <3>2, BeforeBoth
    <3> QED  BY <3>1, <3>2, <3>3 DEF Packed
  <2>5. \A B \in rest : Before(j.of, B)
    BY <2>1, <2>2, BeforeBoth
  <2>6. Before(j.of, j.of)  BY <2>3, BeforeItself
  <2>7. Packed(Append(Front(batches), j), N, before \cup j.of, rest \cup {j.of})
    <3>1. j.of \in rest \cup {j.of}
          /\ \A B \in rest \cup {j.of} : Before(j.of, B)
      BY <2>5, <2>6
    <3> QED  BY <2>2, <2>4, <3>1, LastChanges
  <2>8. before \cup j.of = done \cup piece.of
    BY <2>1, <2>2
  <2>9. Pack(batches, piece) = Append(Front(batches), j)
    BY <1>1 DEF Pack, l, j
  <2> QED  BY <2>7, <2>8, <2>9 DEF Packed
<1>2. CASE ~ (batches # <<>> /\ Joined(Last(batches), piece).len <= Limit)
  <2>1. Pack(batches, piece) = Append(batches, piece)  BY <1>2 DEF Pack
  <2>2. Packed(Append(batches, piece), N, done \cup piece.of, rest)
    BY LastChanges
  <2> QED  BY <2>1, <2>2
<1> QED  BY <1>1, <1>2

-----------------------------------------------------------------------------
(* The loops of _partition.                                                *)

LEMMA PackIsBatches ==
    ASSUME NEW N \in Nat, NEW batches \in Seq(TextOf(N)),
           NEW piece \in TextOf(N)
    PROVE  Pack(batches, piece) \in Seq(TextOf(N))
<1>1. CASE batches # <<>> /\ Joined(Last(batches), piece).len <= Limit
  <2>1. /\ Front(batches) \in Seq(TextOf(N))
        /\ Last(batches) \in TextOf(N)
    BY <1>1, FrontOf
  <2>2. Joined(Last(batches), piece) \in TextOf(N)  BY <2>1, JoinedIsText
  <2>3. Append(Front(batches), Joined(Last(batches), piece)) \in Seq(TextOf(N))
    BY <2>1, <2>2, AppendedTo
  <2> QED  BY <1>1, <2>3 DEF Pack
<1>2. CASE ~ (batches # <<>> /\ Joined(Last(batches), piece).len <= Limit)
  <2>1. Append(batches, piece) \in Seq(TextOf(N))  BY AppendedTo
  <2> QED  BY <1>2, <2>1 DEF Pack
<1> QED  BY <1>1, <1>2

\* The batches after each piece of a section.
PackTurns(g, batches, pieces) ==
    g = [n \in 0..Len(pieces) |->
            IF n = 0 THEN batches ELSE Pack(g[n - 1], pieces[n])]

LEMMA PackAllTurns ==
    ASSUME NEW N \in Nat, NEW batches \in Seq(TextOf(N)),
           NEW pieces \in Seq(TextOf(N))
    PROVE  \E g \in [0..Len(pieces) -> Seq(TextOf(N))] :
              /\ PackTurns(g, batches, pieces)
              /\ PackAll(batches, pieces) = g[Len(pieces)]
<1> DEFINE X == Seq(TextOf(N))
           F == [q \in X \X Nat |-> IF q[2] \in DOMAIN pieces
                                    THEN Pack(q[1], pieces[q[2]]) ELSE q[1]]
<1> PICK m : m = Len(pieces)  OBVIOUS
<1>1. m \in Nat /\ DOMAIN pieces = 1..m
      /\ \A n \in 1..m : pieces[n] \in TextOf(N)
  OBVIOUS
<1>2. F \in [X \X Nat -> X]
  <2> SUFFICES ASSUME NEW q \in X \X Nat
               PROVE  (IF q[2] \in DOMAIN pieces
                       THEN Pack(q[1], pieces[q[2]]) ELSE q[1]) \in X
    BY Zenon
  <2>1. q[1] \in X /\ q[2] \in Nat  OBVIOUS
  <2>2. q[2] \in DOMAIN pieces => pieces[q[2]] \in TextOf(N)  BY <1>1
  <2>3. q[2] \in DOMAIN pieces => Pack(q[1], pieces[q[2]]) \in X
    BY <2>1, <2>2, PackIsBatches
  <2> QED  BY <2>1, <2>3
<1>3. PICK g \in [0..m -> X] : Loop(g, batches, F, m)
  <2> HIDE DEF F
  <2> QED  BY <1>1, <1>2, LoopExists
<1>4. \A n \in 1..m : F[<<g[n - 1], n>>] = Pack(g[n - 1], pieces[n])
  <2> TAKE n \in 1..m
  <2>1. n - 1 \in 0..m /\ n \in Nat /\ n \in DOMAIN pieces
    BY <1>1
  <2>2. <<g[n - 1], n>> \in X \X Nat  BY <2>1
  <2> QED  BY <2>1, <2>2
<1>5. PackTurns(g, batches, pieces)
  <2> HIDE DEF F
  <2>1. \A n \in 0..m : n = 0 \/ n \in 1..m  BY <1>1
  <2> QED  BY <1>3, <1>4, <2>1 DEF Loop, PackTurns
<1>6. PackAll(batches, pieces)
         = (CHOOSE e : PackTurns(e, batches, pieces))[Len(pieces)]
  BY DEF PackAll, PackTurns
<1>7. PICK h : h = CHOOSE e : PackTurns(e, batches, pieces)
  OBVIOUS
<1>8. PackTurns(h, batches, pieces)  BY <1>5, <1>7
<1>9. h \in [0..m -> X]
  <2> DEFINE S == {n \in 0..m : h[n] \in X}
  <2>1. \A n \in 0..m :
           h[n] = IF n = 0 THEN batches ELSE Pack(h[n - 1], pieces[n])
    BY <1>8 DEF PackTurns
  <2>2. 0 \in S  BY <1>1, <2>1
  <2>3. ASSUME NEW n \in 1..m, n - 1 \in S
        PROVE  n \in S
    <3>1. h[n - 1] \in X /\ pieces[n] \in TextOf(N)  BY <1>1, <2>3
    <3>2. Pack(h[n - 1], pieces[n]) \in X  BY <3>1, PackIsBatches
    <3>3. n \in 0..m /\ n # 0  BY <1>1
    <3> QED  BY <2>1, <3>2, <3>3
  <2>4. \A n \in 0..m : n \in S
    <3> HIDE DEF S
    <3> QED  BY <1>1, <2>2, <2>3, EveryTurn
  <2>5. \A n \in 0..m : h[n] \in X  BY <2>4
  <2>6. DOMAIN h = 0..m /\ h = [n \in 0..m |-> h[n]]
    BY <1>8 DEF PackTurns
  <2> QED  BY <2>5, <2>6
<1> QED  BY <1>6, <1>7, <1>8, <1>9

\* The pieces of the first section of the rest.
LEMMA PackAllKeeps ==
    ASSUME NEW N \in Nat, NEW done, NEW rest, NEW batches,
           Packed(batches, N, done, rest),
           NEW A \in rest, \A B \in rest : Before(A, B),
           NEW pieces \in Seq(TextOf(N)), pieces # <<>>,
           \A i \in DOMAIN pieces : pieces[i].of = A /\ pieces[i].len <= Limit
    PROVE  Packed(PackAll(batches, pieces), N, done \cup A, rest)
<1>1. batches \in Seq(TextOf(N))  BY DEF Packed
<1> PICK m : m = Len(pieces)  OBVIOUS
<1>2. /\ m \in Nat \ {0} /\ m \in 0..m
      /\ DOMAIN pieces = 1..m
      /\ \A n \in 1..m : pieces[n] \in TextOf(N)
  OBVIOUS
<1>3. PICK g \in [0..m -> Seq(TextOf(N))] :
         PackTurns(g, batches, pieces) /\ PackAll(batches, pieces) = g[m]
  BY <1>1, PackAllTurns
<1>4. \A n \in 0..m :
         g[n] = IF n = 0 THEN batches ELSE Pack(g[n - 1], pieces[n])
  BY <1>3 DEF PackTurns
<1> DEFINE S == {n \in 0..m : n = 0 \/ Packed(g[n], N, done \cup A, rest)}
<1>5. 0 \in S  BY <1>2
<1>6. ASSUME NEW n \in 1..m, n - 1 \in S
      PROVE  n \in S
  <2>1. /\ pieces[n] \in TextOf(N) /\ pieces[n].of = A
        /\ pieces[n].len <= Limit
        /\ n - 1 \in 0..m /\ n \in 0..m /\ n # 0
    BY <1>2
  <2>2. g[n] = Pack(g[n - 1], pieces[n])  BY <1>4, <2>1
  <2>3. \/ Packed(g[n - 1], N, done, rest)
        \/ Packed(g[n - 1], N, done \cup A, rest)
    BY <1>4, <1>6, <2>1
  <2>4. \/ Packed(g[n], N, done \cup A, rest)
        \/ Packed(g[n], N, (done \cup A) \cup A, rest)
    <3> PICK piece : piece = pieces[n]  OBVIOUS
    <3>1. /\ piece \in TextOf(N) /\ piece.of = A /\ piece.len <= Limit
          /\ piece.of \in rest /\ \A B \in rest : Before(piece.of, B)
      BY <2>1
    <3>2. CASE Packed(g[n - 1], N, done, rest)
      <4>1. Packed(Pack(g[n - 1], piece), N, done \cup piece.of, rest)
        BY <3>1, <3>2, PackKeeps
      <4> QED  BY <2>2, <3>1, <4>1
    <3>3. CASE Packed(g[n - 1], N, done \cup A, rest)
      <4>1. Packed(Pack(g[n - 1], piece), N, (done \cup A) \cup piece.of, rest)
        BY <3>1, <3>3, PackKeeps
      <4> QED  BY <2>2, <3>1, <4>1
    <3> QED  BY <2>3, <3>2, <3>3
  <2>5. (done \cup A) \cup A = done \cup A  OBVIOUS
  <2>6. Packed(g[n], N, done \cup A, rest)  BY <2>4, <2>5
  <2> QED  BY <2>1, <2>6
<1>7. \A n \in 0..m : n \in S
  <2> HIDE DEF S
  <2> QED  BY <1>2, <1>5, <1>6, EveryTurn
<1> QED  BY <1>2, <1>3, <1>7

\* The batches after each section.
PartitionTurns(g, sections) ==
    g = [n \in 0..Len(sections) |->
            IF n = 0 THEN <<>>
            ELSE PackAll(g[n - 1], SplitSection(sections[n]))]

LEMMA PackAllIsBatches ==
    ASSUME NEW N \in Nat, NEW batches \in Seq(TextOf(N)),
           NEW section \in TextOf(N)
    PROVE  PackAll(batches, SplitSection(section)) \in Seq(TextOf(N))
<1> PICK pieces : pieces = SplitSection(section)  OBVIOUS
<1>1. pieces \in Seq(TextOf(N))  BY SplitFits
<1>2. PICK g \in [0..Len(pieces) -> Seq(TextOf(N))] :
         PackAll(batches, pieces) = g[Len(pieces)]
  BY <1>1, PackAllTurns
<1>3. Len(pieces) \in 0..Len(pieces)  BY <1>1
<1> QED  BY <1>2, <1>3

LEMMA PartitionInTurns ==
    ASSUME NEW N \in Nat, NEW sections \in Seq(TextOf(N))
    PROVE  \E g : /\ PartitionTurns(g, sections)
                  /\ Partition(sections) = g[Len(sections)]
<1> DEFINE X == Seq(TextOf(N))
           F == [q \in X \X Nat |->
                    IF q[2] \in DOMAIN sections
                    THEN PackAll(q[1], SplitSection(sections[q[2]])) ELSE q[1]]
<1> PICK m : m = Len(sections)  OBVIOUS
<1>1. m \in Nat /\ DOMAIN sections = 1..m
      /\ \A n \in 1..m : sections[n] \in TextOf(N)
  OBVIOUS
<1>2. F \in [X \X Nat -> X]
  <2> SUFFICES ASSUME NEW q \in X \X Nat
               PROVE  (IF q[2] \in DOMAIN sections
                       THEN PackAll(q[1], SplitSection(sections[q[2]]))
                       ELSE q[1]) \in X
    BY Zenon
  <2>1. q[1] \in X /\ q[2] \in Nat  OBVIOUS
  <2>2. q[2] \in DOMAIN sections => sections[q[2]] \in TextOf(N)  BY <1>1
  <2>3. q[2] \in DOMAIN sections =>
           PackAll(q[1], SplitSection(sections[q[2]])) \in X
    BY <2>1, <2>2, PackAllIsBatches
  <2> QED  BY <2>1, <2>3
<1>3. <<>> \in X  OBVIOUS
<1>4. PICK g \in [0..m -> X] : Loop(g, <<>>, F, m)
  <2> HIDE DEF F
  <2> QED  BY <1>1, <1>2, <1>3, LoopExists
<1>5. \A n \in 1..m :
         F[<<g[n - 1], n>>] = PackAll(g[n - 1], SplitSection(sections[n]))
  <2> TAKE n \in 1..m
  <2>1. n - 1 \in 0..m /\ n \in Nat /\ n \in DOMAIN sections
    BY <1>1
  <2>2. <<g[n - 1], n>> \in X \X Nat  BY <2>1
  <2> QED  BY <2>1, <2>2
<1>6. PartitionTurns(g, sections)
  <2> HIDE DEF F
  <2>1. \A n \in 0..m : n = 0 \/ n \in 1..m  BY <1>1
  <2> QED  BY <1>4, <1>5, <2>1 DEF Loop, PartitionTurns
<1>7. Partition(sections)
         = (CHOOSE e : PartitionTurns(e, sections))[Len(sections)]
  BY DEF Partition, PartitionTurns
<1>8. PICK h : h = CHOOSE e : PartitionTurns(e, sections)
  OBVIOUS
<1>9. PartitionTurns(h, sections)  BY <1>6, <1>8
<1> QED  BY <1>7, <1>8, <1>9

\* Packing is kept when less is to follow.
LEMMA LessFollows ==
    ASSUME NEW N, NEW done, NEW rest, NEW less, NEW batches,
           less \subseteq rest, Packed(batches, N, done, rest)
    PROVE  Packed(batches, N, done, less)
BY DEF Packed

\* The batches of the evidence hold all of it, in order, and fit.
LEMMA PartitionKeeps ==
    ASSUME NEW N \in Nat, NEW sections \in Seq(TextOf(N)), Ordered(sections)
    PROVE  Packed(Partition(sections), N, Covered(sections), {})
<1> PICK m : m = Len(sections)  OBVIOUS
<1>1. /\ m \in Nat /\ m \in 0..m
      /\ DOMAIN sections = 1..m
      /\ \A n \in 1..m : sections[n] \in TextOf(N)
  OBVIOUS
<1>2. PICK g : /\ PartitionTurns(g, sections)
               /\ Partition(sections) = g[m]
  BY PartitionInTurns
<1>3. \A n \in 0..m :
         g[n] = IF n = 0 THEN <<>>
                ELSE PackAll(g[n - 1], SplitSection(sections[n]))
  BY <1>2 DEF PartitionTurns
<1> DEFINE Done(n) == UNION {sections[i].of : i \in 1..n}
           Rest(n) == {sections[i].of : i \in (n + 1)..m}
           S == {n \in 0..m : Packed(g[n], N, Done(n), Rest(n))}
<1>4. 0 \in S
  <2>1. /\ g[0] = <<>> /\ <<>> \in Seq(TextOf(N)) /\ DOMAIN <<>> = {}
        /\ Done(0) = {}
    BY <1>1, <1>3
  <2>2. Packed(<<>>, N, {}, Rest(0))
    <3> PICK s : s = <<>>  OBVIOUS
    <3>1. s \in Seq(TextOf(N)) /\ DOMAIN s = {}  BY <2>1
    <3>2. Ordered(s)  BY <3>1 DEF Ordered
    <3>3. Covered(s) = {}  BY <3>1 DEF Covered
    <3> HIDE DEF Rest
    <3>4. Packed(s, N, {}, Rest(0))  BY <3>1, <3>2, <3>3 DEF Packed
    <3> QED  BY <3>4
  <2> HIDE DEF Done, Rest
  <2>3. 0 \in 0..m /\ Packed(g[0], N, Done(0), Rest(0))
    <3>1. 0 \in 0..m  BY <1>1
    <3>2. Packed(g[0], N, Done(0), Rest(0))  BY <2>1, <2>2, Zenon
    <3> QED  BY <3>1, <3>2
  <2> QED  BY <2>3
<1>5. ASSUME NEW n \in 1..m, n - 1 \in S
      PROVE  n \in S
  <2> PICK section : section = sections[n]  OBVIOUS
  <2> PICK pieces : pieces = SplitSection(section)  OBVIOUS
  <2>1. /\ section \in TextOf(N)
        /\ n - 1 \in 0..m /\ n \in 0..m /\ n # 0
        /\ g[n] = PackAll(g[n - 1], pieces)
    <3>1. n - 1 \in 0..m /\ n \in 0..m /\ n # 0  BY <1>1
    <3> QED  BY <1>1, <1>3, <3>1
  <2>2. /\ pieces \in Seq(TextOf(N)) /\ pieces # <<>>
        /\ \A i \in DOMAIN pieces :
              pieces[i].of = section.of /\ pieces[i].len <= Limit
    BY <2>1, SplitFits
  <2>3. section.of \in Rest(n - 1) /\ Rest(n) \subseteq Rest(n - 1)
    <3>1. n \in ((n - 1) + 1)..m
          /\ (n + 1)..m \subseteq ((n - 1) + 1)..m
      BY <1>1
    <3> QED  BY <3>1
  <2>4. \A B \in Rest(n - 1) : Before(section.of, B)
    <3> TAKE B \in Rest(n - 1)
    <3>1. PICK i \in ((n - 1) + 1)..m : B = sections[i].of  OBVIOUS
    <3>2. i \in 1..m /\ (i = n \/ n < i)  BY <1>1
    <3>3. section.of \subseteq Nat  BY <2>1 DEF TextOf
    <3>4. CASE i = n
      BY <3>1, <3>3, <3>4, BeforeItself
    <3>5. CASE n < i
      BY <1>1, <3>1, <3>2, <3>5 DEF Ordered
    <3> QED  BY <3>2, <3>4, <3>5
  <2>5. Done(n - 1) \cup section.of = Done(n)
    <3>1. \A i \in 1..n : i \in 1..(n - 1) \/ i = n  BY <1>1
    <3>2. 1..(n - 1) \subseteq 1..n /\ n \in 1..n  BY <1>1
    <3> QED  BY <3>1, <3>2
  <2>6. Packed(g[n - 1], N, Done(n - 1), Rest(n - 1))
    BY <1>5
  <2> HIDE DEF Done, Rest
  <2>7. Packed(g[n], N, Done(n - 1) \cup section.of, Rest(n - 1))
    BY <2>1, <2>2, <2>3, <2>4, <2>6, PackAllKeeps
  <2>8. Packed(g[n], N, Done(n), Rest(n))
    BY <2>3, <2>5, <2>7, LessFollows
  <2> QED  BY <2>1, <2>8
<1>6. \A n \in 0..m : n \in S
  <2> HIDE DEF S
  <2> QED  BY <1>1, <1>4, <1>5, EveryTurn
<1>7. Packed(g[m], N, Done(m), Rest(m))  BY <1>1, <1>6
<1>8. Done(m) = Covered(sections)  BY <1>1 DEF Covered
<1>9. {} \subseteq Rest(m)  OBVIOUS
<1> HIDE DEF Done, Rest
<1>10. Packed(g[m], N, Covered(sections), {})
  BY <1>7, <1>8, <1>9, LessFollows
<1> QED  BY <1>2, <1>10

-----------------------------------------------------------------------------
(* The sections of a round and the requests made of them.                  *)

\* Sections 1 to N went into the texts, and they are in their order.
Evidence(sections, N) ==
    /\ N \in Nat
    /\ sections \in Seq(TextOf(N))
    /\ Ordered(sections)
    /\ Covered(sections) = 1..N

\* A set of section numbers has a first and a last.
LEMMA FirstAndLast ==
    ASSUME NEW N \in Nat, NEW A \in (SUBSET (1..N)) \ {{}}
    PROVE  /\ Min(A) \in A /\ \A k \in A : Min(A) <= k
           /\ Max(A) \in A /\ \A k \in A : k <= Max(A)
<1>0. \A k \in A : k \in 1..N /\ k \in Nat
  <2>1. A \subseteq 1..N /\ 1..N \subseteq Nat  OBVIOUS
  <2> QED  BY <2>1
<1> PICK e \in A : TRUE
  <2>1. A # {}  BY Zenon
  <2>2. \E e \in A : TRUE
    <3> SUFFICES ASSUME \A e \in A : FALSE PROVE FALSE  OBVIOUS
    <3>1. A = {}  OBVIOUS
    <3> QED  BY <2>1, <3>1
  <2> QED  BY <2>2
<1>1. \E x \in A : \A y \in A : x <= y
  <2>1. A \subseteq Nat /\ A # {}  BY <1>0, Zenon
  <2> QED  BY <2>1, LeastNumber
<1>2. \E x \in A : \A y \in A : x >= y
  <2> DEFINE B == {N - k : k \in A}
  <2>1. B \subseteq Nat /\ B # {}
    <3>1. \A k \in A : N - k \in Nat  BY <1>0
    <3>2. N - e \in B  BY Zenon
    <3> QED  BY <3>1, <3>2, Zenon
  <2>2. PICK b \in B : \A c \in B : b <= c
    <3> HIDE DEF B
    <3> QED  BY <2>1, LeastNumber
  <2>3. PICK x \in A : b = N - x  BY <2>2
  <2>4. \A y \in A : x >= y
    <3> TAKE y \in A
    <3>1. N - y \in B  OBVIOUS
    <3>2. N - x <= N - y  BY <2>2, <2>3, <3>1
    <3>3. x \in 1..N /\ y \in 1..N  BY <1>0
    <3> QED  BY <3>2, <3>3
  <2> QED  BY <2>4
<1>3. Min(A) \in A /\ \A y \in A : Min(A) <= y
  BY <1>1 DEF Min
<1>4. Max(A) \in A /\ \A y \in A : Max(A) >= y
  BY <1>2 DEF Max
<1>6. \A k \in A : k <= Max(A)  BY <1>0, <1>4
<1> QED  BY <1>3, <1>4, <1>6

LEMMA BeforeByEnds ==
    ASSUME NEW N \in Nat, NEW A \in (SUBSET (1..N)) \ {{}},
           NEW B \in (SUBSET (1..N)) \ {{}}, Before(A, B)
    PROVE  Min(A) <= Min(B) /\ Max(A) <= Max(B)
<1>1. /\ Min(A) \in A /\ Max(A) \in A /\ Min(B) \in B /\ Max(B) \in B
      /\ \A k \in A : Min(A) <= k
      /\ \A k \in B : k <= Max(B)
  BY FirstAndLast, Zenon
<1>2. \A k \in A \cup B : k \in Nat
  <2>1. A \subseteq 1..N /\ B \subseteq 1..N /\ 1..N \subseteq Nat
    OBVIOUS
  <2> QED  BY <2>1
<1>3. PICK a \in A : a <= Min(B)  BY <1>1 DEF Before
<1>4. PICK b \in B : Max(A) <= b  BY <1>1 DEF Before
<1>5. Min(A) <= a /\ b <= Max(B)  BY <1>1
<1>6. /\ Min(A) \in Nat /\ Max(A) \in Nat /\ Min(B) \in Nat
      /\ Max(B) \in Nat /\ a \in Nat /\ b \in Nat
  BY <1>1, <1>2
<1> QED  BY <1>3, <1>4, <1>5, <1>6

\* What the client's check lets through: the prompt and the answer fit.
PassesCheck(text) == BytesPerChar * text.len + PromptReserve
                 <= Context - MaxOutput - InputReserve

LEMMA LimitFits ==
    ASSUME NEW N, NEW text \in TextOf(N), text.len <= Limit
    PROVE  PassesCheck(text)
<1> DEFINE room == Context - MaxOutput - InputReserve - PromptReserve
<1>1. room \in Int
  BY ReductionAssumption DEF InputReserve, PromptReserve
<1>2. text.len \in Nat /\ text.len <= InputBudget
  <2>1. text.len \in Nat  BY DEF TextOf
  <2>2. InputBudget \in Int  BY <1>1 DEF InputBudget, BytesPerChar
  <2> QED  BY <2>1, <2>2, LimitIsANumber
<1>3. InputBudget = room \div 4  BY DEF InputBudget, BytesPerChar
<1>4. 4 * (room \div 4) <= room  BY <1>1
<1>5. 4 * text.len <= room  BY <1>1, <1>2, <1>3, <1>4
<1> QED
  BY <1>2, <1>5, ReductionAssumption
  DEF PassesCheck, BytesPerChar, InputReserve, PromptReserve

\* The batches of a round of evidence.
LEMMA BatchesAreFaithful ==
    ASSUME NEW N, NEW sections, Evidence(sections, N),
           NEW batches, batches = Partition(sections)
    PROVE  /\ batches \in Seq(TextOf(N))
           /\ Covered(batches) = 1..N
           /\ Ordered(batches)
           /\ \A i, j \in DOMAIN batches :
                 i < j => /\ Min(batches[i].of) <= Min(batches[j].of)
                          /\ Max(batches[i].of) <= Max(batches[j].of)
           /\ \A i \in DOMAIN batches : PassesCheck(batches[i])
<1>1. N \in Nat  BY DEF Evidence
<1>2. Packed(batches, N, 1..N, {})
  BY PartitionKeeps DEF Evidence
<1>3. /\ batches \in Seq(TextOf(N)) /\ Ordered(batches)
      /\ Covered(batches) = 1..N
      /\ \A i \in DOMAIN batches : batches[i].len <= Limit
  BY <1>2 DEF Packed
<1>4. \A i \in DOMAIN batches : batches[i] \in TextOf(N)  BY <1>3
<1>5. \A i \in DOMAIN batches : batches[i].of \in (SUBSET (1..N)) \ {{}}
  BY <1>4 DEF TextOf
<1>6. ASSUME NEW i \in DOMAIN batches, NEW j \in DOMAIN batches, i < j
      PROVE  /\ Min(batches[i].of) <= Min(batches[j].of)
             /\ Max(batches[i].of) <= Max(batches[j].of)
  <2>1. Before(batches[i].of, batches[j].of)  BY <1>3, <1>6 DEF Ordered
  <2> QED  BY <1>1, <1>5, <2>1, BeforeByEnds
<1>7. \A i \in DOMAIN batches : PassesCheck(batches[i])
  BY <1>3, <1>4, LimitFits
<1> QED  BY <1>3, <1>6, <1>7

\* The first round has every section of evidence as it is.
LEMMA RenderedEvidence ==
    ASSUME NEW lengths \in Seq(Nat), NEW sections,
           sections = [i \in DOMAIN lengths |-> [len |-> lengths[i], of |-> {i}]]
    PROVE  Evidence(sections, Len(lengths))
<1> PICK m : m = Len(lengths)  OBVIOUS
<1>1. m \in Nat /\ DOMAIN lengths = 1..m
      /\ \A i \in 1..m : lengths[i] \in Nat
  OBVIOUS
<1>2. \A i \in 1..m : /\ sections[i] = [len |-> lengths[i], of |-> {i}]
                      /\ sections[i].of = {i}
  BY <1>1
<1>3. \A i \in 1..m : sections[i] \in TextOf(m)
  <2> TAKE i \in 1..m
  <2>1. {i} \in (SUBSET (1..m)) \ {{}}
    <3>1. {i} \subseteq 1..m /\ i \in {i}  OBVIOUS
    <3>2. {i} # {}  BY <3>1
    <3> QED  BY <3>1, <3>2, Zenon
  <2>2. lengths[i] \in Nat  BY <1>1
  <2>3. [len |-> lengths[i], of |-> {i}] \in TextOf(m)
    BY <2>1, <2>2 DEF TextOf
  <2> QED  BY <1>2, <2>3
<1>4. sections \in Seq(TextOf(m)) /\ DOMAIN sections = 1..m
  <2>1. sections \in [1..m -> TextOf(m)]  BY <1>1, <1>3
  <2> QED  BY <1>1, <2>1
<1>5. Ordered(sections)
  <2> SUFFICES ASSUME NEW i \in 1..m, NEW j \in 1..m, i < j
               PROVE  Before(sections[i].of, sections[j].of)
    BY <1>4 DEF Ordered
  <2>1. i <= j  BY <1>1
  <2> QED  BY <1>2, <2>1 DEF Before
<1>6. Covered(sections) = 1..m
  BY <1>2, <1>4 DEF Covered
<1> QED  BY <1>1, <1>4, <1>5, <1>6 DEF Evidence

\* The next round has the batches of this one, each under its header.
LEMMA NextRoundOfEvidence ==
    ASSUME NEW N, NEW sections, Evidence(sections, N),
           NEW batches, batches = Partition(sections),
           NEW lengths, \A i \in DOMAIN batches : lengths[i] \in Nat,
           NEW round
    PROVE  Evidence(NextSections(batches, lengths, round), N)
<1> PICK next : next = NextSections(batches, lengths, round)  OBVIOUS
<1>1. /\ N \in Nat /\ batches \in Seq(TextOf(N))
      /\ Covered(batches) = 1..N /\ Ordered(batches)
  BY BatchesAreFaithful DEF Evidence
<1> PICK m : m = Len(batches)  OBVIOUS
<1>2. m \in Nat /\ DOMAIN batches = 1..m
      /\ \A i \in 1..m : batches[i] \in TextOf(N)
  BY <1>1
<1>3. /\ DOMAIN next = 1..m
      /\ \A i \in 1..m :
            next[i] = [len |-> MarkerLength(round, i) + lengths[i],
                       of |-> batches[i].of]
  BY <1>2 DEF NextSections
<1>4. \A i \in 1..m : /\ next[i] \in TextOf(N)
                      /\ next[i].of = batches[i].of
  <2> TAKE i \in 1..m
  <2>1. MarkerLength(round, i) \in Nat  BY MarkersFit
  <2>2. MarkerLength(round, i) + lengths[i] \in Nat  BY <1>2, <2>1
  <2>3. batches[i].of \in (SUBSET (1..N)) \ {{}}  BY <1>2 DEF TextOf
  <2> QED  BY <1>3, <2>2, <2>3 DEF TextOf
<1>5. next \in Seq(TextOf(N))
  <2>1. next = [i \in 1..m |-> next[i]]
    BY <1>2 DEF NextSections
  <2>2. next \in [1..m -> TextOf(N)]  BY <1>4, <2>1
  <2> QED  BY <1>2, <2>2
<1>6. Ordered(next)
  BY <1>1, <1>2, <1>3, <1>4 DEF Ordered
<1>7. Covered(next) = 1..N
  BY <1>1, <1>2, <1>3, <1>4 DEF Covered
<1> QED  BY <1>1, <1>5, <1>6, <1>7 DEF Evidence

=============================================================================
