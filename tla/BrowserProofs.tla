---------------------------- MODULE BrowserProofs ----------------------------
(***************************************************************************)
(* Theorems about what the browser keeps of the server: the lists of       *)
(* SearchPages, for any rows, filters, page size and number of acts, then  *)
(* the session of Session, for any number of accounts, calls, tokens and   *)
(* clicks.  The two parts share this file and no definition.               *)
(***************************************************************************)
EXTENDS Session, SearchPages, FiniteSetTheorems, SequenceTheorems, TLAPS

-----------------------------------------------------------------------------
(* Lists: what FlattenSeq, which the pages are put together with, returns. *)

(* Induction without an operator for a parameter: a set of numbers.        *)
LEMMA Climb ==
  ASSUME NEW S, 0 \in S, \A n \in Nat : n \in S => n + 1 \in S
  PROVE  Nat \subseteq S
  <1> SUFFICES ASSUME Nat \ S # {} PROVE FALSE
    OBVIOUS
  <1> DEFINE T == Nat \ S
             R == OpToRel(<, Nat)
  <1>1. PICK m \in T : \A n \in T : ~(<<n, m>> \in R)
    <2>1. IsWellFoundedOn(R, Nat)
      BY NatLessThanWellFounded
    <2> HIDE DEF R
    <2> QED
      BY <2>1, WFMin
  <1>2. \A n \in T : ~(n < m)
    BY <1>1 DEF OpToRel
  <1>3. m # 0 /\ m - 1 \in Nat
    OBVIOUS
  <1>4. m - 1 \in S
    BY <1>2, <1>3
  <1> QED
    BY <1>3, <1>4

(* f is what FlattenSeq builds up over the first n of the sequences ss.    *)
Builds(f, ss, n) ==
  \A i \in 1..n : f[i] = IF i = 1 THEN ss[i] ELSE f[i-1] \o ss[i]

LEMMA SomethingBuilds ==
  ASSUME NEW U, NEW ss \in Seq(Seq(U)), NEW n \in 0..Len(ss)
  PROVE  \E f \in [1..n -> Seq(U)] : Builds(f, ss, n)
  <1> DEFINE S == {m \in Nat : m <= Len(ss) => \E f \in [1..m -> Seq(U)] : Builds(f, ss, m)}
  <1>1. 0 \in S
    <2> DEFINE f == [i \in 1..0 |-> <<>>]
    <2>1. f \in [1..0 -> Seq(U)] /\ 1..0 = {}
      OBVIOUS
    <2>2. Builds(f, ss, 0)
      BY <2>1 DEF Builds
    <2> HIDE DEF f
    <2>3. \E x \in [1..0 -> Seq(U)] : Builds(x, ss, 0)
      BY <2>1, <2>2
    <2> QED
      BY <2>3
  <1>2. ASSUME NEW m \in Nat, m \in S PROVE m + 1 \in S
    <2> SUFFICES ASSUME m + 1 <= Len(ss)
                 PROVE  \E f \in [1..m+1 -> Seq(U)] : Builds(f, ss, m + 1)
      OBVIOUS
    <2>1. PICK g \in [1..m -> Seq(U)] : Builds(g, ss, m)
      BY <1>2
    <2>2. ss[m+1] \in Seq(U)
      OBVIOUS
    <2> DEFINE last == IF m = 0 THEN ss[m+1] ELSE g[m] \o ss[m+1]
    <2>3. last \in Seq(U)
      <3>1. CASE m = 0
        BY <2>2, <3>1
      <3>2. CASE m # 0
        <4>1. g[m] \in Seq(U)
          BY <3>2
        <4>2. last = g[m] \o ss[m+1]
          BY <3>2
        <4> HIDE DEF last
        <4> QED
          BY <4>1, <4>2, <2>2, ConcatProperties
      <3> QED
        BY <3>1, <3>2
    <2> HIDE DEF last
    <2> DEFINE f == [i \in 1..m+1 |-> IF i = m + 1 THEN last ELSE g[i]]
    <2>4. f \in [1..m+1 -> Seq(U)]
      BY <2>3
    <2>5. ASSUME NEW i \in 1..m+1 PROVE f[i] = IF i = 1 THEN ss[i] ELSE f[i-1] \o ss[i]
      <3>1. CASE i = m + 1
        <4>1. i # 1 => f[i-1] = g[m]
          BY <3>1
        <4>2. last = IF i = 1 THEN ss[i] ELSE g[m] \o ss[i]
          BY <3>1 DEF last
        <4> QED
          BY <3>1, <4>1, <4>2
      <3>2. CASE i # m + 1
        <4>1. i \in 1..m /\ f[i] = g[i]
          BY <3>2
        <4>2. i # 1 => i - 1 \in 1..m /\ f[i-1] = g[i-1]
          BY <4>1
        <4>3. g[i] = IF i = 1 THEN ss[i] ELSE g[i-1] \o ss[i]
          BY <2>1, <4>1 DEF Builds
        <4> QED
          BY <4>1, <4>2, <4>3
      <3> QED
        BY <3>1, <3>2
    <2>6. Builds(f, ss, m + 1)
      BY <2>5 DEF Builds
    <2> QED
      BY <2>4, <2>6
  <1> HIDE DEF S
  <1>3. Nat \subseteq S
    BY <1>1, <1>2, Climb
  <1>4. n \in S
    BY <1>3
  <1> QED
    BY <1>4 DEF S

LEMMA OneBuilds ==
  ASSUME NEW f, NEW g, NEW ss, NEW n \in Nat, Builds(f, ss, n), Builds(g, ss, n), NEW j \in 1..n
  PROVE  f[j] = g[j]
  <1> DEFINE S == {m \in Nat : m + 1 <= n => f[m+1] = g[m+1]}
  <1>1. 0 \in S
    BY DEF Builds
  <1>2. ASSUME NEW m \in Nat, m \in S PROVE m + 1 \in S
    <2> SUFFICES ASSUME m + 2 <= n PROVE f[m+2] = g[m+2]
      OBVIOUS
    <2>1. f[m+1] = g[m+1]
      BY <1>2
    <2>2. m + 2 \in 1..n /\ m + 2 # 1 /\ (m + 2) - 1 = m + 1
      OBVIOUS
    <2> QED
      BY <2>1, <2>2 DEF Builds
  <1> HIDE DEF S
  <1>3. Nat \subseteq S
    BY <1>1, <1>2, Climb
  <1>4. j - 1 \in S
    BY <1>3
  <1> QED
    BY <1>4 DEF S

LEMMA FlattenSeqBuilt ==
  ASSUME NEW U, NEW ss \in Seq(Seq(U)), ss # <<>>
  PROVE  \E f \in [1..Len(ss) -> Seq(U)] : Builds(f, ss, Len(ss)) /\ FlattenSeq(ss) = f[Len(ss)]
  <1> DEFINE Step(f) == [i \in 1..Len(ss) |-> IF i = 1 THEN ss[i] ELSE f[i-1] \o ss[i]]
             flatten == CHOOSE f : f = Step(f)
  <1>1. PICK f \in [1..Len(ss) -> Seq(U)] : Builds(f, ss, Len(ss))
    BY SomethingBuilds
  <1>2. f = Step(f)
    BY <1>1 DEF Builds
  <1>3. flatten = Step(flatten)
    BY <1>2
  <1>4. FlattenSeq(ss) = flatten[Len(ss)]
    BY DEF FlattenSeq
  <1>5. Builds(flatten, ss, Len(ss))
    <2> HIDE DEF flatten
    <2> QED
      BY <1>3 DEF Builds
  <1> HIDE DEF flatten
  <1>6. Len(ss) \in 1..Len(ss)
    OBVIOUS
  <1>7. flatten[Len(ss)] = f[Len(ss)]
    BY <1>1, <1>5, <1>6, OneBuilds
  <1> QED
    BY <1>1, <1>4, <1>7

(* FlattenSeq of one more sequence.                                        *)
LEMMA FlattenSeqAppend ==
  ASSUME NEW U, NEW ss \in Seq(Seq(U)), NEW s \in Seq(U)
  PROVE  /\ FlattenSeq(ss) \in Seq(U)
         /\ FlattenSeq(Append(ss, s)) = FlattenSeq(ss) \o s
  <1> DEFINE tt == Append(ss, s)
  <1>1. /\ tt \in Seq(Seq(U)) /\ tt # <<>> /\ Len(tt) = Len(ss) + 1 /\ tt[Len(tt)] = s
        /\ \A i \in 1..Len(ss) : tt[i] = ss[i]
    BY AppendProperties
  <1> HIDE DEF tt
  <1>2. PICK g \in [1..Len(tt) -> Seq(U)] : Builds(g, tt, Len(tt)) /\ FlattenSeq(tt) = g[Len(tt)]
    BY <1>1, FlattenSeqBuilt
  <1>3. CASE ss = <<>>
    <2>1. FlattenSeq(ss) = <<>>
      BY <1>3 DEF FlattenSeq
    <2>2. FlattenSeq(tt) = s
      BY <1>1, <1>2, <1>3 DEF Builds
    <2> QED
      BY <2>1, <2>2 DEF tt
  <1>4. CASE ss # <<>>
    <2>1. PICK f \in [1..Len(ss) -> Seq(U)] : Builds(f, ss, Len(ss)) /\ FlattenSeq(ss) = f[Len(ss)]
      BY <1>4, FlattenSeqBuilt
    <2>2. Builds(g, ss, Len(ss))
      <3> SUFFICES ASSUME NEW i \in 1..Len(ss)
                   PROVE  g[i] = IF i = 1 THEN ss[i] ELSE g[i-1] \o ss[i]
        BY DEF Builds
      <3>1. i \in 1..Len(tt) /\ tt[i] = ss[i]
        BY <1>1
      <3>2. g[i] = IF i = 1 THEN tt[i] ELSE g[i-1] \o tt[i]
        BY <1>2, <3>1 DEF Builds
      <3> QED
        BY <3>1, <3>2
    <2>3. Len(ss) \in Nat /\ Len(ss) \in 1..Len(ss)
      BY <1>4
    <2>4. g[Len(ss)] = f[Len(ss)]
      BY <2>1, <2>2, <2>3, OneBuilds
    <2>5. g[Len(tt)] = g[Len(ss)] \o s
      <3>1. Len(tt) \in 1..Len(tt) /\ Len(tt) # 1 /\ Len(tt) - 1 = Len(ss)
        BY <1>1, <2>3
      <3>2. g[Len(tt)] = IF Len(tt) = 1 THEN tt[Len(tt)] ELSE g[Len(tt)-1] \o tt[Len(tt)]
        BY <1>2, <3>1 DEF Builds
      <3> QED
        BY <1>1, <3>1, <3>2
    <2> QED
      BY <1>2, <2>1, <2>3, <2>4, <2>5 DEF tt
  <1> QED
    BY <1>3, <1>4

-----------------------------------------------------------------------------
(* The rows that match.                                                    *)

(* A set of numbers has a least one.                                       *)
LEMMA Least ==
  ASSUME NEW T \in SUBSET Nat, T # {}
  PROVE  \E m \in T : \A n \in T : m <= n
  <1> DEFINE R == OpToRel(<, Nat)
  <1>1. IsWellFoundedOn(R, Nat)
    BY NatLessThanWellFounded
  <1> HIDE DEF R
  <1>2. PICK m \in T : \A n \in T : ~(<<n, m>> \in R)
    BY <1>1, WFMin
  <1>3. \A n \in T : ~(n < m)
    BY <1>2 DEF OpToRel, R
  <1> QED
    BY <1>3

(* Below some member of a finite set of numbers there are exactly n.       *)
LEMMA EveryRankIsTaken ==
  ASSUME NEW T \in SUBSET Nat, IsFiniteSet(T), NEW n \in Nat, n < Cardinality(T)
  PROVE  \E r \in T : Cardinality({q \in T : q < r}) = n
  <1> DEFINE Below(r) == {q \in T : q < r}
             S == {m \in Nat : m < Cardinality(T) => \E r \in T : Cardinality(Below(r)) = m}
  <1>1. 0 \in S
    <2>1. T # {}
      BY FS_EmptySet
    <2>2. PICK r \in T : \A q \in T : r <= q
      BY <2>1, Least
    <2>3. Below(r) = {}
      <3> SUFFICES ASSUME NEW q \in T, q < r PROVE FALSE
        OBVIOUS
      <3>1. q \in Nat /\ r \in Nat /\ r <= q
        BY <2>2
      <3> QED
        BY <3>1
    <2>4. Cardinality(Below(r)) = 0
      BY <2>3, FS_EmptySet
    <2> QED
      BY <2>4
  <1>2. ASSUME NEW m \in Nat, m \in S PROVE m + 1 \in S
    <2> SUFFICES ASSUME m + 1 < Cardinality(T)
                 PROVE  \E r \in T : Cardinality(Below(r)) = m + 1
      OBVIOUS
    <2>1. Cardinality(T) \in Nat
      BY FS_CardinalityType
    <2>2. PICK r \in T : Cardinality(Below(r)) = m
      BY <1>2, <2>1
    <2>3. IsFiniteSet(Below(r)) /\ IsFiniteSet(Below(r) \cup {r}) /\ r \notin Below(r)
      BY FS_Subset, FS_AddElement
    <2>4. Cardinality(Below(r) \cup {r}) = m + 1
      BY <2>2, <2>3, FS_AddElement
    <2>5. T \ (Below(r) \cup {r}) # {}
      <3>1. SUFFICES ASSUME T = Below(r) \cup {r} PROVE FALSE
        OBVIOUS
      <3> QED
        BY <2>1, <2>4, <3>1
    <2>6. PICK s \in T \ (Below(r) \cup {r}) : \A q \in T \ (Below(r) \cup {r}) : s <= q
      BY <2>5, Least
    <2>7. ASSUME NEW q \in T PROVE q < s <=> q \in Below(r) \cup {r}
      <3>1. q \in Nat /\ r \in Nat /\ s \in Nat /\ r < s
        BY <2>6
      <3> QED
        BY <2>6, <3>1
    <2>8. Below(s) = Below(r) \cup {r}
      BY <2>7
    <2> QED
      BY <2>4, <2>6, <2>8
  <1> HIDE DEF S
  <1>3. n \in S
    BY <1>1, <1>2, Climb
  <1> QED
    BY <1>3 DEF S

LEMMA MatchingIsASequence ==
  ASSUME NEW key, present \in SUBSET Rows
  PROVE  Matching(key) \in Seq(Rows)
  <1> DEFINE match == {r \in present : key \subseteq Meets[r]}
             n == Cardinality(match)
             At(i) == CHOOSE r \in match : Cardinality({q \in match : q < r}) = i - 1
  <1>1. match \in SUBSET Nat /\ match \subseteq Rows /\ IsFiniteSet(match)
    BY SearchAssumption, FS_Subset
  <1>2. n \in Nat
    BY <1>1, FS_CardinalityType
  <1>3. ASSUME NEW i \in 1..n PROVE At(i) \in Rows
    <2>1. i - 1 \in Nat /\ i - 1 < n
      BY <1>2
    <2>2. \E r \in match : Cardinality({q \in match : q < r}) = i - 1
      BY <1>1, <2>1, EveryRankIsTaken
    <2> QED
      BY <1>1, <2>2
  <1>4. Matching(key) = [i \in 1..n |-> At(i)]
    BY DEF Matching
  <1> HIDE DEF At, n
  <1> QED
    BY <1>2, <1>3, <1>4

-----------------------------------------------------------------------------
(* Pages of rows.                                                          *)

LEMMA FlatAppend ==
  ASSUME NEW ps \in Seq(PageType), NEW p \in PageType
  PROVE  /\ Flat(<<>>) = <<>>
         /\ Flat(ps) \in Seq(Rows)
         /\ Flat(Append(ps, p)) = Flat(ps) \o p.rows
  <1> DEFINE parts(x) == [i \in 1..Len(x) |-> x[i].rows]
  <1>1. \A i \in 1..Len(ps) : ps[i].rows \in Seq(Rows)
    <2>1. \A i \in 1..Len(ps) : ps[i] \in PageType
      OBVIOUS
    <2>2. \A x \in PageType : x.rows \in Seq(Rows)
      BY DEF PageType
    <2> QED
      BY <2>1, <2>2
  <1>2. p.rows \in Seq(Rows)
    BY DEF PageType
  <1>3. parts(ps) \in Seq(Seq(Rows))
    BY <1>1
  <1>4. parts(Append(ps, p)) = Append(parts(ps), p.rows)
    BY AppendProperties
  <1>5. parts(<<>>) = <<>>
    OBVIOUS
  <1>6. Flat(<<>>) = <<>>
    BY <1>5 DEF Flat, FlattenSeq
  <1>7. Flat(ps) = FlattenSeq(parts(ps)) /\ Flat(Append(ps, p)) = FlattenSeq(parts(Append(ps, p)))
    BY DEF Flat
  <1> HIDE DEF parts
  <1>8. FlattenSeq(parts(ps)) \in Seq(Rows)
        /\ FlattenSeq(Append(parts(ps), p.rows)) = FlattenSeq(parts(ps)) \o p.rows
    BY <1>2, <1>3, FlattenSeqAppend
  <1> QED
    BY <1>4, <1>6, <1>7, <1>8

(* Pages cut from one list put its beginning together, and the last says   *)
(* whether that is all: RowsComeOnce of one sequence of pages.             *)
Chained(pages) ==
    (pages # <<>> /\ \A i \in 1..Len(pages) : pages[i].of = pages[1].of) =>
        /\ IsPrefix(Flat(pages), pages[1].of)
        /\ HasMore(pages) = (Flat(pages) # pages[1].of)

LEMMA MinOfTwo ==
  ASSUME NEW a \in Nat, NEW b \in Nat
  PROVE  Min({a, b}) = IF a <= b THEN a ELSE b
  BY DEF Min

LEMMA SliceType ==
  ASSUME NEW all \in Seq(Rows), NEW offset \in Nat, NEW size \in Nat \ {0}
  PROVE  Slice(all, offset, size) \in PageType
  <1> DEFINE m == IF offset + size <= Len(all) THEN offset + size ELSE Len(all)
  <1>1. Min({offset + size, Len(all)}) = m /\ m \in Nat /\ m <= Len(all)
    BY MinOfTwo
  <1> HIDE DEF m
  <1>2. SubSeq(all, offset + 1, m) \in Seq(Rows)
    <2>1. \A i \in offset + 1 .. m : all[i] \in Rows
      BY <1>1
    <2> QED
      BY <1>1, <2>1, SubSeqProperties
  <1>3. PICK rows \in Seq(Rows) : rows = SubSeq(all, offset + 1, m)
    BY <1>2
  <1> DEFINE more == offset + size < Len(all)
  <1>4. more \in BOOLEAN
    OBVIOUS
  <1>5. Slice(all, offset, size) = [rows |-> rows, more |-> more, of |-> all]
    BY <1>1, <1>3 DEF Slice
  <1> HIDE DEF more
  <1> QED
    BY <1>5, <1>4 DEF PageType

(* F is the first n rows of all, `rows` those up to m, G both.             *)
Continues(F, rows, G, all, n, m) ==
    /\ IsPrefix(F, all) /\ Len(F) = n
    /\ rows = SubSeq(all, n + 1, m)
    /\ G = F \o rows

LEMMA PrefixGrows ==
  ASSUME NEW all \in Seq(Rows), NEW n \in 0..Len(all), NEW m \in n..Len(all), NEW F \in Seq(Rows),
         NEW rows, NEW G, Continues(F, rows, G, all, n, m)
  PROVE  IsPrefix(G, all) /\ (G = all <=> m = Len(all))
  <1>1. /\ rows \in Seq(Rows) /\ Len(rows) = m - n
        /\ \A i \in 1..m-n : rows[i] = all[n + i]
    <2>1. \A i \in n + 1 .. m : all[i] \in Rows
      OBVIOUS
    <2> DEFINE cut == SubSeq(all, n + 1, m)
    <2>2. /\ cut \in Seq(Rows)
          /\ Len(cut) = IF n + 1 <= m THEN m - (n + 1) + 1 ELSE 0
          /\ \A i \in 1 .. m - (n + 1) + 1 : cut[i] = all[n + 1 + i - 1]
      BY <2>1, SubSeqProperties
    <2>3. rows = cut
      BY DEF Continues
    <2> HIDE DEF cut
    <2> QED
      BY <2>2, <2>3
  <1>2. \A i \in 1..n : F[i] = all[i]
    <2>1. Len(F) = n /\ SubSeq(F, 1, n) = SubSeq(all, 1, n)
      BY DEF Continues, IsPrefix
    <2> QED
      BY <2>1
  <1>3. G \in Seq(Rows) /\ Len(G) = m
        /\ \A i \in 1..m : G[i] = IF i <= n THEN F[i] ELSE rows[i - n]
    <2> DEFINE both == F \o rows
    <2>1. /\ both \in Seq(Rows)
          /\ Len(both) = Len(F) + Len(rows)
          /\ \A i \in 1 .. Len(F) + Len(rows) :
                both[i] = IF i <= Len(F) THEN F[i] ELSE rows[i - Len(F)]
      BY <1>1, ConcatProperties
    <2>2. Len(F) = n /\ Len(F) + Len(rows) = m
      BY <1>1 DEF Continues
    <2>3. G = both
      BY DEF Continues
    <2> HIDE DEF both
    <2> QED
      BY <2>1, <2>2, <2>3
  <1>4. ASSUME NEW i \in 1..m PROVE G[i] = all[i]
    <2>1. CASE i <= n
      BY <1>2, <1>3, <2>1
    <2>2. CASE i > n
      <3>1. i - n \in 1..m-n /\ n + (i - n) = i
        BY <2>2
      <3>2. rows[i - n] = all[n + (i - n)]
        BY <1>1, <3>1
      <3>3. G[i] = rows[i - n]
        BY <1>3, <2>2
      <3> QED
        BY <3>1, <3>2, <3>3
    <2> QED
      BY <2>1, <2>2
  <1>5. SubSeq(G, 1, m) = SubSeq(all, 1, m)
    BY <1>3, <1>4
  <1>6. IsPrefix(G, all)
    BY <1>3, <1>5 DEF IsPrefix
  <1>7. G = all <=> m = Len(all)
    BY <1>3, <1>4
  <1> QED
    BY <1>6, <1>7

(* A page cut where the rows fetched so far end continues the chain.       *)
LEMMA ChainGrows ==
  ASSUME NEW ps \in Seq(PageType), Chained(ps), NEW all \in Seq(Rows)
  PROVE  Chained(Append(ps, Slice(all, Offset(ps), PageSize)))
  <1>1. PICK n \in Nat : n = Offset(ps)
    <2>1. PICK p \in PageType : TRUE
      BY SliceType DEF PageType
    <2>2. Flat(ps) \in Seq(Rows)
      BY <2>1, FlatAppend
    <2> QED
      BY <2>2 DEF Offset
  <1>2. PICK p \in PageType : p = Slice(all, n, PageSize)
    BY SliceType, SearchAssumption
  <1>3. PICK qs \in Seq(PageType) :
          /\ qs = Append(ps, p) /\ qs # <<>> /\ Len(qs) = Len(ps) + 1 /\ qs[Len(qs)] = p
          /\ \A i \in 1..Len(ps) : qs[i] = ps[i]
    <2>1. PICK qs : qs = Append(ps, p)
      OBVIOUS
    <2>2. /\ qs \in Seq(PageType) /\ Len(qs) = Len(ps) + 1 /\ qs[Len(qs)] = p
          /\ \A i \in 1..Len(ps) : qs[i] = ps[i]
      BY <2>1, AppendProperties
    <2>3. qs # <<>>
      BY <2>2
    <2> QED
      BY <2>1, <2>2, <2>3
  <1>4. Flat(ps) \in Seq(Rows) /\ Flat(qs) = Flat(ps) \o p.rows /\ Flat(<<>>) = <<>>
    BY <1>3, FlatAppend
  <1>5. Len(Flat(ps)) = n
    BY <1>1 DEF Offset
  <1> SUFFICES ASSUME \A i \in 1..Len(qs) : qs[i].of = qs[1].of
               PROVE  /\ IsPrefix(Flat(qs), qs[1].of)
                      /\ HasMore(qs) = (Flat(qs) # qs[1].of)
    BY <1>1, <1>2, <1>3 DEF Chained
  <1>6. p.more \in BOOLEAN
    BY DEF PageType
  <1>7. qs[1].of = all /\ HasMore(qs) = p.more
    <2>1. Len(qs) \in 1..Len(qs)
      BY <1>3
    <2>2. p.of = all
      BY <1>2 DEF Slice
    <2>3. qs[Len(qs)].of = qs[1].of
      BY <2>1
    <2>4. HasMore(qs) = qs[Len(qs)].more
      BY <1>3, <1>6 DEF HasMore, Last
    <2> QED
      BY <1>3, <2>2, <2>3, <2>4
  <1>8. IsPrefix(Flat(ps), all) /\ n \in 0..Len(all)
    <2>1. CASE ps = <<>>
      BY <1>4, <1>5, <2>1 DEF IsPrefix
    <2>2. CASE ps # <<>>
      <3>1. \A i \in 1..Len(ps) : i \in 1..Len(qs) /\ qs[i] = ps[i]
        BY <1>3
      <3>2. 1 \in 1..Len(ps)
        BY <2>2
      <3>3. \A i \in 1..Len(ps) : ps[i].of = ps[1].of
        BY <3>1, <3>2
      <3>4. ps[1].of = all
        BY <1>7, <3>1, <3>2
      <3>5. IsPrefix(Flat(ps), all)
        BY <2>2, <3>3, <3>4 DEF Chained
      <3> QED
        BY <1>5, <3>5 DEF IsPrefix
    <2> QED
      BY <2>1, <2>2
  <1>9. PICK m \in n..Len(all) :
          /\ m = IF n + PageSize <= Len(all) THEN n + PageSize ELSE Len(all)
          /\ p.rows = SubSeq(all, n + 1, m)
          /\ p.more = (n + PageSize < Len(all))
    <2>1. Min({n + PageSize, Len(all)}) = IF n + PageSize <= Len(all) THEN n + PageSize ELSE Len(all)
      BY MinOfTwo, SearchAssumption
    <2>2. PICK m \in n..Len(all) : m = IF n + PageSize <= Len(all) THEN n + PageSize ELSE Len(all)
      BY <1>8, SearchAssumption
    <2>3. Min({n + PageSize, Len(all)}) = m
      BY <2>1, <2>2
    <2>4. p = [rows |-> SubSeq(all, n + 1, m), more |-> n + PageSize < Len(all), of |-> all]
      BY <1>2, <2>3 DEF Slice
    <2> QED
      BY <2>2, <2>4
  <1>10. IsPrefix(Flat(qs), all) /\ (Flat(qs) = all <=> m = Len(all))
    <2>1. PICK F, rows, G : F = Flat(ps) /\ F \in Seq(Rows) /\ rows = p.rows /\ G = Flat(qs)
      BY <1>4
    <2>2. Continues(F, rows, G, all, n, m)
      BY <1>4, <1>5, <1>8, <1>9, <2>1 DEF Continues
    <2>3. m \in n..Len(all) /\ n \in 0..Len(all)
      BY <1>8, <1>9
    <2>4. IsPrefix(G, all) /\ (G = all <=> m = Len(all))
      BY <2>1, <2>2, <2>3, PrefixGrows
    <2> QED
      BY <2>1, <2>4
  <1>11. p.more <=> m # Len(all)
    <2>1. (n + PageSize < Len(all)) <=> m # Len(all)
      BY <1>9, SearchAssumption
    <2> QED
      BY <1>9, <2>1
  <1> QED
    BY <1>7, <1>10, <1>11, <1>6

-----------------------------------------------------------------------------
(* The invariant of the lists.                                             *)

AnyFetch == [phase : {"idle", "sent", "answered"}, kind : {"all", "next"},
             pages : Seq(PageType), rest : Nat, answer : PageType \cup {Null}]
Fetches == {f \in AnyFetch : f.phase = "answered" => f.answer \in PageType}
Entries == [pages : Seq(PageType), error : BOOLEAN, stale : BOOLEAN, fetch : Fetches]

SearchTypes ==
    /\ list \in Lists /\ present \in SUBSET Rows /\ stored \in StoredPlaces
    /\ applied \subseteq (UNION Links) \cup Criteria /\ pending \subseteq Known
    /\ timer \in [armed : BOOLEAN, value : SUBSET Criteria] /\ mounted \in BOOLEAN
    /\ cache \in [Keys -> Entries]

(* What was fetched is a chain of pages, and so is what is being fetched,  *)
(* with the answer under way as its next link.                             *)
LinkedUp(e) ==
    /\ Chained(e.pages) /\ Chained(e.fetch.pages)
    /\ e.fetch.phase = "answered" =>
         \E all \in Seq(Rows) : e.fetch.answer = Slice(all, Offset(e.fetch.pages), PageSize)

(* A list that looks at the entry gets rows, an error or a fetch.          *)
LookedAt(e) == e.pages # <<>> \/ e.error \/ e.fetch.phase # "idle"

ChainInv == list # "jobs" => \A k \in Keys : LinkedUp(cache[k])

(* The copies of the filters agree as far as the timer has got.            *)
PanelInv ==
    /\ timer.armed => timer.value = pending
    /\ mounted /\ ~timer.armed => Parse(applied) = pending
    /\ mounted /\ Enabled => LookedAt(Entry)

SearchInv == SearchTypes /\ ChainInv /\ PanelInv

LEMMA OffsetType == ASSUME NEW ps \in Seq(PageType) PROVE Offset(ps) \in Nat
  <1>1. PICK p \in PageType : TRUE
    BY SliceType DEF PageType
  <1>2. Flat(ps) \in Seq(Rows)
    BY <1>1, FlatAppend
  <1> QED
    BY <1>2 DEF Offset

LEMMA NewEntryIsSound == NewEntry \in Entries /\ LinkedUp(NewEntry) /\ NoFetch \in Fetches
  <1>1. <<>> \in Seq(PageType)
    OBVIOUS
  <1>2. NoFetch \in Fetches
    BY <1>1 DEF NoFetch, Fetches, AnyFetch
  <1>3. NewEntry \in Entries
    BY <1>1, <1>2 DEF NewEntry, Entries
  <1>4. LinkedUp(NewEntry)
    BY DEF LinkedUp, NewEntry, NoFetch, Chained
  <1> QED
    BY <1>2, <1>3, <1>4

LEMMA KeysAreKeys ==
  ASSUME NEW params
  PROVE  /\ Parse(params) \subseteq Known /\ Known \subseteq Criteria
         /\ Effective(Parse(params)) \in Keys
  BY DEF Parse, Known, Effective, Keys, Criteria, Places

(* A step of the cache keeps what is known of its entries.                 *)
GoesOn ==
    /\ cache' \in [Keys -> Entries]
    /\ list # "jobs" => \A k \in Keys : LinkedUp(cache'[k])
    /\ \A k \in Keys : LookedAt(cache[k]) => LookedAt(cache'[k])

LEMMA EntryMoves ==
  ASSUME SearchTypes, ChainInv, NEW k \in Keys, NEW e \in Entries,
         cache' = [cache EXCEPT ![k] = e],
         list # "jobs" => LinkedUp(e), LookedAt(cache[k]) => LookedAt(e)
  PROVE  GoesOn
  BY DEF SearchTypes, ChainInv, GoesOn

(* An entry e that starts a fetch.                                         *)
LEMMA StartsFetch ==
  ASSUME NEW e \in Entries, LinkedUp(e) \/ list = "jobs"
  PROVE  /\ FetchAll(e) \in Entries /\ FetchNext(e) \in Entries
         /\ list # "jobs" => LinkedUp(FetchAll(e)) /\ LinkedUp(FetchNext(e))
         /\ LookedAt(FetchAll(e)) /\ LookedAt(FetchNext(e))
  <1>1. e.pages \in Seq(PageType) /\ Len(e.pages) \in Nat
    BY DEF Entries
  <1>2. PICK rest \in Nat : rest = IF e.pages = <<>> THEN 1 ELSE Len(e.pages)
    BY <1>1
  <1>3. PICK f, g : /\ f = [NoFetch EXCEPT !.phase = "sent", !.rest = rest]
                    /\ g = [NoFetch EXCEPT !.phase = "sent", !.kind = "next",
                                      !.pages = e.pages, !.rest = 1]
    OBVIOUS
  <1>4. /\ f \in Fetches /\ f.phase = "sent" /\ f.pages = <<>>
        /\ g \in Fetches /\ g.phase = "sent" /\ g.pages = e.pages
    <2>1. <<>> \in Seq(PageType)
      OBVIOUS
    <2>2. f \in Fetches /\ f.phase = "sent" /\ f.pages = <<>>
      BY <2>1, <1>3 DEF NoFetch, Fetches, AnyFetch
    <2>3. g \in Fetches /\ g.phase = "sent" /\ g.pages = e.pages
      BY <1>1, <1>3 DEF NoFetch, Fetches, AnyFetch
    <2> QED
      BY <2>2, <2>3
  <1>5. FetchAll(e) = [e EXCEPT !.fetch = f] /\ FetchNext(e) = [e EXCEPT !.fetch = g]
    BY <1>2, <1>3 DEF FetchAll, FetchNext
  <1>6. PICK a, b : a = FetchAll(e) /\ b = FetchNext(e)
    OBVIOUS
  <1>7. /\ a \in Entries /\ a.pages = e.pages /\ a.fetch = f
        /\ b \in Entries /\ b.pages = e.pages /\ b.fetch = g
    BY <1>4, <1>5, <1>6 DEF Entries
  <1>8. Chained(<<>>)
    BY DEF Chained
  <1>9. LookedAt(a) /\ LookedAt(b)
    BY <1>4, <1>7 DEF LookedAt
  <1>10. list # "jobs" => LinkedUp(a) /\ LinkedUp(b)
    BY <1>4, <1>7, <1>8 DEF LinkedUp
  <1> QED
    BY <1>6, <1>7, <1>9, <1>10

LEMMA ObserveGoesOn ==
  ASSUME SearchTypes, ChainInv, NEW key \in Keys, Observe(key)
  PROVE  GoesOn /\ (Enabled => LookedAt(cache'[key]))
  <1>1. CASE ~Enabled
    BY <1>1 DEF Observe, GoesOn, SearchTypes, ChainInv
  <1>2. CASE Enabled
    <2>1. PICK e : e = Observed(cache[key])
      OBVIOUS
    <2>2. cache[key] \in Entries /\ (LinkedUp(cache[key]) \/ list = "jobs")
      BY DEF SearchTypes, ChainInv
    <2>3. (e = cache[key] /\ LookedAt(e)) \/ e = FetchAll(cache[key])
      BY <2>1 DEF Observed, LookedAt
    <2>4. e \in Entries /\ LookedAt(e) /\ (list # "jobs" => LinkedUp(e))
      BY <2>2, <2>3, StartsFetch
    <2>5. cache' = [cache EXCEPT ![key] = e]
      BY <1>2, <2>1 DEF Observe, SearchTypes
    <2>6. cache'[key] = e
      BY <2>5 DEF SearchTypes
    <2> QED
      BY <2>4, <2>5, <2>6, EntryMoves
  <1> QED
    BY <1>1, <1>2

LEMMA AnswerGoesOn ==
  ASSUME SearchTypes, ChainInv, NEW k \in Keys, AnswerFetch(k)
  PROVE  GoesOn
  <1>1. cache[k] \in Entries /\ cache[k].fetch \in Fetches /\ cache[k].fetch.pages \in Seq(PageType)
    BY DEF SearchTypes, Entries, Fetches, AnyFetch
  <1>2. PICK n \in Nat : n = Offset(cache[k].fetch.pages)
    BY <1>1, OffsetType
  <1>3. PICK all \in Seq(Rows) : all = Matching(k)
    BY MatchingIsASequence DEF SearchTypes
  <1>4. PICK answer \in PageType :
          /\ answer = ServerPage(k, n)
          /\ list # "jobs" => answer = Slice(all, n, PageSize)
    BY <1>3, SliceType, SearchAssumption DEF ServerPage
  <1>5. PICK f : f = [cache[k].fetch EXCEPT !.phase = "answered", !.answer = answer]
    OBVIOUS
  <1>6. f \in Fetches /\ f.phase = "answered" /\ f.answer = answer /\ f.pages = cache[k].fetch.pages
    BY <1>1, <1>5 DEF Fetches, AnyFetch
  <1>7. PICK e : e = [cache[k] EXCEPT !.fetch = f]
    OBVIOUS
  <1>8. e \in Entries /\ e.fetch = f /\ e.pages = cache[k].pages
    BY <1>1, <1>6, <1>7 DEF Entries
  <1>9. cache' = [cache EXCEPT ![k] = e]
    BY <1>1, <1>2, <1>4, <1>5, <1>7 DEF AnswerFetch, SearchTypes, Entries, Fetches, AnyFetch
  <1>10. list # "jobs" => LinkedUp(e)
    BY <1>2, <1>4, <1>6, <1>8 DEF LinkedUp, ChainInv
  <1>11. LookedAt(e)
    BY <1>6, <1>8 DEF LookedAt
  <1> QED
    BY <1>8, <1>9, <1>10, <1>11, EntryMoves

LEMMA ReceiveGoesOn ==
  ASSUME SearchTypes, ChainInv, NEW k \in Keys, ReceiveFetch(k)
  PROVE  GoesOn
  <1>1. PICK e \in Entries, f \in Fetches : e = cache[k] /\ f = e.fetch
    BY DEF SearchTypes, Entries
  <1>2. f.pages \in Seq(PageType) /\ f.rest \in Nat /\ f.phase = "answered"
    BY <1>1 DEF Fetches, AnyFetch, ReceiveFetch
  <1>3. f.answer \in PageType
    BY <1>2 DEF Fetches
  <1>4. PICK pages \in Seq(PageType) : pages = Append(f.pages, f.answer)
    BY <1>2, <1>3, AppendProperties
  <1>5. pages # <<>>
    BY <1>2, <1>3, <1>4, AppendProperties
  <1>6. list # "jobs" => LinkedUp(e) /\ Chained(pages)
    <2> SUFFICES ASSUME list # "jobs" PROVE LinkedUp(e) /\ Chained(pages)
      OBVIOUS
    <2>1. LinkedUp(e)
      BY <1>1 DEF ChainInv
    <2>2. PICK all \in Seq(Rows) : f.answer = Slice(all, Offset(f.pages), PageSize)
      BY <1>1, <1>2, <2>1 DEF LinkedUp
    <2>3. Chained(f.pages)
      BY <1>1, <2>1 DEF LinkedUp
    <2>4. Chained(Append(f.pages, Slice(all, Offset(f.pages), PageSize)))
      BY <1>2, <2>3, ChainGrows
    <2> QED
      BY <1>4, <2>1, <2>2, <2>4
  <1>7. CASE f.rest > 1 /\ HasMore(pages)
    <2>1. PICK rest \in Nat : rest = f.rest - 1
      BY <1>2, <1>7
    <2>2. PICK g : g = [f EXCEPT !.phase = "sent", !.pages = pages, !.rest = rest, !.answer = Null]
      OBVIOUS
    <2>3. g \in Fetches /\ g.phase = "sent" /\ g.pages = pages
      BY <1>2, <2>2 DEF Fetches, AnyFetch
    <2>4. PICK d : d = [e EXCEPT !.fetch = g]
      OBVIOUS
    <2>5. d \in Entries /\ d.pages = e.pages /\ d.fetch = g
      BY <2>3, <2>4 DEF Entries
    <2>6. cache' = [cache EXCEPT ![k] = d]
      BY <1>1, <1>2, <1>4, <1>7, <2>1, <2>2, <2>4 DEF ReceiveFetch, Fetches, AnyFetch
    <2>7. LookedAt(d)
      BY <2>3, <2>5 DEF LookedAt
    <2>8. list # "jobs" => LinkedUp(d)
      BY <1>6, <2>3, <2>5 DEF LinkedUp
    <2> QED
      BY <2>5, <2>6, <2>7, <2>8, EntryMoves
  <1>8. CASE ~(f.rest > 1 /\ HasMore(pages))
    <2>1. PICK d : d = [NewEntry EXCEPT !.pages = pages]
      OBVIOUS
    <2>2. d \in Entries /\ d.pages = pages /\ d.fetch = NewEntry.fetch
      BY <2>1, NewEntryIsSound DEF NewEntry, Entries
    <2>3. cache' = [cache EXCEPT ![k] = d]
      BY <1>1, <1>4, <1>8, <2>1 DEF ReceiveFetch
    <2>4. LookedAt(d)
      BY <1>5, <2>2 DEF LookedAt
    <2>5. list # "jobs" => LinkedUp(d)
      BY <1>6, <2>2, NewEntryIsSound DEF LinkedUp
    <2> QED
      BY <2>2, <2>3, <2>4, <2>5, EntryMoves
  <1> QED
    BY <1>7, <1>8

LEMMA FailureGoesOn ==
  ASSUME SearchTypes, ChainInv, NEW k \in Keys, FetchFails(k)
  PROVE  GoesOn
  <1>1. PICK c \in Entries : c = cache[k]
    BY DEF SearchTypes
  <1>2. PICK e : e = [c EXCEPT !.fetch = NoFetch, !.error = TRUE]
    OBVIOUS
  <1>3. e \in Entries /\ e.pages = c.pages /\ e.error /\ e.fetch = NoFetch
    BY <1>2, NewEntryIsSound DEF Entries
  <1>4. cache' = [cache EXCEPT ![k] = e]
    BY <1>1, <1>2 DEF FetchFails, SearchTypes, Entries
  <1>5. NoFetch.pages = <<>> /\ NoFetch.phase = "idle"
    BY DEF NoFetch
  <1>6. list # "jobs" => LinkedUp(e)
    BY <1>1, <1>3, <1>5 DEF LinkedUp, ChainInv, Chained
  <1> QED
    BY <1>3, <1>4, <1>6, EntryMoves DEF LookedAt

LEMMA AgesGoesOn ==
  ASSUME SearchTypes, ChainInv, NEW k \in Keys, Ages(k)
  PROVE  GoesOn
  <1>1. PICK c \in Entries : c = cache[k]
    BY DEF SearchTypes
  <1>2. PICK e : e = [c EXCEPT !.stale = TRUE]
    OBVIOUS
  <1>3. e \in Entries /\ e.pages = c.pages /\ e.error = c.error /\ e.fetch = c.fetch
    BY <1>2 DEF Entries
  <1>4. cache' = [cache EXCEPT ![k] = e]
    BY <1>1, <1>2 DEF Ages, SearchTypes, Entries
  <1>5. list # "jobs" => LinkedUp(e)
    BY <1>1, <1>3 DEF LinkedUp, ChainInv
  <1>6. LookedAt(cache[k]) => LookedAt(e)
    BY <1>1, <1>3 DEF LookedAt
  <1> QED
    BY <1>3, <1>4, <1>5, <1>6, EntryMoves

-----------------------------------------------------------------------------
(* Every step keeps the invariant.                                         *)

LEMMA SearchAtFirst == SearchInit => SearchInv
  <1> SUFFICES ASSUME SearchInit PROVE SearchInv
    OBVIOUS
  <1>1. SearchTypes
    BY NewEntryIsSound DEF SearchInit, SearchTypes, NoTimer
  <1>2. ChainInv
    BY NewEntryIsSound DEF SearchInit, ChainInv
  <1>3. PanelInv
    BY DEF SearchInit, PanelInv, NoTimer
  <1> QED
    BY <1>1, <1>2, <1>3 DEF SearchInv

LEMMA FetchingKeeps == ASSUME SearchInv, Fetching PROVE SearchInv'
  <1>1. GoesOn
    BY AnswerGoesOn, ReceiveGoesOn, FailureGoesOn, AgesGoesOn DEF Fetching, SearchInv
  <1>2. UNCHANGED <<list, present, stored, page>>
    BY DEF Fetching, AnswerFetch, ReceiveFetch, FetchFails, Ages
  <1>3. SearchTypes' /\ ChainInv'
    BY <1>1, <1>2 DEF page, GoesOn, SearchInv, SearchTypes, ChainInv, Known
  <1>4. Key' = Key /\ Key \in Keys /\ Enabled' = Enabled
    BY <1>2, KeysAreKeys DEF page, Key, Effective, Parse, Known, Enabled
  <1>5. PanelInv'
    BY <1>1, <1>2, <1>4 DEF page, GoesOn, SearchInv, PanelInv, Entry, Parse, Known
  <1> QED
    BY <1>3, <1>5 DEF SearchInv

LEMMA OpenKeeps == ASSUME SearchInv, Open PROVE SearchInv'
  <1>1. PICK params \in SUBSET ((UNION Links) \cup Criteria) :
          /\ applied' = params
          /\ pending' = Parse(params)
          /\ timer' = Armed(Parse(params))
          /\ Observe(Effective(Parse(params)))
          /\ mounted' = TRUE /\ UNCHANGED <<list, present, stored>>
    BY DEF Open, SearchInv, SearchTypes
  <1>2. PICK key \in Keys : key = Effective(Parse(params))
    BY KeysAreKeys
  <1>3. GoesOn /\ (Enabled => LookedAt(cache'[key]))
    BY <1>1, <1>2, ObserveGoesOn DEF SearchInv
  <1>4. /\ timer' \in [armed : BOOLEAN, value : SUBSET Criteria]
        /\ timer'.value = Parse(params)
    BY <1>1, KeysAreKeys DEF Armed
  <1>5. SearchTypes'
    BY <1>1, <1>3, <1>4, KeysAreKeys DEF GoesOn, SearchInv, SearchTypes, Known
  <1>6. ChainInv'
    BY <1>1, <1>3 DEF GoesOn, ChainInv
  <1>7. Key' = key /\ Enabled' = Enabled /\ Parse(applied)' = Parse(params)
    BY <1>1, <1>2 DEF Key, Effective, Parse, Known, Enabled
  <1>8. PanelInv'
    BY <1>1, <1>3, <1>4, <1>7 DEF PanelInv, Entry
  <1> QED
    BY <1>5, <1>6, <1>8 DEF SearchInv

LEMMA PushKeeps == ASSUME SearchInv, Push PROVE SearchInv'
  <1>1. PICK params \in SUBSET Criteria : params = pending /\ params = timer.value
    BY KeysAreKeys DEF Push, SearchInv, SearchTypes, PanelInv
  <1>2. /\ applied' = params /\ timer' = NoTimer
        /\ UNCHANGED <<list, present, stored, pending, mounted>>
    BY <1>1 DEF Push, Serialise
  <1>3. Parse(params) = params
    BY <1>1 DEF SearchInv, SearchTypes, Parse
  <1>4. PICK key \in Keys : key = Effective(Parse(params))
    BY KeysAreKeys
  <1>5. Observe(key)
    BY <1>2, <1>4 DEF Push
  <1>6. GoesOn /\ (Enabled => LookedAt(cache'[key]))
    BY <1>5, ObserveGoesOn DEF SearchInv
  <1>7. SearchTypes'
    <2>1. NoTimer \in [armed : BOOLEAN, value : SUBSET Criteria]
      BY DEF NoTimer
    <2>2. applied' \subseteq (UNION Links) \cup Criteria
      BY <1>1, <1>2
    <2>3. pending' \subseteq Known'
      BY <1>2 DEF SearchInv, SearchTypes, Known
    <2>4. cache' \in [Keys -> Entries]
      BY <1>6 DEF GoesOn
    <2> QED
      BY <1>2, <2>1, <2>2, <2>3, <2>4 DEF SearchInv, SearchTypes
  <1>8. ChainInv'
    BY <1>2, <1>6 DEF GoesOn, ChainInv
  <1>9. Key' = key /\ Enabled' = Enabled /\ Parse(applied)' = pending'
    BY <1>1, <1>2, <1>3, <1>4 DEF Key, Effective, Parse, Known, Enabled
  <1>10. PanelInv'
    BY <1>2, <1>6, <1>9 DEF PanelInv, Entry, NoTimer
  <1> QED
    BY <1>7, <1>8, <1>10 DEF SearchInv

LEMMA PanelIsKnown ==
  ASSUME SearchTypes, NEW filters \in Panel(pending)
  PROVE  filters \subseteq Known
  <1>1. pending \subseteq Known /\ Options \subseteq Known
    BY DEF SearchTypes, Known, Criteria
  <1>2. filters \subseteq pending \cup Options
    BY DEF Panel, Choose, Clear
  <1> QED
    BY <1>1, <1>2

LEMMA UpdateFiltersKeeps == ASSUME SearchInv, UpdateFilters PROVE SearchInv'
  <1>1. PICK filters \in Panel(pending) :
           /\ pending' = filters /\ timer' = Armed(filters)
           /\ UNCHANGED <<list, present, stored, applied, mounted, cache>>
    BY DEF UpdateFilters, Rearmed
  <1>2. filters \subseteq Known /\ list # "nearby"
    BY <1>1, PanelIsKnown DEF SearchInv, UpdateFilters
  <1>3. timer' \in [armed : BOOLEAN, value : SUBSET Criteria] /\ timer'.armed /\ timer'.value = filters
    BY <1>1, <1>2, KeysAreKeys DEF Armed
  <1>4. SearchTypes' /\ ChainInv'
    BY <1>1, <1>2, <1>3 DEF SearchInv, SearchTypes, ChainInv, Known
  <1>5. PanelInv'
    BY <1>1, <1>3 DEF SearchInv, PanelInv, Entry, Key, Effective, Parse, Known, Enabled
  <1> QED
    BY <1>4, <1>5 DEF SearchInv

LEMMA LoadMoreKeeps == ASSUME SearchInv, LoadMore PROVE SearchInv'
  <1>1. PICK key \in Keys : key = Key
    BY KeysAreKeys DEF Key
  <1>2. PICK c \in Entries : c = cache[key]
    BY DEF SearchInv, SearchTypes
  <1>3. PICK e : e = FetchNext(c)
    OBVIOUS
  <1>4. e \in Entries /\ LookedAt(e) /\ (list # "jobs" => LinkedUp(e))
    <2>1. LinkedUp(c) \/ list = "jobs"
      BY <1>2 DEF SearchInv, ChainInv
    <2> QED
      BY <1>3, <2>1, StartsFetch
  <1>5. cache' = [cache EXCEPT ![key] = e] /\ UNCHANGED <<list, present, stored, page>>
    BY <1>1, <1>2, <1>3 DEF LoadMore, SearchInv, SearchTypes
  <1>6. GoesOn
    BY <1>4, <1>5, EntryMoves DEF SearchInv
  <1>7. SearchTypes' /\ ChainInv'
    BY <1>5, <1>6 DEF page, GoesOn, SearchInv, SearchTypes, ChainInv, Known
  <1>8. Key' = Key /\ Enabled' = Enabled
    BY <1>5 DEF page, Key, Effective, Parse, Known, Enabled
  <1>9. PanelInv'
    BY <1>1, <1>5, <1>6, <1>8 DEF page, GoesOn, SearchInv, PanelInv, Entry, Parse, Known
  <1> QED
    BY <1>7, <1>9 DEF SearchInv

(* The rest leaves the queries alone.                                      *)
LEMMA AroundKeeps == ASSUME SearchInv, Leave \/ UpdateAccount \/ Change PROVE SearchInv'
  <1>1. CASE Leave
    <2>1. /\ mounted' = FALSE /\ timer' = NoTimer
          /\ UNCHANGED <<list, present, stored, applied, pending, cache>>
      BY <1>1 DEF Leave
    <2> QED
      BY <2>1 DEF SearchInv, SearchTypes, ChainInv, PanelInv, NoTimer, Known
  <1>2. CASE UpdateAccount
    <2>1. ~mounted /\ stored' \in StoredPlaces /\ UNCHANGED <<list, present, page, cache>>
      BY <1>2 DEF UpdateAccount, StoredPlaces
    <2> QED
      BY <2>1 DEF SearchInv, SearchTypes, ChainInv, PanelInv, page, Known
  <1>3. CASE Change
    <2>1. present' \in SUBSET Rows /\ UNCHANGED <<list, stored, page, cache>>
      BY <1>3 DEF Change, SearchInv, SearchTypes
    <2> QED
      BY <2>1 DEF SearchInv, SearchTypes, ChainInv, PanelInv, page, Known, Parse, Entry, Key, Effective,
                  Enabled
  <1> QED
    BY <1>1, <1>2, <1>3

LEMMA EverySearchStep == SearchInv /\ [SearchNext]_searchVars => SearchInv'
  <1> SUFFICES ASSUME SearchInv, [SearchNext]_searchVars PROVE SearchInv'
    OBVIOUS
  <1>1. CASE UNCHANGED searchVars
    BY <1>1 DEF searchVars, page, SearchInv, SearchTypes, ChainInv, PanelInv, Known, Parse, Entry, Key,
                Effective, Enabled
  <1> QED
    BY <1>1, OpenKeeps, AroundKeeps, UpdateFiltersKeeps, PushKeeps, LoadMoreKeeps, FetchingKeeps
       DEF SearchNext

LEMMA SearchInductive == SearchSpec => []SearchInv
  BY SearchAtFirst, EverySearchStep, PTL DEF SearchSpec

(* Filters, queries and pages keep their shape, and no page holds anything *)
(* that is no row of the server (useGetJobs.ts, useWorkerSearch.ts).       *)
THEOREM SearchTypeCorrect == SearchSpec => []SearchTypeOK
  <1>1. SearchInv => SearchTypeOK
    <2> SUFFICES ASSUME SearchInv PROVE SearchTypeOK
      OBVIOUS
    <2>1. pending \subseteq Criteria
      BY KeysAreKeys DEF SearchInv, SearchTypes
    <2>2. ASSUME NEW k \in Keys
          PROVE  LET e == cache[k] IN
                   /\ e.pages \in Seq(PageType) /\ e.error \in BOOLEAN /\ e.stale \in BOOLEAN
                   /\ e.fetch.phase \in {"idle", "sent", "answered"} /\ e.fetch.kind \in {"all", "next"}
                   /\ e.fetch.pages \in Seq(PageType) /\ e.fetch.rest \in Nat
      <3>1. cache[k] \in Entries
        BY DEF SearchInv, SearchTypes
      <3>2. cache[k].fetch \in AnyFetch
        BY <3>1 DEF Entries, Fetches
      <3> QED
        BY <3>1, <3>2 DEF Entries, AnyFetch
    <2> QED
      BY <2>1, <2>2 DEF SearchInv, SearchTypes, SearchTypeOK
  <1> QED
    BY <1>1, SearchInductive, PTL

(* Panel, URL and query key agree once the debounce is over, and the pages *)
(* put together are the rows of that filter, each once and in order, for   *)
(* every list but the jobs list, whose pages the server cuts its own way   *)
(* (useWorkerSearch.ts, useAdminUsers.ts, getNextPageParam).               *)
THEOREM ListsAreWhatWasAsked ==
  ASSUME "jobs" \notin Lists
  PROVE  SearchSpec => []ListIsWhatWasAsked
  <1>1. SearchInv => ListIsWhatWasAsked
    <2> SUFFICES ASSUME SearchInv PROVE ListIsWhatWasAsked
      OBVIOUS
    <2>1. list # "jobs"
      BY DEF SearchInv, SearchTypes
    <2>2. \A k \in Keys : Chained(cache[k].pages)
      BY <2>1 DEF SearchInv, ChainInv, LinkedUp
    <2>3. RowsComeOnce
      BY <2>2 DEF RowsComeOnce, Chained
    <2>4. PanelAgreesWithRows
      BY DEF SearchInv, PanelInv, PanelAgreesWithRows, Key, LookedAt
    <2> QED
      BY <2>3, <2>4 DEF ListIsWhatWasAsked
  <1> QED
    BY <1>1, SearchInductive, PTL

-----------------------------------------------------------------------------
(* The session.                                                            *)

USE SessionAssumption

-----------------------------------------------------------------------------
(* Requests.                                                               *)

SomeToken == Tokens \cup {None}

LEMMA NoToken == None \notin Users /\ None \notin Tokens /\ None \notin Calls
BY DEF Tokens

LEMMA TokenFields ==
    ASSUME NEW tok \in Tokens
    PROVE  tok.user \in Users /\ tok.n \in 1..MaxTokens /\ tok # None
BY NoToken DEF Tokens

LEMMA IdleFields ==
    /\ Idle \in Requests /\ Idle.phase = "idle" /\ Idle.tok = None
    /\ Idle.status = "none" /\ Idle.retry = FALSE
BY DEF Idle, Requests

LEMMA SentFields ==
    ASSUME NEW tok \in SomeToken, NEW retry \in BOOLEAN
    PROVE  /\ Sent(tok, retry) \in Requests /\ Sent(tok, retry).phase = "sent"
           /\ Sent(tok, retry).tok = tok /\ Sent(tok, retry).retry = retry
BY DEF Sent, Requests, SomeToken

LEMMA AnsweredFields ==
    ASSUME NEW r \in Requests, NEW status \in {"ok", "401", "failed"}, NEW tok \in SomeToken
    PROVE  /\ Answered(r, status, tok) \in Requests /\ Answered(r, status, tok).phase = "answered"
           /\ Answered(r, status, tok).status = status /\ Answered(r, status, tok).tok = tok
           /\ Answered(r, status, tok).retry = r.retry
BY DEF Answered, Requests, SomeToken

LEMMA RefreshingFields ==
    ASSUME NEW tok \in SomeToken, NEW r,
           r = [phase |-> "refreshing", tok |-> tok, status |-> "none", retry |-> TRUE]
    PROVE  r \in Requests /\ r.phase = "refreshing" /\ r.tok = tok /\ r.retry
BY DEF Requests, SomeToken

LEMMA RefreshedFields ==
    ASSUME NEW r \in Requests, NEW tok \in SomeToken, NEW new,
           new = [r EXCEPT !.phase = "refreshed", !.tok = tok]
    PROVE  /\ new \in Requests /\ new.phase = "refreshed" /\ new.tok = tok
           /\ new.retry = r.retry
BY DEF Requests, SomeToken

LEMMA QueuedFields ==
    ASSUME NEW r \in Requests, NEW new, new = [r EXCEPT !.phase = "queued"]
    PROVE  /\ new \in Requests /\ new.phase = "queued" /\ new.tok = r.tok
           /\ new.retry = r.retry
BY DEF Requests

(* A token the server issues.                                              *)
LEMMA FreshToken ==
    ASSUME TypeOK, issued < MaxTokens, NEW user \in Users
    PROVE  Fresh(user) \in Tokens /\ Fresh(user).user = user
BY DEF Fresh, TypeOK, Tokens

LEMMA HeaderType ==
    ASSUME TypeOK
    PROVE  AuthorizationHeader \in SomeToken
BY DEF AuthorizationHeader, TypeOK, SomeToken

LEMMA EmptyState ==
    /\ SignedOutAuth \in [token : SomeToken, isAuthenticated : BOOLEAN]
    /\ SignedOutAuth.isAuthenticated = FALSE /\ SignedOutAuth.token = None
    /\ \A tok \in SomeToken :
          /\ Credentials(tok) \in [token : SomeToken, isAuthenticated : BOOLEAN]
          /\ Credentials(tok).token = tok /\ Credentials(tok).isAuthenticated = TRUE
    /\ NewInitQ \in [status : {"new", "fetching", "success", "error"}, enabled : BOOLEAN]
    /\ NewUserQ \in [data : Users \cup {None}, error : BOOLEAN, waitsFor : Calls \cup {None}]
    /\ NewUserQ.data = None /\ NewUserQ.waitsFor = None
BY DEF SignedOutAuth, Credentials, NewInitQ, NewUserQ, SomeToken

-----------------------------------------------------------------------------
(* The invariants.                                                         *)

(* What the server is said to have done, it did.                           *)
AnswersAreTrue ==
    /\ \A c \in Calls : (call[c].phase = "answered" /\ call[c].status = "ok") => call[c].tok # None
    /\ (logout.phase = "answered" /\ logout.status = "ok") =>
           logout.tok # None /\ logout.tok.n \in deadAccess

(* Who is not signed in has nothing of an account in memory.               *)
OneIdentity ==
    /\ HasToken <=> auth.isAuthenticated
    /\ auth.isAuthenticated => auth.token # None /\ accessToken.user = auth.token.user
    /\ ~HasToken => userQ = NewUserQ
    /\ userQ.data # None => userQ.data = accessToken.user

(* A refresh answers for the cookie, and the cookie is the account's.      *)
CookieAgrees ==
    /\ HasToken => cookie # None /\ cookie.user = accessToken.user
    /\ \A c \in Refreshers : call[c].tok # None => cookie # None /\ call[c].tok.user = cookie.user
    /\ (init.phase # "idle" /\ init.tok # None) => cookie # None /\ init.tok.user = cookie.user

(* The restore, the login and the logout are three different moments.      *)
Restored == ~HasToken /\ init.phase = "idle" /\ initQ.status = "error" /\ initQ.enabled
OneSessionStep ==
    /\ init.phase # "idle" => ~HasToken /\ initQ.status = "fetching"
    /\ login.phase # "idle" => Restored
    /\ (view = "login" /\ ~dirty) => Restored
    /\ logout.phase # "idle" => HasToken

ProfileIsAsked ==
    \A c \in Calls : userQ.waitsFor = c =>
        /\ call[c].phase # "idle"
        /\ call[c].phase \in {"sent", "answered", "queued"} =>
               call[c].tok # None /\ call[c].tok.user = accessToken.user

PageIsTheirs ==
    (view \in GuardedRoutes /\ ~dirty) =>
        /\ HasToken /\ userQ.data # None
        /\ view = "admin" => userQ.data \in Superusers

HeaderIsDead == defaultAuth # None => defaultAuth = accessToken \/ defaultAuth.n \in deadAccess

Clean == /\ OneIdentity /\ CookieAgrees /\ OneSessionStep
         /\ ProfileIsAsked /\ PageIsTheirs /\ HeaderIsDead
CleanSession == ~tainted => Clean

NothingCanSignIn ==
    signedOut = "confirmed" =>
        /\ ~HasToken /\ ~auth.isAuthenticated /\ cookie = None /\ userQ = NewUserQ
        /\ init.phase # "idle" => init.tok = None
        /\ \A c \in Refreshers : call[c].tok = None

-----------------------------------------------------------------------------
LEMMA SettledType ==
    ASSUME TypeOK, NEW S \in SUBSET Calls, NEW data \in Users \cup {None}
    PROVE  /\ Settled(S, data) \in [data : Users \cup {None}, error : BOOLEAN, waitsFor : Calls \cup {None}]
           /\ userQ.waitsFor \notin S => Settled(S, data) = userQ
           /\ userQ.waitsFor \in S => /\ Settled(S, data).waitsFor = None
                                      /\ Settled(S, data).data = IF data = None THEN userQ.data ELSE data
BY DEF Settled, TypeOK

LEMMA QueueOfCalls ==
    ASSUME TypeOK
    PROVE  Queued \subseteq Calls
BY LenProperties, ElementOfSeq DEF Queued, TypeOK

LEMMA AnsweredOk ==
    ASSUME TypeOK, AnswersAreTrue, NEW c \in Calls, call[c].phase = "answered", call[c].status = "ok"
    PROVE  call[c].tok \in Tokens
BY DEF TypeOK, AnswersAreTrue, Requests

-----------------------------------------------------------------------------
(* Types.                                                                  *)

Types == TypeOK /\ AnswersAreTrue

LEMMA TypesInit == Init => Types
<1> SUFFICES ASSUME Init PROVE Types
  OBVIOUS
<1>1. call = [c \in Calls |-> Idle] /\ call \in [Calls -> Requests] /\ {init, login, logout} \subseteq Requests
  BY IdleFields DEF Init
<1>2. cookie \in SomeToken /\ issued \in 0..MaxTokens
  BY DEF Init, SomeToken, Tokens
<1>3. TypeOK
  <2>1. <<>> \in Seq(Calls)
    BY EmptySeq
  <2>2. auth \in [token : SomeToken, isAuthenticated : BOOLEAN]
    BY EmptyState DEF Init
  <2>3. initQ \in [status : {"new", "fetching", "success", "error"}, enabled : BOOLEAN]
        /\ userQ \in [data : Users \cup {None}, error : BOOLEAN, waitsFor : Calls \cup {None}]
    BY EmptyState DEF Init
  <2>4. {cookie, accessToken, defaultAuth} \subseteq SomeToken /\ failedQueue \in Seq(Calls)
    BY <1>2, <2>1 DEF Init, SomeToken
  <2>5. route \in Routes /\ view \in Views
    BY DEF Init, Views
  <2>6. /\ deadAccess \subseteq 1..MaxTokens /\ deadRefresh \subseteq 1..MaxTokens
        /\ clicks \in 0..MaxClicks /\ signedOut \in {"no", "asked", "confirmed"}
    BY DEF Init
  <2>7. isRefreshing \in BOOLEAN /\ dirty \in BOOLEAN /\ tainted \in BOOLEAN
    BY DEF Init
  <2> QED
    BY <1>1, <1>2, <2>2, <2>3, <2>4, <2>5, <2>6, <2>7 DEF TypeOK, SomeToken
<1>4. AnswersAreTrue
  BY <1>1, IdleFields DEF AnswersAreTrue, Init
<1> QED
  BY <1>3, <1>4 DEF Types

(* One call changes, the others do not.                                    *)
LEMMA OneCall ==
    ASSUME TypeOK, NEW c \in Calls, NEW r \in Requests, call' = [call EXCEPT ![c] = r]
    PROVE  /\ call' \in [Calls -> Requests] /\ call'[c] = r
           /\ \A d \in Calls : d # c => call'[d] = call[d]
BY DEF TypeOK

LEMMA CallField ==
    ASSUME TypeOK, NEW c \in Calls
    PROVE  call[c] \in Requests /\ call[c].tok \in SomeToken /\ call[c].retry \in BOOLEAN
BY DEF TypeOK, Requests, SomeToken

(* A call that changes, and nothing else that the types speak of but the   *)
(* refresh flag, the queue, the profile query and the clicks.              *)
Others == <<deadAccess, deadRefresh, cookie, accessToken, defaultAuth, init, login, logout,
            auth, initQ, route, view, signedOut, tainted>>
LEMMA CallTypes ==
    ASSUME Types, NEW c \in Calls, NEW r \in Requests, call' = [call EXCEPT ![c] = r],
           r.phase = "answered" /\ r.status = "ok" => r.tok # None,
           UNCHANGED Others,
           issued' \in 0..MaxTokens, clicks' \in 0..MaxClicks, dirty' \in BOOLEAN,
           isRefreshing' \in BOOLEAN, failedQueue' \in Seq(Calls),
           userQ' \in [data : Users \cup {None}, error : BOOLEAN, waitsFor : Calls \cup {None}]
    PROVE  Types'
<1>1. /\ call' \in [Calls -> Requests] /\ call'[c] = r
      /\ \A d \in Calls : d # c => call'[d] = call[d]
  BY OneCall DEF Types
<1>2. TypeOK'
  BY <1>1 DEF Types, TypeOK, Others
<1>3. AnswersAreTrue'
  BY <1>1 DEF Types, AnswersAreTrue, Others
<1> QED
  BY <1>2, <1>3 DEF Types

LEMMA ClickType == TypeOK /\ Click => clicks' \in 0..MaxClicks
BY DEF TypeOK, Click

LEMMA TypesServer ==
    ASSUME Types, AccessDies \/ RefreshDies \/ ServerStep
    PROVE  Types'
<1> TypeOK
  BY DEF Types
<1>1. CASE AccessDies
  <2>1. deadAccess' \subseteq 1..MaxTokens /\ deadAccess \subseteq deadAccess'
    BY <1>1 DEF AccessDies, TypeOK
  <2> QED
    BY <1>1, <2>1 DEF AccessDies, Types, TypeOK, AnswersAreTrue, client, history
<1>2. CASE RefreshDies
  <2>1. deadRefresh' \subseteq 1..MaxTokens
    BY <1>2, TokenFields DEF RefreshDies, TypeOK
  <2> QED
    BY <1>2, <2>1 DEF RefreshDies, Types, TypeOK, AnswersAreTrue, client, history
<1>3. ASSUME NEW c \in Calls, AnswerCall(c) PROVE Types'
  <2>1. PICK status \in Verdicts(call[c].tok) :
            call' = [call EXCEPT ![c] = Answered(call[c], status, call[c].tok)]
    BY <1>3 DEF AnswerCall, TypeOK
  <2>2. status \in {"ok", "401", "failed"} /\ (status = "ok" => call[c].tok # None)
    BY DEF Verdicts
  <2> DEFINE r == Answered(call[c], status, call[c].tok)
  <2>3. r \in Requests /\ r.status = status /\ r.tok = call[c].tok
    BY <2>2, CallField DEF Answered, Requests, SomeToken
  <2> HIDE DEF r
  <2> QED
    BY <1>3, <2>1, <2>2, <2>3, CallTypes DEF AnswerCall, TypeOK, server, client, history, Others, r
<1>4. ASSUME NEW c \in Calls, AnswerRefresh(c) PROVE Types'
  <2>1. PICK tok \in SomeToken :
            /\ call' = [call EXCEPT ![c] = [call[c] EXCEPT !.phase = "refreshed", !.tok = tok]]
            /\ issued' \in 0..MaxTokens
    <3>1. CASE Granted(call[c].tok) /\ issued' = issued + 1
               /\ call' = [call EXCEPT ![c].phase = "refreshed", ![c].tok = Fresh(call[c].tok.user)]
      <4>1. issued < MaxTokens /\ call[c].tok \in Tokens
        BY <3>1, CallField DEF Granted, SomeToken
      <4>2. Fresh(call[c].tok.user) \in Tokens
        BY <4>1, TokenFields, FreshToken
      <4>3. issued' \in 0..MaxTokens
        BY <3>1, <4>1 DEF TypeOK
      <4>4. call' = [call EXCEPT ![c] = [call[c] EXCEPT !.phase = "refreshed", !.tok = Fresh(call[c].tok.user)]]
        BY <3>1 DEF TypeOK
      <4> QED
        BY <4>2, <4>3, <4>4 DEF SomeToken
    <3>2. CASE issued' = issued
               /\ call' = [call EXCEPT ![c].phase = "refreshed", ![c].tok = None]
      <4>1. call' = [call EXCEPT ![c] = [call[c] EXCEPT !.phase = "refreshed", !.tok = None]]
        BY <3>2 DEF TypeOK
      <4> QED
        BY <3>2, <4>1 DEF SomeToken, TypeOK
    <3> QED
      BY <1>4, <3>1, <3>2 DEF AnswerRefresh
  <2> DEFINE r == [call[c] EXCEPT !.phase = "refreshed", !.tok = tok]
  <2>2. r \in Requests /\ r.phase = "refreshed"
    BY CallField DEF Requests, SomeToken
  <2> HIDE DEF r
  <2> QED
    BY <1>4, <2>1, <2>2, CallTypes DEF AnswerRefresh, TypeOK, client, history, Others, r
<1>5. CASE AnswerInit
  <2>1. PICK tok \in SomeToken, status \in {"ok", "failed"} :
            init' = Answered(init, status, tok) /\ issued' \in 0..MaxTokens
    <3>1. CASE Granted(init.tok) /\ issued' = issued + 1 /\ init' = Answered(init, "ok", Fresh(init.tok.user))
      <4>1. issued < MaxTokens /\ init.tok \in Tokens
        BY <3>1 DEF Granted, TypeOK, Requests
      <4>2. Fresh(init.tok.user) \in Tokens
        BY <4>1, TokenFields, FreshToken
      <4> QED
        BY <3>1, <4>1, <4>2 DEF TypeOK, SomeToken
    <3>2. CASE issued' = issued /\ init' = Answered(init, "failed", None)
      BY <3>2 DEF SomeToken, TypeOK
    <3> QED
      BY <1>5, <3>1, <3>2 DEF AnswerInit
  <2>2. init' \in Requests
    BY <2>1, AnsweredFields DEF TypeOK
  <2> QED
    BY <1>5, <2>1, <2>2 DEF AnswerInit, Types, TypeOK, AnswersAreTrue, client, history
<1>6. CASE AnswerLogin
  <2>1. PICK tok \in SomeToken, status \in {"ok", "failed"} :
            login' = Answered(login, status, tok) /\ issued' \in 0..MaxTokens
    BY <1>6, FreshToken DEF AnswerLogin, SomeToken, TypeOK
  <2>2. login' \in Requests
    BY <2>1, AnsweredFields DEF TypeOK
  <2> QED
    BY <1>6, <2>1, <2>2 DEF AnswerLogin, Types, TypeOK, AnswersAreTrue, client, history
<1>7. CASE AnswerLogout
  <2>1. PICK status \in {"ok", "failed"} :
            /\ logout' = Answered(logout, status, logout.tok)
            /\ deadAccess \subseteq deadAccess'
            /\ status = "ok" => logout.tok # None /\ logout.tok.n \in deadAccess'
    BY <1>7 DEF AnswerLogout
  <2>2. /\ logout' \in Requests /\ logout'.status = status /\ logout'.tok = logout.tok
    BY <2>1, AnsweredFields DEF TypeOK, Requests, SomeToken
  <2>3. /\ deadAccess' \subseteq 1..MaxTokens /\ deadRefresh' \subseteq 1..MaxTokens
    <3>1. logout.tok # None => logout.tok.n \in 1..MaxTokens
      BY TokenFields DEF TypeOK, Requests
    <3>2. cookie # None => cookie.n \in 1..MaxTokens
      BY TokenFields DEF TypeOK
    <3> QED
      BY <1>7, <3>1, <3>2 DEF AnswerLogout, TypeOK
  <2>4. TypeOK'
    BY <1>7, <2>2, <2>3 DEF AnswerLogout, TypeOK, client, history
  <2>5. AnswersAreTrue'
    BY <1>7, <2>1, <2>2 DEF AnswerLogout, Types, AnswersAreTrue
  <2> QED
    BY <2>4, <2>5 DEF Types
<1> QED
  BY <1>1, <1>2, <1>3, <1>4, <1>5, <1>6, <1>7 DEF ServerStep

LEMMA TypesCall ==
    ASSUME Types, NEW c \in Calls, CallStep(c)
    PROVE  Types'
<1> TypeOK
  BY DEF Types
<1> DEFINE refreshing == [phase |-> "refreshing", tok |-> cookie, status |-> "none", retry |-> TRUE]
           queued == [call[c] EXCEPT !.phase = "queued"]
<1>1. CASE ReceivePlain(c)
  <2>1. call[c].status = "ok" => call[c].tok.user \in Users
    BY <1>1, AnsweredOk, TokenFields DEF ReceivePlain, Types
  <2>2. userQ' \in [data : Users \cup {None}, error : BOOLEAN, waitsFor : Calls \cup {None}]
    BY <1>1, <2>1, SettledType DEF ReceivePlain
  <2>3. dirty' \in BOOLEAN
    BY <1>1 DEF ReceivePlain
  <2> QED
    BY <1>1, <2>2, <2>3, CallTypes, IdleFields DEF ReceivePlain, TypeOK, server, client, history, Others
<1>2. CASE ReceiveQueued(c)
  <2>1. queued \in Requests /\ queued.phase = "queued"
    BY CallField DEF Requests
  <2>2. call' = [call EXCEPT ![c] = queued]
    BY <1>2 DEF ReceiveQueued, TypeOK
  <2>3. failedQueue' \in Seq(Calls)
    BY <1>2, AppendProperties DEF ReceiveQueued, TypeOK
  <2> HIDE DEF queued
  <2> QED
    <3>1. isRefreshing' \in BOOLEAN /\ dirty' \in BOOLEAN
      BY <1>2 DEF ReceiveQueued, TypeOK
    <3>2. UNCHANGED Others
      BY <1>2 DEF ReceiveQueued, server, client, history, Others
    <3>3. /\ issued' \in 0..MaxTokens /\ clicks' \in 0..MaxClicks
          /\ userQ' \in [data : Users \cup {None}, error : BOOLEAN, waitsFor : Calls \cup {None}]
      BY <1>2 DEF ReceiveQueued, TypeOK, server, client
    <3> QED
      BY <2>1, <2>2, <2>3, <3>1, <3>2, <3>3, CallTypes
<1>3. CASE ReceiveRefreshing(c)
  <2>1. refreshing \in Requests /\ refreshing.phase = "refreshing"
    BY RefreshingFields DEF TypeOK, SomeToken
  <2>2. call' = [call EXCEPT ![c] = refreshing] /\ isRefreshing' \in BOOLEAN
    BY <1>3 DEF ReceiveRefreshing
  <2> HIDE DEF refreshing
  <2> QED
    <3>1. isRefreshing' \in BOOLEAN /\ dirty' \in BOOLEAN
      BY <1>3 DEF ReceiveRefreshing, TypeOK
    <3>2. UNCHANGED Others
      BY <1>3 DEF ReceiveRefreshing, server, client, history, Others
    <3>3. /\ issued' \in 0..MaxTokens /\ clicks' \in 0..MaxClicks /\ failedQueue' \in Seq(Calls)
          /\ userQ' \in [data : Users \cup {None}, error : BOOLEAN, waitsFor : Calls \cup {None}]
      BY <1>3 DEF ReceiveRefreshing, TypeOK, server, client
    <3> QED
      BY <2>1, <2>2, <3>1, <3>2, <3>3, CallTypes
<1>4. CASE RefreshSucceeds(c)
  <2>1. call[c].tok \in Tokens
    BY <1>4, CallField DEF RefreshSucceeds, SomeToken
  <2>2. call' \in [Calls -> Requests]
        /\ \A d \in Calls : call'[d] = call[d] \/ call'[d].phase = "sent"
    BY <1>4, <2>1, CallField, SentFields DEF RefreshSucceeds, SomeToken, TypeOK
  <2>3. tainted' \in BOOLEAN /\ isRefreshing' \in BOOLEAN
    BY <1>4 DEF RefreshSucceeds, TypeOK
  <2>4. TypeOK'
    BY <1>4, <2>1, <2>2, <2>3, EmptySeq DEF RefreshSucceeds, TypeOK, server
  <2>5. AnswersAreTrue'
    BY <1>4, <2>2 DEF RefreshSucceeds, Types, AnswersAreTrue, server
  <2> QED
    BY <2>4, <2>5 DEF Types
<1>5. CASE RefreshFails(c)
  <2>1. call' \in [Calls -> Requests]
        /\ \A d \in Calls : call'[d] = call[d] \/ call'[d].phase = "idle"
    BY <1>5, IdleFields DEF RefreshFails, TypeOK
  <2>2. userQ' \in [data : Users \cup {None}, error : BOOLEAN, waitsFor : Calls \cup {None}]
    BY <1>5 DEF RefreshFails, Settled, TypeOK
  <2>3. tainted' \in BOOLEAN /\ isRefreshing' \in BOOLEAN /\ dirty' \in BOOLEAN
    BY <1>5 DEF RefreshFails, TypeOK
  <2>4. TypeOK'
    BY <1>5, <2>1, <2>2, <2>3, EmptySeq DEF RefreshFails, TypeOK, server
  <2>5. AnswersAreTrue'
    BY <1>5, <2>1 DEF RefreshFails, Types, AnswersAreTrue, server
  <2> QED
    BY <2>4, <2>5 DEF Types
<1> QED
  BY <1>1, <1>2, <1>3, <1>4, <1>5 DEF CallStep

LEMMA TypesHook ==
    ASSUME Types, HookStep
    PROVE  Types'
<1> TypeOK
  BY DEF Types
<1>1. CASE InitReceived
  <2>1. auth' \in [token : SomeToken, isAuthenticated : BOOLEAN] /\ accessToken' \in SomeToken
    BY <1>1, EmptyState DEF InitReceived, TypeOK, Requests, SomeToken
  <2>2. initQ' \in [status : {"new", "fetching", "success", "error"}, enabled : BOOLEAN]
    BY <1>1 DEF InitReceived, TypeOK
  <2>3. TypeOK'
    BY <1>1, <2>1, <2>2, IdleFields DEF InitReceived, TypeOK, SomeToken, server, history
  <2>4. AnswersAreTrue'
    BY <1>1 DEF InitReceived, Types, AnswersAreTrue, server
  <2> QED
    BY <2>3, <2>4 DEF Types
<1>2. CASE LoginSucceeds
  <2>1. auth' \in [token : SomeToken, isAuthenticated : BOOLEAN] /\ login.tok \in Tokens
    BY <1>2, EmptyState DEF LoginSucceeds, TypeOK, Requests, SomeToken
  <2>2. dirty' \in BOOLEAN /\ tainted' \in BOOLEAN
    BY <1>2 DEF LoginSucceeds, TypeOK
  <2>3. TypeOK'
    BY <1>2, <2>1, <2>2, IdleFields DEF LoginSucceeds, TypeOK, SomeToken, server, Routes, GuardedRoutes
  <2>4. AnswersAreTrue'
    BY <1>2 DEF LoginSucceeds, Types, AnswersAreTrue, server
  <2> QED
    BY <2>3, <2>4 DEF Types
<1>3. CASE LoginFails
  BY <1>3, IdleFields DEF LoginFails, Types, TypeOK, AnswersAreTrue, server, client, history
<1>4. CASE LogoutSettles
  <2>1. auth' \in [token : SomeToken, isAuthenticated : BOOLEAN] /\ cookie' \in SomeToken
    BY <1>4, EmptyState DEF LogoutSettles, TypeOK, SomeToken
  <2>2. dirty' \in BOOLEAN /\ tainted' \in BOOLEAN
    BY <1>4 DEF LogoutSettles, TypeOK
  <2>3. /\ initQ' \in [status : {"new", "fetching", "success", "error"}, enabled : BOOLEAN]
        /\ userQ' \in [data : Users \cup {None}, error : BOOLEAN, waitsFor : Calls \cup {None}]
    BY <1>4, EmptyState DEF LogoutSettles
  <2>4. route' \in Routes /\ signedOut' \in {"no", "asked", "confirmed"} /\ logout' \in Requests
    BY <1>4, IdleFields DEF LogoutSettles, Routes, PublicRoutes
  <2>5. TypeOK'
    BY <1>4, <2>1, <2>2, <2>3, <2>4 DEF LogoutSettles, TypeOK, SomeToken, server
  <2>6. AnswersAreTrue'
    BY <1>4, IdleFields DEF LogoutSettles, Types, AnswersAreTrue, server
  <2> QED
    BY <2>5, <2>6 DEF Types
<1> QED
  BY <1>1, <1>2, <1>3, <1>4 DEF HookStep

LEMMA TypesUser ==
    ASSUME Types, UserStep
    PROVE  Types'
<1> TypeOK
  BY DEF Types
<1> DEFINE sent == Sent(AuthorizationHeader, FALSE)
<1>0. sent \in Requests /\ sent.phase = "sent"
  BY HeaderType DEF Sent, Requests, SomeToken
<1> HIDE DEF sent
<1>1. CASE SubmitLogin
  <2>1. login' \in Requests /\ clicks' \in 0..MaxClicks
    BY <1>1, <1>0, ClickType DEF SubmitLogin, sent
  <2> QED
    <3>1. isRefreshing' \in BOOLEAN /\ dirty' \in BOOLEAN /\ tainted' \in BOOLEAN
      BY <1>1 DEF SubmitLogin, TypeOK, client, history
    <3>2. TypeOK'
      BY <1>1, <2>1, <3>1 DEF SubmitLogin, TypeOK, server, client, history
    <3>3. AnswersAreTrue'
      BY <1>1, <2>1 DEF SubmitLogin, Types, AnswersAreTrue, server
    <3> QED
      BY <3>2, <3>3 DEF Types
<1>2. CASE SubmitLogout
  <2>1. logout' \in Requests /\ clicks' \in 0..MaxClicks /\ logout'.phase = "sent"
    BY <1>2, <1>0, ClickType DEF SubmitLogout, sent
  <2> QED
    <3>1. isRefreshing' \in BOOLEAN /\ dirty' \in BOOLEAN /\ tainted' \in BOOLEAN
      BY <1>2 DEF SubmitLogout, TypeOK, client, history
    <3>2. TypeOK'
      BY <1>2, <2>1, <3>1 DEF SubmitLogout, TypeOK, server, client, history
    <3>3. AnswersAreTrue'
      BY <1>2, <2>1 DEF SubmitLogout, Types, AnswersAreTrue, server
    <3> QED
      BY <3>2, <3>3 DEF Types
<1>3. CASE Register
  <2>1. route' \in Routes /\ clicks' \in 0..MaxClicks /\ dirty' \in BOOLEAN
    BY <1>3, ClickType DEF Register, Routes, PublicRoutes
  <2> QED
    BY <1>3, <2>1 DEF Register, Types, TypeOK, AnswersAreTrue, server, client, history
<1>4. CASE Reload
  <2>1. clicks' \in 0..MaxClicks /\ dirty' \in BOOLEAN /\ tainted' \in BOOLEAN /\ isRefreshing' \in BOOLEAN
    BY <1>4, ClickType DEF Reload
  <2>2. call' = [c \in Calls |-> Idle] /\ call' \in [Calls -> Requests] /\ {init, login, logout}' \subseteq Requests
    BY <1>4, IdleFields DEF Reload
  <2>3. /\ initQ' \in [status : {"new", "fetching", "success", "error"}, enabled : BOOLEAN]
        /\ userQ' \in [data : Users \cup {None}, error : BOOLEAN, waitsFor : Calls \cup {None}]
        /\ auth' \in [token : SomeToken, isAuthenticated : BOOLEAN]
    BY <1>4, EmptyState DEF Reload
  <2>4. failedQueue' \in Seq(Calls) /\ accessToken' = None /\ defaultAuth' = None /\ view' \in Views
    BY <1>4, EmptySeq DEF Reload, Views
  <2>5. TypeOK'
    BY <1>4, <2>1, <2>2, <2>3, <2>4 DEF Reload, TypeOK, SomeToken, server
  <2>6. AnswersAreTrue'
    BY <1>4, <2>2, IdleFields DEF Reload, AnswersAreTrue
  <2> QED
    BY <2>5, <2>6 DEF Types
<1>5. ASSUME NEW r \in Pages, Navigate(r) PROVE Types'
  <2>1. route' \in Routes /\ clicks' \in 0..MaxClicks /\ dirty' \in BOOLEAN
    BY <1>5, ClickType DEF Navigate
  <2> QED
    BY <1>5, <2>1 DEF Navigate, Types, TypeOK, AnswersAreTrue, server, client, history
<1>6. ASSUME NEW c \in Calls, Send(c) PROVE Types'
  <2>1. call' = [call EXCEPT ![c] = sent]
    BY <1>6 DEF Send, sent
  <2>2. clicks' \in 0..MaxClicks
    BY <1>6, ClickType DEF Send
  <2> QED
    <3>1. isRefreshing' \in BOOLEAN /\ dirty' \in BOOLEAN
      BY <1>6 DEF Send, TypeOK, client
    <3>2. UNCHANGED Others
      BY <1>6 DEF Send, server, client, history, Others
    <3>3. /\ issued' \in 0..MaxTokens /\ failedQueue' \in Seq(Calls)
          /\ userQ' \in [data : Users \cup {None}, error : BOOLEAN, waitsFor : Calls \cup {None}]
      BY <1>6 DEF Send, TypeOK, server, client
    <3> QED
      BY <1>0, <2>1, <2>2, <3>1, <3>2, <3>3, CallTypes
<1>7. ASSUME NEW c \in Calls, RefetchUser(c) PROVE Types'
  <2>1. call' = [call EXCEPT ![c] = sent]
    BY <1>7 DEF RefetchUser, sent
  <2>2. clicks' \in 0..MaxClicks
    BY <1>7, ClickType DEF RefetchUser
  <2>3. userQ' \in [data : Users \cup {None}, error : BOOLEAN, waitsFor : Calls \cup {None}]
    BY <1>7 DEF RefetchUser, TypeOK
  <2> QED
    BY <1>7, <1>0, <2>1, <2>2, <2>3, CallTypes DEF RefetchUser, TypeOK, server, client, history, Others
<1> QED
  BY <1>1, <1>2, <1>3, <1>4, <1>5, <1>6, <1>7 DEF UserStep

LEMMA RenderedInit ==
    ASSUME TypeOK, RenderInit
    PROVE  /\ init' \in Requests
           /\ initQ' \in [status : {"new", "fetching", "success", "error"}, enabled : BOOLEAN]
<1>1. CASE InitStarts
  <2>1. init' \in Requests
    <3>1. cookie \in Tokens \cup {None}
      BY DEF TypeOK
    <3>2. PICK tok \in SomeToken : tok = cookie
      BY <3>1 DEF SomeToken
    <3>3. Sent(tok, FALSE) \in Requests
      BY SentFields
    <3>4. init' = Sent(tok, FALSE)
      BY <1>1, <3>2 DEF RenderInit, Sent
    <3> QED
      BY <3>3, <3>4
  <2>2. initQ' = [status |-> "fetching", enabled |-> TRUE]
    BY <1>1 DEF RenderInit
  <2> QED
    BY <2>1, <2>2
<1>2. CASE ~InitStarts
  <2>1. init' = init /\ initQ' = [initQ EXCEPT !.enabled = ~HasToken]
    BY <1>2 DEF RenderInit
  <2>2. PICK enabled \in BOOLEAN : enabled = ~HasToken
    <3>1. CASE HasToken
      BY <3>1, Zenon
    <3>2. CASE ~HasToken
      BY <3>2, Zenon
    <3> QED
      BY <3>1, <3>2
  <2> QED
    BY <2>1, <2>2 DEF TypeOK
<1> QED
  BY <1>1, <1>2

LEMMA RenderedUser ==
    ASSUME TypeOK, RenderUser
    PROVE  \/ call' = call /\ userQ' = userQ
           \/ /\ HasToken /\ userQ.waitsFor = None
              /\ \E c \in Calls :
                   /\ call[c].phase = "idle"
                   /\ call' = [call EXCEPT ![c] = Sent(accessToken, FALSE)]
                   /\ userQ' = [data |-> userQ.data, error |-> userQ.data # None, waitsFor |-> c]
BY DEF RenderUser, UserStarts, AuthorizationHeader

LEMMA RenderedOutcome ==
    Outcome \in {"loader", "checking", "dashboard", "login", "landing", "admin", route}
BY DEF Outcome, Guard, RoleBasedDashboard

LEMMA TypesRender ==
    ASSUME Types, Render
    PROVE  Types'
<1> TypeOK
  BY DEF Types
<1>1. /\ init' \in Requests
      /\ initQ' \in [status : {"new", "fetching", "success", "error"}, enabled : BOOLEAN]
  BY RenderedInit DEF Render
<1>2. /\ call' \in [Calls -> Requests]
      /\ userQ' \in [data : Users \cup {None}, error : BOOLEAN, waitsFor : Calls \cup {None}]
      /\ \A c \in Calls : call'[c] = call[c] \/ call'[c].phase = "sent"
  <2>1. CASE call' = call /\ userQ' = userQ
    BY <2>1 DEF TypeOK
  <2>2. ASSUME NEW c \in Calls, call' = [call EXCEPT ![c] = Sent(accessToken, FALSE)],
               userQ' = [data |-> userQ.data, error |-> userQ.data # None, waitsFor |-> c]
        PROVE  <1>2!1 /\ <1>2!2 /\ <1>2!3
    <3>1. Sent(accessToken, FALSE) \in Requests /\ Sent(accessToken, FALSE).phase = "sent"
      BY DEF Sent, Requests, TypeOK
    <3>2. (userQ.data # None) \in BOOLEAN
      OBVIOUS
    <3>3. userQ' \in [data : Users \cup {None}, error : BOOLEAN, waitsFor : Calls \cup {None}]
      BY <2>2, <3>2 DEF TypeOK
    <3>4. call' \in [Calls -> Requests] /\ \A d \in Calls : call'[d] = call[d] \/ call'[d].phase = "sent"
      BY <2>2, <3>1 DEF TypeOK
    <3> QED
      BY <3>3, <3>4
  <2> QED
    BY <2>1, <2>2, RenderedUser DEF Render
<1>3. route' \in Routes /\ view' \in Views /\ dirty' \in BOOLEAN
  BY RenderedOutcome DEF Render, TypeOK, Routes, PublicRoutes, GuardedRoutes, Views
<1>4. TypeOK'
  BY <1>1, <1>2, <1>3 DEF Render, TypeOK, server, client, history
<1>5. AnswersAreTrue'
  BY <1>2 DEF Render, Types, AnswersAreTrue, server
<1> QED
  BY <1>4, <1>5 DEF Types

LEMMA TypesStep == Types /\ [Next]_vars => Types'
<1> SUFFICES ASSUME Types, [Next]_vars PROVE Types'
  OBVIOUS
<1>1. CASE UNCHANGED vars
  BY <1>1 DEF Types, TypeOK, AnswersAreTrue, vars, server, client, history
<1>2. CASE Next
  BY <1>2, TypesServer, TypesCall, TypesHook, TypesUser, TypesRender DEF Next
<1> QED
  BY <1>1, <1>2

(* Everything keeps its type (any number of accounts, calls and tokens).   *)
THEOREM TypeCorrect == Spec => []TypeOK
<1>1. Types => TypeOK
  BY DEF Types
<1> QED
  BY TypesInit, TypesStep, <1>1, PTL DEF Spec

-----------------------------------------------------------------------------
(* The interceptor.                                                        *)

OutPhases == {"refreshing", "refreshed"}

(* A step that starts no refresh and ends none, and queues nobody.         *)
LEMMA ProtocolKept ==
    ASSUME RefreshProtocol, UNCHANGED <<isRefreshing, failedQueue>>,
           \A c \in Calls : /\ call'[c].phase \in OutPhases <=> call[c].phase \in OutPhases
                            /\ call'[c].phase = "queued" <=> call[c].phase = "queued"
                            /\ call[c].phase \in OutPhases => call'[c].retry = call[c].retry
    PROVE  RefreshProtocol'
<1>1. Refreshers' = Refreshers /\ Queued' = Queued
  BY DEF Refreshers, OutPhases, Queued
<1>2. \A c \in Refreshers : call'[c].retry = call[c].retry
  BY DEF Refreshers, OutPhases
<1>3. \A c \in Refreshers' : (call[c].retry)'
  BY <1>1, <1>2 DEF RefreshProtocol
<1>4. \A c \in Calls : (call[c].phase = "queued" <=> c \in Queued)'
  BY <1>1 DEF RefreshProtocol
<1> QED
  BY <1>1, <1>3, <1>4 DEF RefreshProtocol

(* One call moves among the phases that wait for nobody.                   *)
Plain == {"idle", "sent", "answered"}
LEMMA PlainMove ==
    ASSUME TypeOK, RefreshProtocol, UNCHANGED <<isRefreshing, failedQueue>>,
           NEW c \in Calls, NEW r, call' = [call EXCEPT ![c] = r],
           call[c].phase \in Plain, r.phase \in Plain
    PROVE  RefreshProtocol'
<1>1. call'[c] = r /\ \A d \in Calls : d # c => call'[d] = call[d]
  BY DEF TypeOK
<1> QED
  BY <1>1, ProtocolKept DEF OutPhases, Plain

LEMMA ProtocolInit == Init => RefreshProtocol
BY IdleFields, EmptySeq DEF Init, RefreshProtocol, Refreshers, Queued

LEMMA ProtocolServer ==
    ASSUME Types, RefreshProtocol, AccessDies \/ RefreshDies \/ ServerStep
    PROVE  RefreshProtocol'
<1> TypeOK
  BY DEF Types
<1>1. CASE UNCHANGED <<call, client>>
  BY <1>1, ProtocolKept DEF client
<1>2. ASSUME NEW c \in Calls, AnswerCall(c) PROVE RefreshProtocol'
  <2>1. PICK status : call' = [call EXCEPT ![c] = Answered(call[c], status, call[c].tok)]
    BY <1>2 DEF AnswerCall, TypeOK
  <2>2. Answered(call[c], status, call[c].tok).phase = "answered"
    BY CallField DEF Answered, Requests
  <2> QED
    BY <1>2, <2>1, <2>2, PlainMove DEF AnswerCall, Plain, client
<1>3. ASSUME NEW c \in Calls, AnswerRefresh(c) PROVE RefreshProtocol'
  <2>1. PICK tok : call' = [call EXCEPT ![c].phase = "refreshed", ![c].tok = tok]
    BY <1>3 DEF AnswerRefresh
  <2>2. /\ call'[c].phase = "refreshed" /\ call'[c].retry = call[c].retry
        /\ \A d \in Calls : d # c => call'[d] = call[d]
    BY <2>1, CallField DEF TypeOK, Requests
  <2>3. call[c].phase = "refreshing" /\ UNCHANGED <<isRefreshing, failedQueue>>
    BY <1>3 DEF AnswerRefresh, client
  <2> QED
    BY <2>2, <2>3, ProtocolKept DEF OutPhases
<1> QED
  BY <1>1, <1>2, <1>3 DEF AccessDies, RefreshDies, ServerStep, AnswerInit, AnswerLogin, AnswerLogout

(* The end of a refresh: whatever it left behind, nobody waits any more.   *)
LEMMA ProtocolEnds ==
    ASSUME TypeOK, RefreshProtocol, NEW c \in Calls, call[c].phase = "refreshed",
           isRefreshing' = FALSE, failedQueue' = <<>>,
           \A d \in Calls : IF d \in Queued \cup {c} THEN call'[d].phase \in Plain
                                                     ELSE call'[d] = call[d]
    PROVE  RefreshProtocol'
<1>1. c \in Refreshers /\ \A d \in Calls : d # c => d \notin Refreshers
  BY DEF RefreshProtocol, Refreshers
<1>2. \A d \in Calls : d \notin Queued \cup {c} => call[d].phase \notin OutPhases \cup {"queued"}
  BY <1>1 DEF RefreshProtocol, Refreshers, OutPhases
<1>3. \A d \in Calls : call'[d].phase \notin OutPhases \cup {"queued"}
  BY <1>2 DEF OutPhases, Plain
<1>4. Refreshers' = {}
  BY <1>3 DEF Refreshers, OutPhases
<1>5. Queued' = {}
  BY EmptySeq DEF Queued
<1> QED
  BY <1>3, <1>4, <1>5, EmptySeq DEF RefreshProtocol

LEMMA ProtocolCall ==
    ASSUME Types, RefreshProtocol, NEW c \in Calls, CallStep(c)
    PROVE  RefreshProtocol'
<1> TypeOK
  BY DEF Types
<1>1. CASE ReceivePlain(c)
  BY <1>1, PlainMove, IdleFields DEF ReceivePlain, Plain, client
<1>2. CASE ReceiveQueued(c)
  <2>1. /\ call'[c].phase = "queued" /\ call[c].phase = "answered"
        /\ \A d \in Calls : d # c => call'[d] = call[d]
    BY <1>2, CallField DEF ReceiveQueued, TypeOK, Requests
  <2>2. Refreshers' = Refreshers /\ \A d \in Refreshers : call'[d] = call[d]
    BY <2>1 DEF Refreshers
  <2>3. /\ Len(failedQueue') = Len(failedQueue) + 1 /\ failedQueue'[Len(failedQueue) + 1] = c
        /\ \A i \in 1..Len(failedQueue) : failedQueue'[i] = failedQueue[i]
        /\ Len(failedQueue) \in Nat
    BY <1>2, AppendProperties, LenProperties DEF ReceiveQueued, TypeOK
  <2>4. Queued' = Queued \cup {c}
    BY <2>3 DEF Queued
  <2>5. c \notin Queued /\ \A i \in 1..Len(failedQueue) : failedQueue[i] # c
    BY <2>1 DEF RefreshProtocol, Queued
  <2>6. (\A i, j \in 1..Len(failedQueue) : failedQueue[i] = failedQueue[j] => i = j)'
    <3> SUFFICES ASSUME NEW i \in 1..Len(failedQueue'), NEW j \in 1..Len(failedQueue'),
                        failedQueue'[i] = failedQueue'[j]
                 PROVE  i = j
      OBVIOUS
    <3>1. i \in 1..Len(failedQueue) \/ i = Len(failedQueue) + 1
      BY <2>3
    <3>2. j \in 1..Len(failedQueue) \/ j = Len(failedQueue) + 1
      BY <2>3
    <3>3. \A k, l \in 1..Len(failedQueue) : failedQueue[k] = failedQueue[l] => k = l
      BY DEF RefreshProtocol
    <3> QED
      BY <2>3, <2>5, <3>1, <3>2, <3>3
  <2>7. isRefreshing' = isRefreshing /\ isRefreshing
    BY <1>2 DEF ReceiveQueued
  <2>8. (\A d \in Calls : call[d].phase = "queued" <=> d \in Queued)'
    BY <2>1, <2>4 DEF RefreshProtocol
  <2> QED
    BY <2>2, <2>6, <2>7, <2>8 DEF RefreshProtocol
<1>3. CASE ReceiveRefreshing(c)
  <2>1. /\ call'[c].phase = "refreshing" /\ call'[c].retry /\ call[c].phase = "answered"
        /\ \A d \in Calls : d # c => call'[d] = call[d]
    BY <1>3, CallField DEF ReceiveRefreshing, TypeOK
  <2>2. Refreshers = {} /\ failedQueue = <<>>
    BY <1>3 DEF ReceiveRefreshing, RefreshProtocol
  <2>3. Refreshers' = {c}
    BY <2>1, <2>2 DEF Refreshers
  <2>4. isRefreshing' /\ failedQueue' = failedQueue
    BY <1>3 DEF ReceiveRefreshing
  <2>5. Queued' = Queued
    BY <2>4 DEF Queued
  <2>6. (\A d \in Calls : call[d].phase = "queued" <=> d \in Queued)'
    BY <2>1, <2>5 DEF RefreshProtocol
  <2> QED
    BY <2>1, <2>3, <2>4, <2>6 DEF RefreshProtocol
<1>4. CASE RefreshSucceeds(c)
  <2>1. PICK tok : tok = call[c].tok
    OBVIOUS
  <2>2. \A d \in Calls : IF d \in Queued \cup {c} THEN call'[d].phase = "sent" ELSE call'[d] = call[d]
    BY <1>4, <2>1, CallField DEF RefreshSucceeds, Sent
  <2> QED
    BY <1>4, <2>2, ProtocolEnds DEF RefreshSucceeds, Plain
<1>5. CASE RefreshFails(c)
  <2>1. \A d \in Calls : IF d \in Queued \cup {c} THEN call'[d].phase = "idle" ELSE call'[d] = call[d]
    BY <1>5, IdleFields DEF RefreshFails
  <2> QED
    BY <1>5, <2>1, ProtocolEnds DEF RefreshFails, Plain
<1> QED
  BY <1>1, <1>2, <1>3, <1>4, <1>5 DEF CallStep

LEMMA ProtocolUser ==
    ASSUME Types, RefreshProtocol, UserStep
    PROVE  RefreshProtocol'
<1> TypeOK
  BY DEF Types
<1> DEFINE sent == Sent(AuthorizationHeader, FALSE)
<1>0. sent.phase = "sent"
  BY DEF Sent
<1> HIDE DEF sent
<1>1. CASE UNCHANGED <<call, client>>
  BY <1>1, ProtocolKept DEF client
<1>2. CASE Reload
  <2>1. \A c \in Calls : call'[c].phase = "idle"
    BY <1>2, IdleFields DEF Reload
  <2>2. isRefreshing' = FALSE /\ failedQueue' = <<>>
    BY <1>2 DEF Reload
  <2>3. Refreshers' = {} /\ Queued' = {}
    BY <2>1, <2>2, EmptySeq DEF Refreshers, Queued
  <2> QED
    BY <2>1, <2>2, <2>3, EmptySeq DEF RefreshProtocol
<1>3. ASSUME NEW c \in Calls, Send(c) \/ RefetchUser(c) PROVE RefreshProtocol'
  <2>1. call' = [call EXCEPT ![c] = sent] /\ call[c].phase = "idle" /\ UNCHANGED client
    BY <1>3 DEF Send, RefetchUser, sent
  <2> QED
    BY <1>0, <2>1, PlainMove DEF Plain, client
<1> QED
  BY <1>1, <1>2, <1>3 DEF UserStep, SubmitLogin, SubmitLogout, Register, Navigate

LEMMA ProtocolStep == Types /\ RefreshProtocol /\ [Next]_vars => RefreshProtocol'
<1> SUFFICES ASSUME Types, RefreshProtocol, [Next]_vars PROVE RefreshProtocol'
  OBVIOUS
<1> TypeOK
  BY DEF Types
<1>1. CASE HookStep \/ UNCHANGED vars
  <2>1. UNCHANGED <<call, isRefreshing, failedQueue>>
    BY <1>1 DEF HookStep, InitReceived, LoginSucceeds, LoginFails, LogoutSettles, vars, client
  <2> QED
    BY <2>1, ProtocolKept
<1>2. CASE Render
  <2>1. UNCHANGED <<isRefreshing, failedQueue>>
    BY <1>2 DEF Render, client
  <2>2. CASE call' = call
    BY <2>1, <2>2, ProtocolKept
  <2>3. ASSUME NEW c \in Calls, call[c].phase = "idle", call' = [call EXCEPT ![c] = Sent(accessToken, FALSE)]
        PROVE  RefreshProtocol'
    <3>1. Sent(accessToken, FALSE).phase = "sent"
      BY DEF Sent
    <3> QED
      BY <2>1, <2>3, <3>1, PlainMove DEF Plain
  <2> QED
    BY <1>2, <2>2, <2>3, RenderedUser DEF Render
<1> QED
  BY <1>1, <1>2, ProtocolServer, ProtocolCall, ProtocolUser DEF Next

(* One refresh at a time, and nobody waits for none (RefreshProtocol).     *)
THEOREM OneRefreshAtATime == Spec => []RefreshProtocol
<1> QED
  BY TypesInit, TypesStep, ProtocolInit, ProtocolStep, PTL DEF Spec

-----------------------------------------------------------------------------
(* A confirmed logout.                                                     *)

LEMMA SignedOutInit == Init => NothingCanSignIn
BY DEF Init, NothingCanSignIn

(* A step that leaves the session's four copies alone and refreshes with   *)
(* the cookie that there is, or with none.                                 *)
LEMMA StaysOut ==
    ASSUME NothingCanSignIn, signedOut' = "confirmed" => signedOut = "confirmed",
           signedOut = "confirmed" =>
               /\ UNCHANGED <<accessToken, auth, cookie, userQ>>
               /\ init'.phase # "idle" => init'.tok \in {None, cookie} \/ init' = init
               /\ \A c \in Calls : call'[c].phase \in OutPhases =>
                      \/ call'[c].tok \in {None, cookie}
                      \/ call[c].phase \in OutPhases /\ call'[c].tok = call[c].tok
    PROVE  NothingCanSignIn'
<1> SUFFICES ASSUME (signedOut = "confirmed")'
             PROVE  (/\ ~HasToken /\ ~auth.isAuthenticated /\ cookie = None /\ userQ = NewUserQ
                     /\ init.phase # "idle" => init.tok = None
                     /\ \A c \in Refreshers : call[c].tok = None)'
  BY DEF NothingCanSignIn
<1>1. (~HasToken /\ ~auth.isAuthenticated /\ cookie = None /\ userQ = NewUserQ)' /\ cookie = None
  BY DEF NothingCanSignIn, HasToken
<1>2. (init.phase # "idle" => init.tok = None)'
  BY <1>1 DEF NothingCanSignIn
<1>3. (\A c \in Refreshers : call[c].tok = None)'
  BY <1>1 DEF NothingCanSignIn, Refreshers, OutPhases
<1> QED
  BY <1>1, <1>2, <1>3

LEMMA SignedOutServer ==
    ASSUME Types, NothingCanSignIn, AccessDies \/ RefreshDies \/ ServerStep
    PROVE  NothingCanSignIn'
<1> TypeOK
  BY DEF Types
<1>1. CASE UNCHANGED <<call, init, accessToken, auth, cookie, userQ, signedOut>>
  BY <1>1, StaysOut
<1>2. CASE AnswerInit
  <2>1. signedOut = "confirmed" => init.tok = None
    BY <1>2 DEF NothingCanSignIn, AnswerInit
  <2>2. signedOut = "confirmed" => init' = Answered(init, "failed", None)
    BY <1>2, <2>1 DEF AnswerInit, Granted
  <2>3. Answered(init, "failed", None).tok = None
    BY DEF Answered, TypeOK, Requests
  <2>4. UNCHANGED <<call, accessToken, auth, cookie, userQ, signedOut>>
    BY <1>2 DEF AnswerInit, client, history
  <2> QED
    BY <2>2, <2>3, <2>4, StaysOut
<1>3. ASSUME NEW c \in Calls, AnswerCall(c) PROVE NothingCanSignIn'
  <2>1. PICK status : call' = [call EXCEPT ![c] = Answered(call[c], status, call[c].tok)]
    BY <1>3 DEF AnswerCall, TypeOK
  <2>2. Answered(call[c], status, call[c].tok).phase = "answered"
    BY CallField DEF Answered, Requests
  <2>3. \A d \in Calls : call'[d].phase \in OutPhases => call'[d] = call[d]
    BY <2>1, <2>2 DEF TypeOK, OutPhases
  <2>4. UNCHANGED <<init, accessToken, auth, cookie, userQ, signedOut>>
    BY <1>3 DEF AnswerCall, client, history
  <2> QED
    BY <2>3, <2>4, StaysOut
<1>4. ASSUME NEW c \in Calls, AnswerRefresh(c) PROVE NothingCanSignIn'
  <2>1. signedOut = "confirmed" => call[c].tok = None
    BY <1>4 DEF AnswerRefresh, NothingCanSignIn, Refreshers
  <2>2. signedOut = "confirmed" =>
            call' = [call EXCEPT ![c].phase = "refreshed", ![c].tok = None]
    BY <1>4, <2>1 DEF AnswerRefresh, Granted
  <2>3. signedOut = "confirmed" =>
            \A d \in Calls : call'[d].phase \in OutPhases => call'[d].tok = None \/ call'[d] = call[d]
    BY <2>2, CallField DEF TypeOK, Requests
  <2>4. UNCHANGED <<init, accessToken, auth, cookie, userQ, signedOut>>
    BY <1>4 DEF AnswerRefresh, client, history
  <2> QED
    BY <2>3, <2>4, StaysOut
<1> QED
  BY <1>1, <1>2, <1>3, <1>4 DEF AccessDies, RefreshDies, ServerStep, AnswerLogin, AnswerLogout,
     client, history

LEMMA SignedOutCall ==
    ASSUME Types, NothingCanSignIn, NEW c \in Calls, CallStep(c)
    PROVE  NothingCanSignIn'
<1> TypeOK
  BY DEF Types
<1>1. CASE ReceivePlain(c)
  <2>1. signedOut = "confirmed" => userQ.waitsFor = None
    BY EmptyState DEF NothingCanSignIn
  <2>2. signedOut = "confirmed" => userQ' = userQ
    BY <1>1, <2>1, NoToken DEF ReceivePlain, Settled
  <2>3. \A d \in Calls : call'[d].phase \in OutPhases => call'[d] = call[d]
    BY <1>1, IdleFields DEF ReceivePlain, TypeOK, OutPhases
  <2>4. UNCHANGED <<init, accessToken, auth, cookie, signedOut>>
    BY <1>1 DEF ReceivePlain, client, history
  <2> QED
    BY <2>2, <2>3, <2>4, StaysOut
<1>2. CASE ReceiveQueued(c)
  <2>1. \A d \in Calls : call'[d].phase \in OutPhases => call'[d] = call[d]
    BY <1>2, CallField DEF ReceiveQueued, TypeOK, OutPhases, Requests
  <2>2. UNCHANGED <<init, accessToken, auth, cookie, userQ, signedOut>>
    BY <1>2 DEF ReceiveQueued, history
  <2> QED
    BY <2>1, <2>2, StaysOut
<1>3. CASE ReceiveRefreshing(c)
  <2>1. \A d \in Calls : call'[d].tok = cookie \/ call'[d] = call[d]
    BY <1>3 DEF ReceiveRefreshing, TypeOK
  <2>2. UNCHANGED <<init, accessToken, auth, cookie, userQ, signedOut>>
    BY <1>3 DEF ReceiveRefreshing, history
  <2> QED
    BY <2>1, <2>2, StaysOut
<1>4. CASE RefreshSucceeds(c)
  <2>1. signedOut # "confirmed" /\ signedOut' = signedOut
    BY <1>4 DEF RefreshSucceeds, NothingCanSignIn, Refreshers
  <2> QED
    BY <2>1 DEF NothingCanSignIn
<1>5. CASE RefreshFails(c)
  <2>1. signedOut = "confirmed" => userQ.waitsFor = None /\ accessToken = None
    BY EmptyState DEF NothingCanSignIn, HasToken
  <2>2. signedOut = "confirmed" => userQ' = userQ
    BY <1>5, <2>1, NoToken, QueueOfCalls DEF RefreshFails, Settled
  <2>3. \A d \in Calls : call'[d].phase \in OutPhases => call'[d] = call[d]
    BY <1>5, IdleFields DEF RefreshFails, TypeOK, OutPhases
  <2>4. UNCHANGED <<init, auth, cookie, signedOut>> /\ accessToken' = None
    BY <1>5 DEF RefreshFails
  <2> QED
    BY <2>1, <2>2, <2>3, <2>4, StaysOut
<1> QED
  BY <1>1, <1>2, <1>3, <1>4, <1>5 DEF CallStep

LEMMA SignedOutHook ==
    ASSUME Types, NothingCanSignIn, HookStep
    PROVE  NothingCanSignIn'
<1>1. CASE InitReceived
  <2>1. signedOut = "confirmed" => init.tok = None
    BY <1>1 DEF InitReceived, NothingCanSignIn
  <2>2. (signedOut = "confirmed" => ~HasToken /\ ~auth.isAuthenticated)'
    BY <1>1, <2>1, EmptyState DEF InitReceived, HasToken, history
  <2>3. UNCHANGED <<call, cookie, userQ, signedOut>> /\ init'.phase = "idle"
    BY <1>1, IdleFields DEF InitReceived, history
  <2>4. (signedOut = "confirmed" => cookie = None /\ userQ = NewUserQ /\ \A c \in Refreshers : call[c].tok = None)'
    BY <2>3 DEF NothingCanSignIn, Refreshers
  <2> QED
    BY <2>2, <2>3, <2>4 DEF NothingCanSignIn
<1>2. CASE LoginSucceeds
  BY <1>2 DEF LoginSucceeds, NothingCanSignIn
<1>3. CASE LoginFails
  <2>1. UNCHANGED <<call, init, accessToken, auth, cookie, userQ, signedOut>>
    BY <1>3 DEF LoginFails, client, history
  <2> QED
    BY <2>1, StaysOut
<1>4. CASE LogoutSettles
  <2> SUFFICES ASSUME (signedOut = "confirmed")' PROVE NothingCanSignIn'
    BY DEF NothingCanSignIn
  <2>1. logout.status = "ok" /\ ~RefreshOut
    BY <1>4 DEF LogoutSettles
  <2>2. UNCHANGED <<call, init>> /\ cookie' = None /\ accessToken' = None
        /\ auth' = SignedOutAuth /\ userQ' = NewUserQ
    BY <1>4, <2>1 DEF LogoutSettles
  <2>3. Refreshers' = {} /\ init'.phase = "idle"
    BY <2>1, <2>2 DEF RefreshOut, Refreshers
  <2> QED
    BY <2>2, <2>3, EmptyState DEF NothingCanSignIn, HasToken
<1> QED
  BY <1>1, <1>2, <1>3, <1>4 DEF HookStep

LEMMA SignedOutUser ==
    ASSUME Types, NothingCanSignIn, UserStep
    PROVE  NothingCanSignIn'
<1>1. CASE UNCHANGED <<call, init, accessToken, auth, cookie, userQ, signedOut>>
  BY <1>1, StaysOut
<1>2. CASE Reload
  BY <1>2 DEF Reload, NothingCanSignIn
<1>3. ASSUME NEW c \in Calls, Send(c) PROVE NothingCanSignIn'
  <2>1. \A d \in Calls : call'[d].phase \in OutPhases => call'[d] = call[d]
    BY <1>3 DEF Send, Sent, Types, TypeOK, OutPhases
  <2>2. UNCHANGED <<init, accessToken, auth, cookie, userQ, signedOut>>
    BY <1>3 DEF Send, client, history
  <2> QED
    BY <2>1, <2>2, StaysOut
<1>4. ASSUME NEW c \in Calls, RefetchUser(c) PROVE NothingCanSignIn'
  BY <1>4 DEF RefetchUser, NothingCanSignIn, history
<1> QED
  BY <1>1, <1>2, <1>3, <1>4 DEF UserStep, SubmitLogin, SubmitLogout, Register, Navigate, client, history

LEMMA SignedOutStep == Types /\ NothingCanSignIn /\ [Next]_vars => NothingCanSignIn'
<1> SUFFICES ASSUME Types, NothingCanSignIn, [Next]_vars PROVE NothingCanSignIn'
  OBVIOUS
<1> TypeOK
  BY DEF Types
<1>1. CASE UNCHANGED vars
  <2>1. UNCHANGED <<call, init, accessToken, auth, cookie, userQ, signedOut>>
    BY <1>1 DEF vars, client, history
  <2> QED
    BY <2>1, StaysOut
<1>2. CASE Render
  <2>1. UNCHANGED <<accessToken, auth, cookie, signedOut>>
    BY <1>2 DEF Render, client, history
  <2>2. signedOut = "confirmed" => UNCHANGED <<call, userQ>>
    BY <1>2, RenderedUser DEF Render, NothingCanSignIn
  <2>3. init' = init \/ init'.tok = cookie
    BY <1>2 DEF Render, RenderInit, Sent
  <2> QED
    BY <2>1, <2>2, <2>3, StaysOut
<1> QED
  BY <1>1, <1>2, SignedOutServer, SignedOutCall, SignedOutHook, SignedOutUser DEF Next

-----------------------------------------------------------------------------
(* A session that nothing has crossed.                                     *)

LEMMA CleanInit == Init => CleanSession
<1> SUFFICES ASSUME Init PROVE Clean
  BY DEF CleanSession
<1>1. \A c \in Calls : call[c].phase = "idle"
  BY IdleFields DEF Init
<1>2. init.phase = "idle" /\ login.phase = "idle" /\ logout.phase = "idle"
  BY IdleFields DEF Init
<1>3. OneIdentity
  BY EmptyState DEF Init, OneIdentity, HasToken
<1>4. CookieAgrees
  BY <1>1, <1>2 DEF Init, CookieAgrees, HasToken, Refreshers
<1>5. OneSessionStep /\ PageIsTheirs /\ HeaderIsDead
  BY <1>2 DEF Init, OneSessionStep, PageIsTheirs, HeaderIsDead, GuardedRoutes
<1>6. ProfileIsAsked
  BY EmptyState, NoToken DEF Init, ProfileIsAsked
<1> QED
  BY <1>3, <1>4, <1>5, <1>6 DEF Clean

(* Most steps leave the session's copies alone, make at most a render due, *)
(* and whatever they put in flight is the account's.                       *)
WithToken == {"sent", "answered", "queued"}
Untouched ==
    /\ UNCHANGED <<accessToken, defaultAuth, auth, cookie, userQ, initQ, view>>
    /\ deadAccess \subseteq deadAccess'
    /\ dirty => dirty'
RequestsKept ==
    /\ init'.phase # "idle" => init.phase # "idle"
    /\ (init'.phase # "idle" /\ init'.tok # None) => cookie # None /\ init'.tok.user = cookie.user
    /\ login'.phase # "idle" => Restored
    /\ logout'.phase # "idle" => HasToken
CallsKept ==
    \A c \in Calls :
        /\ (call'[c].phase \in OutPhases /\ call'[c].tok # None) =>
               cookie # None /\ call'[c].tok.user = cookie.user
        /\ userQ.waitsFor = c =>
               /\ call'[c].phase # "idle"
               /\ call'[c].phase \in WithToken => call'[c].tok = call[c].tok /\ call[c].phase \in WithToken

LEMMA StaysClean ==
    ASSUME Clean, Untouched, RequestsKept, CallsKept
    PROVE  Clean'
<1>1. OneIdentity'
  BY DEF Clean, OneIdentity, Untouched, HasToken
<1>2. CookieAgrees'
  <2>1. (HasToken => cookie # None /\ cookie.user = accessToken.user)'
    BY DEF Clean, CookieAgrees, Untouched, HasToken
  <2>2. (\A c \in Refreshers : call[c].tok # None => cookie # None /\ call[c].tok.user = cookie.user)'
    BY DEF CallsKept, Untouched, Refreshers, OutPhases
  <2>3. ((init.phase # "idle" /\ init.tok # None) => cookie # None /\ init.tok.user = cookie.user)'
    BY DEF RequestsKept, Untouched
  <2> QED
    BY <2>1, <2>2, <2>3 DEF CookieAgrees
<1>3. OneSessionStep'
  <2>1. Restored => Restored'
    BY DEF Restored, Untouched, RequestsKept, HasToken
  <2>2. (init.phase # "idle" => ~HasToken /\ initQ.status = "fetching")'
    BY DEF Clean, OneSessionStep, RequestsKept, Untouched, HasToken
  <2>3. (login.phase # "idle" => Restored)'
    BY <2>1 DEF RequestsKept
  <2>4. ((view = "login" /\ ~dirty) => Restored)'
    BY <2>1 DEF Untouched, Clean, OneSessionStep
  <2>5. (logout.phase # "idle" => HasToken)'
    BY DEF RequestsKept, HasToken, Untouched
  <2> QED
    BY <2>2, <2>3, <2>4, <2>5 DEF OneSessionStep
<1>4. ProfileIsAsked'
  BY DEF Clean, ProfileIsAsked, CallsKept, Untouched, WithToken
<1>5. PageIsTheirs' /\ HeaderIsDead'
  BY DEF Clean, PageIsTheirs, HeaderIsDead, Untouched, HasToken
<1> QED
  BY <1>1, <1>2, <1>3, <1>4, <1>5 DEF Clean

(* What a step that touches no request keeps of them.                      *)
LEMMA RequestsStand ==
    ASSUME Clean
    PROVE  /\ UNCHANGED <<init, login, logout>> => RequestsKept
           /\ UNCHANGED call => CallsKept
<1>1. UNCHANGED <<init, login, logout>> => RequestsKept
  BY DEF Clean, CookieAgrees, OneSessionStep, RequestsKept
<1>2. UNCHANGED call => CallsKept
  BY DEF Clean, CookieAgrees, ProfileIsAsked, CallsKept, Refreshers, OutPhases, WithToken
<1> QED
  BY <1>1, <1>2

(* One call changes.                                                       *)
LEMMA OneCallKept ==
    ASSUME Clean, NEW c \in Calls,
           \A d \in Calls : d # c => call'[d] = call[d],
           (call'[c].phase \in OutPhases /\ call'[c].tok # None) =>
               cookie # None /\ call'[c].tok.user = cookie.user,
           userQ.waitsFor = c =>
               /\ call'[c].phase # "idle"
               /\ call'[c].phase \in WithToken => call'[c].tok = call[c].tok /\ call[c].phase \in WithToken
    PROVE  CallsKept
BY DEF Clean, CookieAgrees, ProfileIsAsked, CallsKept, Refreshers, OutPhases, WithToken

LEMMA CleanServer ==
    ASSUME Types, Clean, AccessDies \/ RefreshDies \/ ServerStep
    PROVE  Clean'
<1> TypeOK
  BY DEF Types
<1>0. Untouched
  <2>1. CASE AccessDies
    BY <2>1 DEF AccessDies, Untouched, client
  <2>2. CASE RefreshDies
    BY <2>2 DEF RefreshDies, Untouched, client
  <2>3. CASE AnswerInit
    BY <2>3 DEF AnswerInit, Untouched, client
  <2>4. CASE AnswerLogin
    BY <2>4 DEF AnswerLogin, Untouched, client
  <2>5. CASE AnswerLogout
    BY <2>5 DEF AnswerLogout, Untouched, client
  <2>6. ASSUME NEW c \in Calls, AnswerCall(c) PROVE Untouched
    BY <2>6 DEF AnswerCall, Untouched, client, server
  <2>7. ASSUME NEW c \in Calls, AnswerRefresh(c) PROVE Untouched
    BY <2>7 DEF AnswerRefresh, Untouched, client
  <2> QED
    BY <2>1, <2>2, <2>3, <2>4, <2>5, <2>6, <2>7 DEF ServerStep
<1>1. CASE AccessDies \/ RefreshDies
  <2>1. UNCHANGED <<init, login, logout, call>>
    BY <1>1 DEF AccessDies, RefreshDies
  <2> QED
    BY <1>0, <2>1, RequestsStand, StaysClean
<1>2. CASE AnswerInit
  <2>1. UNCHANGED <<login, logout, call>> /\ init.phase # "idle"
    BY <1>2 DEF AnswerInit
  <2>2. init'.tok # None => cookie # None /\ init'.tok.user = cookie.user
    <3>1. CASE Granted(init.tok) /\ init' = Answered(init, "ok", Fresh(init.tok.user))
      <4>1. init.tok \in Tokens /\ init.tok # None
        BY <3>1 DEF Granted, TypeOK, Requests
      <4>2. init'.tok.user = init.tok.user
        BY <3>1 DEF Answered, Fresh, TypeOK, Requests
      <4> QED
        BY <2>1, <4>1, <4>2 DEF Clean, CookieAgrees
    <3>2. CASE init' = Answered(init, "failed", None)
      BY <3>2 DEF Answered, TypeOK, Requests
    <3> QED
      BY <1>2, <3>1, <3>2 DEF AnswerInit
  <2>3. RequestsKept
    BY <2>1, <2>2 DEF RequestsKept, Clean, OneSessionStep
  <2> QED
    BY <1>0, <2>1, <2>3, RequestsStand, StaysClean
<1>3. CASE AnswerLogin \/ AnswerLogout
  <2>1. UNCHANGED <<init, call>> /\ (login' = login \/ login.phase # "idle")
        /\ (logout' = logout \/ logout.phase # "idle")
    BY <1>3 DEF AnswerLogin, AnswerLogout
  <2>2. RequestsKept
    BY <2>1 DEF RequestsKept, Clean, OneSessionStep, CookieAgrees
  <2> QED
    BY <1>0, <2>1, <2>2, RequestsStand, StaysClean
<1>4. ASSUME NEW c \in Calls, AnswerCall(c) PROVE Clean'
  <2>1. PICK status : call' = [call EXCEPT ![c] = Answered(call[c], status, call[c].tok)]
    BY <1>4 DEF AnswerCall, TypeOK
  <2>2. Answered(call[c], status, call[c].tok).phase = "answered"
        /\ Answered(call[c], status, call[c].tok).tok = call[c].tok
    BY CallField DEF Answered, Requests
  <2>3. call'[c].phase = "answered" /\ call'[c].tok = call[c].tok /\ call[c].phase = "sent"
        /\ \A d \in Calls : d # c => call'[d] = call[d]
    BY <1>4, <2>1, <2>2 DEF TypeOK, AnswerCall
  <2>4. CallsKept
    BY <2>3, OneCallKept DEF OutPhases, WithToken
  <2>5. UNCHANGED <<init, login, logout>>
    BY <1>4 DEF AnswerCall
  <2> QED
    BY <1>0, <2>4, <2>5, RequestsStand, StaysClean
<1>5. ASSUME NEW c \in Calls, AnswerRefresh(c) PROVE Clean'
  <2>1. /\ call[c].phase = "refreshing" /\ call'[c].phase = "refreshed"
        /\ \A d \in Calls : d # c => call'[d] = call[d]
    BY <1>5, CallField DEF AnswerRefresh, TypeOK, Requests
  <2>2. call'[c].tok # None => call[c].tok # None /\ call'[c].tok.user = call[c].tok.user
    <3>1. CASE Granted(call[c].tok)
               /\ call' = [call EXCEPT ![c].phase = "refreshed", ![c].tok = Fresh(call[c].tok.user)]
      BY <3>1, CallField DEF Granted, Fresh, TypeOK, Requests
    <3>2. CASE call' = [call EXCEPT ![c].phase = "refreshed", ![c].tok = None]
      BY <3>2, CallField DEF TypeOK, Requests
    <3> QED
      BY <1>5, <3>1, <3>2 DEF AnswerRefresh
  <2>3. call[c].tok # None => cookie # None /\ call[c].tok.user = cookie.user
    BY <2>1 DEF Clean, CookieAgrees, Refreshers
  <2>4. CallsKept
    BY <2>1, <2>2, <2>3, OneCallKept DEF OutPhases, WithToken
  <2>5. UNCHANGED <<init, login, logout>>
    BY <1>5 DEF AnswerRefresh
  <2> QED
    BY <1>0, <2>4, <2>5, RequestsStand, StaysClean
<1> QED
  BY <1>1, <1>2, <1>3, <1>4, <1>5 DEF ServerStep

LEMMA CleanProfile ==
    ASSUME Types, Clean, NEW c \in Calls, ReceivePlain(c), userQ.waitsFor = c
    PROVE  Clean'
<1> TypeOK
  BY DEF Types
<1>1. HasToken
  BY EmptyState, NoToken DEF Clean, OneIdentity
<1>2. /\ UNCHANGED <<accessToken, defaultAuth, auth, cookie, initQ, view, deadAccess, init, login, logout>>
      /\ dirty' /\ call[c].phase = "answered" /\ call' = [call EXCEPT ![c] = Idle]
  BY DEF ReceivePlain, client, server
<1>3. \A d \in Calls : call'[d] = call[d] \/ call'[d].phase = "idle"
  BY <1>2, IdleFields DEF TypeOK
<1>4. userQ'.waitsFor = None /\ (userQ'.data # None => userQ'.data = accessToken.user)
  <2>1. userQ.data # None => userQ.data = accessToken.user
    BY DEF Clean, OneIdentity
  <2>2. call[c].tok.user = accessToken.user
    BY <1>2 DEF Clean, ProfileIsAsked
  <2> QED
    BY <2>1, <2>2 DEF ReceivePlain, Settled
<1>5. OneIdentity'
  BY <1>1, <1>2, <1>4 DEF Clean, OneIdentity, HasToken
<1>6. CookieAgrees'
  BY <1>2, <1>3 DEF Clean, CookieAgrees, HasToken, Refreshers
<1>7. OneSessionStep'
  BY <1>2 DEF Clean, OneSessionStep, Restored, HasToken
<1>8. ProfileIsAsked'
  BY <1>4, NoToken DEF ProfileIsAsked
<1>9. PageIsTheirs' /\ HeaderIsDead'
  BY <1>2 DEF Clean, PageIsTheirs, HeaderIsDead
<1> QED
  BY <1>5, <1>6, <1>7, <1>8, <1>9 DEF Clean

LEMMA CleanRefresh ==
    ASSUME Types, Clean, NEW c \in Calls, RefreshSucceeds(c), ~tainted'
    PROVE  Clean'
<1> TypeOK
  BY DEF Types
<1>1. HasToken /\ auth.isAuthenticated
  BY DEF RefreshSucceeds, Clean, OneIdentity
<1>2. PICK tok \in Tokens : tok = call[c].tok
  BY CallField DEF RefreshSucceeds, SomeToken
<1>3. tok # None /\ tok.user = accessToken.user /\ cookie # None /\ cookie.user = tok.user
  <2>1. cookie # None /\ tok.user = cookie.user
    BY <1>2, TokenFields DEF RefreshSucceeds, Clean, CookieAgrees, Refreshers
  <2> QED
    BY <1>1, <2>1, TokenFields DEF Clean, CookieAgrees
<1>4. /\ accessToken' = tok /\ defaultAuth' = tok
      /\ UNCHANGED <<auth, cookie, userQ, initQ, view, dirty, init, login, logout>>
  BY <1>2 DEF RefreshSucceeds
<1>5. \A d \in Calls : call'[d] = call[d] \/ (call'[d].phase = "sent" /\ call'[d].tok = tok)
  BY <1>2 DEF RefreshSucceeds, Sent
<1>6. OneIdentity'
  BY <1>1, <1>3, <1>4 DEF Clean, OneIdentity, HasToken
<1>7. CookieAgrees'
  BY <1>3, <1>4, <1>5 DEF Clean, CookieAgrees, HasToken, Refreshers
<1>8. OneSessionStep'
  BY <1>1, <1>3, <1>4 DEF Clean, OneSessionStep, Restored, HasToken
<1>9. ProfileIsAsked'
  <2> SUFFICES ASSUME NEW d \in Calls, userQ'.waitsFor = d
               PROVE  /\ call'[d].phase # "idle"
                      /\ call'[d].phase \in WithToken =>
                             call'[d].tok # None /\ call'[d].tok.user = tok.user
    BY <1>4 DEF ProfileIsAsked, WithToken
  <2>1. /\ call[d].phase # "idle"
        /\ call[d].phase \in WithToken => call[d].tok # None /\ call[d].tok.user = tok.user
    BY <1>3, <1>4 DEF Clean, ProfileIsAsked, WithToken
  <2> QED
    BY <1>3, <1>5, <2>1
<1>10. PageIsTheirs' /\ HeaderIsDead'
  BY <1>3, <1>4 DEF Clean, PageIsTheirs, HeaderIsDead, HasToken
<1> QED
  BY <1>6, <1>7, <1>8, <1>9, <1>10 DEF Clean

LEMMA CleanCall ==
    ASSUME Types, Clean, NEW c \in Calls, CallStep(c), ~tainted'
    PROVE  Clean'
<1> TypeOK
  BY DEF Types
<1>1. CASE ReceivePlain(c)
  <2>1. CASE userQ.waitsFor # c
    <3>1. Untouched
      BY <1>1, <2>1 DEF ReceivePlain, Settled, Untouched, client, server
    <3>2. call'[c].phase = "idle" /\ \A d \in Calls : d # c => call'[d] = call[d]
      BY <1>1, IdleFields DEF ReceivePlain, TypeOK
    <3>3. CallsKept
      BY <2>1, <3>2, OneCallKept DEF OutPhases
    <3>4. UNCHANGED <<init, login, logout>>
      BY <1>1 DEF ReceivePlain
    <3> QED
      BY <3>1, <3>3, <3>4, RequestsStand, StaysClean
  <2> QED
    BY <1>1, <2>1, CleanProfile
<1>2. CASE ReceiveQueued(c)
  <2>1. Untouched /\ UNCHANGED <<init, login, logout>>
    BY <1>2 DEF ReceiveQueued, Untouched, server
  <2>2. /\ call[c].phase = "answered" /\ call'[c].phase = "queued" /\ call'[c].tok = call[c].tok
        /\ \A d \in Calls : d # c => call'[d] = call[d]
    BY <1>2, CallField DEF ReceiveQueued, TypeOK, Requests
  <2>3. CallsKept
    BY <2>2, OneCallKept DEF OutPhases, WithToken
  <2> QED
    BY <2>1, <2>3, RequestsStand, StaysClean
<1>3. CASE ReceiveRefreshing(c)
  <2>1. Untouched /\ UNCHANGED <<init, login, logout>>
    BY <1>3 DEF ReceiveRefreshing, Untouched, server
  <2>2. /\ call'[c].phase = "refreshing" /\ call'[c].tok = cookie
        /\ \A d \in Calls : d # c => call'[d] = call[d]
    BY <1>3, CallField DEF ReceiveRefreshing, TypeOK
  <2>3. CallsKept
    BY <2>2, OneCallKept DEF OutPhases, WithToken
  <2> QED
    BY <2>1, <2>3, RequestsStand, StaysClean
<1>4. CASE RefreshFails(c)
  <2>1. userQ = NewUserQ /\ ~auth.isAuthenticated
    BY <1>4 DEF RefreshFails
  <2>2. accessToken = None /\ userQ.waitsFor = None
    BY <2>1, EmptyState DEF Clean, OneIdentity, HasToken
  <2>3. userQ' = userQ
    BY <1>4, <2>2, NoToken, QueueOfCalls DEF RefreshFails, Settled
  <2>4. Untouched /\ UNCHANGED <<init, login, logout>>
    BY <1>4, <2>2, <2>3 DEF RefreshFails, Untouched, server
  <2>5. \A d \in Calls : call'[d] = call[d] \/ call'[d].phase = "idle"
    BY <1>4, IdleFields DEF RefreshFails
  <2>6. CallsKept
    BY <2>2, <2>5, NoToken DEF CallsKept, Clean, CookieAgrees, Refreshers, OutPhases
  <2> QED
    BY <2>4, <2>6, RequestsStand, StaysClean
<1> QED
  BY <1>1, <1>2, <1>3, <1>4, CleanRefresh DEF CallStep

LEMMA CleanRestore ==
    ASSUME Types, Clean, InitReceived
    PROVE  Clean'
<1>1. init.phase = "answered" /\ ~HasToken /\ initQ.status = "fetching"
  BY DEF InitReceived, Clean, OneSessionStep
<1>2. login.phase = "idle" /\ logout.phase = "idle" /\ userQ = NewUserQ /\ accessToken = None
  BY <1>1 DEF Clean, OneSessionStep, OneIdentity, Restored, HasToken
<1>3. PICK tok \in SomeToken : tok = init.tok
  BY DEF Types, TypeOK, Requests, SomeToken
<1>4. /\ UNCHANGED <<cookie, defaultAuth, deadAccess, call, login, logout, userQ>>
      /\ accessToken' = tok /\ dirty' /\ init'.phase = "idle"
  BY <1>3, IdleFields DEF InitReceived, server
<1>5. IF tok = None THEN auth'.isAuthenticated = FALSE ELSE auth'.isAuthenticated /\ auth'.token = tok
  BY <1>3, EmptyState DEF InitReceived, Credentials
<1>6. OneIdentity'
  BY <1>2, <1>4, <1>5, EmptyState DEF OneIdentity, HasToken
<1>7. CookieAgrees'
  BY <1>1, <1>3, <1>4 DEF Clean, CookieAgrees, HasToken, Refreshers
<1>8. OneSessionStep' /\ PageIsTheirs'
  BY <1>2, <1>4 DEF OneSessionStep, PageIsTheirs
<1>9. ProfileIsAsked'
  BY <1>2, <1>4, EmptyState, NoToken DEF ProfileIsAsked
<1>10. HeaderIsDead'
  BY <1>2, <1>4 DEF Clean, HeaderIsDead
<1> QED
  BY <1>6, <1>7, <1>8, <1>9, <1>10 DEF Clean

LEMMA CleanLogin ==
    ASSUME Types, Clean, LoginSucceeds, ~tainted'
    PROVE  Clean'
<1>1. Restored /\ Refreshers = {} /\ init.phase = "idle"
  BY DEF LoginSucceeds, Clean, OneSessionStep, RefreshOut
<1>2. accessToken = None /\ userQ = NewUserQ /\ logout.phase = "idle"
  BY <1>1 DEF Clean, OneIdentity, OneSessionStep, Restored, HasToken
<1>3. PICK tok \in Tokens : tok = login.tok
  BY DEF LoginSucceeds, Types, TypeOK, Requests
<1>4. /\ UNCHANGED <<defaultAuth, deadAccess, call, init, logout, userQ, initQ>>
      /\ cookie' = tok /\ accessToken' = tok /\ dirty' /\ login'.phase = "idle"
      /\ auth'.isAuthenticated /\ auth'.token = tok /\ tok # None
  BY <1>3, IdleFields, EmptyState, TokenFields DEF LoginSucceeds, server, Credentials
<1>5. OneIdentity'
  BY <1>2, <1>4, EmptyState DEF OneIdentity, HasToken
<1>6. CookieAgrees'
  BY <1>1, <1>4 DEF CookieAgrees, Refreshers
<1>7. OneSessionStep' /\ PageIsTheirs'
  BY <1>1, <1>2, <1>4 DEF OneSessionStep, PageIsTheirs
<1>8. ProfileIsAsked'
  BY <1>2, <1>4, EmptyState, NoToken DEF ProfileIsAsked
<1>9. HeaderIsDead'
  BY <1>2, <1>4 DEF Clean, HeaderIsDead
<1> QED
  BY <1>5, <1>6, <1>7, <1>8, <1>9 DEF Clean

LEMMA CleanLogout ==
    ASSUME Types, Clean, LogoutSettles, ~tainted'
    PROVE  Clean'
<1>1. /\ logout.phase = "answered" /\ logout.status = "ok" /\ logout.tok = accessToken
      /\ Refreshers = {} /\ init.phase = "idle"
  BY DEF LogoutSettles, RefreshOut
<1>2. HasToken /\ login.phase = "idle" /\ accessToken.n \in deadAccess
  BY <1>1 DEF Clean, OneSessionStep, Restored, Types, AnswersAreTrue
<1>3. /\ UNCHANGED <<defaultAuth, deadAccess, call, init, login>>
      /\ accessToken' = None /\ dirty' /\ logout'.phase = "idle" /\ userQ' = NewUserQ
      /\ auth'.isAuthenticated = FALSE
  BY IdleFields, EmptyState DEF LogoutSettles, server
<1>4. OneIdentity'
  BY <1>3, EmptyState DEF OneIdentity, HasToken
<1>5. CookieAgrees'
  BY <1>1, <1>3 DEF CookieAgrees, HasToken, Refreshers
<1>6. OneSessionStep' /\ PageIsTheirs'
  BY <1>1, <1>2, <1>3 DEF OneSessionStep, PageIsTheirs
<1>7. ProfileIsAsked'
  BY <1>3, EmptyState, NoToken DEF ProfileIsAsked
<1>8. HeaderIsDead'
  BY <1>2, <1>3 DEF Clean, HeaderIsDead
<1> QED
  BY <1>4, <1>5, <1>6, <1>7, <1>8 DEF Clean

LEMMA CleanHook ==
    ASSUME Types, Clean, HookStep, ~tainted'
    PROVE  Clean'
<1>1. CASE LoginFails
  <2>1. Untouched /\ UNCHANGED <<init, logout, call>> /\ login'.phase = "idle"
    BY <1>1, IdleFields DEF LoginFails, Untouched, server, client
  <2>2. RequestsKept
    BY <2>1 DEF RequestsKept, Clean, OneSessionStep, CookieAgrees
  <2> QED
    BY <2>1, <2>2, RequestsStand, StaysClean
<1> QED
  BY <1>1, CleanRestore, CleanLogin, CleanLogout DEF HookStep

LEMMA CleanReload ==
    ASSUME Types, Reload
    PROVE  Clean'
<1>1. \A c \in Calls : call'[c].phase = "idle"
  BY IdleFields DEF Reload
<1>2. init'.phase = "idle" /\ login'.phase = "idle" /\ logout'.phase = "idle"
  BY IdleFields DEF Reload
<1>3. /\ accessToken' = None /\ defaultAuth' = None /\ view' = "blank"
      /\ userQ' = NewUserQ /\ auth'.isAuthenticated = FALSE
  BY EmptyState DEF Reload
<1>4. OneIdentity'
  BY <1>3, EmptyState DEF OneIdentity, HasToken
<1>5. CookieAgrees'
  BY <1>1, <1>2, <1>3 DEF CookieAgrees, HasToken, Refreshers
<1>6. OneSessionStep' /\ PageIsTheirs' /\ HeaderIsDead'
  BY <1>2, <1>3 DEF OneSessionStep, PageIsTheirs, HeaderIsDead, GuardedRoutes
<1>7. ProfileIsAsked'
  BY <1>3, EmptyState, NoToken DEF ProfileIsAsked
<1> QED
  BY <1>4, <1>5, <1>6, <1>7 DEF Clean

LEMMA CleanRefetch ==
    ASSUME Types, Clean, NEW c \in Calls, RefetchUser(c)
    PROVE  Clean'
<1>1. /\ HasToken /\ userQ.data # None
      /\ UNCHANGED <<accessToken, defaultAuth, auth, cookie, initQ, view, dirty, deadAccess, init, login, logout>>
      /\ userQ'.waitsFor = c /\ userQ'.data = userQ.data
  BY DEF RefetchUser, client, server, Types, TypeOK
<1>2. /\ call'[c].phase = "sent" /\ call'[c].tok = accessToken
      /\ \A d \in Calls : d # c => call'[d] = call[d]
  BY <1>1 DEF RefetchUser, Types, TypeOK, Sent, AuthorizationHeader
<1>3. OneIdentity'
  BY <1>1 DEF Clean, OneIdentity, HasToken
<1>4. CookieAgrees'
  BY <1>1, <1>2 DEF Clean, CookieAgrees, HasToken, Refreshers
<1>5. OneSessionStep' /\ PageIsTheirs' /\ HeaderIsDead'
  BY <1>1 DEF Clean, OneSessionStep, Restored, PageIsTheirs, HeaderIsDead, HasToken
<1>6. ProfileIsAsked'
  BY <1>1, <1>2 DEF ProfileIsAsked, HasToken
<1> QED
  BY <1>3, <1>4, <1>5, <1>6 DEF Clean

LEMMA CleanUser ==
    ASSUME Types, Clean, UserStep
    PROVE  Clean'
<1>1. CASE SubmitLogin
  <2>1. Untouched /\ UNCHANGED <<init, logout, call>> /\ view = "login" /\ ~dirty
    BY <1>1 DEF SubmitLogin, CanLogin, Untouched, server, client
  <2>2. RequestsKept
    BY <2>1 DEF RequestsKept, Clean, OneSessionStep, CookieAgrees
  <2> QED
    BY <2>1, <2>2, RequestsStand, StaysClean
<1>2. CASE SubmitLogout
  <2>1. Untouched /\ UNCHANGED <<init, login, call>> /\ view \in GuardedRoutes /\ ~dirty
    BY <1>2 DEF SubmitLogout, CanLogout, Untouched, server, client
  <2>2. RequestsKept
    BY <2>1 DEF RequestsKept, Clean, OneSessionStep, CookieAgrees, PageIsTheirs
  <2> QED
    BY <2>1, <2>2, RequestsStand, StaysClean
<1>3. CASE Register \/ \E r \in Pages : Navigate(r)
  <2>1. Untouched /\ UNCHANGED <<init, login, logout, call>>
    BY <1>3 DEF Register, Navigate, Untouched, server, client
  <2> QED
    BY <2>1, RequestsStand, StaysClean
<1>4. ASSUME NEW c \in Calls, Send(c) PROVE Clean'
  <2>1. Untouched /\ UNCHANGED <<init, login, logout>>
    BY <1>4 DEF Send, Untouched, server, client
  <2>2. /\ call[c].phase = "idle" /\ call'[c].phase = "sent"
        /\ \A d \in Calls : d # c => call'[d] = call[d]
    BY <1>4 DEF Send, Sent, Types, TypeOK
  <2>3. userQ.waitsFor # c
    BY <2>2 DEF Clean, ProfileIsAsked
  <2>4. CallsKept
    BY <2>2, <2>3, OneCallKept DEF OutPhases
  <2> QED
    BY <2>1, <2>4, RequestsStand, StaysClean
<1> QED
  BY <1>1, <1>2, <1>3, <1>4, CleanReload, CleanRefetch DEF UserStep

(* What a page shows when it stops redirecting.                            *)
LEMMA ShownGuarded ==
    ASSUME Outcome = route, route \in GuardedRoutes
    PROVE  /\ auth.isAuthenticated /\ userQ'.data # None
           /\ route = "admin" => userQ'.data \in Superusers
<1>1. route \notin PublicRoutes /\ route \notin {"loader", "checking", "login", "landing"}
  BY DEF GuardedRoutes, PublicRoutes
<1>2. Outcome = Guard
  BY <1>1 DEF Outcome
<1>3. Guard = route
  BY <1>2
<1> QED
  BY <1>1, <1>3 DEF Guard

LEMMA ShownLogin ==
    ASSUME Outcome = "login", route = "login"
    PROVE  ~HasToken /\ initQ.status # "success" /\ initQ'.status # "fetching"
BY DEF Outcome, IsAuthenticated, PublicRoutes

LEMMA CleanRender ==
    ASSUME Types, Clean, Render
    PROVE  Clean'
<1> TypeOK
  BY DEF Types
<1>1. UNCHANGED <<accessToken, defaultAuth, auth, cookie, deadAccess, login, logout>>
  BY DEF Render, client, server
<1>2. \/ /\ InitStarts /\ ~HasToken
         /\ init'.tok = cookie /\ initQ'.status = "fetching"
      \/ /\ ~InitStarts
         /\ init' = init /\ initQ'.status = initQ.status
         /\ initQ'.enabled = ~HasToken
  BY DEF Render, RenderInit, InitStarts, Sent, TypeOK
<1>3. /\ userQ'.data = userQ.data
      /\ userQ' = userQ \/ HasToken
      /\ \A c \in Calls :
            \/ call'[c] = call[c] /\ (userQ'.waitsFor = c => userQ.waitsFor = c)
            \/ HasToken /\ call'[c].phase = "sent" /\ call'[c].tok = accessToken
  <2>1. CASE call' = call /\ userQ' = userQ
    BY <2>1
  <2>2. ASSUME NEW c \in Calls, HasToken, call' = [call EXCEPT ![c] = Sent(accessToken, FALSE)],
               userQ' = [data |-> userQ.data, error |-> userQ.data # None, waitsFor |-> c]
        PROVE  <1>3!1 /\ <1>3!2 /\ <1>3!3
    <3>1. userQ'.data = userQ.data /\ userQ'.waitsFor = c
      BY <2>2
    <3>2. call'[c].phase = "sent" /\ call'[c].tok = accessToken
      BY <2>2 DEF Sent, TypeOK
    <3>3. \A d \in Calls : d # c => call'[d] = call[d]
      BY <2>2 DEF TypeOK
    <3> QED
      BY <2>2, <3>1, <3>2, <3>3
  <2> QED
    BY <2>1, <2>2, RenderedUser DEF Render
<1>4. ~dirty' => view' = Outcome /\ Outcome \in {"loader", "checking", route}
  BY DEF Render
<1>5. OneIdentity'
  BY <1>1, <1>3 DEF Clean, OneIdentity, HasToken
<1>6. CookieAgrees'
  <2>1. \A c \in Calls : c \in Refreshers' => c \in Refreshers /\ call'[c] = call[c]
    BY <1>3 DEF Refreshers
  <2> QED
    BY <1>1, <1>2, <2>1 DEF Clean, CookieAgrees, HasToken, Refreshers
<1>7. OneSessionStep'
  <2>1. Restored => Restored'
    BY <1>1, <1>2 DEF Restored, InitStarts, HasToken
  <2>2. (init.phase # "idle" => ~HasToken /\ initQ.status = "fetching")'
    <3>1. ~HasToken => ~HasToken'
      BY <1>1 DEF HasToken
    <3>2. CASE ~HasToken /\ initQ'.status = "fetching"
      BY <3>1, <3>2
    <3>3. CASE init' = init /\ initQ'.status = initQ.status
      BY <3>1, <3>3 DEF Clean, OneSessionStep
    <3> QED
      BY <1>2, <3>2, <3>3
  <2>3. ASSUME view' = "login", ~dirty' PROVE Restored'
    <3>1. Outcome = "login" /\ route = "login"
      BY <1>4, <2>3
    <3>2. ~HasToken /\ initQ.status # "success" /\ initQ'.status # "fetching"
      BY <3>1, ShownLogin
    <3>3. ~InitStarts /\ init' = init /\ initQ'.status = initQ.status /\ initQ'.enabled
      BY <1>2, <3>2
    <3>4. initQ.status = "error"
      BY <3>2, <3>3 DEF InitStarts, TypeOK
    <3>5. init.phase = "idle"
      BY <3>4 DEF Clean, OneSessionStep
    <3> QED
      BY <1>1, <3>2, <3>3, <3>4, <3>5 DEF Restored, HasToken
  <2>4. (logout.phase # "idle" => HasToken)' /\ (login.phase # "idle" => Restored)'
    BY <1>1, <2>1 DEF Clean, OneSessionStep, HasToken
  <2> QED
    BY <2>2, <2>3, <2>4 DEF OneSessionStep
<1>8. ProfileIsAsked'
  BY <1>1, <1>3 DEF Clean, ProfileIsAsked, HasToken
<1>9. PageIsTheirs'
  <2> SUFFICES ASSUME view' \in GuardedRoutes, ~dirty'
               PROVE  HasToken' /\ userQ'.data # None /\ (view' = "admin" => userQ'.data \in Superusers)
    BY DEF PageIsTheirs
  <2>1. Outcome = route /\ route \in GuardedRoutes /\ view' = route
    BY <1>4 DEF GuardedRoutes
  <2> QED
    BY <1>1, <2>1, ShownGuarded DEF Clean, OneIdentity, HasToken
<1>10. HeaderIsDead'
  BY <1>1 DEF Clean, HeaderIsDead
<1> QED
  BY <1>5, <1>6, <1>7, <1>8, <1>9, <1>10 DEF Clean

LEMMA CleanStep == Types /\ CleanSession /\ [Next]_vars => CleanSession'
<1> SUFFICES ASSUME Types, CleanSession, [Next]_vars, ~tainted' PROVE Clean'
  BY DEF CleanSession
<1>1. CASE Reload
  BY <1>1, CleanReload
<1>2. CASE UNCHANGED vars
  <2>1. ~tainted /\ Untouched /\ UNCHANGED <<init, login, logout, call>>
    BY <1>2 DEF vars, server, client, history, Untouched
  <2> QED
    BY <2>1, RequestsStand, StaysClean DEF CleanSession
<1>3. CASE Next /\ ~Reload
  <2>1. ~tainted
    BY <1>3 DEF Next, ServerStep, HookStep, UserStep, CallStep, AccessDies, RefreshDies,
       AnswerInit, AnswerLogin, AnswerLogout, AnswerCall, AnswerRefresh,
       InitReceived, LoginSucceeds, LoginFails, LogoutSettles,
       SubmitLogin, SubmitLogout, Register, Navigate, Send, RefetchUser, Render,
       ReceivePlain, ReceiveQueued, ReceiveRefreshing, RefreshSucceeds, RefreshFails, history
  <2> QED
    BY <1>3, <2>1, CleanServer, CleanCall, CleanHook, CleanUser, CleanRender DEF Next, CleanSession
<1> QED
  BY <1>1, <1>2, <1>3

SessionInv == Types /\ NothingCanSignIn /\ CleanSession

LEMMA SessionInvariant == Spec => []SessionInv
<1>1. Init => SessionInv
  BY TypesInit, SignedOutInit, CleanInit DEF SessionInv
<1>2. SessionInv /\ [Next]_vars => SessionInv'
  BY TypesStep, SignedOutStep, CleanStep DEF SessionInv
<1> QED
  BY <1>1, <1>2, PTL DEF Spec

(* As long as every session ended by a confirmed logout, the two copies of *)
(* the token agree and a guarded page shows that account (SessionAgrees;   *)
(* useAuth.ts:44-50, useInitAuth.ts:42, ProtectedRoute.tsx:59-81).         *)
THEOREM OneAccountEverywhere == Spec => []SessionAgrees
<1>1. SessionInv => SessionAgrees
  BY DEF SessionInv, CleanSession, Clean, OneIdentity, PageIsTheirs, SessionAgrees
<1> QED
  BY <1>1, SessionInvariant, PTL

(* After a confirmed logout nothing but a login signs the visitor in       *)
(* (SignedOutStaysOut; useAuth.ts:44-50, useInitAuth.ts:12-45,             *)
(* apiClient.ts:82-114).                                                   *)
THEOREM LogoutIsFinal == Spec => []SignedOutStaysOut
<1>1. SessionInv => SignedOutStaysOut
  BY DEF SessionInv, NothingCanSignIn, CleanSession, Clean, HeaderIsDead, SignedOutStaysOut, HasToken
<1> QED
  BY <1>1, SessionInvariant, PTL

=============================================================================
