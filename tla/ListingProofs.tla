--------------------------- MODULE ListingProofs ---------------------------
(***************************************************************************)
(* What is proved of Listing for every set of keys, every prefix, delimiter, *)
(* start and page size, and any number of puts and deletes.                  *)
(***************************************************************************)
EXTENDS Listing, SequenceTheorems, FiniteSetTheorems, TLAPS

---------------------------------------------------------------------------
(* Go's order of strings is a strict total order *)

Str == Seq(Nat)

(* The strings agree below i, where s ends or has the smaller character. *)
LessAt(s, t, i) ==
  /\ i \in Nat \ {0} /\ i <= Len(s) + 1 /\ i <= Len(t)
  /\ \A j \in 1..i-1: s[j] = t[j]
  /\ i <= Len(s) => s[i] < t[i]

(* A nonempty set of naturals has a least element. *)
LEMMA LeastNat ==
  ASSUME NEW N \in SUBSET Nat, N # {}
  PROVE  \E n \in N: \A m \in N: n <= m
<1>1. PICK n \in N: \A m \in N: ~(<<m, n>> \in OpToRel(<, Nat))
  BY NatLessThanWellFounded, WFMin
<1>2. \A m \in N: ~(m < n)
  BY <1>1 DEF OpToRel
<1> QED BY <1>2

LEMMA PrefixAt ==
  ASSUME NEW s \in Str, NEW i \in 0..Len(s)
  PROVE  /\ SubSeq(s, 1, i) \in Str /\ Len(SubSeq(s, 1, i)) = i
         /\ \A j \in 1..i: SubSeq(s, 1, i)[j] = s[j]
<1>1. i \in Int /\ \A j \in 1..i: s[j] \in Nat
  BY ElementOfSeq, LenProperties DEF Str
<1> QED BY <1>1, SubSeqProperties DEF Str

LEMMA LessIsLessAt ==
  ASSUME NEW s \in Str, NEW t \in Str
  PROVE  Less(s, t) <=> \E i \in Nat: LessAt(s, t, i)
<1>0. Len(s) \in Nat /\ Len(t) \in Nat /\ \A i \in 1..Len(s): s[i] \in Nat
  BY LenProperties, ElementOfSeq DEF Str
<1>1. ASSUME IsStrictPrefix(s, t) PROVE \E i \in Nat: LessAt(s, t, i)
  <2>1. Len(s) <= Len(t) /\ SubSeq(s, 1, Len(s)) = SubSeq(t, 1, Len(s)) /\ s # t
    BY <1>1 DEF IsStrictPrefix, IsPrefix
  <2>2. \A j \in 1..Len(s): s[j] = t[j]
    <3>1. Len(s) \in 0..Len(t) /\ Len(s) \in 0..Len(s)
      BY <1>0, <2>1
    <3>2. \A j \in 1..Len(s): SubSeq(s, 1, Len(s))[j] = s[j] /\ SubSeq(t, 1, Len(s))[j] = t[j]
      BY <3>1, PrefixAt
    <3> QED BY <2>1, <3>2
  <2>3. Len(s) # Len(t)
    BY <2>1, <2>2, SeqEqual DEF Str
  <2>4. LessAt(s, t, Len(s) + 1)
    BY <1>0, <2>1, <2>2, <2>3 DEF LessAt
  <2> QED BY <1>0, <2>4
<1>2. ASSUME NEW i \in 1..Len(s), i <= Len(t), s[i] < t[i], \A j \in 1..i-1: s[j] = t[j]
      PROVE  \E n \in Nat: LessAt(s, t, n)
  <2>1. LessAt(s, t, i)
    BY <1>0, <1>2 DEF LessAt
  <2> QED BY <1>0, <2>1
<1>3. ASSUME NEW i \in Nat, LessAt(s, t, i) PROVE Less(s, t)
  <2>1. CASE i <= Len(s)
    BY <1>0, <1>3, <2>1 DEF LessAt, Less
  <2>2. CASE i = Len(s) + 1
    <3>1. Len(s) < Len(t) /\ \A j \in 1..Len(s): s[j] = t[j]
      BY <1>0, <1>3, <2>2 DEF LessAt
    <3>2. SubSeq(s, 1, Len(s)) = SubSeq(t, 1, Len(s))
      <4>1. Len(s) \in 0..Len(t) /\ Len(s) \in 0..Len(s)
        BY <1>0, <3>1
      <4>2. /\ SubSeq(s, 1, Len(s)) \in Str /\ Len(SubSeq(s, 1, Len(s))) = Len(s)
            /\ SubSeq(t, 1, Len(s)) \in Str /\ Len(SubSeq(t, 1, Len(s))) = Len(s)
            /\ \A j \in 1..Len(s): SubSeq(s, 1, Len(s))[j] = SubSeq(t, 1, Len(s))[j]
        BY <3>1, <4>1, PrefixAt
      <4> QED BY <4>2, SeqEqual DEF Str
    <3>3. s # t
      BY <1>0, <3>1
    <3> QED BY <1>0, <3>1, <3>2, <3>3 DEF Less, IsStrictPrefix, IsPrefix
  <2> QED BY <1>0, <1>3, <2>1, <2>2 DEF LessAt
<1>4. ASSUME Less(s, t) PROVE \E n \in Nat: LessAt(s, t, n)
  BY <1>0, <1>1, <1>2, <1>4 DEF Less
<1> QED BY <1>3, <1>4

LEMMA LessIrreflexive ==
  ASSUME NEW s \in Str
  PROVE  ~Less(s, s)
<1>0. Len(s) \in Nat /\ \A i \in 1..Len(s): s[i] \in Nat
  BY LenProperties, ElementOfSeq DEF Str
<1>1. ASSUME NEW i \in Nat, LessAt(s, s, i) PROVE FALSE
  BY <1>0, <1>1 DEF LessAt
<1> QED BY <1>1, LessIsLessAt

LEMMA LessTransitive ==
  ASSUME NEW s \in Str, NEW t \in Str, NEW u \in Str, Less(s, t), Less(t, u)
  PROVE  Less(s, u)
<1>0. /\ Len(s) \in Nat /\ \A i \in 1..Len(s): s[i] \in Nat
      /\ Len(t) \in Nat /\ \A i \in 1..Len(t): t[i] \in Nat
      /\ Len(u) \in Nat /\ \A i \in 1..Len(u): u[i] \in Nat
  BY LenProperties, ElementOfSeq DEF Str
<1>1. PICK i \in Nat: LessAt(s, t, i)
  BY LessIsLessAt
<1>2. PICK j \in Nat: LessAt(t, u, j)
  BY LessIsLessAt
<1>3. CASE i <= j
  <2>1. LessAt(s, u, i)
    BY <1>0, <1>1, <1>2, <1>3 DEF LessAt
  <2> QED BY <2>1, LessIsLessAt
<1>4. CASE j < i
  <2>1. LessAt(s, u, j)
    BY <1>0, <1>1, <1>2, <1>4 DEF LessAt
  <2> QED BY <2>1, LessIsLessAt
<1> QED BY <1>3, <1>4

LEMMA LessTotal ==
  ASSUME NEW s \in Str, NEW t \in Str, s # t
  PROVE  Less(s, t) \/ Less(t, s)
<1>0. /\ Len(s) \in Nat /\ \A i \in 1..Len(s): s[i] \in Nat
      /\ Len(t) \in Nat /\ \A i \in 1..Len(t): t[i] \in Nat
  BY LenProperties, ElementOfSeq DEF Str
<1> DEFINE Ends(i) == i = Len(s) + 1 \/ i = Len(t) + 1
           N == {i \in Nat \ {0}: /\ i <= Len(s) + 1 /\ i <= Len(t) + 1
                                  /\ Ends(i) \/ s[i] # t[i]}
<1>1. N # {}
  <2>1. Len(s) <= Len(t) => Len(s) + 1 \in N
    BY <1>0
  <2>2. Len(t) <= Len(s) => Len(t) + 1 \in N
    BY <1>0
  <2> QED BY <1>0, <2>1, <2>2
<1>2. PICK i \in N: \A j \in N: i <= j
  <2>1. N \in SUBSET Nat
    OBVIOUS
  <2> HIDE DEF N
  <2> QED BY <1>1, <2>1, LeastNat
<1>3. \A j \in 1..i-1: s[j] = t[j]
  BY <1>0, <1>2
<1>4. CASE i = Len(s) + 1 /\ i = Len(t) + 1
  <2>1. Len(s) = Len(t) /\ \A j \in 1..Len(s): s[j] = t[j]
    BY <1>0, <1>3, <1>4
  <2> QED BY <2>1, SeqEqual DEF Str
<1>5. CASE i <= Len(t) /\ (i = Len(s) + 1 \/ s[i] < t[i])
  <2>1. LessAt(s, t, i)
    BY <1>0, <1>2, <1>3, <1>5 DEF LessAt
  <2> QED BY <2>1, LessIsLessAt
<1>6. CASE i <= Len(s) /\ (i = Len(t) + 1 \/ t[i] < s[i])
  <2>1. LessAt(t, s, i)
    BY <1>0, <1>2, <1>3, <1>6 DEF LessAt
  <2> QED BY <2>1, LessIsLessAt
<1>7. \/ i = Len(s) + 1 /\ i = Len(t) + 1
      \/ i <= Len(t) /\ (i = Len(s) + 1 \/ s[i] < t[i])
      \/ i <= Len(s) /\ (i = Len(t) + 1 \/ t[i] < s[i])
  <2>1. /\ i \in Nat \ {0} /\ i <= Len(s) + 1 /\ i <= Len(t) + 1
        /\ i = Len(s) + 1 \/ i = Len(t) + 1 \/ s[i] # t[i]
    BY <1>2
  <2>2. CASE i = Len(s) + 1 \/ i = Len(t) + 1
    BY <1>0, <2>1, <2>2
  <2>3. CASE i <= Len(s) /\ i <= Len(t)
    <3>1. s[i] \in Nat /\ t[i] \in Nat /\ s[i] # t[i]
      BY <1>0, <2>1, <2>3
    <3> QED BY <2>3, <3>1
  <2> QED BY <1>0, <2>1, <2>2, <2>3
<1> QED BY <1>4, <1>5, <1>6, <1>7

(* Nothing is less than the empty string, and any other string is greater. *)
LEMMA EmptyLeast ==
  ASSUME NEW s \in Str
  PROVE  ~Less(s, <<>>) /\ (s # <<>> => Less(<<>>, s))
<1>0. Len(s) \in Nat /\ <<>> \in Str /\ Len(<<>>) = 0 /\ (s # <<>> => Len(s) > 0)
  BY LenProperties, EmptySeq DEF Str
<1>1. ~\E i \in Nat: LessAt(s, <<>>, i)
  BY <1>0 DEF LessAt
<1>2. s # <<>> => LessAt(<<>>, s, 1)
  BY <1>0 DEF LessAt
<1> QED BY <1>0, <1>1, <1>2, LessIsLessAt

---------------------------------------------------------------------------
(* Cutting a page off a finite set of strings *)

Below(S, s) == {t \in S: Less(t, s)}
Higher(S, s) == {t \in S: Less(s, t)}

(* The first n elements in order *)
FirstOf(S, n) == {s \in S: Cardinality(Below(S, s)) < n}

(* A proper subset of a finite set has fewer elements. *)
LEMMA FewerElements ==
  ASSUME NEW T, IsFiniteSet(T), NEW S \in SUBSET T, NEW x \in T, x \notin S
  PROVE  Cardinality(S) \in Nat /\ Cardinality(T) \in Nat /\ Cardinality(S) < Cardinality(T)
<1>1. /\ IsFiniteSet(S) /\ Cardinality(S) <= Cardinality(T)
      /\ Cardinality(S) = Cardinality(T) => S = T
  BY FS_Subset, Zenon
<1>2. Cardinality(S) \in Nat /\ Cardinality(T) \in Nat
  BY <1>1, FS_CardinalityType
<1> QED BY <1>1, <1>2

LEMMA BelowFinite ==
  ASSUME NEW S, IsFiniteSet(S), NEW s
  PROVE  /\ IsFiniteSet(Below(S, s)) /\ Cardinality(Below(S, s)) \in Nat
         /\ IsFiniteSet(Higher(S, s)) /\ Cardinality(Higher(S, s)) \in Nat
<1>1. Below(S, s) \in SUBSET S /\ Higher(S, s) \in SUBSET S
  BY DEF Below, Higher
<1>2. IsFiniteSet(Below(S, s)) /\ IsFiniteSet(Higher(S, s))
  BY <1>1, FS_Subset, Zenon
<1> QED BY <1>2, FS_CardinalityType

(* A nonempty finite set of strings has a least and a greatest element. *)
LEMMA LeastString ==
  ASSUME NEW S \in SUBSET Str, IsFiniteSet(S), S # {}
  PROVE  \E s \in S: \A t \in S: ~Less(t, s)
<1> DEFINE N == {Cardinality(Below(S, s)): s \in S}
<1>1. N \in SUBSET Nat /\ N # {}
  BY BelowFinite
<1>2. PICK n \in N: \A m \in N: n <= m
  BY <1>1, LeastNat
<1>3. PICK s \in S: \A t \in S: Cardinality(Below(S, s)) <= Cardinality(Below(S, t))
  BY <1>2
<1>4. ASSUME NEW t \in S, Less(t, s) PROVE FALSE
  <2>1. Below(S, t) \in SUBSET Below(S, s) /\ t \in Below(S, s) /\ t \notin Below(S, t)
    BY <1>4, LessTransitive, LessIrreflexive DEF Below
  <2>2. Cardinality(Below(S, t)) < Cardinality(Below(S, s))
    BY <2>1, BelowFinite, FewerElements
  <2> QED BY <1>3, <2>2, BelowFinite
<1> QED BY <1>4

LEMMA GreatestString ==
  ASSUME NEW S \in SUBSET Str, IsFiniteSet(S), S # {}
  PROVE  \E s \in S: \A t \in S: ~Less(s, t)
<1> DEFINE N == {Cardinality(Higher(S, s)): s \in S}
<1>1. N \in SUBSET Nat /\ N # {}
  BY BelowFinite
<1>2. PICK n \in N: \A m \in N: n <= m
  BY <1>1, LeastNat
<1>3. PICK s \in S: \A t \in S: Cardinality(Higher(S, s)) <= Cardinality(Higher(S, t))
  BY <1>2
<1>4. ASSUME NEW t \in S, Less(s, t) PROVE FALSE
  <2>1. Higher(S, t) \in SUBSET Higher(S, s) /\ t \in Higher(S, s) /\ t \notin Higher(S, t)
    BY <1>4, LessTransitive, LessIrreflexive DEF Higher
  <2>2. Cardinality(Higher(S, t)) < Cardinality(Higher(S, s))
    BY <2>1, BelowFinite, FewerElements
  <2> QED BY <1>3, <2>2, BelowFinite
<1> QED BY <1>4

(* The page of a nonempty set is not empty, *)
LEMMA PageNotEmpty ==
  ASSUME NEW S \in SUBSET Str, IsFiniteSet(S), S # {}, NEW n \in Nat \ {0}
  PROVE  FirstOf(S, n) # {}
<1>1. PICK s \in S: \A t \in S: ~Less(t, s)
  BY LeastString
<1>2. Cardinality(Below(S, s)) = 0
  <2>1. Below(S, s) = {}
    BY <1>1 DEF Below
  <2> QED BY <2>1, FS_EmptySet
<1> QED BY <1>1, <1>2 DEF FirstOf

(* it is the whole set when that has at most n elements, *)
LEMMA PageIsAll ==
  ASSUME NEW S \in SUBSET Str, IsFiniteSet(S), NEW n \in Nat, Cardinality(S) <= n
  PROVE  FirstOf(S, n) = S
<1>1. ASSUME NEW s \in S PROVE Cardinality(Below(S, s)) < n
  <2>1. Below(S, s) \in SUBSET S /\ s \notin Below(S, s)
    BY LessIrreflexive DEF Below
  <2>2. /\ Cardinality(Below(S, s)) < Cardinality(S)
        /\ Cardinality(Below(S, s)) \in Nat /\ Cardinality(S) \in Nat
    BY <2>1, FewerElements
  <2> QED BY <2>2
<1> QED BY <1>1 DEF FirstOf

(* and it has no gaps: what is not greater than an item of it belongs to it. *)
LEMMA PageNoGap ==
  ASSUME NEW S \in SUBSET Str, IsFiniteSet(S), NEW n \in Nat,
         NEW s \in FirstOf(S, n), NEW t \in S, ~Less(s, t)
  PROVE  t \in FirstOf(S, n)
<1>1. s \in S /\ Cardinality(Below(S, s)) < n
  BY DEF FirstOf
<1>2. CASE t = s
  BY <1>2
<1>3. CASE t # s
  <2>1. Less(t, s)
    BY <1>1, <1>3, LessTotal
  <2>2. Below(S, t) \in SUBSET Below(S, s)
    BY <1>1, <2>1, LessTransitive DEF Below
  <2>3. Cardinality(Below(S, t)) <= Cardinality(Below(S, s))
    BY <2>2, BelowFinite, FS_Subset, Zenon
  <2> QED BY <1>1, <2>3, BelowFinite DEF FirstOf
<1> QED BY <1>2, <1>3

---------------------------------------------------------------------------
(* What a key rolls up to *)

ReqOK ==
  /\ req.prefix \in Str /\ req.delim \in Str /\ Len(req.delim) <= 1
  /\ req.start \in Str /\ req.max \in Nat \ {0}
  /\ Slash \in Nat

(* The places of the delimiter behind the prefix, and the first of them *)
Cut(s, i) == i \in Len(req.prefix) + 1..Len(s) /\ req.delim = <<s[i]>>
FirstCut(s, i) == Cut(s, i) /\ \A j \in Nat: Cut(s, j) => i <= j

LEMMA StrParts ==
  ASSUME NEW s \in Str
  PROVE  Len(s) \in Nat /\ \A i \in 1..Len(s): s[i] \in Nat
BY LenProperties, ElementOfSeq DEF Str

(* The delimiter is empty or one character. *)
LEMMA DelimiterParts ==
  ASSUME ReqOK
  PROVE  /\ Len(req.prefix) \in Nat
         /\ \A c: req.delim = <<c>> <=> req.delim # <<>> /\ req.delim[1] = c
<1>1. /\ Len(req.prefix) \in Nat /\ Len(req.delim) \in Nat
      /\ req.delim \in Seq(Nat) /\ Len(req.delim) <= 1
  BY StrParts DEF ReqOK, Str
<1>2. ASSUME req.delim # <<>> PROVE req.delim = <<req.delim[1]>>
  <2>1. Len(req.delim) = 1
    <3>1. Len(req.delim) \in Nat \ {0}
      BY <1>1, <1>2, EmptySeq
    <3>2. \A m \in Nat: m <= 1 /\ m \in Nat \ {0} => m = 1
      OBVIOUS
    <3> QED BY <1>1, <3>1, <3>2, Zenon
  <2>2. req.delim[1] \in Nat
    BY <2>1, StrParts DEF ReqOK
  <2>3. <<req.delim[1]>> \in Seq(Nat) /\ Len(<<req.delim[1]>>) = 1
    BY <2>2
  <2> QED BY <2>1, <2>3, SeqEqual DEF ReqOK, Str
<1> QED BY <1>1, <1>2

LEMMA RollsUpCut ==
  ASSUME ReqOK, NEW s \in Str
  PROVE  RollsUp(s) <=> \E i \in Nat: Cut(s, i)
<1> DEFINE n == Len(req.prefix)
           d == Drop(s, n)
<1>1. n \in Nat /\ Len(s) \in Nat /\ \A i \in 1..Len(s): s[i] \in Nat
  BY DelimiterParts, StrParts
<1>2. /\ d \in Seq(Nat) /\ Len(d) = (IF n + 1 <= Len(s) THEN Len(s) - n ELSE 0)
      /\ \A i \in 1..Len(s) - n: d[i] = s[n + i]
  <2> DEFINE m == n + 1
             l == Len(s)
  <2>1. m \in Int /\ l \in Int /\ \A i \in m..l: s[i] \in Nat
    BY <1>1
  <2> HIDE DEF m, l
  <2>2. /\ SubSeq(s, m, l) \in Seq(Nat)
        /\ Len(SubSeq(s, m, l)) = IF m <= l THEN l - m + 1 ELSE 0
        /\ \A i \in 1..l - m + 1: SubSeq(s, m, l)[i] = s[m + i - 1]
    BY <2>1, SubSeqProperties
  <2>3. d = SubSeq(s, m, l)
    BY DEF Drop, m, l
  <2>4. \A i \in 1..l - m + 1: d[i] = s[n + i]
    <3>1. \A i \in 1..l - m + 1: m + i - 1 = n + i
      BY <1>1, <2>1 DEF m
    <3> QED BY <2>2, <2>3, <3>1
  <2>5. l - m + 1 = l - n
    BY <1>1, <2>1 DEF m
  <2> QED BY <1>1, <2>2, <2>3, <2>4, <2>5 DEF m, l
<1> HIDE DEF n, d
<1>3. RollsUp(s) <=> req.delim # <<>> /\ \E i \in 1..Len(d): d[i] = req.delim[1]
  BY DEF RollsUp, Contains, n, d
<1>4. ASSUME NEW i \in 1..Len(d) PROVE n + i \in n + 1..Len(s) /\ d[i] = s[n + i]
  BY <1>1, <1>2
<1>5. ASSUME NEW i \in n + 1..Len(s) PROVE i - n \in 1..Len(d) /\ d[i - n] = s[i]
  BY <1>1, <1>2
<1>6. ASSUME RollsUp(s) PROVE \E i \in Nat: Cut(s, i)
  <2>1. PICK i \in 1..Len(d): d[i] = req.delim[1]
    BY <1>3, <1>6
  <2>2. Cut(s, n + i)
    BY <1>3, <1>4, <1>6, <2>1, DelimiterParts DEF Cut, n
  <2> QED BY <1>1, <2>2 DEF Cut
<1>7. ASSUME NEW i \in Nat, Cut(s, i) PROVE RollsUp(s)
  <2>1. i \in n + 1..Len(s) /\ req.delim # <<>> /\ req.delim[1] = s[i]
    BY <1>7, DelimiterParts DEF Cut, n
  <2> QED BY <1>3, <1>5, <2>1
<1> QED BY <1>6, <1>7

LEMMA FirstCutExists ==
  ASSUME ReqOK, NEW s \in Str, RollsUp(s)
  PROVE  \E i \in Nat: FirstCut(s, i)
<1> DEFINE N == {i \in Nat: Cut(s, i)}
<1>1. N \in SUBSET Nat /\ N # {}
  BY RollsUpCut
<1>2. PICK i \in N: \A j \in N: i <= j
  BY <1>1, LeastNat
<1> QED BY <1>2 DEF FirstCut

(* Both the common prefix of the walk and the entry of S3 end at the first cut. *)
LEMMA CutOff ==
  ASSUME ReqOK, NEW s \in Str, NEW i \in Nat, FirstCut(s, i)
  PROVE  CommonPrefix(s) = SubSeq(s, 1, i) /\ Entry(s) = SubSeq(s, 1, i)
<1> DEFINE n == Len(req.prefix)
           c == req.delim[1]
           IsFirst(m) == s[m] = c /\ \A j \in n + 1..m - 1: s[j] # c
<1>1. n \in Nat /\ Len(s) \in Nat
  BY DelimiterParts, StrParts
<1>2. /\ i \in n + 1..Len(s) /\ req.delim = <<s[i]>> /\ req.delim # <<>> /\ s[i] = c
      /\ \A j \in n + 1..Len(s): s[j] = c => i <= j
  <2>1. i \in n + 1..Len(s) /\ req.delim = <<s[i]>> /\ req.delim # <<>> /\ s[i] = c
    BY DelimiterParts DEF FirstCut, Cut
  <2>2. ASSUME NEW j \in n + 1..Len(s), s[j] = c PROVE i <= j
    BY <1>1, <2>1, <2>2, DelimiterParts DEF FirstCut, Cut
  <2> QED BY <2>1, <2>2
<1>3. CommonPrefix(s) = SubSeq(s, 1, i)
  <2>1. IsFirst(i)
    BY <1>1, <1>2
  <2>2. ASSUME NEW m \in n + 1..Len(s), IsFirst(m) PROVE m = i
    BY <1>1, <1>2, <2>1, <2>2
  <2>3. (CHOOSE m \in n + 1..Len(s): IsFirst(m)) = i
    <3> HIDE DEF IsFirst, n
    <3> QED BY <1>2, <2>1, <2>2
  <2> QED BY <2>3 DEF CommonPrefix
<1>4. Entry(s) = SubSeq(s, 1, i)
  <2> DEFINE cuts == {j \in Len(req.prefix) + 1..Len(s): req.delim = <<s[j]>>}
  <2>1. i \in cuts /\ \A j \in cuts: i <= j
    BY <1>1, <1>2, DelimiterParts
  <2>2. cuts \in SUBSET Nat
    BY <1>1
  <2>3. Entry(s) = IF cuts = {} THEN s ELSE SubSeq(s, 1, Min(cuts))
    BY DEF Entry
  <2> HIDE DEF cuts
  <2>4. Min(cuts) \in cuts /\ \A j \in cuts: Min(cuts) <= j
    <3> DEFINE IsMin(m) == \A j \in cuts: m =< j
    <3>1. i \in cuts /\ IsMin(i)
      BY <2>1
    <3>2. Min(cuts) = CHOOSE m \in cuts: IsMin(m)
      BY DEF Min
    <3> HIDE DEF IsMin
    <3>3. Min(cuts) \in cuts /\ IsMin(Min(cuts))
      BY <3>1, <3>2
    <3> QED BY <3>3 DEF IsMin
  <2>5. Min(cuts) = i
    <3>1. i \in Nat /\ Min(cuts) \in Nat
      BY <2>2, <2>4
    <3>2. i <= Min(cuts) /\ Min(cuts) <= i
      BY <2>1, <2>4
    <3>3. \A m \in Nat: i <= m /\ m <= i => m = i
      BY <3>1
    <3> QED BY <3>1, <3>2, <3>3, Zenon
  <2>6. cuts # {}
    BY <2>1
  <2> QED BY <2>3, <2>5, <2>6, Zenon
<1> QED BY <1>3, <1>4

LEMMA NoCutEntry ==
  ASSUME ReqOK, NEW s \in Str, ~RollsUp(s)
  PROVE  Entry(s) = s
<1>1. Len(req.prefix) \in Nat
  BY DelimiterParts
<1>2. \A i \in Len(req.prefix) + 1..Len(s): req.delim # <<s[i]>>
  <2>1. \A i \in Len(req.prefix) + 1..Len(s): i \in Nat
    BY <1>1, StrParts
  <2> QED BY <2>1, RollsUpCut DEF Cut
<1> QED BY <1>2 DEF Entry

---------------------------------------------------------------------------
(* What the walk finds stands for keys *)

(* Strings that agree up to m have the same first cut there. *)
LEMMA SameCut ==
  ASSUME ReqOK, NEW s \in Str, NEW t \in Str, NEW m \in Nat, m <= Len(s), m <= Len(t),
         \A j \in 1..m: s[j] = t[j], NEW i \in Nat, i <= m, FirstCut(s, i)
  PROVE  FirstCut(t, i) /\ SubSeq(s, 1, i) = SubSeq(t, 1, i)
<1>0. Len(s) \in Nat /\ Len(t) \in Nat /\ Len(req.prefix) \in Nat
  BY StrParts, DelimiterParts
<1>1. Cut(t, i)
  BY <1>0 DEF FirstCut, Cut
<1>2. ASSUME NEW j \in Nat, Cut(t, j) PROVE i <= j
  <2>1. CASE j <= m
    <3>1. Cut(s, j)
      BY <1>0, <1>2, <2>1 DEF Cut
    <3> QED BY <3>1 DEF FirstCut
  <2> QED BY <2>1
<1>3. SubSeq(s, 1, i) = SubSeq(t, 1, i)
  <2>1. i \in 0..Len(s) /\ i \in 0..Len(t)
    BY <1>0
  <2>2. /\ SubSeq(s, 1, i) \in Str /\ Len(SubSeq(s, 1, i)) = i
        /\ SubSeq(t, 1, i) \in Str /\ Len(SubSeq(t, 1, i)) = i
        /\ \A j \in 1..i: SubSeq(s, 1, i)[j] = s[j] /\ SubSeq(t, 1, i)[j] = t[j]
    BY <2>1, PrefixAt
  <2>3. \A j \in 1..i: SubSeq(s, 1, i)[j] = SubSeq(t, 1, i)[j]
    BY <2>2
  <2> QED BY <2>2, <2>3, SeqEqual DEF Str
<1> QED BY <1>1, <1>2, <1>3 DEF FirstCut

LEMMA MatchesAt ==
  ASSUME ReqOK, NEW s \in Str
  PROVE  Matches(s) <=> /\ Len(req.prefix) <= Len(s)
                        /\ \A j \in 1..Len(req.prefix): s[j] = req.prefix[j]
<1> DEFINE n == Len(req.prefix)
<1>0. req.prefix \in Str /\ n \in Nat /\ Len(s) \in Nat
  BY StrParts, DelimiterParts DEF ReqOK
<1>1. ASSUME n <= Len(s)
      PROVE  SubSeq(req.prefix, 1, n) = SubSeq(s, 1, n)
               <=> \A j \in 1..n: s[j] = req.prefix[j]
  <2>1. n \in 0..Len(s) /\ n \in 0..Len(req.prefix)
    BY <1>0, <1>1
  <2>2. /\ SubSeq(s, 1, n) \in Str /\ Len(SubSeq(s, 1, n)) = n
        /\ SubSeq(req.prefix, 1, n) \in Str /\ Len(SubSeq(req.prefix, 1, n)) = n
        /\ \A j \in 1..n: SubSeq(s, 1, n)[j] = s[j]
        /\ \A j \in 1..n: SubSeq(req.prefix, 1, n)[j] = req.prefix[j]
    BY <1>0, <2>1, PrefixAt
  <2> HIDE DEF n
  <2>3. ASSUME \A j \in 1..n: s[j] = req.prefix[j]
        PROVE  SubSeq(req.prefix, 1, n) = SubSeq(s, 1, n)
    BY <2>2, <2>3, SeqEqual DEF Str
  <2>4. ASSUME SubSeq(req.prefix, 1, n) = SubSeq(s, 1, n), NEW j \in 1..n
        PROVE  s[j] = req.prefix[j]
    BY <2>2, <2>4
  <2> QED BY <2>3, <2>4
<1> QED BY <1>1 DEF Matches, IsPrefix

(* The directories of a path: the parts of it that end in a slash. *)
LEMMA AboveShape ==
  ASSUME NEW s \in Str, NEW d \in Above(s)
  PROVE  \E m \in 1..Len(s): /\ d = SubSeq(s, 1, m) /\ s[m] = Slash
                             /\ d \in Str \ {<<>>} /\ Len(d) = m
                             /\ \A j \in 1..m: d[j] = s[j]
<1>0. Len(s) \in Nat
  BY StrParts
<1>1. PICK m \in 1..Len(s): d = SubSeq(s, 1, m) /\ s[m] = Slash
  BY DEF Above
<1>2. m \in 0..Len(s) /\ m # 0
  BY <1>0
<1>3. d \in Str /\ Len(d) = m /\ \A j \in 1..m: d[j] = s[j]
  BY <1>1, <1>2, PrefixAt
<1> QED BY <1>1, <1>2, <1>3, EmptySeq

LEMMA AboveFinite ==
  ASSUME NEW s \in Str
  PROVE  IsFiniteSet(Above(s)) /\ Above(s) \in SUBSET (Str \ {<<>>})
<1> DEFINE n == Len(s)
           f == [i \in 1..n |-> SubSeq(s, 1, i)]
           E == {f[i]: i \in 1..n}
<1>1. n \in Int
  BY StrParts
<1>2. f \in Surjection(1..n, E)
  BY DEF Surjection
<1>3. IsFiniteSet(1..n)
  BY <1>1, FS_Interval
<1>4. IsFiniteSet(E)
  <2> HIDE DEF f, E
  <2> QED BY <1>2, <1>3, FS_Surjection, Zenon
<1>5. Above(s) \in SUBSET E
  BY DEF Above
<1>6. IsFiniteSet(Above(s))
  BY <1>4, <1>5, FS_Subset, Zenon
<1> QED BY <1>6, AboveShape

(* The path of an object's file, and of any other file *)
PathOf(s) == IF sealed /\ s \in Keys THEN Append(s, Slash) ELSE s

LEMMA PathShape ==
  ASSUME Slash \in Nat, NEW s \in Str
  PROVE  /\ PathOf(s) \in Str
         /\ \A j \in 1..Len(s): PathOf(s)[j] = s[j]
         /\ \/ PathOf(s) = s
            \/ /\ sealed /\ PathOf(s) = Append(s, Slash)
               /\ Len(PathOf(s)) = Len(s) + 1 /\ PathOf(s)[Len(s) + 1] = Slash
<1>1. Append(s, Slash) \in Seq(Nat) /\ Len(Append(s, Slash)) = Len(s) + 1
  BY DEF Str
<1>2. /\ \A j \in 1..Len(s): Append(s, Slash)[j] = s[j]
      /\ Append(s, Slash)[Len(s) + 1] = Slash
  BY DEF Str
<1> QED BY <1>1, <1>2 DEF PathOf, Str

LEMMA DirsOfStrings ==
  ASSUME Slash \in Nat, NEW s \in Str
  PROVE  IsFiniteSet(DirsOf(s)) /\ DirsOf(s) \in SUBSET (Str \ {<<>>})
BY PathShape, AboveFinite DEF DirsOf, PathOf

(* A directory of a key: a prefix of it, or the key of a sealed object with a  *)
(* slash.                                                                   *)
LEMMA DirShape ==
  ASSUME ReqOK, NEW k \in Str, NEW d \in DirsOf(k)
  PROVE  /\ d \in Str
         /\ \E m \in 0..Len(k):
              /\ \A j \in 1..m: d[j] = k[j]
              /\ \/ Len(d) = m
                 \/ /\ Len(d) = m + 1 /\ m = Len(k) /\ d[m + 1] = Slash
                    /\ sealed /\ d = Append(k, Slash)
<1>0. Len(k) \in Nat /\ Slash \in Nat
  BY StrParts DEF ReqOK
<1> DEFINE p == PathOf(k)
<1>1. /\ p \in Str /\ \A j \in 1..Len(k): p[j] = k[j]
      /\ p = k \/ (sealed /\ p = Append(k, Slash) /\ Len(p) = Len(k) + 1
                   /\ p[Len(k) + 1] = Slash)
  BY <1>0, PathShape
<1>2. d \in Above(p)
  BY DEF DirsOf, PathOf
<1> HIDE DEF p
<1>3. PICK m \in 1..Len(p): /\ d = SubSeq(p, 1, m) /\ d \in Str /\ Len(d) = m
                           /\ \A j \in 1..m: d[j] = p[j]
  BY <1>1, <1>2, AboveShape
<1>4. CASE m <= Len(k)
  <2>1. m \in 0..Len(k) /\ \A j \in 1..m: d[j] = k[j]
    BY <1>0, <1>1, <1>3, <1>4
  <2> QED BY <1>3, <2>1
<1>5. CASE ~(m <= Len(k))
  <2>1. sealed /\ p = Append(k, Slash) /\ m = Len(k) + 1 /\ m = Len(p)
    BY <1>0, <1>1, <1>3, <1>5
  <2>2. d = p
    BY <1>1, <1>3, <2>1, SubSeqFull DEF Str
  <2>3. /\ Len(k) \in 0..Len(k) /\ \A j \in 1..Len(k): d[j] = k[j]
        /\ Len(d) = Len(k) + 1 /\ d[Len(k) + 1] = Slash /\ sealed /\ d = Append(k, Slash)
    BY <1>0, <1>1, <2>1, <2>2
  <2> QED BY <1>3, <2>3
<1> QED BY <1>4, <1>5

(* The temp file of a PUT lies in the directories of its key. *)
LEMMA TempHoused ==
  ASSUME Slash \in Nat, TempNames \in SUBSET (Str \ {<<>>}),
         NEW k \in Str, NEW t \in TempsOf(k)
  PROVE  t \in Str \ {<<>>} /\ DirsOf(k) \in SUBSET DirsOf(t)
<1> DEFINE p == PathOf(k)
<1>1. PICK d \in Above(p) \cup {<<>>}, n \in TempNames:
        t = d \o n /\ \A e \in Above(p): Len(e) <= Len(d)
  BY DEF TempsOf, TempsBelow, DirsOf, PathOf
<1>2. p \in Str /\ DirsOf(k) = Above(p)
  BY PathShape DEF DirsOf, PathOf
<1> HIDE DEF p
<1>3. d \in Str /\ n \in Str /\ n # <<>>
  <2>1. d \in Above(p) => d \in Str
    BY <1>2, AboveShape
  <2>2. <<>> \in Str
    BY EmptySeq DEF Str
  <2> QED BY <1>1, <2>1, <2>2
<1>4. /\ t \in Str /\ Len(t) = Len(d) + Len(n) /\ Len(d) \in Nat /\ Len(n) \in Nat
      /\ \A j \in 1..Len(d): t[j] = d[j]
  BY <1>1, <1>3, ConcatProperties, StrParts DEF Str
<1>5. t # <<>>
  <2>1. Len(n) # 0
    BY <1>3, EmptySeq DEF Str
  <2>2. Len(t) # 0
    BY <1>4, <2>1
  <2> QED BY <2>2
<1>6. ASSUME NEW e \in Above(p) PROVE e \in Above(t)
  <2>1. PICK i \in 1..Len(p): /\ e = SubSeq(p, 1, i) /\ p[i] = Slash /\ e \in Str
                             /\ Len(e) = i /\ \A j \in 1..i: e[j] = p[j]
    BY <1>2, <1>6, AboveShape
  <2>2. i <= Len(d) /\ i \in Nat \ {0} /\ Len(p) \in Nat
    <3>1. Len(p) \in Nat
      BY <1>2, StrParts
    <3>2. Len(e) <= Len(d)
      BY <1>1, <1>6
    <3> QED BY <2>1, <3>1, <3>2
  <2>3. d # <<>>
    BY <2>2, EmptySeq
  <2>4. PICK m \in 1..Len(p): Len(d) = m /\ \A j \in 1..m: d[j] = p[j]
    BY <1>1, <1>2, <2>3, AboveShape
  <2>5. \A j \in 1..i: t[j] = p[j]
    BY <1>4, <2>2, <2>4
  <2>6. i \in 1..Len(t) /\ t[i] = Slash /\ i \in 0..Len(t)
    BY <1>4, <2>1, <2>2, <2>5
  <2>7. SubSeq(t, 1, i) = e
    <3>1. /\ SubSeq(t, 1, i) \in Str /\ Len(SubSeq(t, 1, i)) = i
          /\ \A j \in 1..i: SubSeq(t, 1, i)[j] = t[j]
      BY <1>4, <2>6, PrefixAt
    <3>2. \A j \in 1..i: SubSeq(t, 1, i)[j] = e[j]
      BY <2>1, <2>5, <3>1
    <3> QED BY <2>1, <3>1, <3>2, SeqEqual DEF Str
  <2> QED BY <2>6, <2>7 DEF Above
<1>7. ASSUME NEW e \in Above(t) PROVE e \in Above(PathOf(t))
  <2>1. PICK i \in 1..Len(t): e = SubSeq(t, 1, i) /\ t[i] = Slash
    BY <1>7 DEF Above
  <2>2. /\ PathOf(t) \in Str /\ Len(t) <= Len(PathOf(t))
        /\ \A j \in 1..Len(t): PathOf(t)[j] = t[j]
    BY <1>4, PathShape
  <2>3. i \in 1..Len(PathOf(t)) /\ PathOf(t)[i] = Slash
    BY <1>4, <2>1, <2>2, StrParts
  <2>4. SubSeq(PathOf(t), 1, i) = e
    <3>1. i \in 0..Len(t) /\ i \in 0..Len(PathOf(t))
      BY <1>4, <2>1, <2>2, StrParts
    <3>2. /\ e \in Str /\ Len(e) = i /\ SubSeq(PathOf(t), 1, i) \in Str
          /\ Len(SubSeq(PathOf(t), 1, i)) = i
          /\ \A j \in 1..i: SubSeq(PathOf(t), 1, i)[j] = PathOf(t)[j] /\ e[j] = t[j]
      BY <1>4, <2>1, <2>2, <3>1, PrefixAt
    <3>3. \A j \in 1..i: SubSeq(PathOf(t), 1, i)[j] = e[j]
      BY <1>4, <2>1, <2>2, <3>2
    <3> QED BY <3>2, <3>3, SeqEqual DEF Str
  <2> QED BY <2>3, <2>4 DEF Above
<1>8. DirsOf(t) = Above(PathOf(t))
  BY DEF DirsOf, PathOf
<1> QED BY <1>2, <1>4, <1>5, <1>6, <1>7, <1>8

(* A directory that is rolled up stands for the entry of the key, or it is the  *)
(* directory of a sealed object under the delimiter "/".                      *)
LEMMA ConsumedDir ==
  ASSUME ReqOK, NEW k \in Str, NEW d \in DirsOf(k), Consumed(d)
  PROVE  /\ Matches(k)
         /\ \/ RollsUp(k) /\ CommonPrefix(d) = Entry(k)
            \/ AsPrefixes /\ CommonPrefix(d) = Append(k, Slash)
<1>0. /\ d \in Str /\ Matches(d) /\ RollsUp(d)
      /\ Len(req.prefix) \in Nat /\ Len(d) \in Nat /\ Len(k) \in Nat
  BY DirShape, DelimiterParts, StrParts DEF Consumed
<1>1. PICK m \in 0..Len(k):
        /\ \A j \in 1..m: d[j] = k[j]
        /\ \/ Len(d) = m
           \/ /\ Len(d) = m + 1 /\ m = Len(k) /\ d[m + 1] = Slash
              /\ sealed /\ d = Append(k, Slash)
  BY DirShape
<1>2. PICK i \in Nat: FirstCut(d, i)
  BY <1>0, FirstCutExists
<1>3. i \in Len(req.prefix) + 1..Len(d) /\ req.delim = <<d[i]>>
  BY <1>2 DEF FirstCut, Cut
<1>4. CommonPrefix(d) = SubSeq(d, 1, i)
  BY <1>0, <1>2, CutOff
<1>5. Matches(k)
  <2>1. Len(req.prefix) <= m
    BY <1>0, <1>1, <1>3
  <2>2. \A j \in 1..Len(req.prefix): d[j] = req.prefix[j]
    BY <1>0, MatchesAt
  <2>3. \A j \in 1..Len(req.prefix): k[j] = req.prefix[j]
    BY <1>0, <1>1, <2>1, <2>2
  <2> QED BY <1>0, <2>1, <2>3, MatchesAt
<1>6. CASE i <= m
  <2>1. m \in Nat /\ m <= Len(d) /\ m <= Len(k)
    BY <1>0, <1>1
  <2>2. FirstCut(k, i) /\ SubSeq(d, 1, i) = SubSeq(k, 1, i)
    BY <1>0, <1>1, <1>2, <1>6, <2>1, SameCut
  <2>3. Entry(k) = SubSeq(k, 1, i)
    BY <2>2, CutOff
  <2>4. RollsUp(k)
    BY <2>2, RollsUpCut DEF FirstCut
  <2> QED BY <1>4, <1>5, <2>2, <2>3, <2>4
<1>7. CASE m < i
  <2>1. Len(d) = m + 1 /\ i = Len(d) /\ d[i] = Slash /\ sealed /\ d = Append(k, Slash)
    BY <1>0, <1>1, <1>3, <1>7
  <2>2. SubSeq(d, 1, i) = d
    BY <1>0, <2>1, SubSeqFull DEF Str
  <2> QED BY <1>3, <1>4, <1>5, <2>1, <2>2 DEF AsPrefixes
<1> QED BY <1>0, <1>6, <1>7

(* An entry is a nonempty string. *)
LEMMA EntryType ==
  ASSUME ReqOK, NEW k \in Str, k # <<>>
  PROVE  Entry(k) \in Str /\ Entry(k) # <<>>
<1>1. CASE RollsUp(k)
  <2>1. PICK i \in Nat: FirstCut(k, i)
    BY <1>1, FirstCutExists
  <2>2. i \in 0..Len(k) /\ i # 0
    BY <2>1, StrParts, DelimiterParts DEF FirstCut, Cut
  <2>3. Entry(k) \in Str /\ Len(Entry(k)) = i
    BY <2>1, <2>2, CutOff, PrefixAt
  <2> QED BY <2>2, <2>3, EmptySeq
<1>2. CASE ~RollsUp(k)
  BY <1>2, NoCutEntry
<1> QED BY <1>1, <1>2

---------------------------------------------------------------------------
(* What the walk finds: nothing but entries of keys, and all of them *)

FilesOK ==
  /\ files \in SUBSET (Str \ {<<>>}) /\ IsFiniteSet(files)
  /\ temps \in SUBSET (Str \ {<<>>}) /\ IsFiniteSet(temps)
  /\ dirs \in SUBSET (Str \ {<<>>}) /\ IsFiniteSet(dirs)

(* Every file lies in directories. *)
Housed == \A s \in Entries: DirsOf(s) \in SUBSET dirs

(* Keys, and what is left of PUTs *)
Listed == files \cup Leavings

LEMMA ListedStrings ==
  ASSUME FilesOK
  PROVE  Listed \in SUBSET (Str \ {<<>>}) /\ IsFiniteSet(Listed)
<1>1. Leavings \in SUBSET (temps \cup dirs)
  BY DEF Leavings
<1>2. IsFiniteSet(temps \cup dirs)
  BY FS_Union, Zenon DEF FilesOK
<1>3. IsFiniteSet(Leavings)
  BY <1>1, <1>2, FS_Subset, Zenon
<1>4. IsFiniteSet(files \cup Leavings)
  BY <1>3, FS_Union, Zenon DEF FilesOK
<1> QED BY <1>1, <1>4 DEF Listed, FilesOK

(* A string that rolls up has its common prefix for its entry. *)
LEMMA RolledEntry ==
  ASSUME ReqOK, NEW s \in Str, RollsUp(s)
  PROVE  CommonPrefix(s) = Entry(s)
<1>1. PICK i \in Nat: FirstCut(s, i)
  BY FirstCutExists
<1> QED BY <1>1, CutOff

(* Everything found stands for a key or for what is left of a PUT; only a      *)
(* sealed object under the delimiter "/" is found under another name than its *)
(* entry.                                                                   *)
LEMMA FoundSound ==
  ASSUME ReqOK, FilesOK, NEW e \in Found
  PROVE  /\ After(e)
         /\ \E s \in Listed: Matches(s) /\ \/ e = Entry(s)
                                           \/ AsPrefixes /\ e = Append(s, Slash)
<1>0. Entries \in SUBSET Listed /\ Listed \in SUBSET Str
  BY ListedStrings DEF Entries, Listed, Leavings
<1>1. CASE e \in FoundKeys
  <2>1. e \in Entries /\ Matches(e) /\ ~RollsUp(e) /\ After(e)
    BY <1>1 DEF FoundKeys
  <2>2. e = Entry(e)
    BY <1>0, <2>1, NoCutEntry
  <2> QED BY <1>0, <2>1, <2>2
<1>2. CASE e \in FoundPrefixes
  <2>1. After(e)
    BY <1>2 DEF FoundPrefixes
  <2>2. ASSUME NEW d \in dirs, Consumed(d), e = CommonPrefix(d)
        PROVE  \E s \in Listed: Matches(s) /\ \/ e = Entry(s)
                                              \/ AsPrefixes /\ e = Append(s, Slash)
    <3>1. CASE \E k \in files: d \in DirsOf(k)
      <4>1. PICK k \in files: d \in DirsOf(k)
        BY <3>1
      <4> QED BY <2>2, <4>1, ConsumedDir DEF FilesOK, Listed
    <3>2. CASE \A k \in files: d \notin DirsOf(k)
      <4>1. d \in Listed /\ d \in Str /\ Matches(d) /\ RollsUp(d)
        BY <1>0, <2>2, <3>2 DEF Listed, Leavings, Consumed
      <4> QED BY <2>2, <4>1, RolledEntry
    <3> QED BY <3>1, <3>2
  <2>3. ASSUME NEW s \in Entries, Matches(s), RollsUp(s), e = CommonPrefix(s)
        PROVE  s \in Listed /\ Matches(s) /\ e = Entry(s)
    BY <1>0, <2>3, RolledEntry
  <2> QED BY <1>2, <2>1, <2>2, <2>3 DEF FoundPrefixes
<1> QED BY <1>1, <1>2 DEF Found

LEMMA FoundStrings ==
  ASSUME ReqOK, FilesOK
  PROVE  Found \in SUBSET (Str \ {<<>>})
<1>1. ASSUME NEW k \in Str
      PROVE  Append(k, Slash) \in Str /\ Append(k, Slash) # <<>>
  <2>1. Append(k, Slash) \in Seq(Nat) /\ Len(Append(k, Slash)) = Len(k) + 1 /\ Len(k) \in Nat
    BY DEF Str, ReqOK
  <2>2. Len(Append(k, Slash)) # 0
    BY <2>1
  <2> QED BY <2>1, <2>2, EmptySeq DEF Str
<1>2. \A e \in Found: e \in Str /\ e # <<>>
  BY <1>1, FoundSound, EntryType, ListedStrings
<1> QED BY <1>2

LEMMA FoundFinite ==
  ASSUME ReqOK, FilesOK
  PROVE  IsFiniteSet(Found)
<1> DEFINE f == [s \in Listed |-> Entry(s)]
           g == [s \in Listed |-> Append(s, Slash)]
           E == {f[s]: s \in Listed}
           G == {g[s]: s \in Listed}
<1>1. f \in Surjection(Listed, E) /\ g \in Surjection(Listed, G)
  BY DEF Surjection
<1>2. IsFiniteSet(E) /\ IsFiniteSet(G)
  <2> HIDE DEF f, g, E, G
  <2> QED BY <1>1, ListedStrings, FS_Surjection, Zenon
<1>3. IsFiniteSet(E \cup G)
  BY <1>2, FS_Union, Zenon
<1>4. Found \in SUBSET (E \cup G)
  BY FoundSound
<1> QED BY <1>3, <1>4, FS_Subset, Zenon

LEMMA FoundComplete ==
  ASSUME ReqOK, FilesOK, Housed,
         NEW s \in Listed, Matches(s), ~AsPrefixes, After(Entry(s))
  PROVE  Entry(s) \in Found
<1>0. s \in Str
  BY ListedStrings
<1>1. CASE s \in Entries /\ \E d \in DirsOf(s): Consumed(d)
  <2>1. PICK d \in DirsOf(s): Consumed(d)
    BY <1>1
  <2>2. CommonPrefix(d) = Entry(s)
    BY <1>0, <2>1, ConsumedDir
  <2>3. d \in dirs
    BY <1>1 DEF Housed
  <2> QED BY <2>1, <2>2, <2>3 DEF Found, FoundPrefixes
<1>2. CASE s \in Entries /\ Visited(s) /\ RollsUp(s)
  <2>1. CommonPrefix(s) = Entry(s)
    BY <1>0, <1>2, RolledEntry
  <2> QED BY <1>2, <2>1 DEF Found, FoundPrefixes
<1>3. CASE s \in Entries /\ Visited(s) /\ ~RollsUp(s)
  <2>1. Entry(s) = s
    BY <1>0, <1>3, NoCutEntry
  <2> QED BY <1>3, <2>1 DEF Found, FoundKeys
<1>4. CASE s \in dirs /\ Consumed(s)
  <2>1. CommonPrefix(s) = Entry(s)
    BY <1>0, <1>4, RolledEntry DEF Consumed
  <2> QED BY <1>4, <2>1 DEF Found, FoundPrefixes
<1> QED BY <1>1, <1>2, <1>3, <1>4 DEF Visited, Listed, Leavings, Entries

LEMMA PageIsFirst == Page = FirstOf(Found, req.max)
BY DEF Page, FirstOf, Below

(* The token of a truncated page is its greatest item. *)
LEMMA TokenEndsPage ==
  ASSUME ReqOK, FilesOK, IsTruncated
  PROVE  NextToken \in Page /\ \A s \in Page: ~Less(NextToken, s)
<1> DEFINE Greatest(s) == \A t \in Page: ~Less(s, t)
<1>1. Page \in SUBSET Str /\ IsFiniteSet(Page)
  <2>1. Page \in SUBSET Found /\ Found \in SUBSET Str
    BY FoundStrings DEF Page
  <2> QED BY <2>1, FoundFinite, FS_Subset, Zenon
<1>2. Page # {}
  <2>1. Found # {}
    <3>1. Cardinality(Found) > req.max /\ req.max \in Nat \ {0}
      BY DEF IsTruncated, ReqOK
    <3>2. Cardinality(Found) # 0
      BY <3>1
    <3> QED BY <3>2, FS_EmptySet
  <2>2. Found \in SUBSET Str /\ IsFiniteSet(Found) /\ req.max \in Nat \ {0}
    BY FoundStrings, FoundFinite DEF ReqOK
  <2> QED BY <2>1, <2>2, PageNotEmpty, PageIsFirst
<1>3. \E s \in Page: Greatest(s)
  BY <1>1, <1>2, GreatestString
<1>4. NextToken = CHOOSE s \in Page: Greatest(s)
  BY DEF NextToken
<1> HIDE DEF Greatest
<1>5. NextToken \in Page /\ Greatest(NextToken)
  BY <1>3, <1>4
<1> QED BY <1>5 DEF Greatest

(* What is found and not greater than the token is on the page, *)
LEMMA PageReachesToken ==
  ASSUME ReqOK, FilesOK, IsTruncated, NEW e \in Found, ~Less(NextToken, e)
  PROVE  e \in Page
<1>1. Found \in SUBSET Str /\ IsFiniteSet(Found) /\ req.max \in Nat
  BY FoundStrings, FoundFinite DEF ReqOK
<1>2. NextToken \in FirstOf(Found, req.max)
  BY TokenEndsPage, PageIsFirst
<1> QED BY <1>1, <1>2, PageNoGap, PageIsFirst

(* and everything found is on the last page. *)
LEMMA LastPage ==
  ASSUME ReqOK, FilesOK, ~IsTruncated
  PROVE  Page = Found
<1>1. Found \in SUBSET Str /\ IsFiniteSet(Found) /\ req.max \in Nat
  BY FoundStrings, FoundFinite DEF ReqOK
<1>2. Cardinality(Found) \in Nat
  BY <1>1, FS_CardinalityType
<1>3. Cardinality(Found) <= req.max
  BY <1>1, <1>2 DEF IsTruncated
<1> QED BY <1>1, <1>3, PageIsAll, PageIsFirst

---------------------------------------------------------------------------
(* The inductive invariant *)

Listable(k) == Matches(k) /\ (req.start = <<>> \/ Less(req.start, Entry(k)))

TypeInv ==
  /\ files \in SUBSET Keys /\ IsFiniteSet(files)
  /\ temps \in SUBSET (Str \ {<<>>}) /\ IsFiniteSet(temps)
  /\ dirs \in SUBSET (Str \ {<<>>}) /\ IsFiniteSet(dirs)
  /\ req \in [prefix: PrefixArgs, delim: Delims, start: Starts, max: Sizes]
  /\ stable \in SUBSET files
  /\ churn \in Nat
  /\ token \in Str
  /\ got \in SUBSET (Str \ {<<>>})

(* Files lie in directories, the temp file of a PUT in those of its key. *)
TreeInv ==
  /\ Housed
  /\ \A p \in puts: p[1] \in Keys /\ p[2] \in TempsOf(p[1])

(* Nothing listed is greater than the token. *)
TokenInv ==
  /\ token = req.start \/ Less(req.start, token)
  /\ state = "more" => \A g \in got: ~Less(token, g)

(* What was there ever since the listing began *)
Lasting == IF churn = 0 THEN Listed ELSE stable

(* The entry of what was always there is listed or yet to come. *)
CoverInv ==
  ~AsPrefixes => \A s \in Lasting: Listable(s) =>
    /\ state = "more" => Entry(s) \in got \/ After(Entry(s))
    /\ state = "ended" => Entry(s) \in got

(* Without churn all that is listed are entries. *)
ExactInv ==
  churn = 0 =>
    /\ stable = files
    /\ ~AsPrefixes => \A g \in got: \E s \in Listed: Listable(s) /\ g = Entry(s)

ListInv == TypeInv /\ TreeInv /\ TokenInv /\ CoverInv /\ ExactInv

LEMMA WellTyped ==
  ASSUME TypeInv
  PROVE  ReqOK /\ FilesOK
<1> USE DEF TypeInv
<1>1. FilesOK
  BY KeyAssumption DEF FilesOK, Str
<1>2. /\ req.prefix \in PrefixArgs /\ req.delim \in Delims /\ req.start \in Starts
      /\ req.max \in Sizes
  OBVIOUS
<1>3. ReqOK
  BY <1>2, KeyAssumption, RequestAssumption DEF ReqOK, Str
<1> QED BY <1>1, <1>3

(* What the next page offers lies behind all that is listed. *)
LEMMA PagesAscendInv ==
  ASSUME TypeInv, TokenInv, state = "more", NEW g \in got, NEW e \in Found
  PROVE  Less(g, e)
<1>1. ReqOK /\ FilesOK
  BY WellTyped
<1>2. After(e) /\ e \in Str /\ g \in Str /\ g # <<>> /\ token \in Str
  BY <1>1, FoundSound, FoundStrings DEF TypeInv
<1>3. ~Less(token, g)
  BY DEF TokenInv
<1>4. token # <<>>
  BY <1>2, <1>3, EmptyLeast
<1>5. Less(token, e)
  BY <1>2, <1>4 DEF After
<1>6. token = g \/ Less(g, token)
  BY <1>2, <1>3, LessTotal
<1> QED BY <1>2, <1>5, <1>6, LessTransitive

LEMMA ListInit ==
  ASSUME Init
  PROVE  ListInv
<1>0. /\ Slash \in Nat /\ Keys \in SUBSET (Str \ {<<>>})
      /\ TempNames \in SUBSET (Str \ {<<>>})
  BY KeyAssumption, TempAssumption DEF Str
<1>1. /\ temps \in SUBSET UNION {TempsOf(k): k \in Keys} /\ IsFiniteSet(temps)
      /\ files \in SUBSET Keys /\ IsFiniteSet(files)
  BY DEF Init, UpTo
<1>2. temps \in SUBSET (Str \ {<<>>})
  BY <1>0, <1>1, TempHoused
<1>3. PICK failed \in SUBSET Keys:
        /\ IsFiniteSet(failed)
        /\ dirs = UNION {DirsOf(s): s \in files \cup temps \cup failed}
  BY DEF Init, UpTo
<1>4. dirs \in SUBSET (Str \ {<<>>}) /\ IsFiniteSet(dirs)
  <2> DEFINE S == files \cup temps \cup failed
             f == [s \in S |-> DirsOf(s)]
             D == {f[s]: s \in S}
  <2>1. S \in SUBSET Str /\ dirs = UNION D
    BY <1>0, <1>1, <1>2, <1>3
  <2>2. \A s \in S: IsFiniteSet(DirsOf(s)) /\ DirsOf(s) \in SUBSET (Str \ {<<>>})
    BY <1>0, <2>1, DirsOfStrings
  <2>3. IsFiniteSet(S)
    BY <1>1, <1>3, FS_Union, Zenon
  <2>4. f \in Surjection(S, D) /\ \A T \in D: IsFiniteSet(T) /\ T \in SUBSET (Str \ {<<>>})
    BY <2>2 DEF Surjection
  <2> HIDE DEF S, f, D
  <2>5. IsFiniteSet(D)
    BY <2>3, <2>4, FS_Surjection, Zenon
  <2>6. IsFiniteSet(UNION D)
    BY <2>4, <2>5, FS_UNION, Zenon
  <2> QED BY <2>1, <2>4, <2>6
<1>5. TypeInv
  BY <1>1, <1>2, <1>4, RequestAssumption, EmptySeq DEF Init, TypeInv, Str
<1>6. TreeInv
  BY <1>1, <1>3 DEF Init, TreeInv, Housed, Entries
<1>7. TokenInv
  BY DEF Init, TokenInv
<1>8. CoverInv
  BY DEF Init, CoverInv, Listable, After
<1>9. ExactInv
  BY DEF Init, ExactInv
<1> QED BY <1>5, <1>6, <1>7, <1>8, <1>9 DEF ListInv

(* The parameters of the listing stay, and so does what a key stands for. *)
LEMMA SameRequest ==
  ASSUME req' = req, sealed' = sealed
  PROVE  /\ AsPrefixes' <=> AsPrefixes
         /\ \A s: /\ Entry(s)' = Entry(s)
                  /\ Listable(s)' <=> Listable(s)
BY DEF AsPrefixes, Entry, Listable, Matches

(* ... and in the same tree the same is listed. *)
LEMMA SameTree ==
  ASSUME req' = req, UNCHANGED tree, TypeInv
  PROVE  Listed' = Listed /\ (TreeInv => TreeInv')
<1>1. \A s: DirsOf(s)' = DirsOf(s)
  BY DEF tree, DirsOf
<1>2. \A s: Consumed(s)' <=> Consumed(s)
  BY DEF Consumed, Matches, RollsUp
<1>3. \A s: TempsOf(s)' = TempsOf(s)
  BY <1>1 DEF TempsOf
<1>4. Leavings' = Leavings
  BY <1>1, <1>2 DEF tree, Leavings
<1> QED BY <1>1, <1>3, <1>4 DEF tree, Listed, TreeInv, Housed, Entries

LEMMA ListPageType ==
  ASSUME ListInv, ListPage
  PROVE  TypeInv' /\ TreeInv' /\ TokenInv'
<1>1. TypeInv /\ TokenInv /\ ReqOK /\ FilesOK
  BY WellTyped DEF ListInv
<1>0. TreeInv'
  BY <1>1, SameTree DEF ListPage, ListInv
<1>2. Found \in SUBSET (Str \ {<<>>}) /\ Page \in SUBSET Found
  BY <1>1, FoundStrings DEF Page
<1>3. CASE ~IsTruncated
  <2>1. TypeInv'
    BY <1>1, <1>2, <1>3 DEF ListPage, TypeInv, tree
  <2>2. TokenInv'
    BY <1>1, <1>3 DEF ListPage, TokenInv
  <2> QED BY <1>0, <2>1, <2>2
<1>4. CASE IsTruncated
  <2>1. /\ token' = NextToken /\ got' = got \cup Page
        /\ req' = req /\ stable' = stable /\ churn' = churn
        /\ files' = files /\ temps' = temps /\ dirs' = dirs
        /\ state = "more"
    BY <1>4 DEF ListPage, tree
  <2>2. NextToken \in Page /\ \A s \in Page: ~Less(NextToken, s)
    BY <1>1, <1>4, TokenEndsPage
  <2>3. NextToken \in Str /\ NextToken # <<>> /\ After(NextToken)
    BY <1>1, <1>2, <2>2, FoundSound
  <2>4. TypeInv'
    BY <1>1, <1>2, <2>1, <2>3 DEF TypeInv
  <2>5. Less(req.start, NextToken)
    <3>1. req.start \in Str /\ token \in Str
      BY <1>1 DEF ReqOK, TypeInv
    <3>2. CASE token = <<>>
      <4>1. req.start = <<>>
        BY <1>1, <3>1, <3>2, EmptyLeast DEF TokenInv
      <4> QED BY <2>3, <4>1, EmptyLeast
    <3>3. CASE Less(token, NextToken)
      BY <1>1, <2>3, <3>1, <3>3, LessTransitive DEF TokenInv
    <3> QED BY <2>3, <3>2, <3>3 DEF After
  <2>6. ASSUME NEW g \in got, Less(NextToken, g) PROVE FALSE
    <3>1. Less(g, NextToken) /\ g \in Str
      BY <1>1, <1>2, <2>1, <2>2, PagesAscendInv DEF TypeInv
    <3> QED BY <2>3, <2>6, <3>1, LessTransitive, LessIrreflexive
  <2>7. TokenInv'
    BY <2>1, <2>2, <2>5, <2>6 DEF TokenInv
  <2> QED BY <1>0, <2>4, <2>7
<1> QED BY <1>3, <1>4

(* What lasts is listed, or comes behind the greatest item of a full page. *)
LEMMA PageCovers ==
  ASSUME ListInv, ListPage, ~AsPrefixes, NEW s \in Lasting, Listable(s)
  PROVE  \/ Entry(s) \in got \cup Page
         \/ IsTruncated /\ Less(NextToken, Entry(s))
<1>1. TypeInv /\ TreeInv /\ CoverInv /\ ReqOK /\ FilesOK /\ state = "more"
  BY WellTyped DEF ListInv, ListPage
<1>2. CASE Entry(s) \in got
  BY <1>2
<1>3. CASE After(Entry(s))
  <2>1. s \in Listed /\ Matches(s)
    BY <1>1 DEF TypeInv, Lasting, Listed, Listable
  <2>2. Entry(s) \in Found
    BY <1>1, <1>3, <2>1, FoundComplete DEF TreeInv
  <2>3. CASE IsTruncated
    BY <1>1, <2>2, <2>3, PageReachesToken
  <2>4. CASE ~IsTruncated
    BY <1>1, <2>2, <2>4, LastPage
  <2> QED BY <2>3, <2>4
<1> QED BY <1>1, <1>2, <1>3 DEF CoverInv

LEMMA ListPageCover ==
  ASSUME ListInv, ListPage
  PROVE  CoverInv'
<1>1. /\ got' = got \cup Page /\ UNCHANGED <<tree, stable, churn>> /\ TypeInv
      /\ req' = req /\ sealed' = sealed
      /\ IF IsTruncated THEN state' = "more" /\ token' = NextToken
                        ELSE state' = "ended" /\ token' = token
  BY DEF ListPage, ListInv, tree
<1>2. Lasting' = Lasting
  BY <1>1, SameTree DEF Lasting
<1>3. ASSUME ~AsPrefixes', NEW s \in Lasting', Listable(s)'
      PROVE  \/ Entry(s)' \in got'
             \/ state' = "more" /\ After(Entry(s))'
  <2>1. ~AsPrefixes /\ s \in Lasting /\ Listable(s) /\ Entry(s)' = Entry(s)
    BY <1>1, <1>2, <1>3, SameRequest
  <2>2. Entry(s) \in got \cup Page \/ (IsTruncated /\ Less(NextToken, Entry(s)))
    BY <2>1, PageCovers
  <2> QED BY <1>1, <2>1, <2>2 DEF After
<1> QED BY <1>1, <1>3 DEF CoverInv

LEMMA ListPageExact ==
  ASSUME ListInv, ListPage
  PROVE  ExactInv'
<1>1. TypeInv /\ TokenInv /\ ExactInv /\ ReqOK /\ FilesOK
  BY WellTyped DEF ListInv
<1>2. /\ got' = got \cup Page /\ stable' = stable /\ files' = files /\ churn' = churn
      /\ req' = req /\ sealed' = sealed /\ Listed' = Listed
  BY <1>1, SameTree DEF ListPage, tree
<1>3. ASSUME ~AsPrefixes, NEW g \in Page
      PROVE  \E s \in Listed: Listable(s) /\ g = Entry(s)
  <2>1. g \in Found
    BY DEF Page
  <2>2. After(g) /\ \E s \in Listed: Matches(s) /\ g = Entry(s)
    BY <1>1, <1>3, <2>1, FoundSound
  <2>3. req.start = <<>> \/ Less(req.start, g)
    <3>1. req.start \in Str /\ token \in Str /\ g \in Str
      BY <1>1, <2>1, FoundStrings DEF ReqOK, TypeInv
    <3>2. CASE token = <<>>
      BY <1>1, <3>1, <3>2, EmptyLeast DEF TokenInv
    <3>3. CASE Less(token, g)
      BY <1>1, <3>1, <3>3, LessTransitive DEF TokenInv
    <3> QED BY <2>2, <3>2, <3>3 DEF After
  <2> QED BY <2>2, <2>3 DEF Listable
<1>4. ASSUME churn = 0, ~AsPrefixes, NEW g \in got'
      PROVE  \E s \in Listed: Listable(s) /\ g = Entry(s)
  BY <1>1, <1>2, <1>3, <1>4 DEF ExactInv
<1>5. ASSUME churn' = 0, ~AsPrefixes', NEW g \in got'
      PROVE  \E s \in Listed': Listable(s)' /\ g = Entry(s)'
  BY <1>2, <1>4, <1>5, SameRequest
<1> QED BY <1>1, <1>2, <1>5 DEF ExactInv

(* What the other clients do to the tree keeps it one. *)
TreeStep ==
  /\ files' \in SUBSET Keys /\ IsFiniteSet(files')
  /\ temps' \in SUBSET (Str \ {<<>>}) /\ IsFiniteSet(temps')
  /\ dirs' \in SUBSET (Str \ {<<>>}) /\ IsFiniteSet(dirs')
  /\ stable' \in SUBSET files' /\ stable' \in SUBSET stable
  /\ TreeInv'

(* What stands for what depends on the mode of the store only. *)
LEMMA SameMode ==
  ASSUME sealed' = sealed
  PROVE  \A s: DirsOf(s)' = DirsOf(s) /\ TempsOf(s)' = TempsOf(s)
<1>1. \A s: DirsOf(s)' = DirsOf(s)
  BY DEF DirsOf
<1> QED BY <1>1 DEF TempsOf

LEMMA PutBeginTree ==
  ASSUME TypeInv, TreeInv, PutBegin
  PROVE  TreeStep
<1>0. /\ Slash \in Nat /\ Keys \in SUBSET (Str \ {<<>>})
      /\ TempNames \in SUBSET (Str \ {<<>>})
  BY KeyAssumption, TempAssumption DEF Str
<1>1. PICK k \in Keys: \E t \in TempsOf(k):
        /\ dirs' = dirs \cup DirsOf(t) /\ temps' = temps \cup {t}
        /\ puts' = puts \cup {<<k, t>>}
  BY DEF PutBegin
<1>2. PICK t \in TempsOf(k):
        /\ dirs' = dirs \cup DirsOf(t) /\ temps' = temps \cup {t}
        /\ puts' = puts \cup {<<k, t>>}
  BY <1>1
<1>3. files' = files /\ stable' = stable /\ sealed' = sealed
  BY DEF PutBegin, Churn
<1>4. t \in Str \ {<<>>} /\ IsFiniteSet(DirsOf(t)) /\ DirsOf(t) \in SUBSET (Str \ {<<>>})
  BY <1>0, TempHoused, DirsOfStrings
<1>5. IsFiniteSet(temps') /\ IsFiniteSet(dirs')
  BY <1>2, <1>4, FS_AddElement, FS_Union, Zenon DEF TypeInv
<1>6. Housed'
  BY <1>2, <1>3, SameMode DEF TreeInv, Housed, Entries
<1>7. ASSUME NEW p \in puts' PROVE p[1] \in Keys /\ p[2] \in TempsOf(p[1])'
  <2>1. CASE p \in puts
    BY <1>3, <2>1, SameMode DEF TreeInv
  <2>2. CASE p = <<k, t>>
    BY <1>3, <2>2, SameMode
  <2> QED BY <1>2, <2>1, <2>2
<1> QED BY <1>2, <1>3, <1>4, <1>5, <1>6, <1>7 DEF TypeInv, TreeStep, TreeInv

LEMMA PutEndTree ==
  ASSUME TypeInv, TreeInv, NEW p \in puts, PutEnd(p) \/ PutFails(p)
  PROVE  TreeStep
<1>0. /\ Slash \in Nat /\ Keys \in SUBSET (Str \ {<<>>})
      /\ TempNames \in SUBSET (Str \ {<<>>})
  BY KeyAssumption, TempAssumption DEF Str
<1>1. /\ temps' = temps \ {p[2]} /\ puts' = puts \ {p} /\ dirs' = dirs
      /\ stable' = stable /\ sealed' = sealed
      /\ files' = files \/ (files' = files \cup {p[1]} /\ p[2] \in temps)
  BY DEF PutEnd, PutFails, Churn
<1>2. p[1] \in Keys /\ p[2] \in TempsOf(p[1])
  BY DEF TreeInv
<1>3. IsFiniteSet(temps') /\ IsFiniteSet(files')
  <2>1. temps' \in SUBSET temps /\ IsFiniteSet(files) /\ IsFiniteSet(temps)
    BY <1>1 DEF TypeInv
  <2>2. IsFiniteSet(files \cup {p[1]})
    BY <2>1, FS_AddElement, Zenon
  <2> QED BY <1>1, <2>1, <2>2, FS_Subset, Zenon
<1>4. p[2] \in temps => DirsOf(p[1]) \in SUBSET dirs
  <2>1. DirsOf(p[1]) \in SUBSET DirsOf(p[2])
    BY <1>0, <1>2, TempHoused
  <2> QED BY <2>1 DEF TreeInv, Housed, Entries
<1>5. Housed'
  BY <1>1, <1>4, SameMode DEF TreeInv, Housed, Entries
<1>6. \A q \in puts': q[1] \in Keys /\ q[2] \in TempsOf(q[1])'
  BY <1>1, SameMode DEF TreeInv
<1> QED BY <1>1, <1>2, <1>3, <1>5, <1>6 DEF TypeInv, TreeStep, TreeInv

LEMMA DeleteKeyTree ==
  ASSUME TypeInv, TreeInv, NEW s, DeleteKey(s)
  PROVE  TreeStep
<1>1. /\ files' = files \ {s} /\ temps' = temps \ {s} /\ stable' = stable \ {s}
      /\ dirs' = dirs \ Emptied(s) /\ puts' = puts /\ sealed' = sealed
  BY DEF DeleteKey, Churn
<1>2. IsFiniteSet(files') /\ IsFiniteSet(temps') /\ IsFiniteSet(dirs')
  <2>1. files' \in SUBSET files /\ temps' \in SUBSET temps /\ dirs' \in SUBSET dirs
    BY <1>1
  <2> QED BY <2>1, FS_Subset, Zenon DEF TypeInv
<1>3. Housed'
  <2>1. ASSUME NEW f \in Entries' PROVE DirsOf(f)' \in SUBSET dirs'
    <3>1. f \in Entries \ {s}
      BY <1>1, <2>1 DEF Entries
    <3>2. \A d \in DirsOf(f): d \notin Emptied(s)
      BY <3>1 DEF Emptied
    <3> QED BY <1>1, <3>1, <3>2, SameMode DEF TreeInv, Housed
  <2> QED BY <2>1 DEF Housed
<1>4. \A q \in puts': q[1] \in Keys /\ q[2] \in TempsOf(q[1])'
  BY <1>1, SameMode DEF TreeInv
<1> QED BY <1>1, <1>2, <1>3, <1>4 DEF TypeInv, TreeStep, TreeInv

(* The other clients change the tree and nothing of the listing. *)
OthersStep ==
  \/ PutBegin
  \/ \E p \in puts: PutEnd(p) \/ PutFails(p)
  \/ \E s \in Entries \cup {Front(d): d \in dirs}: DeleteKey(s)

LEMMA ListChurn ==
  ASSUME ListInv, OthersStep
  PROVE  ListInv'
<1>1. TypeInv /\ TreeInv /\ TokenInv /\ CoverInv
  BY DEF ListInv
<1>2. /\ state = "more" /\ churn' = churn + 1 /\ state' \in {"more", "broken"}
      /\ sealed' = sealed /\ req' = req /\ token' = token /\ got' = got
  BY DEF OthersStep, PutBegin, PutEnd, PutFails, DeleteKey, Churn, MayBreak
<1>3. TreeStep
  BY <1>1, PutBeginTree, PutEndTree, DeleteKeyTree DEF OthersStep
<1>4. TypeInv' /\ churn' # 0
  BY <1>1, <1>2, <1>3 DEF TypeInv, TreeStep
<1>5. TokenInv'
  BY <1>1, <1>2 DEF TokenInv
<1>6. CoverInv'
  <2>1. ASSUME ~AsPrefixes', NEW s \in Lasting', Listable(s)'
        PROVE  state' # "ended" /\ (Entry(s)' \in got' \/ After(Entry(s))')
    <3>1. s \in Lasting
      BY <1>1, <1>3, <1>4, <2>1 DEF Lasting, Listed, TreeStep, TypeInv
    <3>2. ~AsPrefixes /\ Listable(s) /\ Entry(s)' = Entry(s)
      BY <1>2, <2>1, SameRequest
    <3>3. Entry(s) \in got \/ After(Entry(s))
      BY <1>1, <1>2, <3>1, <3>2 DEF CoverInv
    <3> QED BY <1>2, <3>2, <3>3 DEF After
  <2> QED BY <2>1 DEF CoverInv
<1>7. ExactInv'
  BY <1>4 DEF ExactInv
<1> QED BY <1>3, <1>4, <1>5, <1>6, <1>7 DEF ListInv, TreeStep

LEMMA ListStep ==
  ASSUME ListInv, [Next]_vars
  PROVE  ListInv'
<1>1. CASE ListPage
  BY <1>1, ListPageType, ListPageCover, ListPageExact DEF ListInv
<1>2. CASE OthersStep
  BY <1>2, ListChurn
<1>3. CASE UNCHANGED vars
  <2>1. UNCHANGED <<tree, listing, stable, churn>>
    BY <1>3 DEF vars
  <2>2. TypeInv' /\ TokenInv'
    BY <2>1 DEF tree, listing, ListInv, TypeInv, TokenInv
  <2>3. TreeInv' /\ Listed' = Listed
    BY <2>1, SameTree DEF listing, ListInv
  <2>4. Lasting' = Lasting /\ req' = req /\ sealed' = sealed
    BY <2>1, <2>3 DEF Lasting, tree, listing
  <2>5. CoverInv'
    BY <2>1, <2>4, SameRequest DEF listing, ListInv, CoverInv, After
  <2>6. ExactInv'
    BY <2>1, <2>3, <2>4, SameRequest DEF tree, listing, ListInv, ExactInv
  <2> QED BY <2>2, <2>3, <2>5, <2>6 DEF ListInv
<1> QED BY <1>1, <1>2, <1>3 DEF Next, Finished, OthersStep

LEMMA ListInvariant == Spec => []ListInv
<1> QED BY ListInit, ListStep, PTL DEF Spec

---------------------------------------------------------------------------
(* The theorems *)

(* The pages of handleListObjectsV2 make one sorted list without repetition,  *)
(* whatever is put and deleted between them: a token, be it a key or a common *)
(* prefix, never brings back an item or one before it.                       *)
THEOREM PagesAscend == Spec => []PagesInOrder
<1>1. ASSUME ListInv PROVE PagesInOrder
  <2>1. \A e \in Page: e \in Found
    BY DEF Page
  <2> QED BY <1>1, <2>1, PagesAscendInv DEF ListInv, PagesInOrder
<1> QED BY <1>1, ListInvariant, PTL

(* A key with an object during the whole listing is listed, itself or by its   *)
(* common prefix, however small the pages are and whatever else is put and    *)
(* deleted, if no file that was listed went away under a page: no token skips *)
(* it, and no directory that List does not enter hides it.                    *)
THEOREM StableKeysFound == Spec => []StableKeysListed
<1>1. ASSUME ListInv PROVE StableKeysListed
  <2>1. stable \in SUBSET Lasting
    BY <1>1 DEF ListInv, TypeInv, Lasting, Listed
  <2> QED BY <1>1, <2>1 DEF ListInv, CoverInv, StableKeysListed, Listable
<1> QED BY <1>1, ListInvariant, PTL

(* In a quiet bucket the pages together are exactly the listing of S3 and, as  *)
(* if they were keys, the temp files and directories that PUTs left.          *)
THEOREM ListingIsExact == Spec => []ListingExact
<1>1. ASSUME ListInv, state = "ended", churn = 0, ~AsPrefixes
      PROVE  got = {e \in {Entry(s): s \in {s \in files \cup Leavings: Matches(s)}}:
                      req.start = <<>> \/ Less(req.start, e)}
  <2>1. \A g \in got: \E s \in Listed: Listable(s) /\ g = Entry(s)
    BY <1>1 DEF ListInv, ExactInv
  <2>2. \A s \in Listed: Listable(s) => Entry(s) \in got
    BY <1>1 DEF ListInv, CoverInv, Lasting
  <2> QED BY <2>1, <2>2 DEF Listable, Listed
<1>2. ASSUME ListInv PROVE ListingExact
  BY <1>1, <1>2 DEF ListingExact
<1> QED BY <1>2, ListInvariant, PTL

============================================================================
