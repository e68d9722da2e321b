------------------------- MODULE MetaExtractProofs --------------------------
(***************************************************************************)
(* What meta-extract copies, for every alphabet, every set of names and    *)
(* every page.                                                             *)
(***************************************************************************)
EXTENDS MetaExtract, WellFoundedInduction, TLAPS

-----------------------------------------------------------------------------
(***************************************************************************)
(* The least and the greatest of a set of naturals, and functions that are *)
(* recursive on an interval, from its upper end down                       *)
(***************************************************************************)
LEMMA Descent ==
  ASSUME NEW n \in Nat, NEW G,
         \A k \in 1 .. n : (\A j \in k + 1 .. n : j \in G) => k \in G
  PROVE  \A k \in 1 .. n : k \in G
<1> DEFINE B == {d \in Nat : d < n /\ n - d \notin G}
<1> SUFFICES ASSUME B # {} PROVE FALSE
  <2>1. ASSUME B = {}, NEW k \in 1 .. n PROVE k \in G
    <3>1. n - k \in Nat /\ n - k < n /\ n - (n - k) = k
      OBVIOUS
    <3> QED BY <2>1, <3>1
  <2> QED BY <2>1
<1>1. \E d \in B : \A e \in B : ~(<<e, d>> \in OpToRel(<, Nat))
  <2>1. B \subseteq Nat
    OBVIOUS
  <2> HIDE DEF B
  <2> QED BY <2>1, NatLessThanWellFounded, WFMin
<1>2. PICK d \in B : \A e \in B : ~(e < d)
  BY <1>1 DEF OpToRel
<1>3. \A j \in n - d + 1 .. n : j \in G
  <2> SUFFICES ASSUME NEW j \in n - d + 1 .. n PROVE j \in G
    OBVIOUS
  <2>1. n - j \in Nat /\ n - j < d /\ n - j < n /\ n - (n - j) = j
    BY <1>2
  <2> QED BY <1>2, <2>1
<1>4. n - d \in 1 .. n
  BY <1>2
<1> QED BY <1>2, <1>3, <1>4

LEMMA MinOfNat ==
  ASSUME NEW S \in SUBSET Nat, S # {}
  PROVE  Min(S) \in S /\ \A x \in S : Min(S) <= x
<1>1. PICK x \in S : \A y \in S : ~(<<y, x>> \in OpToRel(<, Nat))
  BY NatLessThanWellFounded, WFMin
<1>2. \A y \in S : ~(y < x)
  BY <1>1 DEF OpToRel
<1>3. \A y \in S : x <= y
  <2>1. \A a, b \in Nat : ~(a < b) => b <= a
    OBVIOUS
  <2> QED BY <1>2, <2>1
<1> QED BY <1>3 DEF Min

LEMMA MinPair ==
  ASSUME NEW a \in Nat, NEW b \in Nat
  PROVE  Min({a, b}) = IF a <= b THEN a ELSE b
<1>1. Min({a, b}) \in {a, b} /\ Min({a, b}) <= a /\ Min({a, b}) <= b
  BY MinOfNat
<1> QED BY <1>1

LEMMA MaxOfNat ==
  ASSUME NEW n \in Nat, NEW S \in SUBSET (0 .. n), S # {}
  PROVE  Max(S) \in S /\ \A x \in S : x <= Max(S)
<1> DEFINE R == {n - x : x \in S}
<1>1. R \in SUBSET Nat /\ R # {}
  <2>1. \A x \in S : n - x \in Nat
    OBVIOUS
  <2> QED BY <2>1
<1>2. Min(R) \in R /\ \A y \in R : Min(R) <= y
  <2> HIDE DEF R
  <2> QED BY <1>1, MinOfNat
<1>3. PICK m \in S : Min(R) = n - m
  BY <1>2
<1>4. \A x \in S : n - x \in R
  OBVIOUS
<1>5. \A x \in S : n - m <= n - x
  <2> HIDE DEF R
  <2> QED BY <1>2, <1>3, <1>4
<1>6. \A x \in S : m >= x /\ x <= m
  BY <1>5
<1>7. Max(S) \in S /\ \A x \in S : Max(S) >= x
  <2>1. \E x \in S : \A y \in S : x >= y
    BY <1>6
  <2> QED BY <2>1 DEF Max
<1> QED BY <1>7

LEMMA EndType ==
  text \in Seq(Char) =>
    /\ Len(text) \in Nat /\ End \in Nat /\ End = Len(text) + 1 /\ End >= 1
    /\ DOMAIN text = 1 .. Len(text)
<1> SUFFICES ASSUME text \in Seq(Char)
             PROVE  /\ Len(text) \in Nat /\ End \in Nat /\ End = Len(text) + 1 /\ End >= 1
                    /\ DOMAIN text = 1 .. Len(text)
  OBVIOUS
<1>1. Len(text) \in Nat /\ DOMAIN text = 1 .. Len(text)
  OBVIOUS
<1> QED BY <1>1 DEF End

\* What c says of the place it is at.
LEMMA CharAt ==
  ASSUME text \in Seq(Char), NEW i \in Nat
  PROVE  /\ c(i) # "EOF" => i \in 1 .. Len(text) /\ c(i) = text[i]
         /\ i \in 1 .. Len(text) => c(i) = text[i]
         /\ i >= End => c(i) = "EOF"
BY EndType DEF c

LEMMA AfterBounds ==
  ASSUME text \in Seq(Char), NEW i \in 0 .. End
  PROVE  /\ After(i) \in 1 .. End /\ After(i) >= i /\ After(i) <= i + 1
         /\ i < End => After(i) = i + 1
<1>1. i + 1 \in Nat /\ End \in Nat /\ End >= 1
  BY EndType
<1>2. After(i) = IF i + 1 <= End THEN i + 1 ELSE End
  BY <1>1, MinPair DEF After
<1> QED BY <1>1, <1>2

LEMMA NextOpenTagBounds ==
  ASSUME text \in Seq(Char), NEW i \in 0 .. End, i < End
  PROVE  NextOpenTag(i) \in i + 1 .. End
<1> DEFINE S == {j \in DOMAIN text : j >= i /\ text[j] = "<"}
<1>0. End \in Nat /\ End = Len(text) + 1 /\ DOMAIN text = 1 .. Len(text) /\ Len(text) \in Nat
  BY EndType
<1>1. NextOpenTag(i) = IF S = {} THEN End ELSE Min(S) + 1
  BY DEF NextOpenTag
<1>2. CASE S = {}
  BY <1>0, <1>1, <1>2
<1>3. CASE S # {}
  <2>1. S \subseteq Nat /\ \A j \in S : j \in i .. Len(text)
    BY <1>0
  <2>2. Min(S) \in S
    <3> HIDE DEF S
    <3> QED BY <1>3, <2>1, MinOfNat
  <2>3. Min(S) \in i .. Len(text)
    <3> HIDE DEF S
    <3> QED BY <2>1, <2>2
  <2> QED BY <1>0, <1>1, <1>3, <2>3
<1> QED BY <1>2, <1>3

LEMMA CloseStringBounds ==
  ASSUME text \in Seq(Char), NEW i \in Nat, i <= End
  PROVE  CloseString(i) \in i .. End /\ CloseString(i) >= 1 /\ (i < End => CloseString(i) > i)
<1> DEFINE S == {End} \cup {j + 1 : j \in {k \in DOMAIN text : k >= i /\ text[k] = "q"}}
<1>0. End \in Nat /\ End >= 1 /\ DOMAIN text = 1 .. Len(text) /\ End = Len(text) + 1 /\ Len(text) \in Nat
  BY EndType
<1>1. \A j \in DOMAIN text : j >= i => j + 1 \in Nat /\ j + 1 > i /\ j + 1 >= 1 /\ j + 1 <= End
  BY <1>0
<1>2. S \in SUBSET Nat /\ S # {} /\ \A x \in S : x = End \/ (x > i /\ x >= 1 /\ x <= End)
  BY <1>0, <1>1
<1>3. CloseString(i) = Min(S)
  BY DEF CloseString
<1> HIDE DEF S
<1>4. Min(S) \in S
  BY <1>2, MinOfNat
<1>5. Min(S) \in Nat /\ (Min(S) = End \/ (Min(S) > i /\ Min(S) >= 1 /\ Min(S) <= End))
  BY <1>2, <1>4
<1>6. Min(S) \in i .. End /\ Min(S) >= 1 /\ (i < End => Min(S) > i)
  BY <1>0, <1>5
<1> QED BY <1>3, <1>6

LEMMA BlankIs ==
  /\ Blank # "<" /\ Blank # ">" /\ Blank # "q" /\ Blank # "n" /\ Blank # "\\" /\ Blank # "EOF"
BY Zenon DEF Blank

\* Only what is passed over lies before the place Past goes to.
LEMMA PastIs ==
  ASSUME text \in Seq(Char), NEW i \in 0 .. End
  PROVE  /\ Past({Blank}, i) \in i .. End /\ Past({Blank}, i) >= 1
         /\ \A j \in i .. Past({Blank}, i) - 1 : j >= 1 => text[j] = Blank
<1> DEFINE S == {End} \cup {j \in DOMAIN text : j >= i /\ text[j] \notin {Blank}}
<1>0. /\ End \in Nat /\ End >= 1 /\ DOMAIN text = 1 .. Len(text) /\ End = Len(text) + 1 /\ Len(text) \in Nat
      /\ i \in Nat /\ i <= End
  BY EndType
<1>1. S \in SUBSET Nat /\ S # {} /\ \A x \in S : x >= i /\ x >= 1 /\ x <= End
  <2>1. \A x \in DOMAIN text : x \in Nat /\ x >= 1 /\ x <= End
    BY <1>0
  <2>2. \A x \in S : x = End \/ (x \in DOMAIN text /\ x >= i)
    OBVIOUS
  <2>3. \A x \in S : x \in Nat /\ x >= i /\ x >= 1 /\ x <= End
    <3> HIDE DEF S
    <3> QED BY <1>0, <2>1, <2>2
  <2> QED BY <2>3
<1>2. Past({Blank}, i) = Min(S)
  BY DEF Past
<1>3. ASSUME NEW j \in Int, j >= i, j >= 1, j < End, text[j] # Blank PROVE j \in S
  <2>0. \A n, e, k \in Int : e = n + 1 /\ k >= 1 /\ k < e => k \in 1 .. n
    OBVIOUS
  <2>1. Len(text) \in Int /\ End \in Int
    BY <1>0
  <2>2. j \in 1 .. Len(text)
    BY <1>0, <1>3, <2>0, <2>1
  <2>3. j \in DOMAIN text
    BY <1>0, <2>2
  <2> QED BY <1>3, <2>3
<1> HIDE DEF S
<1>4. Min(S) \in S /\ \A x \in S : Min(S) <= x
  BY <1>1, MinOfNat
<1>5. Min(S) \in Nat /\ Min(S) >= i /\ Min(S) >= 1 /\ Min(S) <= End
  BY <1>1, <1>4
<1>6. ASSUME NEW j \in i .. Min(S) - 1, j >= 1, text[j] # Blank PROVE FALSE
  <2>0. j \in Int /\ j >= i /\ j <= Min(S) - 1
    BY <1>0, <1>5
  <2>1. j < Min(S) /\ j < End
    BY <1>0, <1>5, <2>0
  <2>2. j \in S
    BY <1>3, <1>6, <2>0, <2>1
  <2>3. Min(S) <= j
    BY <1>4, <2>2
  <2> QED BY <1>5, <2>0, <2>1, <2>3
<1>7. Min(S) \in i .. End
  BY <1>0, <1>5
<1> QED BY <1>2, <1>5, <1>6, <1>7

\* What next_match_string has read when it stops.
LEMMA LengthIs ==
  ASSUME text \in Seq(Char), NEW p \in Seq(Char), NEW i \in 1 .. End
  PROVE  /\ Length(p, i) \in 0 .. Len(p) /\ i + Length(p, i) <= End
         /\ \A j \in 1 .. Length(p, i) : text[i + j - 1] = p[j]
<1> DEFINE S == {k \in 0 .. Len(p) : i + k <= End /\ \A j \in 1 .. k : text[i + j - 1] = p[j]}
<1>1. Len(p) \in Nat /\ 0 \in S
  BY EndType
<1>2. S \in SUBSET (0 .. Len(p)) /\ S # {}
  BY <1>1
<1>3. Max(S) \in S
  <2> HIDE DEF S
  <2> QED BY <1>1, <1>2, MaxOfNat
<1> QED BY <1>3 DEF Length

\* A string that has been read to its end is there.
LEMMA MatchIsAt ==
  ASSUME text \in Seq(Char), NEW p \in Seq(Char), NEW i \in 1 .. End, Length(p, i) = Len(p)
  PROVE  At(p, text, i) /\ i + Len(p) <= End
<1>1. End = Len(text) + 1 /\ Len(p) \in Nat
  BY EndType
<1>2. i + Len(p) <= End /\ \A j \in 1 .. Len(p) : text[i + j - 1] = p[j]
  BY LengthIs
<1> QED BY <1>1, <1>2 DEF At

-----------------------------------------------------------------------------
(***************************************************************************)
(* Skip                                                                    *)
(***************************************************************************)
\* Skip, as one character or one string after the other.
LEMMA SkipRule ==
  ASSUME text \in Seq(Char), NEW ends, NEW i \in 1 .. End
  PROVE  Skip(ends, i) = CASE i = End        -> End
                           [] c(i) \in ends  -> i
                           [] c(i) = "q"     -> Skip(ends, After(CloseString(i + 1)))
                           [] OTHER          -> Skip(ends, i + 1)
<1> DEFINE Body(f, j) == CASE j = End        -> End
                           [] c(j) \in ends  -> j
                           [] c(j) = "q"     -> f[After(CloseString(j + 1))]
                           [] OTHER          -> f[j + 1]
           G == {k \in 1 .. End : \E f : f = [j \in k .. End |-> Body(f, j)]}
           skip == CHOOSE f : f = [j \in 1 .. End |-> Body(f, j)]
<1>0. End \in Nat /\ End >= 1 /\ 1 \in 1 .. End
  BY EndType
<1>1. \A f : Body(f, End) = End
  <2>1. c(End) = "EOF"
    BY <1>0, CharAt
  <2> QED BY <2>1
<1>2. ASSUME NEW k \in 1 .. End, \A j \in k + 1 .. End : j \in G
      PROVE  k \in G
  <2>1. CASE k = End
    <3> DEFINE g == [j \in k .. End |-> End]
    <3>1. \A j \in k .. End : j = End
      BY <1>0, <2>1
    <3>2. g = [j \in k .. End |-> Body(g, j)]
      <4> HIDE DEF Body
      <4> QED BY <1>1, <3>1
    <3> HIDE DEF g, Body
    <3> QED BY <3>2
  <2>2. CASE k # End
    <3>1. k + 1 \in k + 1 .. End
      BY <1>0, <2>2
    <3>2. k + 1 \in G
      BY <1>2, <3>1
    <3>3. PICK f : f = [j \in k + 1 .. End |-> Body(f, j)]
      BY <3>2
    <3> DEFINE g == [j \in k .. End |-> IF j = k THEN Body(f, k) ELSE f[j]]
    <3>4. \A j \in k + 1 .. End : j \in k .. End /\ j # k /\ g[j] = f[j]
      BY <1>0
    <3>5. ASSUME NEW j \in k .. End PROVE Body(g, j) = Body(f, j)
      <4>1. CASE j = End
        <5> HIDE DEF g, Body
        <5> QED BY <1>1, <4>1
      <4>2. CASE j # End
        <5>1. j + 1 \in k + 1 .. End /\ j + 1 \in Nat /\ j + 1 <= End /\ j \in Nat /\ j >= k
          BY <1>0, <4>2
        <5>2. CloseString(j + 1) \in j + 1 .. End
          BY <5>1, CloseStringBounds
        <5>3. CloseString(j + 1) \in 0 .. End /\ CloseString(j + 1) >= j + 1
          BY <1>0, <5>1, <5>2
        <5>4. After(CloseString(j + 1)) \in 1 .. End /\ After(CloseString(j + 1)) >= CloseString(j + 1)
          BY <5>3, AfterBounds
        <5>5. After(CloseString(j + 1)) \in k + 1 .. End
          BY <1>0, <5>1, <5>3, <5>4
        <5>6. g[j + 1] = f[j + 1] /\ g[After(CloseString(j + 1))] = f[After(CloseString(j + 1))]
          <6> HIDE DEF g
          <6> QED BY <3>4, <5>1, <5>5
        <5> HIDE DEF g
        <5> QED BY <5>6
      <4> QED BY <4>1, <4>2
    <3>6. ASSUME NEW j \in k .. End PROVE g[j] = Body(g, j)
      <4>1. CASE j = k
        <5>1. g[j] = Body(f, k)
          BY <4>1
        <5> HIDE DEF g, Body
        <5> QED BY <3>5, <4>1, <5>1
      <4>2. CASE j # k
        <5>1. j \in k + 1 .. End
          BY <1>0, <4>2
        <5>2. g[j] = f[j] /\ f[j] = Body(f, j)
          <6> HIDE DEF g, Body
          <6> QED BY <3>3, <3>4, <5>1
        <5> HIDE DEF g, Body
        <5> QED BY <3>5, <5>2
      <4> QED BY <4>1, <4>2
    <3>7. g = [j \in k .. End |-> Body(g, j)]
      <4>1. DOMAIN g = k .. End /\ g = [j \in k .. End |-> g[j]]
        OBVIOUS
      <4> HIDE DEF g, Body
      <4> QED BY <3>6, <4>1
    <3> HIDE DEF g, Body
    <3> QED BY <3>7
  <2> QED BY <2>1, <2>2
<1>3. 1 \in G
  <2> HIDE DEF G
  <2> QED BY <1>0, <1>2, Descent
<1>4. skip = [j \in 1 .. End |-> Body(skip, j)]
  <2>1. \E f : f = [j \in 1 .. End |-> Body(f, j)]
    BY <1>3
  <2> HIDE DEF Body
  <2> QED BY <2>1
<1>5. \A j : Skip(ends, j) = skip[j]
  BY DEF Skip
<1>6. skip[i] = Body(skip, i)
  <2> HIDE DEF skip, Body
  <2> QED BY <1>4
<1> HIDE DEF skip
<1> QED BY <1>5, <1>6

LEMMA SkipBounds ==
  ASSUME text \in Seq(Char), NEW ends, NEW i \in 1 .. End
  PROVE  Skip(ends, i) \in i .. End
<1> DEFINE G == {k \in 1 .. End : Skip(ends, k) \in k .. End}
<1>0. End \in Nat /\ End >= 1
  BY EndType
<1>1. ASSUME NEW k \in 1 .. End, \A j \in k + 1 .. End : j \in G
      PROVE  k \in G
  <2>1. CASE k = End
    <3>1. c(k) = "EOF"
      BY <1>0, <2>1, CharAt
    <3>2. Skip(ends, k) = End
      BY <2>1, <3>1, SkipRule
    <3> QED BY <1>0, <2>1, <3>2
  <2>2. CASE k # End
    <3>1. k + 1 \in k + 1 .. End /\ k + 1 \in Nat /\ k + 1 <= End /\ k \in Nat
      BY <1>0, <2>2
    <3> DEFINE m == After(CloseString(k + 1))
    <3>2. CloseString(k + 1) \in 0 .. End /\ CloseString(k + 1) >= k + 1
      BY <1>0, <3>1, CloseStringBounds
    <3>3. m \in 1 .. End /\ m >= CloseString(k + 1)
      BY <3>2, AfterBounds
    <3> HIDE DEF m
    <3>4. m \in k + 1 .. End
      BY <1>0, <3>1, <3>2, <3>3
    <3>5. Skip(ends, k + 1) \in k + 1 .. End /\ Skip(ends, m) \in m .. End
      BY <1>0, <1>1, <3>1, <3>4
    <3>6. Skip(ends, k + 1) \in k .. End /\ Skip(ends, m) \in k .. End /\ k \in k .. End
      BY <1>0, <3>1, <3>4, <3>5
    <3>7. Skip(ends, k) \in {k, Skip(ends, m), Skip(ends, k + 1)}
      BY <2>2, SkipRule DEF m
    <3> QED BY <3>6, <3>7
  <2> QED BY <2>1, <2>2
<1>2. i \in G
  <2> HIDE DEF G
  <2> QED BY <1>0, <1>1, Descent
<1> QED BY <1>2


-----------------------------------------------------------------------------
(***************************************************************************)
(* The end of a value                                                      *)
(***************************************************************************)
\* ValueEnd, as one character after the other.
LEMMA ValueEndRule ==
  ASSUME text \in Seq(Char), NEW i \in 1 .. End + 1
  PROVE  ValueEnd(i) = CASE i >= End       -> End
                         [] c(i) = "q"     -> i
                         [] c(i) = "\\"    -> ValueEnd(i + 2)
                         [] OTHER          -> ValueEnd(i + 1)
<1> DEFINE n == End + 1
           Body(f, j) == CASE j >= End     -> End
                           [] c(j) = "q"   -> j
                           [] c(j) = "\\"  -> f[j + 2]
                           [] OTHER        -> f[j + 1]
           G == {k \in 1 .. n : \E f : f = [j \in k .. n |-> Body(f, j)]}
           end == CHOOSE f : f = [j \in 1 .. n |-> Body(f, j)]
<1>0. End \in Nat /\ End >= 1 /\ n \in Nat /\ 1 \in 1 .. n
  BY EndType
<1>1. \A j \in 1 .. n : j >= End => c(j) = "EOF" /\ \A f : Body(f, j) = End
  BY <1>0, EndType DEF c
<1>2. ASSUME NEW k \in 1 .. n, \A j \in k + 1 .. n : j \in G
      PROVE  k \in G
  <2>1. CASE k >= End
    <3> DEFINE g == [j \in k .. n |-> End]
    <3>1. \A j \in k .. n : j >= End /\ j \in 1 .. n
      BY <1>0, <2>1
    <3>2. g = [j \in k .. n |-> Body(g, j)]
      <4> HIDE DEF Body
      <4> QED BY <1>1, <3>1
    <3> HIDE DEF g, Body
    <3> QED BY <3>2
  <2>2. CASE ~(k >= End)
    <3>1. k + 1 \in k + 1 .. n
      BY <1>0, <2>2
    <3>2. k + 1 \in G
      BY <1>2, <3>1
    <3>3. PICK f : f = [j \in k + 1 .. n |-> Body(f, j)]
      BY <3>2
    <3> DEFINE g == [j \in k .. n |-> IF j = k THEN Body(f, k) ELSE f[j]]
    <3>4. \A j \in k + 1 .. n : j \in k .. n /\ j # k /\ g[j] = f[j]
      BY <1>0
    <3>5. ASSUME NEW j \in k .. n PROVE Body(g, j) = Body(f, j)
      <4>1. CASE j >= End
        <5>1. j \in 1 .. n
          BY <1>0
        <5> HIDE DEF g, Body
        <5> QED BY <1>1, <4>1, <5>1
      <4>2. CASE ~(j >= End)
        <5>1. j + 1 \in k + 1 .. n /\ j + 2 \in k + 1 .. n
          BY <1>0, <4>2
        <5>2. g[j + 1] = f[j + 1] /\ g[j + 2] = f[j + 2]
          BY <3>4, <5>1
        <5> HIDE DEF g
        <5> QED BY <5>2
      <4> QED BY <4>1, <4>2
    <3>6. ASSUME NEW j \in k .. n PROVE g[j] = Body(g, j)
      <4>1. CASE j = k
        <5>1. g[j] = Body(f, k)
          BY <4>1
        <5> HIDE DEF g, Body
        <5> QED BY <3>5, <4>1, <5>1
      <4>2. CASE j # k
        <5>1. j \in k + 1 .. n
          BY <1>0, <4>2
        <5>2. g[j] = f[j] /\ f[j] = Body(f, j)
          <6> HIDE DEF g, Body
          <6> QED BY <3>3, <3>4, <5>1
        <5> HIDE DEF g, Body
        <5> QED BY <3>5, <5>2
      <4> QED BY <4>1, <4>2
    <3>7. g = [j \in k .. n |-> Body(g, j)]
      <4>1. DOMAIN g = k .. n /\ g = [j \in k .. n |-> g[j]]
        OBVIOUS
      <4> HIDE DEF g, Body
      <4> QED BY <3>6, <4>1
    <3> HIDE DEF g, Body
    <3> QED BY <3>7
  <2> QED BY <2>1, <2>2
<1>3. 1 \in G
  <2> HIDE DEF G, n
  <2> QED BY <1>0, <1>2, Descent
<1>4. end = [j \in 1 .. n |-> Body(end, j)]
  <2>1. \E f : f = [j \in 1 .. n |-> Body(f, j)]
    BY <1>3
  <2> HIDE DEF Body, n
  <2> QED BY <2>1
<1>5. \A j : ValueEnd(j) = end[j]
  BY DEF ValueEnd
<1>6. end[i] = Body(end, i)
  <2> HIDE DEF end, Body
  <2> QED BY <1>4
<1> HIDE DEF end
<1> QED BY <1>5, <1>6

\* The \s before a position are counted by looking at one character more.
LEMMA BackslashesAre ==
  ASSUME NEW from \in Nat, NEW j \in Nat, from <= j
  PROVE  /\ Backslashes(from, j) \in 0 .. j - from
         /\ \A n \in 1 .. Backslashes(from, j) : text[j - n] = "\\"
         /\ \A k \in 0 .. j - from : (\A n \in 1 .. k : text[j - n] = "\\") => k <= Backslashes(from, j)
<1> DEFINE S == {k \in 0 .. j - from : \A n \in 1 .. k : text[j - n] = "\\"}
<1>1. j - from \in Nat /\ 0 \in S
  OBVIOUS
<1>2. S \in SUBSET (0 .. j - from) /\ S # {}
  BY <1>1
<1>3. Max(S) \in S /\ \A x \in S : x <= Max(S)
  <2> HIDE DEF S
  <2> QED BY <1>1, <1>2, MaxOfNat
<1> QED BY <1>3 DEF Backslashes

LEMMA BackslashesNext ==
  ASSUME NEW from \in Nat, NEW j \in Nat, from <= j
  PROVE  /\ Backslashes(from, from) = 0
         /\ Backslashes(from, j) \in Nat
         /\ text[j] = "\\" => Backslashes(from, j + 1) = Backslashes(from, j) + 1
         /\ text[j] # "\\" => Backslashes(from, j + 1) = 0
<1>1. Backslashes(from, from) = 0
  <2>1. Backslashes(from, from) \in 0 .. from - from
    BY BackslashesAre
  <2> QED BY <2>1
<1> DEFINE r == Backslashes(from, j)
           s == Backslashes(from, j + 1)
<1>2. /\ r \in 0 .. j - from /\ \A n \in 1 .. r : text[j - n] = "\\"
      /\ \A k \in 0 .. j - from : (\A n \in 1 .. k : text[j - n] = "\\") => k <= r
  BY BackslashesAre
<1>3. /\ s \in 0 .. j + 1 - from /\ \A n \in 1 .. s : text[j + 1 - n] = "\\"
      /\ \A k \in 0 .. j + 1 - from : (\A n \in 1 .. k : text[j + 1 - n] = "\\") => k <= s
  <2>1. j + 1 \in Nat /\ from <= j + 1
    OBVIOUS
  <2> QED BY <2>1, BackslashesAre
<1> HIDE DEF r, s
<1>4. r \in Nat /\ s \in Nat /\ r <= j - from /\ s <= j + 1 - from /\ j + 1 - 1 = j
  BY <1>2, <1>3
<1>5. ASSUME text[j] = "\\" PROVE s = r + 1
  <2>1. r + 1 <= s
    <3>1. ASSUME NEW n \in 1 .. r + 1 PROVE text[j + 1 - n] = "\\"
      <4>1. CASE n = 1
        BY <1>4, <1>5, <4>1
      <4>2. CASE n # 1
        <5>1. n - 1 \in 1 .. r /\ j + 1 - n = j - (n - 1)
          BY <1>4, <4>2
        <5> QED BY <1>2, <5>1
      <4> QED BY <4>1, <4>2
    <3>2. r + 1 \in 0 .. j + 1 - from
      BY <1>4
    <3> QED BY <1>3, <3>1, <3>2
  <2>2. s - 1 <= r
    <3>1. ASSUME NEW n \in 1 .. s - 1 PROVE text[j - n] = "\\"
      <4>1. n + 1 \in 1 .. s /\ j + 1 - (n + 1) = j - n
        BY <1>4
      <4> QED BY <1>3, <4>1
    <3>2. s - 1 \in 0 .. j - from
      BY <1>4, <2>1
    <3> QED BY <1>2, <3>1, <3>2
  <2> QED BY <1>4, <2>1, <2>2
<1>6. ASSUME text[j] # "\\" PROVE s = 0
  <2>1. CASE s # 0
    <3>1. 1 \in 1 .. s
      BY <1>4, <2>1
    <3>2. text[j + 1 - 1] = "\\"
      BY <1>3, <3>1
    <3> QED BY <1>4, <1>6, <3>2
  <2> QED BY <2>1
<1> QED BY <1>1, <1>4, <1>5, <1>6 DEF r, s

\* A value that begins at from, read from a character m of it that is not escaped.
LEMMA ValueEndIs ==
  ASSUME text \in Seq(Char), NEW from \in 1 .. End, NEW m \in from .. End, ~Escaped(from, m)
  PROVE  /\ ValueEnd(m) \in m .. End
         /\ \A j \in m .. ValueEnd(m) - 1 : text[j] = "q" => Escaped(from, j)
         /\ ValueEnd(m) < End => text[ValueEnd(m)] = "q" /\ ~Escaped(from, ValueEnd(m))
<1> DEFINE Q(e, k) == /\ e \in k .. End
                      /\ \A j \in k .. e - 1 : text[j] = "q" => Escaped(from, j)
                      /\ e < End => text[e] = "q" /\ ~Escaped(from, e)
           G == {k \in 1 .. End : from <= k /\ ~Escaped(from, k) => Q(ValueEnd(k), k)}
<1>0. End \in Nat /\ End >= 1 /\ End = Len(text) + 1 /\ Len(text) \in Nat /\ from \in Nat /\ from >= 1
  BY EndType
<1>1. ASSUME NEW k \in 1 .. End, \A j \in k + 1 .. End : j \in G
      PROVE  k \in G
  <2> SUFFICES ASSUME from <= k, ~Escaped(from, k) PROVE Q(ValueEnd(k), k)
    OBVIOUS
  <2>0. k \in Nat /\ k >= 1 /\ k <= End /\ k \in 1 .. End + 1
    BY <1>0
  <2>1. CASE k = End
    <3>1. c(k) = "EOF"
      BY <1>0, <2>1, CharAt
    <3>2. ValueEnd(k) = End
      BY <1>0, <2>0, <2>1, <3>1, ValueEndRule
    <3> QED BY <1>0, <2>1, <3>2
  <2>2. CASE k # End
    <3>0. k < End /\ ~(k >= End) /\ k \in 1 .. Len(text) /\ c(k) = text[k] /\ k + 1 \in k + 1 .. End
          /\ k + 1 \in Nat /\ from <= k + 1
      <4>1. k < End /\ ~(k >= End) /\ k \in 1 .. Len(text) /\ k + 1 \in k + 1 .. End
            /\ k + 1 \in Nat /\ from <= k + 1
        BY <1>0, <2>0, <2>2
      <4> QED BY <2>0, <4>1, CharAt
    <3>1. CASE text[k] = "q"
      <4>1. ValueEnd(k) = k
        BY <2>0, <3>0, <3>1, ValueEndRule
      <4> QED BY <2>0, <3>0, <3>1, <4>1
    <3>2. CASE text[k] # "q" /\ text[k] # "\\"
      <4>1. ValueEnd(k) = ValueEnd(k + 1)
        BY <2>0, <3>0, <3>2, ValueEndRule
      <4>2. ~Escaped(from, k + 1)
        <5>1. Backslashes(from, k + 1) = 0
          BY <1>0, <2>0, <3>2, BackslashesNext
        <5> QED BY <5>1 DEF Escaped
      <4>3. Q(ValueEnd(k + 1), k + 1)
        BY <1>1, <3>0, <4>2
      <4> DEFINE e == ValueEnd(k + 1)
      <4> HIDE DEF e
      <4>4. e \in k .. End /\ \A j \in k .. e - 1 : j = k \/ j \in k + 1 .. e - 1
        BY <2>0, <4>3 DEF e
      <4> QED BY <3>2, <4>1, <4>3, <4>4 DEF e
    <3>3. CASE text[k] = "\\"
      <4>1. ValueEnd(k) = ValueEnd(k + 2)
        BY <2>0, <3>0, <3>3, ValueEndRule
      <4>2. CASE k + 1 = End
        <5>1. ValueEnd(k + 2) = End
          <6>1. k + 2 \in 1 .. End + 1 /\ k + 2 >= End /\ k + 2 \in Nat
            BY <2>0, <4>2
          <6>2. c(k + 2) = "EOF"
            BY <6>1, CharAt
          <6> QED BY <6>1, <6>2, ValueEndRule
        <5>2. \A j \in k .. End - 1 : j = k
          BY <1>0, <2>0, <4>2
        <5>3. ~(End < End) /\ End \in k .. End
          BY <1>0, <2>0
        <5> QED BY <3>3, <4>1, <5>1, <5>2, <5>3
      <4>3. CASE k + 1 # End
        <5>0. k + 2 \in k + 1 .. End /\ k + 2 \in Nat /\ from <= k + 2 /\ k + 1 + 1 = k + 2
          BY <1>0, <2>0, <3>0, <4>3
        <5>1. Backslashes(from, k) \in Nat /\ Backslashes(from, k + 1) = Backslashes(from, k) + 1
          BY <1>0, <2>0, <3>3, BackslashesNext
        <5>2. \A n \in Nat : n % 2 # 1 => (n + 1) % 2 = 1 /\ (n + 1 + 1) % 2 # 1
          OBVIOUS
        <5>3. Escaped(from, k + 1)
          BY <5>1, <5>2 DEF Escaped
        <5>4. Backslashes(from, k + 2) = 0 \/ Backslashes(from, k + 2) = Backslashes(from, k + 1) + 1
          <6>1. Backslashes(from, k + 1 + 1) = 0 \/ Backslashes(from, k + 1 + 1) = Backslashes(from, k + 1) + 1
            <7> DEFINE j == k + 1
            <7>1. j \in Nat /\ from <= j /\ from \in Nat
              BY <1>0, <3>0
            <7> HIDE DEF j
            <7>2. Backslashes(from, j + 1) = 0 \/ Backslashes(from, j + 1) = Backslashes(from, j) + 1
              BY <7>1, BackslashesNext
            <7> QED BY <7>2 DEF j
          <6> QED BY <5>0, <6>1
        <5>5. ~Escaped(from, k + 2)
          BY SMTT(20), <5>1, <5>2, <5>4 DEF Escaped
        <5>6. Q(ValueEnd(k + 2), k + 2)
          BY <1>1, <5>0, <5>5
        <5> DEFINE e == ValueEnd(k + 2)
        <5> HIDE DEF e
        <5>7. e \in k .. End /\ \A j \in k .. e - 1 : j = k \/ j = k + 1 \/ j \in k + 2 .. e - 1
          BY <2>0, <5>6 DEF e
        <5> QED BY <3>3, <4>1, <5>3, <5>6, <5>7 DEF e
      <4> QED BY <4>2, <4>3
    <3> QED BY <3>1, <3>2, <3>3
  <2> QED BY <2>1, <2>2
<1>2. m \in 1 .. End /\ from <= m
  BY <1>0
<1>3. m \in G
  <2> HIDE DEF G
  <2> QED BY <1>0, <1>1, <1>2, Descent
<1> QED BY <1>2, <1>3


-----------------------------------------------------------------------------
(***************************************************************************)
(* The steps                                                               *)
(***************************************************************************)
LEMMA Keys ==
  /\ Meta \in Seq(Char) /\ NameKey \in Seq(Char) /\ PropertyKey \in Seq(Char)
  /\ ContentKey \in Seq(Char) /\ Len(ContentKey) \in Nat /\ Len(ContentKey) >= 1
  /\ \A a \in Attributes : a \in Seq(Char) /\ Len(a) \in Nat
  /\ \E a \in Attributes : TRUE
  /\ \A p \in Attributes \cup {NameKey, PropertyKey, ContentKey} :
       \A j \in 1 .. Len(p) : p[j] # ">"
<1>1. ContentKey \in Seq(Char) /\ ContentKey # <<>>
  BY MetaAssumption
<1>2. Len(ContentKey) \in Nat /\ Len(ContentKey) >= 1
  BY <1>1
<1>3. \A a \in Attributes : a \in Seq(Char)
  BY MetaAssumption
<1>4. \A p \in Attributes \cup {NameKey, PropertyKey, ContentKey} :
        \A j \in 1 .. Len(p) : p[j] # ">"
  BY MarkupAssumption
<1> QED BY <1>2, <1>3, <1>4, MetaAssumption

\* The names, keys and content=" have no '>' in them.
LEMMA NoTagEnd ==
  ASSUME NEW p \in Attributes \cup {NameKey, PropertyKey, ContentKey}, NEW i \in Nat,
         NEW n \in Nat, n <= Len(p), \A j \in 1 .. n : text[i + j - 1] = p[j],
         NEW j \in Nat, i <= j, j < i + n
  PROVE  text[j] # ">"
<1>1. Len(p) \in Nat
  <2>1. p \in Seq(Char)
    BY Keys
  <2> QED BY <2>1
<1> DEFINE m == j - i + 1
<1>2. m \in 1 .. n /\ m \in 1 .. Len(p) /\ i + m - 1 = j
  BY <1>1
<1> HIDE DEF m
<1>3. text[i + m - 1] = p[m] /\ p[m] # ">"
  BY <1>2, Keys
<1> QED BY <1>2, <1>3

\* What is said of the page is said of it as long as it stays.
LEMMA PageStays ==
  ASSUME text' = text
  PROVE  /\ End' = End
         /\ \A v : IsContent(v)' = IsContent(v)
         /\ \A a, i : Named(a, i)' = Named(a, i)
         /\ \A i, j : SameTag(i, j)' = SameTag(i, j)
<1>1. End' = End
  BY DEF End
<1>2. \A a, i : Named(a, i)' = Named(a, i)
  BY DEF Named
<1>3. \A i, j : SameTag(i, j)' = SameTag(i, j)
  BY DEF SameTag
<1>4. \A i, j : Escaped(i, j)' = Escaped(i, j)
  BY DEF Escaped, Backslashes
<1>5. \A v : IsContent(v)' = IsContent(v)
  BY <1>1, <1>2, <1>3, <1>4 DEF IsContent
<1> QED BY <1>1, <1>2, <1>3, <1>5

LEMMA InitIInv == Init => IInv
<1> SUFFICES ASSUME Init PROVE IInv
  OBVIOUS
<1>1. text \in Seq(Char) /\ End \in Nat /\ at = 0 /\ mode = "tag" /\ out = {} /\ done = FALSE
  BY MetaAssumption, EndType DEF Init
<1>2. 0 \in 0 .. End
  BY <1>1
<1>3. TypeOK /\ NameSeen /\ ValuesAreContent /\ ReturnsWithAll
  BY <1>1, <1>2 DEF TypeOK, NameSeen, ValuesAreContent, ReturnsWithAll
<1> QED BY <1>3 DEF IInv

\* A step that copies nothing and does not return keeps what is said of the values.
LEMMA OutStays ==
  ASSUME IInv, text' = text, out' = out, at' \in 0 .. End, mode' \in {"tag", "name", "value"},
         mode' = "value" => attr' \in Attributes, done' = FALSE
  PROVE  TypeOK' /\ ValuesAreContent' /\ ReturnsWithAll'
<1>1. TypeOK'
  BY DEF IInv, TypeOK, End
<1>2. ValuesAreContent'
  BY PageStays DEF IInv, ValuesAreContent
<1>3. ReturnsWithAll'
  BY DEF ReturnsWithAll
<1> QED BY <1>1, <1>2, <1>3

LEMMA NameSeenNext ==
  ASSUME text' = text, NEW i \in 1 .. at' - 1, Named(attr', i), SameTag(i, at' - 1)
  PROVE  NameSeen'
BY DEF NameSeen, Named, SameTag

LEMMA TagStep ==
  ASSUME IInv, Tag
  PROVE  IInv'
<1> DEFINE i == NextOpenTag(at)
           k == Length(Meta, i)
<1>1. /\ text \in Seq(Char) /\ at \in 0 .. End /\ at < End /\ End \in Nat /\ ~done /\ done \in BOOLEAN
      /\ Meta \in Seq(Char)
  BY EndType, Keys DEF IInv, TypeOK, Tag, Busy
<1>2. /\ text' = text /\ out' = out /\ done' = FALSE
      /\ \/ mode' = "name" /\ at' = i + k
         \/ mode' = "tag" /\ at' = Skip({">"}, i + k)
  BY <1>1 DEF Tag, GoTo
<1>3. i \in at + 1 .. End
  BY <1>1, NextOpenTagBounds
<1> HIDE DEF i
<1>4. i \in 1 .. End
  BY <1>1, <1>3
<1>5. k \in Nat /\ i + k <= End
  BY <1>1, <1>4, LengthIs
<1> HIDE DEF k
<1>6. i + k \in 1 .. End
  BY <1>1, <1>4, <1>5
<1>7. Skip({">"}, i + k) \in i + k .. End
  BY <1>1, <1>6, SkipBounds
<1>8. at' \in 0 .. End
  BY <1>1, <1>2, <1>6, <1>7
<1>9. TypeOK' /\ ValuesAreContent' /\ ReturnsWithAll'
  BY <1>2, <1>8, OutStays
<1>10. NameSeen'
  BY <1>2 DEF NameSeen
<1> QED BY <1>9, <1>10 DEF IInv

\* Where one of the names was read to its closing quote, the attribute is there.
LEMMA NamedHere ==
  ASSUME text \in Seq(Char), NEW key \in {NameKey, PropertyKey}, NEW i \in 1 .. End,
         Length(key, i) = Len(key), NEW a \in Attributes,
         i + Len(key) \in 1 .. End, Length(a, i + Len(key)) = Len(a),
         c(i + Len(key) + Len(a)) = "q"
  PROVE  /\ i + Len(key) + Len(a) \in 1 .. Len(text)
         /\ Named(a, i) /\ SameTag(i, i + Len(key) + Len(a) - 1)
         /\ i <= i + Len(key) + Len(a) - 1
<1> DEFINE v == i + Len(key)
<1>0. /\ key \in Seq(Char) /\ a \in Seq(Char) /\ Len(key) \in Nat /\ Len(a) \in Nat
      /\ End \in Nat /\ End = Len(text) + 1 /\ Len(text) \in Nat /\ i \in Nat /\ i >= 1
  <2>1. key \in Seq(Char) /\ a \in Seq(Char)
    BY Keys
  <2> QED BY <2>1, EndType
<1>1. Len(key) >= 1
  BY <1>0, MetaAssumption
<1>2. At(key, text, i) /\ \A j \in 1 .. Len(key) : text[i + j - 1] = key[j]
  BY <1>0, MatchIsAt DEF At
<1>3. At(a, text, v) /\ v + Len(a) <= End /\ \A j \in 1 .. Len(a) : text[v + j - 1] = a[j]
  <2> HIDE DEF v
  <2> QED BY <1>0, MatchIsAt DEF At, v
<1>4. v + Len(a) \in 1 .. Len(text) /\ text[v + Len(a)] = "q"
  <2>1. v + Len(a) \in Nat
    BY <1>0
  <2> QED BY <2>1, CharAt
<1>5. At(a \o <<"q">>, text, v)
  <2> DEFINE p == a \o <<"q">>
  <2>1. Len(p) = Len(a) + 1
    BY <1>0
  <2>2. ASSUME NEW j \in 1 .. Len(a) + 1 PROVE text[v + j - 1] = p[j]
    <3>1. CASE j = Len(a) + 1
      <4>1. p[j] = "q" /\ v + j - 1 = v + Len(a)
        BY <1>0, <3>1
      <4> QED BY <1>4, <4>1
    <3>2. CASE j # Len(a) + 1
      <4>1. j \in 1 .. Len(a) /\ p[j] = a[j]
        BY <1>0, <3>2
      <4> QED BY <1>3, <4>1
    <3> QED BY <3>1, <3>2
  <2>3. v \in 1 .. Len(text) + 1 /\ v + (Len(a) + 1) <= Len(text) + 1
    BY <1>0, <1>4
  <2> HIDE DEF p, v
  <2> QED BY <2>1, <2>2, <2>3 DEF At, p
<1>6. Named(a, i)
  BY <1>2, <1>5 DEF Named
<1>7. ASSUME NEW j \in i .. v + Len(a) - 1 PROVE text[j] # ">"
  <2>1. j \in Nat /\ i <= j /\ j < v + Len(a) /\ v \in Nat
    BY <1>0
  <2>2. CASE j < i + Len(key)
    <3>1. Len(key) <= Len(key)
      BY <1>0
    <3> QED BY <1>0, <1>2, <2>1, <2>2, <3>1, NoTagEnd
  <2>3. CASE ~(j < i + Len(key))
    <3>1. v <= j /\ Len(a) <= Len(a)
      BY <1>0, <2>1, <2>3
    <3> HIDE DEF v
    <3> QED BY <1>0, <1>3, <2>1, <3>1, NoTagEnd
  <2> QED BY <2>2, <2>3
<1>8. SameTag(i, v + Len(a) - 1)
  BY <1>7 DEF SameTag
<1>9. i <= v + Len(a) - 1
  BY <1>0, <1>1
<1> QED BY <1>4, <1>6, <1>8, <1>9

\* The scan goes on, and where it goes on to a value it has read the value's name.
LEMMA NameStep ==
  ASSUME IInv, Name
  PROVE  IInv' /\ at <= at' /\ (mode' = "value" => \E i \in at .. at' - 1 : Named(attr', i))
<1> DEFINE i == Past({Blank}, at)
           key == IF c(i) = "n" THEN NameKey ELSE PropertyKey
           v == i + Len(key)
           L == {Length(a, v) : a \in Attributes}
           k == Max(L)
           found(a) == Len(a) = k /\ Length(a, v) = k /\ c(v + k) = "q"
<1>1. /\ text \in Seq(Char) /\ at \in 0 .. End /\ at < End /\ End \in Nat /\ ~done /\ done \in BOOLEAN
      /\ End >= 1
  BY EndType DEF IInv, TypeOK, Name, Busy
<1>2. text' = text /\ out' = out /\ done' = FALSE
  BY <1>1 DEF Name
<1>3. \/ mode' = "tag" /\ at' = After(i)
      \/ mode' = "name" /\ at' = Skip({Blank}, i + Length(key, i))
      \/ /\ Length(key, i) = Len(key)
         /\ \/ \E a \in Attributes :
                 found(a) /\ mode' = "value" /\ at' = v + k /\ attr' = a
            \/ mode' = "tag" /\ at' = After(IF c(v + k) = "q" THEN v + k ELSE CloseString(v + k))
  BY DEF Name, GoTo
<1>4. i \in 1 .. End /\ at <= i
  <2>1. i \in at .. End /\ i >= 1
    BY <1>1, PastIs
  <2> HIDE DEF i
  <2> QED BY <1>1, <2>1
<1> HIDE DEF i
<1>5. key \in {NameKey, PropertyKey} /\ key \in Seq(Char)
  BY Keys
<1> HIDE DEF key
<1>6. CASE mode' = "tag" /\ at' = After(i)
  <2>1. at' \in 0 .. End /\ at <= at'
    <3>1. After(i) \in 1 .. End /\ After(i) >= i /\ at' = After(i)
      BY <1>1, <1>4, <1>6, AfterBounds
    <3> QED BY <1>1, <1>4, <3>1
  <2>2. TypeOK' /\ ValuesAreContent' /\ ReturnsWithAll'
    BY <1>2, <1>6, <2>1, OutStays
  <2>3. NameSeen'
    BY <1>6 DEF NameSeen
  <2> QED BY <1>6, <2>1, <2>2, <2>3 DEF IInv
<1>7. CASE mode' = "name" /\ at' = Skip({Blank}, i + Length(key, i))
  <2> DEFINE m == i + Length(key, i)
  <2>1. m \in 1 .. End /\ at <= m
    <3>1. Length(key, i) \in 0 .. Len(key) /\ m <= End /\ Len(key) \in Nat
      BY SMTT(20), <1>1, <1>4, <1>5, LengthIs
    <3> QED BY <1>1, <1>4, <3>1
  <2> HIDE DEF m
  <2>2. \A ends : Skip(ends, m) \in m .. End
    BY <1>1, <2>1, SkipBounds
  <2>3. at' \in 0 .. End /\ at <= at'
    <3>1. at' \in m .. End
      BY <1>7, <2>2 DEF m
    <3> HIDE <1>7
    <3> QED BY <1>1, <2>1, <3>1
  <2>4. TypeOK' /\ ValuesAreContent' /\ ReturnsWithAll'
    BY <1>2, <1>7, <2>3, OutStays
  <2>5. NameSeen'
    BY <1>7 DEF NameSeen
  <2> QED BY <1>7, <2>3, <2>4, <2>5 DEF IInv
<1>8. ASSUME Length(key, i) = Len(key)
      PROVE  v \in 1 .. End /\ k \in Nat /\ v + k \in 1 .. End /\ at <= v + k
  <2>1. v \in 1 .. End /\ at <= v
    <3>1. Len(key) \in Nat /\ i + Len(key) <= End
      BY <1>1, <1>4, <1>5, <1>8, LengthIs
    <3> QED BY <1>1, <1>4, <3>1
  <2> HIDE DEF v
  <2>2. ASSUME NEW a \in Attributes PROVE Length(a, v) \in 0 .. End - v
    <3>1. a \in Seq(Char) /\ Len(a) \in Nat
      BY Keys
    <3>2. Length(a, v) \in 0 .. Len(a) /\ v + Length(a, v) <= End
      BY <1>1, <2>1, <3>1, LengthIs
    <3> QED BY <1>1, <2>1, <3>1, <3>2
  <2>3. L \in SUBSET (0 .. End - v) /\ L # {}
    BY <2>2, Keys
  <2>4. End - v \in Nat
    BY <1>1, <2>1
  <2>5. k \in L
    <3> HIDE DEF L
    <3> QED BY <2>3, <2>4, MaxOfNat
  <2>6. k \in 0 .. End - v
    <3> HIDE DEF L, k
    <3> QED BY <2>3, <2>5
  <2> QED BY <1>1, <2>1, <2>6
<1> HIDE DEF k, L
<1>9. ASSUME Length(key, i) = Len(key), NEW a \in Attributes,
             found(a), mode' = "value", at' = v + k, attr' = a
      PROVE  IInv' /\ at <= at' /\ \E n \in at .. at' - 1 : Named(attr', n)
  <2>1. at' \in 0 .. End /\ v \in 1 .. End /\ v + k \in Nat
    BY <1>1, <1>8, <1>9
  <2>2. TypeOK' /\ ValuesAreContent' /\ ReturnsWithAll'
    BY <1>2, <1>9, <2>1, OutStays
  <2>3. /\ Len(a) = k /\ v = i + Len(key)
        /\ Named(a, i) /\ SameTag(i, v + Len(a) - 1) /\ i <= v + Len(a) - 1
    BY <1>1, <1>4, <1>5, <1>9, <2>1, NamedHere
  <2>4. i \in 1 .. at' - 1 /\ SameTag(i, at' - 1)
    <3>1. i \in Nat /\ i >= 1 /\ at' \in Nat /\ at' = v + Len(a)
      BY <1>1, <1>4, <1>9, <2>1, <2>3
    <3>2. \A m, n \in Nat : m >= 1 /\ m <= n - 1 => m \in 1 .. n - 1
      OBVIOUS
    <3>3. i <= at' - 1 /\ SameTag(i, at' - 1)
      BY <2>3, <3>1
    <3> QED BY <3>1, <3>2, <3>3
  <2>5. NameSeen'
    <3>1. Named(attr', i) /\ SameTag(i, at' - 1) /\ i \in 1 .. at' - 1
      BY <1>9, <2>3, <2>4
    <3> QED BY <1>2, <3>1, NameSeenNext
  <2>6. at <= at' /\ i \in at .. at' - 1
    <3>1. i \in Nat /\ at \in Nat /\ at' \in Nat /\ i <= at' - 1 /\ at <= v + k /\ at' = v + k
      BY <1>1, <1>4, <1>8, <1>9, <2>1, <2>4
    <3> QED BY <1>4, <3>1
  <2>7. Named(attr', i)
    BY <1>9, <2>3
  <2> QED BY <2>2, <2>5, <2>6, <2>7 DEF IInv
<1>10. CASE /\ Length(key, i) = Len(key)
            /\ mode' = "tag" /\ at' = After(IF c(v + k) = "q" THEN v + k ELSE CloseString(v + k))
  <2> DEFINE m == v + k
  <2>1. m \in 1 .. End /\ m \in Nat /\ m <= End /\ at <= m
    BY <1>1, <1>8, <1>10
  <2> HIDE DEF m
  <2>2. CloseString(m) \in m .. End
    BY <1>1, <2>1, CloseStringBounds
  <2>3. CloseString(m) \in 0 .. End /\ m \in 0 .. End
    BY <1>1, <2>1, <2>2
  <2>4. /\ After(m) \in 1 .. End /\ After(CloseString(m)) \in 1 .. End
        /\ After(m) >= m /\ After(CloseString(m)) >= CloseString(m)
    BY <1>1, <2>3, AfterBounds
  <2>5. at' = After(m) \/ at' = After(CloseString(m))
    BY <1>10 DEF m
  <2>6. at' \in 0 .. End /\ at <= at'
    BY <1>1, <2>1, <2>2, <2>4, <2>5
  <2>7. TypeOK' /\ ValuesAreContent' /\ ReturnsWithAll'
    BY <1>2, <1>10, <2>6, OutStays
  <2>8. NameSeen'
    BY <1>10 DEF NameSeen
  <2> QED BY <1>10, <2>6, <2>7, <2>8 DEF IInv
<1> QED BY <1>3, <1>6, <1>7, <1>9, <1>10

\* While write_value_attribute is at work the scan is behind the name, in its tag.
LEMMA ValueState ==
  ASSUME IInv, ValueOf
  PROVE  /\ text \in Seq(Char) /\ at \in 1 .. Len(text) /\ at \in Nat /\ at < End
         /\ End \in Nat /\ End = Len(text) + 1 /\ Len(text) \in Nat
         /\ attr \in Attributes /\ done = FALSE /\ text' = text /\ attr' = attr
         /\ \E i \in 1 .. at - 1 : Named(attr, i) /\ SameTag(i, at - 1)
<1>1. /\ text \in Seq(Char) /\ at \in 0 .. End /\ at < End /\ attr \in Attributes /\ done = FALSE
      /\ text' = text /\ attr' = attr /\ mode = "value"
  BY DEF IInv, TypeOK, ValueOf, Busy
<1>2. End \in Nat /\ End = Len(text) + 1 /\ Len(text) \in Nat
  BY <1>1, EndType
<1>3. \E i \in 1 .. at - 1 : Named(attr, i) /\ SameTag(i, at - 1)
  BY <1>1 DEF IInv, NameSeen
<1>4. at >= 1
  BY <1>1, <1>2, <1>3
<1> QED BY <1>1, <1>2, <1>3, <1>4

\* The tag goes on over blanks and over as much of content=" as there is.
LEMMA TagGoesOn ==
  ASSUME text \in Seq(Char), NEW h \in 1 .. Len(text),
         NEW j \in 1 .. h - 1, SameTag(j, h - 1),
         NEW i \in h .. End, NEW blank, blank # ">", \A n \in h .. i - 1 : text[n] = blank,
         NEW k \in 0 .. Len(ContentKey), \A n \in 1 .. k : text[i + n - 1] = ContentKey[n],
         NEW to \in Nat, to < End, to <= i + k, text[i] # ">" \/ to < i
  PROVE  SameTag(j, to)
<1>0. End \in Nat /\ End = Len(text) + 1 /\ Len(text) \in Nat
  BY EndType
<1>1. /\ End \in Nat /\ End = Len(text) + 1 /\ Len(text) \in Nat /\ h \in Nat /\ h \in 0 .. End
      /\ h >= 1
  BY <1>0
<1>3. i \in 1 .. End /\ i \in Nat
  BY <1>1
<1>5. k \in Nat /\ k <= Len(ContentKey) /\ j \in Nat /\ j < h
  BY <1>1, Keys
<1> SUFFICES ASSUME NEW n \in j .. to, text[n] = ">"
             PROVE  \E m \in 1 .. Len(ContentKey) : EndsBefore(ContentKey, m, text, n)
  BY DEF SameTag
<1>6. n \in Nat /\ n >= j /\ n <= to
  BY <1>5
<1>7. CASE n <= h - 1
  <2>1. n \in j .. h - 1
    BY <1>1, <1>5, <1>6, <1>7
  <2> QED BY <2>1 DEF SameTag
<1>8. CASE n > h - 1 /\ n < i
  <2>1. n \in h .. i - 1
    BY <1>1, <1>3, <1>6, <1>8
  <2> QED BY <2>1
<1>9. CASE n >= i /\ n < i + k
  BY <1>3, <1>5, <1>6, <1>9, NoTagEnd
<1>10. CASE n >= i + k
  <2>1. n = i + k
    BY <1>3, <1>5, <1>6, <1>10
  <2>2. k # 0
    <3> SUFFICES ASSUME k = 0 PROVE FALSE
      OBVIOUS
    <3>1. n = i /\ ~(to < i)
      BY <1>3, <1>6, <2>1
    <3> QED BY <3>1
  <2>3. k \in 1 .. Len(ContentKey) /\ k < n
    BY <1>3, <1>5, <2>1, <2>2, Keys
  <2>4. \A m \in 1 .. k : n - k + m - 1 = i + m - 1
    BY <1>3, <1>5, <2>1
  <2>5. EndsBefore(ContentKey, k, text, n)
    BY <2>3, <2>4 DEF EndsBefore
  <2> QED BY <2>3, <2>5
<1> QED BY <1>1, <1>3, <1>5, <1>6, <1>7, <1>8, <1>9, <1>10

\* What lies before the place Past goes to is one character, and not a '>'.
LEMMA PastBlanks ==
  ASSUME text \in Seq(Char), NEW i \in 1 .. End
  PROVE  /\ Past({Blank}, i) \in i .. End
         /\ \E blank : blank # ">" /\ \A j \in i .. Past({Blank}, i) - 1 : text[j] = blank
<1> DEFINE e == Past({Blank}, i)
<1>1. i \in 0 .. End /\ i >= 1 /\ End \in Nat
  BY EndType
<1>2. e \in i .. End /\ \A j \in i .. e - 1 : j >= 1 => text[j] = Blank
  BY <1>1, PastIs
<1>3. \E blank : blank # ">" /\ \A j \in i .. e - 1 : j >= 1 => text[j] = blank
  BY <1>2, BlankIs
<1> HIDE DEF e
<1>4. PICK blank : blank # ">" /\ \A j \in i .. e - 1 : j >= 1 => text[j] = blank
  BY <1>3
<1>5. \A j \in i .. e - 1 : j >= 1
  BY <1>1
<1>6. blank # ">" /\ \A j \in i .. e - 1 : text[j] = blank
  BY <1>4, <1>5
<1>7. e \in i .. End
  BY <1>2, Zenon
<1> QED BY <1>6, <1>7 DEF e

LEMMA ValueOfStep ==
  ASSUME IInv, ValueOf
  PROVE  IInv'
<1> DEFINE i == Past({Blank}, at)
           k == Length(ContentKey, i)
           e == ValueEnd(i + k)
<1>1. /\ text \in Seq(Char) /\ at \in 1 .. Len(text) /\ at \in Nat /\ at < End /\ at \in 1 .. End
      /\ End \in Nat /\ End = Len(text) + 1 /\ Len(text) \in Nat
      /\ attr \in Attributes /\ done = FALSE /\ text' = text /\ attr' = attr
  BY ValueState
<1>2. PICK n \in 1 .. at - 1 : Named(attr, n) /\ SameTag(n, at - 1)
  BY ValueState
<1>3. \/ c(i) = ">" /\ mode' = "tag" /\ at' = After(i) /\ out' = out /\ done' = done
      \/ /\ c(i) # ">" /\ k < Len(ContentKey)
         /\ mode' = "value" /\ at' = After(i + k) /\ out' = out /\ done' = done
      \/ /\ k = Len(ContentKey)
         /\ out' = out \cup {Value(attr, i + k, e)}
         /\ done' = (Extracted(out') = Attributes)
         /\ mode' = "tag" /\ at' = After(e)
  BY DEF ValueOf, GoTo
<1>4. i \in at .. End /\ \E blank : blank # ">" /\ \A j \in at .. i - 1 : text[j] = blank
  BY <1>1, PastBlanks
<1> HIDE DEF i
<1>5. PICK blank : blank # ">" /\ \A j \in at .. i - 1 : text[j] = blank
  BY <1>4
<1>6. i \in 1 .. End /\ i \in Nat /\ at <= i
  BY <1>1, <1>4
<1>7. /\ k \in 0 .. Len(ContentKey) /\ i + k <= End
      /\ \A j \in 1 .. k : text[i + j - 1] = ContentKey[j]
  BY <1>1, <1>6, Keys, LengthIs
<1> HIDE DEF k
<1>8. k \in Nat /\ i + k \in 1 .. End /\ n \in Nat /\ n >= 1 /\ n < at
  BY <1>1, <1>2, <1>6, <1>7, Keys
<1>9. CASE c(i) = ">" /\ mode' = "tag" /\ at' = After(i) /\ out' = out /\ done' = done
  <2>1. at' \in 0 .. End
    BY <1>1, <1>6, <1>9, AfterBounds
  <2>2. TypeOK' /\ ValuesAreContent' /\ ReturnsWithAll'
    BY <1>1, <1>9, <2>1, OutStays
  <2>3. NameSeen'
    BY <1>9 DEF NameSeen
  <2> QED BY <2>2, <2>3 DEF IInv
<1>10. CASE /\ c(i) # ">" /\ k < Len(ContentKey)
            /\ mode' = "value" /\ at' = After(i + k) /\ out' = out /\ done' = done
  <2> DEFINE m == i + k
  <2>0. m \in 1 .. End /\ m \in 0 .. End /\ m \in Nat /\ m >= at
    BY <1>1, <1>6, <1>8
  <2>1. /\ After(m) \in 1 .. End /\ After(m) >= m /\ After(m) <= m + 1
        /\ at' = After(m)
    <3>1. at' = After(m)
      BY <1>10
    <3> HIDE DEF m
    <3> QED BY <1>1, <2>0, <3>1, AfterBounds
  <2>2. at' \in 0 .. End /\ at' - 1 \in Nat /\ at' - 1 < End /\ at' - 1 <= i + k /\ at' >= at
    BY <1>1, <2>0, <2>1
  <2>3. TypeOK' /\ ValuesAreContent' /\ ReturnsWithAll'
    BY <1>1, <1>10, <2>2, OutStays
  <2>4. text[i] # ">" \/ at' - 1 < i
    <3>1. CASE i \in 1 .. Len(text)
      BY <1>6, <1>10, <1>1, <3>1, CharAt
    <3>2. CASE i \notin 1 .. Len(text)
      <4>1. i = End
        BY <1>1, <1>6, <3>2
      <4> QED BY <2>2, <4>1
    <3> QED BY <3>1, <3>2
  <2>5. SameTag(n, at' - 1)
    <3> DEFINE to == at' - 1
    <3>1. to \in Nat /\ to < End /\ to <= i + k /\ (text[i] # ">" \/ to < i)
      BY <2>2, <2>4
    <3> HIDE DEF to
    <3>2. SameTag(n, to)
      BY <1>1, <1>2, <1>4, <1>5, <1>7, <3>1, TagGoesOn
    <3> QED BY <3>2 DEF to
  <2>6. n \in 1 .. at' - 1
    <3>1. \A x, y, z \in Nat : x >= 1 /\ x < y /\ z >= y => x \in 1 .. z - 1
      OBVIOUS
    <3>2. at' \in Nat
      BY <1>1, <2>2
    <3> QED BY <1>1, <1>8, <2>2, <3>1, <3>2
  <2>7. Named(attr', n)
    BY <1>1, <1>2
  <2>8. NameSeen'
    BY <1>1, <2>5, <2>6, <2>7, NameSeenNext
  <2> QED BY <2>3, <2>8 DEF IInv
<1>11. CASE /\ k = Len(ContentKey)
            /\ out' = out \cup {Value(attr, i + k, e)}
            /\ done' = (Extracted(out') = Attributes)
            /\ mode' = "tag" /\ at' = After(e)
  <2> DEFINE from == i + k
             v == Value(attr, from, e)
  <2>0. from \in 1 .. End /\ from \in Nat /\ from \in from .. End /\ from > Len(ContentKey)
        /\ from - Len(ContentKey) = i /\ i \in 1 .. from - 1 /\ at <= from - 1 /\ n \in 1 .. from - 1
    BY <1>1, <1>6, <1>7, <1>8, <1>11, Keys
  <2>1. ~Escaped(from, from)
    <3>1. from \in Nat /\ from <= from
      BY <2>0
    <3> HIDE DEF from
    <3>2. Backslashes(from, from) = 0
      BY <3>1, BackslashesNext
    <3> QED BY <3>2 DEF Escaped
  <2>2. /\ e \in from .. End
        /\ \A j \in from .. e - 1 : text[j] = "q" => Escaped(from, j)
        /\ e < End => text[e] = "q" /\ ~Escaped(from, e)
    <3>1. e = ValueEnd(from)
      OBVIOUS
    <3> HIDE DEF e, from
    <3> QED BY <1>1, <2>0, <2>1, <3>1, ValueEndIs
  <2>3. At(ContentKey, text, i)
    BY <1>1, <1>6, <1>11, Keys, MatchIsAt DEF k
  <2>4. text[i] # ">"
    <3>1. 1 \in 1 .. Len(ContentKey) /\ i + 1 - 1 = i
      BY <1>6, Keys
    <3>2. text[i] = ContentKey[1]
      BY <1>7, <1>11, <3>1
    <3> QED BY <3>1, <3>2, Keys
  <2>5. SameTag(n, i)
    <3>1. i < End /\ i <= i + k
      BY <1>1, <1>6, <1>8, <1>11, Keys
    <3> QED BY <1>1, <1>2, <1>4, <1>5, <1>6, <1>7, <2>4, <3>1, TagGoesOn
  <2>6. v.attr = attr /\ v.from = from /\ v.to = e
    BY DEF Value
  <2> HIDE DEF v, from, e
  <2>7. IsContent(v)
    BY <1>2, <2>0, <2>2, <2>3, <2>5, <2>6 DEF IsContent
  <2>8. e \in 1 .. End /\ e \in 0 .. End
    BY <1>1, <2>0, <2>2
  <2>9. at' \in 0 .. End /\ at' \in Nat
    <3>1. After(e) \in 1 .. End /\ at' = After(e)
      BY <1>1, <1>11, <2>8, AfterBounds
    <3> QED BY <1>1, <3>1
  <2>10. out' = out \cup {v}
    BY <1>11 DEF v, from
  <2>11. TypeOK'
    <3>1. \A w \in out' : w.attr \in Attributes /\ w.from \in 1 .. End /\ w.to \in w.from .. End
      BY <1>1, <2>0, <2>2, <2>6, <2>10 DEF IInv, TypeOK
    <3>2. done' \in BOOLEAN /\ mode' = "tag"
      BY <1>11
    <3> QED BY <1>1, <2>9, <3>1, <3>2 DEF TypeOK, End
  <2>12. ValuesAreContent'
    <3>1. \A w \in out' : IsContent(w)
      BY <2>7, <2>10 DEF IInv, ValuesAreContent
    <3> QED BY <1>1, <3>1, PageStays DEF ValuesAreContent
  <2>13. ReturnsWithAll'
    <3> SUFFICES ASSUME Extracted(out') = Attributes
                 PROVE  Attributes \subseteq {w.attr : w \in out'}
      BY <1>11 DEF ReturnsWithAll
    <3> QED BY DEF Extracted
  <2>14. NameSeen'
    BY <1>11 DEF NameSeen
  <2> QED BY <2>11, <2>12, <2>13, <2>14 DEF IInv
<1> QED BY <1>3, <1>9, <1>10, <1>11

\* Neither main's return at the end of the file nor a stuttering step moves the scan.
LEMMA ScanStays ==
  ASSUME IInv, text' = text, at' = at, mode' = mode, attr' = attr, out' = out,
         done' \in BOOLEAN, done' = done \/ at = End
  PROVE  IInv'
<1>1. TypeOK'
  BY DEF IInv, TypeOK, End
<1>2. ValuesAreContent'
  BY PageStays DEF IInv, ValuesAreContent
<1>3. NameSeen'
  BY DEF IInv, NameSeen, Named, SameTag
<1>4. ReturnsWithAll'
  <2>1. CASE done' = done
    BY <2>1 DEF IInv, ReturnsWithAll, End
  <2>2. CASE at = End
    <3>1. End \in Nat /\ End' = End
      BY EndType DEF IInv, TypeOK, End
    <3>2. ~(at' < End')
      BY <2>2, <3>1
    <3> QED BY <3>2 DEF ReturnsWithAll
  <2> QED BY <2>1, <2>2
<1> QED BY <1>1, <1>2, <1>3, <1>4 DEF IInv

-----------------------------------------------------------------------------
(***************************************************************************)
(* One value per tag                                                       *)
(***************************************************************************)
LEMMA InitOneInv == Init => OneInv
BY DEF Init, OneInv, OneValuePerTag, TagBegun, ScanBehind

LEMMA TagsStay ==
  ASSUME text' = text
  PROVE  \A i : MetaTag(i)' = MetaTag(i)
BY DEF MetaTag, c

\* A step that copies nothing and does not take the scan back keeps what is said of
\* the values.
LEMMA OneKept ==
  ASSUME IInv, OneInv, text' = text, out' = out, at' \in 0 .. End, at <= at', TagBegun'
  PROVE  OneInv'
<1>1. OneValuePerTag'
  BY PageStays, TagsStay DEF OneInv, OneValuePerTag
<1>2. ScanBehind'
  <2> SUFFICES ASSUME NEW v \in out, at' < End PROVE v.to < at'
    BY PageStays DEF ScanBehind
  <2>1. End \in Nat /\ at \in 0 .. End /\ v.to \in v.from .. End /\ v.from \in 1 .. End
    BY EndType DEF IInv, TypeOK
  <2>2. at < End
    BY <2>1
  <2>3. v.to < at
    BY <2>2 DEF OneInv, ScanBehind
  <2> QED BY <2>1, <2>3
<1> QED BY <1>1, <1>2 DEF OneInv

\* The scan goes on in its tag.
LEMMA TagBegunOn ==
  ASSUME IInv, OneInv, text' = text, out' = out, at' \in 0 .. End, at <= at', mode # "tag",
         mode' = "value" => \/ mode = "value" /\ attr' = attr
                            \/ \E j \in at .. at' - 1 : Named(attr', j)
  PROVE  TagBegun'
<1>1. End \in Nat /\ at \in Nat /\ at' \in Nat
  BY EndType DEF IInv, TypeOK
<1>2. PICK i \in 1 .. at - 1 :
        /\ MetaTag(i) /\ \A v \in out : v.to < i
        /\ mode = "value" => \E j \in i + 1 .. at - 1 : Named(attr, j)
  BY DEF OneInv, TagBegun
<1>0. /\ \A x, y, z \in Nat : x \in 1 .. y - 1 /\ y <= z => x \in 1 .. z - 1
      /\ \A w, x, y, z \in Nat : x \in w + 1 .. y - 1 /\ y <= z => x \in w + 1 .. z - 1
      /\ \A w, x, y, z \in Nat : w \in 1 .. y - 1 /\ x \in y .. z - 1 => x \in w + 1 .. z - 1
  OBVIOUS
<1>3. i \in Nat /\ i \in 1 .. at' - 1
  <2>1. i \in Nat
    BY <1>1
  <2> QED BY <1>0, <1>1, <2>1
<1>4. ASSUME mode' = "value" PROVE \E j \in i + 1 .. at' - 1 : Named(attr', j)
  <2>1. CASE mode = "value" /\ attr' = attr
    <3>1. PICK j \in i + 1 .. at - 1 : Named(attr, j)
      BY <1>2, <2>1
    <3>2. j \in Nat
      BY <1>1, <1>3
    <3>3. j \in i + 1 .. at' - 1
      BY <1>0, <1>1, <1>3, <3>2
    <3> QED BY <2>1, <3>1, <3>3
  <2>2. CASE \E j \in at .. at' - 1 : Named(attr', j)
    <3>1. PICK j \in at .. at' - 1 : Named(attr', j)
      BY <2>2
    <3>2. j \in Nat
      BY <1>1
    <3>3. j \in i + 1 .. at' - 1
      BY <1>0, <1>1, <1>3, <3>2
    <3> QED BY <3>1, <3>3
  <2> QED BY <1>4, <2>1, <2>2
<1>5. \A a, j : Named(a, j)' = Named(a, j)
  BY PageStays
<1>6. MetaTag(i)'
  BY <1>2, TagsStay
<1>7. mode' = "value" => \E j \in i + 1 .. at' - 1 : Named(attr, j)'
  BY <1>4 DEF Named
<1> QED BY <1>2, <1>3, <1>6, <1>7 DEF TagBegun

LEMMA OneInTag ==
  ASSUME IInv, OneInv, Tag
  PROVE  OneInv'
<1> DEFINE i == NextOpenTag(at)
           k == Length(Meta, i)
<1>1. /\ text \in Seq(Char) /\ at \in 0 .. End /\ at < End /\ End \in Nat /\ Meta \in Seq(Char)
      /\ End = Len(text) + 1 /\ DOMAIN text = 1 .. Len(text) /\ Len(text) \in Nat
      /\ text' = text /\ out' = out /\ Len(Meta) \in Nat /\ Len(Meta) >= 1
  <2>1. Meta \in Seq(Char) /\ Meta # <<>>
    BY MetaAssumption
  <2>2. Len(Meta) \in Nat /\ Len(Meta) >= 1
    BY <2>1
  <2> QED BY <2>1, <2>2, EndType DEF IInv, TypeOK, Tag, Busy
<1>2. \/ k = Len(Meta) /\ mode' = "name" /\ at' = i + k
      \/ mode' = "tag" /\ at' = Skip({">"}, i + k)
  BY DEF Tag, GoTo
<1>3. i \in at + 1 .. End
  BY <1>1, NextOpenTagBounds
<1>4. i = End \/ (text[i - 1] = "<" /\ i - 1 \in 1 .. Len(text))
  <2> DEFINE S == {j \in DOMAIN text : j >= at /\ text[j] = "<"}
  <2>1. CASE S = {}
    BY <2>1 DEF NextOpenTag
  <2>2. CASE S # {}
    <3>1. i = Min(S) + 1 /\ S \in SUBSET Nat
      BY <1>1, <2>2 DEF NextOpenTag
    <3>2. Min(S) \in S
      <4> HIDE DEF S, i
      <4> QED BY <2>2, <3>1, MinOfNat
    <3>3. Min(S) \in 1 .. Len(text) /\ text[Min(S)] = "<"
      BY <1>1, <3>2
    <3> HIDE DEF S, i
    <3> QED BY <1>1, <3>1, <3>3
  <2> QED BY <2>1, <2>2
<1> HIDE DEF i
<1>5. i \in 1 .. End
  BY <1>1, <1>3
<1>6. k \in Nat /\ i + k <= End
  BY <1>1, <1>5, LengthIs
<1>7. k = Len(Meta) => At(Meta, text, i)
  BY <1>1, <1>5, MatchIsAt
<1> HIDE DEF k
<1>8. i + k \in 1 .. End
  BY <1>1, <1>5, <1>6
<1>9. Skip({">"}, i + k) \in i + k .. End
  BY <1>1, <1>8, SkipBounds
<1>10. at' \in 0 .. End /\ at <= at'
  BY <1>1, <1>2, <1>3, <1>6, <1>8, <1>9
<1>11. CASE k = Len(Meta) /\ mode' = "name" /\ at' = i + k
  <2>1. i - 1 \in 1 .. Len(text) /\ text[i - 1] = "<" /\ i - 1 \in 1 .. at' - 1 /\ at <= i - 1
    <3>1. i # End
      BY <1>1, <1>6, <1>11
    <3>2. text[i - 1] = "<" /\ i - 1 \in 1 .. Len(text)
      BY <1>4, <3>1
    <3> QED BY <1>1, <1>3, <1>5, <1>11, <3>1, <3>2
  <2>2. c(i - 1) = "<" /\ i - 1 + 1 = i
    BY <1>1, <1>5, <2>1 DEF c
  <2>3. MetaTag(i - 1)
    BY <1>7, <1>11, <2>2 DEF MetaTag
  <2>4. \A v \in out : v.to < i - 1
    <3> SUFFICES ASSUME NEW v \in out PROVE v.to < i - 1
      OBVIOUS
    <3>1. v.to < at
      BY <1>1 DEF OneInv, ScanBehind
    <3>2. v.to \in Nat
      BY <1>1 DEF IInv, TypeOK
    <3> QED BY <1>1, <1>5, <2>1, <3>1, <3>2
  <2>5. PICK p \in 1 .. at' - 1 : MetaTag(p) /\ \A v \in out : v.to < p
    BY <2>1, <2>3, <2>4
  <2>6. TagBegun'
    <3>1. MetaTag(p)'
      BY <1>1, <2>5, TagsStay
    <3> QED BY <1>1, <1>11, <2>5, <3>1 DEF TagBegun
  <2> QED BY <1>1, <1>10, <2>6, OneKept
<1>12. CASE mode' = "tag"
  <2>1. TagBegun'
    BY <1>12 DEF TagBegun
  <2> QED BY <1>1, <1>10, <2>1, OneKept
<1> QED BY <1>2, <1>11, <1>12

LEMMA OneInName ==
  ASSUME IInv, OneInv, Name
  PROVE  OneInv'
<1>1. text' = text /\ out' = out /\ mode = "name"
  BY DEF Name, Busy
<1>2. IInv' /\ at <= at' /\ (mode' = "value" => \E i \in at .. at' - 1 : Named(attr', i))
  BY NameStep
<1>3. at' \in 0 .. End
  BY <1>1, <1>2, PageStays DEF IInv, TypeOK
<1>4. TagBegun'
  BY <1>1, <1>2, <1>3, TagBegunOn
<1> QED BY <1>1, <1>2, <1>3, <1>4, OneKept

\* write_value_attribute goes on or has copied a value from where it was on.
LEMMA ValueOfGoes ==
  ASSUME IInv, ValueOf
  PROVE  \/ mode' \in {"tag", "value"} /\ at' \in at .. End /\ out' = out
         \/ /\ mode' = "tag"
            /\ \E from \in at .. End : \E e \in from .. End :
                 out' = out \cup {Value(attr, from, e)} /\ at' = After(e)
<1> DEFINE i == Past({Blank}, at)
           k == Length(ContentKey, i)
           e == ValueEnd(i + k)
<1>1. text \in Seq(Char) /\ at \in 1 .. End /\ at \in Nat /\ End \in Nat
  BY ValueState
<1>2. \/ mode' = "tag" /\ at' = After(i) /\ out' = out
      \/ mode' = "value" /\ at' = After(i + k) /\ out' = out
      \/ mode' = "tag" /\ at' = After(e) /\ out' = out \cup {Value(attr, i + k, e)}
  BY DEF ValueOf, GoTo
<1>3. i \in at .. End
  BY <1>1, PastBlanks
<1> HIDE DEF i
<1>4. i \in 1 .. End /\ i \in Nat
  BY <1>1, <1>3
<1>5. k \in Nat /\ i + k <= End
  BY <1>1, <1>4, Keys, LengthIs
<1> HIDE DEF k
<1>6. i + k \in 1 .. End /\ i + k \in at .. End
  BY <1>1, <1>3, <1>4, <1>5
<1>7. e \in i + k .. End
  <2> DEFINE from == i + k
  <2>1. from \in 1 .. End /\ from \in from .. End /\ from \in Nat /\ from <= from
    BY <1>1, <1>6
  <2>2. e = ValueEnd(from)
    OBVIOUS
  <2> HIDE DEF from, e
  <2>3. ~Escaped(from, from)
    BY <2>1, BackslashesNext DEF Escaped
  <2>4. e \in from .. End
    BY <1>1, <2>1, <2>2, <2>3, ValueEndIs
  <2> QED BY <2>4 DEF from
<1> HIDE DEF e
<1>8. After(i) \in at .. End /\ After(i + k) \in at .. End
  <2>1. After(i) \in 1 .. End /\ After(i) >= i
    BY <1>1, <1>4, AfterBounds
  <2>2. After(i + k) \in 1 .. End /\ After(i + k) >= i + k
    BY <1>1, <1>6, AfterBounds
  <2> QED BY <1>1, <1>3, <1>6, <2>1, <2>2
<1> QED BY <1>2, <1>6, <1>7, <1>8

LEMMA OneInValue ==
  ASSUME IInv, OneInv, ValueOf
  PROVE  OneInv'
<1>1. /\ text \in Seq(Char) /\ at \in Nat /\ End \in Nat /\ at < End
      /\ text' = text /\ attr' = attr /\ mode = "value"
  BY ValueState DEF ValueOf, Busy
<1>2. CASE mode' \in {"tag", "value"} /\ at' \in at .. End /\ out' = out
  <2>1. at' \in 0 .. End /\ at <= at'
    BY <1>1, <1>2
  <2>2. TagBegun'
    BY <1>1, <1>2, <2>1, TagBegunOn
  <2> QED BY <1>1, <1>2, <2>1, <2>2, OneKept
<1>3. CASE /\ mode' = "tag"
           /\ \E from \in at .. End : \E e \in from .. End :
                out' = out \cup {Value(attr, from, e)} /\ at' = After(e)
  <2>0. PICK from \in at .. End : \E e \in from .. End :
          out' = out \cup {Value(attr, from, e)} /\ at' = After(e)
    BY <1>3
  <2>1. PICK e \in from .. End : out' = out \cup {Value(attr, from, e)} /\ at' = After(e)
    BY <2>0
  <2> DEFINE w == Value(attr, from, e)
  <2>2. w.attr = attr /\ w.from = from /\ w.to = e /\ out' = out \cup {w}
    BY <2>1 DEF Value
  <2> HIDE DEF w
  <2>3. from \in Nat /\ e \in Nat /\ e \in 0 .. End /\ at <= from /\ from <= e
    BY <1>1
  <2>4. PICK i \in 1 .. at - 1 :
          /\ MetaTag(i) /\ \A v \in out : v.to < i
          /\ \E j \in i + 1 .. at - 1 : Named(attr, j)
    BY <1>1 DEF OneInv, TagBegun
  <2>5. PICK j \in i + 1 .. at - 1 : Named(attr, j)
    BY <2>4
  <2>6. i \in 1 .. from - 1 /\ j \in i + 1 .. from - 1 /\ i \in Nat
    BY <1>1, <2>3, <2>4, <2>5
  <2>7. \A v \in out : v.to \in Nat /\ v.to < from /\ v.to < at
    <3> SUFFICES ASSUME NEW v \in out PROVE v.to \in Nat /\ v.to < from /\ v.to < at
      OBVIOUS
    <3>1. v.to \in Nat
      BY <1>1 DEF IInv, TypeOK
    <3>2. v.to < i
      BY <2>4
    <3> QED BY <1>1, <2>3, <2>4, <2>6, <3>1, <3>2
  <2>8. ASSUME NEW x \in out'
        PROVE  \E n \in 1 .. x.from - 1 :
                 /\ MetaTag(n) /\ \E m \in n + 1 .. x.from - 1 : Named(x.attr, m)
                 /\ \A v \in out' \ {x} : v.to < n \/ x.to < v.from
    <3>1. CASE x = w
      <4>1. \A v \in out' \ {x} : v.to < i
        BY <2>2, <2>4, <3>1
      <4> QED BY <2>2, <2>4, <2>5, <2>6, <3>1, <4>1
    <3>2. CASE x \in out
      <4>1. PICK n \in 1 .. x.from - 1 :
              /\ MetaTag(n) /\ \E m \in n + 1 .. x.from - 1 : Named(x.attr, m)
              /\ \A v \in out \ {x} : v.to < n \/ x.to < v.from
        BY <3>2 DEF OneInv, OneValuePerTag
      <4>2. x.to < w.from
        BY <2>2, <2>7, <3>2
      <4>3. \A v \in out' \ {x} : v.to < n \/ x.to < v.from
        BY <2>2, <4>1, <4>2
      <4> QED BY <4>1, <4>3
    <3> QED BY <2>2, <3>1, <3>2
  <2>9. OneValuePerTag'
    BY <1>1, <2>8, PageStays, TagsStay DEF OneValuePerTag
  <2>10. TagBegun'
    BY <1>3 DEF TagBegun
  <2>11. ScanBehind'
    <3> SUFFICES ASSUME NEW v \in out', at' < End PROVE v.to < at'
      BY <1>1, PageStays DEF ScanBehind
    <3>1. After(e) >= e /\ After(e) \in 1 .. End /\ (e < End => After(e) = e + 1)
      BY <1>1, <2>3, AfterBounds
    <3>2. e < End /\ at' = e + 1
      BY <1>1, <2>1, <2>3, <3>1
    <3>3. CASE v = w
      BY <2>2, <2>3, <3>2, <3>3
    <3>4. CASE v \in out
      BY <1>1, <2>3, <2>7, <3>2, <3>4
    <3> QED BY <2>2, <3>3, <3>4
  <2> QED BY <2>9, <2>10, <2>11 DEF OneInv
<1> QED BY <1>2, <1>3, ValueOfGoes

\* Neither a return nor a stuttering step moves the scan.
LEMMA OneStays ==
  ASSUME IInv, OneInv, text' = text, at' = at, mode' = mode, attr' = attr, out' = out
  PROVE  OneInv'
<1>1. at' \in 0 .. End /\ at <= at'
  BY EndType DEF IInv, TypeOK
<1>2. TagBegun'
  <2>1. CASE mode = "tag"
    BY <2>1 DEF TagBegun
  <2>2. CASE mode # "tag"
    BY <1>1, <2>2, TagBegunOn
  <2> QED BY <2>1, <2>2
<1> QED BY <1>1, <1>2, OneKept

-----------------------------------------------------------------------------
(***************************************************************************)
(* Plain meta tags                                                         *)
(***************************************************************************)
LEMMA Strings ==
  /\ Len(Meta) \in Nat /\ Len(Meta) >= 1
  /\ Meta[Len(Meta)] = Blank
  /\ \A j \in 1 .. Len(Meta) : Meta[j] # "<" /\ Meta[j] # ">" /\ Meta[j] # "q"
  /\ \A j \in 1 .. Len(Meta) - 1 : Meta[j] # Blank
  /\ \A p \in Attributes \cup {NameKey, PropertyKey, ContentKey} :
       /\ p \in Seq(Char) /\ Len(p) \in Nat /\ Len(p) >= 1
       /\ \A j \in 1 .. Len(p) : p[j] # "<" /\ p[j] # ">" /\ p[j] # Blank
<1>1. \A p \in Attributes \cup {Meta, NameKey, PropertyKey, ContentKey} : p \in Seq(Char) /\ p # <<>>
  BY MetaAssumption
<1>2. \A p \in Seq(Char) : p # <<>> => Len(p) \in Nat /\ Len(p) >= 1
  OBVIOUS
<1>3. Len(Meta) \in Nat /\ Len(Meta) >= 1
  BY <1>1, <1>2
<1>4. \A j \in 1 .. Len(Meta) : j = Len(Meta) \/ j \in 1 .. Len(Meta) - 1
  BY <1>3
<1>5. \A j \in 1 .. Len(Meta) : Meta[j] # "<" /\ Meta[j] # ">" /\ Meta[j] # "q"
  BY <1>4, MarkupAssumption, BlankIs
<1> QED BY <1>1, <1>2, <1>3, <1>5, MarkupAssumption

\* A string put together of two is where the first is and, behind it, the second.
LEMMA AtConcat ==
  ASSUME text \in Seq(Char), NEW S, NEW p \in Seq(S), NEW r \in Seq(S), NEW i,
         At(p \o r, text, i)
  PROVE  At(p, text, i) /\ At(r, text, i + Len(p))
<1>1. Len(text) \in Nat /\ Len(p) \in Nat /\ Len(r) \in Nat /\ Len(p \o r) = Len(p) + Len(r)
  OBVIOUS
<1>2. i \in 1 .. Len(text) + 1 /\ i + Len(p) + Len(r) <= Len(text) + 1
      /\ \A j \in 1 .. Len(p) + Len(r) : text[i + j - 1] = (p \o r)[j]
  BY <1>1 DEF At
<1>3. ASSUME NEW j \in 1 .. Len(p) PROVE text[i + j - 1] = p[j]
  <2>1. j \in 1 .. Len(p) + Len(r) /\ (p \o r)[j] = p[j]
    BY <1>1
  <2> QED BY <1>2, <2>1
<1>4. ASSUME NEW j \in 1 .. Len(r) PROVE text[i + Len(p) + j - 1] = r[j]
  <2>1. Len(p) + j \in 1 .. Len(p) + Len(r) /\ (p \o r)[Len(p) + j] = r[j]
    BY <1>1
  <2>2. text[i + (Len(p) + j) - 1] = r[j]
    BY <1>2, <2>1
  <2>3. i + (Len(p) + j) - 1 = i + Len(p) + j - 1
    BY <1>1, <1>2
  <2> QED BY <2>2, <2>3
<1>5. i + Len(p) \in 1 .. Len(text) + 1 /\ i + Len(p) <= Len(text) + 1
  BY <1>1, <1>2
<1> QED BY <1>1, <1>2, <1>3, <1>4, <1>5 DEF At

LEMMA ConcatIs ==
  ASSUME NEW S, NEW p \in Seq(S), NEW r \in Seq(S)
  PROVE  p \o r \in Seq(S) /\ Len(p \o r) = Len(p) + Len(r)
OBVIOUS

LEMMA OpeningIs ==
  ASSUME text \in Seq(Char), NEW key \in {NameKey, PropertyKey}, NEW a \in Attributes,
         NEW i \in Nat, At(Opening(key, a), text, i)
  PROVE  LET name == i + 1 + Len(Meta)
             quote == name + Len(key) + Len(a) IN
         /\ i >= 1 /\ i + Len(Opening(key, a)) <= End
         /\ Len(Opening(key, a)) = Len(Meta) + Len(key) + Len(a) + Len(ContentKey) + 3
         /\ text[i] = "<"
         /\ At(Meta, text, i + 1) /\ At(key, text, name) /\ At(a, text, name + Len(key))
         /\ text[quote] = "q" /\ text[quote + 1] = Blank
         /\ At(ContentKey, text, quote + 2)
<1> DEFINE S == Char \cup {"<", "q", Blank}
           o == <<"<">>
           q == <<"q", Blank>>
           p1 == o \o Meta
           p2 == p1 \o key
           p3 == p2 \o a
           p4 == p3 \o q
<1>1. /\ Meta \in Seq(Char) /\ key \in Seq(Char) /\ a \in Seq(Char) /\ ContentKey \in Seq(Char)
      /\ Len(Meta) \in Nat /\ Len(key) \in Nat /\ Len(a) \in Nat /\ Len(ContentKey) \in Nat
      /\ Len(text) \in Nat /\ End = Len(text) + 1
  BY Keys, Strings, EndType
<1>2. \A p \in Seq(Char) : p \in Seq(S)
  OBVIOUS
<1>3. o \in Seq(S) /\ q \in Seq(S) /\ Len(o) = 1 /\ Len(q) = 2
  OBVIOUS
<1>4. o[1] = "<" /\ q[1] = "q" /\ q[2] = Blank
  OBVIOUS
<1> HIDE DEF S, o, q
<1>4a. Meta \in Seq(S) /\ key \in Seq(S) /\ a \in Seq(S)
  BY <1>1, <1>2
<1>5. p1 \in Seq(S) /\ Len(p1) = 1 + Len(Meta)
  BY <1>3, <1>4a, ConcatIs
<1> HIDE DEF p1
<1>6. p2 \in Seq(S) /\ Len(p2) = 1 + Len(Meta) + Len(key)
  <2>1. p2 \in Seq(S) /\ Len(p2) = Len(p1) + Len(key)
    BY <1>5, <1>4a, ConcatIs
  <2> HIDE DEF p2
  <2> QED BY <1>5, <2>1
<1> HIDE DEF p2
<1>7. p3 \in Seq(S) /\ Len(p3) = 1 + Len(Meta) + Len(key) + Len(a)
  <2>1. p3 \in Seq(S) /\ Len(p3) = Len(p2) + Len(a)
    BY <1>6, <1>4a, ConcatIs
  <2> HIDE DEF p3
  <2> QED BY <1>6, <2>1
<1> HIDE DEF p3
<1>8. p4 \in Seq(S) /\ Len(p4) = 1 + Len(Meta) + Len(key) + Len(a) + 2
  <2>1. p4 \in Seq(S) /\ Len(p4) = Len(p3) + Len(q)
    BY <1>3, <1>7, ConcatIs
  <2> HIDE DEF p4
  <2> QED BY <1>1, <1>3, <1>7, <2>1
<1> HIDE DEF p4
<1>9. Opening(key, a) = p4 \o ContentKey
  BY DEF Opening, p4, p3, p2, p1, o, q
<1>10. Len(Opening(key, a)) = Len(Meta) + Len(key) + Len(a) + Len(ContentKey) + 3
  <2>1. ContentKey \in Seq(S)
    BY <1>1, <1>2
  <2>2. Len(Opening(key, a)) = Len(p4) + Len(ContentKey)
    BY <1>8, <1>9, <2>1, ConcatIs
  <2> QED BY <1>1, <1>8, <2>2
<1>11. At(p4, text, i) /\ At(ContentKey, text, i + Len(p4))
  BY <1>1, <1>2, <1>8, <1>9, AtConcat
<1>12. At(p3, text, i) /\ At(q, text, i + Len(p3))
  BY <1>3, <1>7, <1>11, AtConcat DEF p4
<1>13. At(p2, text, i) /\ At(a, text, i + Len(p2))
  BY <1>1, <1>2, <1>6, <1>12, AtConcat DEF p3
<1>14. At(p1, text, i) /\ At(key, text, i + Len(p1))
  BY <1>1, <1>2, <1>5, <1>13, AtConcat DEF p2
<1>15. At(o, text, i) /\ At(Meta, text, i + Len(o))
  BY <1>1, <1>2, <1>3, <1>14, AtConcat DEF p1
<1>16. text[i] = "<" /\ i >= 1
  BY <1>3, <1>4, <1>15 DEF At
<1>17. text[i + Len(p3)] = "q" /\ text[i + Len(p3) + 1] = Blank
  <2>1. text[i + Len(p3) + 1 - 1] = "q" /\ text[i + Len(p3) + 2 - 1] = Blank
    BY <1>3, <1>4, <1>12 DEF At
  <2>2. i + Len(p3) + 1 - 1 = i + Len(p3) /\ i + Len(p3) + 2 - 1 = i + Len(p3) + 1
    BY <1>1, <1>7
  <2> QED BY <2>1, <2>2
<1>18. i + Len(Opening(key, a)) <= End
  BY <1>1 DEF At
<1>19. /\ i + Len(o) = i + 1 /\ i + Len(p1) = i + 1 + Len(Meta)
       /\ i + Len(p2) = i + 1 + Len(Meta) + Len(key)
       /\ i + Len(p3) = i + 1 + Len(Meta) + Len(key) + Len(a)
       /\ i + Len(p4) = i + 1 + Len(Meta) + Len(key) + Len(a) + 2
  BY <1>1, <1>3, <1>5, <1>6, <1>7, <1>8
<1> QED BY <1>10, <1>11, <1>13, <1>14, <1>15, <1>16, <1>17, <1>18, <1>19

\* The parts of a plain meta tag
From(m) == QuoteOf(m) + 2 + Len(ContentKey)

LEMMA PlainIs ==
  ASSUME text \in Seq(Char), NEW n \in PlainMetas
  PROVE  /\ n.key \in {NameKey, PropertyKey} /\ n.attr \in Attributes
         /\ n.at \in Nat /\ n.at >= 1
         /\ KeyOf(n) \in Nat /\ KeyOf(n) = n.at + 1 + Len(Meta)
         /\ QuoteOf(n) \in Nat /\ QuoteOf(n) = KeyOf(n) + Len(n.key) + Len(n.attr)
         /\ From(n) \in Nat /\ From(n) = QuoteOf(n) + 2 + Len(ContentKey)
         /\ To(n) \in Nat /\ From(n) <= To(n) /\ To(n) < Len(text)
         /\ text[n.at] = "<"
         /\ At(Meta, text, n.at + 1)
         /\ \A j \in 1 .. Len(Meta) : text[n.at + j] = Meta[j]
         /\ At(n.key, text, KeyOf(n)) /\ At(n.attr, text, KeyOf(n) + Len(n.key))
         /\ text[QuoteOf(n)] = "q" /\ text[QuoteOf(n) + 1] = Blank
         /\ At(ContentKey, text, QuoteOf(n) + 2)
         /\ \A j \in From(n) .. To(n) - 1 : text[j] # "q" /\ text[j] # "\\"
         /\ text[To(n)] = "q" /\ text[To(n) + 1] = ">"
         /\ ValueAt(n.key, n.attr, n.at) = Value(n.attr, From(n), To(n))
<1> DEFINE T == {End} \cup {j \in DOMAIN text : j >= From(n) /\ text[j] \in {"q", "\\"}}
<1>1. PICK key \in {NameKey, PropertyKey}, a \in Attributes, i \in DOMAIN text :
        PlainMeta(key, a, i) /\ n.key = key /\ n.attr = a /\ n.at = i
  BY DEF PlainMetas
<1>2. /\ End \in Nat /\ End = Len(text) + 1 /\ Len(text) \in Nat /\ DOMAIN text = 1 .. Len(text)
      /\ Len(key) \in Nat /\ Len(a) \in Nat /\ Len(Meta) \in Nat /\ Len(ContentKey) \in Nat
  BY <1>1, EndType, Strings
<1>3. i \in Nat /\ i >= 1 /\ i <= Len(text)
  BY <1>1, <1>2
<1>4. At(Opening(key, a), text, i)
  BY <1>1 DEF PlainMeta
<1>5. /\ KeyOf(n) = i + 1 + Len(Meta) /\ KeyOf(n) \in Nat
      /\ QuoteOf(n) = KeyOf(n) + Len(key) + Len(a) /\ QuoteOf(n) \in Nat
      /\ From(n) = QuoteOf(n) + 2 + Len(ContentKey) /\ From(n) \in Nat
  BY SMTT(20), <1>1, <1>2, <1>3 DEF KeyOf, QuoteOf, From
<1>6. /\ i + Len(Opening(key, a)) <= End
      /\ Len(Opening(key, a)) = Len(Meta) + Len(key) + Len(a) + Len(ContentKey) + 3
      /\ text[i] = "<" /\ At(Meta, text, i + 1)
      /\ At(key, text, KeyOf(n)) /\ At(a, text, KeyOf(n) + Len(key))
      /\ text[QuoteOf(n)] = "q" /\ text[QuoteOf(n) + 1] = Blank
      /\ At(ContentKey, text, QuoteOf(n) + 2)
  <2>1. LET name == i + 1 + Len(Meta)
            quote == name + Len(key) + Len(a) IN
        /\ i >= 1 /\ i + Len(Opening(key, a)) <= End
        /\ Len(Opening(key, a)) = Len(Meta) + Len(key) + Len(a) + Len(ContentKey) + 3
        /\ text[i] = "<"
        /\ At(Meta, text, i + 1) /\ At(key, text, name) /\ At(a, text, name + Len(key))
        /\ text[quote] = "q" /\ text[quote + 1] = Blank
        /\ At(ContentKey, text, quote + 2)
    <3>1. i \in Nat /\ key \in {NameKey, PropertyKey} /\ a \in Attributes
      BY <1>3
    <3>2. At(Opening(key, a), text, i)
      BY <1>4
    <3> HIDE DEF T
    <3> QED BY <3>1, <3>2, OpeningIs
  <2> QED BY <1>5, <2>1
<1>7. i + Len(Opening(key, a)) = From(n) /\ From(n) <= End
  <2>1. \A x, m, k, l, s \in Nat : x + (m + k + l + s + 3) = x + 1 + m + k + l + 2 + s
    OBVIOUS
  <2>2. i + Len(Opening(key, a)) = i + 1 + Len(Meta) + Len(key) + Len(a) + 2 + Len(ContentKey)
    BY <1>2, <1>3, <1>6, <2>1
  <2>3. i + Len(Opening(key, a)) = From(n)
    BY <1>5, <2>2
  <2> QED BY <1>6, <2>3
<1>8. ValueAt(key, a, i) = Value(a, From(n), Min(T))
  BY <1>7 DEF ValueAt
<1>9. To(n) = Min(T)
  BY <1>1, <1>8 DEF To, Value
<1>10. T \in SUBSET Nat /\ End \in T /\ T # {}
  BY <1>2
<1>11. To(n) \in T /\ To(n) \in Nat /\ \A x \in T : To(n) <= x
  <2>1. Min(T) \in T /\ \A x \in T : Min(T) <= x
    <3> HIDE DEF T
    <3> QED BY <1>10, MinOfNat
  <2> HIDE DEF T
  <2> QED BY <1>9, <1>10, <2>1
<1>12. c(To(n)) = "q" /\ c(To(n) + 1) = ">"
  BY <1>1 DEF PlainMeta, To
<1> HIDE DEF T
<1>13. /\ To(n) \in 1 .. Len(text) /\ text[To(n)] = "q"
       /\ To(n) + 1 \in 1 .. Len(text) /\ text[To(n) + 1] = ">"
  BY <1>11, <1>12, CharAt
<1>14. From(n) <= To(n) /\ To(n) < Len(text)
  <2>1. From(n) <= To(n)
    BY <1>7, <1>11 DEF T
  <2> QED BY <1>2, <1>11, <1>13, <2>1
<1>15. ASSUME NEW j \in From(n) .. To(n) - 1 PROVE text[j] # "q" /\ text[j] # "\\"
  <2>1. j \in Nat /\ j >= From(n) /\ j < To(n) /\ j \in 1 .. Len(text)
    <3>1. From(n) \in Nat /\ To(n) \in Nat /\ From(n) >= 1
      <4>1. \A x, y, z \in Nat : x = y + 2 + z => x >= 1
        OBVIOUS
      <4>2. From(n) >= 1
        BY <1>2, <1>5, <4>1
      <4> QED BY <1>5, <1>11, <4>2
    <3>2. \A x, y, l \in Nat : 1 <= x /\ y <= l =>
            \A z \in x .. y - 1 : z \in Nat /\ z >= x /\ z < y /\ z \in 1 .. l
      OBVIOUS
    <3>3. To(n) <= Len(text)
      BY <1>2, <1>14, <3>1
    <3> QED BY <1>2, <3>1, <3>2, <3>3
  <2>2. j \notin T
    BY <1>11, <2>1
  <2> QED BY <1>2, <2>1, <2>2 DEF T
<1>16. ASSUME NEW j \in 1 .. Len(Meta) PROVE text[i + j] = Meta[j]
  <2>1. text[i + 1 + j - 1] = Meta[j] /\ i + 1 + j - 1 = i + j
    BY SMTT(20), <1>3, <1>6 DEF At
  <2> QED BY <2>1
<1> QED BY <1>1, <1>3, <1>5, <1>6, <1>8, <1>9, <1>11, <1>13, <1>14, <1>15, <1>16

\* Only its first character is a '<', it has no '>', and up to its key no quote
\* and one blank.
LEMMA PlainHas ==
  ASSUME text \in Seq(Char), NEW n \in PlainMetas
  PROVE  /\ \A j \in n.at + 1 .. From(n) - 1 : text[j] # "<" /\ text[j] # ">"
         /\ \A j \in n.at .. KeyOf(n) - 1 : text[j] # "q"
         /\ \A j \in n.at .. KeyOf(n) - 2 : text[j] # Blank
         /\ text[KeyOf(n) - 1] = Blank
         /\ \E j \in KeyOf(n) .. KeyOf(n) + Len(n.key) - 1 : text[j] = "q"
<1> DEFINE i == n.at
           key == n.key
           a == n.attr
           name == KeyOf(n)
           quote == QuoteOf(n)
           from == From(n)
<1>1. /\ key \in {NameKey, PropertyKey} /\ a \in Attributes /\ i \in Nat /\ i >= 1
      /\ name \in Nat /\ name = i + 1 + Len(Meta) /\ quote \in Nat /\ quote = name + Len(key) + Len(a)
      /\ from \in Nat /\ from = quote + 2 + Len(ContentKey)
      /\ text[i] = "<" /\ text[quote] = "q" /\ text[quote + 1] = Blank
      /\ At(key, text, name) /\ At(a, text, name + Len(key)) /\ At(ContentKey, text, quote + 2)
  BY PlainIs
<1>2. \A j \in 1 .. Len(Meta) : text[i + j] = Meta[j]
  BY PlainIs
<1> HIDE DEF i, key, a, name, quote, from
<1>3. /\ Len(Meta) \in Nat /\ Len(Meta) >= 1 /\ Meta[Len(Meta)] = Blank
      /\ Len(key) \in Nat /\ Len(key) >= 1 /\ Len(a) \in Nat /\ Len(ContentKey) \in Nat
      /\ ContentKey \in Attributes \cup {NameKey, PropertyKey, ContentKey}
      /\ key \in Attributes \cup {NameKey, PropertyKey, ContentKey}
      /\ a \in Attributes \cup {NameKey, PropertyKey, ContentKey}
  BY <1>1, Strings
<1>4. ASSUME NEW j \in i + 1 .. name - 1
      PROVE  j - i \in 1 .. Len(Meta) /\ text[j] = Meta[j - i]
  <2>1. j - i \in 1 .. Len(Meta) /\ i + (j - i) = j
    BY <1>1, <1>3
  <2> QED BY <1>2, <2>1
<1>5. ASSUME NEW p \in Attributes \cup {NameKey, PropertyKey, ContentKey}, NEW x \in Nat,
             At(p, text, x), NEW j \in x .. x + Len(p) - 1
      PROVE  text[j] # "<" /\ text[j] # ">"
  <2>1. Len(p) \in Nat
    BY Strings
  <2>2. j - x + 1 \in 1 .. Len(p) /\ x + (j - x + 1) - 1 = j
    BY <2>1
  <2>3. text[j] = p[j - x + 1]
    BY <1>5, <2>2 DEF At
  <2> QED BY <2>2, <2>3, Strings
<1>6. ASSUME NEW j \in i + 1 .. from - 1 PROVE text[j] # "<" /\ text[j] # ">"
  <2>1. CASE j \in i + 1 .. name - 1
    BY <1>4, <2>1, Strings
  <2>2. CASE j \in name .. name + Len(key) - 1
    BY <1>1, <1>3, <1>5, <2>2
  <2>3. CASE j \in name + Len(key) .. name + Len(key) + Len(a) - 1
    <3>1. name + Len(key) \in Nat
      BY <1>1, <1>3
    <3> QED BY <1>1, <1>3, <1>5, <2>3, <3>1
  <2>4. CASE j = quote \/ j = quote + 1
    BY <1>1, <2>4, BlankIs
  <2>5. CASE j \in quote + 2 .. quote + 2 + Len(ContentKey) - 1
    <3>1. quote + 2 \in Nat
      BY <1>1
    <3> QED BY <1>1, <1>3, <1>5, <2>5, <3>1
  <2>6. \/ j \in i + 1 .. name - 1
        \/ j \in name .. name + Len(key) - 1
        \/ j \in name + Len(key) .. name + Len(key) + Len(a) - 1
        \/ j = quote \/ j = quote + 1
        \/ j \in quote + 2 .. quote + 2 + Len(ContentKey) - 1
    <3> DEFINE second == name + Len(key)
    <3>1. second \in Nat /\ j \in Int /\ i + 1 <= j /\ j <= from - 1
      BY <1>1, <1>3
    <3>2. quote = second + Len(a) /\ from = quote + 2 + Len(ContentKey)
      BY <1>1
    <3> HIDE DEF second
    <3>3. \/ j \in i + 1 .. name - 1 \/ j \in name .. second - 1 \/ j \in second .. quote - 1
          \/ j = quote \/ j = quote + 1 \/ j \in quote + 2 .. from - 1
      <4>1. i \in Nat /\ name \in Nat /\ quote \in Nat /\ from \in Nat
        BY <1>1
      <4>2. i + 1 <= j /\ j < name => j \in i + 1 .. name - 1
        BY <3>1, <4>1
      <4>3. name <= j /\ j < second => j \in name .. second - 1
        BY <3>1, <4>1
      <4>4. second <= j /\ j < quote => j \in second .. quote - 1
        BY <3>1, <4>1
      <4>5. quote <= j => j = quote \/ j = quote + 1 \/ j \in quote + 2 .. from - 1
        BY <3>1, <4>1
      <4>6. j < name \/ (name <= j /\ j < second) \/ (second <= j /\ j < quote) \/ quote <= j
        BY <3>1, <4>1
      <4> QED BY <3>1, <4>2, <4>3, <4>4, <4>5, <4>6
    <3>4. quote - 1 = second + Len(a) - 1 /\ from - 1 = quote + 2 + Len(ContentKey) - 1
      BY <1>1, <1>3, <3>1, <3>2
    <3>5. second - 1 = name + Len(key) - 1
      BY <1>1, <1>3 DEF second
    <3>6. \/ j \in i + 1 .. name - 1 \/ j \in name .. name + Len(key) - 1
          \/ j \in second .. second + Len(a) - 1
          \/ j = quote \/ j = quote + 1 \/ j \in quote + 2 .. quote + 2 + Len(ContentKey) - 1
      BY <3>3, <3>4, <3>5
    <3> QED BY <3>6 DEF second
  <2> QED BY <2>1, <2>2, <2>3, <2>4, <2>5, <2>6
<1>7. ASSUME NEW j \in i .. name - 1 PROVE text[j] # "q"
  <2>1. j = i \/ j \in i + 1 .. name - 1
    BY <1>1
  <2> QED BY <1>1, <1>4, <2>1, Strings
<1>8. ASSUME NEW j \in i .. name - 2 PROVE text[j] # Blank
  <2>1. j = i \/ (j \in i + 1 .. name - 1 /\ j - i \in 1 .. Len(Meta) - 1)
    BY <1>1, <1>3
  <2> QED BY <1>1, <1>4, <2>1, Strings, BlankIs
<1>9. text[name - 1] = Blank
  <2>1. Len(Meta) \in 1 .. Len(Meta) /\ i + Len(Meta) = name - 1
    BY <1>1, <1>3
  <2> QED BY <1>2, <1>3, <2>1
<1>10. \E j \in name .. name + Len(key) - 1 : text[j] = "q"
  <2>1. Len(key) \in 1 .. Len(key) /\ name + Len(key) - 1 \in name .. name + Len(key) - 1
    BY <1>1, <1>3
  <2>2. text[name + Len(key) - 1] = key[Len(key)]
    BY <1>1, <2>1 DEF At
  <2>3. key[Len(key)] = "q"
    BY <1>1, MarkupAssumption
  <2> QED BY <2>1, <2>2, <2>3
<1> QED BY <1>6, <1>7, <1>8, <1>9, <1>10 DEF i, key, name, from

\* A string that is there is read to its end.
LEMMA LengthFull ==
  ASSUME text \in Seq(Char), NEW p \in Seq(Char), NEW i \in Nat, At(p, text, i)
  PROVE  Length(p, i) = Len(p)
<1> DEFINE S == {k \in 0 .. Len(p) : i + k <= End /\ \A j \in 1 .. k : text[i + j - 1] = p[j]}
<1>1. Len(p) \in Nat /\ End = Len(text) + 1
  BY EndType
<1>2. Len(p) \in S
  BY <1>1 DEF At
<1>3. S \in SUBSET (0 .. Len(p)) /\ S # {}
  BY <1>2
<1>4. Max(S) \in S /\ \A x \in S : x <= Max(S)
  <2> HIDE DEF S
  <2> QED BY <1>1, <1>3, MaxOfNat
<1>5. Max(S) \in 0 .. Len(p) /\ Len(p) <= Max(S)
  <2> HIDE DEF S
  <2> QED BY <1>2, <1>3, <1>4
<1>6. Max(S) = Len(p)
  <2> HIDE DEF S
  <2> QED BY <1>1, <1>5
<1> QED BY <1>6 DEF Length

\* Where a character differs, no more is read than what is before it.
LEMMA LengthShort ==
  ASSUME text \in Seq(Char), NEW p \in Seq(Char), NEW i \in 1 .. End,
         NEW k \in 0 .. Len(p) - 1, text[i + k] # p[k + 1]
  PROVE  Length(p, i) <= k
<1>1. Len(p) \in Nat /\ End \in Nat
  BY EndType
<1>2. /\ Length(p, i) \in 0 .. Len(p)
      /\ \A j \in 1 .. Length(p, i) : text[i + j - 1] = p[j]
  BY LengthIs
<1> SUFFICES ASSUME k + 1 <= Length(p, i) PROVE FALSE
  BY <1>1, <1>2
<1>3. k + 1 \in 1 .. Length(p, i) /\ i + (k + 1) - 1 = i + k
  BY <1>1, <1>2
<1> QED BY <1>2, <1>3

\* One place has one plain meta tag.
LEMMA PlainUnique ==
  ASSUME text \in Seq(Char), NEW m \in PlainMetas, NEW n \in PlainMetas, m.at = n.at
  PROVE  m = n
<1>1. /\ m.key \in {NameKey, PropertyKey} /\ m.attr \in Attributes
      /\ KeyOf(m) \in Nat /\ QuoteOf(m) = KeyOf(m) + Len(m.key) + Len(m.attr)
      /\ text[QuoteOf(m)] = "q"
      /\ At(m.key, text, KeyOf(m)) /\ At(m.attr, text, KeyOf(m) + Len(m.key))
      /\ KeyOf(m) = m.at + 1 + Len(Meta)
  BY PlainIs
<1>2. /\ n.key \in {NameKey, PropertyKey} /\ n.attr \in Attributes
      /\ KeyOf(n) \in Nat /\ QuoteOf(n) = KeyOf(n) + Len(n.key) + Len(n.attr)
      /\ text[QuoteOf(n)] = "q"
      /\ At(n.key, text, KeyOf(n)) /\ At(n.attr, text, KeyOf(n) + Len(n.key))
      /\ KeyOf(n) = n.at + 1 + Len(Meta)
  BY PlainIs
<1>3. KeyOf(m) = KeyOf(n)
  BY <1>1, <1>2
<1>4. \A p \in {NameKey, PropertyKey} : At(p, text, KeyOf(m)) => text[KeyOf(m)] = p[1]
  <2> SUFFICES ASSUME NEW p \in {NameKey, PropertyKey}, At(p, text, KeyOf(m))
               PROVE  text[KeyOf(m)] = p[1]
    OBVIOUS
  <2>1. Len(p) \in Nat /\ Len(p) >= 1
    BY Strings
  <2>2. 1 \in 1 .. Len(p) /\ KeyOf(m) + 1 - 1 = KeyOf(m)
    BY <1>1, <2>1
  <2> QED BY <2>2 DEF At
<1>5. m.key = n.key
  BY <1>1, <1>2, <1>3, <1>4, MarkupAssumption
<1>6. ASSUME NEW a \in Attributes, NEW b \in Attributes, NEW i \in Nat,
             At(a, text, i), At(b, text, i), text[i + Len(a)] = "q"
      PROVE  Len(b) <= Len(a)
  <2>1. Len(a) \in Nat /\ Len(b) \in Nat
    BY Strings
  <2> SUFFICES ASSUME Len(a) + 1 <= Len(b) PROVE FALSE
    BY <2>1
  <2>2. Len(a) + 1 \in 1 .. Len(b) /\ i + (Len(a) + 1) - 1 = i + Len(a)
    BY <2>1
  <2>3. text[i + Len(a)] = b[Len(a) + 1]
    BY <1>6, <2>2 DEF At
  <2> QED BY <1>6, <2>2, <2>3, MarkupAssumption
<1> DEFINE i == KeyOf(m) + Len(m.key)
<1>7. /\ i \in Nat /\ i = KeyOf(n) + Len(n.key)
      /\ text[i + Len(m.attr)] = "q" /\ text[i + Len(n.attr)] = "q"
      /\ At(m.attr, text, i) /\ At(n.attr, text, i)
  <2>1. Len(m.key) \in Nat
    BY <1>1, Strings
  <2> QED BY <1>1, <1>2, <1>3, <1>5, <2>1
<1> HIDE DEF i
<1>8. Len(m.attr) \in Nat /\ Len(n.attr) \in Nat /\ m.attr \in Seq(Char) /\ n.attr \in Seq(Char)
  BY <1>1, <1>2, Strings
<1>9. Len(m.attr) = Len(n.attr)
  <2>1. Len(m.attr) <= Len(n.attr) /\ Len(n.attr) <= Len(m.attr)
    BY <1>1, <1>2, <1>6, <1>7
  <2> QED BY <1>8, <2>1
<1>10. \A j \in 1 .. Len(m.attr) : m.attr[j] = n.attr[j]
  BY <1>7, <1>9 DEF At
<1>11. m.attr = n.attr
  <2>1. \A a, b \in Seq(Char) : Len(a) = Len(b) /\ (\A j \in 1 .. Len(a) : a[j] = b[j]) => a = b
    OBVIOUS
  <2> QED BY <1>8, <1>9, <1>10, <2>1
<1>12. /\ m \in [key : {NameKey, PropertyKey}, attr : Attributes, at : DOMAIN text]
       /\ n \in [key : {NameKey, PropertyKey}, attr : Attributes, at : DOMAIN text]
  BY DEF PlainMetas
<1> QED BY <1>5, <1>11, <1>12

LEMMA PlainOrder ==
  ASSUME text \in Seq(Char), NEW n \in PlainMetas
  PROVE  /\ Len(n.key) \in Nat
         /\ n.at + 1 <= KeyOf(n) /\ KeyOf(n) + Len(n.key) <= From(n) - 1
         /\ KeyOf(n) < QuoteOf(n) /\ QuoteOf(n) + 2 < From(n)
<1>1. PICK x \in Nat, k \in Nat, u \in Nat, f \in Nat, l \in Nat, d \in Nat, a \in Nat, s \in Nat :
        /\ x = n.at /\ k = KeyOf(n) /\ u = QuoteOf(n) /\ f = From(n)
        /\ l = Len(Meta) /\ d = Len(n.key) /\ a = Len(n.attr) /\ s = Len(ContentKey)
  BY PlainIs, Strings
<1>2. k = x + 1 + l /\ u = k + d + a /\ f = u + 2 + s
  BY <1>1, PlainIs
<1>3. a >= 1 /\ d >= 1 /\ s >= 1
  BY <1>1, PlainIs, Strings
<1>4. x + 1 <= k /\ k + d <= f - 1 /\ k < u /\ u + 2 < f
  BY <1>2, <1>3
<1> QED BY <1>1, <1>4

\* A plain meta tag is over before the next begins.
LEMMA PlainBefore ==
  ASSUME text \in Seq(Char), NEW m \in PlainMetas, NEW n \in PlainMetas, m.at < n.at
  PROVE  To(m) + 1 < n.at
<1>1. /\ m.at \in Nat /\ From(m) \in Nat /\ To(m) \in Nat /\ From(m) <= To(m)
      /\ text[To(m)] = "q" /\ text[To(m) + 1] = ">"
      /\ \A j \in From(m) .. To(m) - 1 : text[j] # "q" /\ text[j] # "\\"
  BY PlainIs
<1>2. /\ n.at \in Nat /\ KeyOf(n) \in Nat /\ KeyOf(n) = n.at + 1 + Len(Meta) /\ text[n.at] = "<"
      /\ From(n) \in Nat /\ From(n) = QuoteOf(n) + 2 + Len(ContentKey)
      /\ QuoteOf(n) = KeyOf(n) + Len(n.key) + Len(n.attr)
      /\ n.key \in {NameKey, PropertyKey} /\ n.attr \in Attributes
  BY PlainIs
<1>3. \A j \in m.at + 1 .. From(m) - 1 : text[j] # "<"
  BY PlainHas
<1>4. /\ \A j \in n.at + 1 .. From(n) - 1 : text[j] # "<" /\ text[j] # ">"
      /\ \A j \in n.at .. KeyOf(n) - 1 : text[j] # "q"
      /\ \E j \in KeyOf(n) .. KeyOf(n) + Len(n.key) - 1 : text[j] = "q"
  BY PlainHas
<1>5. From(m) <= n.at
  <2> SUFFICES ASSUME n.at < From(m) PROVE FALSE
    BY <1>1, <1>2
  <2>0. \A x, y, z \in Nat : x < y /\ y < z => y \in x + 1 .. z - 1
    OBVIOUS
  <2>1. n.at \in m.at + 1 .. From(m) - 1
    BY <1>1, <1>2, <2>0
  <2> QED BY <1>2, <1>3, <2>1
<1> DEFINE T == To(m)
           i == n.at
           key == KeyOf(n)
           from == From(n)
<1>6. T \in Nat /\ i \in Nat /\ key \in Nat /\ from \in Nat
  BY <1>1, <1>2
<1>7. PICK q \in key .. key + Len(n.key) - 1 : text[q] = "q"
  BY <1>4
<1>8. q \in Nat /\ q + 1 <= from - 1 /\ i + 1 <= key /\ q >= key
  <2>1. Len(n.key) \in Nat /\ i + 1 <= key /\ key + Len(n.key) <= from - 1
    BY PlainOrder
  <2> HIDE DEF key, from, i
  <2> QED BY <1>6, <2>1
<1>9. ASSUME i <= T + 1 PROVE FALSE
  <2>1. i # T /\ i # T + 1
    <3>1. text[i] = "<" /\ text[T] = "q" /\ text[T + 1] = ">"
      BY <1>1, <1>2
    <3> HIDE DEF i, T
    <3> QED BY <3>1
  <2>2. i < T
    BY <1>6, <1>9, <2>1
  <2>3. T <= q
    <3> SUFFICES ASSUME q < T PROVE FALSE
      BY <1>6, <1>8
    <3>1. From(m) <= q
      BY <1>1, <1>2, <1>5, <1>6, <1>8
    <3>2. q \in From(m) .. T - 1
      BY <1>1, <1>6, <1>8, <3>1
    <3> QED BY <1>1, <1>7, <3>2
  <2>4. T + 1 \in i + 1 .. from - 1
    BY <1>6, <1>8, <2>2, <2>3
  <2> QED BY <1>1, <1>4, <2>4
<1> QED BY <1>6, <1>9

\* A place that is outside of plain meta tags stays so up to where the next begins.
LEMMA OutsideGoes ==
  ASSUME text \in Seq(Char), NEW a \in Nat, NEW b \in Nat, a <= b, Outside(a),
         \A n \in PlainMetas : n.at \notin a .. b - 1
  PROVE  Outside(b)
<1> SUFFICES ASSUME NEW n \in PlainMetas, b \in n.at + 1 .. To(n) PROVE FALSE
  BY DEF Outside
<1>1. n.at \in Nat /\ To(n) \in Nat
  BY PlainIs
<1>2. n.at < b /\ b <= To(n)
  BY <1>1
<1>3. n.at < a
  <2> SUFFICES ASSUME a <= n.at PROVE FALSE
    BY <1>1
  <2>1. n.at \in a .. b - 1
    BY <1>1, <1>2
  <2> QED BY <2>1
<1>4. a \in n.at + 1 .. To(n)
  BY <1>1, <1>2, <1>3
<1> QED BY <1>4 DEF Outside

\* In a calm part of the page there is no quote outside of plain meta tags.
LEMMA NoQuote ==
  ASSUME text \in Seq(Char), NEW m \in PlainMetas, Calm(m.at, PlainMetas),
         NEW a \in Nat, Outside(a), NEW x \in Nat, a <= x, 1 <= x, x < m.at,
         \A n \in PlainMetas : n.at \notin a .. x
  PROVE  text[x] # "q"
<1> SUFFICES ASSUME text[x] = "q" PROVE FALSE
  OBVIOUS
<1>1. m.at \in Nat
  BY PlainIs
<1>2. x \in 1 .. m.at - 1
  BY <1>1
<1>3. PICK n \in PlainMetas : x \in n.at .. To(n)
  BY <1>2 DEF Calm
<1>4. n.at \in Nat /\ To(n) \in Nat
  BY PlainIs
<1>5. n.at < a
  <2> SUFFICES ASSUME a <= n.at PROVE FALSE
    BY <1>4
  <2>1. n.at \in a .. x
    BY <1>3, <1>4
  <2> QED BY <2>1
<1>6. a \in n.at + 1 .. To(n)
  BY <1>3, <1>4, <1>5
<1> QED BY <1>6 DEF Outside

\* Where there are no strings to skip, Skip goes to the first of the characters
\* it looks for.
LEMMA SkipIs ==
  ASSUME text \in Seq(Char), NEW ends, NEW a \in 1 .. Len(text), NEW b \in a .. Len(text),
         text[b] \in ends, \A x \in a .. b : text[x] # "q"
  PROVE  /\ Skip(ends, a) \in a .. b /\ text[Skip(ends, a)] \in ends
         /\ \A x \in a .. Skip(ends, a) - 1 : text[x] \notin ends
<1> DEFINE Q(e, k) == /\ e \in k .. b /\ text[e] \in ends
                      /\ \A x \in k .. e - 1 : text[x] \notin ends
           G == {k \in 1 .. b : a <= k => Q(Skip(ends, k), k)}
<1>0. /\ Len(text) \in Nat /\ End = Len(text) + 1 /\ End \in Nat /\ a \in Nat /\ b \in Nat
      /\ 1 <= a /\ a <= b /\ b <= Len(text)
  BY EndType
<1>1. ASSUME NEW k \in 1 .. b, \A j \in k + 1 .. b : j \in G
      PROVE  k \in G
  <2> SUFFICES ASSUME a <= k PROVE Q(Skip(ends, k), k)
    OBVIOUS
  <2>0. k \in Nat /\ 1 <= k /\ k <= b /\ k \in 1 .. End /\ k # End /\ c(k) = text[k] /\ text[k] # "q"
    <3>1. k \in Nat /\ 1 <= k /\ k <= b /\ k \in 1 .. End /\ k # End /\ k \in 1 .. Len(text) /\ k \in a .. b
      BY <1>0
    <3> QED BY <3>1, CharAt
  <2>1. CASE text[k] \in ends
    <3>1. Skip(ends, k) = k
      BY <2>0, <2>1, SkipRule
    <3> QED BY <2>0, <2>1, <3>1
  <2>2. CASE text[k] \notin ends
    <3>1. Skip(ends, k) = Skip(ends, k + 1)
      BY <2>0, <2>2, SkipRule
    <3>2. k + 1 \in k + 1 .. b /\ a <= k + 1
      <4>1. k # b
        BY <2>2
      <4> QED BY <1>0, <2>0, <4>1
    <3>3. Q(Skip(ends, k + 1), k + 1)
      BY <1>1, <3>2
    <3> DEFINE e == Skip(ends, k + 1)
    <3> HIDE DEF e
    <3>4. e \in k .. b /\ \A x \in k .. e - 1 : x = k \/ x \in k + 1 .. e - 1
      BY <2>0, <1>0, <3>3 DEF e
    <3> QED BY <2>2, <3>1, <3>3, <3>4 DEF e
  <2> QED BY <2>1, <2>2
<1>2. \A k \in 1 .. b : k \in G
  <2> HIDE DEF G
  <2> QED BY <1>0, <1>1, Descent
<1>3. a \in 1 .. b
  BY <1>0
<1> QED BY <1>0, <1>2, <1>3

\* Past goes to the first character that is not a blank.
LEMMA PastTo ==
  ASSUME text \in Seq(Char), NEW i \in Nat, NEW b \in 1 .. Len(text), i <= b,
         \A x \in i .. b - 1 : x >= 1 => text[x] = Blank, text[b] # Blank
  PROVE  Past({Blank}, i) = b
<1> DEFINE e == Past({Blank}, i)
           S == {End} \cup {j \in DOMAIN text : j >= i /\ text[j] \notin {Blank}}
<1>1. /\ End \in Nat /\ End = Len(text) + 1 /\ Len(text) \in Nat /\ DOMAIN text = 1 .. Len(text)
      /\ b \in Nat /\ b >= 1 /\ b < End /\ i \in 0 .. End
  BY EndType
<1>2. e \in i .. End /\ e >= 1 /\ \A j \in i .. e - 1 : j >= 1 => text[j] = Blank
  BY <1>1, PastIs
<1>3. e = Min(S)
  BY DEF Past
<1>4. b \in S /\ S \in SUBSET Nat /\ End \in S
  BY <1>1
<1>5. Min(S) \in S /\ Min(S) <= b
  <2> HIDE DEF S
  <2> QED BY <1>4, MinOfNat
<1>6. e < End /\ e \in S
  <2> HIDE DEF S, e
  <2> QED BY <1>1, <1>2, <1>3, <1>5
<1>7. text[e] # Blank
  <2> HIDE DEF e
  <2> QED BY <1>1, <1>2, <1>6
<1> HIDE DEF S, e
<1>8. CASE e < b
  <2>1. e \in i .. b - 1
    BY <1>1, <1>2, <1>8
  <2> QED BY <1>2, <1>7, <2>1
<1>9. CASE b <= e
  <2>1. e = b
    BY <1>1, <1>2, <1>3, <1>5, <1>9
  <2> QED BY <2>1 DEF e
<1> QED BY <1>1, <1>2, <1>8, <1>9

\* next_open_tag goes to the first '<'.
LEMMA NextOpenTagIs ==
  ASSUME text \in Seq(Char), NEW i \in Nat, NEW b \in 1 .. Len(text), i <= b, text[b] = "<"
  PROVE  \E j \in 1 .. Len(text) :
           /\ i <= j /\ j <= b /\ text[j] = "<" /\ NextOpenTag(i) = j + 1
           /\ \A x \in i .. j - 1 : x >= 1 => text[x] # "<"
<1> DEFINE S == {j \in DOMAIN text : j >= i /\ text[j] = "<"}
<1>1. Len(text) \in Nat /\ DOMAIN text = 1 .. Len(text)
  BY EndType
<1>2. b \in S /\ S \in SUBSET Nat
  BY <1>1
<1>3. Min(S) \in S /\ \A x \in S : Min(S) <= x
  <2> HIDE DEF S
  <2> QED BY <1>2, MinOfNat
<1>4. NextOpenTag(i) = Min(S) + 1
  BY <1>2 DEF NextOpenTag
<1> DEFINE j == Min(S)
<1>5. j \in 1 .. Len(text) /\ i <= j /\ text[j] = "<" /\ j <= b
  <2>1. j \in S /\ j <= b
    <3> HIDE DEF S
    <3> QED BY <1>2, <1>3
  <2> HIDE DEF j
  <2> QED BY <1>1, <2>1
<1>6. ASSUME NEW x \in i .. j - 1, x >= 1, text[x] = "<" PROVE FALSE
  <2>1. j \in Nat /\ j <= Len(text)
    <3> HIDE DEF j
    <3> QED BY <1>1, <1>5
  <2>2. x \in 1 .. Len(text) /\ x >= i /\ x < j
    <3> HIDE DEF j
    <3> QED BY <1>1, <1>6, <2>1
  <2>3. x \in S
    BY <1>1, <1>6, <2>2
  <2>4. j <= x
    <3> HIDE DEF S
    <3> QED BY <1>3, <2>3
  <2> HIDE DEF j
  <2> QED BY <2>1, <2>2, <2>4
<1> HIDE DEF j, S
<1> QED BY <1>4, <1>5, <1>6 DEF j

\* From a place of a calm part of the page that is outside of plain meta tags there
\* are no quotes up to the key of the next.
LEMMA NextMeta ==
  ASSUME text \in Seq(Char), NEW m \in PlainMetas, Calm(m.at, PlainMetas),
         NEW b \in Nat, 1 <= b, b <= m.at, Outside(b)
  PROVE  \E n \in PlainMetas :
           /\ b <= n.at /\ n.at <= m.at
           /\ \A o \in PlainMetas : o.at \notin b .. n.at - 1
           /\ \A x \in b .. KeyOf(n) - 1 : text[x] # "q"
<1> DEFINE S == {n.at : n \in {o \in PlainMetas : b <= o.at /\ o.at <= m.at}}
<1>1. \A n \in PlainMetas : n.at \in Nat /\ KeyOf(n) \in Nat /\ n.at < KeyOf(n)
  <2> SUFFICES ASSUME NEW n \in PlainMetas
               PROVE  n.at \in Nat /\ KeyOf(n) \in Nat /\ n.at < KeyOf(n)
    OBVIOUS
  <2>1. n.at \in Nat /\ KeyOf(n) \in Nat
    BY PlainIs
  <2>2. n.at + 1 <= KeyOf(n)
    BY PlainOrder
  <2> QED BY <2>1, <2>2
<1>2. S \in SUBSET Nat /\ m.at \in S
  BY <1>1
<1>3. Min(S) \in S /\ \A x \in S : Min(S) <= x
  <2> HIDE DEF S
  <2> QED BY <1>2, MinOfNat
<1>4. PICK n \in PlainMetas : b <= n.at /\ n.at <= m.at /\ n.at = Min(S)
  BY <1>3
<1>5. PICK i \in Nat : i = n.at
  BY <1>1
<1>6. ASSUME NEW o \in PlainMetas, o.at \in b .. i - 1 PROVE FALSE
  <2>1. o.at \in Nat /\ m.at \in Nat
    BY <1>1
  <2>2. b <= o.at /\ o.at < i /\ o.at <= m.at
    BY <1>4, <1>5, <1>6, <2>1
  <2>3. o.at \in S
    BY <2>2
  <2>4. i <= o.at
    <3> HIDE DEF S
    <3> QED BY <1>3, <1>4, <1>5, <2>3
  <2> QED BY <2>1, <2>2, <2>4
<1> HIDE DEF S
<1>7. ASSUME NEW x \in b .. KeyOf(n) - 1 PROVE text[x] # "q"
  <2>1. PICK k \in Nat : k = KeyOf(n)
    BY <1>1
  <2>2. x \in Nat /\ b <= x /\ x < k
    BY <2>1
  <2>3. CASE x < i
    <3>1. m.at \in Nat /\ x < m.at
      BY <1>1, <1>4, <1>5, <2>2, <2>3
    <3>2. \A o \in PlainMetas : o.at \notin b .. x
      <4> SUFFICES ASSUME NEW o \in PlainMetas, o.at \in b .. x PROVE FALSE
        OBVIOUS
      <4>1. o.at \in Nat
        BY <1>1
      <4>2. o.at \in b .. i - 1
        BY <2>2, <2>3, <4>1
      <4> QED BY <1>6, <4>2
    <3>3. 1 <= x
      BY <2>2
    <3> QED BY <2>2, <3>1, <3>2, <3>3, NoQuote
  <2>4. CASE i <= x
    <3>1. x \in n.at .. KeyOf(n) - 1
      BY <1>5, <2>1, <2>2, <2>4
    <3> QED BY <3>1, PlainHas
  <2> QED BY <2>2, <2>3, <2>4
<1> QED BY <1>4, <1>5, <1>6, <1>7

LEMMA MetasStay ==
  ASSUME text' = text
  PROVE  /\ PlainMetas' = PlainMetas
         /\ \A m : To(m)' = To(m)
         /\ \A i : Outside(i)' = Outside(i)
         /\ \A i : Calm(i, PlainMetas)' = Calm(i, PlainMetas)
         /\ \A key, a, i : ValueAt(key, a, i)' = ValueAt(key, a, i)
<1>1. End' = End /\ \A j : c(j)' = c(j)
  BY DEF End, c
<1>2. \A key, a, i : ValueAt(key, a, i)' = ValueAt(key, a, i)
  BY <1>1 DEF ValueAt
<1>3. \A m : To(m)' = To(m)
  BY <1>2 DEF To
<1>4. \A key, a, i : PlainMeta(key, a, i)' = PlainMeta(key, a, i)
  BY <1>1, <1>2 DEF PlainMeta
<1>5. PlainMetas' = PlainMetas
  BY <1>4 DEF PlainMetas
<1>6. \A i : Outside(i)' = Outside(i)
  BY <1>3, <1>5 DEF Outside
<1>7. \A i : Calm(i, PlainMetas)' = Calm(i, PlainMetas)
  BY <1>3, <1>5 DEF Calm
<1> QED BY <1>2, <1>3, <1>5, <1>6, <1>7

LEMMA ApproachesNext ==
  ASSUME text' = text, NEW m \in PlainMetas, \A v \in out' : v.from < m.at,
         \/ mode' # "value" /\ at' <= m.at /\ Outside(at')
         \/ \E n \in PlainMetas :
              /\ n.at <= m.at
              /\ \/ mode' = "name" /\ at' \in {KeyOf(n) - 1, KeyOf(n)}
                 \/ mode' = "value" /\ attr' = n.attr /\ at' \in {QuoteOf(n), QuoteOf(n) + 1}
  PROVE  Approaches(m)'
<1>1. PlainMetas' = PlainMetas /\ \A n : To(n)' = To(n)
  BY MetasStay
<1>2. CASE mode' # "value" /\ at' <= m.at /\ Outside(at')
  <2>1. Outside(at)'
    BY <1>1, <1>2 DEF Outside
  <2> QED BY <1>2, <2>1 DEF Approaches
<1>3. CASE \E n \in PlainMetas :
              /\ n.at <= m.at
              /\ \/ mode' = "name" /\ at' \in {KeyOf(n) - 1, KeyOf(n)}
                 \/ mode' = "value" /\ attr' = n.attr /\ at' \in {QuoteOf(n), QuoteOf(n) + 1}
  <2>1. \E n \in PlainMetas' : n.at <= m.at /\ InMeta(n)'
    BY <1>1, <1>3 DEF InMeta, KeyOf, QuoteOf
  <2> QED BY <2>1 DEF Approaches
<1> QED BY <1>2, <1>3

\* Names that are at one place and equally long are one.
LEMMA SameString ==
  ASSUME NEW a \in Seq(Char), NEW b \in Seq(Char), Len(a) = Len(b), NEW i \in Nat,
         At(a, text, i), At(b, text, i)
  PROVE  a = b
<1>1. \A j \in 1 .. Len(a) : a[j] = b[j]
  BY DEF At
<1>2. \A x, y \in Seq(Char) : Len(x) = Len(y) /\ (\A j \in 1 .. Len(x) : x[j] = y[j]) => x = y
  OBVIOUS
<1> QED BY <1>1, <1>2

\* Where a name is followed by a quote, it is the longest that can be read.
LEMMA LongestName ==
  ASSUME text \in Seq(Char), NEW a \in Attributes, NEW v \in 1 .. End, At(a, text, v),
         text[v + Len(a)] = "q"
  PROVE  /\ Max({Length(b, v) : b \in Attributes}) = Len(a)
         /\ Length(a, v) = Len(a)
<1> DEFINE L == {Length(b, v) : b \in Attributes}
<1>1. End \in Nat /\ v \in Nat /\ Len(a) \in Nat /\ a \in Seq(Char)
  BY EndType, Strings
<1>2. Length(a, v) = Len(a)
  BY <1>1, LengthFull
<1>3. ASSUME NEW b \in Attributes PROVE Length(b, v) \in 0 .. Len(a)
  <2>1. b \in Seq(Char) /\ Len(b) \in Nat
    BY Strings
  <2>2. Length(b, v) \in 0 .. Len(b)
    BY <2>1, LengthIs
  <2>3. CASE Len(b) <= Len(a)
    BY <1>1, <2>1, <2>2, <2>3
  <2>4. CASE Len(a) < Len(b)
    <3>1. Len(a) \in 0 .. Len(b) - 1 /\ Len(a) + 1 \in 1 .. Len(b)
      BY <1>1, <2>1, <2>4
    <3>2. b[Len(a) + 1] # "q"
      BY <3>1, MarkupAssumption
    <3>3. Length(b, v) <= Len(a)
      BY <2>1, <3>1, <3>2, LengthShort
    <3> QED BY <1>1, <2>1, <2>2, <3>3
  <2> QED BY <1>1, <2>1, <2>3, <2>4
<1>4. L \in SUBSET (0 .. Len(a)) /\ Len(a) \in L
  BY <1>2, <1>3
<1>5. Max(L) \in L /\ Len(a) <= Max(L)
  <2> HIDE DEF L
  <2> QED BY <1>1, <1>4, MaxOfNat
<1>6. Max(L) = Len(a)
  <2> HIDE DEF L
  <2>1. Max(L) \in 0 .. Len(a)
    BY <1>4, <1>5
  <2>2. \A x, y \in Nat : x \in 0 .. y /\ y <= x => x = y
    OBVIOUS
  <2> QED BY <1>1, <1>5, <2>1, <2>2
<1> QED BY <1>2, <1>6

\* get_name_attribute at the key of a plain meta tag reads its name.
LEMMA NameInside ==
  ASSUME IInv, Name, NEW n \in PlainMetas, at \in {KeyOf(n) - 1, KeyOf(n)}
  PROVE  /\ text' = text /\ out' = out
         /\ mode' = "value" /\ attr' = n.attr /\ at' = QuoteOf(n)
<1> DEFINE i == Past({Blank}, at)
           key == IF c(i) = "n" THEN NameKey ELSE PropertyKey
           v == i + Len(key)
           k == Max({Length(a, v) : a \in Attributes})
           found(a) == Len(a) = k /\ Length(a, v) = k /\ c(v + k) = "q"
<1>1. text \in Seq(Char) /\ at \in Nat /\ text' = text /\ out' = out
  <2>1. text \in Seq(Char) /\ at \in 0 .. End /\ text' = text /\ out' = out
    BY DEF IInv, TypeOK, Name
  <2> QED BY <2>1, EndType
<1>2. \/ c(i) = ">"
      \/ Length(key, i) < Len(key)
      \/ \E a \in Attributes : found(a) /\ mode' = "value" /\ at' = v + k /\ attr' = a
      \/ ~\E a \in Attributes : found(a)
  BY DEF Name, GoTo
<1>3. /\ n.key \in {NameKey, PropertyKey} /\ n.attr \in Attributes
      /\ KeyOf(n) \in Nat /\ QuoteOf(n) \in Nat /\ QuoteOf(n) = KeyOf(n) + Len(n.key) + Len(n.attr)
      /\ At(n.key, text, KeyOf(n)) /\ At(n.attr, text, KeyOf(n) + Len(n.key))
      /\ text[QuoteOf(n)] = "q" /\ To(n) \in Nat /\ From(n) \in Nat
      /\ From(n) <= To(n) /\ To(n) < Len(text) /\ n.at \in Nat /\ 1 <= n.at
  BY <1>1, PlainIs
<1>4. /\ Len(n.key) \in Nat /\ Len(n.key) >= 1 /\ Len(n.attr) \in Nat /\ Len(text) \in Nat
      /\ n.key \in Seq(Char) /\ n.attr \in Seq(Char) /\ End = Len(text) + 1
      /\ \A j \in 1 .. Len(n.key) : n.key[j] # ">" /\ n.key[j] # Blank
  BY <1>1, <1>3, Strings, EndType
<1>5. /\ n.at + 1 <= KeyOf(n) /\ KeyOf(n) + Len(n.key) <= From(n) - 1 /\ KeyOf(n) < QuoteOf(n)
      /\ QuoteOf(n) + 2 < From(n)
  BY <1>1, PlainOrder
<1>6. /\ KeyOf(n) \in 1 .. Len(text) /\ QuoteOf(n) \in 1 .. Len(text)
      /\ KeyOf(n) + Len(n.key) \in 1 .. End
  <2>1. PICK x \in Nat, q \in Nat, f \in Nat, t \in Nat, l \in Nat, d \in Nat, y \in Nat :
          /\ x = n.at /\ q = QuoteOf(n) /\ f = From(n) /\ t = To(n) /\ l = Len(text)
          /\ d = Len(n.key) /\ y = KeyOf(n)
    BY <1>3, <1>4
  <2>2. 1 <= x /\ x + 1 <= y /\ y + d <= f - 1 /\ y < q /\ q + 2 < f /\ f <= t /\ t < l
    BY <1>3, <1>5, <2>1
  <2>3. y \in 1 .. l /\ q \in 1 .. l /\ y + d \in 1 .. l + 1
    BY <2>2
  <2> QED BY <1>4, <2>1, <2>3
<1>7. text[KeyOf(n)] = n.key[1]
  <2>1. 1 \in 1 .. Len(n.key) /\ KeyOf(n) + 1 - 1 = KeyOf(n)
    BY <1>3, <1>4
  <2> QED BY <1>3, <2>1 DEF At
<1>8. n.key[1] # ">" /\ n.key[1] # Blank
  <2>1. 1 \in 1 .. Len(n.key)
    BY <1>4
  <2> QED BY <1>4, <2>1
<1>9. i = KeyOf(n)
  <2>1. text[KeyOf(n) - 1] = Blank
    BY <1>1, PlainHas
  <2>2. at <= KeyOf(n) /\ \A x \in at .. KeyOf(n) - 1 : text[x] = Blank
    <3>1. PICK y \in Nat : y = KeyOf(n)
      BY <1>3
    <3>2. at = y - 1 \/ at = y
      BY <3>1
    <3> QED BY <1>1, <2>1, <3>1, <3>2
  <2> QED BY <1>1, <1>6, <1>7, <1>8, <2>2, PastTo
<1> HIDE DEF i
<1>10. c(i) = n.key[1]
  BY <1>1, <1>3, <1>6, <1>7, <1>9, CharAt
<1>11. key = n.key
  BY <1>3, <1>10, MarkupAssumption
<1> HIDE DEF key
<1>12. Length(key, i) = Len(key)
  BY <1>1, <1>3, <1>4, <1>9, <1>11, LengthFull
<1>13. /\ v \in 1 .. End /\ v \in Nat /\ At(n.attr, text, v) /\ v + Len(n.attr) = QuoteOf(n)
  BY <1>3, <1>4, <1>6, <1>9, <1>11
<1> HIDE DEF v
<1>14. k = Len(n.attr) /\ Length(n.attr, v) = Len(n.attr)
  BY <1>1, <1>3, <1>13, LongestName
<1> HIDE DEF k
<1>15. c(v + k) = "q"
  <2>1. v + k = QuoteOf(n)
    BY <1>13, <1>14
  <2>2. QuoteOf(n) \in Nat /\ QuoteOf(n) \in 1 .. Len(text) /\ text[QuoteOf(n)] = "q"
    BY <1>1, <1>3, <1>6
  <2>3. c(QuoteOf(n)) = "q"
    BY <1>1, <2>2, CharAt
  <2> QED BY <2>1, <2>3
<1>16. found(n.attr)
  BY <1>14, <1>15
<1>17. PICK a \in Attributes : found(a) /\ mode' = "value" /\ at' = v + k /\ attr' = a
  <2>1. c(i) # ">"
    BY <1>8, <1>10
  <2>2. ~(Length(key, i) < Len(key))
    BY <1>4, <1>11, <1>12
  <2>3. \E a \in Attributes : found(a)
    BY <1>3, <1>16
  <2> HIDE DEF found
  <2> QED BY <1>2, <2>1, <2>2, <2>3
<1>18. a = n.attr
  <2>1. a \in Seq(Char) /\ Len(a) = Len(n.attr) /\ Length(a, v) = Len(a)
    BY <1>14, <1>17, Strings
  <2>2. At(a, text, v)
    BY <1>1, <1>13, <2>1, MatchIsAt
  <2> QED BY <1>4, <1>13, <2>1, <2>2, SameString
<1> QED BY <1>1, <1>13, <1>14, <1>17, <1>18

\* A value without escapes ends at its first quote.
LEMMA PlainValueEnd ==
  ASSUME text \in Seq(Char), NEW from \in 1 .. End, NEW to \in Nat, from <= to, to < End,
         text[to] = "q", \A j \in from .. to - 1 : text[j] # "q" /\ text[j] # "\\"
  PROVE  ValueEnd(from) = to
<1> DEFINE e == ValueEnd(from)
<1>1. End \in Nat /\ from \in Nat /\ from <= from /\ from \in from .. End
  BY EndType
<1>2. ~Escaped(from, from)
  <2>1. Backslashes(from, from) = 0
    BY <1>1, BackslashesNext
  <2> QED BY <2>1 DEF Escaped
<1>3. /\ e \in from .. End
      /\ \A j \in from .. e - 1 : text[j] = "q" => Escaped(from, j)
      /\ e < End => text[e] = "q"
  BY <1>1, <1>2, ValueEndIs
<1> HIDE DEF e
<1>4. e \in Nat /\ from <= e /\ e <= End
  BY <1>1, <1>3
<1>5. to <= e
  <2> SUFFICES ASSUME e < to PROVE FALSE
    BY <1>4
  <2>1. e \in from .. to - 1 /\ e < End
    BY <1>1, <1>4
  <2> QED BY <1>3, <2>1
<1>6. e <= to
  <2> SUFFICES ASSUME to < e PROVE FALSE
    BY <1>4
  <2>1. to \in from .. e - 1
    BY <1>1, <1>4
  <2>2. Escaped(from, to)
    BY <1>3, <2>1
  <2>3. Backslashes(from, to) \in 0 .. to - from /\ Backslashes(from, to) # 0
    <3>1. Backslashes(from, to) \in 0 .. to - from
      BY <1>1, BackslashesAre
    <3>2. Backslashes(from, to) # 0
      BY <2>2 DEF Escaped
    <3> QED BY <3>1, <3>2
  <2>4. 1 \in 1 .. Backslashes(from, to) /\ to - 1 \in from .. to - 1
    BY <1>1, <2>3
  <2>5. text[to - 1] = "\\"
    BY <1>1, <2>4, BackslashesAre
  <2> QED BY <2>4, <2>5
<1> QED BY <1>4, <1>5, <1>6 DEF e

\* write_value_attribute in a plain meta tag behind its name: the quote is skipped,
\* then the value is copied.
LEMMA ValueInside ==
  ASSUME IInv, ValueOf, NEW n \in PlainMetas, attr = n.attr, at \in {QuoteOf(n), QuoteOf(n) + 1}
  PROVE  /\ text' = text /\ attr' = attr
         /\ \/ mode' = "value" /\ at' = QuoteOf(n) + 1 /\ out' = out
            \/ /\ mode' = "tag" /\ at' = To(n) + 1
               /\ out' = out \cup {Value(n.attr, From(n), To(n))}
<1> DEFINE i == Past({Blank}, at)
           k == Length(ContentKey, i)
           e == ValueEnd(i + k)
<1>1. /\ text \in Seq(Char) /\ at \in Nat /\ text' = text /\ attr' = attr
      /\ End \in Nat /\ End = Len(text) + 1 /\ Len(text) \in Nat
  BY ValueState
<1>2. \/ c(i) = ">"
      \/ c(i) # ">" /\ k < Len(ContentKey) /\ mode' = "value" /\ at' = After(i + k) /\ out' = out
      \/ /\ k = Len(ContentKey) /\ mode' = "tag" /\ at' = After(e)
         /\ out' = out \cup {Value(attr, i + k, e)}
  BY DEF ValueOf, GoTo
<1>3. /\ QuoteOf(n) \in Nat /\ KeyOf(n) \in Nat /\ n.at \in Nat /\ 1 <= n.at
      /\ From(n) \in Nat /\ From(n) = QuoteOf(n) + 2 + Len(ContentKey)
      /\ To(n) \in Nat /\ From(n) <= To(n) /\ To(n) < Len(text)
      /\ text[QuoteOf(n)] = "q" /\ text[QuoteOf(n) + 1] = Blank
      /\ At(ContentKey, text, QuoteOf(n) + 2)
      /\ \A j \in From(n) .. To(n) - 1 : text[j] # "q" /\ text[j] # "\\"
      /\ text[To(n)] = "q"
  BY <1>1, PlainIs
<1>4. n.at + 1 <= KeyOf(n) /\ KeyOf(n) < QuoteOf(n) /\ QuoteOf(n) + 2 < From(n)
  BY <1>1, PlainOrder
<1>5. /\ ContentKey \in Seq(Char) /\ Len(ContentKey) \in Nat /\ Len(ContentKey) >= 1
      /\ ContentKey[1] # "q" /\ ContentKey[1] # ">" /\ ContentKey[1] # Blank
  <2>1. /\ ContentKey \in Seq(Char) /\ Len(ContentKey) \in Nat /\ Len(ContentKey) >= 1
        /\ \A j \in 1 .. Len(ContentKey) : ContentKey[j] # ">" /\ ContentKey[j] # Blank
    BY Strings
  <2>2. 1 \in 1 .. Len(ContentKey)
    BY <2>1
  <2> QED BY <2>1, <2>2, MarkupAssumption
<1>6. PICK q \in Nat, f \in Nat, t \in Nat, l \in Nat :
        q = QuoteOf(n) /\ f = From(n) /\ t = To(n)
        /\ l = Len(text) /\ End = l + 1
  BY <1>1, <1>3
<1>7. /\ 1 <= q /\ q + 2 < f /\ f <= t /\ t < l /\ f = q + 2 + Len(ContentKey)
      /\ q \in 1 .. l /\ q + 1 \in 1 .. l /\ q + 2 \in 1 .. l /\ t \in 1 .. l
      /\ q \in 1 .. End /\ q \in 0 .. End /\ q < End
      /\ f \in 1 .. End /\ t \in 0 .. End /\ t < End
  <2> HIDE DEF i, k, e
  <2>1. 1 <= q /\ q + 2 < f /\ f <= t /\ t < l /\ f = q + 2 + Len(ContentKey)
    BY <1>3, <1>4, <1>6
  <2>2. End = l + 1
    BY <1>6
  <2> QED BY <2>1, <2>2
<1>8. CASE at = QuoteOf(n)
  <2>1. i = q
    <3>1. q <= q /\ (\A x \in q .. q - 1 : x >= 1 => text[x] = Blank) /\ text[q] # Blank
      BY SMTT(20), <1>3, <1>6, BlankIs
    <3>2. Past({Blank}, q) = q
      BY <1>1, <1>6, <1>7, <3>1, PastTo
    <3> QED BY <1>6, <1>8, <3>2
  <2> HIDE DEF i
  <2>2. c(i) = "q"
    BY <1>1, <1>3, <1>6, <1>7, <2>1, CharAt
  <2>3. k \in 0 .. Len(ContentKey) /\ k <= 0
    <3>1. i \in 1 .. End /\ 0 \in 0 .. Len(ContentKey) - 1 /\ text[i + 0] # ContentKey[0 + 1]
      <4>0. \A x \in Nat : x >= 1 => 0 \in 0 .. x - 1
        OBVIOUS
      <4>1. q \in 1 .. End /\ q + 0 = q /\ 0 + 1 = 1 /\ 0 \in 0 .. Len(ContentKey) - 1
        <5>1. q \in 1 .. End
          BY <1>7
        <5> QED BY <1>5, <4>0, <5>1
      <4>2. text[q] = "q"
        BY <1>3, <1>6
      <4> QED BY <1>5, <2>1, <4>1, <4>2
    <3>2. k \in 0 .. Len(ContentKey)
      BY <1>1, <1>5, <3>1, LengthIs
    <3>3. k <= 0
      BY <1>1, <1>5, <3>1, LengthShort
    <3> QED BY <3>2, <3>3
  <2>4. k = 0 /\ k # Len(ContentKey)
    <3> HIDE DEF k
    <3> QED BY <1>5, <2>3
  <2>5. After(i + k) = q + 1
    <3>1. i + k = q /\ q \in 0 .. End /\ q < End
      <4>1. q \in 0 .. End /\ q < End
        BY <1>7
      <4> HIDE DEF k
      <4> QED BY <2>1, <2>4, <4>1
    <3> QED BY <1>1, <3>1, AfterBounds
  <2> HIDE DEF k
  <2> QED BY <1>1, <1>2, <1>6, <2>2, <2>4, <2>5
<1>9. CASE at = QuoteOf(n) + 1
  <2>1. At(ContentKey, text, q + 2) /\ text[q + 2] = ContentKey[1]
    <3>1. At(ContentKey, text, q + 2)
      BY <1>3, <1>6
    <3>2. 1 \in 1 .. Len(ContentKey) /\ q + 2 + 1 - 1 = q + 2
      BY <1>5
    <3> QED BY <3>1, <3>2 DEF At
  <2>2. i = q + 2
    <3>1. q + 1 <= q + 2 /\ q + 1 \in Nat
      OBVIOUS
    <3>2. \A x \in q + 1 .. q + 2 - 1 : text[x] = Blank
      BY <1>3, <1>6
    <3>3. text[q + 2] # Blank
      BY <1>5, <2>1
    <3>4. Past({Blank}, q + 1) = q + 2
      <4> DEFINE b == q + 2
                 a == q + 1
      <4>1. b \in 1 .. Len(text) /\ a \in Nat /\ a <= b /\ text[b] # Blank
        BY <1>6, <1>7, <3>1, <3>3
      <4>2. \A x \in a .. b - 1 : x >= 1 => text[x] = Blank
        BY <3>2
      <4> HIDE DEF a, b
      <4>3. Past({Blank}, a) = b
        BY <1>1, <4>1, <4>2, PastTo
      <4> QED BY <4>3 DEF a, b
    <3> QED BY <1>6, <1>9, <3>4
  <2> HIDE DEF i
  <2>3. c(i) # ">" /\ i \in Nat
    BY SMTT(20), <1>1, <1>5, <1>6, <1>7, <2>1, <2>2, CharAt
  <2>4. k = Len(ContentKey)
    BY <1>1, <1>5, <2>1, <2>2, <2>3, LengthFull
  <2> HIDE DEF k
  <2>5. i + k = f
    BY <1>7, <2>2, <2>4
  <2>6. ValueEnd(f) = t
    <3>1. f \in 1 .. End /\ f <= t /\ t < End
      BY <1>7
    <3>2. text[t] = "q" /\ \A j \in f .. t - 1 : text[j] # "q" /\ text[j] # "\\"
      BY <1>3, <1>6
    <3> QED BY <1>1, <3>1, <3>2, PlainValueEnd
  <2>7. e = t
    BY <2>5, <2>6
  <2>8. After(t) = t + 1
    <3>1. t \in 0 .. End /\ t < End
      BY <1>7
    <3> QED BY <1>1, <3>1, AfterBounds
  <2> HIDE DEF e
  <2>9. mode' = "tag" /\ at' = After(e) /\ out' = out \cup {Value(attr, i + k, e)}
    BY <1>2, <1>5, <2>3, <2>4
  <2> QED BY <1>1, <1>6, <2>5, <2>7, <2>8, <2>9
<1> QED BY <1>8, <1>9

\* Where no tag begins the scan stays before m and outside of plain meta tags.
LEMMA OutsideOn ==
  ASSUME text \in Seq(Char), NEW m \in PlainMetas, NEW a \in Nat, a <= m.at, Outside(a),
         NEW b \in Nat, a <= b, \A x \in a .. b - 1 : x >= 1 => text[x] # "<"
  PROVE  /\ b <= m.at /\ Outside(b)
         /\ \A n \in PlainMetas : n.at \notin a .. b - 1
<1>1. \A n \in PlainMetas : n.at \notin a .. b - 1
  <2> SUFFICES ASSUME NEW n \in PlainMetas, n.at \in a .. b - 1 PROVE FALSE
    OBVIOUS
  <2>1. n.at \in Nat /\ n.at >= 1 /\ text[n.at] = "<"
    BY PlainIs
  <2> QED BY <2>1
<1>2. Outside(b)
  BY <1>1, OutsideGoes
<1>3. b <= m.at
  <2>1. m.at \in Nat
    BY PlainIs
  <2> SUFFICES ASSUME m.at < b PROVE FALSE
    BY <2>1
  <2>2. m.at \in a .. b - 1
    BY <2>1
  <2> QED BY <1>1, <2>2
<1> QED BY <1>1, <1>2, <1>3

\* get_name_attribute outside of plain meta tags finds no name and goes on to the
\* next tag, or with the next attribute, which may be a plain meta tag's.
LEMMA NameOutside ==
  ASSUME IInv, Name, NEW m \in PlainMetas, Calm(m.at, PlainMetas), at <= m.at, Outside(at)
  PROVE  /\ text' = text /\ out' = out
         /\ \/ mode' # "value" /\ at' <= m.at /\ Outside(at')
            \/ \E n \in PlainMetas : n.at <= m.at /\ mode' = "name" /\ at' = KeyOf(n) - 1
<1> DEFINE i == Past({Blank}, at)
           key == IF c(i) = "n" THEN NameKey ELSE PropertyKey
           k == Length(key, i)
<1>1. /\ text \in Seq(Char) /\ at \in Nat /\ at <= End /\ text' = text /\ out' = out
      /\ End \in Nat /\ End = Len(text) + 1 /\ Len(text) \in Nat
  <2>1. text \in Seq(Char) /\ at \in 0 .. End /\ text' = text /\ out' = out
    BY DEF IInv, TypeOK, Name
  <2> QED BY <2>1, EndType
<1>2. \/ c(i) = ">" /\ mode' = "tag" /\ at' = After(i)
      \/ k < Len(key) /\ mode' = "name" /\ at' = Skip({Blank}, i + k)
      \/ k = Len(key)
  BY DEF Name, GoTo
<1>3. PICK h \in Nat : h = m.at
  BY <1>1, PlainIs
<1>4. 1 <= h /\ text[h] = "<" /\ h < End /\ at <= h
  <2>1. m.at >= 1 /\ text[m.at] = "<" /\ From(m) <= To(m) /\ To(m) < Len(text)
        /\ From(m) \in Nat /\ To(m) \in Nat /\ KeyOf(m) \in Nat /\ QuoteOf(m) \in Nat
    BY <1>1, PlainIs
  <2>2. m.at + 1 <= KeyOf(m) /\ KeyOf(m) < QuoteOf(m) /\ QuoteOf(m) + 2 < From(m)
    BY <1>1, PlainOrder
  <2> QED BY <1>1, <1>3, <2>1, <2>2
<1>5. i \in at .. End /\ i >= 1 /\ \A j \in at .. i - 1 : j >= 1 => text[j] = Blank
  <2>1. at \in 0 .. End
    BY <1>1
  <2> QED BY <1>1, <2>1, PastIs
<1> HIDE DEF i
<1>6. i \in Nat /\ at <= i /\ i <= End /\ i \in 1 .. End
  BY <1>1, <1>5
<1>7. i <= h
  <2>1. \A x \in at .. i - 1 : x >= 1 => text[x] # "<"
    BY <1>5, BlankIs
  <2>2. i <= m.at
    BY <1>1, <1>6, <2>1, OutsideOn
  <2> QED BY <1>3, <2>2
<1>8. i \in 1 .. Len(text) /\ c(i) = text[i]
  <2>1. i \in 1 .. Len(text)
    BY <1>1, <1>4, <1>6, <1>7
  <2> QED BY <1>1, <1>6, <2>1, CharAt
<1>9. CASE c(i) = ">" /\ mode' = "tag" /\ at' = After(i)
  <2>1. at' = i + 1
    <3>1. i \in 0 .. End /\ i < End
      BY <1>1, <1>8
    <3> QED BY <1>1, <1>9, <3>1, AfterBounds
  <2> DEFINE b == i + 1
  <2>2. b \in Nat /\ at <= b /\ \A x \in at .. b - 1 : x = i \/ x \in at .. i - 1
    BY <1>1, <1>6
  <2> HIDE DEF b
  <2>3. \A x \in at .. b - 1 : x >= 1 => text[x] # "<"
    BY <1>5, <1>8, <1>9, <2>2, BlankIs
  <2>4. b <= m.at /\ Outside(b)
    BY <1>1, <2>2, <2>3, OutsideOn
  <2>5. at' = b
    BY <2>1 DEF b
  <2> QED BY <1>1, <1>9, <2>4, <2>5
<1>10. /\ key \in {NameKey, PropertyKey} /\ key \in Seq(Char) /\ Len(key) \in Nat /\ Len(key) >= 1
       /\ \A j \in 1 .. Len(key) : key[j] # "<" /\ key[j] # Blank
       /\ key[Len(key)] = "q"
  <2>1. key \in {NameKey, PropertyKey}
    OBVIOUS
  <2> HIDE DEF key
  <2> QED BY <2>1, Strings, MarkupAssumption
<1> HIDE DEF key
<1>11. /\ k \in 0 .. Len(key) /\ i + k <= End /\ \A j \in 1 .. k : text[i + j - 1] = key[j]
  BY <1>1, <1>6, <1>10, LengthIs
<1> HIDE DEF k
<1> DEFINE b == i + k
<1>12. b \in Nat /\ at <= b /\ i <= b /\ b <= End /\ k \in Nat /\ 1 <= b
  <2>1. k \in Nat
    BY <1>10, <1>11
  <2>2. i + k \in Nat /\ at <= i + k /\ i <= i + k /\ 1 <= i + k
    BY <1>1, <1>6, <2>1
  <2> QED BY <1>11, <2>1, <2>2
<1>13. \A x \in at .. b - 1 : x >= 1 => text[x] # "<"
  <2> SUFFICES ASSUME NEW x \in at .. b - 1, x >= 1 PROVE text[x] # "<"
    OBVIOUS
  <2>1. x \in Nat /\ x < b /\ at <= x
    <3> HIDE DEF b
    <3> QED BY <1>1, <1>12
  <2>2. CASE x < i
    <3>1. x \in at .. i - 1
      BY <1>1, <1>6, <2>1, <2>2
    <3> QED BY <1>5, <3>1, BlankIs
  <2>3. CASE i <= x
    <3>1. x - i + 1 \in 1 .. k /\ i + (x - i + 1) - 1 = x
      BY <1>6, <1>12, <2>1, <2>3
    <3>2. text[x] = key[x - i + 1] /\ x - i + 1 \in 1 .. Len(key)
      BY <1>10, <1>11, <3>1
    <3> QED BY <1>10, <3>2
  <2> QED BY <1>6, <2>1, <2>2, <2>3
<1>14. b <= m.at /\ Outside(b) /\ \A n \in PlainMetas : n.at \notin at .. b - 1
  <2> HIDE DEF b
  <2> QED BY <1>1, <1>12, <1>13, OutsideOn
<1>15. ASSUME k = Len(key) PROVE FALSE
  <2> DEFINE x == b - 1
  <2>1. b = i + Len(key)
    BY <1>15
  <2> HIDE DEF b
  <2>2. x = i + Len(key) - 1 /\ x \in Nat /\ at <= x /\ 1 <= x /\ x < m.at
    <3>1. i + 1 <= b
      BY <1>6, <1>10, <2>1
    <3> QED BY <1>1, <1>3, <1>6, <1>12, <1>14, <2>1, <3>1
  <2>3. text[x] = "q"
    <3>1. Len(key) \in 1 .. k
      BY <1>10, <1>15
    <3> HIDE DEF x
    <3> QED BY <1>10, <1>11, <2>2, <3>1
  <2>4. \A n \in PlainMetas : n.at \notin at .. x
    BY <1>14
  <2> HIDE DEF x
  <2>5. text[x] # "q"
    BY <1>1, <2>2, <2>4, NoQuote
  <2> QED BY <2>3, <2>5
<1>16. CASE mode' = "name" /\ at' = Skip({Blank}, i + k)
  <2> HIDE DEF b
  <2>1. PICK n \in PlainMetas :
          /\ b <= n.at /\ n.at <= m.at
          /\ \A o \in PlainMetas : o.at \notin b .. n.at - 1
          /\ \A x \in b .. KeyOf(n) - 1 : text[x] # "q"
    BY <1>1, <1>12, <1>14, NextMeta
  <2>2. /\ n.at \in Nat /\ KeyOf(n) \in Nat /\ QuoteOf(n) \in Nat /\ From(n) \in Nat /\ To(n) \in Nat
        /\ From(n) <= To(n) /\ To(n) < Len(text) /\ text[n.at] = "<"
    BY <1>1, PlainIs
  <2>3. n.at + 1 <= KeyOf(n) /\ KeyOf(n) < QuoteOf(n) /\ QuoteOf(n) + 2 < From(n)
    BY <1>1, PlainOrder
  <2>4. /\ text[KeyOf(n) - 1] = Blank
        /\ \A j \in n.at .. KeyOf(n) - 2 : text[j] # Blank
    BY <1>1, PlainHas
  <2>5. PICK x \in Nat, y \in Nat : x = n.at /\ y = KeyOf(n) - 1
    BY <2>2, <2>3
  <2>6. b <= x /\ x <= y /\ y \in b .. Len(text) /\ b \in 1 .. Len(text)
    <3>1. PICK q \in Nat, f \in Nat, t \in Nat, l \in Nat, k1 \in Nat :
            q = QuoteOf(n) /\ f = From(n) /\ t = To(n) /\ l = Len(text) /\ k1 = KeyOf(n)
      BY <1>1, <2>2
    <3>2. b <= x /\ x + 1 <= k1 /\ y = k1 - 1 /\ k1 < q /\ q + 2 < f /\ f <= t /\ t < l
      BY <2>1, <2>2, <2>3, <2>5, <3>1
    <3>3. b <= x /\ x <= y /\ y \in b .. l /\ b \in 1 .. l
      BY <1>12, <2>5, <3>2
    <3> QED BY <3>1, <3>3
  <2>7. text[y] \in {Blank} /\ \A z \in b .. y : text[z] # "q"
    BY <2>1, <2>4, <2>5
  <2> DEFINE e == Skip({Blank}, b)
  <2>8. e \in b .. y /\ text[e] = Blank
    BY <1>1, <2>6, <2>7, SkipIs
  <2>9. at' = e
    BY <1>16 DEF b
  <2> HIDE DEF e
  <2>10. e \in Nat /\ b <= e /\ e <= y
    BY <1>12, <2>5, <2>8
  <2>11. CASE e < x
    <3>1. \A o \in PlainMetas : o.at \notin b .. e - 1
      <4> SUFFICES ASSUME NEW o \in PlainMetas, o.at \in b .. e - 1 PROVE FALSE
        OBVIOUS
      <4>1. o.at \in b .. x - 1
        BY <1>12, <2>5, <2>10, <2>11
      <4> QED BY <2>1, <2>5, <4>1
    <3>2. Outside(e)
      BY <1>1, <1>12, <1>14, <2>10, <3>1, OutsideGoes
    <3>3. e <= m.at
      BY <1>3, <2>1, <2>5, <2>10, <2>11
    <3> QED BY <1>1, <1>16, <2>9, <3>2, <3>3
  <2>12. CASE x <= e
    <3>1. e = y
      <4> SUFFICES ASSUME e < y PROVE FALSE
        BY <2>5, <2>10
      <4>1. e \in n.at .. KeyOf(n) - 2
        BY <2>2, <2>5, <2>10, <2>12
      <4> QED BY <2>4, <2>8, <4>1
    <3> QED BY <1>1, <1>16, <2>1, <2>5, <2>9, <3>1
  <2> QED BY <2>5, <2>10, <2>11, <2>12
<1> QED BY <1>2, <1>9, <1>15, <1>16

\* main outside of plain meta tags goes on to a plain meta tag's key, or behind a tag
\* or into one that is none.
LEMMA TagOutside ==
  ASSUME IInv, Tag, NEW m \in PlainMetas, Calm(m.at, PlainMetas), at <= m.at, Outside(at)
  PROVE  /\ text' = text /\ out' = out
         /\ \/ mode' # "value" /\ at' <= m.at /\ Outside(at')
            \/ \E n \in PlainMetas : n.at <= m.at /\ mode' = "name" /\ at' = KeyOf(n)
<1> DEFINE i == NextOpenTag(at)
           k == Length(Meta, i)
<1>1. /\ text \in Seq(Char) /\ at \in Nat /\ at <= End /\ text' = text /\ out' = out
      /\ End \in Nat /\ End = Len(text) + 1 /\ Len(text) \in Nat
  <2>1. text \in Seq(Char) /\ at \in 0 .. End /\ text' = text /\ out' = out
    BY DEF IInv, TypeOK, Tag
  <2> QED BY <2>1, EndType
<1>2. \/ k = Len(Meta) /\ mode' = "name" /\ at' = i + k
      \/ k # Len(Meta) /\ mode' = "tag" /\ at' = Skip({">"}, i + k)
  BY DEF Tag, GoTo
<1>3. PICK h \in Nat : h = m.at /\ 1 <= h /\ h <= Len(text) /\ text[h] = "<"
  <2>1. m.at \in 1 .. Len(text) /\ m.at \in Nat /\ 1 <= m.at /\ text[m.at] = "<"
    <3>1. m.at \in DOMAIN text
      BY DEF PlainMetas
    <3> QED BY <1>1, <3>1, PlainIs
  <2> QED BY <1>1, <2>1
<1>4. PICK j \in 1 .. Len(text) :
        /\ at <= j /\ j <= h /\ text[j] = "<" /\ i = j + 1
        /\ \A x \in at .. j - 1 : x >= 1 => text[x] # "<"
  <2>1. h \in 1 .. Len(text) /\ at <= h
    BY <1>1, <1>3
  <2> QED BY <1>1, <1>3, <2>1, NextOpenTagIs
<1> HIDE DEF i
<1>5. j \in Nat /\ 1 <= j /\ i \in Nat /\ i \in 1 .. End
  BY <1>1, <1>4
<1>6. CASE \E n \in PlainMetas : n.at = j
  <2>1. PICK n \in PlainMetas : n.at = j
    BY <1>6
  <2>2. At(Meta, text, n.at + 1) /\ KeyOf(n) = n.at + 1 + Len(Meta)
    BY <1>1, PlainIs
  <2>3. At(Meta, text, i) /\ KeyOf(n) = i + Len(Meta)
    BY <1>4, <2>1, <2>2
  <2>4. k = Len(Meta)
    BY <1>1, <1>5, <2>3, Keys, LengthFull
  <2> HIDE DEF k
  <2> QED BY <1>1, <1>2, <1>3, <1>4, <2>1, <2>3, <2>4
<1>7. CASE ~\E n \in PlainMetas : n.at = j
  <2>1. j # h
    BY <1>3, <1>7
  <2>2. j \in 1 .. m.at - 1
    BY <1>3, <1>4, <1>5, <2>1
  <2>3. PICK g \in j + 1 .. m.at - 1 : text[g] = ">" /\ \A n \in j + 1 .. g : text[n] # "<"
    BY <1>4, <2>2 DEF Calm
  <2>4. g \in Nat /\ j < g /\ g < h
    BY <1>3, <1>5, <2>3
  <2>5. /\ k \in Nat /\ k <= Len(Meta) /\ i + k <= End
        /\ \A x \in 1 .. k : text[i + x - 1] = Meta[x]
    <3>1. Meta \in Seq(Char) /\ Len(Meta) \in Nat
      BY Keys, Strings
    <3> QED BY <1>1, <1>5, <3>1, LengthIs
  <2> HIDE DEF k
  <2> DEFINE b == i + k
  <2>6. b \in Nat /\ at <= b /\ j < b /\ 1 <= b
    BY <1>1, <1>4, <1>5, <2>5
  <2>7. b <= g
    <3> SUFFICES ASSUME g < b PROVE FALSE
      BY <2>4, <2>6
    <3>1. g - i + 1 \in 1 .. k /\ i + (g - i + 1) - 1 = g
      BY <1>4, <1>5, <2>4, <2>5
    <3>2. text[g] = Meta[g - i + 1] /\ g - i + 1 \in 1 .. Len(Meta)
      BY <2>5, <3>1, Strings
    <3> QED BY <2>3, <3>2, Strings
  <2> HIDE DEF b
  <2>8. \A n \in PlainMetas : n.at \notin at .. g
    <3> SUFFICES ASSUME NEW n \in PlainMetas, n.at \in at .. g PROVE FALSE
      OBVIOUS
    <3>1. PICK x \in Nat : x = n.at /\ 1 <= x /\ text[x] = "<"
      BY <1>1, PlainIs
    <3>2. x # j
      BY <1>7, <3>1
    <3>3. x \in at .. j - 1 \/ x \in j + 1 .. g
      BY <1>1, <1>5, <2>4, <3>1, <3>2
    <3> QED BY <1>4, <2>3, <3>1, <3>3
  <2>9. \A x \in b .. g : text[x] # "q"
    <3> SUFFICES ASSUME NEW x \in b .. g PROVE text[x] # "q"
      OBVIOUS
    <3>1. x \in Nat /\ at <= x /\ 1 <= x /\ x <= g /\ x < m.at
      BY <1>1, <1>3, <2>4, <2>6
    <3>2. \A n \in PlainMetas : n.at \notin at .. x
      <4>1. \A y \in at .. x : y \in at .. g
        BY <1>1, <2>4, <3>1
      <4> QED BY <2>8, <4>1
    <3> QED BY <1>1, <3>1, <3>2, NoQuote
  <2>10. ASSUME NEW e \in b .. g PROVE e <= m.at /\ Outside(e)
    <3>1. e \in Nat /\ at <= e /\ e <= g
      BY <1>1, <2>4, <2>6
    <3>2. \A n \in PlainMetas : n.at \notin at .. e - 1
      <4>1. \A y \in at .. e - 1 : y \in at .. g
        BY <1>1, <2>4, <3>1
      <4> QED BY <2>8, <4>1
    <3>3. Outside(e)
      BY <1>1, <3>1, <3>2, OutsideGoes
    <3> QED BY <1>3, <2>4, <3>1, <3>3
  <2>11. b \in b .. g
    BY <2>4, <2>6, <2>7
  <2>12. CASE k = Len(Meta)
    <3>1. mode' = "name" /\ at' = b
      BY <1>2, <2>12 DEF b
    <3> QED BY <1>1, <2>10, <2>11, <3>1
  <2>13. CASE k # Len(Meta)
    <3> DEFINE e == Skip({">"}, b)
    <3>1. mode' = "tag" /\ at' = e
      BY <1>2, <2>13 DEF b
    <3>2. b \in 1 .. Len(text) /\ g \in b .. Len(text) /\ text[g] \in {">"}
      BY <1>1, <1>3, <2>3, <2>4, <2>6, <2>7
    <3>3. e \in b .. g
      BY <1>1, <2>9, <3>2, SkipIs
    <3> HIDE DEF e
    <3> QED BY <1>1, <2>10, <3>1, <3>3
  <2> QED BY <2>12, <2>13
<1> QED BY <1>6, <1>7

\* A step of the scan brings it nearer to plain meta tag m, or copies m's value.
LEMMA ApproachesStep ==
  ASSUME IInv, Tag \/ Name \/ ValueOf, NEW m \in PlainMetas, Calm(m.at, PlainMetas), Approaches(m)
  PROVE  Approaches(m)' \/ ValueAt(m.key, m.attr, m.at)' \in out'
<1>0. text \in Seq(Char) /\ m.at \in Nat
  <2>1. text \in Seq(Char)
    BY DEF IInv, TypeOK
  <2> QED BY <2>1, PlainIs
<1>1. \A v \in out : v.from < m.at
  BY DEF Approaches
<1>2. CASE mode # "value" /\ at <= m.at /\ Outside(at)
  <2>1. CASE Tag
    <3>1. /\ text' = text /\ out' = out
          /\ \/ mode' # "value" /\ at' <= m.at /\ Outside(at')
             \/ \E n \in PlainMetas : n.at <= m.at /\ mode' = "name" /\ at' = KeyOf(n)
      BY <1>2, <2>1, TagOutside
    <3> QED BY <1>1, <3>1, ApproachesNext
  <2>2. CASE Name
    <3>1. /\ text' = text /\ out' = out
          /\ \/ mode' # "value" /\ at' <= m.at /\ Outside(at')
             \/ \E n \in PlainMetas : n.at <= m.at /\ mode' = "name" /\ at' = KeyOf(n) - 1
      BY <1>2, <2>2, NameOutside
    <3> QED BY <1>1, <3>1, ApproachesNext
  <2>3. CASE ValueOf
    BY <1>2, <2>3 DEF ValueOf, Busy
  <2> QED BY <2>1, <2>2, <2>3
<1>3. CASE \E n \in PlainMetas : n.at <= m.at /\ InMeta(n)
  <2>1. PICK n \in PlainMetas : n.at <= m.at /\ InMeta(n)
    BY <1>3
  <2>2. CASE mode = "name" /\ at \in {KeyOf(n) - 1, KeyOf(n)}
    <3>1. Name
      BY <2>2 DEF Tag, ValueOf, Busy
    <3>2. text' = text /\ out' = out /\ mode' = "value" /\ attr' = n.attr /\ at' = QuoteOf(n)
      BY <2>2, <3>1, NameInside
    <3> QED BY <1>1, <2>1, <3>2, ApproachesNext
  <2>3. CASE mode = "value" /\ attr = n.attr /\ at \in {QuoteOf(n), QuoteOf(n) + 1}
    <3>1. ValueOf
      BY <2>3 DEF Tag, Name, Busy
    <3>2. /\ text' = text /\ attr' = attr
          /\ \/ mode' = "value" /\ at' = QuoteOf(n) + 1 /\ out' = out
             \/ /\ mode' = "tag" /\ at' = To(n) + 1
                /\ out' = out \cup {Value(n.attr, From(n), To(n))}
      BY <2>3, <3>1, ValueInside
    <3>3. CASE mode' = "value" /\ at' = QuoteOf(n) + 1 /\ out' = out
      BY <1>1, <2>1, <2>3, <3>2, <3>3, ApproachesNext
    <3>4. CASE /\ mode' = "tag" /\ at' = To(n) + 1
               /\ out' = out \cup {Value(n.attr, From(n), To(n))}
      <4>1. /\ n.at \in Nat /\ From(n) \in Nat /\ To(n) \in Nat /\ From(n) <= To(n)
            /\ ValueAt(n.key, n.attr, n.at) = Value(n.attr, From(n), To(n))
        BY <1>0, PlainIs
      <4>2. CASE n.at = m.at
        <5>1. n = m
          BY <1>0, <4>2, PlainUnique
        <5>2. ValueAt(m.key, m.attr, m.at) \in out'
          BY <3>4, <4>1, <5>1
        <5> QED BY <3>2, <5>2, MetasStay
      <4>3. CASE n.at < m.at
        <5>1. To(n) + 1 < m.at
          BY <1>0, <4>3, PlainBefore
        <5>2. \A v \in out' : v.from < m.at
          <6>1. From(n) < m.at
            BY <1>0, <4>1, <5>1
          <6> QED BY <1>1, <3>4, <6>1 DEF Value
        <5> DEFINE b == To(n) + 1
        <5>3. Outside(b)
          <6> SUFFICES ASSUME NEW o \in PlainMetas, b \in o.at + 1 .. To(o) PROVE FALSE
            BY DEF Outside
          <6>1. o.at \in Nat /\ To(o) \in Nat
            BY <1>0, PlainIs
          <6>2. o.at < b /\ b <= To(o)
            BY <4>1, <6>1
          <6>3. CASE o.at = n.at
            <7>1. o = n
              BY <1>0, <6>3, PlainUnique
            <7> QED BY <4>1, <6>2, <7>1
          <6>4. CASE o.at < n.at
            <7>1. To(o) + 1 < n.at
              BY <1>0, <6>4, PlainBefore
            <7>2. n.at < From(n)
              <8>1. KeyOf(n) \in Nat /\ QuoteOf(n) \in Nat
                BY <1>0, PlainIs
              <8>2. n.at + 1 <= KeyOf(n) /\ KeyOf(n) < QuoteOf(n) /\ QuoteOf(n) + 2 < From(n)
                BY <1>0, PlainOrder
              <8> QED BY <4>1, <8>1, <8>2
            <7> QED BY <4>1, <6>1, <6>2, <7>1, <7>2
          <6>5. CASE n.at < o.at
            <7>1. To(n) + 1 < o.at
              BY <1>0, <6>5, PlainBefore
            <7> QED BY <4>1, <6>1, <6>2, <7>1
          <6> QED BY <4>1, <6>1, <6>3, <6>4, <6>5
        <5>4. mode' # "value" /\ at' = b /\ b <= m.at
          BY <1>0, <3>4, <4>1, <5>1
        <5> HIDE DEF b
        <5>5. mode' # "value" /\ at' <= m.at /\ Outside(at')
          BY <5>3, <5>4
        <5> QED BY <3>2, <5>2, <5>5, ApproachesNext
      <4> QED BY <1>0, <2>1, <4>1, <4>2, <4>3
    <3> QED BY <3>2, <3>3, <3>4
  <2> QED BY <2>1, <2>2, <2>3 DEF InMeta
<1> QED BY <1>2, <1>3 DEF Approaches

-----------------------------------------------------------------------------
(***************************************************************************)
(* The theorems                                                            *)
(***************************************************************************)
\* On any page and at any time, write_value_attribute is at work in the tag the
\* name was read in, and the two below hold.
THEOREM MetaInvariance == Spec => []IInv
<1>1. IInv /\ [Next]_vars => IInv'
  <2> SUFFICES ASSUME IInv, [Next]_vars PROVE IInv'
    OBVIOUS
  <2>1. CASE Tag \/ Name \/ ValueOf
    BY <2>1, TagStep, NameStep, ValueOfStep
  <2>2. CASE Return
    BY <2>2, ScanStays DEF Return
  <2>3. CASE UNCHANGED vars
    <3>1. done' \in BOOLEAN
      BY <2>3 DEF vars, IInv, TypeOK
    <3> QED BY <2>3, <3>1, ScanStays DEF vars
  <2> QED BY <2>1, <2>2, <2>3 DEF Next
<1> QED BY InitIInv, <1>1, PTL DEF Spec

\* What is filed under a name is the value of a content attribute behind that name,
\* in the same tag, up to its first quote that is not escaped, on any page.
THEOREM ValuesBelongToTheirName == Spec => []ValuesAreContent
<1>1. IInv => ValuesAreContent
  BY DEF IInv
<1> QED BY <1>1, MetaInvariance, PTL

\* On any page the scan is behind all values and, in a meta tag, behind those of the
\* tags before it, and the one below holds.
THEOREM OneValueInvariance == Spec => []OneInv
<1>1. IInv /\ OneInv /\ [Next]_vars => OneInv'
  <2> SUFFICES ASSUME IInv, OneInv, [Next]_vars PROVE OneInv'
    OBVIOUS
  <2>1. CASE Tag \/ Name \/ ValueOf
    BY <2>1, OneInTag, OneInName, OneInValue
  <2>2. CASE Return \/ UNCHANGED vars
    BY <2>2, OneStays DEF Return, vars
  <2> QED BY <2>1, <2>2 DEF Next
<1> QED BY InitOneInv, <1>1, MetaInvariance, PTL DEF Spec

\* Every value has a meta tag to itself, with the name it is filed under between the
\* tag's beginning and the value: no tag gives two values and no character of the page
\* is filed twice, whatever the page is like.
THEOREM ValuesHaveTheirTag == Spec => []OneValuePerTag
<1>1. OneInv => OneValuePerTag
  BY DEF OneInv
<1> QED BY <1>1, OneValueInvariance, PTL

\* Behind a calm part of a page the scan is ahead of a plain meta tag, in one on the
\* way to it, or has copied its value.
THEOREM PlainMetaInvariance == Spec => []PlainMetasMet
<1>1. Init => PlainMetasMet
  <2> SUFFICES ASSUME Init, NEW m \in PlainMetas PROVE Approaches(m)
    BY DEF PlainMetasMet
  <2>1. text \in Seq(Char) /\ at = 0 /\ mode = "tag" /\ out = {}
    BY MetaAssumption DEF Init
  <2>2. \A n \in PlainMetas : n.at \in Nat /\ n.at >= 1 /\ To(n) \in Nat
    BY <2>1, PlainIs
  <2>3. at <= m.at /\ Outside(at)
    BY <2>1, <2>2 DEF Outside
  <2> QED BY <2>1, <2>3 DEF Approaches
<1>2. PlainMetasMet /\ IInv /\ [Next]_vars => PlainMetasMet'
  <2> SUFFICES ASSUME PlainMetasMet, IInv, [Next]_vars PROVE PlainMetasMet'
    OBVIOUS
  <2>1. text' = text
    BY DEF Next, Tag, Name, ValueOf, Return, vars
  <2>2. ASSUME NEW m \in PlainMetas, Calm(m.at, PlainMetas)
        PROVE  Approaches(m)' \/ ValueAt(m.key, m.attr, m.at)' \in out'
    <3>1. CASE Approaches(m) /\ (Tag \/ Name \/ ValueOf)
      BY <2>2, <3>1, ApproachesStep
    <3>2. CASE Approaches(m) /\ ~(Tag \/ Name \/ ValueOf)
      <4>1. mode' = mode /\ at' = at /\ attr' = attr /\ out' = out
        BY <3>2 DEF Next, Return, vars
      <4>2. \A v \in out' : v.from < m.at
        BY <3>2, <4>1 DEF Approaches
      <4>3. \/ mode' # "value" /\ at' <= m.at /\ Outside(at')
            \/ \E n \in PlainMetas :
                 /\ n.at <= m.at
                 /\ \/ mode' = "name" /\ at' \in {KeyOf(n) - 1, KeyOf(n)}
                    \/ mode' = "value" /\ attr' = n.attr /\ at' \in {QuoteOf(n), QuoteOf(n) + 1}
        BY <3>2, <4>1 DEF Approaches, InMeta
      <4> QED BY <2>1, <4>2, <4>3, ApproachesNext
    <3>3. CASE ValueAt(m.key, m.attr, m.at) \in out
      <4>1. out \subseteq out'
        BY DEF Next, Tag, Name, ValueOf, Return, vars
      <4> QED BY <2>1, <3>3, <4>1, MetasStay
    <3> QED BY <2>2, <3>1, <3>2, <3>3 DEF PlainMetasMet
  <2>3. PlainMetas' = PlainMetas /\ \A i : Calm(i, PlainMetas)' = Calm(i, PlainMetas)
    BY <2>1, MetasStay
  <2> QED BY <2>2, <2>3 DEF PlainMetasMet
<1> QED BY <1>1, <1>2, MetaInvariance, PTL DEF Spec

\* The value of a meta tag written as one is meant to be, in a page that is well
\* written up to it, is copied, unless every name had a value before.
THEOREM NoPlainMetaMissed == Spec => []PlainMetaCopied
<1>1. IInv /\ PlainMetasMet => PlainMetaCopied
  <2> SUFFICES ASSUME IInv, PlainMetasMet, done, NEW m \in PlainMetas, Calm(m.at, PlainMetas),
                      ValueAt(m.key, m.attr, m.at) \notin out
               PROVE  Attributes \subseteq {v.attr : v \in {w \in out : w.from < m.at}}
    BY DEF PlainMetaCopied
  <2>1. Approaches(m)
    BY DEF PlainMetasMet
  <2>2. out = {w \in out : w.from < m.at}
    BY <2>1 DEF Approaches
  <2>3. text \in Seq(Char) /\ at \in Nat /\ at <= End /\ End = Len(text) + 1 /\ Len(text) \in Nat
    <3>1. text \in Seq(Char) /\ at \in 0 .. End
      BY DEF IInv, TypeOK
    <3> QED BY <3>1, EndType
  <2>4. at < End
    <3>1. \A n \in PlainMetas :
            /\ n.at \in Nat /\ KeyOf(n) \in Nat /\ QuoteOf(n) \in Nat
            /\ n.at < Len(text) /\ KeyOf(n) < Len(text) /\ QuoteOf(n) + 1 < Len(text)
      <4> SUFFICES ASSUME NEW n \in PlainMetas
                   PROVE  /\ n.at \in Nat /\ KeyOf(n) \in Nat /\ QuoteOf(n) \in Nat
                          /\ n.at < Len(text) /\ KeyOf(n) < Len(text)
                          /\ QuoteOf(n) + 1 < Len(text)
        OBVIOUS
      <4>1. /\ n.at \in Nat /\ KeyOf(n) \in Nat /\ QuoteOf(n) \in Nat /\ From(n) \in Nat
            /\ To(n) \in Nat /\ From(n) <= To(n) /\ To(n) < Len(text)
        BY <2>3, PlainIs
      <4>2. n.at + 1 <= KeyOf(n) /\ KeyOf(n) < QuoteOf(n) /\ QuoteOf(n) + 2 < From(n)
        BY <2>3, PlainOrder
      <4> QED BY <2>3, <4>1, <4>2
    <3>2. CASE at <= m.at
      BY <2>3, <3>1, <3>2
    <3>3. CASE \E n \in PlainMetas : InMeta(n)
      <4>1. PICK n \in PlainMetas : at \in {KeyOf(n) - 1, KeyOf(n), QuoteOf(n), QuoteOf(n) + 1}
        BY <3>3 DEF InMeta
      <4> QED BY <2>3, <3>1, <4>1
    <3> QED BY <2>1, <3>2, <3>3 DEF Approaches
  <2> QED BY <2>2, <2>4 DEF IInv, ReturnsWithAll
<1> QED BY <1>1, MetaInvariance, PlainMetaInvariance, PTL
=============================================================================
