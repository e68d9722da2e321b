------------------------ MODULE ContentExtractProofs ------------------------
(***************************************************************************)
(* What content-extract copies, for every alphabet and every page.         *)
(***************************************************************************)
EXTENDS ContentExtract, WellFoundedInduction, TLAPS

-----------------------------------------------------------------------------
(***************************************************************************)
(* Recursive functions on an interval, from its upper end down             *)
(***************************************************************************)
LEMMA Descent ==
  ASSUME NEW n \in Nat, NEW G,
         \A k \in 1 .. n : (\A j \in k + 1 .. n : j \in G) => k \in G
  PROVE  \A k \in 1 .. n : k \in G
<1> DEFINE B == {d \in Nat : d < n /\ n - d \notin G}
<1> SUFFICES ASSUME B # {} PROVE FALSE
  <2>1. ASSUME B = {}, NEW k \in 1 .. n PROVE k \in G
    <3>1. n - k \in Nat /\ n - k < n /\ n - (n - k) = k
      OBVIOUS
    <3> QED BY <2>1, <3>1
  <2> QED BY <2>1
<1>1. \E d \in B : \A e \in B : ~(<<e, d>> \in OpToRel(<, Nat))
  <2>1. B \subseteq Nat
    OBVIOUS
  <2> HIDE DEF B
  <2> QED BY <2>1, NatLessThanWellFounded, WFMin
<1>2. PICK d \in B : \A e \in B : ~(e < d)
  BY <1>1 DEF OpToRel
<1>3. \A j \in n - d + 1 .. n : j \in G
  <2> SUFFICES ASSUME NEW j \in n - d + 1 .. n PROVE j \in G
    OBVIOUS
  <2>1. n - j \in Nat /\ n - j < d /\ n - j < n /\ n - (n - j) = j
    BY <1>2
  <2> QED BY <1>2, <2>1
<1>4. n - d \in 1 .. n
  BY <1>2
<1> QED BY <1>2, <1>3, <1>4

LEMMA EndType == text \in Seq(Char) => Len(text) \in Nat /\ End \in Nat /\ End = Len(text) + 1 /\ End >= 1
BY DEF End

\* close_string, as one character after the other.
LEMMA CloseStringRule ==
  ASSUME text \in Seq(Char), NEW i \in 1 .. End + 1
  PROVE  CloseString(i) = CASE i >= End       -> End
                            [] c(i) = "q"     -> i + 1
                            [] c(i) = "\\"    -> CloseString(i + 2)
                            [] OTHER          -> CloseString(i + 1)
<1> DEFINE n == End + 1
           Body(f, j) == CASE j >= End     -> End
                           [] c(j) = "q"   -> j + 1
                           [] c(j) = "\\"  -> f[j + 2]
                           [] OTHER        -> f[j + 1]
           G == {k \in 1 .. n : \E f : f = [j \in k .. n |-> Body(f, j)]}
           close == CHOOSE f : f = [j \in 1 .. n |-> Body(f, j)]
<1>0. End \in Nat /\ End >= 1 /\ n \in Nat /\ 1 \in 1 .. n
  BY EndType
<1>1. \A j \in 1 .. n : j >= End => c(j) = "EOF" /\ \A f : Body(f, j) = End
  BY <1>0, EndType DEF c
<1>2. ASSUME NEW k \in 1 .. n, \A j \in k + 1 .. n : j \in G
      PROVE  k \in G
  <2>1. CASE k >= End
    <3> DEFINE g == [j \in k .. n |-> End]
    <3>1. \A j \in k .. n : j >= End /\ j \in 1 .. n
      BY <1>0, <2>1
    <3>2. g = [j \in k .. n |-> Body(g, j)]
      <4> HIDE DEF Body
      <4> QED BY <1>1, <3>1
    <3> HIDE DEF g, Body
    <3> QED BY <3>2
  <2>2. CASE ~(k >= End)
    <3>1. k + 1 \in k + 1 .. n
      BY <1>0, <2>2
    <3>2. k + 1 \in G
      BY <1>2, <3>1
    <3>3. PICK f : f = [j \in k + 1 .. n |-> Body(f, j)]
      BY <3>2
    <3> DEFINE g == [j \in k .. n |-> IF j = k THEN Body(f, k) ELSE f[j]]
    <3>4. \A j \in k + 1 .. n : j \in k .. n /\ j # k /\ g[j] = f[j]
      BY <1>0
    <3>5. ASSUME NEW j \in k .. n PROVE Body(g, j) = Body(f, j)
      <4>1. CASE j >= End
        <5>1. j \in 1 .. n
          BY <1>0
        <5> HIDE DEF g, Body
        <5> QED BY <1>1, <4>1, <5>1
      <4>2. CASE ~(j >= End)
        <5>1. j + 1 \in k + 1 .. n /\ j + 2 \in k + 1 .. n
          BY <1>0, <4>2
        <5>2. g[j + 1] = f[j + 1] /\ g[j + 2] = f[j + 2]
          BY <3>4, <5>1
        <5> HIDE DEF g
        <5> QED BY <5>2
      <4> QED BY <4>1, <4>2
    <3>6. ASSUME NEW j \in k .. n PROVE g[j] = Body(g, j)
      <4>1. CASE j = k
        <5>1. g[j] = Body(f, k)
          BY <4>1
        <5> HIDE DEF g, Body
        <5> QED BY <3>5, <4>1, <5>1
      <4>2. CASE j # k
        <5>1. j \in k + 1 .. n
          BY <1>0, <4>2
        <5>2. g[j] = f[j] /\ f[j] = Body(f, j)
          <6> HIDE DEF g, Body
          <6> QED BY <3>3, <3>4, <5>1
        <5> HIDE DEF g, Body
        <5> QED BY <3>5, <5>2
      <4> QED BY <4>1, <4>2
    <3>7. g = [j \in k .. n |-> Body(g, j)]
      <4>1. DOMAIN g = k .. n /\ g = [j \in k .. n |-> g[j]]
        OBVIOUS
      <4> HIDE DEF g, Body
      <4> QED BY <3>6, <4>1
    <3> HIDE DEF g, Body
    <3> QED BY <3>7
  <2> QED BY <2>1, <2>2
<1>3. 1 \in G
  <2> HIDE DEF G, n
  <2> QED BY <1>0, <1>2, Descent
<1>4. close = [j \in 1 .. n |-> Body(close, j)]
  <2>1. \E f : f = [j \in 1 .. n |-> Body(f, j)]
    BY <1>3
  <2> HIDE DEF Body, n
  <2> QED BY <2>1
<1>5. \A j : CloseString(j) = close[j]
  BY DEF CloseString
<1>6. close[i] = Body(close, i)
  <2> HIDE DEF close, Body
  <2> QED BY <1>4
<1> HIDE DEF close
<1> QED BY <1>5, <1>6

LEMMA CloseStringBounds ==
  ASSUME text \in Seq(Char), NEW i \in 1 .. End + 1
  PROVE  /\ CloseString(i) \in Int /\ CloseString(i) <= End
         /\ i <= End => CloseString(i) >= i
         /\ i > End => CloseString(i) = End
<1> DEFINE n == End + 1
           G == {k \in 1 .. n : /\ CloseString(k) \in Int /\ CloseString(k) <= End
                                /\ k <= End => CloseString(k) >= k
                                /\ k > End => CloseString(k) = End}
<1>0. End \in Nat /\ End >= 1 /\ n \in Nat
  BY EndType
<1>1. ASSUME NEW k \in 1 .. n, \A j \in k + 1 .. n : j \in G
      PROVE  k \in G
  <2>1. CASE k >= End
    <3>1. c(k) = "EOF"
      BY <1>0, <2>1, EndType DEF c
    <3>2. CloseString(k) = End
      BY <2>1, <3>1, CloseStringRule
    <3> QED BY <1>0, <2>1, <3>2
  <2>2. CASE ~(k >= End)
    <3>1. k + 1 \in k + 1 .. n /\ k + 2 \in k + 1 .. n /\ k <= End /\ ~(k > End) /\ k + 1 <= End
      BY <1>0, <2>2
    <3>2. k + 1 \in G /\ k + 2 \in G
      BY <1>1, <3>1
    <3>3. CloseString(k + 1) \in Int /\ CloseString(k + 1) <= End /\ CloseString(k + 1) >= k
      BY <1>0, <3>1, <3>2
    <3>4. CloseString(k + 2) \in Int /\ CloseString(k + 2) <= End /\ CloseString(k + 2) >= k
      BY <1>0, <2>2, <3>2
    <3>5. CloseString(k) \in {k + 1, CloseString(k + 2), CloseString(k + 1)}
      BY <2>2, CloseStringRule
    <3>6. CloseString(k) \in Int /\ CloseString(k) <= End /\ CloseString(k) >= k
      BY <1>0, <3>1, <3>3, <3>4, <3>5
    <3> QED BY <3>1, <3>6
  <2> QED BY <2>1, <2>2
<1>2. i \in G
  <2> HIDE DEF G
  <2> QED BY <1>0, <1>1, Descent
<1> QED BY <1>2

\* close_tag, as one character after the other.
LEMMA CloseTagRule ==
  ASSUME text \in Seq(Char), NEW i \in 1 .. End
  PROVE  CloseTag(i) = CASE i = End      -> End
                         [] c(i) = ">"   -> i + 1
                         [] c(i) = "q"   -> CloseTag(CloseString(i + 1))
                         [] OTHER        -> CloseTag(i + 1)
<1> DEFINE n == End
           Body(f, j) == CASE j = End     -> End
                           [] c(j) = ">"  -> j + 1
                           [] c(j) = "q"  -> f[CloseString(j + 1)]
                           [] OTHER       -> f[j + 1]
           G == {k \in 1 .. n : \E f : f = [j \in k .. n |-> Body(f, j)]}
           close == CHOOSE f : f = [j \in 1 .. n |-> Body(f, j)]
<1>0. End \in Nat /\ End >= 1 /\ n \in Nat /\ 1 \in 1 .. n
  BY EndType
<1>1. c(End) = "EOF" /\ \A f : Body(f, End) = End
  BY <1>0, EndType DEF c
<1>2. ASSUME NEW k \in 1 .. n, \A j \in k + 1 .. n : j \in G
      PROVE  k \in G
  <2>1. CASE k = End
    <3> DEFINE g == [j \in k .. n |-> End]
    <3>1. \A j \in k .. n : j = End
      BY <1>0, <2>1
    <3>2. g = [j \in k .. n |-> Body(g, j)]
      <4> HIDE DEF Body
      <4> QED BY <1>1, <3>1
    <3> HIDE DEF g, Body
    <3> QED BY <3>2
  <2>2. CASE k # End
    <3>1. k + 1 \in k + 1 .. n
      BY <1>0, <2>2
    <3>2. k + 1 \in G
      BY <1>2, <3>1
    <3>3. PICK f : f = [j \in k + 1 .. n |-> Body(f, j)]
      BY <3>2
    <3> DEFINE g == [j \in k .. n |-> IF j = k THEN Body(f, k) ELSE f[j]]
    <3>4. \A j \in k + 1 .. n : j \in k .. n /\ j # k /\ g[j] = f[j]
      BY <1>0
    <3>5. ASSUME NEW j \in k .. n PROVE Body(g, j) = Body(f, j)
      <4>1. CASE j = End
        <5> HIDE DEF g, Body
        <5> QED BY <1>1, <4>1
      <4>2. CASE j # End
        <5>1. j + 1 \in k + 1 .. n /\ j + 1 \in 1 .. End + 1 /\ j + 1 <= End
          BY <1>0, <4>2
        <5>2. CloseString(j + 1) \in k + 1 .. n
          BY <1>0, <5>1, CloseStringBounds
        <5>3. g[j + 1] = f[j + 1] /\ g[CloseString(j + 1)] = f[CloseString(j + 1)]
          BY <3>4, <5>1, <5>2
        <5> HIDE DEF g
        <5> QED BY <5>3
      <4> QED BY <4>1, <4>2
    <3>6. ASSUME NEW j \in k .. n PROVE g[j] = Body(g, j)
      <4>1. CASE j = k
        <5>1. g[j] = Body(f, k)
          BY <4>1
        <5> HIDE DEF g, Body
        <5> QED BY <3>5, <4>1, <5>1
      <4>2. CASE j # k
        <5>1. j \in k + 1 .. n
          BY <1>0, <4>2
        <5>2. g[j] = f[j] /\ f[j] = Body(f, j)
          <6> HIDE DEF g, Body
          <6> QED BY <3>3, <3>4, <5>1
        <5> HIDE DEF g, Body
        <5> QED BY <3>5, <5>2
      <4> QED BY <4>1, <4>2
    <3>7. g = [j \in k .. n |-> Body(g, j)]
      <4>1. DOMAIN g = k .. n /\ g = [j \in k .. n |-> g[j]]
        OBVIOUS
      <4> HIDE DEF g, Body
      <4> QED BY <3>6, <4>1
    <3> HIDE DEF g, Body
    <3> QED BY <3>7
  <2> QED BY <2>1, <2>2
<1>3. 1 \in G
  <2> HIDE DEF G, n
  <2> QED BY <1>0, <1>2, Descent
<1>4. close = [j \in 1 .. n |-> Body(close, j)]
  <2>1. \E f : f = [j \in 1 .. n |-> Body(f, j)]
    BY <1>3
  <2> HIDE DEF Body, n
  <2> QED BY <2>1
<1>5. \A j : CloseTag(j) = close[j]
  BY DEF CloseTag
<1>6. close[i] = Body(close, i)
  <2> HIDE DEF close, Body
  <2> QED BY <1>4
<1> HIDE DEF close
<1> QED BY <1>5, <1>6

LEMMA CloseTagBounds ==
  ASSUME text \in Seq(Char), NEW i \in 1 .. End
  PROVE  CloseTag(i) \in i .. End
<1> DEFINE G == {k \in 1 .. End : CloseTag(k) \in k .. End}
<1>0. End \in Nat /\ End >= 1
  BY EndType
<1>1. ASSUME NEW k \in 1 .. End, \A j \in k + 1 .. End : j \in G
      PROVE  k \in G
  <2>1. CASE k = End
    <3>1. c(k) = "EOF"
      BY <1>0, <2>1, EndType DEF c
    <3>2. CloseTag(k) = End
      BY <2>1, <3>1, CloseTagRule
    <3> QED BY <1>0, <2>1, <3>2
  <2>2. CASE k # End
    <3>1. k + 1 \in k + 1 .. End /\ k + 1 \in 1 .. End + 1 /\ k + 1 <= End
      BY <1>0, <2>2
    <3>2. CloseString(k + 1) \in k + 1 .. End
      BY <1>0, <3>1, CloseStringBounds
    <3>3. CloseTag(k + 1) \in k .. End /\ CloseTag(CloseString(k + 1)) \in k .. End
      BY <1>0, <1>1, <3>1, <3>2
    <3>4. CloseTag(k) \in {k + 1, CloseTag(CloseString(k + 1)), CloseTag(k + 1)}
      BY <2>2, CloseTagRule
    <3>5. k + 1 \in k .. End
      BY <1>0, <3>1
    <3> QED BY <3>3, <3>4, <3>5
  <2> QED BY <2>1, <2>2
<1>2. i \in G
  <2> HIDE DEF G
  <2> QED BY <1>0, <1>1, Descent
<1> QED BY <1>2

-----------------------------------------------------------------------------
(***************************************************************************)
(* Where a tag's name, an end tag and the seek take the scan               *)
(***************************************************************************)
LEMMA MinOfNat ==
  ASSUME NEW S \in SUBSET Nat, S # {}
  PROVE  Min(S) \in S /\ \A x \in S : Min(S) <= x
<1>1. PICK x \in S : \A y \in S : ~(<<y, x>> \in OpToRel(<, Nat))
  BY NatLessThanWellFounded, WFMin
<1>2. \A y \in S : ~(y < x)
  BY <1>1 DEF OpToRel
<1>3. \A y \in S : x <= y
  <2>1. \A a, b \in Nat : ~(a < b) => b <= a
    OBVIOUS
  <2> QED BY <1>2, <2>1
<1> QED BY <1>3 DEF Min

LEMMA MinPair ==
  ASSUME NEW a \in Nat, NEW b \in Nat
  PROVE  Min({a, b}) = IF a <= b THEN a ELSE b
<1>1. Min({a, b}) \in {a, b} /\ Min({a, b}) <= a /\ Min({a, b}) <= b
  BY MinOfNat
<1> QED BY <1>1

LEMMA NextOpenTagBounds ==
  ASSUME text \in Seq(Char), NEW i \in 0 .. End, i < End
  PROVE  NextOpenTag(i) \in i + 1 .. End
<1> DEFINE S == {j \in DOMAIN text : j >= i /\ text[j] = "<"}
<1>0. End \in Nat /\ End = Len(text) + 1 /\ DOMAIN text = 1 .. Len(text) /\ Len(text) \in Nat
  BY EndType
<1>1. NextOpenTag(i) = IF S = {} THEN End ELSE Min(S) + 1
  BY DEF NextOpenTag
<1>2. CASE S = {}
  BY <1>0, <1>1, <1>2
<1>3. CASE S # {}
  <2>1. S \subseteq Nat /\ \A j \in S : j \in i .. Len(text)
    BY <1>0
  <2>2. Min(S) \in S
    <3> HIDE DEF S
    <3> QED BY <1>3, <2>1, MinOfNat
  <2>3. Min(S) \in i .. Len(text)
    <3> HIDE DEF S
    <3> QED BY <2>1, <2>2
  <2> QED BY <1>0, <1>1, <1>3, <2>3
<1> QED BY <1>2, <1>3

LEMMA NextOpenTagIs ==
  ASSUME text \in Seq(Char), NEW i \in 0 .. End
  PROVE  \/ NextOpenTag(i) = End /\ \A j \in DOMAIN text : j >= i => text[j] # "<"
         \/ \E j \in DOMAIN text : /\ j >= i /\ text[j] = "<" /\ NextOpenTag(i) = j + 1
                                   /\ \A k \in DOMAIN text : k >= i /\ text[k] = "<" => j <= k
<1> DEFINE S == {j \in DOMAIN text : j >= i /\ text[j] = "<"}
<1>0. DOMAIN text = 1 .. Len(text) /\ Len(text) \in Nat
  BY EndType
<1>1. NextOpenTag(i) = IF S = {} THEN End ELSE Min(S) + 1
  BY DEF NextOpenTag
<1>2. CASE S = {}
  BY <1>1, <1>2
<1>3. CASE S # {}
  <2>1. S \in SUBSET Nat
    BY <1>0
  <2>2. Min(S) \in S /\ \A x \in S : Min(S) <= x
    <3> HIDE DEF S
    <3> QED BY <1>3, <2>1, MinOfNat
  <2> DEFINE j == Min(S)
  <2>3. j \in DOMAIN text /\ j >= i /\ text[j] = "<"
    BY <2>2
  <2>4. NextOpenTag(i) = j + 1
    BY <1>1, <1>3
  <2>5. \A k \in DOMAIN text : k >= i /\ text[k] = "<" => j <= k
    BY <2>2
  <2> HIDE DEF j
  <2> QED BY <2>3, <2>4, <2>5
<1> QED BY <1>2, <1>3

\* A tag's name begins with h, so match_tag has read past its first character.
LEMMA NameEndBounds ==
  ASSUME text \in Seq(Char), NEW i \in 1 .. End
  PROVE  /\ NameEnd(i) \in i .. i + 2
         /\ c(i) = "h" => NameEnd(i) \in i + 1 .. i + 2 /\ i < End
<1> DEFINE S == {TagSize} \cup {k \in 0 .. TagSize : Ends(i + k) \/ i + k >= End}
<1>0. End \in Nat /\ i \in Nat
  BY EndType
<1>1. S \subseteq 0 .. 2 /\ S # {} /\ S \subseteq Nat
  BY DEF TagSize
<1>2. Min(S) \in S
  <2> HIDE DEF S
  <2> QED BY <1>1, MinOfNat
<1>3. Min(S) \in 0 .. 2
  <2> HIDE DEF S
  <2> QED BY <1>1, <1>2
<1>4. NameEnd(i) = IF c(i) = "/" THEN i ELSE i + Min(S)
  BY DEF NameEnd
<1>5. ASSUME c(i) = "h" PROVE i < End /\ 0 \notin S
  <2>1. i \in DOMAIN text
    BY <1>5 DEF c
  <2>2. i < End
    BY <2>1, EndType
  <2>3. ~Ends(i + 0)
    BY <1>0, <1>5 DEF Ends
  <2> QED BY <1>0, <2>2, <2>3 DEF TagSize
<1>6. c(i) = "h" => Min(S) \in 1 .. 2 /\ i < End
  <2> HIDE DEF S
  <2> QED BY <1>2, <1>3, <1>5
<1>7. c(i) = "h" => NameEnd(i) = i + Min(S)
  BY <1>4
<1> HIDE DEF S
<1> QED BY <1>0, <1>3, <1>4, <1>6, <1>7

LEMMA TagBegins ==
  ASSUME NEW t \in TagIds, NEW i \in Nat, IsTag(t, i)
  PROVE  c(i) = "h"
<1>1. t \in {1, 2} /\ Tags[t][1] = "h"
  BY DEF TagIds, Tags
<1>2. 1 \in 1 .. TagSize /\ i + 1 - 1 = i
  BY DEF TagSize
<1> QED BY <1>1, <1>2 DEF IsTag

LEMMA EndMatchedBounds ==
  ASSUME NEW t \in TagIds, NEW i \in Nat
  PROVE  EndMatched(t, i) \in 0 .. 2
<1> DEFINE S == {k \in 0 .. TagSize : \A j \in 1 .. k : c(i + j) = Tags[t][j]}
<1>1. S \subseteq 0 .. 2 /\ 0 \in S
  BY DEF TagSize
<1>2. \E x \in S : \A y \in S : x >= y
  <2> HIDE DEF S
  <2>1. CASE 2 \in S
    BY <1>1, <2>1
  <2>2. CASE 2 \notin S /\ 1 \in S
    BY <1>1, <2>2
  <2>3. CASE 2 \notin S /\ 1 \notin S
    BY <1>1, <2>3
  <2> QED BY <2>1, <2>2, <2>3
<1>3. Max(S) \in S
  <2> HIDE DEF S
  <2> QED BY <1>2 DEF Max
<1>4. EndMatched(t, i) = Max(S)
  BY DEF EndMatched
<1> HIDE DEF S
<1> QED BY <1>1, <1>3, <1>4

LEMMA EndTagBounds ==
  ASSUME text \in Seq(Char), NEW t \in TagIds, NEW i \in 1 .. End
  PROVE  /\ EndTagEnd(t, i) \in i .. i + 3
         /\ c(i) # "/" => EndTagEnd(t, i) = i
         /\ c(i) = "/" => EndTagEnd(t, i) > i
         /\ IsEndTag(t, i) => EndTagEnd(t, i) \in i + 1 .. End
<1>0. End \in Nat /\ End = Len(text) + 1 /\ DOMAIN text = 1 .. Len(text) /\ i \in Nat
  BY EndType
<1>1. EndMatched(t, i) \in 0 .. 2
  BY <1>0, EndMatchedBounds
<1>2. EndTagEnd(t, i) = IF c(i) = "/" THEN i + 1 + EndMatched(t, i) ELSE i
  BY DEF EndTagEnd
<1>3. ASSUME IsEndTag(t, i) PROVE EndTagEnd(t, i) \in i + 1 .. End
  <2>1. c(i) = "/" /\ EndMatched(t, i) = 2 /\ Ends(i + 1 + 2)
    BY <1>3 DEF IsEndTag, TagSize
  <2>2. i + 1 + 2 \in DOMAIN text
    BY <2>1 DEF Ends, c
  <2> QED BY <1>0, <1>2, <2>1, <2>2
<1> QED BY <1>0, <1>1, <1>2, <1>3

\* Although the seek goes forward where back was meant, it never goes back past
\* the '<' before the tag.
LEMMA RereadBounds ==
  ASSUME text \in Seq(Char), Len(text) >= 1, NEW i \in 1 .. End, NEW j \in Nat,
         j = i \/ (i < j /\ j < End)
  PROVE  Reread(i, j) \in 1 .. End /\ i - 1 <= Reread(i, j)
<1>0. End \in Nat /\ End = Len(text) + 1 /\ Len(text) \in Nat /\ i \in Nat
  BY EndType
<1>1. Tell(i) = IF i <= Len(text) THEN i ELSE Len(text)
  BY <1>0, MinPair DEF Tell
<1>2. Tell(j) = IF j <= Len(text) THEN j ELSE Len(text)
  BY <1>0, MinPair DEF Tell
<1>3. 2 * Tell(j) - Tell(i) \in Nat /\ 2 * Tell(j) - Tell(i) >= 1
      /\ 2 * Tell(j) - Tell(i) >= i - 1
  BY <1>0, <1>1, <1>2
<1>4. Reread(i, j) = IF 2 * Tell(j) - Tell(i) <= End THEN 2 * Tell(j) - Tell(i) ELSE End
  BY <1>0, <1>3, MinPair DEF Reread
<1> QED BY <1>0, <1>3, <1>4

\* Behind a tag whose name was found at i, the scan is past i.
LEMMA TagBounds ==
  ASSUME text \in Seq(Char), NEW i \in 1 .. End, Tag(i)
  PROVE  /\ at' \in i .. End
         /\ \A t \in TagIds : IsTag(t, i) => i < at'
<1>0. End \in Nat /\ i \in Nat
  BY EndType
<1>1. at' = IF NameEnd(i) >= End THEN End ELSE CloseTag(NameEnd(i))
  BY DEF Tag
<1>2. NameEnd(i) \in i .. i + 2
  BY NameEndBounds
<1>3. CASE NameEnd(i) >= End
  <2>1. c(i) = "h" => i < End
    BY NameEndBounds
  <2> QED BY <1>0, <1>1, <1>3, <2>1, TagBegins
<1>4. CASE ~(NameEnd(i) >= End)
  <2>1. NameEnd(i) \in 1 .. End
    BY <1>0, <1>2, <1>4
  <2>2. at' \in NameEnd(i) .. End
    BY <1>1, <1>4, <2>1, CloseTagBounds
  <2>3. c(i) = "h" => NameEnd(i) \in i + 1 .. i + 2
    BY NameEndBounds
  <2>4. c(i) = "h" => i < at'
    BY <1>0, <2>2, <2>3
  <2> QED BY <1>0, <1>2, <2>2, <2>4, TagBegins
<1> QED BY <1>3, <1>4

\* Where next_open_tag stops, a name stands behind a '<'.
LEMMA StartTaken ==
  ASSUME text \in Seq(Char), NEW i \in 0 .. End, NEW t \in TagIds, IsTag(t, NextOpenTag(i))
  PROVE  Taken(t, NextOpenTag(i))
<1>0. End \in Nat /\ End = Len(text) + 1 /\ DOMAIN text = 1 .. Len(text) /\ Len(text) \in Nat
  BY EndType
<1>1. CASE NextOpenTag(i) = End
  <2>1. c(End) = "h"
    BY <1>0, <1>1, TagBegins
  <2>2. End \in DOMAIN text
    BY <2>1 DEF c
  <2> QED BY <1>0, <2>2
<1>2. CASE \E j \in DOMAIN text : text[j] = "<" /\ NextOpenTag(i) = j + 1
  <2>1. PICK j \in DOMAIN text : text[j] = "<" /\ NextOpenTag(i) = j + 1
    BY <1>2
  <2>2. j + 1 - 1 = j
    BY <1>0
  <2>3. c(NextOpenTag(i) - 1) = "<"
    BY <2>1, <2>2 DEF c
  <2> QED BY <2>3 DEF Taken
<1> QED BY <1>1, <1>2, NextOpenTagIs

\* Where the seek of line 216 stops, behind the '<' before i, a name stands behind
\* that '<' if match_end_tag took nothing, and is landed on if it did.
LEMMA RereadTaken ==
  ASSUME text \in Seq(Char), NEW i \in 2 .. End, NEW h \in TagIds, NEW t \in TagIds,
         text[i - 1] = "<", ~IsEndTag(h, i), ~(c(i) = "/" /\ EndTagEnd(h, i) >= End),
         IsTag(t, Reread(i, EndTagEnd(h, i)))
  PROVE  Taken(t, Reread(i, EndTagEnd(h, i)))
<1> DEFINE j == EndTagEnd(h, i)
           r == Reread(i, j)
<1>0. /\ End \in Nat /\ End = Len(text) + 1 /\ DOMAIN text = 1 .. Len(text) /\ Len(text) \in Nat
      /\ i \in Nat /\ i - 1 \in DOMAIN text /\ c(i - 1) = "<"
  BY EndType DEF c
<1>1. r = Min({2 * Tell(j) - Tell(i), End})
  BY DEF Reread
<1>2. \A n \in Nat : Tell(n) = IF n <= Len(text) THEN n ELSE Len(text)
  BY <1>0, MinPair DEF Tell
<1>3. CASE c(i) # "/"
  <2>1. j = i
    BY <1>3 DEF EndTagEnd
  <2>2. Tell(i) \in Nat /\ Tell(i) <= End /\ 2 * Tell(j) - Tell(i) = Tell(i)
    BY <1>0, <1>2, <2>1
  <2>3. r = Tell(i)
    BY <1>0, <1>1, <2>2, MinPair
  <2>4. CASE i <= Len(text)
    BY <1>0, <1>2, <2>3, <2>4 DEF Taken
  <2>5. CASE ~(i <= Len(text))
    <3>1. Tell(i) = i - 1
      BY <1>0, <1>2, <2>5
    <3>2. c(r) = "<" /\ r \in Nat
      BY <1>0, <2>3, <3>1
    <3> QED BY <3>2, TagBegins
  <2> QED BY <2>4, <2>5
<1>4. CASE c(i) = "/"
  <2> DEFINE m == EndMatched(h, i)
  <2>1. m \in 0 .. 2 /\ j = i + 1 + m /\ j < End /\ j \in Nat
    <3>1. m \in 0 .. 2 /\ j = i + 1 + m
      BY <1>0, <1>4, EndMatchedBounds DEF EndTagEnd
    <3>2. ~(j >= End)
      BY <1>4
    <3> HIDE DEF m, j
    <3> QED BY <1>0, <3>1, <3>2
  <2> HIDE DEF m, j
  <2>2. Tell(j) = j /\ Tell(i) = i
    BY <1>0, <1>2, <2>1
  <2>3. 2 * Tell(j) - Tell(i) = i + 2 * (m + 1) /\ i + 2 * (m + 1) \in Nat
    BY <1>0, <2>1, <2>2
  <2>4. r = IF i + 2 * (m + 1) <= End THEN i + 2 * (m + 1) ELSE End
    BY <1>0, <1>1, <2>3, MinPair
  <2> HIDE DEF r
  <2>5. c(r) = "h"
    <3>1. r \in Nat
      BY <1>0, <2>3, <2>4
    <3> QED BY <3>1, TagBegins DEF r, j
  <2>6. r = i + 2 * (m + 1)
    <3>1. r \in DOMAIN text
      BY <2>5 DEF c
    <3> QED BY <1>0, <2>3, <2>4, <3>1
  <2>7. r - 2 * (m + 1) = i /\ m \in 0 .. TagSize
    BY <1>0, <2>1, <2>6 DEF TagSize
  <2>8. c(i - 1) = "<" /\ c(i) = "/" /\ EndMatched(h, i) = m /\ ~IsEndTag(h, i)
    BY <1>0, <1>4 DEF m
  <2>9. Landing(r)
    BY <2>7, <2>8 DEF Landing
  <2> QED BY <2>9 DEF Taken, r, j
<1> QED BY <1>3, <1>4

LEMMA TakenStays ==
  ASSUME text' = text
  PROVE  \A t, i : Taken(t, i)' = Taken(t, i)
<1>1. \A i : c(i)' = c(i)
  BY DEF c
<1>2. \A i : Ends(i)' = Ends(i)
  BY <1>1 DEF Ends
<1>3. \A t, i : IsTag(t, i)' = IsTag(t, i) /\ EndMatched(t, i)' = EndMatched(t, i)
  BY <1>1, <1>2 DEF IsTag, EndMatched
<1>4. \A t, i : IsEndTag(t, i)' = IsEndTag(t, i)
  BY <1>1, <1>2, <1>3 DEF IsEndTag
<1>5. \A i : Landing(i)' = Landing(i)
  BY <1>1, <1>3, <1>4 DEF Landing
<1> QED BY <1>1, <1>3, <1>5 DEF Taken

-----------------------------------------------------------------------------
(***************************************************************************)
(* The inductive invariant, one part after the other                       *)
(***************************************************************************)
\* A character is copied only where the scan is, a line break anywhere: what was
\* copied stays in order, apart from the other file's, and behind its tag.
LEMMA PutKeeps ==
  ASSUME IInv, frames # <<>>, text' = text, at' \in 0 .. End, at <= at',
         NEW v \in 0 .. Len(text), v < at', v # 0 => v = at, Put(v)
  PROVE  /\ out' \in [TagIds -> Seq(0 .. Len(text))]
         /\ CopiedBefore' /\ CopiedOnce' /\ CopiedBehindTag'
<1> DEFINE h == Head(frames)
           l == Len(out[h]) + 1
<1>0. /\ at \in Nat /\ at' \in Nat /\ Len(text) \in Nat /\ v \in Nat
      /\ out \in [TagIds -> Seq(0 .. Len(text))] /\ frames \in Seq(TagIds)
  BY EndType DEF IInv, TypeOK
<1>1. h \in TagIds /\ 1 \in DOMAIN frames /\ h = frames[1]
  BY <1>0
<1>2. out' = [out EXCEPT ![h] = Append(out[h], v)]
  BY DEF Put
<1>3. out' \in [TagIds -> Seq(0 .. Len(text))]
  BY <1>0, <1>1, <1>2
<1>4. \A t \in TagIds : t # h => out'[t] = out[t]
  BY <1>0, <1>2
<1>5. out'[h] = Append(out[h], v) /\ out[h] \in Seq(0 .. Len(text))
  BY <1>0, <1>1, <1>2
<1>6. /\ l \in Nat /\ DOMAIN out[h] = 1 .. l - 1 /\ DOMAIN out'[h] = 1 .. l
      /\ \A n \in 1 .. l - 1 : out'[h][n] = out[h][n]
      /\ out'[h][l] = v
  <2> DEFINE s == out[h]
  <2>1. s \in Seq(0 .. Len(text)) /\ out'[h] = Append(s, v) /\ l = Len(s) + 1
    BY <1>5
  <2> HIDE DEF s, l, h
  <2>2. /\ l \in Nat /\ DOMAIN s = 1 .. l - 1 /\ DOMAIN out'[h] = 1 .. l
        /\ \A n \in 1 .. l - 1 : out'[h][n] = s[n]
        /\ out'[h][l] = v
    BY <2>1
  <2> QED BY <2>2 DEF s
<1> HIDE DEF h, l
<1>7. \A t \in TagIds : \A n \in DOMAIN out[t] : out[t][n] < at /\ out[t][n] \in Nat
  BY <1>0 DEF IInv, CopiedBefore
\* Each entry of out' is one of out, in its place, or the new one.
<1>8. \A t \in TagIds : \A n \in DOMAIN out'[t] :
        \/ n \in DOMAIN out[t] /\ out'[t][n] = out[t][n]
        \/ t = h /\ n = l /\ out'[t][n] = v
  <2> SUFFICES ASSUME NEW t \in TagIds, NEW n \in DOMAIN out'[t]
               PROVE  \/ n \in DOMAIN out[t] /\ out'[t][n] = out[t][n]
                      \/ t = h /\ n = l /\ out'[t][n] = v
    OBVIOUS
  <2>1. CASE t = h
    <3>1. n \in 1 .. l - 1 \/ n = l
      BY <1>6, <2>1
    <3> QED BY <1>6, <2>1, <3>1
  <2>2. CASE t # h
    BY <1>4, <2>2
  <2> QED BY <2>1, <2>2
<1>9. CopiedBefore'
  <2> SUFFICES ASSUME NEW t \in TagIds, NEW n \in DOMAIN out'[t]
               PROVE  out'[t][n] < at'
    BY DEF CopiedBefore
  <2>1. CASE n \in DOMAIN out[t] /\ out'[t][n] = out[t][n]
    BY <1>0, <1>7, <2>1
  <2>2. CASE out'[t][n] = v
    BY <2>2
  <2> QED BY <1>8, <2>1, <2>2
\* What a file has copied has grown by the character at the scan at most.
<1>10. \A t \in TagIds : \A j \in Copied(t)' :
         j \in Copied(t) \/ (t = h /\ j = at /\ v # 0)
  <2> SUFFICES ASSUME NEW t \in TagIds, NEW n \in DOMAIN out'[t], out'[t][n] # 0
               PROVE  out'[t][n] \in Copied(t) \/ (t = h /\ out'[t][n] = at /\ v # 0)
    BY DEF Copied
  <2>1. CASE n \in DOMAIN out[t] /\ out'[t][n] = out[t][n]
    BY <2>1 DEF Copied
  <2>2. CASE t = h /\ out'[t][n] = v
    BY <2>2
  <2> QED BY <1>8, <2>1, <2>2
<1>11. \A t \in TagIds : at \notin Copied(t)
  BY <1>0, <1>7 DEF Copied
<1>12. CopiedOnce'
  <2>1. ASSUME NEW t \in TagIds, NEW m \in DOMAIN out'[t], NEW n \in DOMAIN out'[t],
               m < n, out'[t][m] # 0, out'[t][n] # 0
        PROVE  out'[t][m] < out'[t][n]
    <3>1. CASE n \in DOMAIN out[t] /\ out'[t][n] = out[t][n]
      <4>1. ~(t = h /\ m = l)
        BY <1>6, <2>1, <3>1
      <4>2. m \in DOMAIN out[t] /\ out'[t][m] = out[t][m]
        BY <1>8, <4>1
      <4> QED BY <2>1, <3>1, <4>2 DEF IInv, CopiedOnce
    <3>2. CASE t = h /\ n = l /\ out'[t][n] = v
      <4>1. m # l
        BY <1>6, <2>1, <3>2
      <4>2. m \in DOMAIN out[t] /\ out'[t][m] = out[t][m]
        BY <1>8, <4>1
      <4> QED BY <1>7, <2>1, <3>2, <4>2
    <3> QED BY <1>8, <3>1, <3>2
  <2>2. ASSUME NEW t \in TagIds, NEW u \in TagIds, t # u
        PROVE  Copied(t)' \cap Copied(u)' = {}
    <3>1. Copied(t) \cap Copied(u) = {}
      BY <2>2 DEF IInv, CopiedOnce
    <3> QED BY <1>10, <1>11, <2>2, <3>1
  <2> QED BY <2>1, <2>2 DEF CopiedOnce
<1>13. \A t \in TagIds : \A i : Taken(t, i)' = Taken(t, i)
  BY TakenStays
<1>14. CopiedBehindTag'
  <2> SUFFICES ASSUME NEW t \in TagIds, NEW j \in Copied(t)'
               PROVE  \E i \in 1 .. j - 1 : Taken(t, i)
    BY <1>13 DEF CopiedBehindTag
  <2>1. CASE j \in Copied(t)
    BY <2>1 DEF IInv, CopiedBehindTag
  <2>2. CASE t = h /\ j = at
    <3>1. Opened(h)
      BY <1>1 DEF IInv, FramesOpened
    <3> QED BY <2>2, <3>1 DEF Opened
  <2> QED BY <1>10, <2>1, <2>2
<1> QED BY <1>3, <1>9, <1>12, <1>14

LEMMA OpenedStays ==
  ASSUME IInv, at' \in 0 .. End, at <= at', NEW t, Opened(t)
  PROVE  \E i \in 1 .. at' - 1 : Taken(t, i)
<1>1. at \in Nat /\ at' \in Nat
  BY EndType DEF IInv, TypeOK
<1>2. PICK i \in 1 .. at - 1 : Taken(t, i)
  BY DEF Opened
<1>3. \A k, m, n \in Nat : k \in 1 .. m - 1 /\ m <= n => k \in 1 .. n - 1
  OBVIOUS
<1>4. i \in Nat
  BY <1>1
<1> QED BY <1>1, <1>2, <1>3, <1>4

LEMMA FramesOpenedNext ==
  ASSUME text' = text, \A n \in DOMAIN frames' : \E i \in 1 .. at' - 1 : Taken(frames'[n], i)
  PROVE  FramesOpened'
<1>1. \A t, i : Taken(t, i)' = Taken(t, i)
  BY TakenStays
<1> QED BY <1>1 DEF FramesOpened, Opened

\* Where a tag's name was found, the call of write for it begins behind the name.
LEMMA TagOpens ==
  ASSUME IInv, text' = text, NEW i \in 1 .. End, at <= at', Tag(i),
         \A t \in TagIds : IsTag(t, i) => Taken(t, i)
  PROVE  at' \in i .. End /\ frames' \in Seq(TagIds) /\ FramesOpened'
<1>0. /\ End \in Nat /\ at \in Nat /\ frames \in Seq(TagIds) /\ text \in Seq(Char)
      /\ at' \in i .. End /\ at' \in 0 .. End
  BY EndType, TagBounds DEF IInv, TypeOK
<1>1. \A n \in DOMAIN frames : \E k \in 1 .. at' - 1 : Taken(frames[n], k)
  BY <1>0, OpenedStays DEF IInv, FramesOpened
<1>2. CASE \E t \in TagIds : IsTag(t, i)
  <2> DEFINE h == CHOOSE t \in TagIds : IsTag(t, i)
  <2>1. h \in TagIds /\ IsTag(h, i) /\ Taken(h, i)
    BY <1>2
  <2>2. frames' = <<h>> \o frames
    BY <1>2 DEF Tag
  <2> HIDE DEF h
  <2>3. i < at'
    BY <1>0, <2>1, TagBounds
  <2>4. i \in 1 .. at' - 1
    <3>1. i \in Nat /\ i >= 1 /\ at' \in Nat
      BY <1>0
    <3>2. \A m, n \in Nat : m >= 1 /\ m < n => m \in 1 .. n - 1
      OBVIOUS
    <3> QED BY <2>3, <3>1, <3>2
  <2>5. /\ DOMAIN frames = 1 .. Len(frames) /\ Len(frames) \in Nat
        /\ DOMAIN frames' = 1 .. Len(frames) + 1 /\ frames'[1] = h
        /\ \A n \in 2 .. Len(frames) + 1 : frames'[n] = frames[n - 1]
    BY <1>0, <2>1, <2>2
  <2>6. \A n \in 1 .. Len(frames) + 1 : n = 1 \/ (n \in 2 .. Len(frames) + 1 /\ n - 1 \in 1 .. Len(frames))
    BY <2>5
  <2>7. \A n \in DOMAIN frames' : \E k \in 1 .. at' - 1 : Taken(frames'[n], k)
    <3> SUFFICES ASSUME NEW n \in DOMAIN frames'
                 PROVE  \E k \in 1 .. at' - 1 : Taken(frames'[n], k)
      OBVIOUS
    <3>1. CASE n = 1
      BY <2>1, <2>4, <2>5, <3>1
    <3>2. CASE n \in 2 .. Len(frames) + 1 /\ n - 1 \in 1 .. Len(frames)
      BY <1>1, <2>5, <3>2
    <3> QED BY <2>5, <2>6, <3>1, <3>2
  <2>8. FramesOpened'
    BY <2>7, FramesOpenedNext
  <2>9. frames' \in Seq(TagIds)
    BY <1>0, <2>1, <2>2
  <2> QED BY <1>0, <2>8, <2>9
<1>3. CASE ~\E t \in TagIds : IsTag(t, i)
  <2>1. frames' = frames
    BY <1>3 DEF Tag
  <2>2. FramesOpened'
    BY <1>1, <2>1, FramesOpenedNext
  <2> QED BY <1>0, <2>1, <2>2
<1> QED BY <1>2, <1>3

-----------------------------------------------------------------------------
(***************************************************************************)
(* The steps                                                               *)
(***************************************************************************)
LEMMA InitIInv == Init => IInv
<1> SUFFICES ASSUME Init PROVE IInv
  OBVIOUS
<1>1. text \in Seq(Char) /\ End \in Nat /\ Len(text) \in Nat
  BY ContentAssumption, EndType DEF Init
<1>2. \A t \in TagIds : DOMAIN out[t] = {}
  BY DEF Init
<1>3. TypeOK
  <2>1. out \in [TagIds -> Seq(0 .. Len(text))]
    BY DEF Init
  <2>2. at \in 0 .. End /\ frames \in Seq(TagIds) /\ done \in BOOLEAN
    <3>1. at = 0 /\ frames = <<>> /\ done = FALSE
      BY DEF Init
    <3>2. <<>> \in Seq(TagIds)
      OBVIOUS
    <3>3. 0 \in 0 .. End
      BY <1>1
    <3> QED BY <3>1, <3>2, <3>3
  <2> QED BY <1>1, <2>1, <2>2 DEF TypeOK
<1>4. \A t \in TagIds : Copied(t) = {}
  BY <1>2 DEF Copied
<1>5. CopiedBefore /\ CopiedOnce /\ CopiedBehindTag
  BY <1>2, <1>4 DEF CopiedBefore, CopiedOnce, CopiedBehindTag
<1>6. FramesOpened
  BY DEF FramesOpened, Init
<1> QED BY <1>3, <1>5, <1>6 DEF IInv

\* A step that copies nothing and does not take the scan back.
LEMMA OutStays ==
  ASSUME IInv, text' = text, out' = out, at' \in 0 .. End, at <= at'
  PROVE  CopiedBefore' /\ CopiedOnce' /\ CopiedBehindTag'
<1>1. CopiedBefore'
  <2> SUFFICES ASSUME NEW t \in TagIds, NEW n \in DOMAIN out[t]
               PROVE  out[t][n] < at'
    BY DEF CopiedBefore
  <2>1. out[t][n] < at /\ out[t][n] \in Nat /\ at \in Nat /\ at' \in Nat
    BY EndType DEF IInv, TypeOK, CopiedBefore
  <2> QED BY <2>1
<1>2. CopiedOnce'
  BY DEF IInv, CopiedOnce, Copied
<1>3. CopiedBehindTag'
  <2>1. \A t \in TagIds : \A i : Taken(t, i)' = Taken(t, i)
    BY TakenStays
  <2>2. \A t \in TagIds : Copied(t)' = Copied(t)
    BY DEF Copied
  <2> QED BY <2>1, <2>2 DEF IInv, CopiedBehindTag
<1> QED BY <1>1, <1>2, <1>3

LEMMA StartStep ==
  ASSUME IInv, Start
  PROVE  IInv'
<1> DEFINE i == NextOpenTag(at)
<1>1. /\ text' = text /\ out' = out /\ done' = done /\ Tag(i) /\ at < End /\ text \in Seq(Char)
      /\ at \in 0 .. End /\ End \in Nat /\ done \in BOOLEAN
      /\ out \in [TagIds -> Seq(0 .. Len(text))]
  BY EndType DEF Start, IInv, TypeOK
<1>2. i \in at + 1 .. End
  BY <1>1, NextOpenTagBounds
<1> HIDE DEF i
<1>3. i \in 1 .. End
  BY <1>1, <1>2
<1>4. at' \in i .. End
  BY <1>1, <1>3, TagBounds
<1>5. at' \in 0 .. End /\ at <= at'
  BY <1>1, <1>2, <1>3, <1>4
<1>6. frames' \in Seq(TagIds) /\ FramesOpened'
  <2>1. \A t \in TagIds : IsTag(t, i) => Taken(t, i)
    BY <1>1, <1>2, StartTaken DEF i
  <2> QED BY <1>1, <1>3, <1>5, <2>1, TagOpens
<1>7. CopiedBefore' /\ CopiedOnce' /\ CopiedBehindTag'
  BY <1>1, <1>5, OutStays
<1>8. TypeOK'
  BY <1>1, <1>5, <1>6 DEF TypeOK, End
<1> QED BY <1>6, <1>7, <1>8 DEF IInv

\* While write is at work the scan is past a tag, so past the first character.
LEMMA WritingIsInside ==
  ASSUME IInv, Writing
  PROVE  /\ text \in Seq(Char) /\ at \in 1 .. Len(text) /\ at \in Nat /\ Len(text) \in Nat
         /\ End = Len(text) + 1 /\ End \in Nat
         /\ frames \in Seq(TagIds) /\ frames # <<>> /\ Head(frames) \in TagIds
         /\ done \in BOOLEAN
<1>1. /\ text \in Seq(Char) /\ at \in 0 .. End /\ End \in Nat /\ End = Len(text) + 1
      /\ Len(text) \in Nat /\ frames \in Seq(TagIds) /\ frames # <<>> /\ at < End /\ done \in BOOLEAN
  BY EndType DEF IInv, TypeOK, Writing
<1>2. 1 \in DOMAIN frames /\ Head(frames) = frames[1] /\ Head(frames) \in TagIds
  BY <1>1
<1>3. \E i \in 1 .. at - 1 : Taken(frames[1], i)
  BY <1>2 DEF IInv, FramesOpened, Opened
<1>4. at >= 1
  BY <1>1, <1>3
<1> QED BY <1>1, <1>2, <1>4

LEMMA CopyStep ==
  ASSUME IInv, Copy
  PROVE  IInv'
<1>1. /\ text \in Seq(Char) /\ at \in 1 .. Len(text) /\ at \in Nat /\ Len(text) \in Nat
      /\ End = Len(text) + 1 /\ frames \in Seq(TagIds) /\ frames # <<>> /\ done \in BOOLEAN
  BY WritingIsInside DEF Copy
<1>2. /\ text' = text /\ frames' = frames /\ done' = done /\ Put(at) /\ at' = at + 1
  BY DEF Copy
<1>3. at' \in 0 .. End /\ at <= at' /\ at < at' /\ at \in 0 .. Len(text)
  BY <1>1, <1>2
<1>4. /\ out' \in [TagIds -> Seq(0 .. Len(text))]
      /\ CopiedBefore' /\ CopiedOnce' /\ CopiedBehindTag'
  BY <1>1, <1>2, <1>3, PutKeeps
<1>5. FramesOpened'
  <2>1. \A n \in DOMAIN frames : \E i \in 1 .. at' - 1 : Taken(frames[n], i)
    BY <1>3, OpenedStays DEF IInv, FramesOpened
  <2> QED BY <1>2, <2>1, FramesOpenedNext
<1>6. TypeOK'
  BY <1>1, <1>2, <1>3, <1>4 DEF TypeOK, End
<1> QED BY <1>4, <1>5, <1>6 DEF IInv

LEMMA OwnEndTagStep ==
  ASSUME IInv, OwnEndTag
  PROVE  IInv'
<1> DEFINE h == Head(frames)
           j == EndTagEnd(h, at + 1)
<1>1. /\ text \in Seq(Char) /\ at \in 1 .. Len(text) /\ at \in Nat /\ Len(text) \in Nat
      /\ End = Len(text) + 1 /\ End \in Nat /\ frames \in Seq(TagIds) /\ frames # <<>>
      /\ h \in TagIds /\ done \in BOOLEAN
  BY WritingIsInside DEF OwnEndTag
<1>2. /\ text' = text /\ frames' = Tail(frames) /\ done' = done /\ Put(0) /\ at' = CloseTag(j)
      /\ IsEndTag(h, at + 1)
  BY DEF OwnEndTag
<1> HIDE DEF h
<1>3. at + 1 \in 1 .. End
  BY <1>1
<1>4. j \in at + 1 + 1 .. End
  BY <1>1, <1>2, <1>3, EndTagBounds
<1> HIDE DEF j
<1>5. j \in 1 .. End /\ j > at /\ j \in Nat
  BY <1>1, <1>4
<1>6. at' \in j .. End
  BY <1>1, <1>2, <1>5, CloseTagBounds
<1>7. at' \in 0 .. End /\ at <= at' /\ 0 < at' /\ 0 \in 0 .. Len(text)
  BY <1>1, <1>5, <1>6
<1>8. /\ out' \in [TagIds -> Seq(0 .. Len(text))]
      /\ CopiedBefore' /\ CopiedOnce' /\ CopiedBehindTag'
  BY <1>1, <1>2, <1>7, PutKeeps
<1>9. frames' \in Seq(TagIds) /\ \A n \in DOMAIN frames' : n + 1 \in DOMAIN frames /\ frames'[n] = frames[n + 1]
  BY <1>1, <1>2
<1>10. FramesOpened'
  <2>1. \A n \in DOMAIN frames : \E i \in 1 .. at' - 1 : Taken(frames[n], i)
    BY <1>7, OpenedStays DEF IInv, FramesOpened
  <2>2. \A n \in DOMAIN frames' : \E i \in 1 .. at' - 1 : Taken(frames'[n], i)
    BY <1>9, <2>1
  <2> QED BY <1>2, <2>2, FramesOpenedNext
<1>11. TypeOK'
  BY <1>1, <1>2, <1>7, <1>8, <1>9 DEF TypeOK, End
<1> QED BY <1>8, <1>10, <1>11 DEF IInv

LEMMA OtherTagStep ==
  ASSUME IInv, OtherTag
  PROVE  IInv'
<1> DEFINE h == Head(frames)
           p == at + 1
           j == EndTagEnd(h, p)
           i == Reread(p, j)
<1>1. /\ text \in Seq(Char) /\ at \in 1 .. Len(text) /\ at \in Nat /\ Len(text) \in Nat
      /\ End = Len(text) + 1 /\ End \in Nat /\ frames \in Seq(TagIds) /\ frames # <<>>
      /\ h \in TagIds /\ done \in BOOLEAN
  BY WritingIsInside DEF OtherTag
<1>2. /\ text' = text /\ done' = done /\ Put(0)
      /\ \/ c(p) = "/" /\ j >= End /\ at' = End /\ frames' = frames
         \/ ~(c(p) = "/" /\ j >= End) /\ Tag(i)
  BY DEF OtherTag
<1> HIDE DEF h
<1>3. p \in 1 .. End
  BY <1>1
<1>4. j \in p .. p + 3 /\ (c(p) # "/" => j = p) /\ (c(p) = "/" => j > p)
  BY <1>1, <1>3, EndTagBounds
<1> HIDE DEF j
<1>5. CASE c(p) = "/" /\ j >= End /\ at' = End /\ frames' = frames
  <2>1. at' \in 0 .. End /\ at <= at' /\ 0 < at' /\ 0 \in 0 .. Len(text)
    BY <1>1, <1>5
  <2>2. /\ out' \in [TagIds -> Seq(0 .. Len(text))]
        /\ CopiedBefore' /\ CopiedOnce' /\ CopiedBehindTag'
    BY <1>1, <1>2, <2>1, PutKeeps
  <2>3. FramesOpened'
    <3>1. \A n \in DOMAIN frames : \E k \in 1 .. at' - 1 : Taken(frames[n], k)
      BY <2>1, OpenedStays DEF IInv, FramesOpened
    <3> QED BY <1>2, <1>5, <3>1, FramesOpenedNext
  <2>4. TypeOK'
    BY <1>1, <1>2, <1>5, <2>1, <2>2 DEF TypeOK, End
  <2> QED BY <2>2, <2>3, <2>4 DEF IInv
<1>6. CASE ~(c(p) = "/" /\ j >= End) /\ Tag(i)
  <2>0. text[at] = "<" /\ ~IsEndTag(h, p)
    BY DEF OtherTag, h
  <2>1. j \in Nat /\ Len(text) >= 1 /\ (j = p \/ (p < j /\ j < End))
    BY <1>1, <1>4, <1>6
  <2>2. i \in 1 .. End /\ p - 1 <= i
    <3>1. text \in Seq(Char) /\ Len(text) >= 1 /\ j \in Nat /\ p \in 1 .. End
      BY <1>1, <1>3, <2>1
    <3>2. j = p \/ (p < j /\ j < End)
      BY <2>1
    <3> HIDE DEF p
    <3> QED BY <3>1, <3>2, RereadBounds
  <2> HIDE DEF i
  <2>3. at' \in i .. End
    BY <1>1, <1>6, <2>2, TagBounds
  <2>4. at' \in 0 .. End /\ at <= at' /\ 0 < at' /\ 0 \in 0 .. Len(text)
    BY <1>1, <2>2, <2>3
  <2>5. /\ out' \in [TagIds -> Seq(0 .. Len(text))]
        /\ CopiedBefore' /\ CopiedOnce' /\ CopiedBehindTag'
    BY <1>1, <1>2, <2>4, PutKeeps
  <2>6. frames' \in Seq(TagIds) /\ FramesOpened'
    <3>1. \A t \in TagIds : IsTag(t, i) => Taken(t, i)
      BY <1>1, <1>6, <2>0, RereadTaken DEF i, j, p
    <3> QED BY <1>2, <1>6, <2>2, <2>4, <3>1, TagOpens
  <2>7. TypeOK'
    BY <1>1, <1>2, <2>4, <2>5, <2>6 DEF TypeOK, End
  <2> QED BY <2>5, <2>6, <2>7 DEF IInv
<1> QED BY <1>2, <1>5, <1>6

\* Neither main's return nor a stuttering step moves the scan.
LEMMA ScanStays ==
  ASSUME IInv, text' = text, at' = at, frames' = frames, out' = out, done' \in BOOLEAN
  PROVE  IInv'
<1>1. TypeOK'
  BY DEF IInv, TypeOK, End
<1>2. CopiedBefore' /\ CopiedOnce' /\ CopiedBehindTag'
  <2>1. at' \in 0 .. End /\ at <= at'
    BY EndType DEF IInv, TypeOK
  <2> QED BY <2>1, OutStays
<1>3. FramesOpened'
  <2>1. \A n \in DOMAIN frames : \E i \in 1 .. at' - 1 : Taken(frames[n], i)
    BY DEF IInv, FramesOpened, Opened
  <2> QED BY <2>1, FramesOpenedNext
<1> QED BY <1>1, <1>2, <1>3 DEF IInv

-----------------------------------------------------------------------------
(***************************************************************************)
(* The scan of a calm page                                                 *)
(***************************************************************************)
LEMMA EndsAt ==
  ASSUME NEW i
  PROVE  /\ c(i) = ">" => Ends(i)
         /\ c(i) \in {"h", "1", "2", "/", "EOF"} => ~Ends(i)
<1>1. c(i) = ">" => Ends(i)
  BY DEF Ends
<1>2. c(i) \in {"h", "1", "2", "/", "EOF"} => ~Ends(i)
  BY DEF Ends
<1> QED BY <1>1, <1>2

LEMMA CharIs ==
  ASSUME text \in Seq(Char), NEW i \in Nat
  PROVE  /\ c(i) # "EOF" => i \in 1 .. Len(text) /\ c(i) = text[i]
         /\ i \in 1 .. Len(text) => c(i) = text[i]
         /\ i >= End => c(i) = "EOF"
<1>1. Len(text) \in Nat /\ DOMAIN text = 1 .. Len(text) /\ End = Len(text) + 1
  BY EndType
<1> QED BY <1>1 DEF c

\* Behind a '>' the tag is closed, and no later than behind the first that no
\* string hides.
LEMMA CloseTagIs ==
  ASSUME text \in Seq(Char), NEW n \in 1 .. Len(text), text[n] = ">",
         NEW m \in 1 .. n, \A j \in m .. n : text[j] # "q"
  PROVE  CloseTag(m) \in m + 1 .. n + 1 /\ CloseTag(n) = n + 1
<1> DEFINE G == {k \in 1 .. n : m <= k => CloseTag(k) \in k + 1 .. n + 1}
<1>0. Len(text) \in Nat /\ End \in Nat /\ End = Len(text) + 1 /\ n \in Nat /\ n >= 1
  BY EndType
<1>1. \A k \in 1 .. n : k \in 1 .. End /\ k # End /\ c(k) = text[k]
  <2>1. \A k \in 1 .. n : k \in Nat /\ k \in 1 .. End /\ k # End /\ k \in 1 .. Len(text)
    BY <1>0
  <2> QED BY <2>1, CharIs
<1>2. CloseTag(n) = n + 1
  <2>1. n \in 1 .. n
    BY <1>0
  <2> QED BY <1>1, <2>1, CloseTagRule
<1>3. ASSUME NEW k \in 1 .. n, \A j \in k + 1 .. n : j \in G
      PROVE  k \in G
  <2> SUFFICES ASSUME m <= k PROVE CloseTag(k) \in k + 1 .. n + 1
    OBVIOUS
  <2>1. CASE text[k] = ">"
    <3>1. CloseTag(k) = k + 1
      BY <1>1, <2>1, CloseTagRule
    <3> QED BY <1>0, <3>1
  <2>2. CASE text[k] # ">"
    <3>1. k + 1 \in k + 1 .. n /\ m <= k + 1 /\ k \in m .. n
      BY <1>0, <2>2
    <3>2. CloseTag(k) = CloseTag(k + 1)
      BY <1>1, <2>2, <3>1, CloseTagRule
    <3>3. CloseTag(k + 1) \in k + 1 + 1 .. n + 1
      BY <1>3, <3>1
    <3> QED BY <1>0, <3>2, <3>3
  <2> QED BY <2>1, <2>2
<1>4. m \in G
  <2> HIDE DEF G
  <2> QED BY <1>0, <1>3, Descent
<1>5. m <= m
  BY <1>0
<1> QED BY <1>2, <1>4, <1>5

\* A tag's name, what there is of it or whatever it is, ends before the tag does.
LEMMA NameEndIs ==
  ASSUME text \in Seq(Char), NEW i \in 1 .. End, NEW n \in i .. Len(text), text[n] = ">"
  PROVE  NameEnd(i) \in i .. n
<1> DEFINE S == {TagSize} \cup {k \in 0 .. TagSize : Ends(i + k) \/ i + k >= End}
<1>0. End \in Nat /\ End = Len(text) + 1 /\ Len(text) \in Nat /\ i \in Nat /\ n \in Nat /\ n >= i
  BY EndType
<1>1. S \subseteq 0 .. 2 /\ S \subseteq Nat /\ S # {} /\ 2 \in S
  BY DEF TagSize
<1>2. Min(S) \in S /\ \A x \in S : Min(S) <= x
  <2> HIDE DEF S
  <2> QED BY <1>1, MinOfNat
<1>3. NameEnd(i) = IF c(i) = "/" THEN i ELSE i + Min(S)
  BY DEF NameEnd
<1>4. Ends(n)
  <2>1. c(n) = ">"
    BY <1>0, CharIs
  <2> QED BY <2>1, EndsAt
<1>5. n - i \in 0 .. 2 => n - i \in S
  <2>1. i + (n - i) = n
    BY <1>0
  <2> QED BY <1>4, <2>1 DEF TagSize
<1> HIDE DEF S
<1>6. Min(S) \in 0 .. 2
  BY <1>1, <1>2
<1>7. Min(S) <= n - i
  <2>1. CASE n - i \in 0 .. 2
    BY <1>2, <1>5, <2>1
  <2>2. CASE n - i \notin 0 .. 2
    BY <1>0, <1>6, <2>2
  <2> QED BY <2>1, <2>2
<1>8. i + Min(S) \in i .. n /\ i \in i .. n
  BY <1>0, <1>6, <1>7
<1> QED BY <1>3, <1>8

\* The name of a tag is read to its end, and is no other tag's.
LEMMA TagIs ==
  ASSUME text \in Seq(Char), NEW t \in TagIds, NEW i \in Nat, i >= 1, IsTag(t, i)
  PROVE  /\ NameEnd(i) = i + 2 /\ i + 2 \in 1 .. Len(text)
         /\ c(i) = "h" /\ c(i + 1) \in {"1", "2"} /\ Ends(i + 2)
         /\ \A u \in TagIds : IsTag(u, i) => u = t
<1> DEFINE S == {TagSize} \cup {k \in 0 .. TagSize : Ends(i + k) \/ i + k >= End}
<1>0. End \in Nat /\ End = Len(text) + 1 /\ Len(text) \in Nat
  BY EndType
<1>1. TagIds = {1, 2} /\ Tags[1] = <<"h", "1">> /\ Tags[2] = <<"h", "2">> /\ TagSize = 2
  BY DEF TagIds, Tags, TagSize
<1>2. \A u \in TagIds : IsTag(u, i) => c(i) = Tags[u][1] /\ c(i + 1) = Tags[u][2] /\ Ends(i + 2)
  <2>1. 1 \in 1 .. TagSize /\ 2 \in 1 .. TagSize /\ i + 1 - 1 = i /\ i + 2 - 1 = i + 1
    BY <1>1
  <2>2. TagSize = 2
    BY <1>1
  <2> QED BY <2>1, <2>2 DEF IsTag
<1>3. c(i) = "h" /\ c(i + 1) \in {"1", "2"} /\ Ends(i + 2)
  BY <1>1, <1>2
<1>4. \A u \in TagIds : IsTag(u, i) => u = t
  BY <1>1, <1>2
<1>5. i + 2 \in 1 .. Len(text)
  <2>1. c(i + 2) # "EOF"
    BY <1>3, EndsAt
  <2>2. i + 2 \in Nat
    OBVIOUS
  <2> QED BY <2>1, <2>2, CharIs
<1>6. S = {2}
  <2>1. ~Ends(i) /\ ~Ends(i + 1)
    BY <1>3, EndsAt
  <2>2. \A k \in 0 .. 2 : k # 2 => ~Ends(i + k) /\ ~(i + k >= End)
    <3> SUFFICES ASSUME NEW k \in 0 .. 2, k # 2 PROVE ~Ends(i + k) /\ ~(i + k >= End)
      OBVIOUS
    <3>1. k = 0 \/ k = 1
      OBVIOUS
    <3>2. CASE k = 0
      <4>1. i + k = i /\ ~(i >= End)
        BY <1>0, <1>5, <3>2
      <4> QED BY <2>1, <4>1
    <3>3. CASE k = 1
      <4>1. i + k = i + 1 /\ ~(i + 1 >= End)
        BY <1>0, <1>5, <3>3
      <4> QED BY <2>1, <4>1
    <3> QED BY <3>1, <3>2, <3>3
  <2> QED BY <1>1, <2>2
<1>7. Min(S) = 2
  <2>1. Min({2}) \in {2}
    BY MinOfNat
  <2> QED BY <1>6, <2>1
<1>8. NameEnd(i) = IF c(i) = "/" THEN i ELSE i + Min(S)
  BY DEF NameEnd
<1> HIDE DEF S
<1>9. NameEnd(i) = i + 2
  BY <1>3, <1>7, <1>8
<1> QED BY <1>3, <1>4, <1>5, <1>9

\* The end tag's name, too.
LEMMA EndTagIs ==
  ASSUME text \in Seq(Char), NEW t \in TagIds, NEW i \in Nat, i >= 1, IsEndTag(t, i)
  PROVE  /\ EndTagEnd(t, i) = i + 3 /\ i + 3 \in 1 .. Len(text)
         /\ \A j \in i .. i + 2 : c(j) # ">" /\ text[j] = c(j)
<1>0. End \in Nat /\ End = Len(text) + 1 /\ Len(text) \in Nat
  BY EndType
<1>1. TagIds = {1, 2} /\ Tags[1] = <<"h", "1">> /\ Tags[2] = <<"h", "2">> /\ TagSize = 2
  BY DEF TagIds, Tags, TagSize
<1>2. c(i) = "/" /\ EndMatched(t, i) = 2 /\ Ends(i + 1 + 2)
  BY DEF IsEndTag, TagSize
<1> DEFINE S == {k \in 0 .. TagSize : \A j \in 1 .. k : c(i + j) = Tags[t][j]}
<1>3. EndMatched(t, i) \in S
  <2>1. S \subseteq 0 .. 2 /\ 0 \in S
    BY <1>1
  <2>2. \E x \in S : \A y \in S : x >= y
    <3> HIDE DEF S
    <3>1. CASE 2 \in S
      BY <2>1, <3>1
    <3>2. CASE 2 \notin S /\ 1 \in S
      BY <2>1, <3>2
    <3>3. CASE 2 \notin S /\ 1 \notin S
      BY <2>1, <3>3
    <3> QED BY <3>1, <3>2, <3>3
  <2>3. Max(S) \in S
    <3> HIDE DEF S
    <3> QED BY <2>2 DEF Max
  <2> QED BY <2>3 DEF EndMatched
<1>4. c(i + 1) = Tags[t][1] /\ c(i + 2) = Tags[t][2]
  <2>1. 1 \in 1 .. 2 /\ 2 \in 1 .. 2
    OBVIOUS
  <2> QED BY <1>2, <1>3, <2>1
<1>5. c(i + 1) = "h" /\ c(i + 2) \in {"1", "2"}
  BY <1>1, <1>4
<1>6. i + 1 + 2 = i + 3 /\ i + 3 \in Nat /\ i + 1 \in Nat /\ i + 2 \in Nat
  OBVIOUS
<1>7. i + 3 \in 1 .. Len(text)
  <2>1. c(i + 3) # "EOF"
    BY <1>2, <1>6, EndsAt
  <2> QED BY <1>6, <2>1, CharIs
<1>8. EndTagEnd(t, i) = i + 3
  <2>1. EndTagEnd(t, i) = i + 1 + 2
    BY <1>2 DEF EndTagEnd
  <2> QED BY <1>6, <2>1
<1>9. ASSUME NEW j \in i .. i + 2 PROVE c(j) # ">" /\ text[j] = c(j)
  <2>1. j = i \/ j = i + 1 \/ j = i + 2
    OBVIOUS
  <2>2. c(j) \in {"/", "h", "1", "2"} /\ j \in Nat
    BY <1>2, <1>5, <2>1
  <2>3. c(j) # ">" /\ c(j) # "EOF"
    BY <2>2
  <2> QED BY <2>2, <2>3, CharIs
<1> QED BY <1>7, <1>8, <1>9

\* Tag() at the name of a heading, and at any other tag that is closed at n.
LEMMA TagOfHeading ==
  ASSUME text \in Seq(Char), NEW t \in TagIds, NEW i \in DOMAIN text, NEW k \in DOMAIN text,
         Heading(t, i, k), frames = <<>>, Tag(i + 1)
  PROVE  frames' = <<t>> /\ at' = i + 2 + TagSize /\ at' \in i + 2 + TagSize .. k
<1>0. /\ End \in Nat /\ End = Len(text) + 1 /\ Len(text) \in Nat /\ DOMAIN text = 1 .. Len(text)
      /\ i \in Nat /\ i >= 1 /\ i + 1 \in Nat /\ i + 1 >= 1 /\ TagSize = 2
  BY EndType DEF TagSize
<1>1. IsTag(t, i + 1) /\ c(i + 1 + TagSize) = ">" /\ k \in i + 2 + TagSize .. Len(text)
  BY DEF Heading
<1>2. /\ NameEnd(i + 1) = i + 3 /\ i + 3 \in 1 .. Len(text)
      /\ \A u \in TagIds : IsTag(u, i + 1) => u = t
  <2>1. NameEnd(i + 1) = i + 1 + 2 /\ i + 1 + 2 \in 1 .. Len(text)
        /\ \A u \in TagIds : IsTag(u, i + 1) => u = t
    BY <1>0, <1>1, TagIs
  <2> QED BY <1>0, <2>1
<1>3. (CHOOSE u \in TagIds : IsTag(u, i + 1)) = t
  BY <1>1, <1>2
<1>4. frames' = <<t>> \o frames
  BY <1>1, <1>3 DEF Tag
<1>5. frames' = <<t>>
  BY <1>4
<1>6. text[i + 3] = ">"
  <2>1. c(i + 3) = ">"
    BY <1>0, <1>1
  <2> QED BY <1>0, <1>2, <2>1, CharIs
<1>7. CloseTag(i + 3) = i + 4
  <2>1. i + 3 \in 1 .. i + 3 /\ \A j \in i + 3 .. i + 3 : j = i + 3
    BY <1>0
  <2>2. CloseTag(i + 3) = i + 3 + 1
    BY <1>2, <1>6, <2>1, CloseTagIs
  <2> QED BY <1>0, <2>2
<1>8. at' = CloseTag(i + 3)
  <2>1. ~(i + 3 >= End)
    BY <1>0, <1>2
  <2> QED BY <1>2, <2>1 DEF Tag
<1> QED BY <1>0, <1>1, <1>5, <1>7, <1>8

LEMMA TagOfOther ==
  ASSUME text \in Seq(Char), NEW i \in DOMAIN text, ~\E t \in TagIds : IsTag(t, i + 1),
         NEW n \in i + 1 .. Len(text), text[n] = ">", \A j \in i + 1 .. n : text[j] # "q",
         Tag(i + 1)
  PROVE  frames' = frames /\ at' \in i + 1 .. n + 1
<1>0. /\ End \in Nat /\ End = Len(text) + 1 /\ Len(text) \in Nat /\ DOMAIN text = 1 .. Len(text)
      /\ i \in Nat /\ i >= 1 /\ n \in 1 .. Len(text) /\ i + 1 \in 1 .. End
  BY EndType
<1>1. frames' = frames
  BY DEF Tag
<1>2. NameEnd(i + 1) \in i + 1 .. n
  BY <1>0, NameEndIs
<1>3. at' = CloseTag(NameEnd(i + 1))
  <2>1. ~(NameEnd(i + 1) >= End)
    BY <1>0, <1>2
  <2> QED BY <2>1 DEF Tag
<1> DEFINE m == NameEnd(i + 1)
<1>4. m \in 1 .. n /\ m >= i + 1 /\ \A j \in m .. n : j \in i + 1 .. n
  BY <1>0, <1>2
<1> HIDE DEF m
<1>5. CloseTag(m) \in m + 1 .. n + 1
  BY <1>0, <1>4, CloseTagIs
<1>6. at' = CloseTag(m)
  BY <1>3 DEF m
<1> QED BY <1>0, <1>1, <1>4, <1>5, <1>6

\* In a heading the scan copies or, at the heading's end tag, leaves it.
LEMMA InsideHeading ==
  ASSUME text \in Seq(Char), NEW t \in TagIds, NEW i \in DOMAIN text, NEW k \in DOMAIN text,
         Heading(t, i, k), frames = <<t>>, at \in i + 2 + TagSize .. k, Next
  PROVE  \/ /\ Copy /\ at < k /\ Put(at) /\ at' = at + 1 /\ frames' = frames
         \/ /\ OwnEndTag /\ at = k /\ Put(0) /\ frames' = <<>> /\ at' = CloseTag(k + 4)
            /\ k + 4 \in 1 .. Len(text)
            /\ \A j \in k + 1 .. k + 3 : text[j] # ">"
<1>0. /\ End \in Nat /\ End = Len(text) + 1 /\ Len(text) \in Nat /\ DOMAIN text = 1 .. Len(text)
      /\ TagSize = 2 /\ at \in Nat /\ k \in Nat /\ i \in Nat /\ k >= 1
  BY EndType DEF TagSize
<1>1. /\ text[k] = "<" /\ IsEndTag(t, k + 1) /\ \A j \in i + 1 .. k - 1 : text[j] # "<"
  BY DEF Heading
<1>2. Head(frames) = t /\ Tail(frames) = <<>> /\ frames # <<>>
  OBVIOUS
<1>3. at < End /\ at <= k
  BY <1>0
<1>4. CASE at < k
  <2>1. at \in i + 1 .. k - 1
    BY <1>0, <1>4
  <2>2. text[at] # "<"
    BY <1>1, <2>1
  <2>3. Copy
    BY <1>0, <1>2, <1>3, <2>2 DEF Next, Start, OwnEndTag, OtherTag, Return
  <2> QED BY <1>4, <2>3 DEF Copy
<1>5. CASE at = k
  <2>1. OwnEndTag
    BY <1>0, <1>1, <1>2, <1>3, <1>5 DEF Next, Start, Copy, OtherTag, Return
  <2>2. k + 1 \in Nat /\ k + 1 >= 1 /\ k + 1 + 3 = k + 4 /\ k + 1 + 2 = k + 3
    BY <1>0
  <2>3. /\ EndTagEnd(t, k + 1) = k + 4 /\ k + 4 \in 1 .. Len(text)
        /\ \A j \in k + 1 .. k + 3 : text[j] # ">"
    <3>1. /\ EndTagEnd(t, k + 1) = k + 1 + 3 /\ k + 1 + 3 \in 1 .. Len(text)
          /\ \A j \in k + 1 .. k + 1 + 2 : c(j) # ">" /\ text[j] = c(j)
      BY <1>1, <2>2, EndTagIs
    <3> QED BY <2>2, <3>1
  <2>4. Put(0) /\ frames' = <<>> /\ at' = CloseTag(EndTagEnd(t, k + 1))
    BY <1>2, <1>5, <2>1 DEF OwnEndTag
  <2> QED BY <1>5, <2>1, <2>3, <2>4
<1> QED BY <1>0, <1>3, <1>4, <1>5

\* While the page is calm up to i the scan stays between and in the headings up to
\* there; it leaves them only into the tag at i.
LEMMA CalmStep ==
  ASSUME text \in Seq(Char), at \in 0 .. End, NEW i \in 1 .. End,
         i = End \/ text[i] = "<", Calm(i), Between(i), Next, ~Return
  PROVE  \/ frames' = <<>> /\ at' <= i
         \/ \E t \in TagIds : \E j, k \in 1 .. i - 1 :
              Heading(t, j, k) /\ frames' = <<t>> /\ at' \in j + 2 + TagSize .. k
         \/ frames = <<>> /\ out' = out /\ i < End /\ Tag(i + 1)
<1>0. /\ End \in Nat /\ End = Len(text) + 1 /\ Len(text) \in Nat /\ DOMAIN text = 1 .. Len(text)
      /\ TagSize = 2 /\ at \in Nat /\ i \in Nat /\ i >= 1 /\ i <= End
  BY EndType DEF TagSize
<1>1. \A j \in 1 .. i - 1 : j \in DOMAIN text /\ j \in Nat /\ j < i /\ j >= 1
  BY <1>0
<1>2. CASE frames = <<>> /\ at <= i
  <2>1. Start /\ at < End /\ Tag(NextOpenTag(at)) /\ out' = out
    <3>1. Start
      BY <1>2 DEF Next, Copy, OwnEndTag, OtherTag, Writing
    <3> QED BY <3>1 DEF Start
  <2>2. CASE NextOpenTag(at) = End /\ \A j \in DOMAIN text : j >= at => text[j] # "<"
    <3>1. i = End
      <4> SUFFICES ASSUME i # End PROVE FALSE
        OBVIOUS
      <4>1. i \in DOMAIN text /\ i >= at
        BY <1>0, <1>2
      <4> QED BY <2>2, <4>1
    <3>2. ~\E t \in TagIds : IsTag(t, End)
      <4>1. c(End) = "EOF"
        BY <1>0, CharIs
      <4> QED BY <1>0, <4>1, TagBegins
    <3>3. frames' = frames
      BY <2>1, <2>2, <3>2 DEF Tag
    <3>4. at' \in End .. End
      <4>1. End \in 1 .. End
        BY <1>0
      <4> QED BY <2>1, <2>2, <4>1, TagBounds
    <3>5. at' <= i
      BY <1>0, <3>1, <3>4
    <3> QED BY <1>2, <3>3, <3>5
  <2>3. ASSUME NEW j \in DOMAIN text, j >= at, text[j] = "<", NextOpenTag(at) = j + 1,
               \A k \in DOMAIN text : k >= at /\ text[k] = "<" => j <= k
        PROVE  \/ frames' = <<>> /\ at' <= i
               \/ \E t \in TagIds : \E n, k \in 1 .. i - 1 :
                    Heading(t, n, k) /\ frames' = <<t>> /\ at' \in n + 2 + TagSize .. k
               \/ frames = <<>> /\ out' = out /\ i < End /\ Tag(i + 1)
    <3>0. j <= i /\ j \in Nat /\ j >= 1 /\ j <= Len(text)
      <4>1. j \in Nat /\ j >= 1 /\ j <= Len(text)
        BY <1>0
      <4>2. CASE i = End
        BY <1>0, <4>1, <4>2
      <4>3. CASE i # End
        <5>1. i \in DOMAIN text /\ i >= at
          BY <1>0, <1>2, <4>3
        <5> QED BY <2>3, <4>1, <4>3, <5>1
      <4> QED BY <4>1, <4>2, <4>3
    <3>1. CASE j = i
      <4>1. i < End
        BY <1>0, <3>0, <3>1
      <4> QED BY <1>2, <2>1, <2>3, <3>1, <4>1
    <3>2. CASE j # i
      <4>1. j \in 1 .. i - 1
        BY <1>0, <3>0, <3>2
      <4>2. Tag(j + 1)
        BY <2>1, <2>3
      <4>3. CASE \E t \in TagIds : IsTag(t, j + 1)
        <5>1. PICK t \in TagIds : IsTag(t, j + 1)
          BY <4>3
        <5>2. PICK k \in 1 .. i - 1 : Heading(t, j, k)
          BY <2>3, <4>1, <5>1 DEF Calm
        <5>3. k \in DOMAIN text
          BY <1>1, <5>2
        <5>4. frames' = <<t>> /\ at' \in j + 2 + TagSize .. k
          BY <1>2, <2>3, <4>2, <5>2, <5>3, TagOfHeading
        <5> QED BY <4>1, <5>2, <5>4
      <4>4. CASE ~\E t \in TagIds : IsTag(t, j + 1)
        <5>1. PICK n \in j + 1 .. i - 1 : text[n] = ">"
          BY <2>3, <4>1 DEF Calm
        <5>2. n \in j + 1 .. Len(text) /\ n + 1 <= i /\ n \in Nat /\ \A m \in j + 1 .. n : m \in 1 .. i - 1
          BY <1>0, <3>0, <5>1
        <5>3. \A m \in j + 1 .. n : text[m] # "q"
          BY <5>2 DEF Calm
        <5>4. frames' = frames /\ at' \in j + 1 .. n + 1
          BY <4>2, <4>4, <5>1, <5>2, <5>3, TagOfOther
        <5>5. at' <= i
          BY <1>0, <3>0, <5>2, <5>4
        <5> QED BY <1>2, <5>4, <5>5
      <4> QED BY <4>3, <4>4
    <3> QED BY <3>1, <3>2
  <2> QED BY <2>2, <2>3, NextOpenTagIs
<1>3. ASSUME NEW t \in TagIds, NEW j \in 1 .. i - 1, NEW k \in 1 .. i - 1,
             Heading(t, j, k), frames = <<t>>, at \in j + 2 + TagSize .. k
      PROVE  \/ frames' = <<>> /\ at' <= i
             \/ \E u \in TagIds : \E m, n \in 1 .. i - 1 :
                  Heading(u, m, n) /\ frames' = <<u>> /\ at' \in m + 2 + TagSize .. n
  <2>0. j \in DOMAIN text /\ k \in DOMAIN text /\ j \in Nat /\ k \in Nat /\ k < i
    BY <1>1
  <2>1. \/ at < k /\ at' = at + 1 /\ frames' = frames
        \/ /\ frames' = <<>> /\ at' = CloseTag(k + 4) /\ k + 4 \in 1 .. Len(text)
           /\ \A m \in k + 1 .. k + 3 : text[m] # ">"
    BY <1>3, <2>0, InsideHeading
  <2>2. CASE at < k /\ at' = at + 1 /\ frames' = frames
    <3>1. at' \in j + 2 + TagSize .. k
      BY <1>0, <1>3, <2>0, <2>2
    <3> QED BY <1>3, <2>2, <3>1
  <2>3. CASE /\ frames' = <<>> /\ at' = CloseTag(k + 4) /\ k + 4 \in 1 .. Len(text)
             /\ \A m \in k + 1 .. k + 3 : text[m] # ">"
    <3>1. text[k] = "<"
      BY <1>3 DEF Heading
    <3>2. PICK n \in k + 1 .. i - 1 : text[n] = ">"
      BY <3>1 DEF Calm
    <3>3. n \notin k + 1 .. k + 3
      BY <2>3, <3>2
    <3>4. n \in Nat /\ n \in 1 .. Len(text) /\ k + 4 \in 1 .. n /\ n + 1 <= i
          /\ \A m \in k + 4 .. n : m \in 1 .. i - 1
      BY <1>0, <2>0, <3>2, <3>3
    <3>5. \A m \in k + 4 .. n : text[m] # "q"
      BY <3>4 DEF Calm
    <3>6. CloseTag(k + 4) \in k + 4 + 1 .. n + 1
      <4> DEFINE m == k + 4
      <4>1. m \in 1 .. n /\ \A x \in m .. n : text[x] # "q"
        BY <3>4, <3>5
      <4> HIDE DEF m
      <4>2. CloseTag(m) \in m + 1 .. n + 1
        BY <3>2, <3>4, <4>1, CloseTagIs
      <4> QED BY <4>2 DEF m
    <3>7. at' <= i
      BY SMTT(20), <1>0, <2>0, <2>3, <3>4, <3>6
    <3> QED BY <2>3, <3>7
  <2> QED BY <2>1, <2>2, <2>3
<1> QED BY <1>2, <1>3 DEF Between

-----------------------------------------------------------------------------
(***************************************************************************)
(* The steps, on what has been copied of a calm page                       *)
(***************************************************************************)
LEMMA CalmPageStays ==
  ASSUME text' = text
  PROVE  /\ End' = End
         /\ \A t, i, k : Heading(t, i, k)' = Heading(t, i, k)
         /\ \A i : Calm(i)' = Calm(i)
         /\ \A t, n : InHeading(t, n)' = InHeading(t, n)
<1>1. End' = End /\ \A i : c(i)' = c(i)
  BY DEF End, c
<1>2. \A i : Ends(i)' = Ends(i)
  BY <1>1 DEF Ends
<1>3. \A t, i : IsTag(t, i)' = IsTag(t, i)
  BY <1>1, <1>2 DEF IsTag
<1>4. \A t, i : IsEndTag(t, i)' = IsEndTag(t, i)
  <2>1. \A t, i : EndMatched(t, i)' = EndMatched(t, i)
    BY DEF EndMatched, c
  <2> QED BY <1>1, <1>2, <2>1 DEF IsEndTag
<1>5. \A t, i, k : Heading(t, i, k)' = Heading(t, i, k)
  BY <1>1, <1>3, <1>4 DEF Heading
<1>6. \A i : Calm(i)' = Calm(i)
  BY <1>3, <1>5 DEF Calm
<1>7. \A t, n : InHeading(t, n)' = InHeading(t, n)
  BY <1>5 DEF InHeading
<1> QED BY <1>1, <1>5, <1>6, <1>7

\* What Put adds to the files.
LEMMA PutCopies ==
  ASSUME TypeOK, frames # <<>>, NEW v \in Nat, Put(v)
  PROVE  /\ \A t \in TagIds : Copied(t) \subseteq Copied(t)'
         /\ \A t \in TagIds : t = Head(frames) /\ v # 0 => v \in Copied(t)'
         /\ \A t \in TagIds : \A j \in Copied(t)' : j \in Copied(t) \/ (t = Head(frames) /\ j = v /\ v # 0)
<1>0. PICK h : h = Head(frames)
  OBVIOUS
<1> DEFINE s == out[h]
<1>1. h \in TagIds /\ s \in Seq(0 .. Len(text)) /\ out \in [TagIds -> Seq(0 .. Len(text))]
  BY <1>0 DEF TypeOK
<1>2. out'[h] = Append(s, v) /\ \A t \in TagIds : t # h => out'[t] = out[t]
  BY <1>0, <1>1 DEF Put
<1>3. /\ \A n \in DOMAIN s : n \in DOMAIN out'[h] /\ out'[h][n] = s[n]
      /\ \A n \in DOMAIN out'[h] : out'[h][n] = v \/ (n \in DOMAIN s /\ out'[h][n] = s[n])
      /\ \E n \in DOMAIN out'[h] : out'[h][n] = v
  <2> HIDE DEF s
  <2>1. /\ Len(s) \in Nat /\ DOMAIN s = 1 .. Len(s) /\ DOMAIN out'[h] = 1 .. Len(s) + 1
        /\ \A n \in 1 .. Len(s) : out'[h][n] = s[n]
        /\ out'[h][Len(s) + 1] = v
    BY <1>1, <1>2
  <2>2. \A n \in 1 .. Len(s) + 1 : n \in 1 .. Len(s) \/ n = Len(s) + 1
    BY <2>1
  <2>3. Len(s) + 1 \in 1 .. Len(s) + 1 /\ \A n \in 1 .. Len(s) : n \in 1 .. Len(s) + 1
    BY <2>1
  <2> QED BY <2>1, <2>2, <2>3
<1>4. Copied(h) \subseteq Copied(h)'
  BY <1>1, <1>3 DEF Copied
<1>5. \A t \in TagIds : t # h => Copied(t)' = Copied(t)
  BY <1>2 DEF Copied
<1>6. v # 0 => v \in Copied(h)'
  BY <1>1, <1>3 DEF Copied
<1>7. \A j \in Copied(h)' : j \in Copied(h) \/ (j = v /\ v # 0)
  BY <1>1, <1>3 DEF Copied
<1>8. \A t \in TagIds : Copied(t) \subseteq Copied(t)'
  BY <1>4, <1>5
<1> QED BY <1>0, <1>5, <1>6, <1>7, <1>8

LEMMA InitHInv == Init => HInv
<1> SUFFICES ASSUME Init PROVE HInv
  OBVIOUS
<1>1. text \in Seq(Char) /\ at = 0 /\ frames = <<>> /\ done = FALSE
  BY ContentAssumption DEF Init
<1>2. DOMAIN text = 1 .. Len(text) /\ End \in Nat /\ End >= 1
  BY <1>1, EndType
<1>3. \A i \in Nat : Between(i)
  <2>1. \A i \in Nat : 0 <= i
    OBVIOUS
  <2> QED BY <1>1, <2>1 DEF Between
<1>4. \A t \in TagIds : Copied(t) = {}
  BY DEF Init, Copied
<1>5. HeadingsMet
  <2>1. DOMAIN text \subseteq Nat
    BY <1>2
  <2> QED BY <1>3, <2>1 DEF HeadingsMet, Met
<1>6. OnlyHeadings
  BY <1>2, <1>3, <1>4 DEF OnlyHeadings
<1> QED BY <1>1, <1>5, <1>6 DEF HInv, DoneAtEnd

\* main's return and a stuttering step.
LEMMA HInvStays ==
  ASSUME HInv, text' = text, at' = at, frames' = frames, out' = out, done' = done \/ at = End
  PROVE  HInv'
<1>1. DoneAtEnd'
  BY CalmPageStays DEF HInv, DoneAtEnd
<1>2. \A t : Copied(t)' = Copied(t)
  BY DEF Copied
<1>3. \A i : Between(i)' = Between(i)
  BY CalmPageStays DEF Between
<1>4. \A t, i, k : Met(t, i, k)' = Met(t, i, k)
  BY <1>2, <1>3 DEF Met
<1>5. HeadingsMet'
  BY <1>4, CalmPageStays DEF HInv, HeadingsMet
<1>6. OnlyHeadings'
  <2>1. Between(End)' = Between(End)
    BY CalmPageStays DEF Between
  <2> QED BY <1>2, <2>1, CalmPageStays DEF HInv, OnlyHeadings
<1> QED BY <1>1, <1>5, <1>6 DEF HInv

LEMMA BetweenNext ==
  ASSUME text' = text, NEW i,
         \/ frames' = <<>> /\ at' <= i
         \/ \E t \in TagIds : \E j, k \in 1 .. i - 1 :
              Heading(t, j, k) /\ frames' = <<t>> /\ at' \in j + 2 + TagSize .. k
  PROVE  Between(i)'
BY CalmPageStays DEF Between

\* A step of the scan.
LEMMA ScanKinds ==
  ASSUME IInv, Next, ~Return
  PROVE  /\ at < End /\ text' = text /\ done' = done
         /\ \/ frames = <<>> /\ Start /\ out' = out
            \/ frames # <<>> /\ \E v \in Nat : Put(v)
<1>1. CASE Start
  BY <1>1 DEF Start
<1>2. CASE Copy
  <2>1. at \in Nat
    BY EndType DEF IInv, TypeOK
  <2> QED BY <1>2, <2>1 DEF Copy, Writing
<1>3. CASE OwnEndTag
  <2>1. 0 \in Nat
    OBVIOUS
  <2> QED BY <1>3, <2>1 DEF OwnEndTag, Writing
<1>4. CASE OtherTag
  <2>1. 0 \in Nat
    OBVIOUS
  <2> QED BY <1>4, <2>1 DEF OtherTag, Writing
<1> QED BY <1>1, <1>2, <1>3, <1>4 DEF Next

LEMMA HInvStep ==
  ASSUME IInv, HInv, Next, ~Return
  PROVE  HInv'
<1>0. /\ text \in Seq(Char) /\ End \in Nat /\ End = Len(text) + 1 /\ Len(text) \in Nat
      /\ DOMAIN text = 1 .. Len(text) /\ at \in 0 .. End /\ TypeOK /\ TagSize = 2 /\ End >= 1
  BY EndType DEF IInv, TypeOK, TagSize
<1>1. /\ at < End /\ text' = text /\ done' = done
      /\ \/ frames = <<>> /\ Start /\ out' = out
         \/ frames # <<>> /\ \E v \in Nat : Put(v)
  BY ScanKinds
<1>2. DoneAtEnd'
  <2>1. ~done
    BY <1>0, <1>1 DEF HInv, DoneAtEnd
  <2> QED BY <1>1, <2>1 DEF DoneAtEnd
<1>3. \A t \in TagIds : Copied(t) \subseteq Copied(t)'
  <2>1. CASE out' = out
    BY <2>1 DEF Copied
  <2>2. CASE frames # <<>> /\ \E v \in Nat : Put(v)
    BY <1>0, <2>2, PutCopies
  <2> QED BY <1>1, <2>1, <2>2
<1>4. HeadingsMet'
  <2> SUFFICES ASSUME NEW t \in TagIds, NEW i \in DOMAIN text, NEW k \in DOMAIN text,
                      Heading(t, i, k), Calm(i)
               PROVE  Met(t, i, k)'
    BY <1>1, CalmPageStays DEF HeadingsMet
  <2>0. i \in 1 .. End /\ text[i] = "<" /\ i \in Nat /\ k \in Nat /\ i >= 1
    BY <1>0 DEF Heading
  <2>1. Met(t, i, k)
    BY DEF HInv, HeadingsMet
  <2>2. CASE Between(i)
    <3>1. \/ frames' = <<>> /\ at' <= i
          \/ \E u \in TagIds : \E m, n \in 1 .. i - 1 :
               Heading(u, m, n) /\ frames' = <<u>> /\ at' \in m + 2 + TagSize .. n
          \/ frames = <<>> /\ Tag(i + 1)
      BY <1>0, <2>0, <2>2, CalmStep
    <3>2. CASE frames = <<>> /\ Tag(i + 1)
      <4>1. frames' = <<t>> /\ at' = i + 2 + TagSize /\ at' \in i + 2 + TagSize .. k
        BY <1>0, <3>2, TagOfHeading
      <4>2. i + 2 + TagSize .. at' - 1 = {}
        BY <1>0, <2>0, <4>1
      <4> QED BY <4>1, <4>2 DEF Met
    <3>3. CASE ~(frames = <<>> /\ Tag(i + 1))
      <4>1. Between(i)'
        BY <1>1, <3>1, <3>3, BetweenNext
      <4> QED BY <4>1 DEF Met
    <3> QED BY <3>2, <3>3
  <2>3. CASE /\ frames = <<t>> /\ at \in i + 2 + TagSize .. k
             /\ i + 2 + TagSize .. at - 1 \subseteq Copied(t)
    <3>1. Head(frames) = t /\ frames # <<>> /\ at \in Nat /\ at # 0
      BY <1>0, <2>0, <2>3
    <3>2. \/ at < k /\ Put(at) /\ at' = at + 1 /\ frames' = frames
          \/ at = k
      BY <1>0, <2>3, InsideHeading
    <3>3. CASE at < k /\ Put(at) /\ at' = at + 1 /\ frames' = frames
      <4>1. at \in Copied(t)'
        BY <1>0, <3>1, <3>3, PutCopies
      <4>2. at' \in i + 2 + TagSize .. k
        BY <1>0, <2>0, <2>3, <3>3
      <4>3. \A n \in i + 2 + TagSize .. at' - 1 : n \in i + 2 + TagSize .. at - 1 \/ n = at
        BY <1>0, <2>0, <3>1, <3>3
      <4>4. i + 2 + TagSize .. at' - 1 \subseteq Copied(t)'
        BY <1>3, <2>3, <4>1, <4>3
      <4>5. frames' = <<t>>
        BY <2>3, <3>3
      <4> QED BY <4>2, <4>4, <4>5 DEF Met
    <3>4. CASE at = k
      <4>1. i + 2 + TagSize .. k - 1 \subseteq Copied(t)'
        BY <1>3, <2>3, <3>4
      <4> QED BY <4>1 DEF Met
    <3> QED BY <3>2, <3>3, <3>4
  <2>4. CASE i + 2 + TagSize .. k - 1 \subseteq Copied(t)
    <3>1. i + 2 + TagSize .. k - 1 \subseteq Copied(t)'
      BY <1>3, <2>4
    <3> QED BY <3>1 DEF Met
  <2> QED BY <2>1, <2>2, <2>3, <2>4 DEF Met
<1>5. OnlyHeadings'
  <2> SUFFICES ASSUME Calm(End)
               PROVE  Between(End)' /\ \A t \in TagIds : \A n \in Copied(t)' : InHeading(t, n)
    BY <1>1, CalmPageStays DEF OnlyHeadings
  <2>1. Between(End) /\ \A t \in TagIds : \A n \in Copied(t) : InHeading(t, n)
    BY DEF HInv, OnlyHeadings
  <2>2. Between(End)'
    <3>1. End \in 1 .. End /\ ~(End < End)
      BY <1>0
    <3>2. \/ frames' = <<>> /\ at' <= End
          \/ \E u \in TagIds : \E m, n \in 1 .. End - 1 :
               Heading(u, m, n) /\ frames' = <<u>> /\ at' \in m + 2 + TagSize .. n
      BY <1>0, <2>1, <3>1, CalmStep
    <3>3. PICK e : e = End
      OBVIOUS
    <3>4. Between(e)'
      BY <1>1, <3>2, <3>3, BetweenNext
    <3> QED BY <1>1, <3>3, <3>4, CalmPageStays DEF Between
  <2>3. CASE out' = out
    <3>1. \A t \in TagIds : Copied(t)' = Copied(t)
      BY <2>3 DEF Copied
    <3> QED BY <2>1, <2>2, <3>1
  <2>4. CASE frames # <<>>
    <3>1. PICK u \in TagIds : \E j, k \in 1 .. End - 1 :
            Heading(u, j, k) /\ frames = <<u>> /\ at \in j + 2 + TagSize .. k
      BY <2>1, <2>4 DEF Between
    <3>2. PICK j \in 1 .. End - 1 : \E k \in 1 .. End - 1 :
            Heading(u, j, k) /\ frames = <<u>> /\ at \in j + 2 + TagSize .. k
      BY <3>1
    <3>3. PICK k \in 1 .. End - 1 : Heading(u, j, k) /\ frames = <<u>> /\ at \in j + 2 + TagSize .. k
      BY <3>2
    <3>4. j \in DOMAIN text /\ k \in DOMAIN text /\ j \in Nat /\ k \in Nat
      BY <1>0
    <3>5. at \in Nat /\ 0 \in Nat /\ Head(frames) = u
      BY <1>0, <3>3
    <3>6. (at < k /\ Put(at)) \/ Put(0)
      BY <1>0, <3>3, <3>4, InsideHeading
    <3>7. CASE at < k /\ Put(at)
      <4>1. \A t \in TagIds : \A n \in Copied(t)' : n \in Copied(t) \/ (t = u /\ n = at)
        BY <1>0, <2>4, <3>5, <3>7, PutCopies
      <4>2. j + 1 + TagSize < at
        BY <1>0, <3>3, <3>4, <3>5
      <4>3. InHeading(u, at)
        BY <3>3, <3>4, <3>7, <4>2 DEF InHeading
      <4> QED BY <2>1, <2>2, <4>1, <4>3
    <3>8. CASE Put(0)
      <4>1. \A t \in TagIds : \A n \in Copied(t)' : n \in Copied(t)
        BY <1>0, <2>4, <3>5, <3>8, PutCopies
      <4> QED BY <2>1, <2>2, <4>1
    <3> QED BY <3>6, <3>7, <3>8
  <2> QED BY <1>1, <2>3, <2>4
<1> QED BY <1>2, <1>4, <1>5 DEF HInv

-----------------------------------------------------------------------------
(***************************************************************************)
(* The theorems                                                            *)
(***************************************************************************)
\* On any page and at any time, what has been copied lies before the scan, every
\* call of write is behind what it took for its tag, and the two below hold.
THEOREM ContentInvariance == Spec => []IInv
<1>1. IInv /\ [Next]_vars => IInv'
  <2> SUFFICES ASSUME IInv, [Next]_vars PROVE IInv'
    OBVIOUS
  <2>1. CASE Start \/ Copy \/ OwnEndTag \/ OtherTag
    BY <2>1, StartStep, CopyStep, OwnEndTagStep, OtherTagStep
  <2>2. CASE Return
    BY <2>2, ScanStays DEF Return
  <2>3. CASE UNCHANGED vars
    <3>1. done' \in BOOLEAN
      BY <2>3 DEF vars, IInv, TypeOK
    <3> QED BY <2>3, <3>1, ScanStays DEF vars
  <2> QED BY <2>1, <2>2, <2>3 DEF Next
<1> QED BY InitIInv, <1>1, PTL DEF Spec

\* Although the fseek of line 216 goes forward where back was meant, no character
\* of a page is copied twice or out of order, into one heading's file or into two.
THEOREM NothingCopiedTwice == Spec => []CopiedOnce
<1>1. IInv => CopiedOnce
  BY DEF IInv
<1> QED BY <1>1, ContentInvariance, PTL

\* What a heading's file holds comes from behind a '<' and the heading's name, or
\* behind the name alone where the seek of line 216 lands on it in an end tag of
\* another name.
THEOREM NothingBeforeItsTag == Spec => []CopiedBehindTag
<1>1. IInv => CopiedBehindTag
  BY DEF IInv
<1> QED BY <1>1, ContentInvariance, PTL

\* On any page the scan meets each heading behind a calm part and copies it
\* character by character; on a calm page it is never anywhere else.
THEOREM HeadingInvariance == Spec => []HInv
<1>1. IInv /\ HInv /\ [Next]_vars => HInv'
  <2> SUFFICES ASSUME IInv, HInv, [Next]_vars PROVE HInv'
    OBVIOUS
  <2>1. CASE Next /\ ~Return
    BY <2>1, HInvStep
  <2>2. CASE Return
    BY <2>2, HInvStays DEF Return
  <2>3. CASE UNCHANGED vars
    BY <2>3, HInvStays DEF vars
  <2> QED BY <2>1, <2>2, <2>3
<1> QED BY InitHInv, <1>1, ContentInvariance, PTL DEF Spec

\* Once main has returned, the text of every heading without tags in it that comes
\* behind a calm part of the page has been copied, on any page.
THEOREM NoHeadingMissed == Spec => []HeadingsCopied
<1>1. IInv /\ HInv => HeadingsCopied
  <2> SUFFICES ASSUME IInv, HInv, done, NEW t \in TagIds, NEW i \in DOMAIN text, NEW k \in DOMAIN text,
                      Heading(t, i, k), Calm(i)
               PROVE  i + 2 + TagSize .. k - 1 \subseteq Copied(t)
    BY DEF HeadingsCopied
  <2>1. /\ DOMAIN text = 1 .. Len(text) /\ Len(text) \in Nat /\ End = Len(text) + 1 /\ at = End
        /\ TagSize = 2
    BY EndType DEF IInv, TypeOK, HInv, DoneAtEnd, TagSize
  <2>2. Met(t, i, k)
    BY DEF HInv, HeadingsMet
  <2>3. ~Between(i)
    BY <2>1 DEF Between
  <2>4. ~(at \in i + 2 + TagSize .. k)
    BY <2>1
  <2> QED BY <2>2, <2>3, <2>4 DEF Met
<1> QED BY <1>1, ContentInvariance, HeadingInvariance, PTL

\* On a calm page nothing is copied but the text of the headings.
THEOREM OnlyHeadingsCopied == Spec => []NothingElseCopied
<1>1. HInv => NothingElseCopied
  BY DEF HInv, OnlyHeadings, NothingElseCopied
<1> QED BY <1>1, HeadingInvariance, PTL
=============================================================================
