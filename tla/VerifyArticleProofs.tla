------------------------- MODULE VerifyArticleProofs ------------------------
(***************************************************************************)
(* The two promises of verify-article's exit code, for every alphabet,     *)
(* every table of elements and every page.                                 *)
(***************************************************************************)
EXTENDS VerifyArticle, TLAPS

\* What one character does to a count (VerifyArticle's Seen).
LEMMA SeenCases ==
  ASSUME NEW e \in Seq(Char) \ {<<>>}, NEW k \in -1 .. Len(e), NEW c
  PROVE  \/ k \in {-1, Len(e)} /\ Seen(k, e, c) = -1
         \/ k \in 0 .. Len(e) - 1 /\ e[k + 1] = c /\ Seen(k, e, c) = k + 1
         \/ k \in 0 .. Len(e) - 1 /\ e[k + 1] # c /\ Seen(k, e, c) = 0
  BY DEF Seen, Matched

\* All of a pattern just before a position is an occurrence of it.
LEMMA WholeBefore ==
  ASSUME NEW e \in Seq(Char) \ {<<>>}, NEW t \in Seq(Char),
         NEW i \in 1 .. Len(t) + 1, EndsBefore(e, Len(e), t, i)
  PROVE  \E n \in 1 .. Len(t) : At(e, t, n)
<1> DEFINE n == i - Len(e)
<1>1. Len(e) \in Nat \ {0}
  OBVIOUS
<1>2. n \in 1 .. Len(t) /\ n + Len(e) = i
  BY <1>1 DEF EndsBefore
<1>3. \A j \in 1 .. Len(e) : t[n + j - 1] = e[j]
  BY <1>1, <1>2 DEF EndsBefore
<1>4. At(e, t, n)
  BY <1>2, <1>3 DEF At
<1> QED
  BY <1>2, <1>4

\* One more character of a pattern.
LEMMA OneMoreBefore ==
  ASSUME NEW e \in Seq(Char) \ {<<>>}, NEW t \in Seq(Char),
         NEW i \in 1 .. Len(t), NEW k \in 0 .. Len(e) - 1,
         k > 0 => EndsBefore(e, k, t, i), e[k + 1] = t[i]
  PROVE  EndsBefore(e, k + 1, t, i + 1)
<1>1. k < i
  BY DEF EndsBefore
<1>2. ASSUME NEW j \in 1 .. k + 1
      PROVE  t[i + 1 - (k + 1) + j - 1] = e[j]
  <2>1. CASE j = k + 1
    BY <2>1
  <2>2. CASE j \in 1 .. k
    BY <2>2 DEF EndsBefore
  <2> QED
    BY <2>1, <2>2
<1> QED
  BY <1>1, <1>2 DEF EndsBefore

LEMMA InitInv == Init => IInv
<1> USE VerifyAssumption
<1>1. SUFFICES ASSUME Init PROVE IInv
  OBVIOUS
<1>2. TypeOK
  BY <1>1 DEF Init, TypeOK
<1>3. Counted /\ Followed
  BY <1>1 DEF Init, Counted, Followed
<1>4. Returned
  BY <1>1 DEF Init, Returned
<1> QED
  BY <1>2, <1>3, <1>4 DEF IInv

LEMMA ReadInv ==
  ASSUME IInv, Read
  PROVE  IInv'
<1> USE VerifyAssumption
<1> DEFINE c == text[pos]
<1>1. /\ text \in Seq(Char) /\ text' = text
      /\ pos \in 1 .. Len(text) /\ pos' \in {pos, pos + 1}
      /\ exit = None /\ exit' \in {None, 0}
  BY DEF IInv, TypeOK, Read
<1>2. ASSUME NEW e \in Elements
      PROVE  /\ e \in Seq(Char) \ {<<>>}
             /\ check[e] \in -1 .. Len(e)
             /\ check'[e] = Seen(check[e], e, c)
  BY DEF IInv, TypeOK, Read
<1>3. \/ exit' = 0 /\ \A e \in Elements : check'[e] = -1
      \/ exit' = None /\ pos' = pos + 1 /\ ~\A e \in Elements : check'[e] = -1
  BY <1>1 DEF Read
<1>4. TypeOK'
  <2>1. check' \in [Elements -> Int]
    <3>1. \A e \in Elements : Seen(check[e], e, c) \in Int
      BY <1>2, SeenCases
    <3> QED
      BY <3>1 DEF Read
  <2>2. ASSUME NEW e \in Elements PROVE check'[e] \in -1 .. Len(e)
    BY SMTT(20), <1>2, SeenCases
  <2> QED
    BY <1>1, <2>1, <2>2 DEF TypeOK
<1>5. Counted'
  <2> SUFFICES ASSUME NEW e \in Elements
               PROVE  /\ check'[e] > 0 => EndsBefore(e, check'[e], text, pos')
                      /\ check'[e] = -1 => \E i \in 1 .. Len(text) : At(e, text, i)
    BY <1>1 DEF Counted
  <2>1. CASE check[e] = -1
    <3>1. \E i \in 1 .. Len(text) : At(e, text, i)
      BY <2>1 DEF IInv, Counted
    <3>2. check'[e] = -1
      BY <1>2, <2>1 DEF Seen
    <3> QED
      BY <3>1, <3>2
  <2>2. CASE check[e] = Len(e)
    <3>1. check'[e] = -1 /\ check[e] > 0
      BY <1>2, <2>2 DEF Seen
    <3>2. EndsBefore(e, Len(e), text, pos)
      BY <2>2, <3>1 DEF IInv, Counted
    <3> QED
      BY <1>1, <1>2, <3>1, <3>2, WholeBefore
  <2>3. CASE check[e] \in 0 .. Len(e) - 1 /\ e[check[e] + 1] = c
    <3>1. check'[e] = check[e] + 1
      BY <1>2, <2>3 DEF Seen, Matched
    <3>2. pos' = pos + 1
      BY <1>3, <2>3, <3>1
    <3>3. check[e] > 0 => EndsBefore(e, check[e], text, pos)
      BY DEF IInv, Counted
    <3>4. EndsBefore(e, check[e] + 1, text, pos + 1)
      BY <1>1, <1>2, <2>3, <3>3, OneMoreBefore
    <3> QED
      BY <2>3, <3>1, <3>2, <3>4
  <2>4. CASE check[e] \in 0 .. Len(e) - 1 /\ e[check[e] + 1] # c
    BY <1>2, <2>4 DEF Seen, Matched
  <2> QED
    BY <1>2, <2>1, <2>2, <2>3, <2>4
<1>6. Followed'
  <2> SUFFICES ASSUME NEW e \in Elements, check'[e] # -1,
                      NEW i \in 1 .. Len(text),
                      At(e, text, i), Clean(e, Len(e) - 1, text, i), pos' > i
               PROVE  check'[e] = pos' - i
    BY <1>1 DEF Followed
  <2>1. pos' = pos + 1
    BY <1>3
  <2>2. check[e] \in 0 .. Len(e) - 1
    BY <1>2, SeenCases
  <2>3. check[e] = pos - i
    <3>1. CASE pos > i
      BY <2>2, <3>1 DEF IInv, Followed
    <3>2. CASE pos = i
      <4>1. check[e] > 0 => EndsBefore(e, check[e], text, i)
        BY <3>2 DEF IInv, Counted
      <4>2. check[e] = 0
        BY <2>2, <4>1 DEF Clean
      <4> QED
        BY <1>1, <3>2, <4>2
    <3> QED
      BY <1>1, <2>1, <3>1, <3>2
  <2>4. e[check[e] + 1] = c
    <3>1. check[e] + 1 \in 1 .. Len(e)
      BY <1>2, <2>2
    <3>2. text[i + (check[e] + 1) - 1] = e[check[e] + 1]
      BY <3>1 DEF At
    <3>3. i + (check[e] + 1) - 1 = pos
      BY <1>1, <2>3
    <3> QED
      BY <3>2, <3>3
  <2>5. check'[e] = check[e] + 1
    BY <1>2, <2>2, <2>4 DEF Seen, Matched
  <2> QED
    BY <1>1, <2>1, <2>3, <2>5
<1>7. Returned'
  BY <1>3 DEF Returned
<1> QED
  BY <1>4, <1>5, <1>6, <1>7 DEF IInv

LEMMA EndOfFileInv ==
  ASSUME IInv, EndOfFile
  PROVE  IInv'
<1> USE VerifyAssumption
<1>1. text' = text /\ pos' = pos /\ check' = check /\ exit = None /\ exit' = 1
  BY DEF EndOfFile
<1>2. TypeOK'
  BY <1>1 DEF IInv, TypeOK
<1>3. Counted' /\ Followed'
  BY <1>1 DEF IInv, Counted, Followed
<1>4. Returned'
  BY <1>1 DEF IInv, Returned, EndOfFile
<1> QED
  BY <1>2, <1>3, <1>4 DEF IInv

\* Every reachable state satisfies the inductive invariant.
THEOREM VerifyInvariance == Spec => []IInv
<1>1. IInv /\ [Next]_vars => IInv'
  <2> SUFFICES ASSUME IInv, [Next]_vars PROVE IInv'
    OBVIOUS
  <2>1. CASE Read
    BY <2>1, ReadInv
  <2>2. CASE EndOfFile
    BY <2>2, EndOfFileInv
  <2>3. CASE UNCHANGED vars
    BY <2>3 DEF vars, IInv, TypeOK, Counted, Followed, Returned
  <2> QED
    BY <2>1, <2>2, <2>3 DEF Next
<1> QED
  BY InitInv, <1>1, PTL DEF Spec

\* Exit code 0, on which process.js uploads the page as an article, is returned
\* only for a page that holds every element (verify-article.c lines 32-55).
THEOREM ExitZeroIsRight == Spec => []ArticleHasElements
<1>1. IInv => ArticleHasElements
  BY DEF IInv, Returned, Counted, ArticleHasElements
<1> QED
  BY VerifyInvariance, <1>1, PTL

\* Exit code 1 is returned only for a page without one of the elements, places at
\* the very end or behind the element's own beginning excepted (lines 34 and 46).
THEOREM ExitOneIsRight == Spec => []NoArticleLacksElement
<1>1. IInv => NoArticleLacksElement
  <2> SUFFICES ASSUME IInv, exit = 1
               PROVE  \E e \in Elements : \A i \in 1 .. Len(text) :
                        At(e, text, i) /\ Clean(e, Len(e) - 1, text, i)
                          => i + Len(e) = Len(text) + 1
    BY DEF NoArticleLacksElement
  <2>1. PICK e \in Elements : check[e] # -1
    BY DEF IInv, Returned
  <2>2. /\ e \in Seq(Char) /\ check[e] \in -1 .. Len(e)
        /\ text \in Seq(Char) /\ pos = Len(text) + 1
    BY VerifyAssumption DEF IInv, TypeOK, Returned
  <2>3. ASSUME NEW i \in 1 .. Len(text), At(e, text, i), Clean(e, Len(e) - 1, text, i)
        PROVE  i + Len(e) = Len(text) + 1
    <3>1. check[e] = pos - i
      BY <2>1, <2>2, <2>3 DEF IInv, Followed
    <3>2. i + Len(e) <= Len(text) + 1
      BY <2>3 DEF At
    <3> QED
      BY <2>2, <3>1, <3>2
  <2> QED
    BY <2>3
<1> QED
  BY VerifyInvariance, <1>1, PTL
=============================================================================
