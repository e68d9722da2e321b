-------------------------- MODULE UrlExtractProofs --------------------------
(***************************************************************************)
(* What url-extract writes, for every alphabet, every prefix and every     *)
(* page.                                                                   *)
(***************************************************************************)
EXTENDS UrlExtract, TLAPS

LEMMA PrefixLength == Prefix \in Seq(Char) /\ Len(Prefix) \in Nat \ {0}
  BY ExtractAssumption

\* The parts of the type invariant every step leans on.
LEMMA Types ==
  ASSUME IInv
  PROVE  /\ text \in Seq(Char) /\ Len(text) \in Nat
         /\ pos \in 1 .. Len(text) + 1
         /\ idx \in 0 .. Len(Prefix)
         /\ start \in 1 .. pos
         /\ out \in Seq(Place)
         /\ done \in BOOLEAN
  BY DEF IInv, TypeOK

\* All of the prefix just before a position is an occurrence of it.
LEMMA WholeBefore ==
  ASSUME NEW t \in Seq(Char), NEW i \in 1 .. Len(t) + 1,
         EndsBefore(Prefix, Len(Prefix), t, i)
  PROVE  At(Prefix, t, i - Len(Prefix))
<1> DEFINE n == i - Len(Prefix)
<1>1. n \in 1 .. Len(t) + 1 /\ n + Len(Prefix) = i
  BY PrefixLength DEF EndsBefore
<1>2. \A j \in 1 .. Len(Prefix) : t[n + j - 1] = Prefix[j]
  BY <1>1, PrefixLength DEF EndsBefore
<1> QED
  BY <1>1, <1>2 DEF At

\* And the other way round.
LEMMA BeforeWhole ==
  ASSUME NEW t \in Seq(Char), NEW i \in 1 .. Len(t) + 1,
         At(Prefix, t, i - Len(Prefix))
  PROVE  EndsBefore(Prefix, Len(Prefix), t, i)
<1>1. Len(Prefix) < i
  BY PrefixLength DEF At
<1> QED
  BY <1>1, PrefixLength DEF At, EndsBefore

\* One more character of the prefix.
LEMMA OneMoreBefore ==
  ASSUME NEW t \in Seq(Char), NEW i \in 1 .. Len(t), NEW k \in 0 .. Len(Prefix) - 1,
         EndsBefore(Prefix, k, t, i), Prefix[k + 1] = t[i]
  PROVE  EndsBefore(Prefix, k + 1, t, i + 1)
<1>1. ASSUME NEW j \in 1 .. k + 1
      PROVE  t[i + 1 - (k + 1) + j - 1] = Prefix[j]
  <2>1. CASE j = k + 1
    BY <2>1, PrefixLength
  <2>2. CASE j \in 1 .. k
    BY <2>2, PrefixLength DEF EndsBefore
  <2> QED
    BY <2>1, <2>2
<1> QED
  BY <1>1, PrefixLength DEF EndsBefore

LEMMA InitInv == Init => IInv
<1>1. SUFFICES ASSUME Init PROVE IInv
  OBVIOUS
<1>2. TypeOK
  <2>1. text \in Seq(Char) /\ Len(text) \in Nat
    BY <1>1, ExtractAssumption DEF Init
  <2> QED
    <3>1. pos \in 1 .. Len(text) + 1 /\ idx \in 0 .. Len(Prefix) /\ start \in 1 .. pos
      BY <1>1, <2>1, PrefixLength DEF Init
    <3>2. out \in Seq(Place)
      BY <1>1 DEF Init
    <3>3. done \in BOOLEAN
      BY <1>1 DEF Init
    <3> QED
      BY <2>1, <3>1, <3>2, <3>3 DEF TypeOK
<1>3. Counted /\ Copying
  BY <1>1, PrefixLength DEF Init, Counted, Copying, InPath, EndsBefore
<1>4. LinesAreLinks /\ Followed
  BY <1>1 DEF Init, LinesAreLinks, Followed
<1> QED
  BY <1>1, <1>2, <1>3, <1>4 DEF IInv, Init

\* A line more: a path that follows the prefix, copied up to the end.
LEMMA OneMoreLine ==
  ASSUME IInv, InPath, text' = text, out' = Append(out, Line(start, pos)),
         pos <= Len(text) => text[pos] \notin UrlChar
  PROVE  /\ LinesAreLinks'
         /\ \A n \in DOMAIN out : n \in DOMAIN out' /\ out'[n] = out[n]
         /\ \E n \in DOMAIN out' : out'[n].from = start
<1> DEFINE l == Line(start, pos)
<1>1. l \in Place /\ l.from = start /\ l.to = pos
  BY Types DEF Line, Place
<1>2. /\ Len(out') = Len(out) + 1
      /\ DOMAIN out' = 1 .. Len(out) + 1
      /\ out'[Len(out) + 1] = l
      /\ \A n \in DOMAIN out : n \in DOMAIN out' /\ out'[n] = out[n]
  BY <1>1, Types
<1>3. LinesAreLinks'
  <2> SUFFICES ASSUME NEW n \in DOMAIN out'
               PROVE  IsPath(out'[n]) /\ At(Prefix, text, out'[n].from - Len(Prefix))
    BY DEF LinesAreLinks, IsPath
  <2>1. CASE n \in DOMAIN out
    BY <1>2, <2>1 DEF IInv, LinesAreLinks, IsPath
  <2>2. CASE n = Len(out) + 1
    BY <1>1, <1>2, <2>2, Types DEF IInv, Copying, IsPath
  <2> QED
    BY <1>2, <2>1, <2>2, Types
<1>4. \E n \in DOMAIN out' : out'[n].from = start
  BY <1>1, <1>2, Types
<1> QED
  BY <1>2, <1>3, <1>4

LEMMA MatchInv ==
  ASSUME IInv, Match
  PROVE  IInv'
<1> DEFINE c == text[pos]
<1>1. /\ pos \in 1 .. Len(text) /\ pos' = pos + 1 /\ start' = pos + 1
      /\ idx \in 0 .. Len(Prefix) - 1 /\ ~InPath
      /\ text' = text /\ out' = out /\ done = FALSE /\ done' = FALSE
  BY Types, PrefixLength DEF Match, Reading, InPath
<1>2. \/ Prefix[idx + 1] = c /\ idx' = idx + 1
      \/ idx' = 0
  BY DEF Match, Matched
<1>3. EndsBefore(Prefix, idx', text, pos + 1)
  <2>1. EndsBefore(Prefix, idx, text, pos)
    BY <1>1 DEF IInv, Counted
  <2>2. CASE Prefix[idx + 1] = c /\ idx' = idx + 1
    BY <1>1, <2>1, <2>2, Types, OneMoreBefore
  <2>3. CASE idx' = 0
    BY <1>1, <2>3, Types DEF EndsBefore
  <2> QED
    BY <1>2, <2>2, <2>3
<1>4. TypeOK'
  <2>1. pos' \in 1 .. Len(text') + 1 /\ idx' \in 0 .. Len(Prefix) /\ start' \in 1 .. pos'
    BY <1>1, <1>2, Types, PrefixLength
  <2>2. text' \in Seq(Char) /\ out' \in Seq(Place) /\ done' \in BOOLEAN
    BY <1>1, Types
  <2> QED
    BY <2>1, <2>2 DEF TypeOK
<1>5. Counted'
  BY <1>1, <1>3 DEF Counted
<1>6. Copying'
  <2> SUFFICES ASSUME InPath'
               PROVE  /\ At(Prefix, text, pos + 1 - Len(Prefix))
                      /\ \A j \in pos + 1 .. pos : text[j] \in UrlChar
    BY <1>1 DEF Copying
  <2>1. EndsBefore(Prefix, Len(Prefix), text, pos + 1)
    BY <1>3 DEF InPath
  <2> QED
    BY <1>1, <2>1, Types, WholeBefore
<1>7. LinesAreLinks'
  BY <1>1 DEF IInv, LinesAreLinks, IsPath
<1>8. Followed'
  <2> SUFFICES ASSUME NEW i \in 1 .. Len(text), PlainLink(i), pos + 1 > i
               PROVE  Caught(i)'
    BY <1>1 DEF Followed, PlainLink
  <2>1. CASE \E n \in DOMAIN out : out[n].from = i + Len(Prefix)
    BY <1>1, <2>1 DEF Caught
  <2>2. CASE ~\E n \in DOMAIN out : out[n].from = i + Len(Prefix)
    <3>1. pos < i + Len(Prefix) /\ idx = pos - i
      <4>1. CASE pos > i
        BY <1>1, <2>2, <4>1 DEF IInv, Followed, Caught
      <4>2. CASE pos = i
        <5>1. EndsBefore(Prefix, idx, text, i)
          BY <1>1, <4>2 DEF IInv, Counted
        <5>2. idx = 0
          BY <1>1, <5>1 DEF PlainLink, Clean
        <5> QED
          BY <1>1, <4>2, <5>2, PrefixLength
      <4> QED
        BY <1>1, <4>1, <4>2
    <3>2. text[i + (idx + 1) - 1] = Prefix[idx + 1]
      BY <1>1, PrefixLength DEF PlainLink, At
    <3>3. idx' = idx + 1
      BY <1>1, <3>1, <3>2 DEF Match, Matched
    <3>4. CASE idx' = Len(Prefix)
      BY <1>1, <3>1, <3>3, <3>4 DEF Caught, InPath
    <3>5. CASE idx' # Len(Prefix)
      BY <1>1, <3>1, <3>3, <3>5, PrefixLength DEF Caught, InPath
    <3> QED
      BY <3>4, <3>5
  <2> QED
    BY <2>1, <2>2
<1> QED
  BY <1>1, <1>4, <1>5, <1>6, <1>7, <1>8 DEF IInv

\* No plain link begins at a character that is read while a path is copied.
LEMMA NotInPath ==
  ASSUME IInv, InPath, pos <= Len(text),
         NEW i \in 1 .. Len(text), PlainLink(i)
  PROVE  pos # i
<1>1. SUFFICES ASSUME pos = i PROVE FALSE
  OBVIOUS
<1>2. At(Prefix, text, start - Len(Prefix)) /\ \A j \in start .. pos - 1 : text[j] \in UrlChar
  BY DEF IInv, Copying
<1>3. CASE start = pos
  <2>1. EndsBefore(Prefix, Len(Prefix), text, pos)
    BY <1>2, <1>3, Types, BeforeWhole
  <2> QED
    BY <1>1, <2>1, PrefixLength DEF PlainLink, Clean
<1>4. CASE start < pos
  <2>1. text[i - 1] \in UrlChar /\ i # 1
    BY <1>1, <1>2, <1>4, Types
  <2> QED
    BY <2>1 DEF PlainLink
<1> QED
  BY <1>3, <1>4, Types

LEMMA PathCharInv ==
  ASSUME IInv, PathChar
  PROVE  IInv'
<1>1. /\ pos \in 1 .. Len(text) /\ pos' = pos + 1 /\ text[pos] \in UrlChar
      /\ idx' = idx /\ start' = start /\ InPath
      /\ text' = text /\ out' = out /\ done = FALSE /\ done' = FALSE
  BY Types DEF PathChar, Reading, InPath
<1>2. TypeOK'
  <2>1. pos' \in 1 .. Len(text') + 1 /\ idx' \in 0 .. Len(Prefix) /\ start' \in 1 .. pos'
    BY <1>1, Types
  <2>2. text' \in Seq(Char) /\ out' \in Seq(Place) /\ done' \in BOOLEAN
    BY <1>1, Types
  <2> QED
    BY <2>1, <2>2 DEF TypeOK
<1>3. Counted'
  BY <1>1 DEF Counted, InPath
<1>4. Copying'
  <2>1. \A j \in start .. pos : text[j] \in UrlChar
    BY <1>1, Types DEF IInv, Copying
  <2> QED
    BY <1>1, <2>1, Types DEF IInv, Copying, InPath
<1>5. LinesAreLinks'
  BY <1>1 DEF IInv, LinesAreLinks, IsPath
<1>6. Followed'
  <2> SUFFICES ASSUME NEW i \in 1 .. Len(text), PlainLink(i), pos + 1 > i
               PROVE  Caught(i)'
    BY <1>1 DEF Followed, PlainLink
  <2>1. pos > i
    BY <1>1, NotInPath
  <2>2. Caught(i)
    BY <2>1 DEF IInv, Followed
  <2> QED
    BY <1>1, <2>2 DEF Caught, InPath
<1> QED
  BY <1>1, <1>2, <1>3, <1>4, <1>5, <1>6 DEF IInv

LEMMA PathEndInv ==
  ASSUME IInv, PathEnd
  PROVE  IInv'
<1>1. /\ pos \in 1 .. Len(text) /\ pos' = pos + 1 /\ text[pos] \notin UrlChar
      /\ idx' = 0 /\ start' = start /\ InPath
      /\ out' = Append(out, Line(start, pos))
      /\ text' = text /\ done = FALSE /\ done' = FALSE
  BY Types DEF PathEnd, Reading, InPath, NoMatch
<1>2. TypeOK'
  <2>1. Line(start, pos) \in Place
    BY Types DEF Line, Place
  <2>2. pos' \in 1 .. Len(text') + 1 /\ idx' \in 0 .. Len(Prefix) /\ start' \in 1 .. pos'
    BY <1>1, Types, PrefixLength
  <2>3. text' \in Seq(Char) /\ out' \in Seq(Place)
    BY <1>1, <2>1, Types
  <2>4. done' \in BOOLEAN
    BY <1>1
  <2> QED
    BY <2>2, <2>3, <2>4 DEF TypeOK
<1>3. Counted' /\ Copying'
  BY <1>1, Types, PrefixLength DEF Counted, Copying, InPath, EndsBefore
<1>4. /\ LinesAreLinks'
      /\ \A n \in DOMAIN out : n \in DOMAIN out' /\ out'[n] = out[n]
      /\ \E n \in DOMAIN out' : out'[n].from = start
  BY <1>1, OneMoreLine
<1>5. Followed'
  <2> SUFFICES ASSUME NEW i \in 1 .. Len(text), PlainLink(i), pos + 1 > i
               PROVE  Caught(i)'
    BY <1>1 DEF Followed, PlainLink
  <2>1. pos > i
    BY <1>1, NotInPath
  <2>2. Caught(i)
    BY <2>1 DEF IInv, Followed
  <2>3. \E n \in DOMAIN out' : out'[n].from = i + Len(Prefix)
    BY <1>1, <1>4, <2>2 DEF Caught
  <2> QED
    BY <2>3 DEF Caught
<1> QED
  BY <1>1, <1>2, <1>3, <1>4, <1>5 DEF IInv

LEMMA EndOfFileInv ==
  ASSUME IInv, EndOfFile
  PROVE  IInv'
<1> DEFINE last == InPath /\ start < pos
<1>1. /\ pos = Len(text) + 1 /\ pos' = pos /\ idx' = idx /\ start' = start
      /\ text' = text /\ done = FALSE /\ done' = TRUE
      /\ out' = IF last THEN Append(out, Line(start, pos)) ELSE out
  BY Types DEF EndOfFile, InPath
<1>2. TypeOK'
  <2>1. Line(start, pos) \in Place
    BY Types DEF Line, Place
  <2>2. out' \in Seq(Place)
    BY <1>1, <2>1, Types
  <2> QED
    BY <1>1, <2>2, Types DEF TypeOK
<1>3. Counted' /\ Copying'
  BY <1>1 DEF IInv, Counted, Copying, InPath
<1>4. /\ LinesAreLinks'
      /\ \A n \in DOMAIN out : n \in DOMAIN out' /\ out'[n] = out[n]
      /\ last => \E n \in DOMAIN out' : out'[n].from = start
  <2>1. CASE last
    BY <1>1, <2>1, Types, OneMoreLine
  <2>2. CASE ~last
    BY <1>1, <2>2 DEF IInv, LinesAreLinks, IsPath
  <2> QED
    BY <2>1, <2>2
<1>5. Followed'
  <2> SUFFICES ASSUME NEW i \in 1 .. Len(text), PlainLink(i), pos > i
               PROVE  \E n \in DOMAIN out' : out'[n].from = i + Len(Prefix)
    BY <1>1 DEF Followed, PlainLink, Caught
  <2>1. Caught(i)
    BY DEF IInv, Followed
  <2>2. i + Len(Prefix) < pos
    BY <1>1, Types, PrefixLength DEF PlainLink
  <2>3. CASE InPath /\ start = i + Len(Prefix)
    BY <1>4, <2>2, <2>3
  <2>4. CASE \E n \in DOMAIN out : out[n].from = i + Len(Prefix)
    BY <1>4, <2>4
  <2>5. ~(pos < i + Len(Prefix))
    BY <2>2, Types, PrefixLength
  <2> QED
    BY <2>1, <2>3, <2>4, <2>5 DEF Caught
<1> QED
  BY <1>1, <1>2, <1>3, <1>4, <1>5, Types DEF IInv

\* Every reachable state satisfies the inductive invariant.
THEOREM ExtractInvariance == Spec => []IInv
<1>1. IInv /\ [Next]_vars => IInv'
  <2> SUFFICES ASSUME IInv, [Next]_vars PROVE IInv'
    OBVIOUS
  <2>1. CASE Match
    BY <2>1, MatchInv
  <2>2. CASE PathChar
    BY <2>2, PathCharInv
  <2>3. CASE PathEnd
    BY <2>3, PathEndInv
  <2>4. CASE EndOfFile
    BY <2>4, EndOfFileInv
  <2>5. CASE UNCHANGED vars
    BY <2>5 DEF vars, IInv, TypeOK, Counted, Copying, InPath, LinesAreLinks, IsPath,
                Followed, PlainLink, Caught
  <2> QED
    BY <2>1, <2>2, <2>3, <2>4, <2>5 DEF Next
<1> QED
  BY InitInv, <1>1, PTL DEF Spec

\* Every line url-extract writes is a path that follows the domain's prefix in
\* the page (url-extract.c lines 44-58 and 106-112).
THEOREM OnlyLinksWritten == Spec => []LinesAreLinks
<1>1. IInv => LinesAreLinks
  BY DEF IInv
<1> QED
  BY ExtractInvariance, <1>1, PTL

\* When it returns, every plain link of the page has its line.
THEOREM AllPlainLinksWritten == Spec => []PlainLinksWritten
<1>1. IInv => PlainLinksWritten
  <2> SUFFICES ASSUME IInv, done, NEW i \in 1 .. Len(text), PlainLink(i)
               PROVE  \E n \in DOMAIN out : out[n].from = i + Len(Prefix)
    BY DEF PlainLinksWritten
  <2>1. pos = Len(text) + 1
    BY Types DEF IInv
  <2>2. Caught(i)
    BY <2>1, Types DEF IInv, Followed
  <2>3. ~(pos < i + Len(Prefix))
    BY <2>1, Types, PrefixLength DEF PlainLink
  <2> QED
    BY <2>2, <2>3 DEF Caught
<1> QED
  BY ExtractInvariance, <1>1, PTL
=============================================================================
