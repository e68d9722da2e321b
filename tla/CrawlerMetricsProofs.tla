------------------------ MODULE CrawlerMetricsProofs ------------------------
(***************************************************************************)
(* Proofs about CrawlerMetrics: what has been counted and what the tables  *)
(* hold, for any addresses, bounds, faults and crashes.                    *)
(***************************************************************************)
EXTENDS CrawlerMetrics, CrawlerProofs

-----------------------------------------------------------------------------
(***************************************************************************)
(* Sums over the INSERTs on their way                                      *)
(***************************************************************************)
LEMMA Ascent ==
  ASSUME NEW G, 0 \in G, \A n \in Nat : n \in G => n + 1 \in G
  PROVE  Nat \subseteq G
<1> DEFINE B == {n \in Nat : n \notin G}
<1> SUFFICES ASSUME B # {} PROVE FALSE
  OBVIOUS
<1>1. \E n \in B : \A m \in B : ~(<<m, n>> \in OpToRel(<, Nat))
  <2>1. B \subseteq Nat
    OBVIOUS
  <2> HIDE DEF B
  <2> QED BY <2>1, NatLessThanWellFounded, WFMin
<1>2. PICK n \in B : \A m \in B : ~(m < n)
  BY <1>1 DEF OpToRel
<1>3. n # 0 /\ n \in Nat
  BY <1>2
<1>4. n - 1 \in Nat /\ n - 1 < n /\ (n - 1) + 1 = n
  BY <1>3
<1>5. n - 1 \in G
  BY <1>2, <1>4
<1> QED BY <1>2, <1>4, <1>5

\* f holds the sums of the beginnings of s.
Summing(f, s, k) ==
  /\ f \in [0 .. Len(s) -> Nat]
  /\ f[0] = 0
  /\ \A i \in 1 .. Len(s) : f[i] = f[i - 1] + s[i][k]

LEMMA SumIs ==
  ASSUME NEW s \in Seq(Counts), NEW k \in M!Kinds, NEW f, Summing(f, s, k)
  PROVE  Sum(s, k) = f[Len(s)] /\ Sum(s, k) \in Nat
<1> DEFINE n == Len(s)
           Body(g, i) == IF i = 0 THEN 0 ELSE g[i - 1] + s[i][k]
           sum == CHOOSE g : g = [i \in 0 .. n |-> Body(g, i)]
<1>0. n \in Nat
  OBVIOUS
<1>1. f = [i \in 0 .. n |-> Body(f, i)]
  <2>1. \A i \in 0 .. n : i = 0 \/ i \in 1 .. n
    BY <1>0
  <2>2. f = [i \in 0 .. n |-> f[i]]
    BY DEF Summing
  <2>3. \A i \in 0 .. n : f[i] = Body(f, i)
    BY <2>1 DEF Summing
  <2> HIDE DEF Body
  <2> QED BY <2>2, <2>3
<1>2. sum = [i \in 0 .. n |-> Body(sum, i)]
  <2> HIDE DEF Body, n
  <2> QED BY <1>1
<1>3. \A i \in 0 .. n : sum[i] = Body(sum, i)
  <2> HIDE DEF Body, n, sum
  <2> QED BY <1>2
<1> DEFINE G == {i \in Nat : i <= n => sum[i] = f[i]}
<1> HIDE DEF sum
<1>4. 0 \in G
  BY <1>0, <1>3 DEF Summing
<1>5. ASSUME NEW i \in Nat, i \in G PROVE i + 1 \in G
  <2>1. CASE i + 1 <= n
    <3>1. i + 1 \in 0 .. n /\ i + 1 \in 1 .. n /\ i <= n /\ (i + 1) - 1 = i /\ i + 1 # 0
      BY <1>0, <2>1
    <3>2. sum[i + 1] = sum[i] + s[i + 1][k]
      BY <1>3, <3>1
    <3>3. f[i + 1] = f[i] + s[i + 1][k]
      BY <3>1 DEF Summing
    <3> QED BY <1>5, <3>1, <3>2, <3>3
  <2> QED BY <2>1
<1>6. n \in G
  <2> HIDE DEF G, n
  <2> QED BY <1>0, <1>4, <1>5, Ascent
<1>7. Sum(s, k) = sum[n]
  BY DEF Sum, sum
<1>8. f[n] \in Nat
  BY <1>0 DEF Summing
<1> QED BY <1>0, <1>6, <1>7, <1>8

LEMMA CountTypesOf ==
  /\ \A c \in Counts, k \in M!Kinds : c[k] \in Nat
  /\ M!Zero \in Counts /\ \A k \in M!Kinds : M!Zero[k] = 0
  /\ \A c, d \in Counts : M!Plus(c, d) \in Counts
  /\ \A c, d \in Counts, k \in M!Kinds : M!Plus(c, d)[k] = c[k] + d[k]
BY DEF Counts, M!Zero, M!Plus

LEMMA SumEmpty ==
  ASSUME NEW k \in M!Kinds
  PROVE  Sum(<<>>, k) = 0 /\ \E f : Summing(f, <<>>, k)
<1> DEFINE f == [i \in 0 .. 0 |-> 0]
<1>1. Summing(f, <<>>, k) /\ f[0] = 0
  BY DEF Summing
<1>2. Len(<<>>) = 0 /\ <<>> \in Seq(Counts)
  OBVIOUS
<1> HIDE DEF f
<1> QED BY <1>1, <1>2, SumIs

LEMMA SumAppends ==
  ASSUME NEW s \in Seq(Counts), NEW c \in Counts, NEW k \in M!Kinds, NEW f, Summing(f, s, k)
  PROVE  /\ \E g : Summing(g, Append(s, c), k)
         /\ Sum(Append(s, c), k) = Sum(s, k) + c[k]
<1> DEFINE n == Len(s)
           r == Append(s, c)
           g == [i \in 0 .. n + 1 |-> IF i = n + 1 THEN f[n] + c[k] ELSE f[i]]
<1>0. /\ n \in Nat /\ r \in Seq(Counts) /\ Len(r) = n + 1
      /\ r[n + 1] = c /\ \A i \in 1 .. n : r[i] = s[i]
  OBVIOUS
<1>1. c[k] \in Nat /\ \A i \in 0 .. n : f[i] \in Nat
  BY CountTypesOf DEF Summing
<1> HIDE DEF r, n
<1>2. g \in [0 .. n + 1 -> Nat]
  <2>1. \A i \in 0 .. n + 1 : i = n + 1 \/ i \in 0 .. n
    BY <1>0
  <2>2. f[n] + c[k] \in Nat
    BY <1>0, <1>1
  <2> QED BY <1>1, <2>1, <2>2
<1>3. g[n + 1] = f[n] + c[k] /\ \A i \in 0 .. n : g[i] = f[i]
  BY <1>0
<1> HIDE DEF g
<1>4. ASSUME NEW i \in 1 .. n + 1 PROVE g[i] = g[i - 1] + r[i][k]
  <2>1. CASE i = n + 1
    <3>1. i - 1 = n /\ n \in 0 .. n
      BY <1>0, <2>1
    <3> QED BY <1>0, <1>3, <2>1, <3>1
  <2>2. CASE i # n + 1
    <3>1. i \in 1 .. n /\ i \in 0 .. n /\ i - 1 \in 0 .. n
      BY <1>0, <2>2
    <3>2. f[i] = f[i - 1] + s[i][k]
      BY <3>1 DEF Summing, n
    <3> QED BY <1>0, <1>3, <3>1, <3>2
  <2> QED BY <2>1, <2>2
<1>5. Summing(g, r, k)
  <2>1. 0 \in 0 .. n /\ f[0] = 0
    BY <1>0 DEF Summing
  <2> QED BY <1>0, <1>2, <1>3, <1>4, <2>1 DEF Summing
<1>6. Sum(r, k) = g[n + 1] /\ Sum(s, k) = f[n]
  <2>1. Sum(s, k) = f[n]
    BY SumIs DEF n
  <2> QED BY <1>0, <1>5, <2>1, SumIs
<1> QED BY <1>3, <1>5, <1>6 DEF r

LEMMA SumExists ==
  ASSUME NEW s \in Seq(Counts), NEW k \in M!Kinds
  PROVE  \E f : Summing(f, s, k)
<1> DEFINE Upto(f, n) == /\ f \in [0 .. n -> Nat]
                         /\ f[0] = 0
                         /\ \A i \in 1 .. n : f[i] = f[i - 1] + s[i][k]
           G == {n \in Nat : n <= Len(s) => \E f : Upto(f, n)}
<1>0. Len(s) \in Nat
  OBVIOUS
<1>1. 0 \in G
  <2> DEFINE f == [i \in 0 .. 0 |-> 0]
  <2>1. Upto(f, 0)
    OBVIOUS
  <2> HIDE DEF f, Upto
  <2> QED BY <2>1
<1>2. ASSUME NEW n \in Nat, n \in G PROVE n + 1 \in G
  <2> SUFFICES ASSUME n + 1 <= Len(s) PROVE \E g : Upto(g, n + 1)
    <3> HIDE DEF Upto
    <3> QED OBVIOUS
  <2>1. n <= Len(s) /\ n + 1 \in 1 .. Len(s)
    BY <1>0
  <2>2. PICK f : Upto(f, n)
    BY <1>2, <2>1
  <2>3. s[n + 1][k] \in Nat
    <3>1. s[n + 1] \in Counts
      BY <2>1
    <3> QED BY <3>1, CountTypesOf
  <2> DEFINE g == [i \in 0 .. n + 1 |-> IF i = n + 1 THEN f[n] + s[n + 1][k] ELSE f[i]]
  <2>4. \A i \in 0 .. n + 1 : i = n + 1 \/ i \in 0 .. n
    OBVIOUS
  <2>5. f[n] + s[n + 1][k] \in Nat /\ \A i \in 0 .. n : f[i] \in Nat
    BY <2>2, <2>3
  <2>6. g \in [0 .. n + 1 -> Nat]
    BY <2>4, <2>5
  <2>7. g[n + 1] = f[n] + s[n + 1][k] /\ \A i \in 0 .. n : g[i] = f[i]
    OBVIOUS
  <2> HIDE DEF g
  <2>8. ASSUME NEW i \in 1 .. n + 1 PROVE g[i] = g[i - 1] + s[i][k]
    <3>1. CASE i = n + 1
      <4>1. i - 1 = n /\ n \in 0 .. n
        BY <3>1
      <4> QED BY <2>7, <3>1, <4>1
    <3>2. CASE i # n + 1
      <4>1. i \in 1 .. n /\ i \in 0 .. n /\ i - 1 \in 0 .. n
        BY <3>2
      <4> QED BY <2>2, <2>7, <4>1
    <3> QED BY <3>1, <3>2
  <2>9. g[0] = 0
    BY <2>2, <2>7
  <2> QED BY <2>6, <2>8, <2>9
<1>3. Len(s) \in G
  <2> HIDE DEF G
  <2> QED BY <1>0, <1>1, <1>2, Ascent
<1> QED BY <1>3 DEF Summing

\* The sum of a queue, of one with a new INSERT, and of one whose first is gone.
LEMMA SumType ==
  ASSUME NEW s \in Seq(Counts), NEW k \in M!Kinds
  PROVE  Sum(s, k) \in Nat
BY SumExists, SumIs

LEMMA SumAppend ==
  ASSUME NEW s \in Seq(Counts), NEW c \in Counts, NEW k \in M!Kinds
  PROVE  Sum(Append(s, c), k) = Sum(s, k) + c[k]
<1>1. PICK f : Summing(f, s, k)
  BY SumExists
<1> QED BY <1>1, SumAppends

LEMMA SumHead ==
  ASSUME NEW s \in Seq(Counts), s # <<>>, NEW k \in M!Kinds
  PROVE  /\ Head(s) \in Counts /\ Tail(s) \in Seq(Counts)
         /\ Sum(s, k) = Head(s)[k] + Sum(Tail(s), k)
<1> DEFINE r == Tail(s)
           n == Len(r)
           c == Head(s)
<1>0. /\ r \in Seq(Counts) /\ n \in Nat /\ Len(s) = n + 1 /\ c \in Counts
      /\ s[1] = c /\ \A i \in 1 .. n : r[i] = s[i + 1]
  BY HeadTailProperties
<1> HIDE DEF r, n, c
<1>1. PICK f : Summing(f, r, k)
  BY <1>0, SumExists
<1>2. f \in [0 .. n -> Nat] /\ f[0] = 0 /\ \A i \in 1 .. n : f[i] = f[i - 1] + r[i][k]
  BY <1>1 DEF Summing, n
<1>3. c[k] \in Nat /\ \A i \in 0 .. n : f[i] \in Nat
  BY <1>0, <1>2, CountTypesOf
<1> DEFINE g == [i \in 0 .. n + 1 |-> IF i = 0 THEN 0 ELSE c[k] + f[i - 1]]
<1>4. \A i \in 0 .. n + 1 : i = 0 \/ (i # 0 /\ i - 1 \in 0 .. n)
  BY <1>0
<1>5. g \in [0 .. n + 1 -> Nat]
  BY <1>3, <1>4
<1>6. g[0] = 0 /\ \A i \in 1 .. n + 1 : g[i] = c[k] + f[i - 1]
  BY <1>0
<1> HIDE DEF g
<1>7. ASSUME NEW i \in 1 .. n + 1 PROVE g[i] = g[i - 1] + s[i][k]
  <2>1. CASE i = 1
    <3>1. g[1] = c[k] + f[0] /\ 1 - 1 = 0
      BY <1>0, <1>6
    <3> QED BY <1>0, <1>2, <1>3, <1>6, <2>1, <3>1
  <2>2. CASE i # 1
    <3>1. i - 1 \in 1 .. n /\ i - 1 \in 1 .. n + 1 /\ (i - 1) - 1 \in 0 .. n /\ (i - 1) + 1 = i
      BY <1>0, <2>2
    <3>2. PICK j \in 1 .. n : j = i - 1
      BY <3>1
    <3>3. g[i] = c[k] + f[j] /\ g[j] = c[k] + f[j - 1]
      BY <1>6, <3>1, <3>2
    <3>4. f[j] = f[j - 1] + s[i][k] /\ f[j - 1] \in Nat /\ f[j] \in Nat
      <4>1. r[j] = s[i]
        BY <1>0, <3>1, <3>2
      <4>2. j - 1 \in 0 .. n /\ j \in 0 .. n
        BY <1>0
      <4> QED BY <1>2, <1>3, <4>1, <4>2
    <3>5. s[i][k] \in Nat
      <4>1. i \in 1 .. Len(s)
        BY <1>0
      <4>2. s[i] \in Counts
        BY <4>1
      <4> QED BY <4>2, CountTypesOf
    <3> QED BY <1>3, <3>2, <3>3, <3>4, <3>5
  <2> QED BY <2>1, <2>2
<1>8. Summing(g, s, k)
  BY <1>0, <1>5, <1>6, <1>7 DEF Summing
<1>9. Sum(s, k) = g[n + 1] /\ Sum(r, k) = f[n]
  <2>1. Sum(r, k) = f[n]
    BY <1>0, <1>1, SumIs DEF n
  <2> QED BY <1>0, <1>8, <2>1, SumIs
<1>10. g[n + 1] = c[k] + f[n]
  <2>1. n + 1 \in 1 .. n + 1 /\ (n + 1) - 1 = n
    BY <1>0
  <2> QED BY <1>6, <2>1
<1> QED BY <1>0, <1>9, <1>10 DEF r, c

LEMMA SumZero ==
  ASSUME NEW s \in Seq(Counts), NEW k \in M!Kinds, \A i \in DOMAIN s : s[i] = M!Zero
  PROVE  Sum(s, k) = 0
<1> DEFINE f == [i \in 0 .. Len(s) |-> 0]
<1>0. Len(s) \in Nat
  OBVIOUS
<1>1. f \in [0 .. Len(s) -> Nat] /\ \A i \in 0 .. Len(s) : f[i] = 0
  OBVIOUS
<1> HIDE DEF f
<1>2. ASSUME NEW i \in 1 .. Len(s)
      PROVE  s[i][k] = 0 /\ i \in 0 .. Len(s) /\ i - 1 \in 0 .. Len(s)
  <2>1. s[i] = M!Zero
    OBVIOUS
  <2>2. s[i][k] = 0
    BY <2>1, CountTypesOf
  <2> QED BY <1>0, <2>2
<1>3. Summing(f, s, k)
  BY <1>0, <1>1, <1>2 DEF Summing
<1> QED BY <1>0, <1>1, <1>3, SumIs

-----------------------------------------------------------------------------
(***************************************************************************)
(* What happens to the totals                                              *)
(***************************************************************************)
LEMMA TotalTypes ==
  ASSUME MTypeOK, NEW k \in M!Kinds
  PROVE  Total(k) = recorded[k] + counts[k] + Sum(sent, k) /\ Total(k) \in Nat
<1>1. recorded[k] \in Nat /\ counts[k] \in Nat /\ Sum(sent, k) \in Nat
  BY CountTypesOf, SumType DEF MTypeOK
<1> QED BY <1>1 DEF Total

\* Nothing has been counted: at most some counts have been lost.
Moved ==
  /\ lost => lost'
  /\ \A k \in M!Kinds : Total(k)' <= Total(k) /\ (~lost' => Total(k)' = Total(k))

LEMMA MovedStill ==
  ASSUME MTypeOK, UNCHANGED metrics
  PROVE  MTypeOK' /\ Moved
<1>1. MTypeOK'
  BY DEF metrics, MTypeOK
<1>2. \A k \in M!Kinds : Total(k)' = Total(k) /\ Total(k) \in Nat
  BY TotalTypes DEF metrics, Total
<1>3. \A k \in M!Kinds : Total(k)' <= Total(k)
  BY <1>2
<1> QED BY <1>1, <1>2, <1>3 DEF metrics, Moved

LEMMA MovedSend ==
  ASSUME MTypeOK, M!update_metrics
  PROVE  MTypeOK' /\ Moved /\ sent' = Append(sent, counts)
<1>1. /\ sent' = Append(sent, counts) /\ counts' = M!Zero /\ UNCHANGED <<recorded, lost>>
      /\ counts \in Counts /\ sent \in Seq(Counts)
  BY DEF M!update_metrics, MTypeOK
<1>2. MTypeOK'
  BY <1>1, CountTypesOf DEF MTypeOK
<1>3. ASSUME NEW k \in M!Kinds PROVE Total(k)' = Total(k) /\ Total(k)' <= Total(k)
  <2>1. Sum(sent', k) = Sum(sent, k) + counts[k]
    BY <1>1, SumAppend
  <2>2. Total(k)' = recorded'[k] + counts'[k] + Sum(sent', k)
    BY DEF Total
  <2>3. recorded[k] \in Nat /\ counts[k] \in Nat /\ Sum(sent, k) \in Nat /\ counts'[k] = 0
    BY <1>1, CountTypesOf, SumType DEF MTypeOK
  <2> QED BY <1>1, <2>1, <2>2, <2>3, TotalTypes
<1> QED BY <1>1, <1>2, <1>3 DEF Moved

LEMMA MovedAnswered ==
  ASSUME MTypeOK, sent # <<>>, NEW ok \in BOOLEAN, M!Answered(ok)
  PROVE  MTypeOK' /\ Moved /\ sent' = Tail(sent)
<1>1. /\ sent' = Tail(sent) /\ UNCHANGED counts
      /\ ok = TRUE => recorded' = M!Plus(recorded, Head(sent)) /\ lost' = lost
      /\ ok = FALSE => recorded' = recorded /\ lost' = (lost \/ Head(sent) # M!Zero)
      /\ counts \in Counts /\ sent \in Seq(Counts) /\ recorded \in Counts
  BY DEF M!Answered, MTypeOK
<1>2. Head(sent) \in Counts /\ Tail(sent) \in Seq(Counts)
  BY <1>1, HeadTailProperties
<1>3. MTypeOK'
  BY <1>1, <1>2, CountTypesOf DEF MTypeOK
<1>4. ASSUME NEW k \in M!Kinds
      PROVE  Total(k)' <= Total(k) /\ (~lost' => Total(k)' = Total(k))
  <2>1. Sum(sent, k) = Head(sent)[k] + Sum(sent', k)
    BY <1>1, SumHead
  <2>2. Total(k)' = recorded'[k] + counts[k] + Sum(sent', k)
    BY <1>1 DEF Total
  <2>3. /\ recorded[k] \in Nat /\ counts[k] \in Nat /\ Sum(sent', k) \in Nat
        /\ Head(sent)[k] \in Nat
    BY <1>1, <1>2, CountTypesOf, SumType
  <2>4. Total(k) = recorded[k] + counts[k] + Sum(sent, k)
    BY TotalTypes
  <2>5. CASE ok = TRUE
    <3>1. recorded'[k] = recorded[k] + Head(sent)[k]
      <4>1. recorded' = M!Plus(recorded, Head(sent))
        BY <2>5 DEF M!Answered
      <4> QED BY <1>1, <1>2, <4>1, CountTypesOf
    <3> QED BY <2>1, <2>2, <2>3, <2>4, <3>1
  <2>6. CASE ok = FALSE
    <3>1. recorded'[k] = recorded[k] /\ (~lost' => Head(sent)[k] = 0)
      BY <1>1, <2>6, CountTypesOf
    <3> QED BY <2>1, <2>2, <2>3, <2>4, <3>1
  <2>7. ok = TRUE \/ ok = FALSE
    OBVIOUS
  <2> QED BY <2>5, <2>6, <2>7, Zenon
<1>5. lost => lost'
  BY Zenon DEF M!Answered
<1> QED BY <1>1, <1>3, <1>4, <1>5 DEF Moved

LEMMA MovedUnanswered ==
  ASSUME MTypeOK, sent # <<>>, M!Unanswered
  PROVE  MTypeOK' /\ Moved /\ Len(sent') = Len(sent)
<1>1. /\ recorded' = M!Plus(recorded, Head(sent)) /\ sent' = [sent EXCEPT ![1] = M!Zero]
      /\ UNCHANGED <<counts, lost>>
      /\ counts \in Counts /\ sent \in Seq(Counts) /\ recorded \in Counts
  BY DEF M!Unanswered, MTypeOK
<1>2. Head(sent) \in Counts /\ Tail(sent) \in Seq(Counts)
  BY <1>1, HeadTailProperties
<1>3. /\ sent' \in Seq(Counts) /\ Len(sent') = Len(sent) /\ sent' # <<>>
      /\ Head(sent') = M!Zero /\ Tail(sent') = Tail(sent)
  <2>1. Len(sent) \in Nat \ {0} /\ DOMAIN sent = 1 .. Len(sent) /\ M!Zero \in Counts
    BY <1>1, CountTypesOf
  <2>2. sent' \in [1 .. Len(sent) -> Counts] /\ sent'[1] = M!Zero
    BY <1>1, <2>1
  <2>3. sent' \in Seq(Counts) /\ Len(sent') = Len(sent) /\ sent' # <<>>
    BY <2>1, <2>2
  <2>4. Head(sent') = M!Zero
    BY <2>2, <2>3
  <2>5. /\ Tail(sent') \in Seq(Counts) /\ Len(Tail(sent')) = Len(sent) - 1
        /\ Len(Tail(sent)) = Len(sent) - 1
        /\ \A i \in 1 .. Len(sent) - 1 : Tail(sent')[i] = sent'[i + 1] /\ Tail(sent)[i] = sent[i + 1]
    BY <1>1, <2>3, HeadTailProperties
  <2>6. \A i \in 1 .. Len(sent) - 1 : sent'[i + 1] = sent[i + 1]
    BY <1>1, <2>1
  <2>7. Tail(sent') = Tail(sent)
    BY <1>2, <2>5, <2>6, SeqEqual
  <2> QED BY <2>3, <2>4, <2>7
<1>4. MTypeOK'
  BY <1>1, <1>2, <1>3, CountTypesOf DEF MTypeOK
<1>5. ASSUME NEW k \in M!Kinds PROVE Total(k)' = Total(k) /\ Total(k)' <= Total(k)
  <2>1. /\ Sum(sent, k) = Head(sent)[k] + Sum(Tail(sent), k)
        /\ Sum(sent', k) = 0 + Sum(Tail(sent), k)
    <3>1. Sum(sent, k) = Head(sent)[k] + Sum(Tail(sent), k)
      BY <1>1, SumHead
    <3>2. Sum(sent', k) = Head(sent')[k] + Sum(Tail(sent'), k)
      BY <1>3, SumHead
    <3> QED BY <1>3, <3>1, <3>2, CountTypesOf
  <2>2. Total(k)' = recorded'[k] + counts[k] + Sum(sent', k)
    BY <1>1 DEF Total
  <2>3. /\ recorded[k] \in Nat /\ counts[k] \in Nat /\ Sum(Tail(sent), k) \in Nat
        /\ Head(sent)[k] \in Nat
    BY <1>1, <1>2, CountTypesOf, SumType
  <2>4. recorded'[k] = recorded[k] + Head(sent)[k]
    BY <1>1, <1>2, CountTypesOf
  <2> QED BY <2>1, <2>2, <2>3, <2>4, TotalTypes
<1> QED BY <1>1, <1>3, <1>4, <1>5 DEF Moved

LEMMA MovedForgotten ==
  ASSUME MTypeOK, NEW executed \in BOOLEAN, executed => sent # <<>>, M!Forgotten(executed)
  PROVE  MTypeOK' /\ Moved /\ sent' = <<>>
<1>1. /\ counts' = M!Zero /\ sent' = <<>>
      /\ recorded' = IF executed THEN M!Plus(recorded, Head(sent)) ELSE recorded
      /\ lost' = \/ lost \/ counts # M!Zero
                 \/ \E i \in DOMAIN sent : sent[i] # M!Zero /\ ~(executed /\ i = 1)
      /\ counts \in Counts /\ sent \in Seq(Counts) /\ recorded \in Counts /\ lost \in BOOLEAN
  BY DEF M!Forgotten, MTypeOK
<1>2. lost => lost'
  BY <1>1
<1>3. lost' \in BOOLEAN
  BY <1>1
<1>4. recorded' \in Counts
  <2>1. executed => Head(sent) \in Counts
    BY <1>1, HeadTailProperties
  <2> QED BY <1>1, <2>1, CountTypesOf
<1>5. MTypeOK'
  BY <1>1, <1>3, <1>4, CountTypesOf DEF MTypeOK
<1>6. ASSUME NEW k \in M!Kinds
      PROVE  Total(k)' <= Total(k) /\ (~lost' => Total(k)' = Total(k))
  <2>1. /\ counts'[k] = 0 /\ recorded[k] \in Nat /\ counts[k] \in Nat /\ Sum(sent, k) \in Nat
        /\ Sum(sent', k) = 0
    BY <1>1, CountTypesOf, SumType, SumEmpty
  <2>2. Total(k)' = recorded'[k] + counts'[k] + Sum(sent', k)
    BY DEF Total
  <2>3. Total(k) = recorded[k] + counts[k] + Sum(sent, k)
    BY TotalTypes
  <2>4. ~lost' => counts[k] = 0
    BY <1>1, CountTypesOf
  <2>5. CASE ~executed
    <3>1. ~lost' => Sum(sent, k) = 0
      BY <1>1, <2>5, SumZero
    <3>2. recorded'[k] = recorded[k]
      BY <1>1, <2>5
    <3> QED BY <2>1, <2>2, <2>3, <2>4, <3>1, <3>2
  <2>6. CASE executed
    <3>1. /\ Head(sent) \in Counts /\ Tail(sent) \in Seq(Counts)
          /\ Sum(sent, k) = Head(sent)[k] + Sum(Tail(sent), k)
      BY <1>1, <2>6, SumHead
    <3>2. Head(sent)[k] \in Nat /\ Sum(Tail(sent), k) \in Nat
      BY <3>1, CountTypesOf, SumType
    <3>3. recorded'[k] = recorded[k] + Head(sent)[k]
      BY <1>1, <2>6, <3>1, CountTypesOf
    <3>4. ASSUME ~lost' PROVE Sum(Tail(sent), k) = 0
      <4>1. \A i \in DOMAIN sent : i # 1 => sent[i] = M!Zero
        BY <1>1, <2>6, <3>4
      <4>2. /\ DOMAIN Tail(sent) = 1 .. Len(sent) - 1 /\ Len(sent) \in Nat
            /\ \A i \in 1 .. Len(sent) - 1 : Tail(sent)[i] = sent[i + 1]
        BY <1>1, <2>6, HeadTailProperties
      <4>3. \A i \in 1 .. Len(sent) - 1 : i + 1 \in DOMAIN sent /\ i + 1 # 1
        BY <1>1, <4>2
      <4> QED BY <3>1, <4>1, <4>2, <4>3, SumZero
    <3> QED BY <2>1, <2>2, <2>3, <2>4, <3>1, <3>2, <3>3, <3>4
  <2> QED BY <2>5, <2>6
<1> QED BY <1>1, <1>2, <1>5, <1>6 DEF Moved

\* One callback has been counted, in the counters the condition names.
Counts1(k, err, is_article) ==
  \/ k = "processed"
  \/ k = "articles" /\ is_article
  \/ k = "failed_processed" /\ err

LEMMA DownloadCounts ==
  ASSUME MTypeOK, NEW err \in BOOLEAN, M!downloaded(err)
  PROVE  /\ MTypeOK' /\ lost' = lost /\ sent' = sent
         /\ \A k \in M!Kinds :
              Total(k)' = IF k = "downloads" \/ (k = "failed_downloads" /\ err)
                          THEN Total(k) + 1 ELSE Total(k)
<1>1. /\ counts' = [counts EXCEPT !["downloads"] = @ + 1,
                                  !["failed_downloads"] = IF err THEN @ + 1 ELSE @]
      /\ UNCHANGED <<sent, recorded, lost>> /\ counts \in Counts
  BY DEF M!downloaded, MTypeOK
<1>2. \A k \in M!Kinds : counts'[k] = IF k = "downloads" \/ (k = "failed_downloads" /\ err)
                                       THEN counts[k] + 1 ELSE counts[k]
  BY <1>1 DEF Counts, M!Kinds
<1>3. counts' \in Counts
  BY <1>1 DEF Counts, M!Kinds
<1>4. \A k \in M!Kinds : Total(k)' = recorded[k] + counts'[k] + Sum(sent, k)
  BY <1>1 DEF Total
<1>5. \A k \in M!Kinds : recorded[k] \in Nat /\ counts[k] \in Nat /\ Sum(sent, k) \in Nat
  BY CountTypesOf, SumType DEF MTypeOK
<1>6. \A k \in M!Kinds : Total(k) = recorded[k] + counts[k] + Sum(sent, k)
  BY TotalTypes
<1>7. ASSUME NEW k \in M!Kinds
      PROVE  Total(k)' = IF k = "downloads" \/ (k = "failed_downloads" /\ err)
                         THEN Total(k) + 1 ELSE Total(k)
  BY <1>2, <1>4, <1>5, <1>6
<1> QED BY <1>1, <1>3, <1>7 DEF MTypeOK

LEMMA ProcessingCounts ==
  ASSUME MTypeOK, NEW err \in BOOLEAN, NEW is_article \in BOOLEAN, M!processed(err, is_article)
  PROVE  /\ MTypeOK' /\ lost' = lost /\ sent' = sent
         /\ \A k \in M!Kinds :
              Total(k)' = IF Counts1(k, err, is_article) THEN Total(k) + 1 ELSE Total(k)
<1>1. /\ counts' = [counts EXCEPT !["processed"] = @ + 1,
                                  !["articles"] = IF is_article THEN @ + 1 ELSE @,
                                  !["failed_processed"] = IF err THEN @ + 1 ELSE @]
      /\ UNCHANGED <<sent, recorded, lost>> /\ counts \in Counts
  BY DEF M!processed, MTypeOK
<1>2. \A k \in M!Kinds : counts'[k] = IF Counts1(k, err, is_article)
                                       THEN counts[k] + 1 ELSE counts[k]
  BY <1>1 DEF Counts, M!Kinds, Counts1
<1>3. counts' \in Counts
  BY <1>1 DEF Counts, M!Kinds
<1>4. \A k \in M!Kinds : Total(k)' = recorded[k] + counts'[k] + Sum(sent, k)
  BY <1>1 DEF Total
<1>5. \A k \in M!Kinds : recorded[k] \in Nat /\ counts[k] \in Nat /\ Sum(sent, k) \in Nat
  BY CountTypesOf, SumType DEF MTypeOK
<1>6. \A k \in M!Kinds : Total(k) = recorded[k] + counts[k] + Sum(sent, k)
  BY TotalTypes
<1>7. ASSUME NEW k \in M!Kinds
      PROVE  Total(k)' = IF Counts1(k, err, is_article) THEN Total(k) + 1 ELSE Total(k)
  BY <1>2, <1>4, <1>5, <1>6
<1> QED BY <1>1, <1>3, <1>7 DEF MTypeOK

-----------------------------------------------------------------------------
(***************************************************************************)
(* What a step counts, and what it does to the queue meanwhile             *)
(***************************************************************************)
LEMMA MNextIsNext == [MNext]_allvars => [Next]_vars
<1>1. MNext => Next
  BY DEF MNext, CountDownload, CountMissing, CountNoArticle, CountArticle, Record, Send,
         LoseConnection, Die, Aside, Next, Network, Children, Callback
<1>2. UNCHANGED allvars => UNCHANGED vars
  BY DEF allvars
<1> QED BY <1>1, <1>2

\* The queue an event leaves: a query it answers is of a kind in O.
Goes(r, O) == \/ r = queue
              \/ queue # <<>> /\ r = C!Rest /\ Head(queue).op \in O

Uncounted ==
  /\ MTypeOK' /\ Moved /\ Len(sent') = Len(sent)
  /\ \E r : /\ Goes(r, {"handshake", "list", "mark", "upload_urls", "finish"})
            /\ Asks(r, {"list", "upload_urls", "upload_article"})

DownloadCounted(err, u) ==
  /\ M!downloaded(err)
  /\ u \in Receiving /\ u \in Urls
  /\ \E v \in {-1, 1}, b \in Batches :
       queue' = Append(queue, Mark(u, v, b)) /\ (v = -1 <=> err)

PageCounted(err, is_article, u) ==
  /\ M!processed(err, is_article)
  /\ u \in Urls /\ u \in Backlog /\ page' = u /\ stage' = "finish"
  /\ \E r : \E v \in {-2, 2, 3} :
       Goes(r, {"upload_article", "finish"}) /\ queue' = Append(r, Finish(u, v)) /\ (v = -2 <=> err)

InsertSent == M!update_metrics /\ queue' = Append(queue, InsertMetrics)

InsertAnswered ==
  /\ \E ok \in BOOLEAN : M!Answered(ok)
  /\ queue # <<>> /\ Head(queue).op = "metrics" /\ queue' = C!Rest

Begins == queue = <<>> /\ queue' = Launch /\ UNCHANGED metrics

Ends == MTypeOK' /\ Moved /\ sent' = <<>> /\ queue' = <<>>

\* A call of process_pending counts a page that has no file.
LEMMA ProcessMissing ==
  ASSUME NEW q, NEW p \in Seq(Urls), process_pending(q, p)
  PROVE  /\ stage' # "finish" => queue' = q
         /\ stage' = "finish" => /\ p # <<>> /\ Head(p) \in Urls /\ page' = Head(p)
                                 /\ queue' = Append(q, Finish(Head(p), -2))
<1>1. CASE p = <<>>
  BY <1>1 DEF process_pending, P!Idle
<1>2. CASE p # <<>>
  BY <1>2 DEF process_pending, P!process
<1> QED BY <1>1, <1>2

LEMMA HeadWaits ==
  /\ pending \in Seq(Urls) /\ pending # <<>> => Head(pending) \in Backlog
  /\ pending \in Seq(Urls) /\ pending # <<>> /\ Tail(pending) # <<>> => Head(Tail(pending)) \in Backlog
<1>1. ASSUME pending \in Seq(Urls), pending # <<>>
      PROVE  /\ Head(pending) \in Backlog
             /\ Tail(pending) # <<>> => Head(Tail(pending)) \in Backlog
  <2>1. 1 \in DOMAIN pending /\ Head(pending) = pending[1]
    BY <1>1
  <2>2. Tail(pending) # <<>> => 2 \in DOMAIN pending /\ Head(Tail(pending)) = pending[2]
    BY <1>1
  <2> QED BY <2>1, <2>2 DEF Backlog
<1> QED BY <1>1

LEMMA StepMissing ==
  ASSUME TypeOK, Pipe, MTypeOK, CountMissing
  PROVE  Uncounted \/ \E u : PageCounted(TRUE, FALSE, u)
<1> DEFINE A == {"upload_article", "finish"}
<1>1. ASSUME NEW q, NEW p \in Seq(Urls), process_pending(q, p), Goes(q, {"finish"}),
             Counted(TRUE, FALSE), p # <<>> => Head(p) \in Backlog
      PROVE  Uncounted \/ \E u : PageCounted(TRUE, FALSE, u)
  <2>1. CASE stage' = "finish"
    <3>1. M!processed(TRUE, FALSE)
      BY <1>1, <2>1 DEF Counted
    <3>2. /\ Head(p) \in Urls /\ Head(p) \in Backlog /\ page' = Head(p)
          /\ queue' = Append(q, Finish(Head(p), -2))
      BY <1>1, <2>1, ProcessMissing
    <3>3. Goes(q, A)
      BY <1>1 DEF Goes
    <3>4. PageCounted(TRUE, FALSE, Head(p))
      BY <2>1, <3>1, <3>2, <3>3 DEF PageCounted
    <3> QED BY <3>4
  <2>2. CASE stage' # "finish"
    <3>1. UNCHANGED metrics
      BY <1>1, <2>2 DEF Counted
    <3>2. queue' = q
      BY <1>1, <2>2, ProcessMissing
    <3>3. MTypeOK' /\ Moved /\ Len(sent') = Len(sent)
      BY <3>1, MovedStill DEF metrics
    <3> QED BY <1>1, <3>2, <3>3 DEF Uncounted, Goes, Asks
  <2> QED BY <2>1, <2>2
<1>2. CASE ProcessTimer /\ Counted(TRUE, FALSE)
  <2>1. process_pending(queue, pending) /\ pending \in Seq(Urls)
    BY <1>2 DEF ProcessTimer, TypeOK
  <2> QED BY <1>1, <1>2, <2>1, HeadWaits DEF Goes
<1>3. ASSUME NEW ok \in BOOLEAN, FinishAnswered(ok), Counted(TRUE, FALSE)
      PROVE  Uncounted \/ \E u : PageCounted(TRUE, FALSE, u)
  <2>1. queue # <<>> /\ Head(queue).op = "finish"
    BY <1>3 DEF FinishAnswered, Answers
  <2>2. /\ pending \in Seq(Urls) /\ pending # <<>>
        /\ pending' = Tail(pending) /\ pending' \in Seq(Urls)
    BY <1>3, <2>1, Answering, Working DEF FinishAnswered, Pipe, P!QueryStages, TypeOK
  <2>3. process_pending(C!Rest, pending') /\ Goes(C!Rest, {"finish"})
    BY <1>3, <2>1 DEF FinishAnswered, Goes
  <2>4. pending' # <<>> => Head(pending') \in Backlog
    BY <2>2, HeadWaits
  <2> QED BY <1>1, <1>3, <2>2, <2>3, <2>4
<1> QED BY <1>2, <1>3 DEF CountMissing

LEMMA StepDownload ==
  ASSUME TypeOK, MTypeOK, NEW t \in transfers, CountDownload(t)
  PROVE  Uncounted \/ \E err \in BOOLEAN : DownloadCounted(err, t.url)
<1>0. t.url \in Urls /\ t.batch \in Batches /\ t.url \in Receiving
  BY DEF TypeOK, D!TypeOK, D!Transfer, Receiving
<1>1. ASSUME NEW err \in BOOLEAN, downloaded(t, err), M!downloaded(err)
      PROVE  DownloadCounted(err, t.url)
  <2>1. PICK v \in {-1, 1} : v = (IF err THEN -1 ELSE 1)
    OBVIOUS
  <2>2. v = -1 <=> err
    BY <2>1
  <2>3. queue' = Append(queue, Mark(t.url, v, t.batch))
    BY <1>1, <2>1 DEF downloaded, C!Enqueue
  <2> QED BY <1>0, <1>1, <2>2, <2>3 DEF DownloadCounted
<1>2. CASE (RequestError(t) \/ FileError(t)) /\ M!downloaded(TRUE)
  BY <1>1, <1>2 DEF RequestError, FileError
<1>3. CASE FileFinish(t) /\ M!downloaded(FALSE)
  BY <1>1, <1>3 DEF FileFinish
<1>4. CASE (Response(t) \/ RequestEnd(t)) /\ UNCHANGED metrics
  <2>1. queue' = queue
    BY <1>4 DEF Response, RequestEnd, conn
  <2>2. MTypeOK' /\ Moved /\ Len(sent') = Len(sent)
    BY <1>4, MovedStill DEF metrics
  <2> QED BY <2>1, <2>2 DEF Uncounted, Goes, Asks
<1> QED BY <1>2, <1>3, <1>4 DEF CountDownload

LEMMA StepPipeline ==
  ASSUME TypeOK, Pipe, MTypeOK
  PROVE  /\ CountNoArticle =>
              Uncounted \/ (stage = "verify_article" /\ PageCounted(FALSE, FALSE, page))
         /\ \A ok \in BOOLEAN : CountArticle(ok) =>
              /\ stage = "upload_article" /\ PageCounted(~ok, TRUE, page)
              /\ queue # <<>> /\ Head(queue).op = "upload_article"
<1>1. ASSUME CountNoArticle
      PROVE  Uncounted \/ (stage = "verify_article" /\ PageCounted(FALSE, FALSE, page))
  <2>1. CASE P!NotArticle /\ processed(queue, FALSE, FALSE)
    <3>1. stage = "verify_article" /\ stage' = "finish" /\ page' = page
      BY <2>1 DEF P!NotArticle, P!GoTo
    <3>2. page \in Urls /\ Head(pending) = page /\ page \in Backlog
      BY <3>1, Working, HeadWaits DEF Pipe, TypeOK
    <3>3. M!processed(FALSE, FALSE)
      BY <1>1, <3>1 DEF CountNoArticle, Counted
    <3>4. queue' = Append(queue, Finish(page, 3))
      BY <2>1, <3>2 DEF processed
    <3>5. Goes(queue, {"upload_article", "finish"})
      BY DEF Goes
    <3>6. PICK v \in {-2, 2, 3} : v = 3
      OBVIOUS
    <3>7. v = -2 <=> FALSE
      BY <3>6
    <3>8. queue' = Append(queue, Finish(page, v))
      BY <3>4, <3>6
    <3> QED BY <3>1, <3>2, <3>3, <3>5, <3>7, <3>8, Zenon DEF PageCounted
  <2>2. CASE P!IsArticle /\ UNCHANGED queue
    <3>1. stage' # "finish"
      BY <2>2 DEF P!IsArticle, P!GoTo
    <3>2. UNCHANGED metrics
      BY <1>1, <3>1 DEF CountNoArticle, Counted
    <3>3. MTypeOK' /\ Moved /\ Len(sent') = Len(sent)
      BY <3>2, MovedStill DEF metrics
    <3> QED BY <2>2, <3>3 DEF Uncounted, Goes, Asks
  <2> QED BY <1>1, <2>1, <2>2 DEF CountNoArticle, VerifyArticleClosed
<1>2. ASSUME NEW ok \in BOOLEAN, CountArticle(ok)
      PROVE  /\ stage = "upload_article" /\ PageCounted(~ok, TRUE, page)
             /\ queue # <<>> /\ Head(queue).op = "upload_article"
  <2>1. /\ stage = "upload_article" /\ stage' = "finish" /\ page' = page
        /\ processed(C!Rest, ~ok, TRUE)
        /\ queue # <<>> /\ Head(queue).op = "upload_article"
    BY <1>2 DEF CountArticle, ArticleAnswered, Answers, P!ArticleUploaded, P!GoTo
  <2>2. page \in Urls /\ Head(pending) = page /\ page \in Backlog
    BY <2>1, Working, HeadWaits DEF Pipe, TypeOK
  <2>3. M!processed(~ok, TRUE)
    BY <1>2, <2>1 DEF CountArticle, Counted
  <2>4. PICK v \in {-2, 2, 3} : v = (IF ~ok THEN -2 ELSE IF TRUE THEN 2 ELSE 3)
    OBVIOUS
  <2>5. queue' = Append(C!Rest, Finish(page, v))
    BY <2>1, <2>2, <2>4 DEF processed
  <2>6. v = -2 <=> ~ok
    BY <2>4
  <2>7. Goes(C!Rest, {"upload_article", "finish"})
    BY <2>1 DEF Goes
  <2> QED BY <2>1, <2>2, <2>3, <2>5, <2>6, <2>7 DEF PageCounted
<1> QED BY <1>1, <1>2

\* There are finitely many queries of a kind.
LEMMA PlaceCounts ==
  ASSUME NEW q \in Seq(Query), NEW O
  PROVE  IsFiniteSet(Places(q, O)) /\ Cardinality(Places(q, O)) \in Nat
<1>1. Places(q, O) \in SUBSET (1 .. Len(q)) /\ Len(q) \in Nat
  BY DEF Places
<1>2. IsFiniteSet(1 .. Len(q))
  BY <1>1, FS_Interval
<1> QED BY <1>1, <1>2, FS_Subset, FS_CardinalityType

LEMMA EntryTypes ==
  ASSUME TypeOK, NEW op
  PROVE  IsFiniteSet(Entries(op)) /\ Cardinality(Entries(op)) \in Nat
BY PlaceCounts, EntriesArePlaces DEF TypeOK

LEMMA InsertWaits ==
  ASSUME TypeOK, MTypeOK, SentQueued, queue # <<>>, Head(queue).op = "metrics"
  PROVE  sent # <<>>
<1>1. 1 \in Entries("metrics")
  BY DEF Entries, TypeOK
<1>2. Cardinality(Entries("metrics")) # 0
  BY <1>1, EntryTypes, FS_EmptySet
<1> QED BY <1>2 DEF SentQueued

LEMMA StillUncounted ==
  ASSUME MTypeOK, UNCHANGED metrics,
         NEW r, Goes(r, {"handshake", "list", "mark", "upload_urls", "finish"}),
         Asks(r, {"list", "upload_urls", "upload_article"})
  PROVE  Uncounted
<1>1. MTypeOK' /\ Moved /\ Len(sent') = Len(sent)
  BY MovedStill DEF metrics
<1> QED BY <1>1 DEF Uncounted

LEMMA StepLose ==
  ASSUME TypeOK, MTypeOK, SentQueued, LoseConnection
  PROVE  Uncounted
<1>1. Goes(queue, {"handshake", "list", "mark", "upload_urls", "finish"})
  BY DEF Goes
<1>2. Asks(queue, {"list", "upload_urls", "upload_article"})
  BY DEF LoseConnection, ConnectionLost, C!ConnectionLost, Asks
<1>3. CASE UNCHANGED metrics
  BY <1>1, <1>2, <1>3, StillUncounted
<1>4. CASE AtServer /\ M!Unanswered
  <2>1. sent # <<>>
    BY <1>4, InsertWaits DEF AtServer, C!Serving
  <2>2. MTypeOK' /\ Moved /\ Len(sent') = Len(sent)
    BY <1>4, <2>1, MovedUnanswered
  <2> QED BY <1>1, <1>2, <2>2 DEF Uncounted
<1> QED BY <1>3, <1>4 DEF LoseConnection

LEMMA StepDie ==
  ASSUME TypeOK, MTypeOK, SentQueued, Die
  PROVE  Ends
<1>1. queue' = <<>>
  BY DEF Die, ConnectionLostUnheard, Crash, Dies
<1>2. CASE M!Forgotten(FALSE)
  <2>1. MTypeOK' /\ Moved /\ sent' = <<>>
    BY <1>2, MovedForgotten
  <2> QED BY <1>1, <2>1 DEF Ends
<1>3. CASE AtServer /\ M!Forgotten(TRUE)
  <2>1. sent # <<>>
    BY <1>3, InsertWaits DEF AtServer, C!Serving
  <2>2. MTypeOK' /\ Moved /\ sent' = <<>>
    BY <1>3, <2>1, MovedForgotten
  <2> QED BY <1>1, <2>2 DEF Ends
<1> QED BY <1>2, <1>3 DEF Die

LEMMA StepAside ==
  ASSUME TypeOK, Pipe, DeadIsEmpty, MTypeOK, Aside
  PROVE  Uncounted \/ Begins
<1> DEFINE O == {"handshake", "list", "mark", "upload_urls", "finish"}
           K == {"list", "upload_urls", "upload_article"}
<1>0. UNCHANGED metrics /\ Goes(queue, O)
  BY DEF Aside, Goes
<1>1. ASSUME BatchTimer PROVE Asks(queue, K)
  BY <1>1, QueryTypes DEF BatchTimer, batch_download, Asks, List
<1>2. CASE Restart
  BY <1>0, <1>2 DEF Restart, DeadIsEmpty, Begins
<1>3. ASSUME ContentExtractClosed PROVE Asks(queue, K)
  BY <1>3 DEF ContentExtractClosed, Asks
<1>4. ASSUME MetaExtractClosed PROVE Asks(queue, K)
  <2>1. page \in Urls
    BY <1>4, Working DEF MetaExtractClosed, P!MetaExtractClosed, Pipe
  <2>2. outputs' \in [P!Folders -> SUBSET Urls]
    BY <1>4, <2>1, TypeWrote DEF MetaExtractClosed, P!MetaExtractClosed, P!Folders, TypeOK
  <2>3. UploadArticle(page, P!ReadOutputs(outputs')) \in Query
    BY <2>1, <2>2, QueryTypes DEF P!ReadOutputs
  <2> QED BY <1>4, <2>3 DEF MetaExtractClosed, Asks, UploadArticle
<1>5. ASSUME NEW readable \in BOOLEAN, UrlExtractClosed(readable) PROVE Asks(queue, K)
  <2>1. CASE readable
    <3>1. PICK S \in SUBSET Urls : queue' = Append(queue, UploadUrls(S \cup {Root}))
      BY <1>5, <2>1 DEF UrlExtractClosed
    <3>2. UploadUrls(S \cup {Root}) \in Query
      BY QueryTypes, CrawlerAssumption
    <3> QED BY <3>1, <3>2 DEF Asks, UploadUrls
  <2>2. CASE ~readable
    BY <1>5, <2>2 DEF UrlExtractClosed, Asks
  <2> QED BY <2>1, <2>2
<1>6. ASSUME \/ HandshakeAnswered
             \/ \E ok \in BOOLEAN : ListAnswered(ok) \/ UrlsAnswered(ok)
      PROVE  Goes(C!Rest, O) /\ Asks(C!Rest, K)
  BY <1>6 DEF HandshakeAnswered, ListAnswered, UrlsAnswered, Answers, Asks, Goes
<1>7. ASSUME NEW ok \in BOOLEAN, MarkAnswered(ok)
      PROVE  Goes(C!Rest, O) /\ Asks(C!Rest, K)
  <2>1. queue' = C!Rest \/ queue' = Append(C!Rest, List)
    BY <1>7 DEF MarkAnswered, batch_download
  <2>2. Asks(C!Rest, K)
    BY <2>1, QueryTypes DEF Asks, List
  <2> QED BY <1>7, <2>2 DEF MarkAnswered, Answers, Goes
<1>8. ASSUME NEW r, Goes(r, O), Asks(r, K) PROVE Uncounted
  BY <1>0, <1>8, StillUncounted
<1> HIDE DEF O, K
<1> QED BY <1>0, <1>1, <1>2, <1>3, <1>4, <1>5, <1>6, <1>7, <1>8 DEF Aside

\* What a step of CrawlerMetrics counts.
LEMMA StepCounts ==
  ASSUME IInv, MTypeOK, SentQueued, [MNext]_allvars
  PROVE  \/ Uncounted \/ InsertSent \/ InsertAnswered \/ Begins \/ Ends
         \/ \E t \in transfers, err \in BOOLEAN : CountDownload(t) /\ DownloadCounted(err, t.url)
         \/ \E u \in Urls : CountMissing /\ PageCounted(TRUE, FALSE, u)
         \/ CountNoArticle /\ stage = "verify_article" /\ PageCounted(FALSE, FALSE, page)
         \/ \E ok \in BOOLEAN :
              /\ CountArticle(ok)
              /\ stage = "upload_article" /\ PageCounted(~ok, TRUE, page)
              /\ queue # <<>> /\ Head(queue).op = "upload_article"
<1>0. TypeOK /\ Pipe /\ DeadIsEmpty
  BY DEF IInv, Pipe
<1>1. ASSUME NEW t \in transfers, CountDownload(t)
      PROVE  Uncounted \/ \E err \in BOOLEAN : CountDownload(t) /\ DownloadCounted(err, t.url)
  BY <1>0, <1>1, StepDownload
<1>2. CountMissing => Uncounted \/ \E u \in Urls : CountMissing /\ PageCounted(TRUE, FALSE, u)
  BY <1>0, StepMissing DEF PageCounted
<1>3. /\ CountNoArticle => Uncounted \/ (stage = "verify_article" /\ PageCounted(FALSE, FALSE, page))
      /\ \A ok \in BOOLEAN : CountArticle(ok) =>
              /\ stage = "upload_article" /\ PageCounted(~ok, TRUE, page)
              /\ queue # <<>> /\ Head(queue).op = "upload_article"
  BY <1>0, StepPipeline
<1>4. ASSUME NEW ok \in BOOLEAN, Record(ok) PROVE InsertAnswered
  BY <1>4 DEF Record, MetricsAnswered, Answers, InsertAnswered
<1>5. Send => InsertSent
  BY DEF Send, MetricsTimer, C!Enqueue, InsertSent
<1>6. (LoseConnection => Uncounted) /\ (Die => Ends) /\ (Aside => Uncounted \/ Begins)
  BY <1>0, StepLose, StepDie, StepAside
<1>7. UNCHANGED allvars => Uncounted
  <2>1. ASSUME UNCHANGED allvars
        PROVE  /\ UNCHANGED metrics
               /\ Goes(queue, {"handshake", "list", "mark", "upload_urls", "finish"})
               /\ Asks(queue, {"list", "upload_urls", "upload_article"})
    BY <2>1 DEF allvars, vars, conn, Goes, Asks
  <2> QED BY <2>1, StillUncounted
<1> QED BY <1>1, <1>2, <1>3, <1>4, <1>5, <1>6, <1>7, Zenon DEF MNext

-----------------------------------------------------------------------------
(***************************************************************************)
(* The values sent are those of the INSERTs in the queue                   *)
(***************************************************************************)
LEMMA EntriesKept ==
  ASSUME TypeOK, TypeOK', NEW op, Kept({op})
  PROVE  Cardinality(Entries(op)') = Cardinality(Entries(op))
<1> DEFINE A == Places(queue, {op})
           B == Places(queue', {op})
<1>1. PICK d \in {0, 1} : /\ \A i \in B : i + d \in A
                          /\ \A i \in A : i - d \in B
  BY DEF Kept
<1>2. (\A i \in A : i \in Int) /\ (\A i \in B : i \in Int)
  BY DEF Places, TypeOK
<1>3. A = Entries(op) /\ B = Entries(op)'
  BY EntriesArePlaces
<1>4. /\ IsFiniteSet(A) /\ IsFiniteSet(B)
      /\ Cardinality(A) \in Nat /\ Cardinality(B) \in Nat
  <2>1. queue \in Seq(Query) /\ queue' \in Seq(Query)
    BY DEF TypeOK
  <2> QED BY <2>1, PlaceCounts
<1> HIDE DEF A, B
<1>5. Cardinality(B) <= Cardinality(A)
  <2> DEFINE f == [i \in B |-> i + d]
  <2>0. \A x, y \in Int : x + d = y + d => x = y
    OBVIOUS
  <2>1. \A x, y \in B : f[x] = f[y] => x = y
    BY <1>2, <2>0
  <2>2. f \in [B -> A]
    BY <1>1
  <2> HIDE DEF f
  <2> QED BY <1>4, <2>1, <2>2, InjectionBounds
<1>6. Cardinality(A) <= Cardinality(B)
  <2> DEFINE f == [i \in A |-> i - d]
  <2>0. \A x, y \in Int : x - d = y - d => x = y
    OBVIOUS
  <2>1. \A x, y \in A : f[x] = f[y] => x = y
    BY <1>2, <2>0
  <2>2. f \in [A -> B]
    BY <1>1
  <2> HIDE DEF f
  <2> QED BY <1>4, <2>1, <2>2, InjectionBounds
<1> QED BY <1>3, <1>4, <1>5, <1>6

LEMMA EntryAdded ==
  ASSUME TypeOK, NEW e \in Query, queue' = Append(queue, e)
  PROVE  Cardinality(Entries(e.op)') = Cardinality(Entries(e.op)) + 1
<1>1. queue \in Seq(Query)
  BY DEF TypeOK
<1>2. Entries(e.op)' = Entries(e.op) \cup {Len(queue) + 1}
  BY <1>1, PlacesOfAppend, EntriesArePlaces
<1>3. Len(queue) + 1 \notin Entries(e.op)
  BY <1>1 DEF Entries
<1> QED BY <1>2, <1>3, EntryTypes, FS_AddElement

LEMMA EntryTaken ==
  ASSUME TypeOK, queue # <<>>, queue' = C!Rest, NEW op, Head(queue).op = op
  PROVE  Cardinality(Entries(op)') = Cardinality(Entries(op)) - 1
<1> DEFINE A == Places(queue, {op}) \ {1}
           B == Places(queue', {op})
<1>1. queue \in Seq(Query) /\ C!Rest \in Seq(Query)
  BY RestTypes DEF TypeOK
<1>2. /\ \A i \in B : i + 1 \in Places(queue, {op}) /\ i \in Nat \ {0}
      /\ \A i \in A : i - 1 \in B
      /\ 1 \in Places(queue, {op})
  <2>1. \A i \in Places(C!Rest, {op}) : i \in Nat \ {0}
    BY <1>1 DEF Places
  <2> QED BY <1>1, <2>1, PlacesOfRest
<1>3. Places(queue, {op}) = Entries(op) /\ B = Entries(op)'
  BY EntriesArePlaces
<1>4. IsFiniteSet(A) /\ Cardinality(A) = Cardinality(Entries(op)) - 1
  <2>1. IsFiniteSet(Places(queue, {op})) /\ 1 \in Places(queue, {op})
    BY <1>1, <1>2, PlaceCounts
  <2> QED BY <1>3, <2>1, FS_RemoveElement
<1>5. \A i \in A : i \in Nat
  BY <1>1 DEF Places
<1>6. \A i \in B : i + 1 \in A
  <2>1. \A i \in B : i + 1 # 1
    BY <1>2
  <2> QED BY <1>2, <2>1
<1> HIDE DEF A, B
<1>7. IsFiniteSet(B) /\ Cardinality(B) <= Cardinality(A)
  <2> DEFINE f == [i \in B |-> i + 1]
  <2>1. \A x, y \in B : f[x] = f[y] => x = y
    BY <1>2
  <2>2. f \in [B -> A]
    BY <1>6
  <2> HIDE DEF f
  <2> QED BY <1>4, <2>1, <2>2, InjectionBounds
<1>8. Cardinality(A) <= Cardinality(B)
  <2> DEFINE f == [i \in A |-> i - 1]
  <2>1. \A x, y \in A : f[x] = f[y] => x = y
    BY <1>5
  <2>2. f \in [A -> B]
    BY <1>2
  <2> HIDE DEF f
  <2> QED BY <1>7, <2>1, <2>2, InjectionBounds
<1>9. Cardinality(A) \in Nat /\ Cardinality(B) \in Nat
  BY <1>4, <1>7, FS_CardinalityType
<1> QED BY <1>3, <1>4, <1>7, <1>8, <1>9

LEMMA InsertsKept ==
  ASSUME TypeOK, NEW O, NEW r, NEW K, Goes(r, O), Asks(r, K),
         "metrics" \notin O, "metrics" \notin K
  PROVE  Kept({"metrics"})
<1>1. r = queue \/ (queue # <<>> /\ r = C!Rest /\ Head(queue).op \notin {"metrics"})
  BY DEF Goes
<1> QED BY <1>1, KeptAsks

LEMMA SentNext ==
  ASSUME IInv, IInv', MTypeOK, SentQueued, [MNext]_allvars
  PROVE  MTypeOK' /\ SentQueued'
<1>0. TypeOK /\ TypeOK' /\ queue \in Seq(Query) /\ sent \in Seq(Counts)
  BY DEF IInv, TypeOK, MTypeOK
<1>1. ASSUME MTypeOK', Len(sent') = Len(sent), Kept({"metrics"})
      PROVE  MTypeOK' /\ SentQueued'
  BY <1>0, <1>1, EntriesKept DEF SentQueued
<1>2. CASE Uncounted
  <2>1. PICK r : /\ Goes(r, {"handshake", "list", "mark", "upload_urls", "finish"})
                 /\ Asks(r, {"list", "upload_urls", "upload_article"})
    BY <1>2 DEF Uncounted
  <2>2. Kept({"metrics"})
    BY <1>0, <2>1, InsertsKept
  <2> QED BY <1>1, <1>2, <2>2 DEF Uncounted
<1>3. ASSUME NEW err \in BOOLEAN, NEW u, DownloadCounted(err, u)
      PROVE  MTypeOK' /\ SentQueued'
  <2>1. MTypeOK' /\ sent' = sent
    BY <1>3, DownloadCounts DEF DownloadCounted
  <2>2. PICK v \in {-1, 1}, b \in Batches : queue' = Append(queue, Mark(u, v, b))
    BY <1>3 DEF DownloadCounted
  <2>3. Asks(queue, {"mark"}) /\ Goes(queue, {})
    BY <1>3, <2>2, QueryTypes DEF Asks, Goes, Mark, DownloadCounted
  <2>4. Kept({"metrics"})
    BY <1>0, <2>3, InsertsKept
  <2> QED BY <1>1, <2>1, <2>4
<1>4. ASSUME NEW err \in BOOLEAN, NEW art \in BOOLEAN, NEW u, PageCounted(err, art, u)
      PROVE  MTypeOK' /\ SentQueued'
  <2>1. MTypeOK' /\ sent' = sent
    BY <1>4, ProcessingCounts DEF PageCounted
  <2>2. PICK r : \E v \in {-2, 2, 3} : /\ Goes(r, {"upload_article", "finish"})
                                       /\ queue' = Append(r, Finish(u, v))
    BY <1>4 DEF PageCounted
  <2>3. Asks(r, {"finish"})
    BY <1>4, <2>2, QueryTypes DEF Asks, Finish, PageCounted
  <2>4. Kept({"metrics"})
    BY <1>0, <2>2, <2>3, InsertsKept
  <2> QED BY <1>1, <2>1, <2>4
<1>5. CASE InsertSent
  <2>1. MTypeOK' /\ sent' = Append(sent, counts) /\ counts \in Counts
    BY <1>5, MovedSend DEF InsertSent, MTypeOK
  <2>2. Len(sent') = Len(sent) + 1
    BY <1>0, <2>1
  <2>3. Cardinality(Entries("metrics")') = Cardinality(Entries("metrics")) + 1
    BY <1>0, <1>5, QueryTypes, EntryAdded DEF InsertSent, InsertMetrics
  <2> QED BY <2>1, <2>2, <2>3 DEF SentQueued
<1>6. CASE InsertAnswered
  <2>1. sent # <<>>
    BY <1>0, <1>6, InsertWaits DEF InsertAnswered
  <2>2. MTypeOK' /\ sent' = Tail(sent)
    BY <1>6, <2>1, MovedAnswered DEF InsertAnswered
  <2>3. Len(sent') = Len(sent) - 1
    BY <1>0, <2>1, <2>2
  <2>4. Cardinality(Entries("metrics")') = Cardinality(Entries("metrics")) - 1
    BY <1>0, <1>6, EntryTaken DEF InsertAnswered
  <2> QED BY <2>2, <2>3, <2>4 DEF SentQueued
<1>7. ASSUME Begins \/ Ends
      PROVE  MTypeOK' /\ SentQueued'
  <2>1. Entries("metrics")' = {}
    BY <1>7, LaunchHas, EntriesArePlaces DEF Begins, Ends
  <2>2. CASE Begins
    <3>1. Entries("metrics") = {}
      BY <2>2, LaunchHas, EntriesArePlaces DEF Begins
    <3>2. MTypeOK' /\ Len(sent') = Len(sent)
      BY <2>2, MovedStill DEF Begins, metrics
    <3> QED BY <2>1, <3>1, <3>2 DEF SentQueued
  <2>3. CASE Ends
    BY <2>1, <2>3, FS_EmptySet DEF Ends, SentQueued
  <2> QED BY <1>7, <2>2, <2>3
<1> QED BY <1>2, <1>3, <1>4, <1>5, <1>6, <1>7, StepCounts

-----------------------------------------------------------------------------
(***************************************************************************)
(* The addresses a status has reached                                      *)
(***************************************************************************)
\* The queries that write a status.
W == {"mark", "finish"}

LEMMA WritesAre ==
  /\ Entries("mark") \cup Entries("finish") = Places(queue, W)
  /\ (Entries("mark") \cup Entries("finish"))' = Places(queue', W)
BY DEF Entries, Places, W

LEMMA ReachedIs ==
  /\ \A V : Reached(V) = {u \in Urls : status[u] \in V}
                           \cup {queue[i].url : i \in {j \in Places(queue, W) : queue[j].val \in V}}
  /\ \A V : Reached(V)' = {u \in Urls : status'[u] \in V}
                            \cup {queue'[i].url : i \in {j \in Places(queue', W) : queue'[j].val \in V}}
BY WritesAre DEF Reached

LEMMA ReachedTypes ==
  ASSUME TypeOK, NEW V
  PROVE  Reached(V) \in SUBSET Urls
<1>1. ASSUME NEW i \in Places(queue, W) PROVE queue[i].url \in Urls
  <2>1. queue[i] \in Query /\ queue[i].op \in W
    BY DEF Places, TypeOK
  <2> QED BY <2>1, QueryFields DEF W
<1> QED BY <1>1, ReachedIs

\* What no step counts writes no status that was not asked for before.
LEMMA StepMoves ==
  ASSUME IInv, MTypeOK, SentQueued, Uncounted \/ InsertSent \/ InsertAnswered \/ Begins \/ Ends
  PROVE  Moved /\ NoneNew(W)
<1>0. TypeOK
  BY DEF IInv
<1>1. CASE Uncounted
  <2>1. PICK r : /\ Goes(r, {"handshake", "list", "mark", "upload_urls", "finish"})
                 /\ Asks(r, {"list", "upload_urls", "upload_article"})
    BY <1>1 DEF Uncounted
  <2>2. Left(r)
    BY <2>1 DEF Goes, Left
  <2>3. queue' = r \/ \E e \in Query : e.op \notin W /\ queue' = Append(r, e)
    BY <2>1 DEF Asks, W
  <2>4. NoneNew(W)
    BY <1>0, <2>2, <2>3, NoneNewRule
  <2> QED BY <1>1, <2>4 DEF Uncounted
<1>2. CASE InsertSent
  <2>1. InsertMetrics \in Query /\ InsertMetrics.op \notin W /\ Left(queue)
    BY QueryTypes DEF InsertMetrics, W, Left
  <2>2. NoneNew(W)
    BY <1>0, <1>2, <2>1, NoneNewRule DEF InsertSent
  <2> QED BY <1>2, <2>2, MovedSend DEF InsertSent
<1>3. CASE InsertAnswered
  <2>1. sent # <<>> /\ Left(C!Rest)
    BY <1>0, <1>3, InsertWaits DEF InsertAnswered, Left
  <2>2. NoneNew(W)
    BY <1>0, <1>3, <2>1, NoneNewRule DEF InsertAnswered
  <2> QED BY <1>3, <2>1, <2>2, MovedAnswered DEF InsertAnswered
<1>4. CASE Begins
  <2>1. Places(queue', W) = {}
    BY <1>4, LaunchHas DEF Begins, W
  <2> QED BY <1>4, <2>1, MovedStill DEF Begins, NoneNew
<1>5. CASE Ends
  <2>1. Places(queue', W) = {}
    BY <1>5, LaunchHas DEF Ends
  <2> QED BY <1>5, <2>1 DEF Ends, NoneNew
<1> QED BY <1>1, <1>2, <1>3, <1>4, <1>5

\* A query is new only if it is the one appended.
LEMMA NewWrites ==
  ASSUME TypeOK, NEW O, NEW r, Left(r), NEW e \in Query, queue' = Append(r, e)
  PROVE  \A j \in Places(queue', O) :
           (\E i \in Places(queue, O) : queue'[j] = queue[i]) \/ queue'[j] = e
<1>1. queue \in Seq(Query) /\ r \in Seq(Query)
  BY RestTypes DEF TypeOK, Left
<1>2. /\ Places(queue', O) \subseteq Places(r, O) \cup {Len(r) + 1}
      /\ \A i \in Places(r, O) : queue'[i] = r[i]
      /\ queue'[Len(r) + 1] = e
  <2>1. /\ e.op \in O => Places(Append(r, e), O) = Places(r, O) \cup {Len(r) + 1}
        /\ e.op \notin O => Places(Append(r, e), O) = Places(r, O)
        /\ \A i \in Places(r, O) : Append(r, e)[i] = r[i]
        /\ Append(r, e)[Len(r) + 1] = e
    BY <1>1, PlacesOfAppend DEF Places
  <2> QED BY <2>1
<1>3. ASSUME NEW j \in Places(r, O)
      PROVE  \E i \in Places(queue, O) : r[j] = queue[i]
  <2>1. CASE r = queue
    BY <2>1
  <2>2. CASE queue # <<>> /\ r = C!Rest
    BY <1>1, <2>2, PlacesOfRest
  <2> QED BY <2>1, <2>2 DEF Left
<1> QED BY <1>2, <1>3

\* A status is only written by the query at the head.
LEMMA StatusWritten ==
  ASSUME TypeOK, [Next]_vars
  PROVE  \/ UNCHANGED status
         \/ /\ queue # <<>> /\ Head(queue) \in Query /\ Head(queue).op \in W
            /\ T!UpdateStatus(Head(queue).url, Head(queue).val)
<1> DEFINE q == Head(queue)
           Goal == UNCHANGED status \/ (queue # <<>> /\ q.op \in W /\ T!UpdateStatus(q.url, q.val))
<1> SUFFICES ASSUME TRUE PROVE Goal
  BY RestTypes DEF TypeOK
<1>1. ASSUME Unanswered PROVE Goal
  BY <1>1 DEF Unanswered, Execute, C!Serving, T!InsertUrls, T!InsertContent, tables, W
<1>2. ASSUME NEW ok \in BOOLEAN, MarkAnswered(ok) \/ FinishAnswered(ok) PROVE Goal
  BY <1>2 DEF MarkAnswered, FinishAnswered, Answers, tables, W
<1>3. ASSUME NEW ok \in BOOLEAN, ListAnswered(ok) \/ UrlsAnswered(ok) \/ ArticleAnswered(ok)
      PROVE  UNCHANGED status
  BY <1>3 DEF ListAnswered, UrlsAnswered, ArticleAnswered, T!InsertUrls, T!InsertContent, tables
<1>4. CASE BatchTimer \/ ProcessTimer \/ MetricsTimer \/ HandshakeAnswered \/ MetricsAnswered
  BY <1>4 DEF BatchTimer, ProcessTimer, MetricsTimer, HandshakeAnswered, MetricsAnswered, tables
<1>5. CASE Network
  BY <1>5 DEF Network, Response, RequestError, FileFinish, FileError, RequestEnd, notNetwork, tables
<1>6. CASE Children
  BY <1>6 DEF Children, UrlExtractClosed, VerifyArticleClosed, ContentExtractClosed,
              MetaExtractClosed, notChild, tables
<1>7. CASE ConnectionLost \/ Crash
  BY <1>1, <1>7 DEF ConnectionLost, Crash
<1>8. CASE ConnectionLostUnheard \/ Restart \/ UNCHANGED vars
  BY <1>8 DEF ConnectionLostUnheard, Restart, vars, tables
<1>9. CASE Callback
  BY <1>2, <1>3, <1>4, <1>9 DEF Callback
<1> QED BY <1>4, <1>5, <1>6, <1>7, <1>8, <1>9 DEF Next

\* Only what a new query writes can be reached anew.
LEMMA ReachedStep ==
  ASSUME TypeOK, [Next]_vars, NEW V, NEW X,
         \A j \in Places(queue', W) : queue'[j].val \in V =>
           (\E i \in Places(queue, W) : queue'[j] = queue[i]) \/ queue'[j].url \in X
  PROVE  Reached(V)' \subseteq Reached(V) \cup X
<1>1. ASSUME NEW u \in Urls, status'[u] \in V PROVE u \in Reached(V)
  <2>1. CASE status'[u] = status[u]
    BY <1>1, <2>1, ReachedIs
  <2>2. CASE status'[u] # status[u]
    <3>1. /\ queue # <<>> /\ Head(queue) \in Query /\ Head(queue).op \in W
          /\ T!UpdateStatus(Head(queue).url, Head(queue).val)
      BY <2>2, StatusWritten
    <3>2. u = Head(queue).url /\ status'[u] = Head(queue).val
      BY <2>2, <3>1 DEF T!UpdateStatus, TypeOK, T!TypeOK
    <3>3. 1 \in Places(queue, W) /\ queue[1] = Head(queue)
      BY <3>1 DEF Places, TypeOK
    <3> QED BY <1>1, <3>2, <3>3, ReachedIs
  <2> QED BY <2>1, <2>2
<1>2. ASSUME NEW j \in Places(queue', W), queue'[j].val \in V
      PROVE  queue'[j].url \in Reached(V) \cup X
  BY <1>2, ReachedIs
<1> QED BY <1>1, <1>2, ReachedIs

\* pending receives nothing but addresses whose status is being written.
LEMMA BacklogStep ==
  ASSUME TypeOK, Pipe, [Next]_vars
  PROVE  Backlog' \subseteq Backlog \cup Marking
<1>1. ASSUME pending' = pending \/ pending' = <<>> PROVE Backlog' \subseteq Backlog
  BY <1>1 DEF Backlog
<1>2. ASSUME NEW ok \in BOOLEAN, MarkAnswered(ok) PROVE Backlog' \subseteq Backlog \cup Marking
  <2>1. queue # <<>> /\ Head(queue).op = "mark" /\ pending' = Append(pending, Head(queue).url)
    BY <1>2 DEF MarkAnswered, Answers, push
  <2>2. Head(queue) \in Query /\ Head(queue).url \in Urls
    BY <2>1, RestTypes, QueryFields DEF TypeOK
  <2>3. Backlog' = Backlog \cup {Head(queue).url}
    BY <2>1, <2>2, PageComes DEF TypeOK
  <2>4. 1 \in Entries("mark") /\ queue[1] = Head(queue)
    BY <2>1 DEF Entries, TypeOK
  <2> QED BY <2>3, <2>4 DEF Marking
<1>3. ASSUME NEW ok \in BOOLEAN, FinishAnswered(ok) PROVE Backlog' \subseteq Backlog
  <2>1. pending' = Tail(pending) /\ queue # <<>> /\ Head(queue).op = "finish"
    BY <1>3 DEF FinishAnswered, Answers
  <2>2. pending # <<>> /\ pending \in Seq(Urls)
    BY <2>1, Answering, Working DEF Pipe, P!QueryStages, TypeOK
  <2>3. DOMAIN pending' = 1 .. Len(pending) - 1 /\ \A i \in DOMAIN pending' : pending'[i] = pending[i + 1]
    BY <2>1, <2>2
  <2>4. \A i \in DOMAIN pending' : i + 1 \in DOMAIN pending
    BY <2>2, <2>3
  <2> QED BY <2>3, <2>4 DEF Backlog
<1>4. CASE BatchTimer \/ ProcessTimer \/ MetricsTimer \/ HandshakeAnswered \/ MetricsAnswered
  BY <1>1, <1>4 DEF BatchTimer, ProcessTimer, MetricsTimer, HandshakeAnswered, MetricsAnswered
<1>5. CASE Network
  BY <1>1, <1>5 DEF Network, Response, RequestError, FileFinish, FileError, RequestEnd, notNetwork
<1>6. CASE Children
  BY <1>1, <1>6 DEF Children, UrlExtractClosed, VerifyArticleClosed, ContentExtractClosed,
              MetaExtractClosed, notChild
<1>7. ASSUME NEW ok \in BOOLEAN, ListAnswered(ok) \/ UrlsAnswered(ok) \/ ArticleAnswered(ok)
      PROVE  pending' = pending
  BY <1>7 DEF ListAnswered, UrlsAnswered, ArticleAnswered
<1>8. CASE Callback
  BY <1>1, <1>2, <1>3, <1>4, <1>7, <1>8 DEF Callback
<1>9. CASE ConnectionLost \/ ConnectionLostUnheard \/ Crash \/ Restart \/ UNCHANGED vars
  BY <1>1, <1>9 DEF ConnectionLost, ConnectionLostUnheard, Crash, Dies, Restart, vars
<1> QED BY <1>4, <1>5, <1>6, <1>8, <1>9 DEF Next

LEMMA ReachedMoved ==
  ASSUME TypeOK, [Next]_vars, NoneNew(W), NEW V
  PROVE  Reached(V)' \subseteq Reached(V)
<1>1. \A j \in Places(queue', W) : \E i \in Places(queue, W) : queue'[j] = queue[i]
  BY DEF NoneNew
<1> QED BY <1>1, ReachedStep

\* What a new query writes is reached if it was to be reached.
LEMMA ReachedAsked ==
  ASSUME TypeOK, [Next]_vars, NEW r, Left(r), NEW e \in Query, e.op \in W,
         queue' = Append(r, e), NEW V
  PROVE  /\ e.val \in V => Reached(V)' \subseteq Reached(V) \cup {e.url} /\ e.url \in Reached(V)'
         /\ e.val \notin V => Reached(V)' \subseteq Reached(V)
<1>1. \A j \in Places(queue', W) :
        (\E i \in Places(queue, W) : queue'[j] = queue[i]) \/ queue'[j] = e
  BY NewWrites
<1>2. CASE e.val \in V
  <2>1. Reached(V)' \subseteq Reached(V) \cup {e.url}
    BY <1>1, ReachedStep
  <2>2. Len(r) + 1 \in Places(queue', W) /\ queue'[Len(r) + 1] = e
    <3>1. r \in Seq(Query)
      BY RestTypes DEF Left, TypeOK
    <3> QED BY <3>1, PlacesOfAppend
  <2>3. e.url \in Reached(V)'
    BY <1>2, <2>2, ReachedIs
  <2> QED BY <1>2, <2>1, <2>3
<1>3. CASE e.val \notin V
  <2>1. \A j \in Places(queue', W) : queue'[j].val \in V =>
          (\E i \in Places(queue, W) : queue'[j] = queue[i]) \/ queue'[j].url \in {}
    BY <1>1, <1>3
  <2> QED BY <1>3, <2>1, ReachedStep
<1> QED BY <1>2, <1>3

LEMMA ReachedDownload ==
  ASSUME TypeOK, [Next]_vars, NEW err \in BOOLEAN, NEW u, DownloadCounted(err, u)
  PROVE  \E v \in {-1, 1} :
           /\ v = -1 <=> err
           /\ \A V : /\ v \in V => Reached(V)' \subseteq Reached(V) \cup {u} /\ u \in Reached(V)'
                     /\ v \notin V => Reached(V)' \subseteq Reached(V)
<1>1. PICK v \in {-1, 1} : \E b \in Batches : queue' = Append(queue, Mark(u, v, b)) /\ (v = -1 <=> err)
  BY DEF DownloadCounted
<1>2. PICK b \in Batches : queue' = Append(queue, Mark(u, v, b)) /\ (v = -1 <=> err)
  BY <1>1
<1> DEFINE e == Mark(u, v, b)
<1>3. e \in Query /\ e.op \in W /\ e.url = u /\ e.val = v /\ Left(queue)
  BY QueryTypes DEF Mark, DownloadCounted, W, Left
<1> HIDE DEF e
<1>4. ASSUME NEW V
      PROVE  /\ v \in V => Reached(V)' \subseteq Reached(V) \cup {u} /\ u \in Reached(V)'
             /\ v \notin V => Reached(V)' \subseteq Reached(V)
  <2>1. queue' = Append(queue, e)
    BY <1>2 DEF e
  <2> QED BY <1>3, <2>1, ReachedAsked
<1> QED BY <1>2, <1>4

LEMMA ReachedPage ==
  ASSUME TypeOK, [Next]_vars, NEW err \in BOOLEAN, NEW art \in BOOLEAN, NEW u,
         PageCounted(err, art, u)
  PROVE  \E v \in {-2, 2, 3} :
           /\ v = -2 <=> err
           /\ \A V : /\ v \in V => Reached(V)' \subseteq Reached(V) \cup {u} /\ u \in Reached(V)'
                     /\ v \notin V => Reached(V)' \subseteq Reached(V)
<1>1. PICK r : \E v \in {-2, 2, 3} : /\ Goes(r, {"upload_article", "finish"})
                                     /\ queue' = Append(r, Finish(u, v)) /\ (v = -2 <=> err)
  BY DEF PageCounted
<1>2. PICK v \in {-2, 2, 3} : /\ Goes(r, {"upload_article", "finish"})
                              /\ queue' = Append(r, Finish(u, v)) /\ (v = -2 <=> err)
  BY <1>1
<1> DEFINE e == Finish(u, v)
<1>3. e \in Query /\ e.op \in W /\ e.url = u /\ e.val = v /\ Left(r)
  BY <1>2, QueryTypes DEF Finish, PageCounted, W, Left, Goes
<1> HIDE DEF e
<1>4. ASSUME NEW V
      PROVE  /\ v \in V => Reached(V)' \subseteq Reached(V) \cup {u} /\ u \in Reached(V)'
             /\ v \notin V => Reached(V)' \subseteq Reached(V)
  <2>1. queue' = Append(r, e)
    BY <1>2 DEF e
  <2> QED BY <1>3, <2>1, ReachedAsked
<1> QED BY <1>2, <1>4

\* Everything on its way to pending has been downloaded.
Downloaded == Reached(T!Status \ {0}) \cup Backlog

LEMMA DownloadedStep ==
  ASSUME TypeOK, Pipe, [Next]_vars
  PROVE  Downloaded' \subseteq Reached(T!Status \ {0})' \cup Reached(T!Status \ {0}) \cup Backlog
<1>1. Marking \subseteq Reached(T!Status \ {0})
  <2> SUFFICES ASSUME NEW i \in Entries("mark") PROVE queue[i].url \in Reached(T!Status \ {0})
    BY DEF Marking
  <2>1. queue[i] \in Query /\ queue[i].op = "mark" /\ i \in Places(queue, W)
    BY WritesAre DEF Entries, TypeOK
  <2>2. queue[i].val \in T!Status \ {0}
    BY <2>1, QueryFields DEF T!Status
  <2> QED BY <2>1, <2>2, ReachedIs
<1> QED BY <1>1, BacklogStep DEF Downloaded

-----------------------------------------------------------------------------
(***************************************************************************)
(* What shows has been counted                                             *)
(***************************************************************************)
LEMMA UrlsFinite ==
  ASSUME NEW S \in SUBSET Urls
  PROVE  IsFiniteSet(S) /\ Cardinality(S) \in Nat
BY CrawlerAssumption, FS_Subset, FS_CardinalityType

\* A number that counts S, when S becomes R and the number m.
LEMMA AtLeast ==
  ASSUME NEW S \in SUBSET Urls, NEW R \in SUBSET Urls, NEW n \in Nat, NEW m \in Nat,
         n >= Cardinality(S),
         (R \subseteq S /\ m >= n) \/ \E u \in Urls : R \subseteq S \cup {u} /\ m >= n + 1
  PROVE  m >= Cardinality(R)
<1>1. ASSUME NEW Q \in SUBSET Urls, R \subseteq Q PROVE Cardinality(R) <= Cardinality(Q)
  BY <1>1, UrlsFinite, FS_Subset
<1>2. CASE R \subseteq S /\ m >= n
  BY <1>1, <1>2, UrlsFinite
<1>3. ASSUME NEW u \in Urls, R \subseteq S \cup {u}, m >= n + 1 PROVE m >= Cardinality(R)
  <2>1. Cardinality(R) <= Cardinality(S \cup {u})
    BY <1>1, <1>3
  <2>2. Cardinality(S \cup {u}) <= Cardinality(S) + 1
    BY UrlsFinite, FS_AddElement
  <2> QED BY <1>3, <2>1, <2>2, UrlsFinite
<1> QED BY <1>2, <1>3

LEMMA AtMost ==
  ASSUME NEW S \in SUBSET Urls, NEW R \in SUBSET Urls, NEW n \in Nat, NEW m \in Nat,
         n <= Cardinality(S),
         (S \subseteq R /\ m <= n) \/ \E u \in R \ S : S \subseteq R /\ m <= n + 1
  PROVE  m <= Cardinality(R)
<1>1. ASSUME NEW Q \in SUBSET Urls, Q \subseteq R PROVE Cardinality(Q) <= Cardinality(R)
  BY <1>1, UrlsFinite, FS_Subset
<1>2. CASE S \subseteq R /\ m <= n
  BY <1>1, <1>2, UrlsFinite
<1>3. ASSUME NEW u \in R \ S, S \subseteq R, m <= n + 1 PROVE m <= Cardinality(R)
  <2>1. Cardinality(S \cup {u}) <= Cardinality(R)
    BY <1>1, <1>3
  <2>2. Cardinality(S \cup {u}) = Cardinality(S) + 1
    BY UrlsFinite, FS_AddElement
  <2> QED BY <1>3, <2>1, <2>2, UrlsFinite
<1> QED BY <1>2, <1>3

Enough ==
  /\ Total("downloads") >= Cardinality(Downloaded)
  /\ Total("failed_downloads") >= Cardinality(Reached({-1}))
  /\ Total("processed") >= Cardinality(Reached(T!Settled))
  /\ Total("failed_processed") >= Cardinality(Reached({-2}))

\* The sets whose elements have been counted.
LEMMA CountedTypes ==
  ASSUME TypeOK
  PROVE  /\ Downloaded \in SUBSET Urls
         /\ \A V : Reached(V) \in SUBSET Urls
<1>1. \A V : Reached(V) \in SUBSET Urls
  BY ReachedTypes
<1>2. Backlog \in SUBSET Urls
  BY DEF Backlog, TypeOK
<1> QED BY <1>1, <1>2 DEF Downloaded

LEMMA CountedTypesNext ==
  ASSUME TypeOK'
  PROVE  /\ Downloaded' \in SUBSET Urls
         /\ \A V : Reached(V)' \in SUBSET Urls
<1>1. ASSUME NEW i \in Places(queue', W) PROVE queue'[i].url \in Urls
  <2>1. queue'[i] \in Query /\ queue'[i].op \in W
    BY DEF Places, TypeOK
  <2> QED BY <2>1, QueryFields DEF W
<1>2. \A V : Reached(V)' \in SUBSET Urls
  BY <1>1, ReachedIs
<1>3. Backlog' \in SUBSET Urls
  BY DEF Backlog, TypeOK
<1> QED BY <1>2, <1>3 DEF Downloaded

LEMMA KindsAre ==
  /\ "downloads" \in M!Kinds /\ "processed" \in M!Kinds /\ "articles" \in M!Kinds
  /\ "failed_downloads" \in M!Kinds /\ "failed_processed" \in M!Kinds
BY DEF M!Kinds

LEMMA EnoughMoved ==
  ASSUME TypeOK, TypeOK', Pipe, [Next]_vars, MTypeOK, Enough, Moved, ~lost', NoneNew(W)
  PROVE  Enough'
<1>1. \A k \in M!Kinds : Total(k)' = Total(k) /\ Total(k) \in Nat
  BY TotalTypes DEF Moved
<1>2. \A V : Reached(V)' \subseteq Reached(V)
  BY ReachedMoved
<1>3. Downloaded' \subseteq Downloaded
  BY <1>2, DownloadedStep DEF Downloaded
<1>4. ASSUME NEW k \in M!Kinds, NEW S \in SUBSET Urls, NEW R \in SUBSET Urls, R \subseteq S,
             Total(k) >= Cardinality(S)
      PROVE  Total(k)' >= Cardinality(R)
  <2>1. Total(k) \in Nat /\ Total(k)' \in Nat /\ Total(k)' >= Total(k)
    BY <1>1
  <2> QED BY <1>4, <2>1, AtLeast
<1>5. Total("downloads")' >= Cardinality(Downloaded')
  BY <1>3, <1>4, KindsAre, CountedTypes, CountedTypesNext DEF Enough
<1>6. ASSUME NEW k \in M!Kinds, NEW V, Total(k) >= Cardinality(Reached(V))
      PROVE  Total(k)' >= Cardinality(Reached(V)')
  BY <1>2, <1>4, <1>6, CountedTypes, CountedTypesNext
<1>7. /\ Total("failed_downloads")' >= Cardinality(Reached({-1})')
      /\ Total("processed")' >= Cardinality(Reached({-2, 2, 3})')
      /\ Total("failed_processed")' >= Cardinality(Reached({-2})')
  BY <1>6, KindsAre DEF Enough, T!Settled
<1> QED BY <1>5, <1>7 DEF Enough, T!Settled

\* A set that has grown by u has been counted once more.
LEMMA CountedAnew ==
  ASSUME TypeOK, TypeOK', MTypeOK, NEW k \in M!Kinds, NEW one \in {0, 1}, NEW u \in Urls,
         Total(k)' = Total(k) + one,
         NEW S \in SUBSET Urls, NEW R \in SUBSET Urls, Total(k) >= Cardinality(S),
         R \subseteq S \/ (one = 1 /\ R \subseteq S \cup {u})
  PROVE  Total(k)' >= Cardinality(R)
<1>1. /\ Total(k) \in Nat /\ Total(k)' \in Nat /\ Total(k)' >= Total(k)
      /\ one = 1 => Total(k)' >= Total(k) + 1
  BY TotalTypes
<1> QED BY <1>1, AtLeast

LEMMA EnoughDownload ==
  ASSUME TypeOK, TypeOK', Pipe, [Next]_vars, MTypeOK, Enough,
         NEW err \in BOOLEAN, NEW u \in Urls, DownloadCounted(err, u)
  PROVE  Enough'
<1> DEFINE one(k) == IF k = "downloads" \/ (k = "failed_downloads" /\ err) THEN 1 ELSE 0
<1>1. \A k \in M!Kinds : Total(k)' = Total(k) + one(k) /\ one(k) \in {0, 1}
  <2>1. ASSUME NEW k \in M!Kinds PROVE Total(k)' = Total(k) + one(k) /\ one(k) \in {0, 1}
    <3>1. /\ Total(k)' = IF k = "downloads" \/ (k = "failed_downloads" /\ err)
                         THEN Total(k) + 1 ELSE Total(k)
          /\ Total(k) \in Nat
      BY DownloadCounts, TotalTypes DEF DownloadCounted
    <3> QED BY <3>1
  <2> QED BY <2>1
<1>2. PICK v \in {-1, 1} :
        /\ v = -1 <=> err
        /\ \A V : /\ v \in V => Reached(V)' \subseteq Reached(V) \cup {u} /\ u \in Reached(V)'
                  /\ v \notin V => Reached(V)' \subseteq Reached(V)
  BY ReachedDownload
<1>3. ASSUME NEW k \in M!Kinds, NEW V, Total(k) >= Cardinality(Reached(V)),
             v \in V => one(k) = 1
      PROVE  Total(k)' >= Cardinality(Reached(V)')
  <2>1. Total(k)' = Total(k) + one(k) /\ one(k) \in {0, 1}
    BY <1>1
  <2>2. Reached(V)' \subseteq Reached(V) \/ (one(k) = 1 /\ Reached(V)' \subseteq Reached(V) \cup {u})
    BY <1>2, <1>3
  <2>3. Reached(V) \in SUBSET Urls /\ Reached(V)' \in SUBSET Urls
    BY CountedTypes, CountedTypesNext
  <2> HIDE DEF one
  <2> QED BY <1>3, <2>1, <2>2, <2>3, CountedAnew
<1>4. Total("downloads")' >= Cardinality(Downloaded')
  <2>1. one("downloads") = 1 /\ Total("downloads")' = Total("downloads") + one("downloads")
    BY <1>1, KindsAre
  <2>2. v \in T!Status \ {0}
    BY DEF T!Status
  <2>3. Downloaded' \subseteq Downloaded \cup {u}
    BY <1>2, <2>2, DownloadedStep DEF Downloaded
  <2>4. /\ Downloaded \in SUBSET Urls /\ Downloaded' \in SUBSET Urls
        /\ Total("downloads") >= Cardinality(Downloaded)
    BY CountedTypes, CountedTypesNext DEF Enough
  <2> HIDE DEF one
  <2> QED BY <2>1, <2>3, <2>4, KindsAre, CountedAnew
<1>5. /\ Total("failed_downloads")' >= Cardinality(Reached({-1})')
      /\ Total("processed")' >= Cardinality(Reached({-2, 2, 3})')
      /\ Total("failed_processed")' >= Cardinality(Reached({-2})')
  <2>1. v \in {-1} => one("failed_downloads") = 1
    BY <1>2
  <2>2. v \notin {-2, 2, 3} /\ v \notin {-2}
    OBVIOUS
  <2>3. /\ Total("failed_downloads") >= Cardinality(Reached({-1}))
        /\ Total("processed") >= Cardinality(Reached({-2, 2, 3}))
        /\ Total("failed_processed") >= Cardinality(Reached({-2}))
    BY DEF Enough, T!Settled
  <2> HIDE DEF one
  <2>4. Total("failed_downloads")' >= Cardinality(Reached({-1})')
    BY <1>3, <2>1, <2>3, KindsAre
  <2>5. Total("processed")' >= Cardinality(Reached({-2, 2, 3})')
    BY <1>3, <2>2, <2>3, KindsAre
  <2>6. Total("failed_processed")' >= Cardinality(Reached({-2})')
    BY <1>3, <2>2, <2>3, KindsAre
  <2> QED BY <2>4, <2>5, <2>6
<1> QED BY <1>4, <1>5 DEF Enough, T!Settled

LEMMA EnoughPage ==
  ASSUME TypeOK, TypeOK', Pipe, [Next]_vars, MTypeOK, Enough,
         NEW err \in BOOLEAN, NEW art \in BOOLEAN, NEW u, PageCounted(err, art, u)
  PROVE  Enough'
<1> DEFINE one(k) == IF Counts1(k, err, art) THEN 1 ELSE 0
<1>0. u \in Urls /\ u \in Backlog
  BY DEF PageCounted
<1>1. \A k \in M!Kinds : Total(k)' = Total(k) + one(k) /\ one(k) \in {0, 1}
  <2>1. ASSUME NEW k \in M!Kinds PROVE Total(k)' = Total(k) + one(k) /\ one(k) \in {0, 1}
    <3>1. /\ Total(k)' = IF Counts1(k, err, art) THEN Total(k) + 1 ELSE Total(k)
          /\ Total(k) \in Nat
      BY ProcessingCounts, TotalTypes DEF PageCounted
    <3> QED BY <3>1
  <2> QED BY <2>1
<1>2. PICK v \in {-2, 2, 3} :
        /\ v = -2 <=> err
        /\ \A V : /\ v \in V => Reached(V)' \subseteq Reached(V) \cup {u} /\ u \in Reached(V)'
                  /\ v \notin V => Reached(V)' \subseteq Reached(V)
  BY ReachedPage
<1>3. ASSUME NEW k \in M!Kinds, NEW V, Total(k) >= Cardinality(Reached(V)),
             v \in V => one(k) = 1
      PROVE  Total(k)' >= Cardinality(Reached(V)')
  <2>1. Total(k)' = Total(k) + one(k) /\ one(k) \in {0, 1}
    BY <1>1
  <2>2. Reached(V)' \subseteq Reached(V) \/ (one(k) = 1 /\ Reached(V)' \subseteq Reached(V) \cup {u})
    BY <1>2, <1>3
  <2>3. Reached(V) \in SUBSET Urls /\ Reached(V)' \in SUBSET Urls
    BY CountedTypes, CountedTypesNext
  <2> HIDE DEF one
  <2> QED BY <1>0, <1>3, <2>1, <2>2, <2>3, CountedAnew
<1>4. Total("downloads")' >= Cardinality(Downloaded')
  <2>1. one("downloads") \in {0, 1} /\ Total("downloads")' = Total("downloads") + one("downloads")
    BY <1>1, KindsAre
  <2>2. Downloaded' \subseteq Downloaded
    <3>1. Reached(T!Status \ {0})' \subseteq Reached(T!Status \ {0}) \cup {u}
      BY <1>2
    <3> QED BY <1>0, <3>1, DownloadedStep DEF Downloaded
  <2>3. /\ Downloaded \in SUBSET Urls /\ Downloaded' \in SUBSET Urls
        /\ Total("downloads") >= Cardinality(Downloaded)
    BY CountedTypes, CountedTypesNext DEF Enough
  <2> HIDE DEF one
  <2> QED BY <1>0, <2>1, <2>2, <2>3, KindsAre, CountedAnew
<1>5. /\ Total("failed_downloads")' >= Cardinality(Reached({-1})')
      /\ Total("processed")' >= Cardinality(Reached({-2, 2, 3})')
      /\ Total("failed_processed")' >= Cardinality(Reached({-2})')
  <2>1. one("processed") = 1 /\ (v \in {-2} => one("failed_processed") = 1)
    BY <1>2 DEF Counts1
  <2>2. v \notin {-1}
    OBVIOUS
  <2>3. /\ Total("failed_downloads") >= Cardinality(Reached({-1}))
        /\ Total("processed") >= Cardinality(Reached({-2, 2, 3}))
        /\ Total("failed_processed") >= Cardinality(Reached({-2}))
    BY DEF Enough, T!Settled
  <2> HIDE DEF one
  <2>4. Total("failed_downloads")' >= Cardinality(Reached({-1})')
    BY <1>3, <2>2, <2>3, KindsAre
  <2>5. Total("processed")' >= Cardinality(Reached({-2, 2, 3})')
    BY <1>3, <2>1, <2>3, KindsAre
  <2>6. Total("failed_processed")' >= Cardinality(Reached({-2})')
    BY <1>3, <2>1, <2>3, KindsAre
  <2> QED BY <2>4, <2>5, <2>6
<1> QED BY <1>4, <1>5 DEF Enough, T!Settled

LEMMA EnoughNext ==
  ASSUME IInv, IInv', MTypeOK, SentQueued, [MNext]_allvars, ~lost => Enough
  PROVE  ~lost' => Enough'
<1>0. TypeOK /\ TypeOK' /\ Pipe /\ [Next]_vars
  BY MNextIsNext DEF IInv, Pipe
<1> SUFFICES ASSUME ~lost' PROVE Enough'
  OBVIOUS
<1>1. CASE Uncounted \/ InsertSent \/ InsertAnswered \/ Begins \/ Ends
  <2>1. Moved /\ NoneNew(W)
    BY <1>1, StepMoves
  <2>2. Enough
    BY <2>1 DEF Moved
  <2> QED BY <1>0, <2>1, <2>2, EnoughMoved
<1>2. ASSUME NEW err \in BOOLEAN, NEW u, DownloadCounted(err, u) PROVE Enough'
  <2>1. u \in Urls /\ Enough
    BY <1>2, DownloadCounts DEF DownloadCounted
  <2> QED BY <1>0, <1>2, <2>1, EnoughDownload
<1>3. ASSUME NEW err \in BOOLEAN, NEW art \in BOOLEAN, NEW u, PageCounted(err, art, u)
      PROVE  Enough'
  <2>1. Enough
    BY <1>3, ProcessingCounts DEF PageCounted
  <2> QED BY <1>0, <1>3, <2>1, EnoughPage
<1> QED BY <1>1, <1>2, <1>3, StepCounts

-----------------------------------------------------------------------------
(***************************************************************************)
(* The articles                                                            *)
(***************************************************************************)
LEMMA ContentTypes ==
  ASSUME T!TypeOK
  PROVE  IsFiniteSet(content) /\ Cardinality(content) \in Nat
<1> DEFINE Pairs == Urls \X SUBSET Urls
           f == [r \in T!ContentRow |-> <<r.url, r.from>>]
<1>1. IsFiniteSet(Pairs)
  BY CrawlerAssumption, FS_SUBSET, FS_Product
<1>2. f \in [T!ContentRow -> Pairs] /\ \A r, s \in T!ContentRow : f[r] = f[s] => r = s
  BY DEF T!ContentRow
<1> HIDE DEF f, Pairs
<1>3. IsFiniteSet(T!ContentRow)
  BY <1>1, <1>2, InjectionBounds
<1> QED BY <1>3, FS_Subset, FS_CardinalityType DEF T!TypeOK

\* The INSERT of an article is carried out.
Adds == /\ ~fatal /\ queue # <<>> /\ Head(queue).op = "upload_article"
        /\ T!InsertContent(Head(queue).url, Head(queue).from)

LEMMA AddsOne ==
  ASSUME T!TypeOK, Adds
  PROVE  Cardinality(content') = Cardinality(content) + 1
<1> DEFINE r == [url |-> Head(queue).url, from |-> Head(queue).from]
<1>1. content' = content \cup {r} /\ r \notin content
  BY DEF Adds, T!InsertContent
<1> QED BY <1>1, ContentTypes, FS_AddElement

LEMMA WithdrawnIs ==
  ASSUME TypeOK, Pipe
  PROVE  /\ Withdrawn \in {0, 1} /\ Withdrawn' \in {0, 1}
         /\ Withdrawn = 1 => fatal /\ Entries("upload_article") # {} /\ stage = "upload_article"
         /\ fatal' /\ Entries("upload_article")' # {} => Withdrawn' = 1
<1>1. ASSUME Entries("upload_article") # {} PROVE stage = "upload_article"
  <2>1. PICK i \in Entries("upload_article") : TRUE
    BY <1>1
  <2>2. i \in Places(queue, P!QueryStages) /\ queue[i].op = "upload_article"
    BY DEF Entries, Places, P!QueryStages
  <2> QED BY <2>2 DEF Pipe, PipeQuery
<1> QED BY <1>1 DEF Withdrawn

\* The events that leave the articles and the connection alone.
LEMMA ContentKept ==
  ASSUME \/ \E t \in transfers : CountDownload(t)
         \/ CountMissing \/ CountNoArticle \/ Send \/ \E ok \in BOOLEAN : Record(ok)
         \/ Aside \/ UNCHANGED allvars
  PROVE  UNCHANGED <<content, crashes, fatal>>
<1>1. ASSUME NEW t \in transfers, CountDownload(t) PROVE UNCHANGED <<content, crashes, fatal>>
  BY <1>1 DEF CountDownload, Response, RequestError, FileFinish, FileError, RequestEnd, conn,
              downloaded, C!Enqueue, notNetwork, tables, history
<1>2. ASSUME NEW ok \in BOOLEAN, FinishAnswered(ok) PROVE UNCHANGED <<content, crashes, fatal>>
  BY <1>2 DEF FinishAnswered, T!UpdateStatus, tables, history
<1>3. CASE CountMissing
  <2>1. CASE ProcessTimer
    BY <2>1 DEF ProcessTimer, tables, history
  <2> QED BY <1>2, <1>3, <2>1 DEF CountMissing
<1>4. CASE CountNoArticle
  BY <1>4 DEF CountNoArticle, VerifyArticleClosed, notChild, tables, history
<1>5. CASE Send
  BY <1>5 DEF Send, MetricsTimer, C!Enqueue, tables, history
<1>6. ASSUME NEW ok \in BOOLEAN, Record(ok) PROVE UNCHANGED <<content, crashes, fatal>>
  BY <1>6 DEF Record, MetricsAnswered, tables, history
<1>7. CASE Aside
  <2>1. CASE BatchTimer \/ Restart \/ HandshakeAnswered
    BY <2>1 DEF BatchTimer, Restart, HandshakeAnswered, tables, history
  <2>2. CASE ContentExtractClosed \/ MetaExtractClosed
    BY <2>2 DEF ContentExtractClosed, MetaExtractClosed, notChild, tables, history
  <2>3. ASSUME NEW ok \in BOOLEAN, UrlExtractClosed(ok) \/ ListAnswered(ok)
        PROVE  UNCHANGED <<content, crashes, fatal>>
    BY <2>3 DEF UrlExtractClosed, ListAnswered, notChild, tables, history
  <2>4. ASSUME NEW ok \in BOOLEAN, MarkAnswered(ok)
        PROVE  UNCHANGED <<content, crashes, fatal>>
    BY <2>4 DEF MarkAnswered, T!UpdateStatus, tables, history
  <2>5. ASSUME NEW ok \in BOOLEAN, UrlsAnswered(ok)
        PROVE  UNCHANGED <<content, crashes, fatal>>
    BY <2>5 DEF UrlsAnswered, T!InsertUrls, tables, history
  <2> QED BY <1>7, <2>1, <2>2, <2>3, <2>4, <2>5 DEF Aside
<1>8. CASE UNCHANGED allvars
  BY <1>8 DEF allvars, vars, tables, conn, history
<1> QED BY <1>1, <1>3, <1>4, <1>5, <1>6, <1>7, <1>8

\* A query that is not answered stays in the queue.
LEMMA EntryStays ==
  ASSUME TypeOK, NEW op, NEW O, op \notin O, NEW r, Goes(r, O),
         queue' = r \/ \E e \in Query : queue' = Append(r, e), Entries(op) # {}
  PROVE  Entries(op)' # {}
<1>1. queue \in Seq(Query) /\ r \in Seq(Query)
  BY RestTypes DEF TypeOK, Goes
<1>2. Places(r, {op}) # {}
  <2>1. PICK i \in Places(queue, {op}) : TRUE
    BY EntriesArePlaces
  <2>2. CASE r = queue
    BY <2>1, <2>2
  <2>3. CASE queue # <<>> /\ r = C!Rest /\ Head(queue).op \in O
    <3>1. i # 1
      BY <1>1, <2>1, <2>3 DEF Places
    <3> QED BY <1>1, <2>1, <2>3, <3>1, PlacesOfRest
  <2> QED BY <2>2, <2>3 DEF Goes
<1>3. ASSUME NEW e \in Query, queue' = Append(r, e) PROVE Places(r, {op}) \subseteq Places(queue', {op})
  <2> DEFINE O1 == {op}
  <2> HIDE DEF O1
  <2>1. /\ e.op \in O1 => Places(Append(r, e), O1) = Places(r, O1) \cup {Len(r) + 1}
        /\ e.op \notin O1 => Places(Append(r, e), O1) = Places(r, O1)
    BY <1>1, <1>3, PlacesOfAppend DEF Places
  <2>2. Places(r, O1) \subseteq Places(queue', O1)
    BY <1>3, <2>1
  <2> QED BY <2>2 DEF O1
<1> QED BY <1>2, <1>3, EntriesArePlaces

LEMMA WithdrawnKept ==
  ASSUME TypeOK, Pipe, fatal' = fatal, NEW r, NEW O, "upload_article" \notin O, Goes(r, O),
         queue' = r \/ \E e \in Query : queue' = Append(r, e)
  PROVE  Withdrawn' >= Withdrawn
<1>1. CASE Withdrawn = 1
  <2>1. fatal' /\ Entries("upload_article")' # {}
    BY <1>1, WithdrawnIs, EntryStays
  <2> QED BY <1>1, <2>1, WithdrawnIs
<1>2. CASE Withdrawn = 0
  BY <1>2, WithdrawnIs
<1> QED BY <1>1, <1>2, WithdrawnIs

LEMMA WithdrawnMoves ==
  ASSUME TypeOK, Pipe, fatal' = fatal, Uncounted \/ InsertSent \/ InsertAnswered \/ Begins
  PROVE  Withdrawn' >= Withdrawn
<1>1. CASE Uncounted
  <2>1. PICK r : /\ Goes(r, {"handshake", "list", "mark", "upload_urls", "finish"})
                 /\ Asks(r, {"list", "upload_urls", "upload_article"})
    BY <1>1 DEF Uncounted
  <2>2. queue' = r \/ \E e \in Query : queue' = Append(r, e)
    BY <2>1 DEF Asks
  <2> QED BY <2>1, <2>2, WithdrawnKept
<1>2. CASE InsertSent
  <2>1. Goes(queue, {}) /\ \E e \in Query : queue' = Append(queue, e)
    BY <1>2, QueryTypes DEF InsertSent, Goes
  <2> QED BY <2>1, WithdrawnKept
<1>3. CASE InsertAnswered
  <2>1. Goes(C!Rest, {"metrics"}) /\ queue' = C!Rest
    BY <1>3 DEF InsertAnswered, Goes
  <2> QED BY <2>1, WithdrawnKept
<1>4. CASE Begins
  <2>1. Entries("upload_article") = {}
    BY <1>4, LaunchHas, EntriesArePlaces DEF Begins
  <2>2. Withdrawn = 0
    BY <2>1, WithdrawnIs
  <2> QED BY <2>2, WithdrawnIs
<1> QED BY <1>1, <1>2, <1>3, <1>4

ArticlesEnough == Total("articles") + crashes + Withdrawn >= Cardinality(content)

\* The articles are those of the INSERT at the server or those there were.
LEMMA UnansweredContent ==
  ASSUME TypeOK, Pipe, Unanswered
  PROVE  content' = content \/ Adds
BY DEF Unanswered, Execute, C!Serving, T!UpdateStatus, T!InsertUrls, tables, Adds

LEMMA ArticlesKept ==
  ASSUME TypeOK, Pipe, MTypeOK, ArticlesEnough, UNCHANGED <<content, crashes>>,
         Withdrawn = 0 \/ Withdrawn' >= Withdrawn,
         Total("articles")' = Total("articles") \/ Total("articles")' = Total("articles") + 1
  PROVE  ArticlesEnough'
<1>1. Total("articles") \in Nat /\ crashes \in Nat /\ Cardinality(content) \in Nat
  BY KindsAre, TotalTypes, ContentTypes DEF TypeOK
<1>2. Withdrawn \in {0, 1} /\ Withdrawn' \in {0, 1}
  BY WithdrawnIs
<1>3. /\ Total("articles")' \in Nat /\ Total("articles")' >= Total("articles")
      /\ Withdrawn' >= Withdrawn
  BY <1>1, <1>2
<1>4. Total("articles") + crashes + Withdrawn >= Cardinality(content)
  BY DEF ArticlesEnough
<1>5. Cardinality(content') = Cardinality(content) /\ crashes' = crashes
  OBVIOUS
<1>6. Total("articles")' + crashes' + Withdrawn' >= Cardinality(content')
  BY <1>1, <1>2, <1>3, <1>4, <1>5
<1> QED BY <1>6 DEF ArticlesEnough

LEMMA TotalMoved ==
  ASSUME MTypeOK, Moved, ~lost'
  PROVE  ~lost /\ \A k \in M!Kinds : Total(k)' = Total(k) /\ Total(k) \in Nat
BY TotalTypes DEF Moved

LEMMA PageTotals ==
  ASSUME MTypeOK, NEW err \in BOOLEAN, NEW art \in BOOLEAN, NEW u, PageCounted(err, art, u)
  PROVE  /\ MTypeOK' /\ lost' = lost
         /\ \A k \in M!Kinds :
              Total(k) \in Nat /\ Total(k)' = IF Counts1(k, err, art) THEN Total(k) + 1 ELSE Total(k)
BY ProcessingCounts, TotalTypes DEF PageCounted

LEMMA ArticleAnsweredAdds ==
  ASSUME NEW ok \in BOOLEAN, CountArticle(ok)
  PROVE  /\ crashes' = crashes
         /\ ok = FALSE => content' = content
         /\ ok = TRUE => Adds
<1>1. ArticleAnswered(ok)
  BY DEF CountArticle
<1>2. crashes' = crashes /\ queue # <<>> /\ Head(queue).op = "upload_article"
  BY <1>1 DEF ArticleAnswered, Answers, history
<1>3. CASE ok = FALSE
  <2>1. UNCHANGED tables
    BY <1>1, <1>3 DEF ArticleAnswered
  <2> QED BY <1>2, <1>3, <2>1 DEF tables
<1>4. CASE ok = TRUE
  <2>1. ~fatal /\ T!InsertContent(Head(queue).url, Head(queue).from)
    BY <1>1, <1>4 DEF ArticleAnswered, Answers
  <2> QED BY <1>2, <1>4, <2>1 DEF Adds
<1>5. ok = TRUE \/ ok = FALSE
  OBVIOUS
<1> QED BY <1>3, <1>4, <1>5

LEMMA MissingStage ==
  ASSUME TypeOK, Pipe, CountMissing
  PROVE  stage \in {"idle", "finish"}
<1>1. CASE ProcessTimer
  BY <1>1 DEF ProcessTimer
<1>2. ASSUME NEW ok \in BOOLEAN, FinishAnswered(ok) PROVE stage = "finish"
  <2>1. queue # <<>> /\ Head(queue).op = "finish"
    BY <1>2 DEF FinishAnswered, Answers
  <2> QED BY <2>1, Answering DEF Pipe, P!QueryStages
<1> QED BY <1>1, <1>2 DEF CountMissing

LEMMA ArticlesNext ==
  ASSUME IInv, IInv', MTypeOK, SentQueued, [MNext]_allvars, ~lost => ArticlesEnough
  PROVE  ~lost' => ArticlesEnough'
<1>0. TypeOK /\ TypeOK' /\ Pipe /\ DeadIsEmpty /\ T!TypeOK
  BY DEF IInv, Pipe, TypeOK
<1> SUFFICES ASSUME ~lost' PROVE ArticlesEnough'
  OBVIOUS
<1>1. ASSUME Uncounted \/ InsertSent \/ InsertAnswered \/ Begins \/ Ends
      PROVE  ArticlesEnough /\ Total("articles")' = Total("articles")
  BY <1>1, StepMoves, TotalMoved, KindsAre
<1>2. ASSUME UNCHANGED <<content, crashes, fatal>>,
             Uncounted \/ InsertSent \/ InsertAnswered \/ Begins
      PROVE  ArticlesEnough'
  BY <1>0, <1>1, <1>2, WithdrawnMoves, ArticlesKept
<1>3. ASSUME NEW err \in BOOLEAN, NEW art \in BOOLEAN, NEW u, PageCounted(err, art, u),
             UNCHANGED <<content, crashes>>, stage # "upload_article"
      PROVE  ArticlesEnough'
  <2>1. ArticlesEnough /\ (\/ Total("articles")' = Total("articles")
                           \/ Total("articles")' = Total("articles") + 1)
    BY <1>3, PageTotals, KindsAre
  <2>2. Withdrawn = 0
    BY <1>0, <1>3, WithdrawnIs
  <2> QED BY <1>0, <1>3, <2>1, <2>2, ArticlesKept
<1>4. ASSUME NEW t \in transfers, CountDownload(t) PROVE ArticlesEnough'
  <2>1. UNCHANGED <<content, crashes, fatal>>
    BY <1>4, ContentKept
  <2>2. ASSUME NEW err \in BOOLEAN, DownloadCounted(err, t.url) PROVE ArticlesEnough'
    <3>1. lost' = lost /\ Total("articles")' = Total("articles")
      BY <2>2, DownloadCounts, KindsAre DEF DownloadCounted
    <3>2. Goes(queue, {}) /\ \E e \in Query : queue' = Append(queue, e)
      BY <2>2, QueryTypes DEF DownloadCounted, Goes
    <3>3. Withdrawn' >= Withdrawn
      BY <1>0, <2>1, <3>2, WithdrawnKept
    <3> QED BY <1>0, <2>1, <3>1, <3>3, ArticlesKept
  <2> QED BY <1>0, <1>2, <1>4, <2>1, <2>2, StepDownload
<1>5. CASE CountMissing
  <2>1. UNCHANGED <<content, crashes, fatal>> /\ stage # "upload_article"
    BY <1>0, <1>5, ContentKept, MissingStage
  <2> QED BY <1>0, <1>2, <1>3, <1>5, <2>1, StepMissing
<1>6. CASE CountNoArticle
  <2>1. UNCHANGED <<content, crashes, fatal>>
    BY <1>6, ContentKept
  <2>2. Uncounted \/ (stage = "verify_article" /\ PageCounted(FALSE, FALSE, page))
    BY <1>0, <1>6, StepPipeline
  <2> QED BY <1>2, <1>3, <2>1, <2>2
<1>7. ASSUME NEW ok \in BOOLEAN, CountArticle(ok) PROVE ArticlesEnough'
  <2>1. /\ crashes' = crashes
        /\ ok = FALSE => content' = content
        /\ ok = TRUE => Adds
    BY <1>7, ArticleAnsweredAdds
  <2>2. PageCounted(~ok, TRUE, page)
    BY <1>0, <1>7, StepPipeline
  <2>3. /\ ArticlesEnough /\ Total("articles") \in Nat
        /\ Total("articles")' = Total("articles") + 1
    BY <2>2, PageTotals, KindsAre DEF Counts1
  <2>4. /\ crashes \in Nat /\ Cardinality(content) \in Nat
        /\ Withdrawn \in {0, 1} /\ Withdrawn' \in {0, 1}
    BY <1>0, ContentTypes, WithdrawnIs DEF TypeOK
  <2>5. CASE ok = FALSE
    <3>1. Cardinality(content') = Cardinality(content)
      BY <2>1, <2>5
    <3> QED BY <2>1, <2>3, <2>4, <3>1 DEF ArticlesEnough
  <2>6. CASE ok = TRUE
    <3>1. Cardinality(content') = Cardinality(content) + 1 /\ ~fatal
      BY <1>0, <2>1, <2>6, AddsOne DEF Adds
    <3>2. Withdrawn = 0
      BY <1>0, <2>4, <3>1, WithdrawnIs
    <3> QED BY <2>1, <2>3, <2>4, <3>1, <3>2 DEF ArticlesEnough
  <2>7. ok = TRUE \/ ok = FALSE
    OBVIOUS
  <2> QED BY <2>5, <2>6, <2>7
<1>8. ASSUME NEW ok \in BOOLEAN, Record(ok) PROVE ArticlesEnough'
  <2>1. InsertAnswered
    BY <1>8 DEF Record, MetricsAnswered, Answers, InsertAnswered
  <2> QED BY <1>2, <1>8, <2>1, ContentKept
<1>9. CASE Send
  <2>1. InsertSent
    BY <1>9 DEF Send, MetricsTimer, C!Enqueue, InsertSent
  <2> QED BY <1>2, <1>9, <2>1, ContentKept
<1>10. CASE Aside
  BY <1>0, <1>2, <1>10, ContentKept, StepAside
<1>11. CASE UNCHANGED allvars
  <2>1. UNCHANGED metrics /\ Goes(queue, {"handshake", "list", "mark", "upload_urls", "finish"})
        /\ Asks(queue, {"list", "upload_urls", "upload_article"})
    BY <1>11 DEF allvars, vars, conn, Goes, Asks
  <2>2. Uncounted
    BY <2>1, StillUncounted
  <2> QED BY <1>2, <1>11, <2>2, ContentKept
<1>12. CASE LoseConnection
  <2>1. ArticlesEnough /\ Total("articles")' = Total("articles")
    BY <1>0, <1>1, <1>12, StepLose
  <2>2. ~fatal /\ fatal' /\ queue' = queue /\ Unanswered /\ crashes' = crashes
    BY <1>12 DEF LoseConnection, ConnectionLost, C!ConnectionLost, history
  <2>3. Withdrawn = 0
    BY <1>0, <2>2, WithdrawnIs
  <2>4. CASE content' = content
    BY <1>0, <2>1, <2>2, <2>3, <2>4, ArticlesKept
  <2>5. CASE Adds
    <3>1. 1 \in Entries("upload_article")'
      BY <1>0, <2>2, <2>5 DEF Adds, Entries, TypeOK
    <3>2. Withdrawn' = 1
      BY <1>0, <2>2, <3>1, WithdrawnIs
    <3>3. /\ Cardinality(content') = Cardinality(content) + 1 /\ Cardinality(content) \in Nat
          /\ crashes \in Nat /\ Total("articles") \in Nat
      BY <1>0, <2>5, AddsOne, ContentTypes, KindsAre, TotalTypes DEF TypeOK
    <3> QED BY <2>1, <2>2, <2>3, <3>2, <3>3 DEF ArticlesEnough
  <2> QED BY <1>0, <2>2, <2>4, <2>5, UnansweredContent
<1>13. CASE Die
  <2>1. ArticlesEnough /\ Total("articles")' = Total("articles")
    BY <1>0, <1>1, <1>13, StepDie
  <2>2. crashes' = crashes + 1
    BY <1>13 DEF Die, ConnectionLostUnheard, Crash, Dies
  <2>3. content' = content \/ Adds
    <3>1. CASE ConnectionLostUnheard
      BY <3>1 DEF ConnectionLostUnheard, tables
    <3>2. CASE Crash
      BY <1>0, <3>2, UnansweredContent DEF Crash
    <3> QED BY <1>13, <3>1, <3>2 DEF Die
  <2>4. /\ crashes \in Nat /\ Cardinality(content) \in Nat /\ Total("articles") \in Nat
        /\ Withdrawn \in {0, 1} /\ Withdrawn' \in {0, 1}
    BY <1>0, ContentTypes, WithdrawnIs, KindsAre, TotalTypes DEF TypeOK
  <2>5. CASE content' = content
    <3>1. Cardinality(content') = Cardinality(content)
      BY <2>5
    <3> QED BY <2>1, <2>2, <2>4, <3>1 DEF ArticlesEnough
  <2>6. CASE Adds
    <3>1. Cardinality(content') = Cardinality(content) + 1 /\ Withdrawn = 0
      BY <1>0, <2>4, <2>6, AddsOne, WithdrawnIs DEF Adds
    <3> QED BY <2>1, <2>2, <2>4, <3>1 DEF ArticlesEnough
  <2> QED BY <2>3, <2>5, <2>6
<1> QED BY <1>4, <1>5, <1>6, <1>7, <1>8, <1>9, <1>10, <1>11, <1>12, <1>13 DEF MNext

-----------------------------------------------------------------------------
(***************************************************************************)
(* Without faults and crashes every page on its way has its file           *)
(***************************************************************************)
FilesHeld ==
  \A u \in Fetching \cup Backlog : u \in files \/ (stage = "finish" /\ page = u)

\* A file is removed when its page goes to its status update.
LEMMA QuietFiles ==
  ASSUME Quiet
  PROVE  files' = files \/ (files' = files \ {page'} /\ stage' = "finish")
<1>1. CASE BatchTimer \/ MetricsTimer \/ HandshakeAnswered \/ MetricsAnswered \/ Restart
           \/ UNCHANGED vars
  BY <1>1 DEF BatchTimer, MetricsTimer, HandshakeAnswered, MetricsAnswered, Restart, vars
<1>2. CASE ProcessTimer
  BY <1>2 DEF ProcessTimer, process_pending, P!Idle, P!process
<1>3. ASSUME NEW readable \in BOOLEAN, UrlExtractClosed(readable) PROVE files' = files
  BY <1>3 DEF UrlExtractClosed, P!UrlExtractClosed
<1>4. CASE VerifyArticleClosed
  BY <1>4 DEF VerifyArticleClosed, P!NotArticle, P!IsArticle, P!clean, P!GoTo
<1>5. CASE ContentExtractClosed \/ MetaExtractClosed
  BY <1>5 DEF ContentExtractClosed, MetaExtractClosed, P!ContentExtractClosed, P!MetaExtractClosed
<1>6. ASSUME NEW t \in transfers, Response(t) PROVE files' = files
  BY <1>6 DEF Response, D!Response
<1>7. ASSUME NEW ok \in BOOLEAN, (ListAnswered(ok) /\ T!Fresh = {}) \/ UrlsAnswered(ok)
      PROVE  files' = files
  BY <1>7 DEF ListAnswered, UrlsAnswered, P!UrlsUploaded
<1>8. ASSUME NEW ok \in BOOLEAN, ArticleAnswered(ok)
      PROVE  files' = files \ {page'} /\ stage' = "finish"
  BY <1>8 DEF ArticleAnswered, P!ArticleUploaded, P!clean, P!GoTo
<1> QED BY <1>1, <1>2, <1>3, <1>4, <1>5, <1>6, <1>7, <1>8 DEF Quiet, Children

LEMMA FilesHeldNext ==
  ASSUME Faultless, FilesHeld, [Next]_vars, ~Crash
  PROVE  FilesHeld'
<1>1. CASE Quiet
  <2>1. Fetching' = Fetching /\ Backlog' = Backlog
    BY <1>1, QuietIsStill, StillPlaces
  <2>2. stage = "finish" => stage' = "finish" /\ page' = page
    BY <1>1, QuietData DEF QuietEffect
  <2>3. files' = files \/ (files' = files \ {page'} /\ stage' = "finish")
    BY <1>1, QuietFiles
  <2> QED BY <2>1, <2>2, <2>3 DEF FilesHeld
<1>2. ASSUME NEW t \in transfers, Lands(t), files' = files, UNCHANGED notNetwork
      PROVE  FilesHeld'
  BY <1>2, LandsPlaces DEF FilesHeld, notNetwork, pipeline
<1>3. ASSUME NEW ok \in BOOLEAN, ListAnswered(ok), T!Fresh # {} PROVE FilesHeld'
  BY <1>3, ListsPlaces DEF FilesHeld, ListAnswered, pipeline
<1>4. ASSUME NEW ok \in BOOLEAN, MarkAnswered(ok) PROVE FilesHeld'
  <2>1. UNCHANGED <<files, stage, page>>
    BY <1>4 DEF MarkAnswered, pipeline
  <2> QED BY <1>4, <2>1, ArrivesPlaces DEF FilesHeld
<1>5. ASSUME NEW ok \in BOOLEAN, FinishAnswered(ok) PROVE FilesHeld'
  <2>1. files' = files
    BY <1>5 DEF FinishAnswered, process_pending, P!Idle, P!process
  <2>2. Fetching' = Fetching /\ Backlog' = Backlog \ {page} /\ page \in Backlog
    BY <1>5, SettlesPlaces
  <2>3. page \notin Fetching
    BY <2>2, FaultlessTypes DEF OnePlace
  <2> QED BY <2>1, <2>2, <2>3 DEF FilesHeld
<1> QED BY <1>1, <1>2, <1>3, <1>4, <1>5, FaultlessSteps

\* So process() finds it.
LEMMA NoneMissing ==
  ASSUME Faultless, FilesHeld, MTypeOK, CountMissing
  PROVE  Uncounted
<1>0. TypeOK /\ Pipe
  BY FaultlessTypes
<1>1. stage' # "finish"
  <2>1. CASE ProcessTimer
    <3>1. stage = "idle" /\ process_pending(queue, pending) /\ pending \in Seq(Urls)
      BY <1>0, <2>1 DEF ProcessTimer, TypeOK
    <3>2. pending # <<>> => Head(pending) \in files
      BY <3>1, HeadWaits DEF FilesHeld
    <3> QED BY <3>1, <3>2 DEF process_pending, P!Idle, P!process
  <2>2. ASSUME NEW ok \in BOOLEAN, FinishAnswered(ok) PROVE stage' # "finish"
    <3>1. /\ pending # <<>> /\ Head(pending) = page /\ page \in Backlog
          /\ Backlog' = Backlog \ {page}
      BY <2>2, SettlesPlaces
    <3>2. pending' = Tail(pending) /\ process_pending(C!Rest, pending')
      BY <2>2 DEF FinishAnswered
    <3>3. pending' \in Seq(Urls)
      BY FaultlessTypes DEF TypeOK
    <3>4. pending' # <<>> => Head(pending') \in Backlog'
      <4>1. pending' # <<>> => 1 \in DOMAIN pending' /\ Head(pending') = pending'[1]
        BY <3>3
      <4> QED BY <4>1 DEF Backlog
    <3>5. pending' # <<>> => Head(pending') \in files
      BY <3>1, <3>4 DEF FilesHeld
    <3> QED BY <3>2, <3>5 DEF process_pending, P!Idle, P!process
  <2> QED BY <2>1, <2>2 DEF CountMissing
<1> QED BY <1>0, <1>1, StepMissing DEF PageCounted

-----------------------------------------------------------------------------
(***************************************************************************)
(* What has been counted shows                                             *)
(***************************************************************************)
\* An event takes a query of a kind in O from the queue, and adds one, or not.
Passes(r, O) == Goes(r, O) /\ (queue' = r \/ \E e \in Query : queue' = Append(r, e))

OtherOps == {"handshake", "list", "upload_urls", "upload_article", "metrics"}

LEMMA QueueStep ==
  ASSUME TypeOK, Pipe, DeadIsEmpty, [Next]_vars, ~ConnectionLostUnheard, ~Crash
  PROVE  \/ queue = <<>> \/ Passes(queue, {}) \/ Passes(C!Rest, OtherOps)
         \/ \E ok \in BOOLEAN : (MarkAnswered(ok) \/ FinishAnswered(ok)) /\ Passes(C!Rest, W)
<1>1. ASSUME NEW K, Asks(queue, K) PROVE Passes(queue, {})
  BY <1>1 DEF Asks, Passes, Goes
<1>2. CASE BatchTimer \/ MetricsTimer
  BY <1>2, QueryTypes DEF BatchTimer, batch_download, MetricsTimer, C!Enqueue, Passes, Goes
<1>3. CASE ProcessTimer
  <2>1. Asks(queue, P!QueryStages)
    BY <1>3, ProcessAsks DEF ProcessTimer, TypeOK
  <2> QED BY <1>1, <2>1
<1>4. CASE Network
  BY <1>1, <1>4, NetworkAsks
<1>5. CASE Children
  BY <1>1, <1>5, ChildrenAsk
<1>6. ASSUME \/ HandshakeAnswered \/ MetricsAnswered
             \/ \E ok \in BOOLEAN : ListAnswered(ok) \/ UrlsAnswered(ok)
      PROVE  Passes(C!Rest, OtherOps)
  BY <1>6 DEF HandshakeAnswered, MetricsAnswered, ListAnswered, UrlsAnswered, Answers, Passes,
              Goes, OtherOps
<1>7. ASSUME NEW ok \in BOOLEAN, ArticleAnswered(ok) PROVE Passes(C!Rest, OtherOps)
  <2>1. Asks(C!Rest, P!QueryStages)
    BY <1>7, Working, ProcessedAsks DEF ArticleAnswered, P!ArticleUploaded, Pipe
  <2> QED BY <1>7, <2>1 DEF ArticleAnswered, Answers, Asks, Passes, Goes, OtherOps
<1>8. ASSUME NEW ok \in BOOLEAN, MarkAnswered(ok) PROVE Passes(C!Rest, W)
  <2>1. queue # <<>> /\ Head(queue).op = "mark"
    BY <1>8 DEF MarkAnswered, Answers
  <2>2. queue' = C!Rest \/ queue' = Append(C!Rest, List)
    BY <1>8 DEF MarkAnswered, batch_download
  <2> QED BY <2>1, <2>2, QueryTypes DEF Passes, Goes, W
<1>9. ASSUME NEW ok \in BOOLEAN, FinishAnswered(ok) PROVE Passes(C!Rest, W)
  <2>0. queue # <<>> /\ Head(queue).op = "finish"
    BY <1>9 DEF FinishAnswered, Answers
  <2>1. pending' \in Seq(Urls)
    BY <1>9, <2>0, Answering, Working DEF FinishAnswered, Pipe, P!QueryStages
  <2>2. Asks(C!Rest, P!QueryStages)
    BY <1>9, <2>1, ProcessAsks DEF FinishAnswered
  <2> QED BY <2>0, <2>2 DEF Asks, Passes, Goes, W
<1>10. CASE Restart
  BY <1>10 DEF Restart, DeadIsEmpty
<1>11. CASE ConnectionLost \/ UNCHANGED vars
  <2>1. queue' = queue
    BY <1>11 DEF ConnectionLost, C!ConnectionLost, vars, conn
  <2> QED BY <2>1 DEF Passes, Goes
<1>12. CASE Callback
  BY <1>6, <1>7, <1>8, <1>9, <1>12 DEF Callback
<1> QED BY <1>2, <1>3, <1>4, <1>5, <1>10, <1>11, <1>12 DEF Next

LEMMA WriteStays ==
  ASSUME TypeOK, NEW r, NEW O, Passes(r, O), NEW K, NEW i \in Places(queue, K),
         i # 1 \/ Head(queue).op \notin O
  PROVE  \E j \in Places(queue', K) : queue'[j] = queue[i]
<1>1. queue \in Seq(Query) /\ r \in Seq(Query)
  BY RestTypes DEF TypeOK, Goes, Passes
<1>2. PICK j \in Places(r, K) : r[j] = queue[i]
  <2>1. CASE r = queue
    BY <2>1
  <2>2. CASE queue # <<>> /\ r = C!Rest /\ Head(queue).op \in O
    <3>1. i # 1 /\ i \in Int
      BY <1>1, <2>2 DEF Places
    <3>2. i - 1 \in Places(C!Rest, K) /\ (i - 1) + 1 = i
      BY <1>1, <2>2, <3>1, PlacesOfRest
    <3>3. C!Rest[i - 1] = queue[(i - 1) + 1]
      BY <1>1, <2>2, <3>2, PlacesOfRest
    <3> QED BY <2>2, <3>2, <3>3
  <2> QED BY <2>1, <2>2 DEF Passes, Goes
<1>3. CASE queue' = r
  BY <1>2, <1>3
<1>4. ASSUME NEW e \in Query, queue' = Append(r, e)
      PROVE  j \in Places(queue', K) /\ queue'[j] = r[j]
  <2>1. /\ e.op \in K => Places(Append(r, e), K) = Places(r, K) \cup {Len(r) + 1}
        /\ e.op \notin K => Places(Append(r, e), K) = Places(r, K)
        /\ \A n \in Places(r, K) : Append(r, e)[n] = r[n]
    BY <1>1, <1>4, PlacesOfAppend DEF Places
  <2> QED BY <1>2, <1>4, <2>1
<1> QED BY <1>2, <1>3, <1>4 DEF Passes

\* A write in the queue stays there until it has been carried out.
LEMMA WritesDone ==
  ASSUME Faultless, [Next]_vars, ~Crash, NEW i \in Places(queue, W)
  PROVE  \/ \E j \in Places(queue', W) : queue'[j] = queue[i]
         \/ status'[queue[i].url] = queue[i].val
<1>0. TypeOK /\ Pipe /\ DeadIsEmpty /\ ~ConnectionLostUnheard /\ queue \in Seq(Query)
  BY FaultlessTypes DEF ConnectionLostUnheard, TypeOK
<1>1. queue # <<>> /\ Head(queue) = queue[1] /\ queue[i].op \in W
  BY <1>0 DEF Places
<1>2. ASSUME NEW r, NEW O, Passes(r, O), i # 1 \/ Head(queue).op \notin O
      PROVE  \E j \in Places(queue', W) : queue'[j] = queue[i]
  BY <1>0, <1>2, WriteStays
<1>3. CASE Passes(queue, {})
  BY <1>2, <1>3
<1>4. CASE Passes(C!Rest, OtherOps)
  <2>1. i # 1 \/ Head(queue).op \notin OtherOps
    BY <1>1 DEF W, OtherOps
  <2> QED BY <1>2, <1>4, <2>1
<1>5. ASSUME NEW ok \in BOOLEAN, MarkAnswered(ok) \/ FinishAnswered(ok), Passes(C!Rest, W), i = 1
      PROVE  status'[queue[i].url] = queue[i].val
  <2>1. ok
    BY <1>5, FaultlessTypes DEF MarkAnswered, FinishAnswered
  <2>2. T!UpdateStatus(Head(queue).url, Head(queue).val)
    BY <1>5, <2>1 DEF MarkAnswered, FinishAnswered
  <2>3. queue[i] \in Query /\ queue[i].url \in Urls
    BY <1>0, <1>1, QueryFields DEF W, Places
  <2> QED BY <1>0, <1>1, <1>5, <2>2, <2>3 DEF T!UpdateStatus, TypeOK, T!TypeOK
<1> QED BY <1>0, <1>1, <1>2, <1>3, <1>4, <1>5, QueueStep

\* What has been reached stays so, but for the download's status, which makes
\* way for the final one.
Lasting == {T!Status \ {0}, T!Settled, {-2}}

LEMMA ReachedStays ==
  ASSUME Faultless, [Next]_vars, ~Crash, NEW V \in Lasting
  PROVE  Reached(V) \subseteq Reached(V)'
<1>0. TypeOK /\ TypeOK'
  BY FaultlessTypes
<1>1. ASSUME NEW u \in Urls, status[u] \in V PROVE status'[u] \in V
  <2>1. status[u] # 0 => status'[u] # 0
    BY <1>0, NextMarks
  <2>2. status[u] \in T!Settled => status'[u] = status[u]
    BY FinalNext
  <2>3. status'[u] \in T!Status
    BY <1>0 DEF TypeOK, T!TypeOK
  <2>4. CASE V = T!Status \ {0}
    BY <1>1, <2>1, <2>3, <2>4
  <2>5. CASE V = T!Settled \/ V = {-2}
    BY <1>1, <2>2, <2>5 DEF T!Settled
  <2> QED BY <2>4, <2>5 DEF Lasting
<1>2. ASSUME NEW i \in Places(queue, W), queue[i].val \in V PROVE queue[i].url \in Reached(V)'
  <2>1. CASE \E j \in Places(queue', W) : queue'[j] = queue[i]
    BY <1>2, <2>1, ReachedIs
  <2>2. CASE status'[queue[i].url] = queue[i].val
    <3>1. queue[i].url \in Urls
      <4>1. queue[i] \in Query /\ queue[i].op \in W
        BY <1>0 DEF Places, TypeOK
      <4> QED BY <4>1, QueryFields DEF W
    <3> QED BY <1>2, <2>2, <3>1, ReachedIs
  <2> QED BY <2>1, <2>2, WritesDone
<1> QED BY <1>1, <1>2, ReachedIs

\* An address whose transfer calls back has not been reached.
LEMMA ReceivingAnew ==
  ASSUME Faultless, NEW u \in Receiving, u \in Urls
  PROVE  u \notin Reached(T!Status \ {0})
<1>0. TypeOK /\ Pipe /\ OnePlace /\ StatusTells
  BY FaultlessTypes
<1>1. u \in Fetching /\ status[u] = 0 /\ u \notin Marking /\ u \notin Backlog
  BY <1>0, FetchingIs DEF OnePlace, StatusTells
<1>2. ASSUME NEW i \in Places(queue, W) PROVE queue[i].url # u
  <2>1. CASE queue[i].op = "mark"
    BY <1>1, <2>1 DEF Marking, Entries, Places
  <2>2. CASE queue[i].op = "finish"
    <3>1. i \in Places(queue, P!QueryStages) /\ i \in Places(queue, {"finish", "upload_article"})
      BY <2>2 DEF Places, P!QueryStages
    <3>2. stage = "finish" /\ queue[i].url = page
      BY <1>0, <2>2, <3>1 DEF Pipe, PipeQuery, PipePage
    <3>3. page \in Backlog
      BY <3>2, WorkingBacklog
    <3> QED BY <1>1, <3>2, <3>3
  <2> QED BY <2>1, <2>2 DEF Places, W
<1> QED BY <1>1, <1>2, ReachedIs

\* A page that leaves the pipeline has no final status.
LEMMA ProcessingAnew ==
  ASSUME Faultless, stage \in {"verify_article", "upload_article"}, NEW V \in SUBSET T!Settled
  PROVE  page \notin Reached(V)
<1>0. TypeOK /\ Pipe /\ StatusTells
  BY FaultlessTypes
<1>1. page \in Urls /\ status[page] \in {-1, 1}
  BY <1>0, WorkingBacklog DEF StatusTells
<1>2. ASSUME NEW i \in Places(queue, W) PROVE queue[i].val \notin V
  <2>1. queue[i].op # "finish"
    <3>1. queue[i].op = "finish" => i \in Places(queue, P!QueryStages)
      BY DEF Places, P!QueryStages
    <3> QED BY <1>0, <3>1 DEF Pipe, PipeQuery
  <2>2. queue[i] \in Query /\ queue[i].op = "mark"
    BY <1>0, <2>1 DEF Places, W, TypeOK
  <2>3. queue[i].val \in {-1, 1}
    BY <2>2, QueryFields
  <2> QED BY <2>3 DEF T!Settled
<1>3. status[page] \notin V
  BY <1>1 DEF T!Settled
<1> QED BY <1>2, <1>3, ReachedIs

LEMMA TotalTypesNext ==
  ASSUME MTypeOK', NEW k \in M!Kinds
  PROVE  Total(k)' \in Nat
<1>1. counts' \in Counts /\ sent' \in Seq(Counts) /\ recorded' \in Counts
  BY DEF MTypeOK
<1>2. recorded'[k] \in Nat /\ counts'[k] \in Nat /\ Sum(sent', k) \in Nat
  BY <1>1, CountTypesOf, SumType
<1>3. Total(k)' = recorded'[k] + counts'[k] + Sum(sent', k)
  BY DEF Total
<1> QED BY <1>2, <1>3

NotMore ==
  /\ Total("downloads") <= Cardinality(Reached(T!Status \ {0}))
  /\ Total("processed") <= Cardinality(Reached(T!Settled))
  /\ Total("failed_processed") <= Cardinality(Reached({-2}))

LEMMA NotMoreOf ==
  ASSUME Faultless, [Next]_vars, ~Crash, MTypeOK, MTypeOK', NEW V \in Lasting, NEW k \in M!Kinds,
         Total(k) <= Cardinality(Reached(V)),
         \/ Total(k)' <= Total(k)
         \/ \E u \in Reached(V)' : u \notin Reached(V) /\ Total(k)' <= Total(k) + 1
  PROVE  Total(k)' <= Cardinality(Reached(V)')
<1>1. Reached(V) \in SUBSET Urls /\ Reached(V)' \in SUBSET Urls /\ Reached(V) \subseteq Reached(V)'
  BY ReachedStays, CountedTypes, CountedTypesNext, FaultlessTypes
<1>2. Total(k) \in Nat /\ Total(k)' \in Nat
  BY TotalTypes, TotalTypesNext
<1>3. CASE Total(k)' <= Total(k)
  BY <1>1, <1>2, <1>3, AtMost
<1>4. ASSUME NEW u \in Reached(V)', u \notin Reached(V), Total(k)' <= Total(k) + 1
      PROVE  Total(k)' <= Cardinality(Reached(V)')
  <2>1. u \in Reached(V)' \ Reached(V)
    BY <1>4
  <2> QED BY <1>1, <1>2, <1>4, <2>1, AtMost
<1> QED BY <1>3, <1>4

LEMMA LastingAre ==
  T!Status \ {0} \in Lasting /\ T!Settled \in Lasting /\ {-2} \in Lasting
BY DEF Lasting

LEMMA NotMoreNext ==
  ASSUME Faultless, FilesHeld, MTypeOK, SentQueued, [MNext]_allvars, ~Crash, NotMore
  PROVE  NotMore'
<1>0. IInv /\ IInv' /\ TypeOK /\ [Next]_vars /\ MTypeOK'
  BY FaultlessTypes, MNextIsNext, SentNext DEF Faultless
<1>1. /\ Total("downloads") <= Cardinality(Reached(T!Status \ {0}))
      /\ Total("processed") <= Cardinality(Reached(T!Settled))
      /\ Total("failed_processed") <= Cardinality(Reached({-2}))
  BY DEF NotMore
<1>2. ASSUME \/ Total("downloads")' <= Total("downloads")
             \/ \E u \in Reached(T!Status \ {0})' :
                  u \notin Reached(T!Status \ {0}) /\ Total("downloads")' <= Total("downloads") + 1,
             \/ Total("processed")' <= Total("processed")
             \/ \E u \in Reached(T!Settled)' :
                  u \notin Reached(T!Settled) /\ Total("processed")' <= Total("processed") + 1,
             \/ Total("failed_processed")' <= Total("failed_processed")
             \/ \E u \in Reached({-2})' :
                  u \notin Reached({-2}) /\ Total("failed_processed")' <= Total("failed_processed") + 1
      PROVE  NotMore'
  <2>1. Total("downloads")' <= Cardinality(Reached(T!Status \ {0})')
    BY <1>0, <1>1, <1>2, LastingAre, KindsAre, NotMoreOf
  <2>2. Total("processed")' <= Cardinality(Reached(T!Settled)')
    BY <1>0, <1>1, <1>2, LastingAre, KindsAre, NotMoreOf
  <2>3. Total("failed_processed")' <= Cardinality(Reached({-2})')
    BY <1>0, <1>1, <1>2, LastingAre, KindsAre, NotMoreOf
  <2> QED BY <2>1, <2>2, <2>3 DEF NotMore
<1>3. CASE Uncounted \/ InsertSent \/ InsertAnswered \/ Begins \/ Ends
  <2>1. \A k \in M!Kinds : Total(k)' <= Total(k)
    BY <1>0, <1>3, StepMoves DEF Moved
  <2> QED BY <1>2, <2>1, KindsAre
<1>4. ASSUME NEW err \in BOOLEAN, NEW u, DownloadCounted(err, u) PROVE NotMore'
  <2>1. /\ Total("downloads")' = Total("downloads") + 1
        /\ Total("processed")' = Total("processed")
        /\ Total("failed_processed")' = Total("failed_processed")
    BY <1>4, DownloadCounts, KindsAre DEF DownloadCounted
  <2>2. \A k \in M!Kinds : Total(k) \in Nat
    BY TotalTypes
  <2>3. u \in Reached(T!Status \ {0})'
    <3>1. PICK v \in {-1, 1} : \A V : v \in V => u \in Reached(V)'
      BY <1>0, <1>4, ReachedDownload
    <3>2. v \in T!Status \ {0}
      BY DEF T!Status
    <3> QED BY <3>1, <3>2
  <2>4. u \notin Reached(T!Status \ {0})
    BY <1>4, ReceivingAnew DEF DownloadCounted
  <2>5. Total("downloads")' <= Total("downloads") + 1
    BY <2>1, <2>2, KindsAre
  <2>6. /\ Total("processed")' <= Total("processed")
        /\ Total("failed_processed")' <= Total("failed_processed")
    BY <2>1, <2>2, KindsAre
  <2> QED BY <1>2, <2>3, <2>4, <2>5, <2>6
<1>5. ASSUME NEW err \in BOOLEAN, NEW art \in BOOLEAN, PageCounted(err, art, page),
             stage \in {"verify_article", "upload_article"}
      PROVE  NotMore'
  <2>1. /\ Total("downloads")' = Total("downloads")
        /\ Total("processed")' = Total("processed") + 1
        /\ Total("failed_processed")' = IF err THEN Total("failed_processed") + 1
                                        ELSE Total("failed_processed")
    BY <1>5, PageTotals, KindsAre DEF Counts1
  <2>2. /\ Total("downloads") \in Nat /\ Total("processed") \in Nat
        /\ Total("failed_processed") \in Nat
    BY TotalTypes, KindsAre
  <2>3. PICK v \in {-2, 2, 3} : (v = -2 <=> err) /\ \A V : v \in V => page \in Reached(V)'
    BY <1>0, <1>5, ReachedPage
  <2>4. page \notin Reached(T!Settled) /\ page \notin Reached({-2})
    BY <1>5, ProcessingAnew DEF T!Settled
  <2>5. page \in Reached(T!Settled)' /\ (err => page \in Reached({-2})')
    BY <2>3 DEF T!Settled
  <2>6. Total("downloads")' <= Total("downloads") /\ Total("processed")' <= Total("processed") + 1
    BY <2>1, <2>2
  <2>7. \/ Total("failed_processed")' <= Total("failed_processed")
        \/ err /\ Total("failed_processed")' <= Total("failed_processed") + 1
    BY <2>1, <2>2
  <2> QED BY <1>2, <2>4, <2>5, <2>6, <2>7
<1>6. ASSUME CountMissing PROVE NotMore'
  BY <1>3, <1>6, NoneMissing
<1> QED BY <1>0, <1>3, <1>4, <1>5, <1>6, StepCounts

ArticlesAgree == ~lost => Total("articles") = Cardinality(content) + Total("failed_processed")

LEMMA ArticlesAgreeNext ==
  ASSUME Faultless, FilesHeld, MTypeOK, SentQueued, [MNext]_allvars, crashes' = crashes,
         ArticlesAgree
  PROVE  ArticlesAgree'
<1>0. /\ IInv /\ IInv' /\ TypeOK /\ Pipe /\ DeadIsEmpty /\ T!TypeOK
      /\ Cardinality(content) \in Nat /\ crashes \in Nat
  BY FaultlessTypes, ContentTypes DEF Faultless, TypeOK
<1> SUFFICES ASSUME ~lost'
             PROVE  Total("articles")' = Cardinality(content') + Total("failed_processed")'
  BY DEF ArticlesAgree
<1>1. ASSUME content' = content, Moved
      PROVE  Total("articles")' = Cardinality(content') + Total("failed_processed")'
  BY <1>1, TotalMoved, KindsAre DEF ArticlesAgree
<1>2. ASSUME content' = content, Uncounted \/ InsertSent \/ InsertAnswered \/ Begins
      PROVE  Total("articles")' = Cardinality(content') + Total("failed_processed")'
  BY <1>0, <1>1, <1>2, StepMoves
<1>3. ASSUME NEW t \in transfers, CountDownload(t)
      PROVE  Total("articles")' = Cardinality(content') + Total("failed_processed")'
  <2>1. content' = content
    BY <1>3, ContentKept
  <2>2. ASSUME NEW err \in BOOLEAN, DownloadCounted(err, t.url)
        PROVE  Total("articles")' = Cardinality(content') + Total("failed_processed")'
    <3>1. /\ lost' = lost /\ Total("articles")' = Total("articles")
          /\ Total("failed_processed")' = Total("failed_processed")
      BY <2>2, DownloadCounts, KindsAre DEF DownloadCounted
    <3> QED BY <2>1, <3>1 DEF ArticlesAgree
  <2> QED BY <1>0, <1>2, <1>3, <2>1, <2>2, StepDownload
<1>4. CASE CountMissing
  BY <1>2, <1>4, ContentKept, NoneMissing
<1>5. CASE CountNoArticle
  <2>1. content' = content
    BY <1>5, ContentKept
  <2>2. ASSUME PageCounted(FALSE, FALSE, page)
        PROVE  Total("articles")' = Cardinality(content') + Total("failed_processed")'
    <3>1. /\ lost' = lost /\ Total("articles")' = Total("articles")
          /\ Total("failed_processed")' = Total("failed_processed")
      BY <2>2, PageTotals, KindsAre DEF Counts1
    <3> QED BY <2>1, <3>1 DEF ArticlesAgree
  <2> QED BY <1>0, <1>2, <1>5, <2>1, <2>2, StepPipeline
<1>6. ASSUME NEW ok \in BOOLEAN, CountArticle(ok)
      PROVE  Total("articles")' = Cardinality(content') + Total("failed_processed")'
  <2>1. /\ ok = FALSE => content' = content
        /\ ok = TRUE => Adds
    BY <1>6, ArticleAnsweredAdds
  <2>2. PageCounted(~ok, TRUE, page)
    BY <1>0, <1>6, StepPipeline
  <2>3. /\ lost' = lost /\ Total("articles") \in Nat /\ Total("failed_processed") \in Nat
        /\ Total("articles")' = Total("articles") + 1
        /\ ok = FALSE => Total("failed_processed")' = Total("failed_processed") + 1
        /\ ok = TRUE => Total("failed_processed")' = Total("failed_processed")
    BY <2>2, PageTotals, KindsAre DEF Counts1
  <2>4. Total("articles") = Cardinality(content) + Total("failed_processed")
    BY <2>3 DEF ArticlesAgree
  <2>5. CASE ok = FALSE
    BY <1>0, <2>1, <2>3, <2>4, <2>5
  <2>6. CASE ok = TRUE
    <3>1. Cardinality(content') = Cardinality(content) + 1
      BY <1>0, <2>1, <2>6, AddsOne
    <3> QED BY <1>0, <2>3, <2>4, <2>6, <3>1
  <2>7. ok = TRUE \/ ok = FALSE
    OBVIOUS
  <2> QED BY <2>5, <2>6, <2>7
<1>7. ASSUME NEW ok \in BOOLEAN, Record(ok)
      PROVE  Total("articles")' = Cardinality(content') + Total("failed_processed")'
  <2>1. InsertAnswered
    BY <1>7 DEF Record, MetricsAnswered, Answers, InsertAnswered
  <2> QED BY <1>2, <1>7, <2>1, ContentKept
<1>8. CASE Send
  <2>1. InsertSent
    BY <1>8 DEF Send, MetricsTimer, C!Enqueue, InsertSent
  <2> QED BY <1>2, <1>8, <2>1, ContentKept
<1>9. CASE Aside
  BY <1>0, <1>2, <1>9, ContentKept, StepAside
<1>10. CASE UNCHANGED allvars
  <2>1. Moved
    BY <1>10, MovedStill DEF allvars
  <2> QED BY <1>1, <1>10, <2>1, ContentKept
<1>11. CASE LoseConnection
  BY <1>11, FaultlessTypes DEF LoseConnection, ConnectionLost
<1>12. CASE Die
  <2>1. crashes' = crashes + 1
    BY <1>12 DEF Die, ConnectionLostUnheard, Crash, Dies
  <2> QED BY <1>0, <2>1
<1> QED BY <1>3, <1>4, <1>5, <1>6, <1>7, <1>8, <1>9, <1>10, <1>11, <1>12 DEF MNext

-----------------------------------------------------------------------------
(***************************************************************************)
(* The invariant is inductive                                              *)
(***************************************************************************)
LEMMA StepIInv == IInv /\ [Next]_vars => IInv'
BY TypeNext, DeadNext, ChainNext, PipeNext DEF IInv, Pipe

LEMMA CountedBeforeIs ==
  /\ CountedBefore <=> (~lost => Enough /\ ArticlesEnough)
  /\ CountedBefore' <=> (~lost' => Enough' /\ ArticlesEnough')
<1>1. CountedBefore <=> (~lost => Enough /\ ArticlesEnough)
  BY Zenon DEF CountedBefore, Enough, Downloaded, ArticlesEnough
<1>2. CountedBefore' <=> (~lost' => Enough' /\ ArticlesEnough')
  BY Zenon DEF CountedBefore, Enough, Downloaded, ArticlesEnough
<1> QED BY <1>1, <1>2

LEMMA CountedOnceIs ==
  /\ CountedOnce <=> (faults = 0 /\ crashes = 0 => NotMore /\ ArticlesAgree)
  /\ CountedOnce' <=> (faults' = 0 /\ crashes' = 0 => NotMore' /\ ArticlesAgree')
  /\ FilesThere <=> (faults = 0 /\ crashes = 0 => FilesHeld)
  /\ FilesThere' <=> (faults' = 0 /\ crashes' = 0 => FilesHeld')
<1>1. CountedOnce <=> (faults = 0 /\ crashes = 0 => NotMore /\ ArticlesAgree)
  BY Zenon DEF CountedOnce, NotMore, ArticlesAgree
<1>2. CountedOnce' <=> (faults' = 0 /\ crashes' = 0 => NotMore' /\ ArticlesAgree')
  BY Zenon DEF CountedOnce, NotMore, ArticlesAgree
<1>3. FilesThere <=> (faults = 0 /\ crashes = 0 => FilesHeld)
  BY Zenon DEF FilesThere, FilesHeld
<1>4. FilesThere' <=> (faults' = 0 /\ crashes' = 0 => FilesHeld')
  BY Zenon DEF FilesThere, FilesHeld
<1> QED BY <1>1, <1>2, <1>3, <1>4

LEMMA MetricsNext == MInv /\ [MNext]_allvars => MInv'
<1> SUFFICES ASSUME MInv, [MNext]_allvars PROVE MInv'
  OBVIOUS
<1>1. /\ IInv /\ LifeInv /\ BoundInv /\ MTypeOK /\ SentQueued
      /\ CountedBefore /\ CountedOnce /\ FilesThere
  BY DEF MInv, FullInv
<1>2. [Next]_vars /\ TypeOK
  BY <1>1, MNextIsNext DEF IInv
<1>3. IInv'
  BY <1>1, <1>2, StepIInv
<1>4. FullInv'
  BY <1>1, <1>2, <1>3, LifeNext, BoundNext DEF FullInv
<1>5. MTypeOK' /\ SentQueued'
  BY <1>1, <1>3, SentNext
<1>6. CountedBefore'
  BY <1>1, <1>3, EnoughNext, ArticlesNext, CountedBeforeIs
<1>7. CountedOnce' /\ FilesThere'
  <2> SUFFICES ASSUME faults' = 0, crashes' = 0
               PROVE  NotMore' /\ ArticlesAgree' /\ FilesHeld'
    BY CountedOnceIs
  <2>1. faults = 0 /\ crashes = 0 /\ ~Crash
    BY <1>2, HistoryGrows
  <2>2. Faultless /\ NotMore /\ ArticlesAgree /\ FilesHeld
    BY <1>1, <1>3, <2>1, CountedOnceIs DEF Faultless, LifeInv
  <2> QED BY <1>1, <1>2, <2>1, <2>2, NotMoreNext, ArticlesAgreeNext, FilesHeldNext
<1> QED BY <1>4, <1>5, <1>6, <1>7 DEF MInv

LEMMA MetricsInit == MInit => MInv
<1> SUFFICES ASSUME MInit PROVE MInv
  OBVIOUS
<1>1. /\ queue = Launch /\ transfers = {} /\ pending = <<>> /\ content = {} /\ fatal = FALSE
      /\ status = [u \in Urls |-> 0] /\ crashes = 0
      /\ counts = M!Zero /\ sent = <<>> /\ recorded = M!Zero /\ lost = FALSE
  BY DEF MInit, Init, Started, T!Init, M!Init
<1>2. FullInv
  <2>1. DeadIsEmpty
    BY Zenon DEF MInit, Init, Started, DeadIsEmpty
  <2>2. IInv
    BY <2>1, TypeInit, ChainInit, PipeInit DEF IInv, Pipe, MInit
  <2> QED BY <2>2, LifeInit, BoundInit DEF FullInv, MInit
<1>3. /\ Entries("metrics") = {} /\ Entries("mark") = {} /\ Entries("upload_article") = {}
      /\ Places(queue, W) = {}
  BY <1>1, EntriesArePlaces, LaunchHas DEF W
<1>4. MTypeOK /\ SentQueued
  <2>1. M!Zero \in Counts /\ sent \in Seq(Counts)
    BY <1>1, CountTypesOf
  <2>2. Len(sent) = 0 /\ Cardinality(Entries("metrics")) = 0
    BY <1>1, <1>3, FS_EmptySet
  <2> QED BY <1>1, <2>1, <2>2 DEF MTypeOK, SentQueued
<1>5. \A k \in M!Kinds : Total(k) = 0
  <2> SUFFICES ASSUME NEW k \in M!Kinds PROVE Total(k) = 0
    OBVIOUS
  <2>1. Sum(sent, k) = 0
    BY <1>1, SumEmpty
  <2>2. recorded[k] = 0 /\ counts[k] = 0
    BY <1>1, CountTypesOf
  <2> QED BY <2>1, <2>2 DEF Total
<1>6. ASSUME NEW V, 0 \notin V PROVE Reached(V) = {}
  BY <1>1, <1>3, <1>6, ReachedIs
<1>7. /\ Reached(T!Status \ {0}) = {} /\ Reached({-1}) = {}
      /\ Reached(T!Settled) = {} /\ Reached({-2}) = {}
  BY <1>6 DEF T!Settled
<1>8. Backlog = {} /\ Fetching = {}
  BY <1>1, <1>3 DEF Backlog, Fetching
<1>9. Cardinality({}) = 0 /\ Downloaded = {} /\ Withdrawn = 0
  BY <1>1, <1>7, <1>8, FS_EmptySet DEF Downloaded, Withdrawn
<1>10. /\ Total("downloads") = 0 /\ Total("failed_downloads") = 0 /\ Total("processed") = 0
       /\ Total("failed_processed") = 0 /\ Total("articles") = 0
  BY <1>5, KindsAre
<1>11. /\ Cardinality(Downloaded) = 0 /\ Cardinality(Reached(T!Status \ {0})) = 0
       /\ Cardinality(Reached({-1})) = 0 /\ Cardinality(Reached(T!Settled)) = 0
       /\ Cardinality(Reached({-2})) = 0 /\ Cardinality(content) = 0
  BY <1>1, <1>7, <1>9
<1>12. Enough /\ ArticlesEnough /\ NotMore /\ ArticlesAgree
  BY <1>1, <1>9, <1>10, <1>11 DEF Enough, ArticlesEnough, NotMore, ArticlesAgree
<1>13. FilesHeld
  BY <1>8 DEF FilesHeld
<1> QED BY <1>2, <1>4, <1>12, <1>13, CountedBeforeIs, CountedOnceIs DEF MInv

-----------------------------------------------------------------------------
(***************************************************************************)
(* What it says in the words of the properties                             *)
(***************************************************************************)
LEMMA HaveTypes ==
  ASSUME TypeOK, NEW V
  PROVE  /\ HaveStatus(V) = Cardinality({u \in Urls : status[u] \in V})
         /\ HaveStatus(V) \in Nat /\ Cardinality(Reached(V)) \in Nat
         /\ HaveStatus(V) <= Cardinality(Reached(V))
<1> DEFINE S == {u \in Urls : status[u] \in V}
<1>1. S \subseteq Reached(V) /\ S \in SUBSET Urls
  BY ReachedIs
<1>2. Reached(V) \in SUBSET Urls
  BY ReachedTypes
<1>3. /\ IsFiniteSet(Reached(V)) /\ Cardinality(Reached(V)) \in Nat
      /\ Cardinality(S) \in Nat
  BY <1>1, <1>2, UrlsFinite
<1>4. Cardinality(S) <= Cardinality(Reached(V))
  BY <1>1, <1>3, FS_Subset
<1> QED BY <1>3, <1>4 DEF HaveStatus

LEMMA DownloadedCounts ==
  ASSUME TypeOK
  PROVE  Cardinality(Reached(T!Status \ {0})) <= Cardinality(Downloaded) /\ Cardinality(Downloaded) \in Nat
<1>1. Reached(T!Status \ {0}) \subseteq Downloaded /\ Downloaded \in SUBSET Urls
  BY CountedTypes DEF Downloaded
<1> QED BY <1>1, UrlsFinite, FS_Subset

LEMMA MetricsEnough == MInv => NeverUndercounts
<1> SUFFICES ASSUME MInv, ~lost
             PROVE  /\ Total("downloads") >= HaveStatus(T!Status \ {0})
                    /\ Total("failed_downloads") >= HaveStatus({-1})
                    /\ Total("processed") >= HaveStatus(T!Settled)
                    /\ Total("failed_processed") >= HaveStatus({-2})
                    /\ Total("articles") + Cardinality(Entries("upload_article")) + crashes
                         >= Cardinality(content)
  BY DEF NeverUndercounts
<1>1. IInv /\ TypeOK /\ Pipe /\ MTypeOK /\ CountedBefore
  BY DEF MInv, FullInv, IInv, Pipe
<1>2. Enough /\ ArticlesEnough
  BY <1>1, CountedBeforeIs
<1>3. \A k \in M!Kinds : Total(k) \in Nat
  BY <1>1, TotalTypes
<1>4. Total("downloads") >= HaveStatus(T!Status \ {0})
  <2> DEFINE r == Cardinality(Reached(T!Status \ {0}))
             h == HaveStatus(T!Status \ {0})
  <2>1. h \in Nat /\ r \in Nat /\ h <= r
    BY <1>1, HaveTypes
  <2>2. r <= Cardinality(Downloaded) /\ Cardinality(Downloaded) \in Nat
    BY <1>1, DownloadedCounts
  <2>3. Total("downloads") >= Cardinality(Downloaded) /\ Total("downloads") \in Nat
    BY <1>2, <1>3, KindsAre DEF Enough
  <2> HIDE DEF r, h
  <2>4. Total("downloads") >= h
    BY <2>1, <2>2, <2>3
  <2> QED BY <2>4 DEF h
<1>5. /\ Total("failed_downloads") >= HaveStatus({-1})
      /\ Total("processed") >= HaveStatus(T!Settled)
      /\ Total("failed_processed") >= HaveStatus({-2})
  <2>1. \A V : /\ HaveStatus(V) \in Nat /\ Cardinality(Reached(V)) \in Nat
               /\ HaveStatus(V) <= Cardinality(Reached(V))
    BY <1>1, HaveTypes
  <2> QED BY <1>2, <1>3, <2>1, KindsAre DEF Enough
<1>6. Total("articles") + Cardinality(Entries("upload_article")) + crashes >= Cardinality(content)
  <2>1. IsFiniteSet(Entries("upload_article")) /\ Cardinality(Entries("upload_article")) \in Nat
    BY <1>1, EntryTypes
  <2>2. Withdrawn \in Nat /\ Withdrawn <= Cardinality(Entries("upload_article"))
    BY <2>1, FS_EmptySet DEF Withdrawn
  <2>3. crashes \in Nat /\ Cardinality(content) \in Nat
    BY <1>1, ContentTypes DEF TypeOK
  <2> QED BY <1>2, <1>3, <2>1, <2>2, <2>3, KindsAre DEF ArticlesEnough
<1> QED BY <1>4, <1>5, <1>6

\* The values of a function that takes none twice are as many as its arguments.
LEMMA ImageCount ==
  ASSUME NEW S, IsFiniteSet(S), NEW f, DOMAIN f = S, f = [i \in S |-> f[i]],
         \A i, j \in S : f[i] = f[j] => i = j
  PROVE  Cardinality({f[i] : i \in S}) = Cardinality(S)
<1> DEFINE R == {f[i] : i \in S}
<1>1. f \in [S -> R]
  OBVIOUS
<1>2. f \in Surjection(S, R)
  BY <1>1 DEF Surjection
<1>3. f \in Injection(S, R)
  BY <1>1 DEF Injection, IsInjective
<1> QED BY <1>2, <1>3, FS_Surjection

LEMMA MarksAre ==
  ASSUME TypeOK, OneMarkEach
  PROVE  Marks({-1, 1}) = Cardinality(Marking)
<1> DEFINE S == Entries("mark")
           f == [i \in S |-> queue[i].url]
<1>1. \A i \in S : queue[i].val \in {-1, 1}
  <2>1. \A i \in S : queue[i] \in Query /\ queue[i].op = "mark"
    BY DEF Entries, TypeOK
  <2> QED BY <2>1, QueryFields
<1>2. {i \in S : queue[i].val \in {-1, 1}} = S
  BY <1>1
<1>3. IsFiniteSet(S)
  BY EntryTypes
<1>4. \A i, j \in S : f[i] = f[j] => i = j
  BY DEF OneMarkEach
<1>5. Marking = {f[i] : i \in S}
  BY DEF Marking
<1>6. DOMAIN f = S /\ f = [i \in S |-> f[i]]
  OBVIOUS
<1> HIDE DEF f
<1>7. Cardinality({f[i] : i \in S}) = Cardinality(S)
  BY <1>3, <1>4, <1>6, ImageCount
<1>8. Marks({-1, 1}) = Cardinality({i \in S : queue[i].val \in {-1, 1}})
  BY DEF Marks
<1> QED BY <1>2, <1>5, <1>7, <1>8

\* The one page whose final status is about to be written, and it has none.
LEMMA FinishingIs ==
  ASSUME IInv, Located, NEW i \in Entries("finish")
  PROVE  /\ queue[i].url \in Urls /\ status[queue[i].url] \in {-1, 1}
         /\ \A j \in Entries("finish") : i = j
<1>1. TypeOK /\ Pipe /\ StatusTells
  BY DEF IInv, Pipe, Located
<1>2. ASSUME NEW j \in Entries("finish")
      PROVE  j \in Places(queue, P!QueryStages) /\ j \in Places(queue, {"finish", "upload_article"})
  BY <1>2 DEF Entries, Places, P!QueryStages
<1>3. stage = "finish" /\ queue[i].url = page
  <2>1. queue[i].op = "finish"
    BY DEF Entries
  <2> QED BY <1>1, <1>2, <2>1 DEF Pipe, PipeQuery, PipePage
<1>4. page \in Urls /\ pending # <<>> /\ Head(pending) = page
  BY <1>1, <1>3 DEF Pipe, PipePage
<1>5. page \in Backlog
  <2>1. Head(pending) = pending[1] /\ 1 \in DOMAIN pending
    BY <1>1, <1>4, HeadTailProperties DEF TypeOK
  <2> QED BY <1>4, <2>1 DEF Backlog
<1>6. \A j \in Entries("finish") : i = j
  BY <1>1, <1>2 DEF Pipe, PipeQuery, AtMostOne
<1> QED BY <1>1, <1>3, <1>4, <1>5, <1>6 DEF StatusTells

LEMMA FinishesAre ==
  ASSUME IInv, Located, NEW V
  PROVE  Finishes(V) = Cardinality({queue[i].url : i \in {j \in Entries("finish") : queue[j].val \in V}})
<1> DEFINE S == {j \in Entries("finish") : queue[j].val \in V}
           f == [i \in S |-> queue[i].url]
<1>1. IsFiniteSet(S)
  <2>1. IsFiniteSet(Entries("finish"))
    BY EntryTypes DEF IInv
  <2> QED BY <2>1, FS_Subset
<1>2. \A i, j \in S : f[i] = f[j] => i = j
  BY FinishingIs
<1>3. {queue[i].url : i \in S} = {f[i] : i \in S}
  OBVIOUS
<1>4. DOMAIN f = S /\ f = [i \in S |-> f[i]]
  OBVIOUS
<1> HIDE DEF f
<1>5. Cardinality({f[i] : i \in S}) = Cardinality(S)
  <2> HIDE DEF S
  <2> QED BY <1>1, <1>2, <1>4, ImageCount
<1> QED BY <1>3, <1>5 DEF Finishes

LEMMA Apart ==
  ASSUME NEW A \in SUBSET Urls, NEW B \in SUBSET Urls, A \cap B = {}
  PROVE  Cardinality(A \cup B) = Cardinality(A) + Cardinality(B)
<1>1. IsFiniteSet(A) /\ IsFiniteSet(B) /\ Cardinality(A) \in Nat /\ Cardinality(B) \in Nat
  BY UrlsFinite
<1>2. Cardinality(A \cup B) = Cardinality(A) + Cardinality(B) - Cardinality(A \cap B)
  BY <1>1, FS_Union
<1>3. Cardinality(A \cap B) = 0
  BY FS_EmptySet
<1> QED BY <1>1, <1>2, <1>3

\* Reached is what has a status and what has a query to write it.
LEMMA ReachedDownloads ==
  ASSUME IInv, Located
  PROVE  Cardinality(Reached(T!Status \ {0})) = HaveStatus(T!Status \ {0}) + Marks({-1, 1})
<1>0. TypeOK /\ OneMarkEach /\ StatusTells
  BY DEF IInv, Located, OnePlace, OneMarkEach
<1> DEFINE V == T!Status \ {0}
           A == {u \in Urls : status[u] \in V}
<1>1. \A i \in Entries("mark") : queue[i].url \in Urls /\ queue[i].val \in V
  <2>1. \A i \in Entries("mark") : queue[i] \in Query /\ queue[i].op = "mark"
    BY <1>0 DEF Entries, TypeOK
  <2>2. \A i \in Entries("mark") : queue[i].url \in Urls /\ queue[i].val \in {-1, 1}
    BY <2>1, QueryFields
  <2> QED BY <2>2 DEF T!Status
<1>2. \A i \in Entries("finish") : queue[i].url \in A
  BY FinishingIs DEF T!Status
<1>3. Marking \in SUBSET Urls /\ A \in SUBSET Urls
  BY <1>1 DEF Marking
<1>4. A \cap Marking = {}
  BY <1>0, FetchingIs DEF StatusTells
<1>5. Reached(V) = A \cup Marking
  <2>1. Reached(V) = A \cup {queue[i].url : i \in {j \in Entries("mark") \cup Entries("finish") : queue[j].val \in V}}
    BY DEF Reached
  <2> HIDE DEF V, A
  <2> QED BY <1>1, <1>2, <2>1 DEF Marking
<1>6. Cardinality(Reached(V)) = Cardinality(A) + Cardinality(Marking)
  BY <1>3, <1>4, <1>5, Apart
<1>7. HaveStatus(V) = Cardinality(A)
  BY DEF HaveStatus
<1> QED BY <1>0, <1>6, <1>7, MarksAre

LEMMA ReachedSettled ==
  ASSUME IInv, Located, NEW V \in SUBSET T!Settled
  PROVE  Cardinality(Reached(V)) = HaveStatus(V) + Finishes(V)
<1>0. TypeOK
  BY DEF IInv
<1> DEFINE A == {u \in Urls : status[u] \in V}
           B == {queue[i].url : i \in {j \in Entries("finish") : queue[j].val \in V}}
<1>1. \A i \in Entries("mark") : queue[i].val \notin V
  <2>1. \A i \in Entries("mark") : queue[i] \in Query /\ queue[i].op = "mark"
    BY <1>0 DEF Entries, TypeOK
  <2>2. \A i \in Entries("mark") : queue[i].val \in {-1, 1}
    BY <2>1, QueryFields
  <2> QED BY <2>2 DEF T!Settled
<1>2. \A i \in Entries("finish") : queue[i].url \in Urls /\ queue[i].url \notin A
  BY FinishingIs DEF T!Settled
<1>3. A \in SUBSET Urls /\ B \in SUBSET Urls /\ A \cap B = {}
  BY <1>2
<1>4. Reached(V) = A \cup B
  <2>1. Reached(V) = A \cup {queue[i].url : i \in {j \in Entries("mark") \cup Entries("finish") : queue[j].val \in V}}
    BY DEF Reached
  <2> QED BY <1>1, <2>1
<1>5. Cardinality(Reached(V)) = Cardinality(A) + Cardinality(B)
  <2> HIDE DEF A, B
  <2> QED BY <1>3, <1>4, Apart
<1>6. HaveStatus(V) = Cardinality(A) /\ Finishes(V) = Cardinality(B)
  BY FinishesAre DEF HaveStatus
<1> QED BY <1>5, <1>6

LEMMA MetricsAgree == MInv => CountsAgree
<1> SUFFICES ASSUME MInv, faults = 0, crashes = 0
             PROVE  /\ Agrees(Total("downloads"), HaveStatus(T!Status \ {0}) + Marks({-1, 1}))
                    /\ Agrees(Total("processed"), HaveStatus(T!Settled) + Finishes(T!Settled))
                    /\ Agrees(Total("failed_processed"), HaveStatus({-2}) + Finishes({-2}))
                    /\ ~lost => Total("articles") = Cardinality(content) + Total("failed_processed")
  BY DEF CountsAgree
<1>1. IInv /\ Located /\ TypeOK /\ MTypeOK /\ NotMore /\ ArticlesAgree /\ (~lost => Enough)
  BY CountedBeforeIs, CountedOnceIs DEF MInv, FullInv, LifeInv, IInv
<1>2. \A V : Cardinality(Reached(V)) \in Nat
  BY <1>1, HaveTypes
<1>3. \A k \in M!Kinds : Total(k) \in Nat
  BY <1>1, TotalTypes
<1>4. ASSUME NEW n \in Nat, NEW r \in Nat, n <= r, ~lost => n >= r PROVE Agrees(n, r)
  BY <1>4 DEF Agrees
<1>5. Agrees(Total("downloads"), Cardinality(Reached(T!Status \ {0})))
  <2> DEFINE r == Cardinality(Reached(T!Status \ {0}))
  <2>1. r \in Nat /\ Total("downloads") \in Nat /\ Total("downloads") <= r
    BY <1>1, <1>2, <1>3, KindsAre DEF NotMore
  <2>2. r <= Cardinality(Downloaded) /\ Cardinality(Downloaded) \in Nat
    BY <1>1, DownloadedCounts
  <2>3. ~lost => Total("downloads") >= Cardinality(Downloaded)
    BY <1>1 DEF Enough
  <2> HIDE DEF r
  <2>4. ~lost => Total("downloads") >= r
    BY <2>1, <2>2, <2>3
  <2>5. Agrees(Total("downloads"), r)
    BY <1>4, <2>1, <2>4
  <2> QED BY <2>5 DEF r
<1>6. Agrees(Total("processed"), Cardinality(Reached(T!Settled)))
  BY <1>1, <1>2, <1>3, <1>4, KindsAre DEF NotMore, Enough
<1>7. Agrees(Total("failed_processed"), Cardinality(Reached({-2})))
  BY <1>1, <1>2, <1>3, <1>4, KindsAre DEF NotMore, Enough
<1>8. {-2} \in SUBSET T!Settled /\ T!Settled \in SUBSET T!Settled
  BY DEF T!Settled
<1>9. /\ Cardinality(Reached(T!Status \ {0})) = HaveStatus(T!Status \ {0}) + Marks({-1, 1})
      /\ Cardinality(Reached(T!Settled)) = HaveStatus(T!Settled) + Finishes(T!Settled)
      /\ Cardinality(Reached({-2})) = HaveStatus({-2}) + Finishes({-2})
  BY <1>1, <1>8, ReachedDownloads, ReachedSettled
<1> QED BY <1>1, <1>5, <1>6, <1>7, <1>9 DEF ArticlesAgree

-----------------------------------------------------------------------------
(***************************************************************************)
(* The theorems                                                            *)
(***************************************************************************)
\* The invariant of the crawler with its metrics: what has been counted bounds
\* the addresses whose status is written or asked for, from below whatever fails
\* or dies, from above without faults and crashes.
THEOREM MetricsInvariance == MSpec => []MInv
<1>1. MInit => MInv
  BY MetricsInit
<1>2. MInv /\ [MNext]_allvars => MInv'
  BY MetricsNext
<1> QED BY <1>1, <1>2, PTL DEF MSpec

\* Without faults and crashes the metrics are the history of the tables, and a
\* refused INSERT only ever makes them too low (crawler.js lines 47-51, 73-78
\* and 89-102).
THEOREM MetricsAreTheHistory == MSpec => []CountsAgree
<1>1. MInv => CountsAgree
  BY MetricsAgree
<1> QED BY <1>1, MetricsInvariance, PTL

\* Whatever fails or dies, what shows in the tables is in the metrics unless a
\* count was lost (crawler.js lines 47-51, 73-78 and 89-102).
THEOREM NothingUncounted == MSpec => []NeverUndercounts
<1>1. MInv => NeverUndercounts
  BY MetricsEnough
<1> QED BY <1>1, MetricsInvariance, PTL

\* The metrics only watch: with them the crawler does what it does without, so
\* all that is proved of Crawler holds of CrawlerMetrics.
THEOREM MetricsOnlyWatch == MSpec => Spec
<1>1. MInit => Init
  BY DEF MInit
<1>2. [MNext]_allvars => [Next]_vars
  BY MNextIsNext
<1> QED BY <1>1, <1>2, PTL DEF MSpec, Spec
=============================================================================
