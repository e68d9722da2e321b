--------------------------- MODULE DatabaseProofs ---------------------------
(***************************************************************************)
(* A clean run of the setup script leaves a fresh database, for any        *)
(* earlier contents and any number of refused statements, lost connections *)
(* and kills.                                                              *)
(***************************************************************************)
EXTENDS Database, SequenceTheorems, TLAPS

USE DatabaseAssumption

\* A queue of one, and what is sent from the callback of its only sequence.
LEMMA One ==
  ASSUME NEW q, NEW r
  PROVE  /\ <<q>> # <<>> /\ Head(<<q>>) = q
         /\ Tail(<<q>>) = <<>> /\ Tail(<<q>>) \o <<r>> = <<r>>
         /\ <<q>> = <<r>> => q = r
<1>1. Tail(<<q>>) = <<>>
  OBVIOUS
<1>2. <<>> \o <<r>> = <<r>>
  OBVIOUS
<1> QED
  BY <1>1, <1>2

LEMMA LaunchQueue ==
  /\ Launch # <<>> /\ Head(Launch) = C!Handshake /\ Tail(Launch) = <<Drop>>
  BY DEF Launch

LEMMA LeftSeq ==
  ASSUME NEW n \in 0 .. 3
  PROVE  /\ Left(n) \in Seq(Statement) /\ Len(Left(n)) = n
         /\ \A i \in 1 .. n : Left(n)[i] = Table(Names[i + 3 - n])
<1>1. Names = <<"urls", "content", "metrics">> /\ Len(Names) = 3 /\ DOMAIN Names = 1 .. 3
  BY DEF Names
<1>2. Left(n) = [i \in 1 .. n |-> Table(Names[i + 3 - n])]
  BY <1>1 DEF Left
<1>3. ASSUME NEW i \in 1 .. n PROVE Table(Names[i + 3 - n]) \in Statement
  <2>1. i + 3 - n \in 1 .. 3
    OBVIOUS
  <2>2. Names[i + 3 - n] \in AllTables
    BY <1>1, <2>1 DEF AllTables
  <2> QED
    BY <2>2 DEF Statement
<1>4. Left(n) \in [1 .. n -> Statement] /\ n \in Nat
  <2> DEFINE e(i) == Table(Names[i + 3 - n])
  <2>1. \A i \in 1 .. n : e(i) \in Statement
    BY <1>3
  <2>2. Left(n) = [i \in 1 .. n |-> e(i)]
    BY <1>2
  <2> HIDE DEF e
  <2> QED
    BY <2>1, <2>2
<1>5. Left(n) \in Seq(Statement)
  BY <1>4, SeqDef
<1>6. Len(Left(n)) = n
  BY <1>4, <1>5
<1> QED
  BY <1>2, <1>5, <1>6

\* The CREATE TABLEs that are left, and the tables they are to make.
LEMMA LeftQueue ==
  ASSUME NEW n \in 1 .. 3
  PROVE  /\ Left(n) # <<>> /\ Head(Left(n)) = Table(Names[4 - n])
         /\ n > 1 => Tail(Left(n)) = Left(n - 1)
         /\ n = 1 => Tail(Left(n)) = <<>>
         /\ Left(n) \in Seq(Statement)
         /\ Missing(n) = {Names[4 - n]} \cup Missing(n - 1)
         /\ Names[4 - n] \in AllTables
         /\ n > 1 => Names[4 - n] \notin Missing(n - 1)
<1>1. Names = <<"urls", "content", "metrics">> /\ Len(Names) = 3 /\ DOMAIN Names = 1 .. 3
  BY DEF Names
<1>4. /\ Left(n) \in Seq(Statement) /\ Len(Left(n)) = n
      /\ \A i \in 1 .. n : Left(n)[i] = Table(Names[i + 3 - n])
  <2>1. n \in 0 .. 3
    OBVIOUS
  <2> QED
    BY <2>1, LeftSeq
<1>5. Left(n) # <<>> /\ Head(Left(n)) = Table(Names[4 - n])
  BY <1>4
<1>6. n > 1 => Tail(Left(n)) = Left(n - 1)
  <2> SUFFICES ASSUME n > 1 PROVE Tail(Left(n)) = Left(n - 1)
    OBVIOUS
  <2>1. n - 1 \in 0 .. 3
    OBVIOUS
  <2>2. /\ Left(n - 1) \in Seq(Statement) /\ Len(Left(n - 1)) = n - 1
        /\ \A i \in 1 .. n - 1 : Left(n - 1)[i] = Table(Names[i + 3 - (n - 1)])
    BY <2>1, LeftSeq
  <2>3. /\ Tail(Left(n)) \in Seq(Statement) /\ Len(Tail(Left(n))) = n - 1
        /\ \A i \in 1 .. n - 1 : Tail(Left(n))[i] = Left(n)[i + 1]
    BY <1>4
  <2>4. \A i \in 1 .. n - 1 : Left(n)[i + 1] = Left(n - 1)[i]
    <3> TAKE i \in 1 .. n - 1
    <3>1. i + 1 \in 1 .. n /\ i + 1 + 3 - n = i + 3 - (n - 1)
      OBVIOUS
    <3> QED
      BY <1>4, <2>2, <3>1
  <2>6. \A i \in 1 .. Len(Tail(Left(n))) : Tail(Left(n))[i] = Left(n - 1)[i]
    BY <2>3, <2>4
  <2> QED
    <3> DEFINE t == Tail(Left(n))
               r == Left(n - 1)
    <3>1. /\ t \in Seq(Statement) /\ r \in Seq(Statement) /\ Len(t) = Len(r)
          /\ \A i \in 1 .. Len(t) : t[i] = r[i]
      BY <2>2, <2>3, <2>6
    <3> HIDE DEF t, r
    <3>2. t = r
      BY <3>1, SeqEqual
    <3> QED
      BY <3>2 DEF t, r
<1>7. n = 1 => Tail(Left(n)) = <<>>
  <2> SUFFICES ASSUME n = 1 PROVE Tail(Left(n)) = <<>>
    OBVIOUS
  <2>1. Tail(Left(n)) \in Seq(Statement) /\ Len(Tail(Left(n))) = 0
    BY <1>4
  <2> QED
    BY <2>1, EmptySeq
<1>8. Missing(n) = {Names[4 - n]} \cup Missing(n - 1)
  <2>1. Missing(n) = {Names[i + 3 - n] : i \in 1 .. n}
    BY <1>1 DEF Missing
  <2>2. Missing(n - 1) = {Names[i + 3 - (n - 1)] : i \in 1 .. n - 1}
    BY <1>1 DEF Missing
  <2>3. \A i \in 1 .. n : \/ i = 1 /\ i + 3 - n = 4 - n
                          \/ i - 1 \in 1 .. n - 1 /\ i + 3 - n = (i - 1) + 3 - (n - 1)
    OBVIOUS
  <2>4. \A i \in 1 .. n - 1 : i + 1 \in 1 .. n /\ (i + 1) + 3 - n = i + 3 - (n - 1)
    OBVIOUS
  <2>5. ASSUME NEW x \in Missing(n) PROVE x \in {Names[4 - n]} \cup Missing(n - 1)
    <3>1. PICK i \in 1 .. n : x = Names[i + 3 - n]
      BY <2>1
    <3> QED
      BY <2>2, <2>3, <3>1
  <2>6. ASSUME NEW x \in {Names[4 - n]} \cup Missing(n - 1) PROVE x \in Missing(n)
    <3>1. CASE x = Names[4 - n]
      <4>1. 1 \in 1 .. n /\ 1 + 3 - n = 4 - n
        OBVIOUS
      <4> QED
        BY <2>1, <3>1, <4>1
    <3>2. CASE x \in Missing(n - 1)
      <4>1. PICK i \in 1 .. n - 1 : x = Names[i + 3 - (n - 1)]
        BY <2>2, <3>2
      <4> QED
        BY <2>1, <2>4, <4>1
    <3> QED
      BY <3>1, <3>2
  <2> QED
    BY <2>5, <2>6
<1>9. Names[4 - n] \in AllTables
  BY <1>1 DEF AllTables
<1>10. n > 1 => Names[4 - n] \notin Missing(n - 1)
  <2>1. \A i \in 1 .. n - 1 : Names[i + 3 - (n - 1)] # Names[4 - n]
    <3> SUFFICES ASSUME NEW i \in 1 .. n - 1 PROVE Names[i + 3 - (n - 1)] # Names[4 - n]
      OBVIOUS
    <3>1. i + 3 - (n - 1) \in 1 .. 3 /\ 4 - n \in 1 .. 3 /\ i + 3 - (n - 1) # 4 - n
      OBVIOUS
    <3> QED
      BY <1>1, <3>1
  <2> QED
    BY <1>1, <2>1 DEF Missing
<1> QED
  BY <1>4, <1>5, <1>6, <1>7, <1>8, <1>9, <1>10

\* What the callback of the USE sends.
LEMMA AllLeft == <<>> \o [i \in DOMAIN Names |-> Table(Names[i])] = Left(3)
<1>1. Names = <<"urls", "content", "metrics">> /\ Len(Names) = 3 /\ DOMAIN Names = 1 .. 3
  BY DEF Names
<1>2. Left(3) = [i \in 1 .. 3 |-> Table(Names[i + 3 - 3])]
  BY <1>1 DEF Left
<1>3. \A i \in 1 .. 3 : i + 3 - 3 = i
  OBVIOUS
<1>4. [i \in DOMAIN Names |-> Table(Names[i])] = Left(3)
  BY <1>1, <1>2, <1>3
<1>5. Left(3) \in Seq(Statement)
  BY LeftQueue
<1> QED
  BY <1>4, <1>5, ConcatEmptySeq

LEMMA NothingMissing == Missing(0) = {} /\ Missing(3) = AllTables /\ Len(Names) = 3
<1>1. Names = <<"urls", "content", "metrics">> /\ Len(Names) = 3 /\ DOMAIN Names = 1 .. 3
  BY DEF Names
<1>2. \A i \in 1 .. 3 : i + 3 - 3 = i
  OBVIOUS
<1> QED
  BY <1>1, <1>2 DEF Missing, AllTables

\* What the head of the queue says of the queue.
LEMMA WhichQueue ==
  ASSUME IInv, outcome = "running", queue # <<>>
  PROVE  /\ outstanding \in 0 .. 3
         /\ Head(queue).op = "handshake" => queue = Launch /\ outstanding = 0
         /\ Head(queue).op = "drop" => queue = <<Drop>> /\ outstanding = 0
         /\ Head(queue).op = "create" => queue = <<Create>> /\ outstanding = 0
         /\ Head(queue).op = "use" => queue = <<Use>> /\ outstanding = 0
         /\ Head(queue).op = "seed" => queue = <<InsertSeed>> /\ outstanding = 0
         /\ Head(queue).op = "quit" => queue = <<C!Quit>> /\ outstanding = 0
         /\ Head(queue).op = "table" =>
              /\ outstanding \in 1 .. 3 /\ queue = Left(outstanding)
              /\ Head(queue) = Table(Names[4 - outstanding])
<1>1. outstanding \in 0 .. 3
  BY NothingMissing DEF IInv, TypeOK
<1>2. CASE outstanding > 0
  <2>1. outstanding \in 1 .. 3 /\ queue = Left(outstanding)
    BY <1>1, <1>2 DEF IInv, Shape
  <2>2. Head(queue) = Table(Names[4 - outstanding])
    BY <2>1, LeftQueue
  <2>3. Head(queue).op = "table"
    BY <2>2 DEF Table
  <2> QED
    BY <1>1, <2>1, <2>2, <2>3
<1>3. CASE outstanding = 0
  <2>1. queue \in {Launch, <<Drop>>, <<Create>>, <<Use>>, <<InsertSeed>>, <<C!Quit>>}
    BY <1>3 DEF IInv, Shape
  <2>2. CASE queue = Launch
    <3>1. Head(queue).op = "handshake"
      BY <2>2, LaunchQueue DEF C!Handshake
    <3> QED
      BY <1>1, <1>3, <2>2, <3>1
  <2>3. CASE queue = <<Drop>>
    <3>1. Head(queue).op = "drop"
      BY <2>3, One DEF Drop
    <3> QED
      BY <1>1, <1>3, <2>3, <3>1
  <2>4. CASE queue = <<Create>>
    <3>1. Head(queue).op = "create"
      BY <2>4, One DEF Create
    <3> QED
      BY <1>1, <1>3, <2>4, <3>1
  <2>5. CASE queue = <<Use>>
    <3>1. Head(queue).op = "use"
      BY <2>5, One DEF Use
    <3> QED
      BY <1>1, <1>3, <2>5, <3>1
  <2>6. CASE queue = <<InsertSeed>>
    <3>1. Head(queue).op = "seed"
      BY <2>6, One DEF InsertSeed
    <3> QED
      BY <1>1, <1>3, <2>6, <3>1
  <2>7. CASE queue = <<C!Quit>>
    <3>1. Head(queue).op = "quit"
      BY <2>7, One DEF C!Quit
    <3> QED
      BY <1>1, <1>3, <2>7, <3>1
  <2> QED
    BY <2>1, <2>2, <2>3, <2>4, <2>5, <2>6, <2>7
<1> QED
  BY <1>1, <1>2, <1>3

-----------------------------------------------------------------------------
(***************************************************************************)
(* What the server does to the database                                    *)
(***************************************************************************)
DatabaseOK == /\ T!TypeOK /\ exists \in BOOLEAN /\ made \in SUBSET AllTables
              /\ NoDatabase

LEMMA ExecuteOK ==
  ASSUME DatabaseOK, NEW q \in Statement, Acceptable(q), Execute(q)
  PROVE  DatabaseOK'
<1>1. CASE q.op = "drop" /\ exists' = FALSE /\ made' = {}
           /\ rows' = {} /\ status' = [u \in Urls |-> 0] /\ content' = {}
  <2>1. status' \in [Urls -> T!Status]
    BY <1>1 DEF T!Status
  <2> QED
    BY <1>1, <2>1 DEF DatabaseOK, NoDatabase, NoRows, T!TypeOK
<1>2. CASE q.op = "create" /\ exists' = TRUE /\ UNCHANGED <<made, tables>>
  BY <1>2 DEF DatabaseOK, NoDatabase, tables, T!TypeOK, T!Status, T!ContentRow
<1>3. CASE q.op = "table" /\ made' = made \cup {q.name} /\ UNCHANGED <<exists, tables>>
  <2>1. q.name \in AllTables
    BY <1>3 DEF Statement, C!Handshake, C!Quit, Drop, Create, Use, InsertSeed, Table
  <2>2. T!TypeOK' /\ NoRows' = NoRows
    BY <1>3 DEF DatabaseOK, NoRows, tables, T!TypeOK, T!Status, T!ContentRow
  <2> QED
    BY <1>3, <2>1, <2>2 DEF DatabaseOK, NoDatabase, Acceptable
<1>4. CASE q.op = "seed" /\ T!InsertUrls({Seed}) /\ UNCHANGED <<exists, made>>
  BY <1>4 DEF DatabaseOK, NoDatabase, Acceptable, T!InsertUrls, T!TypeOK, T!Status,
              T!ContentRow
<1>5. CASE UNCHANGED database
  BY <1>5 DEF DatabaseOK, NoDatabase, NoRows, database, tables, T!TypeOK, T!Status,
              T!ContentRow
<1> QED
  BY <1>1, <1>2, <1>3, <1>4, <1>5 DEF Execute

\* An answer changes the database as its statement says, or not at all.
LEMMA AnswersOK ==
  ASSUME IInv, NEW op, NEW ok \in BOOLEAN, Answers(op, ok)
  PROVE  /\ outcome = "running" /\ queue # <<>> /\ Head(queue).op = op
         /\ IF ok THEN ~fatal /\ Acceptable(Head(queue)) /\ Execute(Head(queue))
                  ELSE UNCHANGED database
         /\ DatabaseOK' /\ faults' \in 0 .. MaxFaults
<1>1. DatabaseOK /\ queue \in Seq(Statement) /\ faults \in 0 .. MaxFaults
  BY DEF IInv, TypeOK, DatabaseOK
<1>2. /\ outcome = "running" /\ queue # <<>> /\ Head(queue).op = op
      /\ IF ok THEN ~fatal /\ Acceptable(Head(queue)) /\ Execute(Head(queue))
               ELSE UNCHANGED database
  BY DEF Answers
<1>3. Head(queue) \in Statement
  BY <1>1, <1>2
<1>4. DatabaseOK'
  <2>1. CASE ok
    BY <1>1, <1>2, <1>3, <2>1, ExecuteOK
  <2>2. CASE ~ok
    BY <1>1, <1>2, <2>2 DEF DatabaseOK, NoDatabase, NoRows, database, tables, T!TypeOK,
       T!Status, T!ContentRow
  <2> QED
    BY <2>1, <2>2
<1>5. faults' \in 0 .. MaxFaults
  BY <1>1 DEF Answers, Fault
<1> QED
  BY <1>2, <1>4, <1>5

\* The statement at the server may have been carried out unanswered.
LEMMA UnansweredOK ==
  ASSUME IInv, Unanswered
  PROVE  DatabaseOK'
<1>1. DatabaseOK /\ queue \in Seq(Statement)
  BY DEF IInv, TypeOK, DatabaseOK
<1>2. CASE UNCHANGED database
  BY <1>1, <1>2 DEF DatabaseOK, NoDatabase, NoRows, database, tables, T!TypeOK,
     T!Status, T!ContentRow
<1>3. CASE queue # <<>> /\ Acceptable(Head(queue)) /\ Execute(Head(queue))
  <2>1. Head(queue) \in Statement
    BY <1>1, <1>3
  <2> QED
    BY <1>1, <1>3, <2>1, ExecuteOK
<1> QED
  BY <1>2, <1>3 DEF Unanswered, C!Serving

-----------------------------------------------------------------------------
(***************************************************************************)
(* The queues of a running script are told apart by their heads            *)
(***************************************************************************)
Phase(op) == outcome = "running" /\ queue # <<>> /\ Head(queue).op = op

LEMMA Heads ==
  /\ Launch # <<>> /\ Head(Launch).op = "handshake"
  /\ <<Drop>> # <<>> /\ Head(<<Drop>>).op = "drop"
  /\ <<Create>> # <<>> /\ Head(<<Create>>).op = "create"
  /\ <<Use>> # <<>> /\ Head(<<Use>>).op = "use"
  /\ <<InsertSeed>> # <<>> /\ Head(<<InsertSeed>>).op = "seed"
  /\ <<C!Quit>> # <<>> /\ Head(<<C!Quit>>).op = "quit"
  /\ \A n \in 1 .. 3 : Left(n) # <<>> /\ Head(Left(n)).op = "table"
<1>1. Launch # <<>> /\ Head(Launch).op = "handshake"
  BY LaunchQueue DEF C!Handshake
<1>2. /\ <<Drop>> # <<>> /\ Head(<<Drop>>).op = "drop"
      /\ <<Create>> # <<>> /\ Head(<<Create>>).op = "create"
      /\ <<Use>> # <<>> /\ Head(<<Use>>).op = "use"
  BY One DEF Drop, Create, Use
<1>3. /\ <<InsertSeed>> # <<>> /\ Head(<<InsertSeed>>).op = "seed"
      /\ <<C!Quit>> # <<>> /\ Head(<<C!Quit>>).op = "quit"
  BY One DEF InsertSeed, C!Quit
<1>4. \A n \in 1 .. 3 : Left(n) # <<>> /\ Head(Left(n)).op = "table"
  BY LeftQueue DEF Table
<1> QED
  BY <1>1, <1>2, <1>3, <1>4

LEMMA Typed ==
  /\ C!Handshake \in Statement /\ Drop \in Statement /\ Create \in Statement
  /\ Use \in Statement /\ InsertSeed \in Statement /\ C!Quit \in Statement
  /\ Launch \in Seq(Statement) /\ <<Drop>> \in Seq(Statement)
  /\ <<Create>> \in Seq(Statement) /\ <<Use>> \in Seq(Statement)
  /\ <<InsertSeed>> \in Seq(Statement) /\ <<C!Quit>> \in Seq(Statement)
  /\ <<>> \in Seq(Statement)
<1>1. /\ C!Handshake \in Statement /\ Drop \in Statement /\ Create \in Statement
      /\ Use \in Statement /\ InsertSeed \in Statement /\ C!Quit \in Statement
  BY DEF Statement
<1>2. /\ <<Drop>> \in Seq(Statement)
      /\ <<Create>> \in Seq(Statement) /\ <<Use>> \in Seq(Statement)
      /\ <<InsertSeed>> \in Seq(Statement) /\ <<C!Quit>> \in Seq(Statement)
      /\ <<>> \in Seq(Statement)
  BY <1>1
<1>3. Launch \in Seq(Statement)
  BY <1>1 DEF Launch
<1> QED
  BY <1>1, <1>2, <1>3

-----------------------------------------------------------------------------
(***************************************************************************)
(* Every step keeps the invariant                                          *)
(***************************************************************************)
LEMMA InitInv == Init => IInv
<1> SUFFICES ASSUME Init PROVE IInv
  OBVIOUS
<1>1. T!TypeOK /\ NoDatabase
  <2>1. CASE exists = FALSE /\ made = {} /\ NoRows
    BY <2>1 DEF NoRows, NoDatabase, T!TypeOK, T!Status, T!ContentRow
  <2>2. CASE /\ exists = TRUE /\ rows \in SUBSET Urls /\ status \in [Urls -> {0, 2}]
             /\ content \in {{}, {[url |-> Seed, from |-> {Seed}]}}
    <3>1. status \in [Urls -> T!Status]
      BY <2>2 DEF T!Status
    <3>2. [url |-> Seed, from |-> {Seed}] \in T!ContentRow
      BY DEF T!ContentRow
    <3> QED
      BY <2>2, <3>1, <3>2 DEF NoDatabase, T!TypeOK
  <2>3. \/ exists = FALSE /\ made = {} /\ NoRows
        \/ /\ exists = TRUE /\ rows \in SUBSET Urls /\ status \in [Urls -> {0, 2}]
           /\ content \in {{}, {[url |-> Seed, from |-> {Seed}]}}
    BY DEF Init
  <2> QED
    BY <2>1, <2>2, <2>3, Zenon
<1>2. TypeOK
  <2>1. exists \in BOOLEAN /\ made \in SUBSET AllTables
    BY DEF Init
  <2>2. outstanding \in 0 .. Len(Names) /\ faults \in 0 .. MaxFaults
    BY NothingMissing DEF Init, DatabaseAssumption
  <2> QED
    BY <1>1, <2>1, <2>2, Typed DEF Init, TypeOK
<1>3. Shape /\ Progress /\ ErrorPrinted /\ CleanRunIsFresh
  BY DEF Init, Shape, Progress, ErrorPrinted, CleanRunIsFresh
<1> QED
  BY <1>1, <1>2, <1>3 DEF IInv

LEMMA StartInv == IInv /\ Start => IInv'
<1> SUFFICES ASSUME IInv, Start PROVE IInv'
  OBVIOUS
<1>1. TypeOK'
  <2>1. T!TypeOK' /\ exists' \in BOOLEAN /\ made' \in SUBSET AllTables
    BY DEF IInv, TypeOK, Start, database, tables, T!TypeOK, T!Status, T!ContentRow
  <2>2. /\ queue' \in Seq(Statement) /\ fatal' \in BOOLEAN /\ printed' \in BOOLEAN
        /\ faults' \in 0 .. MaxFaults
        /\ outcome' \in {"none", "running", "clean", "errors", "killed"}
    BY Typed DEF IInv, TypeOK, Start
  <2>3. outstanding' \in 0 .. Len(Names)
    BY NothingMissing DEF Start
  <2> QED
    BY <2>1, <2>2, <2>3 DEF TypeOK
<1>2. NoDatabase'
  BY DEF IInv, NoDatabase, NoRows, Start, database, tables
<1>3. queue' = Launch /\ outstanding' = 0 /\ outcome' = "running"
  BY DEF Start
<1>4. Shape' /\ CleanRunIsFresh'
  BY <1>3 DEF Shape, CleanRunIsFresh
<1>5. Progress' /\ ErrorPrinted'
  BY <1>3, Heads DEF Progress, ErrorPrinted
<1> QED
  BY <1>1, <1>2, <1>4, <1>5 DEF IInv

LEMMA HandshakeInv ==
  ASSUME IInv, NEW ok \in BOOLEAN, HandshakeAnswered(ok)
  PROVE  IInv'
<1>1. /\ Phase("handshake") /\ DatabaseOK' /\ faults' \in 0 .. MaxFaults
      /\ IF ok THEN ~fatal /\ Acceptable(Head(queue)) /\ Execute(Head(queue))
               ELSE UNCHANGED database
  BY AnswersOK DEF HandshakeAnswered, Phase
<1>2. queue = Launch /\ Head(queue).op = "handshake" /\ outstanding = 0
  BY <1>1, WhichQueue DEF Phase
<1>3. /\ queue' = <<Drop>> /\ fatal' \in BOOLEAN /\ outcome' = "running"
      /\ outstanding' = 0 /\ UNCHANGED printed
  BY <1>1, <1>2, LaunchQueue DEF HandshakeAnswered, C!Rest, script, Phase
<1>4. TypeOK' /\ NoDatabase'
  BY <1>1, <1>3, Typed DEF IInv, TypeOK, DatabaseOK
<1>5. Shape' /\ CleanRunIsFresh'
  BY <1>3 DEF Shape, CleanRunIsFresh
<1>6. Progress' /\ ErrorPrinted'
  BY <1>3, Heads DEF Progress, ErrorPrinted
<1> QED
  BY <1>4, <1>5, <1>6 DEF IInv

LEMMA DropInv ==
  ASSUME IInv, NEW ok \in BOOLEAN, DropAnswered(ok)
  PROVE  IInv'
<1>1. /\ Phase("drop") /\ DatabaseOK' /\ faults' \in 0 .. MaxFaults
      /\ IF ok THEN ~fatal /\ Acceptable(Head(queue)) /\ Execute(Head(queue))
               ELSE UNCHANGED database
  BY AnswersOK DEF DropAnswered, Phase
<1>2. queue = <<Drop>> /\ Head(queue).op = "drop" /\ outstanding = 0
  BY <1>1, WhichQueue DEF Phase
<1>3. /\ queue' = <<Create>> /\ outcome' = "running" /\ outstanding' = 0
      /\ fatal' = fatal /\ printed' \in BOOLEAN
  BY <1>1, <1>2, One DEF DropAnswered, Then, PrintError, C!Rest, Phase, IInv, TypeOK
<1>4. TypeOK' /\ NoDatabase'
  BY <1>1, <1>3, Typed DEF IInv, TypeOK, DatabaseOK
<1>5. Shape' /\ CleanRunIsFresh'
  BY <1>3 DEF Shape, CleanRunIsFresh
<1>6. Progress' /\ ErrorPrinted'
  BY <1>3, Heads DEF Progress, ErrorPrinted
<1> QED
  BY <1>4, <1>5, <1>6 DEF IInv

LEMMA CreateInv ==
  ASSUME IInv, NEW ok \in BOOLEAN, CreateAnswered(ok)
  PROVE  IInv'
<1>1. /\ Phase("create") /\ DatabaseOK' /\ faults' \in 0 .. MaxFaults
      /\ IF ok THEN ~fatal /\ Acceptable(Head(queue)) /\ Execute(Head(queue))
               ELSE UNCHANGED database
  BY AnswersOK DEF CreateAnswered, Phase
<1>2. queue = <<Create>> /\ Head(queue).op = "create" /\ outstanding = 0
  BY <1>1, WhichQueue DEF Phase
<1>3. /\ queue' = <<IF ok THEN Use ELSE C!Quit>> /\ outcome' = "running"
      /\ outstanding' = 0 /\ fatal' = fatal /\ printed' = (printed \/ ~ok)
  BY <1>1, <1>2, One DEF CreateAnswered, Then, PrintError, C!Rest, Phase
<1>4. queue' = IF ok THEN <<Use>> ELSE <<C!Quit>>
  BY <1>3
<1>5. TypeOK' /\ NoDatabase'
  BY <1>1, <1>3, <1>4, Typed DEF IInv, TypeOK, DatabaseOK
<1>6. Shape' /\ CleanRunIsFresh'
  BY <1>3, <1>4 DEF Shape, CleanRunIsFresh
<1>7. ok => exists' /\ made' = {} /\ NoRows'
  <2> SUFFICES ASSUME ok PROVE exists' /\ made' = {} /\ NoRows'
    OBVIOUS
  <2>1. ~exists /\ made = {} /\ NoRows
    BY <1>1, <1>2 DEF IInv, NoDatabase, Acceptable
  <2>2. exists' = TRUE /\ UNCHANGED <<made, tables>>
    BY <1>1, <1>2 DEF Execute
  <2> QED
    BY <2>1, <2>2 DEF NoRows, tables
<1>8. Progress' /\ ErrorPrinted'
  <2>1. ~printed' => ok
    BY <1>3
  <2>2. ok => queue' = <<Use>>
    BY <1>4
  <2> QED
    BY <1>3, <1>7, <2>1, <2>2, Heads DEF Progress, ErrorPrinted
<1> QED
  BY <1>5, <1>6, <1>8 DEF IInv

LEMMA UseInv ==
  ASSUME IInv, NEW ok \in BOOLEAN, UseAnswered(ok)
  PROVE  IInv'
<1>1. /\ Phase("use") /\ DatabaseOK' /\ faults' \in 0 .. MaxFaults
      /\ IF ok THEN ~fatal /\ Acceptable(Head(queue)) /\ Execute(Head(queue))
               ELSE UNCHANGED database
  BY AnswersOK DEF UseAnswered, Phase
<1>2. queue = <<Use>> /\ Head(queue).op = "use" /\ outstanding = 0
  BY <1>1, WhichQueue DEF Phase
<1>3. /\ outcome' = "running" /\ fatal' = fatal /\ printed' = (printed \/ ~ok)
  BY <1>1 DEF UseAnswered, PrintError, Phase
<1>4. CASE ok
  <2>1. queue' = Left(3) /\ outstanding' = 3
    BY <1>2, <1>4, One, AllLeft, NothingMissing DEF UseAnswered, Then, C!Rest
  <2>2. TypeOK' /\ NoDatabase'
    BY <1>1, <1>3, <2>1, LeftQueue, NothingMissing DEF IInv, TypeOK, DatabaseOK
  <2>3. Shape' /\ CleanRunIsFresh'
    BY <1>3, <2>1 DEF Shape, CleanRunIsFresh
  <2>4. ~printed => exists' /\ made' = {} /\ NoRows'
    <3> SUFFICES ASSUME ~printed PROVE exists' /\ made' = {} /\ NoRows'
      OBVIOUS
    <3>1. exists /\ made = {} /\ NoRows
      BY <1>1, <1>2, <1>4 DEF IInv, Progress, Phase
    <3>2. UNCHANGED database
      BY <1>1, <1>2, <1>4 DEF Execute
    <3> QED
      BY <3>1, <3>2 DEF NoRows, database, tables
  <2>5. Progress' /\ ErrorPrinted'
    <3>1. ~printed' => exists' /\ made' = {} /\ NoRows'
      BY <1>3, <2>4
    <3>2. queue' # <<Use>> /\ queue' # <<InsertSeed>> /\ queue' # <<C!Quit>>
      BY <2>1, Heads
    <3>3. AllTables \ Missing(outstanding') = {}
      BY <2>1, NothingMissing
    <3> QED
      BY <3>1, <3>2, <3>3 DEF Progress, ErrorPrinted
  <2> QED
    BY <2>2, <2>3, <2>5 DEF IInv
<1>5. CASE ~ok
  <2>1. queue' = <<C!Quit>> /\ outstanding' = 0 /\ printed'
    BY <1>2, <1>3, <1>5, One DEF UseAnswered, Then, C!Rest
  <2>2. TypeOK' /\ NoDatabase'
    BY <1>1, <1>3, <2>1, Typed DEF IInv, TypeOK, DatabaseOK
  <2>3. Shape' /\ CleanRunIsFresh' /\ Progress' /\ ErrorPrinted'
    BY <1>3, <2>1 DEF Shape, CleanRunIsFresh, Progress, ErrorPrinted
  <2> QED
    BY <2>2, <2>3 DEF IInv
<1> QED
  BY <1>4, <1>5

LEMMA SeedInv ==
  ASSUME IInv, NEW ok \in BOOLEAN, SeedAnswered(ok)
  PROVE  IInv'
<1>1. /\ Phase("seed") /\ DatabaseOK' /\ faults' \in 0 .. MaxFaults
      /\ IF ok THEN ~fatal /\ Acceptable(Head(queue)) /\ Execute(Head(queue))
               ELSE UNCHANGED database
  BY AnswersOK DEF SeedAnswered, Phase
<1>2. queue = <<InsertSeed>> /\ Head(queue).op = "seed" /\ outstanding = 0
  BY <1>1, WhichQueue DEF Phase
<1>3. /\ queue' = <<C!Quit>> /\ outcome' = "running" /\ outstanding' = 0
      /\ fatal' = fatal /\ printed' = (printed \/ ~ok)
  BY <1>1, <1>2, One DEF SeedAnswered, Then, PrintError, C!Rest, Phase
<1>4. TypeOK' /\ NoDatabase'
  BY <1>1, <1>3, Typed DEF IInv, TypeOK, DatabaseOK
<1>5. Shape' /\ CleanRunIsFresh'
  BY <1>3 DEF Shape, CleanRunIsFresh
<1>6. ok /\ ~printed => exists' /\ made' = AllTables /\ T!Init'
  <2> SUFFICES ASSUME ok, ~printed PROVE exists' /\ made' = AllTables /\ T!Init'
    OBVIOUS
  <2>1. exists /\ made = AllTables /\ NoRows
    BY <1>1, <1>2 DEF IInv, Progress, Phase
  <2>2. T!InsertUrls({Seed}) /\ UNCHANGED <<exists, made>>
    BY <1>1, <1>2 DEF Execute
  <2> QED
    BY <2>1, <2>2 DEF NoRows, T!InsertUrls, T!Init
<1>7. ok => ~fatal
  BY <1>1
<1>8. Progress' /\ ErrorPrinted'
  <2>1. Progress'
    <3>1. ~printed' => exists' /\ made' = AllTables /\ T!Init'
      BY <1>3, <1>6
    <3>2. queue' # <<Use>> /\ queue' # <<InsertSeed>>
      BY <1>3, Heads
    <3> QED
      BY <1>3, <3>1, <3>2 DEF Progress
  <2>2. ErrorPrinted'
    BY <1>3, <1>7 DEF ErrorPrinted
  <2> QED
    BY <2>1, <2>2
<1> QED
  BY <1>4, <1>5, <1>8 DEF IInv

LEMMA TableInv ==
  ASSUME IInv, NEW ok \in BOOLEAN, TableAnswered(ok)
  PROVE  IInv'
<1> DEFINE n == outstanding
<1>1. /\ Phase("table") /\ DatabaseOK' /\ faults' \in 0 .. MaxFaults
      /\ IF ok THEN ~fatal /\ Acceptable(Head(queue)) /\ Execute(Head(queue))
               ELSE UNCHANGED database
  BY AnswersOK DEF TableAnswered, Phase
<1>2. /\ n \in 1 .. 3 /\ queue = Left(n)
      /\ Head(queue).op = "table" /\ Head(queue).name = Names[4 - n]
  BY <1>1, WhichQueue DEF Phase, Table
<1>3. /\ outcome' = "running" /\ fatal' = fatal /\ printed' = (printed \/ ~ok)
      /\ outstanding' = n - 1
  BY <1>1 DEF TableAnswered, PrintError, Phase
<1>4. ok /\ ~printed => exists' /\ made' = AllTables \ Missing(n - 1) /\ NoRows'
  <2> SUFFICES ASSUME ok, ~printed
               PROVE  exists' /\ made' = AllTables \ Missing(n - 1) /\ NoRows'
    OBVIOUS
  <2>1. exists /\ made = AllTables \ Missing(n) /\ NoRows
    BY <1>1, <1>2 DEF IInv, Progress, Phase
  <2>2. made' = made \cup {Names[4 - n]} /\ UNCHANGED <<exists, tables>>
    BY <1>1, <1>2 DEF Execute
  <2>3. /\ Missing(n) = {Names[4 - n]} \cup Missing(n - 1) /\ Names[4 - n] \in AllTables
        /\ Names[4 - n] \notin Missing(n - 1)
    <3>1. CASE n = 1
      BY <1>2, <3>1, LeftQueue, NothingMissing
    <3>2. CASE n > 1
      BY <1>2, <3>2, LeftQueue
    <3> QED
      BY <1>2, <3>1, <3>2
  <2> QED
    BY <2>1, <2>2, <2>3 DEF NoRows, tables
<1>5. ~printed' => ok /\ ~printed
  BY <1>3
<1>6. CASE n = 1
  <2>1. queue' = <<InsertSeed>> /\ outstanding' = 0
    <3>1. Tail(queue) = <<>> /\ outstanding' = 0 /\ LastTable(outstanding')
      BY <1>2, <1>3, <1>6, LeftQueue DEF LastTable
    <3> QED
      BY <3>1, One DEF TableAnswered, Then, C!Rest
  <2>2. TypeOK' /\ NoDatabase'
    BY <1>1, <1>3, <2>1, Typed, NothingMissing DEF IInv, TypeOK, DatabaseOK
  <2>3. Shape' /\ CleanRunIsFresh'
    BY <1>3, <2>1 DEF Shape, CleanRunIsFresh
  <2>4. ~printed' => exists' /\ made' = AllTables /\ NoRows'
    BY <1>4, <1>5, <1>6, NothingMissing
  <2>5. queue' # <<Use>> /\ queue' # <<C!Quit>>
    BY <2>1, Heads
  <2>6. Progress' /\ ErrorPrinted'
    BY <1>3, <2>1, <2>4, <2>5 DEF Progress, ErrorPrinted
  <2> QED
    BY <2>2, <2>3, <2>6 DEF IInv
<1>7. CASE n > 1
  <2>0. n - 1 \in 1 .. 3
    BY <1>2, <1>7
  <2>1. queue' = Left(n - 1)
    <3>1. Tail(queue) = Left(n - 1) /\ ~LastTable(outstanding')
      BY <1>2, <1>3, <1>7, LeftQueue DEF LastTable
    <3>2. Left(n - 1) \in Seq(Statement)
      BY <2>0, LeftQueue
    <3>3. queue' = Left(n - 1) \o <<>>
      BY <3>1 DEF TableAnswered, Then, C!Rest
    <3> QED
      BY <3>2, <3>3, ConcatEmptySeq
  <2>2. TypeOK' /\ NoDatabase'
    <3>1. queue' \in Seq(Statement) /\ outstanding' \in 0 .. Len(Names)
      BY <1>3, <2>0, <2>1, LeftQueue, NothingMissing
    <3> QED
      BY <1>1, <1>3, <3>1 DEF IInv, TypeOK, DatabaseOK
  <2>3. Shape' /\ CleanRunIsFresh'
    BY <1>3, <2>0, <2>1 DEF Shape, CleanRunIsFresh
  <2>4. ~printed' => exists' /\ made' = AllTables \ Missing(outstanding') /\ NoRows'
    BY <1>3, <1>4, <1>5
  <2>5. queue' # <<Use>> /\ queue' # <<C!Quit>> /\ queue' # <<InsertSeed>>
    BY <2>0, <2>1, Heads
  <2>6. Progress' /\ ErrorPrinted'
    BY <2>4, <2>5 DEF Progress, ErrorPrinted
  <2> QED
    BY <2>2, <2>3, <2>6 DEF IInv
<1> QED
  BY <1>2, <1>6, <1>7

LEMMA QuitInv == IInv /\ QuitAnswered => IInv'
<1> SUFFICES ASSUME IInv, QuitAnswered PROVE IInv'
  OBVIOUS
<1>1. /\ Phase("quit") /\ DatabaseOK' /\ faults' \in 0 .. MaxFaults
  <2>1. Answers("quit", ~fatal) /\ (~fatal) \in BOOLEAN
    BY DEF QuitAnswered
  <2> QED
    BY <2>1, AnswersOK DEF Phase
<1>2. queue = <<C!Quit>>
  BY <1>1, WhichQueue DEF Phase
<1>3. /\ queue' = <<>> /\ outcome' = (IF printed THEN "errors" ELSE "clean")
      /\ UNCHANGED <<fatal, outstanding, printed>>
  BY <1>2, One DEF QuitAnswered, C!Rest
<1>4. TypeOK' /\ NoDatabase'
  BY <1>1, <1>3, Typed DEF IInv, TypeOK, DatabaseOK
<1>5. Shape' /\ Progress' /\ ErrorPrinted'
  BY <1>3 DEF Shape, Progress, ErrorPrinted
<1>6. CleanRunIsFresh'
  <2> SUFFICES ASSUME ~printed PROVE exists' /\ made' = AllTables /\ T!Init'
    BY <1>3 DEF CleanRunIsFresh
  <2>1. ~fatal
    BY <1>1, <1>2 DEF IInv, ErrorPrinted, Phase
  <2>2. exists /\ made = AllTables /\ T!Init
    BY <1>1, <1>2, <2>1 DEF IInv, Progress, Phase
  <2>3. Head(queue).op = "quit" /\ UNCHANGED database
    BY <1>1, <2>1 DEF QuitAnswered, Answers, Execute, Phase
  <2> QED
    BY <2>2, <2>3 DEF database, tables, T!Init
<1> QED
  BY <1>4, <1>5, <1>6 DEF IInv

\* A connection is lost, or the script killed, with a statement at the server.
LEMMA LostInv == IInv /\ ConnectionLost => IInv'
<1> SUFFICES ASSUME IInv, ConnectionLost PROVE IInv'
  OBVIOUS
<1>1. /\ outcome = "running" /\ fatal' = TRUE /\ faults' \in 0 .. MaxFaults
      /\ UNCHANGED <<queue, outstanding, printed, outcome>> /\ DatabaseOK'
  BY UnansweredOK DEF ConnectionLost, C!ConnectionLost, Fault, script, IInv, TypeOK
<1>2. queue # <<C!Quit>>
  <2> SUFFICES ASSUME queue = <<C!Quit>> PROVE C!Unheard
    BY DEF ConnectionLost
  <2>1. \A i \in DOMAIN queue : queue[i].op = "quit"
    BY DEF C!Quit
  <2> QED
    BY <2>1 DEF C!Unheard, C!HasErrorHandler
<1>3. TypeOK' /\ NoDatabase'
  BY <1>1 DEF IInv, TypeOK, DatabaseOK
<1>4. Shape' /\ Progress' /\ ErrorPrinted' /\ CleanRunIsFresh'
  BY <1>1, <1>2 DEF IInv, Shape, Progress, ErrorPrinted, CleanRunIsFresh
<1> QED
  BY <1>3, <1>4 DEF IInv

LEMMA StopsInv == IInv /\ (ConnectionLostUnheard \/ Kill) => IInv'
<1> SUFFICES ASSUME IInv, ConnectionLostUnheard \/ Kill PROVE IInv'
  OBVIOUS
<1>1. DatabaseOK'
  <2>1. CASE ConnectionLostUnheard
    <3>1. Unanswered
      BY <2>1 DEF ConnectionLostUnheard, Unanswered
    <3> QED
      BY <3>1, UnansweredOK
  <2>2. CASE Kill
    BY <2>2, UnansweredOK DEF Kill
  <2> QED
    BY <2>1, <2>2
<1>2. /\ outcome' \in {"errors", "killed"} /\ queue' = <<>> /\ fatal' = FALSE
      /\ UNCHANGED <<outstanding, printed>> /\ faults' \in 0 .. MaxFaults
  BY DEF ConnectionLostUnheard, Kill, Stops, Fault, IInv, TypeOK
<1>3. TypeOK' /\ NoDatabase'
  BY <1>1, <1>2, Typed DEF IInv, TypeOK, DatabaseOK
<1>4. Shape' /\ Progress' /\ ErrorPrinted' /\ CleanRunIsFresh'
  BY <1>2 DEF Shape, Progress, ErrorPrinted, CleanRunIsFresh
<1> QED
  BY <1>3, <1>4 DEF IInv

LEMMA NextInv == IInv /\ [Next]_vars => IInv'
<1> SUFFICES ASSUME IInv, [Next]_vars PROVE IInv'
  OBVIOUS
<1>1. CASE Start
  BY <1>1, StartInv
<1>2. CASE QuitAnswered
  BY <1>2, QuitInv
<1>3. ASSUME NEW ok \in BOOLEAN,
             \/ HandshakeAnswered(ok) \/ DropAnswered(ok) \/ CreateAnswered(ok)
             \/ UseAnswered(ok) \/ TableAnswered(ok) \/ SeedAnswered(ok)
      PROVE  IInv'
  BY <1>3, HandshakeInv, DropInv, CreateInv, UseInv, TableInv, SeedInv
<1>4. CASE ConnectionLost
  BY <1>4, LostInv
<1>5. CASE ConnectionLostUnheard \/ Kill
  BY <1>5, StopsInv
<1>6. CASE UNCHANGED vars
  BY <1>6 DEF vars, database, tables, script, IInv, TypeOK, Shape, NoDatabase, NoRows,
     Progress, ErrorPrinted, CleanRunIsFresh, T!TypeOK, T!Init, T!Status, T!ContentRow
<1> QED
  BY <1>1, <1>2, <1>3, <1>4, <1>5, <1>6 DEF Next, Callback

-----------------------------------------------------------------------------
\* Every reachable state satisfies the inductive invariant.
THEOREM Invariance == Spec => []IInv
  BY InitInv, NextInv, PTL DEF Spec

\* A run that printed no error has left the tables the crawler starts from
\* (nlib/database.js lines 55-87).
THEOREM CleanIsFresh == Spec => []CleanRunIsFresh
<1>1. IInv => CleanRunIsFresh
  BY DEF IInv
<1> QED
  BY <1>1, Invariance, PTL

\* The connection is closed once and behind everything else
\* (nlib/database.js lines 59, 64 and 79).
THEOREM QuitComesLast == Spec => []QuitIsLast
<1>1. ASSUME IInv PROVE QuitIsLast
  <2>1. CASE outcome # "running"
    BY <1>1, <2>1 DEF IInv, Shape, QuitIsLast
  <2>2. CASE outcome = "running" /\ outstanding > 0
    <3>1. outstanding \in 1 .. 3 /\ queue = Left(outstanding)
      BY <1>1, <2>2, NothingMissing DEF IInv, Shape, TypeOK
    <3>2. outstanding \in 0 .. 3
      BY <3>1
    <3>3. \A i \in 1 .. Len(queue) : queue[i] = Table(Names[i + 3 - outstanding])
      BY <3>1, <3>2, LeftSeq
    <3>4. DOMAIN queue = 1 .. Len(queue)
      BY <1>1 DEF IInv, TypeOK
    <3>5. \A i \in DOMAIN queue : queue[i].op = "table"
      BY <3>3, <3>4 DEF Table
    <3> QED
      BY <3>5 DEF QuitIsLast
  <2>3. CASE outcome = "running" /\ queue = Launch
    <3>1. \A i \in DOMAIN Launch : Launch[i] \in {C!Handshake, Drop}
      BY DEF Launch
    <3>2. \A i \in DOMAIN queue : queue[i].op # "quit"
      BY <2>3, <3>1 DEF C!Handshake, Drop
    <3> QED
      BY <3>2 DEF QuitIsLast
  <2>4. CASE outcome = "running" /\ \E q \in Statement : queue = <<q>>
    BY <2>4 DEF QuitIsLast
  <2> QED
    BY <1>1, <2>1, <2>2, <2>3, <2>4, Typed, NothingMissing DEF IInv, Shape, TypeOK
<1> QED
  BY <1>1, Invariance, PTL
=============================================================================
