--------------------------- MODULE ProtocolProofs ---------------------------
(***************************************************************************)
(* For any number of queries the driver calls back in order, and is a      *)
(* Connection.                                                             *)
(***************************************************************************)
EXTENDS Protocol, SequenceTheorems, FiniteSetTheorems, TLAPS

\* The parts of the invariant that say what was called.
Prefix == \A i \in 1 .. Len(called) : called[i] = asked[i]
LastRuns == \A s \in running : called # <<>> /\ s = called[Len(called)]

LEMMA Parts ==
  IInv <=> TypeOK /\ Placed /\ Alive /\ Dead /\ Died /\ Prefix /\ LastRuns
  BY DEF IInv, Prefix, LastRuns

LEMMA Ticks ==
  /\ Flush \in Tick
  /\ \A s \in Sequence : Refuse(s) \in Tick
  /\ \A s : Refuse(s) # Flush /\ Refuse(s).sequence = s /\ Refuse(s).what = "refuse"
  /\ Flush.what = "flush"
  BY DEF Tick, Flush, Refuse

\* The numbers in the invariant.
LEMMA Numbers ==
  ASSUME IInv
  PROVE  /\ Len(queue) \in Nat /\ Len(asked) \in Nat /\ Len(called) \in Nat /\ Len(ticks) \in Nat
         /\ FlushesDue \in 0 .. 1 /\ FlushesDue <= Len(ticks) /\ RefusedCount \in Nat
         /\ Len(ticks) = FlushesDue + RefusedCount
         /\ Ahead \in Nat /\ Len(asked) = Ahead + Len(queue) + RefusedCount
         /\ Done \in 0 .. Len(queue) /\ Len(called) = Ahead + Done
         /\ Len(called) <= Len(asked)
<1>1. /\ Len(queue) \in Nat /\ Len(asked) \in Nat /\ Len(called) \in Nat /\ Len(ticks) \in Nat
  BY DEF IInv, TypeOK
<1>2. FlushesDue \in 0 .. 1 /\ FlushesDue <= Len(ticks)
  <2>1. ticks # <<>> => Len(ticks) > 0
    BY DEF IInv, TypeOK
  <2> QED
    BY <1>1, <2>1 DEF FlushesDue
<1>3. RefusedCount \in Nat /\ Len(ticks) = FlushesDue + RefusedCount
  BY <1>1, <1>2 DEF RefusedCount
<1>4. Ahead \in Nat /\ Len(asked) = Ahead + Len(queue) + RefusedCount
  BY <1>1, <1>3 DEF IInv, Placed, Ahead
<1>5. Done \in 0 .. Len(queue)
  <2>1. CASE ~fatalError
    <3>1. Done = (IF running = None THEN 0 ELSE 1) /\ Done <= Len(queue)
      BY <2>1 DEF IInv, Alive
    <3> QED
      BY <1>1, <3>1
  <2>2. CASE fatalError /\ ~died
    BY <2>2 DEF IInv, Dead
  <2>3. CASE died
    BY <2>3 DEF IInv, Died
  <2> QED
    BY <2>1, <2>2, <2>3
<1>6. Len(called) = Ahead + Done
  BY <1>1, <1>4 DEF Done
<1> QED
  BY <1>1, <1>2, <1>3, <1>4, <1>5, <1>6

\* The sequences that have been ended are the first that were asked.
LEMMA EndedAreFirst ==
  ASSUME IInv
  PROVE  /\ Ended = {asked[i] : i \in 1 .. Len(called)}
         /\ \A i \in 1 .. Len(asked) : asked[i] \in Ended <=> i <= Len(called)
         /\ \A i \in 1 .. Len(queue) : queue[i] \in Ended <=> i <= Done
         /\ \A i \in 1 .. Len(asked) : asked[i] \in Sequence
<1>1. Ended = {called[i] : i \in 1 .. Len(called)}
  <2>1. DOMAIN called = 1 .. Len(called)
    BY DEF IInv, TypeOK
  <2> QED
    BY <2>1 DEF Ended
<1>2. Ended = {asked[i] : i \in 1 .. Len(called)}
  BY <1>1 DEF IInv
<1>3. ASSUME NEW i \in 1 .. Len(asked)
      PROVE  asked[i] \in Ended <=> i <= Len(called)
  <2>1. \A j \in 1 .. Len(called) : j \in 1 .. Len(asked)
    BY Numbers
  <2>2. \A j \in 1 .. Len(called) : asked[i] = asked[j] => i = j
    BY <2>1 DEF IInv, Placed
  <2> QED
    BY <1>2, <2>2, Numbers
<1>4. ASSUME NEW i \in 1 .. Len(queue)
      PROVE  queue[i] \in Ended <=> i <= Done
  <2>1. Ahead + i \in 1 .. Len(asked) /\ queue[i] = asked[Ahead + i]
    BY Numbers, SMTT(40) DEF IInv, Placed
  <2>2. Ahead + i <= Len(called) <=> i <= Done
    BY Numbers
  <2> QED
    BY <1>3, <2>1, <2>2
<1>5. \A i \in 1 .. Len(asked) : asked[i] \in Sequence
  BY DEF IInv, TypeOK
<1> QED
  BY <1>2, <1>3, <1>4, <1>5

\* Where those that wait are among those that were asked.
LEMMA Places ==
  ASSUME IInv
  PROVE  /\ \A i \in 1 .. Len(queue) :
              Ahead + i \in 1 .. Len(asked) /\ queue[i] = asked[Ahead + i]
         /\ \A j \in 1 .. RefusedCount :
              /\ FlushesDue + j \in 1 .. Len(ticks)
              /\ Ahead + Len(queue) + j \in 1 .. Len(asked)
              /\ ticks[FlushesDue + j] = Refuse(asked[Ahead + Len(queue) + j])
<1>1. ASSUME NEW i \in 1 .. Len(queue)
      PROVE  Ahead + i \in 1 .. Len(asked) /\ queue[i] = asked[Ahead + i]
  BY Numbers, SMTT(40) DEF IInv, Placed
<1>2. ASSUME NEW j \in 1 .. RefusedCount
      PROVE  /\ FlushesDue + j \in 1 .. Len(ticks)
             /\ Ahead + Len(queue) + j \in 1 .. Len(asked)
             /\ ticks[FlushesDue + j] = Refuse(asked[Ahead + Len(queue) + j])
  <2>1. /\ FlushesDue + j \in 1 .. Len(ticks)
        /\ Ahead + Len(queue) + j \in 1 .. Len(asked)
    BY Numbers, SMTT(40)
  <2> QED
    BY <2>1 DEF IInv, Placed
<1> QED
  BY <1>1, <1>2

\* A sequence is sent once.
LEMMA StillOnce ==
  ASSUME NEW S, NEW q \in Seq(S), NEW s \in S, \A i \in 1 .. Len(q) : q[i] # s,
         \A i, j \in 1 .. Len(q) : q[i] = q[j] => i = j
  PROVE  \A i, j \in 1 .. Len(Append(q, s)) : Append(q, s)[i] = Append(q, s)[j] => i = j
<1> DEFINE r == Append(q, s)
<1>1. /\ Len(r) = Len(q) + 1 /\ Len(q) \in Nat /\ r[Len(q) + 1] = s
      /\ \A i \in 1 .. Len(q) : r[i] = q[i]
  OBVIOUS
<1> SUFFICES ASSUME NEW i \in 1 .. Len(r), NEW j \in 1 .. Len(r), r[i] = r[j] PROVE i = j
  OBVIOUS
<1> HIDE DEF r
<1>2. CASE i \in 1 .. Len(q) /\ j \in 1 .. Len(q)
  BY <1>1, <1>2
<1>3. CASE i \in 1 .. Len(q) /\ j = Len(q) + 1
  BY <1>1, <1>3
<1>4. CASE i = Len(q) + 1 /\ j \in 1 .. Len(q)
  BY <1>1, <1>4
<1>5. CASE i = Len(q) + 1 /\ j = Len(q) + 1
  BY <1>5
<1> QED
  BY <1>1, <1>2, <1>3, <1>4, <1>5

-----------------------------------------------------------------------------
(***************************************************************************)
(* What the actions have in common                                         *)
(***************************************************************************)
\* The next of those asked is ended.
LEMMA EndNext ==
  ASSUME IInv, NEW s, Len(called) < Len(asked), s = asked[Len(called) + 1], End(s),
         UNCHANGED asked
  PROVE  /\ s \in Sequence /\ called' \in Seq(Sequence) /\ Len(called') = Len(called) + 1
         /\ running' = {s} /\ running' # None
         /\ Prefix' /\ LastRuns' /\ Ended' = Ended \cup {s}
<1>1. s \in Sequence
  <2>1. Len(called) + 1 \in 1 .. Len(asked)
    BY Numbers
  <2> QED
    BY <2>1, EndedAreFirst
<1>2. called' = Append(called, s) /\ running' = {s} /\ called \in Seq(Sequence)
  BY DEF End, IInv, TypeOK
<1>3. called' \in Seq(Sequence) /\ Len(called') = Len(called) + 1
  BY <1>1, <1>2
<1>4. \A i \in 1 .. Len(called') : called'[i] = asked'[i]
  BY <1>1, <1>2, <1>3, Numbers, SMTT(40) DEF IInv
<1>5. LastRuns'
  BY <1>1, <1>2, <1>3 DEF LastRuns
<1>6. Ended' = Ended \cup {s}
  <2>1. DOMAIN called = 1 .. Len(called) /\ DOMAIN called' = 1 .. Len(called) + 1
    BY <1>2, <1>3
  <2>2. /\ \A i \in 1 .. Len(called) : called'[i] = called[i]
        /\ called'[Len(called) + 1] = s
    BY <1>1, <1>2
  <2>3. Len(called) \in Nat
    BY <1>2
  <2> QED
    BY <2>1, <2>2, <2>3 DEF Ended
<1> QED
  BY <1>1, <1>2, <1>3, <1>4, <1>5, <1>6 DEF None, Prefix

\* Nothing was sent and nothing left the queue or the ticks.
LEMMA SamePlaces ==
  ASSUME IInv, UNCHANGED <<queue, ticks, asked>>
  PROVE  /\ Placed' /\ Ahead' = Ahead /\ FlushesDue' = FlushesDue
         /\ RefusedCount' = RefusedCount
  BY DEF IInv, Placed, Ahead, FlushesDue, RefusedCount

\* The head of a queue none of which has been ended is the next.
LEMMA HeadIsNext ==
  ASSUME IInv, Done = 0, queue # <<>>
  PROVE  /\ Len(queue) > 0 /\ Head(queue) = queue[1]
         /\ Len(called) < Len(asked) /\ Head(queue) = asked[Len(called) + 1]
<1>1. Len(queue) > 0 /\ Head(queue) = queue[1]
  BY DEF IInv, TypeOK
<1>2. queue[1] = asked[Ahead + 1]
  BY <1>1, Numbers DEF IInv, Placed
<1> QED
  BY <1>1, <1>2, Numbers

-----------------------------------------------------------------------------
(***************************************************************************)
(* Every step keeps the invariant                                          *)
(***************************************************************************)
LEMMA InitInv == Init => IInv
<1> SUFFICES ASSUME Init PROVE IInv
  OBVIOUS
<1>1. TypeOK
  <2>1. "handshake" \in Sequence
    BY DEF Sequence
  <2>2. <<"handshake">> \in Seq(Sequence) /\ <<>> \in Seq(Sequence) /\ <<>> \in Seq(Tick)
    BY <2>1
  <2>3. 0 \in 0 .. Len(queue) + 1
    BY DEF Init
  <2> QED
    BY <2>1, <2>2, <2>3 DEF Init, TypeOK, None
<1>2. /\ Len(queue) = 1 /\ Len(asked) = 1 /\ Len(called) = 0 /\ Len(ticks) = 0
      /\ queue[1] = "handshake" /\ asked[1] = "handshake"
  BY DEF Init
<1>3. FlushesDue = 0 /\ RefusedCount = 0 /\ Ahead = 0 /\ Done = 0
  BY <1>2 DEF Init, FlushesDue, RefusedCount, Ahead, Done
<1>4. Placed
  BY <1>2, <1>3 DEF Placed
<1>5. Prefix /\ LastRuns
  BY <1>2 DEF Prefix, LastRuns, Init, None
<1>6. Ended = {}
  BY DEF Init, Ended
<1>7. {queue[i] : i \in DOMAIN queue \cap {1}} = {"handshake"}
  BY DEF Init
<1>8. Alive /\ Dead /\ Died
  BY <1>2, <1>3, <1>6, <1>7 DEF Init, Alive, Dead, Died
<1> QED
  BY <1>1, <1>4, <1>5, <1>8, Parts

LEMMA AskEnqueues ==
  ASSUME IInv, NEW s \in Sequence, Ask(s), ~fatalError
  PROVE  IInv'
<1>1. /\ queue' = Append(queue, s) /\ asked' = Append(asked, s)
      /\ started' = (IF Len(queue') = 1 THEN started \cup {s} ELSE started)
      /\ UNCHANGED <<ticks, fatalError, protocolEnded, flush, running, died, called>>
      /\ s \notin Asked
  BY DEF Ask, _enqueue
<1>2. /\ queue \in Seq(Sequence) /\ asked \in Seq(Sequence)
      /\ queue' \in Seq(Sequence) /\ asked' \in Seq(Sequence)
      /\ Len(queue') = Len(queue) + 1 /\ Len(asked') = Len(asked) + 1
      /\ \A i \in 1 .. Len(queue) : queue'[i] = queue[i]
      /\ \A i \in 1 .. Len(asked) : asked'[i] = asked[i]
      /\ queue'[Len(queue) + 1] = s /\ asked'[Len(asked) + 1] = s
  BY <1>1 DEF IInv, TypeOK
<1>3. ticks = <<>> /\ flush = 0 /\ ~died
  BY DEF IInv, Alive
<1>4. FlushesDue = 0 /\ FlushesDue' = 0 /\ RefusedCount = 0 /\ RefusedCount' = 0
  BY <1>1, <1>3 DEF FlushesDue, RefusedCount
<1>5. Ahead' = Ahead /\ Done' = Done
  BY <1>1, <1>2, <1>4, Numbers DEF Ahead, Done
<1>lens. Len(asked) = Ahead + Len(queue) /\ Len(queue) \in Nat /\ Ahead \in Nat
  BY <1>4, Numbers
<1>6. TypeOK'
  <2>1. started' \in SUBSET Sequence
    BY <1>1 DEF IInv, TypeOK
  <2>2. flush' \in 0 .. Len(queue') + 1
    BY <1>1, <1>2, <1>3, Numbers
  <2> QED
    BY <1>1, <1>2, <2>1, <2>2 DEF IInv, TypeOK
<1>7. Placed'
  <2>1. Ahead' \in Nat
    BY <1>5, Numbers
  <2>2. \A i \in 1 .. Len(queue') : queue'[i] = asked'[Ahead' + i]
    <3> SUFFICES ASSUME NEW i \in 1 .. Len(queue') PROVE queue'[i] = asked'[Ahead' + i]
      OBVIOUS
    <3>1. CASE i \in 1 .. Len(queue)
      <4>1. Ahead + i \in 1 .. Len(asked) /\ queue[i] = asked[Ahead + i]
        BY <3>1, Places
      <4> QED
        BY <1>2, <1>5, <3>1, <4>1
    <3>2. CASE i = Len(queue) + 1
      <4>1. Ahead + i = Len(asked) + 1
        BY <1>lens, <3>2
      <4> QED
        BY <1>2, <1>5, <3>2, <4>1
    <3> QED
      BY <1>2, <3>1, <3>2, Numbers, SMTT(40)
  <2>3. \A i, j \in 1 .. Len(asked') : asked'[i] = asked'[j] => i = j
    <3>1. \A i \in 1 .. Len(asked) : asked[i] # s
      BY <1>1, <1>2 DEF Asked
    <3>2. \A i, j \in 1 .. Len(asked) : asked[i] = asked[j] => i = j
      BY DEF IInv, Placed
    <3> QED
      BY <1>1, <1>2, <3>1, <3>2, StillOnce
  <2> QED
    BY <1>4, <2>1, <2>2, <2>3 DEF Placed
<1>8. Prefix' /\ LastRuns'
  <2>1. \A i \in 1 .. Len(called) : i \in 1 .. Len(asked)
    BY Numbers
  <2> QED
    BY <1>1, <1>2, <2>1 DEF IInv, Prefix, LastRuns
<1>9. Alive'
  <2>1. Ended' = Ended
    BY <1>1 DEF Ended
  <2>2. started' = Ended' \cup {queue'[i] : i \in DOMAIN queue' \cap {1}}
    <3>0. DOMAIN queue = 1 .. Len(queue) /\ DOMAIN queue' = 1 .. Len(queue) + 1
      BY <1>2
    <3>1. started = Ended \cup {queue[i] : i \in DOMAIN queue \cap {1}}
      BY DEF IInv, Alive
    <3>2. CASE Len(queue) = 0
      BY <1>1, <1>2, <2>1, <3>0, <3>1, <3>2
    <3>3. CASE Len(queue) > 0
      BY SMTT(20), <1>1, <1>2, <2>1, <3>0, <3>1, <3>3, Numbers
    <3> QED
      BY <3>2, <3>3, Numbers
  <2> QED
    BY <1>1, <1>2, <1>3, <1>5, <2>2, Numbers DEF IInv, Alive
<1>10. Dead' /\ Died'
  <2>1. ~fatalError' /\ ~died'
    BY <1>1, <1>3
  <2> QED
    BY <2>1 DEF Dead, Died
<1> QED
  BY <1>6, <1>7, <1>8, <1>9, <1>10 DEF IInv, Prefix, LastRuns

LEMMA AskRefuses ==
  ASSUME IInv, NEW s \in Sequence, Ask(s), fatalError
  PROVE  IInv'
<1>1. /\ ticks' = Append(ticks, Refuse(s)) /\ asked' = Append(asked, s)
      /\ UNCHANGED <<queue, started, fatalError, protocolEnded, flush, running, died, called>>
      /\ s \notin Asked /\ ~died
  BY DEF Ask, _refuse, MayCall, Idle
<1>2. /\ ticks \in Seq(Tick) /\ asked \in Seq(Sequence)
      /\ ticks' \in Seq(Tick) /\ asked' \in Seq(Sequence)
      /\ Len(ticks') = Len(ticks) + 1 /\ Len(asked') = Len(asked) + 1
      /\ \A i \in 1 .. Len(ticks) : ticks'[i] = ticks[i]
      /\ \A i \in 1 .. Len(asked) : asked'[i] = asked[i]
      /\ ticks'[Len(ticks) + 1] = Refuse(s) /\ asked'[Len(asked) + 1] = s
  BY <1>1, Ticks DEF IInv, TypeOK
<1>3. FlushesDue' = FlushesDue
  <2>1. ticks' # <<>> /\ (ticks # <<>> <=> Len(ticks) > 0)
    BY <1>2
  <2> QED
    BY <1>2, <2>1, Ticks, Numbers, SMTT(40) DEF FlushesDue
<1>lens. /\ Len(ticks') = Len(ticks) + 1 /\ Len(asked') = Len(asked) + 1
       /\ Len(queue') = Len(queue) /\ Len(called') = Len(called)
       /\ Len(ticks) \in Nat /\ Len(asked) \in Nat /\ Len(queue) \in Nat
       /\ Len(called) \in Nat /\ FlushesDue \in 0 .. 1 /\ RefusedCount \in Nat
       /\ Ahead \in Nat
  BY <1>1, <1>2, Numbers
<1>4. RefusedCount' = RefusedCount + 1
  BY <1>3, <1>lens DEF RefusedCount
<1>5. Ahead' = Ahead /\ Done' = Done
  BY <1>4, <1>lens DEF Ahead, Done
<1>6. TypeOK'
  BY <1>1, <1>2 DEF IInv, TypeOK
<1>7. Placed'
  <2>1. \A i \in 1 .. Len(queue') : queue'[i] = asked'[Ahead' + i]
    <3> SUFFICES ASSUME NEW i \in 1 .. Len(queue) PROVE queue[i] = asked'[Ahead + i]
      BY <1>1, <1>5
    <3>1. Ahead + i \in 1 .. Len(asked) /\ queue[i] = asked[Ahead + i]
      BY Places
    <3> QED
      BY <1>2, <3>1
  <2>2. \A j \in 1 .. RefusedCount' :
          ticks'[FlushesDue' + j] = Refuse(asked'[Ahead' + Len(queue') + j])
    <3> SUFFICES ASSUME NEW j \in 1 .. RefusedCount + 1
                 PROVE  ticks'[FlushesDue + j] = Refuse(asked'[Ahead + Len(queue) + j])
      BY <1>1, <1>3, <1>4, <1>5
    <3>1. CASE j \in 1 .. RefusedCount
      <4>1. /\ FlushesDue + j \in 1 .. Len(ticks) /\ Ahead + Len(queue) + j \in 1 .. Len(asked)
            /\ ticks[FlushesDue + j] = Refuse(asked[Ahead + Len(queue) + j])
        BY <3>1, Places
      <4> QED
        BY <1>2, <4>1
    <3>2. CASE j = RefusedCount + 1
      <4>1. FlushesDue + j = Len(ticks) + 1 /\ Ahead + Len(queue) + j = Len(asked) + 1
        BY <3>2, Numbers, SMTT(40)
      <4> QED
        BY <1>2, <4>1
    <3> QED
      BY <3>1, <3>2, Numbers, SMTT(40)
  <2>3. \A i, j \in 1 .. Len(asked') : asked'[i] = asked'[j] => i = j
    <3>1. \A i \in 1 .. Len(asked) : asked[i] # s
      BY <1>1, <1>2 DEF Asked
    <3>2. \A i, j \in 1 .. Len(asked) : asked[i] = asked[j] => i = j
      BY DEF IInv, Placed
    <3> QED
      BY <1>1, <1>2, <3>1, <3>2, StillOnce
  <2>4. Ahead' \in Nat
    BY <1>5, Numbers
  <2> QED
    BY <2>1, <2>2, <2>3, <2>4 DEF Placed
<1>8. Prefix' /\ LastRuns'
  <2>1. \A i \in 1 .. Len(called) : i \in 1 .. Len(asked)
    BY Numbers
  <2> QED
    BY <1>1, <1>2, <2>1 DEF IInv, Prefix, LastRuns
<1>9. Alive' /\ Died'
  BY <1>1 DEF Alive, Died
<1>10. Dead'
  <2>1. Dead /\ fatalError /\ ~died
    BY <1>1 DEF IInv
  <2> QED
    BY <1>1, <1>3, <1>5, <2>1 DEF Dead
<1> QED
  BY <1>6, <1>7, <1>8, <1>9, <1>10 DEF IInv, Prefix, LastRuns

\* The callback of the head returns while the connection lives.
LEMMA ReturnDequeues ==
  ASSUME IInv, Return, ~fatalError
  PROVE  IInv'
<1>1. PICK s \in running :
        /\ IF s \in Queued THEN _dequeue ELSE UNCHANGED <<queue, started>>
        /\ protocolEnded' = (protocolEnded \/ s = "quit")
  BY DEF Return
<1>2. /\ running' = None /\ UNCHANGED <<fatalError, ticks, flush, died, asked, called>>
  BY DEF Return
<1>3. /\ ticks = <<>> /\ flush = 0 /\ ~died /\ Done = 1 /\ Len(queue) >= 1
      /\ started = Ended \cup {queue[i] : i \in DOMAIN queue \cap {1}}
  BY <1>1, Numbers DEF IInv, Alive, None
<1>4. s = queue[1] /\ DOMAIN queue = 1 .. Len(queue) /\ queue \in Seq(Sequence)
  <2>1. s = called[Len(called)] /\ Len(called) >= 1 /\ Len(called) = Ahead + 1
    BY <1>1, <1>3, Numbers DEF IInv, TypeOK
  <2>2. called[Len(called)] = asked[Len(called)]
    BY <2>1, Numbers DEF IInv
  <2>3. queue[1] = asked[Ahead + 1]
    BY <1>3, Places, Numbers
  <2> QED
    BY <2>1, <2>2, <2>3 DEF IInv, TypeOK
<1>5. s \in Queued
  BY <1>3, <1>4, Numbers DEF Queued
<1>6. queue' = Tail(queue) /\ started' = started \cup {queue'[i] : i \in DOMAIN queue' \cap {1}}
  BY <1>1, <1>5 DEF _dequeue
<1>7. /\ queue' \in Seq(Sequence) /\ Len(queue') = Len(queue) - 1
      /\ \A i \in 1 .. Len(queue') : queue'[i] = queue[i + 1]
  BY <1>3, <1>4, <1>6
<1>8. FlushesDue = 0 /\ RefusedCount = 0 /\ FlushesDue' = 0 /\ RefusedCount' = 0
  BY <1>2, <1>3 DEF FlushesDue, RefusedCount
<1>9. Ahead' = Ahead + 1 /\ Done' = 0
  BY <1>2, <1>3, <1>7, <1>8, Numbers DEF Ahead, Done
<1>10. TypeOK'
  <2>1. started' \in SUBSET Sequence
    BY <1>6, <1>7 DEF IInv, TypeOK
  <2>2. flush' \in 0 .. Len(queue') + 1
    BY <1>2, <1>3, <1>7, Numbers
  <2>3. protocolEnded' \in BOOLEAN
    BY <1>1
  <2> QED
    BY <1>2, <1>7, <2>1, <2>2, <2>3 DEF IInv, TypeOK
<1>11. Placed'
  <2>1. Ahead' \in Nat
    BY SMTT(20), <1>9, Numbers
  <2>2. \A i \in 1 .. Len(queue') : queue'[i] = asked'[Ahead' + i]
    <3> SUFFICES ASSUME NEW i \in 1 .. Len(queue') PROVE queue'[i] = asked[Ahead + 1 + i]
      BY <1>2, <1>9
    <3>1. i + 1 \in 1 .. Len(queue) /\ Ahead + (i + 1) = Ahead + 1 + i
      BY SMTT(20), <1>7, Numbers
    <3>2. queue[i + 1] = asked[Ahead + (i + 1)]
      BY <3>1, Places
    <3> QED
      BY <1>7, <3>1, <3>2
  <2> QED
    BY <1>2, <1>8, <2>1, <2>2 DEF IInv, Placed
<1>12. Prefix' /\ LastRuns'
  BY <1>2 DEF IInv, Prefix, LastRuns, None
<1>13. Alive'
  <2>1. Ended' = Ended
    BY <1>2 DEF Ended
  <2>2. {queue[i] : i \in DOMAIN queue \cap {1}} = {queue[1]}
    BY <1>3, <1>4
  <2>3. queue[1] \in Ended
    BY <1>3, EndedAreFirst, Numbers
  <2>4. started' = Ended' \cup {queue'[i] : i \in DOMAIN queue' \cap {1}}
    BY <1>3, <1>6, <2>1, <2>2, <2>3
  <2>5. Done' <= Len(queue')
    BY <1>3, <1>7, <1>9, Numbers
  <2> QED
    BY <1>2, <1>3, <1>9, <2>4, <2>5 DEF Alive
<1>14. Dead' /\ Died'
  <2>1. ~fatalError' /\ ~died'
    BY <1>2, <1>3
  <2> QED
    BY <2>1 DEF Dead, Died
<1> QED
  BY <1>10, <1>11, <1>12, <1>13, <1>14 DEF IInv, Prefix, LastRuns

\* On a dead connection the queue stays as it is.
LEMMA ReturnDead ==
  ASSUME IInv, Return, fatalError
  PROVE  IInv'
<1>1. /\ UNCHANGED <<queue, started>> /\ protocolEnded' \in BOOLEAN
      /\ running' = None /\ UNCHANGED <<fatalError, ticks, flush, died, asked, called>>
  BY DEF Return, _dequeue
<1>2. TypeOK'
  BY <1>1 DEF IInv, TypeOK
<1>3. Placed' /\ Ahead' = Ahead /\ FlushesDue' = FlushesDue
  BY <1>1, SamePlaces
<1>4. Done' = Done
  BY <1>1, <1>3 DEF Done
<1>5. Prefix' /\ LastRuns'
  BY <1>1 DEF IInv, Prefix, LastRuns, None
<1>6. Alive'
  <2>1. fatalError'
    BY <1>1
  <2> QED
    BY <2>1 DEF Alive
<1>7. Dead' /\ Died'
  BY <1>1, <1>3, <1>4 DEF IInv, Dead, Died, Queued
<1> QED
  BY <1>2, <1>3, <1>5, <1>6, <1>7 DEF IInv, Prefix, LastRuns

\* What remains of the ticks when the first is taken off.
LEMMA TickTaken ==
  ASSUME IInv, ticks # <<>>, ticks' = Tail(ticks)
  PROVE  /\ fatalError /\ Len(ticks) > 0 /\ Head(ticks) = ticks[1]
         /\ ticks' \in Seq(Tick) /\ Len(ticks') = Len(ticks) - 1 /\ FlushesDue' = 0
         /\ RefusedCount' = Len(ticks) - 1
         /\ \A j \in 1 .. Len(ticks) - 1 : ticks'[j] = ticks[j + 1]
<1>1. /\ ticks' \in Seq(Tick) /\ Len(ticks') = Len(ticks) - 1 /\ Len(ticks) > 0
      /\ \A j \in 1 .. Len(ticks) - 1 : ticks'[j] = ticks[j + 1]
      /\ Head(ticks) = ticks[1]
  BY DEF IInv, TypeOK
<1>2. fatalError
  BY DEF IInv, Alive
<1>3. ticks' # <<>> => Len(ticks) > 1 /\ ticks'[1] = ticks[2]
  BY <1>1, Numbers, SMTT(40)
<1>4. Len(ticks) > 1 => ticks[2] # Flush
  <2> SUFFICES ASSUME Len(ticks) > 1 PROVE ticks[2] # Flush
    OBVIOUS
  <2>1. CASE FlushesDue = 0
    <3>1. 2 \in 1 .. RefusedCount /\ FlushesDue + 2 = 2
      BY <2>1, Numbers
    <3> QED
      BY <3>1, Places, Ticks
  <2>2. CASE FlushesDue = 1
    <3>1. 1 \in 1 .. RefusedCount /\ FlushesDue + 1 = 2
      BY <2>2, Numbers
    <3> QED
      BY <3>1, Places, Ticks
  <2> QED
    BY <2>1, <2>2, Numbers
<1>5. FlushesDue' = 0
  BY <1>3, <1>4 DEF FlushesDue
<1>6. RefusedCount' = Len(ticks) - 1
  BY <1>1, <1>5, Numbers DEF RefusedCount
<1> QED
  BY <1>1, <1>2, <1>5, <1>6

LEMMA EndRefusedInv ==
  ASSUME IInv, EndRefused
  PROVE  IInv'
<1> DEFINE s == Head(ticks).sequence
<1>1. /\ ~died /\ flush = 0 /\ ticks # <<>> /\ Head(ticks).what = "refuse"
      /\ ticks' = Tail(ticks) /\ End(s)
      /\ UNCHANGED <<queue, fatalError, protocolEnded, flush, died, started, asked>>
  BY DEF EndRefused, AtTick
<1>2. /\ fatalError /\ Len(ticks) > 0 /\ Head(ticks) = ticks[1]
      /\ ticks' \in Seq(Tick) /\ Len(ticks') = Len(ticks) - 1 /\ FlushesDue' = 0
      /\ RefusedCount' = Len(ticks) - 1
      /\ \A j \in 1 .. Len(ticks) - 1 : ticks'[j] = ticks[j + 1]
  BY <1>1, TickTaken
<1>3. FlushesDue = 0 /\ RefusedCount = Len(ticks)
  <2>1. ticks[1] # Flush
    BY <1>1, <1>2, Ticks
  <2> QED
    BY <2>1, Numbers DEF FlushesDue
<1>4. queue = <<>> /\ Len(queue) = 0 /\ Done = 0
  <2>1. queue = <<>>
    BY <1>1, <1>2, <1>3 DEF IInv, Dead
  <2> QED
    BY <2>1, Numbers
<1>5. Len(called) < Len(asked) /\ s = asked[Len(called) + 1]
  <2>1. 1 \in 1 .. RefusedCount /\ FlushesDue + 1 = 1 /\ Ahead + Len(queue) + 1 = Len(called) + 1
    BY <1>2, <1>3, <1>4, Numbers
  <2>2. ticks[1] = Refuse(asked[Len(called) + 1])
    BY <2>1, Places
  <2> QED
    BY <1>2, <1>3, <1>4, <2>2, Ticks, Numbers
<1>6. /\ s \in Sequence /\ called' \in Seq(Sequence) /\ Len(called') = Len(called) + 1
      /\ running' = {s} /\ running' # None /\ Prefix' /\ LastRuns'
  <2>1. UNCHANGED asked
    BY <1>1
  <2> QED
    BY <1>1, <1>5, <2>1, EndNext
<1>lens. /\ Len(asked') = Len(asked) /\ Len(queue') = 0
         /\ Len(asked) = Ahead + RefusedCount /\ Len(called) = Ahead
         /\ RefusedCount' = RefusedCount - 1
         /\ Ahead \in Nat /\ RefusedCount \in Nat
  BY <1>1, <1>2, <1>3, <1>4, Numbers
<1>7. Ahead' = Ahead + 1 /\ Done' = 0
  BY <1>6, <1>lens DEF Ahead, Done
<1>8. TypeOK'
  BY <1>1, <1>2, <1>6 DEF IInv, TypeOK
<1>9. Placed'
  <2>1. Ahead' \in Nat
    BY <1>7, Numbers
  <2>2. \A i \in 1 .. Len(queue') : queue'[i] = asked'[Ahead' + i]
    BY <1>1, <1>4
  <2>3. \A j \in 1 .. RefusedCount' :
          ticks'[FlushesDue' + j] = Refuse(asked'[Ahead' + Len(queue') + j])
    <3> SUFFICES ASSUME NEW j \in 1 .. Len(ticks) - 1
                 PROVE  ticks'[j] = Refuse(asked[Ahead + 1 + j])
      BY <1>1, <1>2, <1>4, <1>7, Numbers, SMTT(40)
    <3>1. /\ j + 1 \in 1 .. RefusedCount /\ FlushesDue + (j + 1) = j + 1
          /\ Ahead + Len(queue) + (j + 1) = Ahead + 1 + j
      BY <1>2, <1>3, <1>4, Numbers
    <3>2. ticks[j + 1] = Refuse(asked[Ahead + 1 + j])
      BY <3>1, Places
    <3> QED
      BY <1>2, <3>2
  <2> QED
    BY <1>1, <2>1, <2>2, <2>3 DEF IInv, Placed
<1>10. Alive' /\ Dead' /\ Died'
  <2>1. fatalError' /\ ~died'
    BY <1>1, <1>2
  <2> QED
    BY <1>1, <1>2, <1>4, <1>7, <2>1, Numbers DEF Alive, Dead, Died
<1> QED
  BY <1>6, <1>8, <1>9, <1>10 DEF IInv, Prefix, LastRuns

LEMMA StartFlushInv ==
  ASSUME IInv, StartFlush
  PROVE  IInv'
<1>1. /\ ~died /\ ticks # <<>> /\ Head(ticks) = Flush /\ ticks' = Tail(ticks) /\ flush' = 1
      /\ UNCHANGED <<queue, fatalError, protocolEnded, running, died, started, asked, called>>
  BY DEF StartFlush, AtTick
<1>2. /\ fatalError /\ Len(ticks) > 0 /\ Head(ticks) = ticks[1]
      /\ ticks' \in Seq(Tick) /\ Len(ticks') = Len(ticks) - 1 /\ FlushesDue' = 0
      /\ RefusedCount' = Len(ticks) - 1
      /\ \A j \in 1 .. Len(ticks) - 1 : ticks'[j] = ticks[j + 1]
  BY <1>1, TickTaken
<1>3. FlushesDue = 1 /\ RefusedCount = Len(ticks) - 1
  BY SMTT(20), <1>1, <1>2, Numbers DEF FlushesDue
<1>4. Ahead' = Ahead /\ Done' = Done
  BY <1>1, <1>2, <1>3, Numbers DEF Ahead, Done
<1>5. TypeOK'
  <2>1. flush' \in 0 .. Len(queue') + 1
    BY <1>1, Numbers
  <2> QED
    BY <1>1, <1>2, <2>1 DEF IInv, TypeOK
<1>6. Placed'
  <2>1. \A j \in 1 .. RefusedCount' :
          ticks'[FlushesDue' + j] = Refuse(asked'[Ahead' + Len(queue') + j])
    <3> SUFFICES ASSUME NEW j \in 1 .. RefusedCount
                 PROVE  ticks'[j] = Refuse(asked[Ahead + Len(queue) + j])
      BY <1>1, <1>2, <1>3, <1>4
    <3>1. ticks[1 + j] = Refuse(asked[Ahead + Len(queue) + j])
      BY <1>3, Places
    <3> QED
      BY <1>2, <1>3, <3>1
  <2> QED
    BY <1>1, <1>4, <2>1 DEF IInv, Placed
<1>7. Prefix' /\ LastRuns'
  BY <1>1 DEF IInv, Prefix, LastRuns
<1>8. Alive' /\ Dead' /\ Died'
  <2>1. fatalError' /\ ~died'
    BY <1>1, <1>2
  <2>2. Done \in 0 .. Len(queue) /\ Done <= 1
    BY <1>1, <1>2, <1>3, Numbers DEF IInv, Dead
  <2>3. Done = 0 \/ Done = 1
    BY <2>2
  <2> QED
    BY <1>1, <1>2, <1>4, <2>1, <2>2, <2>3 DEF Alive, Dead, Died
<1> QED
  BY <1>5, <1>6, <1>7, <1>8 DEF IInv, Prefix, LastRuns

LEMMA FlushNextInv ==
  ASSUME IInv, FlushNext
  PROVE  IInv'
<1>1. /\ ~died /\ flush > 0 /\ flush <= Len(queue) /\ flush' = flush + 1
      /\ IF queue[flush] \in Ended THEN UNCHANGED <<called, running>> ELSE End(queue[flush])
      /\ UNCHANGED <<queue, fatalError, protocolEnded, ticks, died, started, asked>>
  BY DEF FlushNext
<1>2. flush \in 1 .. Len(queue)
  BY <1>1, Numbers DEF IInv, TypeOK
<1>3. fatalError
  BY <1>1 DEF IInv, Alive
<1>4. FlushesDue = 0 /\ (Done = flush - 1 \/ (flush = 1 /\ Done = 1))
  BY <1>1, <1>3 DEF IInv, Dead
<1>5. Placed' /\ Ahead' = Ahead /\ FlushesDue' = FlushesDue
  BY <1>1, SamePlaces
<1>6. queue[flush] \in Ended <=> flush <= Done
  BY <1>2, EndedAreFirst
<1>7. flush' \in 0 .. Len(queue') + 1 /\ flush' > 0 /\ flush' # 0
  BY <1>1, <1>2, Numbers
<1>8. fatalError' /\ ~died'
  BY <1>1, <1>3
<1>9. Alive' /\ Died'
  BY <1>8 DEF Alive, Died
<1>10. CASE flush <= Done
  <2>1. UNCHANGED <<called, running>> /\ Done = 1 /\ flush = 1
    BY <1>1, <1>2, <1>4, <1>6, <1>10, Numbers
  <2>2. TypeOK'
    BY <1>1, <1>7, <2>1 DEF IInv, TypeOK
  <2>3. Prefix' /\ LastRuns'
    BY <1>1, <2>1 DEF IInv, Prefix, LastRuns
  <2>4. Done' = Done
    BY <1>5, <2>1 DEF Done
  <2>5. Done' = flush' - 1 /\ Done' \in 0 .. Len(queue')
    BY <1>1, <2>1, <2>4, Numbers
  <2>6. Dead'
    <3>1. FlushesDue' = 0 /\ FlushesDue' # 1
      BY <1>4, <1>5
    <3> QED
      BY <1>7, <2>5, <3>1, Zenon DEF Dead
  <2> QED
    BY <1>5, <1>9, <2>2, <2>3, <2>6 DEF IInv, Prefix, LastRuns
<1>11. CASE ~(flush <= Done)
  <2>1. End(queue[flush]) /\ Done = flush - 1
    BY <1>1, <1>2, <1>4, <1>6, <1>11, Numbers
  <2>2. Len(called) < Len(asked) /\ queue[flush] = asked[Len(called) + 1]
    <3>1. queue[flush] = asked[Ahead + flush] /\ Ahead + flush \in 1 .. Len(asked)
      BY <1>2, Places
    <3>2. Ahead + flush = Len(called) + 1
      BY <1>2, <2>1, Numbers, SMTT(40)
    <3> QED
      BY <3>1, <3>2, Numbers
  <2>3. /\ queue[flush] \in Sequence /\ called' \in Seq(Sequence) /\ Len(called') = Len(called) + 1
        /\ running' = {queue[flush]} /\ Prefix' /\ LastRuns'
    <3>1. UNCHANGED asked
      BY <1>1
    <3> QED
      BY <2>1, <2>2, <3>1, EndNext
  <2>4. TypeOK'
    BY <1>1, <1>7, <2>3 DEF IInv, TypeOK
  <2>5. Done' = flush' - 1 /\ Done' \in 0 .. Len(queue')
    <3>1. Done' = Len(called') - Ahead
      BY <1>5 DEF Done
    <3>2. Len(called) = Ahead + Done /\ Ahead \in Nat /\ Len(called) \in Nat /\ Len(queue) \in Nat
      BY Numbers
    <3>3. flush' = flush + 1 /\ flush \in 1 .. Len(queue) /\ queue' = queue
      BY <1>1, <1>2
    <3> QED
      BY <2>1, <2>3, <3>1, <3>2, <3>3
  <2>6. Dead'
    <3>1. FlushesDue' = 0 /\ FlushesDue' # 1
      BY <1>4, <1>5
    <3> QED
      BY <1>7, <2>5, <3>1, Zenon DEF Dead
  <2> QED
    BY <1>5, <1>9, <2>3, <2>4, <2>6 DEF IInv, Prefix, LastRuns
<1> QED
  BY <1>10, <1>11

LEMMA FlushDoneInv ==
  ASSUME IInv, FlushDone
  PROVE  IInv'
<1>1. /\ ~died /\ flush > Len(queue) /\ flush' = 0 /\ queue' = <<>>
      /\ UNCHANGED <<fatalError, protocolEnded, ticks, running, died, started, asked, called>>
  BY DEF FlushDone
<1>2. flush = Len(queue) + 1
  BY <1>1, Numbers DEF IInv, TypeOK
<1>3. fatalError
  BY <1>2, Numbers DEF IInv, Alive
<1>4. FlushesDue = 0 /\ Done = Len(queue)
  <2>1. FlushesDue = 0 /\ (Done = flush - 1 \/ (flush = 1 /\ Done = 1)) /\ Done \in 0 .. Len(queue)
    BY <1>1, <1>2, <1>3, Numbers DEF IInv, Dead
  <2> QED
    BY <1>2, <2>1, Numbers
<1>5. FlushesDue' = 0 /\ RefusedCount' = RefusedCount /\ Len(queue') = 0
  BY <1>1, <1>4 DEF FlushesDue, RefusedCount
<1>lens. /\ Len(asked') = Len(asked) /\ Len(called') = Len(called)
         /\ Len(asked) = Ahead + Len(queue) + RefusedCount
         /\ Len(called) = Ahead + Len(queue)
         /\ Len(queue) \in Nat /\ Ahead \in Nat /\ RefusedCount \in Nat
  BY <1>1, <1>4, Numbers
<1>6. Ahead' = Ahead + Len(queue) /\ Done' = 0
  BY <1>5, <1>lens DEF Ahead, Done
<1>7. TypeOK'
  <2>1. queue' \in Seq(Sequence) /\ flush' \in 0 .. Len(queue') + 1
    BY <1>1, <1>5
  <2> QED
    BY <1>1, <2>1 DEF IInv, TypeOK
<1>8. Placed'
  <2>1. Ahead' \in Nat
    BY SMTT(20), <1>6, Numbers
  <2>2. \A j \in 1 .. RefusedCount' :
          ticks'[FlushesDue' + j] = Refuse(asked'[Ahead' + Len(queue') + j])
    <3> SUFFICES ASSUME NEW j \in 1 .. RefusedCount
                 PROVE  ticks[j] = Refuse(asked[Ahead + Len(queue) + j])
      BY <1>1, <1>5, <1>6, Numbers, SMTT(40)
    <3>1. FlushesDue + j = j
      BY <1>4
    <3> QED
      BY <3>1, Places
  <2> QED
    BY <1>1, <1>5, <2>1, <2>2 DEF IInv, Placed
<1>9. Prefix' /\ LastRuns'
  BY <1>1 DEF IInv, Prefix, LastRuns
<1>10. Alive' /\ Dead' /\ Died'
  <2>1. fatalError' /\ ~died'
    BY <1>1, <1>3
  <2> QED
    BY <1>1, <1>5, <1>6, <2>1 DEF Alive, Dead, Died
<1> QED
  BY <1>7, <1>8, <1>9, <1>10 DEF IInv, Prefix, LastRuns

\* The head is ended on a connection that lives.
LEMMA HeadEnds ==
  ASSUME IInv, ~fatalError, running = None, queue # <<>>, End(Head(queue)),
         UNCHANGED <<queue, fatalError, ticks, flush, died, started, asked>>,
         protocolEnded' \in BOOLEAN
  PROVE  IInv'
<1> DEFINE s == Head(queue)
<1>1. /\ ticks = <<>> /\ flush = 0 /\ ~died /\ Done = 0
      /\ started = Ended \cup {queue[i] : i \in DOMAIN queue \cap {1}}
  BY DEF IInv, Alive
<1>2. /\ Len(queue) > 0 /\ s = queue[1]
      /\ Len(called) < Len(asked) /\ s = asked[Len(called) + 1]
  BY <1>1, HeadIsNext
<1>3. /\ s \in Sequence /\ called' \in Seq(Sequence) /\ Len(called') = Len(called) + 1
      /\ running' = {s} /\ running' # None /\ Prefix' /\ LastRuns' /\ Ended' = Ended \cup {s}
  <2>1. UNCHANGED asked
    OBVIOUS
  <2> QED
    BY <1>2, <2>1, EndNext
<1>4. Placed' /\ Ahead' = Ahead
  BY SamePlaces
<1>5. Done' = 1
  <2>1. Len(called) = Ahead /\ Len(called) \in Nat
    BY <1>1, Numbers
  <2> QED
    BY <1>3, <1>4, <2>1 DEF Done
<1>6. TypeOK'
  BY <1>3 DEF IInv, TypeOK
<1>7. Alive'
  <2>1. DOMAIN queue = 1 .. Len(queue)
    BY DEF IInv, TypeOK
  <2>2. {queue[i] : i \in DOMAIN queue \cap {1}} = {s}
    BY <1>2, <2>1, Numbers
  <2>3. started' = Ended' \cup {queue'[i] : i \in DOMAIN queue' \cap {1}}
    BY <1>1, <1>3, <2>2
  <2>4. Done' <= Len(queue')
    BY <1>2, <1>5, Numbers
  <2> QED
    BY <1>1, <1>3, <1>5, <2>3, <2>4 DEF Alive
<1>8. Dead' /\ Died'
  <2>1. ~fatalError' /\ ~died'
    BY <1>1
  <2> QED
    BY <2>1 DEF Dead, Died
<1> QED
  BY <1>3, <1>4, <1>6, <1>7, <1>8 DEF IInv, Prefix, LastRuns

\* The first fatal error, with or without the end of the head.
LEMMA ErrorDelegated ==
  ASSUME IInv, ~fatalError, running = None, _delegateError,
         UNCHANGED <<queue, flush, started, asked>>, protocolEnded' \in BOOLEAN,
         UNCHANGED <<called, running>> \/ (queue # <<>> /\ End(Head(queue)))
  PROVE  IInv'
<1>1. /\ ticks = <<>> /\ flush = 0 /\ ~died /\ Done = 0
  BY DEF IInv, Alive
<1>2. /\ fatalError' = TRUE
      /\ \/ died' = TRUE /\ ticks' = <<>> /\ Queued \cap Queries = {}
         \/ died' = FALSE /\ ticks' = <<Flush>>
  <2>1. CASE _shouldErrorBubbleUp(queue)
    BY <1>1, <2>1 DEF _delegateError, _shouldErrorBubbleUp, HasErrorHandler, Queued
  <2>2. CASE ~_shouldErrorBubbleUp(queue)
    <3>1. ticks' = Append(<<>>, Flush) /\ died' = FALSE /\ fatalError' = TRUE
      BY <1>1, <2>2 DEF _delegateError, IInv, TypeOK
    <3> QED
      BY <3>1
  <2> QED
    BY <2>1, <2>2
<1>3. /\ ticks' \in Seq(Tick) /\ RefusedCount = 0 /\ RefusedCount' = 0
      /\ died' = FALSE => FlushesDue' = 1
  <2>1. RefusedCount = 0
    BY <1>1 DEF RefusedCount, FlushesDue
  <2>2. CASE ticks' = <<>>
    BY <1>2, <2>1, <2>2 DEF RefusedCount, FlushesDue
  <2>3. CASE ticks' = <<Flush>>
    BY <2>1, <2>3, Ticks DEF RefusedCount, FlushesDue
  <2> QED
    BY <1>2, <2>2, <2>3
<1>4. Ahead' = Ahead
  BY <1>3 DEF Ahead
<1>5. Placed'
  <2>1. Ahead' \in Nat
    BY <1>4, Numbers
  <2> QED
    BY <1>3, <1>4, <2>1 DEF IInv, Placed
<1>6. /\ called' \in Seq(Sequence) /\ Prefix' /\ LastRuns' /\ Done' \in 0 .. 1
      /\ Done' \in 0 .. Len(queue)
      /\ running' = None \/ \E s \in Sequence : running' = {s}
  <2>1. CASE UNCHANGED <<called, running>>
    <3>1. Done' = 0
      BY <1>1, <1>4, <2>1 DEF Done
    <3> QED
      BY <2>1, <3>1, Numbers DEF IInv, TypeOK, Prefix, LastRuns
  <2>2. CASE queue # <<>> /\ End(Head(queue))
    <3>1. /\ Len(queue) > 0 /\ Len(called) < Len(asked)
          /\ Head(queue) = asked[Len(called) + 1]
      BY <1>1, <2>2, HeadIsNext
    <3>2. UNCHANGED asked
      OBVIOUS
    <3>3. /\ Head(queue) \in Sequence /\ called' \in Seq(Sequence)
          /\ Len(called') = Len(called) + 1 /\ running' = {Head(queue)} /\ Prefix' /\ LastRuns'
      BY <2>2, <3>1, <3>2, EndNext
    <3>4. Done' = 1
      <4>1. Len(called) = Ahead /\ Len(called) \in Nat
        BY <1>1, Numbers
      <4> QED
        BY <1>4, <3>3, <4>1 DEF Done
    <3> QED
      BY <3>1, <3>3, <3>4, Numbers, SMTT(40)
  <2> QED
    BY <2>1, <2>2
<1>7. TypeOK'
  BY <1>2, <1>3, <1>6 DEF IInv, TypeOK
<1>8. Alive'
  BY <1>2 DEF Alive
<1>9. Dead' /\ Died'
  <2>1. Queued' = Queued /\ flush' = 0 /\ Done' <= 1 /\ Done' \in 0 .. Len(queue')
    BY <1>1, <1>6 DEF Queued
  <2>2. CASE died' = TRUE /\ ticks' = <<>> /\ Queued \cap Queries = {}
    BY <2>1, <2>2 DEF Dead, Died
  <2>3. CASE died' = FALSE
    <3>1. FlushesDue' = 1
      BY <1>3, <2>3
    <3> QED
      BY <2>1, <2>3, <3>1 DEF Dead, Died
  <2> QED
    BY <1>2, <2>2, <2>3
<1> QED
  BY <1>5, <1>6, <1>7, <1>8, <1>9 DEF IInv, Prefix, LastRuns

\* When the event loop is idle and the connection dead, nothing is left.
LEMMA IdleDead ==
  ASSUME IInv, Idle, fatalError
  PROVE  queue = <<>> /\ Len(called) = Len(asked)
<1>1. ~died /\ running = None /\ ticks = <<>> /\ flush = 0
  BY DEF Idle
<1>2. FlushesDue = 0 /\ RefusedCount = 0
  BY <1>1 DEF FlushesDue, RefusedCount
<1>3. queue = <<>>
  BY <1>1, <1>2 DEF IInv, Dead
<1>4. Len(queue) = 0
  BY <1>3
<1> QED
  BY <1>2, <1>3, <1>4, Numbers

LEMMA SocketEndInv ==
  ASSUME IInv, SocketEnd
  PROVE  IInv'
<1>1. /\ Idle /\ running = None /\ protocolEnded' = TRUE
      /\ UNCHANGED <<queue, flush, started, asked>>
  BY DEF SocketEnd, Idle
<1>2. CASE queue # <<>> /\ Head(queue) = "quit"
  <2>1. ~fatalError
    BY <1>1, <1>2, IdleDead
  <2>2. End(Head(queue)) /\ UNCHANGED <<fatalError, ticks, died>>
    BY <1>2 DEF SocketEnd
  <2> QED
    BY <1>1, <1>2, <2>1, <2>2, HeadEnds
<1>3. CASE ~(queue # <<>> /\ Head(queue) = "quit") /\ ~fatalError
  <2>1. _delegateError /\ UNCHANGED <<called, running>>
    BY <1>3 DEF SocketEnd
  <2> QED
    BY <1>1, <1>3, <2>1, ErrorDelegated
<1>4. CASE ~(queue # <<>> /\ Head(queue) = "quit") /\ fatalError
  <2>1. UNCHANGED <<queue, fatalError, ticks, flush, running, died, started, asked, called>>
    BY <1>1, <1>4 DEF SocketEnd
  <2>2. Placed' /\ Ahead' = Ahead /\ FlushesDue' = FlushesDue
    BY <2>1, SamePlaces
  <2>3. TypeOK' /\ Prefix' /\ LastRuns'
    BY <1>1, <2>1 DEF IInv, TypeOK, Prefix, LastRuns
  <2>4. Done' = Done /\ Ended' = Ended /\ Queued' = Queued
    BY <2>1, <2>2 DEF Done, Ended, Queued
  <2>5. Alive' /\ Dead' /\ Died'
    BY <2>1, <2>2, <2>4 DEF IInv, Alive, Dead, Died
  <2> QED
    BY <2>2, <2>3, <2>5 DEF IInv, Prefix, LastRuns
<1> QED
  BY <1>2, <1>3, <1>4

LEMMA NextInv == IInv /\ [Next]_vars => IInv'
<1> SUFFICES ASSUME IInv, [Next]_vars PROVE IInv'
  OBVIOUS
<1>0. protocolEnded \in BOOLEAN
  BY DEF IInv, TypeOK
<1>1. ASSUME NEW s \in Sequence, Ask(s) PROVE IInv'
  BY <1>1, AskEnqueues, AskRefuses
<1>2. CASE Return
  BY <1>2, ReturnDequeues, ReturnDead
<1>3. CASE NextTick
  BY <1>3, EndRefusedInv, StartFlushInv, FlushNextInv, FlushDoneInv DEF NextTick
<1>4. CASE Answer
  BY <1>0, <1>4, HeadEnds DEF Answer, Idle
<1>5. CASE NetworkError
  <2>1. /\ ~fatalError /\ running = None /\ _delegateError
        /\ UNCHANGED <<queue, flush, started, asked>> /\ protocolEnded' \in BOOLEAN
        /\ UNCHANGED <<called, running>> \/ (queue # <<>> /\ End(Head(queue)))
    BY <1>0, <1>5 DEF NetworkError, Idle
  <2> QED
    BY <2>1, ErrorDelegated
<1>6. CASE SocketEnd
  BY <1>6, SocketEndInv
<1>7. CASE QuitTimeout
  <2>1. /\ ~fatalError /\ running = None /\ _delegateError
        /\ UNCHANGED <<queue, flush, started, asked>> /\ protocolEnded' \in BOOLEAN
        /\ UNCHANGED <<called, running>>
    BY <1>0, <1>7 DEF QuitTimeout, Idle
  <2> QED
    BY <2>1, ErrorDelegated
<1>8. CASE UNCHANGED vars
  <2>1. UNCHANGED <<queue, fatalError, protocolEnded, ticks, flush, running, died, started,
                    asked, called>>
    BY <1>8 DEF vars
  <2>2. Placed' /\ Ahead' = Ahead /\ FlushesDue' = FlushesDue
    BY <2>1, SamePlaces
  <2>3. TypeOK' /\ Prefix' /\ LastRuns'
    BY <2>1 DEF IInv, TypeOK, Prefix, LastRuns
  <2>4. Done' = Done /\ Ended' = Ended /\ Queued' = Queued
    BY <2>1, <2>2 DEF Done, Ended, Queued
  <2>5. Alive' /\ Dead' /\ Died'
    BY <2>1, <2>2, <2>4 DEF IInv, Alive, Dead, Died
  <2> QED
    BY <2>2, <2>3, <2>5 DEF IInv, Prefix, LastRuns
<1> QED
  BY <1>1, <1>2, <1>3, <1>4, <1>5, <1>6, <1>7, <1>8 DEF Next

\* Every reachable state satisfies the inductive invariant.
THEOREM Invariance == Spec => []IInv
  BY InitInv, NextInv, PTL DEF Spec

-----------------------------------------------------------------------------
(***************************************************************************)
(* What the invariant is for                                               *)
(***************************************************************************)
\* What the driver holds is what was asked and not called.
LEMMA OwedIs ==
  IInv => /\ Owed \in Seq(Sequence) /\ Len(Owed) = Len(asked) - Len(called)
          /\ \A i \in 1 .. Len(Owed) : Owed[i] = asked[Len(called) + i]
<1> SUFFICES ASSUME IInv
             PROVE  /\ Owed \in Seq(Sequence) /\ Len(Owed) = Len(asked) - Len(called)
                    /\ \A i \in 1 .. Len(Owed) : Owed[i] = asked[Len(called) + i]
  OBVIOUS
<1> DEFINE p == SubSeq(queue, EndedInQueue + 1, Len(queue))
           r == [j \in 1 .. RefusedCount |-> ticks[FlushesDue + j].sequence]
<1>1. EndedInQueue = Done
  <2>1. DOMAIN queue = 1 .. Len(queue)
    BY DEF IInv, TypeOK
  <2>2. {i \in DOMAIN queue : queue[i] \in Ended} = 1 .. Done
    BY <2>1, EndedAreFirst, Numbers, SMTT(40)
  <2>3. Cardinality(1 .. Done) = Done
    BY FS_Interval, Numbers, SMTT(40)
  <2> QED
    BY <2>2, <2>3 DEF EndedInQueue
<1>2. /\ p \in Seq(Sequence) /\ Len(p) = Len(queue) - Done
      /\ \A i \in 1 .. Len(queue) - Done : p[i] = queue[Done + i]
  <2>1. p = SubSeq(queue, Done + 1, Len(queue)) /\ queue \in Seq(Sequence)
    BY <1>1 DEF IInv, TypeOK
  <2>2. Done \in 0 .. Len(queue) /\ Len(queue) \in Nat
    BY Numbers
  <2> HIDE DEF p
  <2> QED
    BY <2>1, <2>2
<1>3. /\ r \in Seq(Sequence) /\ Len(r) = RefusedCount
      /\ \A j \in 1 .. RefusedCount : r[j] = asked[Ahead + Len(queue) + j]
  <2>1. ASSUME NEW j \in 1 .. RefusedCount
        PROVE  /\ ticks[FlushesDue + j].sequence = asked[Ahead + Len(queue) + j]
               /\ asked[Ahead + Len(queue) + j] \in Sequence
    BY Places, Ticks, EndedAreFirst
  <2>2. r = [j \in 1 .. RefusedCount |-> asked[Ahead + Len(queue) + j]]
    BY <2>1
  <2>3. RefusedCount \in Nat
    BY Numbers
  <2>4. r \in [1 .. RefusedCount -> Sequence]
    BY <2>1, <2>2
  <2> HIDE DEF r
  <2>5. r \in Seq(Sequence)
    BY <2>3, <2>4, SeqDef
  <2> QED
    BY <2>2, <2>3, <2>4, <2>5
<1> HIDE DEF p, r
<1>4. Owed = p \o r
  BY DEF Owed, p, r
<1>5. /\ Owed \in Seq(Sequence) /\ Len(Owed) = Len(p) + Len(r)
      /\ \A i \in 1 .. Len(p) + Len(r) : Owed[i] = IF i <= Len(p) THEN p[i] ELSE r[i - Len(p)]
  BY <1>2, <1>3, <1>4, ConcatProperties
<1>lens. /\ Len(queue) \in Nat /\ Done \in Int /\ 0 <= Done /\ Done <= Len(queue)
         /\ Ahead \in Nat /\ RefusedCount \in Nat
         /\ Len(asked) = Ahead + Len(queue) + RefusedCount /\ Len(called) = Ahead + Done
         /\ Len(p) = Len(queue) - Done /\ Len(r) = RefusedCount
  BY <1>2, <1>3, Numbers
<1>6. Len(p) + Len(r) = Len(asked) - Len(called)
  BY <1>lens
<1>7. ASSUME NEW i \in 1 .. Len(p) + Len(r)
      PROVE  Owed[i] = asked[Len(called) + i]
  <2>1. CASE i <= Len(p)
    <3>1. i \in 1 .. Len(queue) - Done /\ Done + i \in 1 .. Len(queue)
      BY <1>lens, <2>1
    <3>2. Ahead + (Done + i) = Len(called) + i
      BY <1>lens
    <3>3. queue[Done + i] = asked[Len(called) + i]
      BY <3>1, <3>2, Places
    <3> QED
      BY <1>2, <1>5, <2>1, <3>1, <3>3
  <2>2. CASE ~(i <= Len(p))
    <3>1. i - Len(p) \in 1 .. RefusedCount
      BY <1>lens, <2>2
    <3>2. Ahead + Len(queue) + (i - Len(p)) = Len(called) + i
      BY <1>lens
    <3>3. r[i - Len(p)] = asked[Len(called) + i]
      BY <1>3, <3>1, <3>2
    <3> QED
      BY <1>5, <2>2, <3>3
  <2> QED
    BY <2>1, <2>2
<1> QED
  BY <1>5, <1>6, <1>7

LEMMA OwedWillBe ==
  (IInv => /\ Owed \in Seq(Sequence) /\ Len(Owed) = Len(asked) - Len(called)
           /\ \A i \in 1 .. Len(Owed) : Owed[i] = asked[Len(called) + i])'
  BY OwedIs, PTL

\* Every sequence is ended exactly once, in the order the program sent them.
THEOREM CalledInOrder == Spec => []InOrder
<1>1. ASSUME IInv PROVE InOrder
  <2>1. called \in Seq(Sequence) /\ asked \in Seq(Sequence)
    BY <1>1 DEF IInv, TypeOK
  <2>2. /\ Owed \in Seq(Sequence) /\ Len(Owed) = Len(asked) - Len(called)
        /\ \A i \in 1 .. Len(Owed) : Owed[i] = asked[Len(called) + i]
    BY <1>1, OwedIs
  <2> DEFINE t == called \o Owed
  <2>3. /\ t \in Seq(Sequence) /\ Len(t) = Len(called) + Len(Owed)
        /\ \A i \in 1 .. Len(called) + Len(Owed) :
             t[i] = IF i <= Len(called) THEN called[i] ELSE Owed[i - Len(called)]
    BY <2>1, <2>2, ConcatProperties
  <2> HIDE DEF t
  <2>4. Len(t) = Len(asked)
    BY <1>1, <2>2, <2>3, Numbers
  <2>5. ASSUME NEW i \in 1 .. Len(t) PROVE t[i] = asked[i]
    <3>1. CASE i <= Len(called)
      <4>1. i \in 1 .. Len(called) /\ i \in 1 .. Len(called) + Len(Owed)
        BY <2>1, <2>3, <2>5, <3>1
      <4>2. called[i] = asked[i]
        BY <1>1, <4>1 DEF IInv
      <4> QED
        BY <2>3, <3>1, <4>1, <4>2
    <3>2. CASE ~(i <= Len(called))
      <4>1. i - Len(called) \in 1 .. Len(Owed) /\ Len(called) + (i - Len(called)) = i
        BY <1>1, <2>2, <2>4, <2>5, <3>2, Numbers
      <4> QED
        BY <2>2, <2>3, <2>4, <3>2, <4>1
    <3> QED
      BY <3>1, <3>2
  <2>6. t = asked
    BY <2>1, <2>3, <2>4, <2>5, SeqEqual
  <2> QED
    BY <2>6 DEF InOrder, t
<1> QED
  BY <1>1, Invariance, PTL

\* The server has at most one sequence, the head of the queue, and has it at
\* once (Protocol.js lines 184-187 and 333-343).
THEOREM OnlyHeadStarted == Spec => []HeadIsStarted
<1>1. ASSUME IInv PROVE HeadIsStarted
  <2> SUFFICES ASSUME ~fatalError, running = None
               PROVE  started \ Ended = {queue[i] : i \in DOMAIN queue \cap {1}}
    BY DEF HeadIsStarted
  <2>1. Done = 0 /\ started = Ended \cup {queue[i] : i \in DOMAIN queue \cap {1}}
    BY <1>1 DEF IInv, Alive
  <2>2. \A i \in DOMAIN queue \cap {1} : queue[i] \notin Ended
    <3>1. DOMAIN queue = 1 .. Len(queue)
      BY <1>1 DEF IInv, TypeOK
    <3> QED
      BY <1>1, <2>1, <3>1, EndedAreFirst
  <2> QED
    BY <2>1, <2>2
<1> QED
  BY <1>1, Invariance, PTL

\* No timer and no I/O comes before the last callback that is owed an error
\* (Protocol.js lines 225 and 397).
THEOREM ErrorsFirst == Spec => []ErrorsComeFirst
<1>1. ASSUME IInv PROVE ErrorsComeFirst
  <2> SUFFICES ASSUME fatalError, ~died, Idle PROVE Ended = Asked
    BY DEF ErrorsComeFirst
  <2>1. Len(called) = Len(asked)
    BY <1>1, IdleDead
  <2>2. DOMAIN asked = 1 .. Len(asked)
    BY <1>1 DEF IInv, TypeOK
  <2> QED
    BY <1>1, <2>1, <2>2, EndedAreFirst DEF Asked
<1> QED
  BY <1>1, Invariance, PTL

\* An unhandled error costs no query its callback (Protocol.js lines 389-420).
THEOREM NoQueryLeftBehind == Spec => []NobodyLeftBehind
<1>1. ASSUME IInv PROVE NobodyLeftBehind
  <2> SUFFICES ASSUME died, NEW q \in Asked, q \notin Ended PROVE q \notin Queries
    BY DEF NobodyLeftBehind
  <2>1. ticks = <<>> /\ Queued \cap Queries = {}
    BY <1>1 DEF IInv, Died
  <2>2. RefusedCount = 0
    BY <2>1 DEF RefusedCount, FlushesDue
  <2>3. PICK i \in 1 .. Len(asked) : q = asked[i]
    BY <1>1 DEF Asked, IInv, TypeOK
  <2>4. ~(i <= Len(called))
    BY <1>1, <2>3, EndedAreFirst
  <2>5. i - Ahead \in 1 .. Len(queue) /\ Ahead + (i - Ahead) = i
    <3>1. /\ Ahead \in Nat /\ Len(asked) = Ahead + Len(queue) /\ Done \in Nat
          /\ Len(called) = Ahead + Done /\ Len(queue) \in Nat
      BY <1>1, <2>2, Numbers
    <3> QED
      BY <2>4, <3>1
  <2>6. q = queue[i - Ahead]
    BY <1>1, <2>3, <2>5, Places
  <2>7. q \in Queued
    BY <1>1, <2>5, <2>6 DEF Queued, IInv, TypeOK
  <2> QED
    BY <2>1, <2>7
<1> QED
  BY <1>1, Invariance, PTL

-----------------------------------------------------------------------------
(***************************************************************************)
(* The driver is a Connection                                              *)
(***************************************************************************)
Held == [i \in 1 .. Len(Owed) |-> Entry(Owed[i])]
Entries == {Entry(s) : s \in Sequence}

LEMMA HeldIs ==
  IInv => /\ Held \in Seq(Entries) /\ Len(Held) = Len(asked) - Len(called)
          /\ Len(Held) \in Nat /\ Len(called) \in Nat /\ Len(asked) \in Nat
          /\ asked \in Seq(Sequence)
          /\ \A i \in 1 .. Len(Held) : Held[i] = Entry(asked[Len(called) + i])
<1> SUFFICES ASSUME IInv
             PROVE  /\ Held \in Seq(Entries) /\ Len(Held) = Len(asked) - Len(called)
                    /\ \A i \in 1 .. Len(Held) : Held[i] = Entry(asked[Len(called) + i])
  BY Numbers, SMTT(40) DEF IInv, TypeOK
<1>1. /\ Owed \in Seq(Sequence) /\ Len(Owed) = Len(asked) - Len(called)
      /\ \A i \in 1 .. Len(Owed) : Owed[i] = asked[Len(called) + i]
  BY OwedIs
<1>2. Len(Owed) \in Nat
  BY <1>1
<1>3. \A i \in 1 .. Len(Owed) : Entry(Owed[i]) \in Entries
  BY <1>1 DEF Entries
<1>4. Held \in [1 .. Len(Owed) -> Entries]
  BY <1>3 DEF Held
<1>5. Held \in Seq(Entries)
  BY <1>2, <1>4, SeqDef
<1>6. Len(Held) = Len(Owed)
  BY <1>2, <1>4, <1>5
<1>7. \A i \in 1 .. Len(Owed) : Held[i] = Entry(Owed[i])
  BY DEF Held
<1> QED
  BY <1>1, <1>5, <1>6, <1>7

LEMMA HeldWillBe ==
  (IInv => /\ Held \in Seq(Entries) /\ Len(Held) = Len(asked) - Len(called)
           /\ Len(Held) \in Nat /\ Len(called) \in Nat /\ Len(asked) \in Nat
           /\ asked \in Seq(Sequence)
           /\ \A i \in 1 .. Len(Held) : Held[i] = Entry(asked[Len(called) + i]))'
  BY HeldIs, PTL

\* What a step of the driver is to the program that uses it.
LEMMA Kinds ==
  ASSUME IInv, [Next]_vars
  PROVE  \/ /\ \E s \in Sequence : asked' = Append(asked, s)
            /\ UNCHANGED <<called, fatalError>>
         \/ /\ \E s \in Sequence : called' = Append(called, s)
            /\ UNCHANGED asked /\ fatalError' \in {fatalError, TRUE}
         \/ UNCHANGED <<asked, called, fatalError>>
         \/ UNCHANGED <<asked, called>> /\ ~fatalError /\ fatalError' = TRUE
<1>0. /\ queue \in Seq(Sequence) /\ \A t \in Tick : t.what = "refuse" => t.sequence \in Sequence
      /\ ticks \in Seq(Tick) /\ flush \in 0 .. Len(queue) + 1
  <2>1. \A t \in Tick : t.what = "refuse" => t.sequence \in Sequence
    BY DEF Tick, Flush, Refuse
  <2> QED
    BY <2>1 DEF IInv, TypeOK
<1>1. CASE \E s \in Sequence : Ask(s)
  BY <1>1 DEF Ask
<1>2. CASE Return
  BY <1>2 DEF Return
<1>3. CASE EndRefused
  <2>1. Head(ticks) \in Tick
    BY <1>0, <1>3 DEF EndRefused, AtTick
  <2> QED
    BY <1>0, <1>3, <2>1 DEF EndRefused, End
<1>4. CASE StartFlush \/ FlushDone
  BY <1>4 DEF StartFlush, FlushDone
<1>5. CASE FlushNext
  <2>1. queue[flush] \in Sequence
    BY <1>0, <1>5 DEF FlushNext
  <2> QED
    BY <1>5, <2>1 DEF FlushNext, End
<1>6. CASE Answer
  <2>1. Head(queue) \in Sequence
    BY <1>0, <1>6 DEF Answer
  <2> QED
    BY <1>6, <2>1 DEF Answer, End
<1>7. CASE NetworkError
  <2>1. queue # <<>> => Head(queue) \in Sequence
    BY <1>0
  <2> QED
    BY <1>7, <2>1 DEF NetworkError, _delegateError, End
<1>8. CASE SocketEnd
  <2>1. "quit" \in Sequence
    BY DEF Sequence
  <2> QED
    BY <1>8, <2>1 DEF SocketEnd, _delegateError, End
<1>9. CASE QuitTimeout
  BY <1>9 DEF QuitTimeout, _delegateError
<1>10. CASE UNCHANGED vars
  BY <1>10 DEF vars
<1> QED
  BY <1>1, <1>2, <1>3, <1>4, <1>5, <1>6, <1>7, <1>8, <1>9, <1>10 DEF Next, NextTick

\* The initial states and the steps of Connection, in terms of Held.
LEMMA InConnection ==
  /\ Len(Held) = 1 /\ Head(Held).op = "handshake" /\ fatalError = FALSE => Conn!Init
  /\ Len(Held') = Len(Held) + 1 /\ SubSeq(Held', 1, Len(Held)) = Held
       /\ UNCHANGED fatalError => [Conn!Next]_(Conn!conn)
  /\ Held # <<>> /\ Held' = Tail(Held) /\ fatalError' \in {fatalError, TRUE}
       => [Conn!Next]_(Conn!conn)
  /\ Held' = Held /\ UNCHANGED fatalError => [Conn!Next]_(Conn!conn)
  /\ Held' = Held /\ ~fatalError /\ fatalError' = TRUE => [Conn!Next]_(Conn!conn)
<1>1. Len(Held) = 1 /\ Head(Held).op = "handshake" /\ fatalError = FALSE => Conn!Init
  BY DEF Held, Conn!Init
<1>2. ASSUME Len(Held') = Len(Held) + 1, SubSeq(Held', 1, Len(Held)) = Held,
             UNCHANGED fatalError
      PROVE  Conn!Ask
  BY <1>2 DEF Held, Conn!Ask
<1>3. ASSUME Held # <<>>, Held' = Tail(Held), fatalError' \in {fatalError, TRUE}
      PROVE  Conn!Call
  BY <1>3 DEF Held, Conn!Call, Conn!Rest
<1>4. Held' = Held /\ UNCHANGED fatalError => UNCHANGED Conn!conn
  BY DEF Held, Conn!conn
<1>5. ASSUME Held' = Held, ~fatalError, fatalError' = TRUE
      PROVE  Conn!ConnectionLost
  BY <1>5 DEF Held, Conn!ConnectionLost
<1> QED
  BY <1>1, <1>2, <1>3, <1>4, <1>5 DEF Conn!Next

LEMMA InitImplements == Init => Conn!Init
<1> SUFFICES ASSUME Init PROVE Conn!Init
  OBVIOUS
<1>1. asked = <<"handshake">> /\ called = <<>> /\ fatalError = FALSE
  BY DEF Init
<1>2. /\ Held \in Seq(Entries) /\ Len(Held) = Len(asked) - Len(called)
      /\ \A i \in 1 .. Len(Held) : Held[i] = Entry(asked[Len(called) + i])
  BY InitInv, HeldIs
<1>3. Len(Held) = 1
  BY <1>1, <1>2
<1>4. Head(Held) = Entry("handshake")
  <2>1. Held[1] = Entry(asked[1])
    BY <1>1, <1>2, <1>3
  <2> QED
    BY <1>1, <1>2, <1>3, <2>1
<1>5. Head(Held).op = "handshake"
  BY <1>4, ProtocolAssumption DEF Entry
<1> QED
  BY <1>1, <1>3, <1>5, InConnection

LEMMA StepImplements ==
  ASSUME IInv, IInv', [Next]_vars
  PROVE  [Conn!Next]_(Conn!conn)
<1> DEFINE h == Held  hh == Held'  n == Len(called)  a == asked  aa == asked'
<1>1. /\ h \in Seq(Entries) /\ Len(h) = Len(a) - n /\ Len(h) \in Nat
      /\ n \in Nat /\ Len(a) \in Nat /\ a \in Seq(Sequence)
      /\ \A i \in 1 .. Len(h) : h[i] = Entry(a[n + i])
  BY HeldIs
<1>2. /\ hh \in Seq(Entries) /\ Len(hh) = Len(aa) - Len(called') /\ Len(hh) \in Nat
      /\ Len(called') \in Nat /\ Len(aa) \in Nat
      /\ \A i \in 1 .. Len(hh) : hh[i] = Entry(aa[Len(called') + i])
  BY HeldWillBe
<1>3. called \in Seq(Sequence)
  BY DEF IInv, TypeOK
<1>4. CASE /\ \E s \in Sequence : asked' = Append(asked, s)
           /\ UNCHANGED <<called, fatalError>>
  <2>1. PICK s \in Sequence : aa = Append(a, s)
    BY <1>4
  <2>2. Len(aa) = Len(a) + 1 /\ \A i \in 1 .. Len(a) : aa[i] = a[i]
    BY <1>1, <2>1
  <2>3. UNCHANGED called
    BY <1>4
  <2> HIDE DEF h, hh, n, a, aa
  <2>4. Len(hh) = Len(h) + 1
    BY <1>1, <1>2, <2>2, <2>3 DEF n
  <2>5. \A i \in 1 .. Len(h) : hh[i] = h[i]
    <3> SUFFICES ASSUME NEW i \in 1 .. Len(h) PROVE hh[i] = h[i]
      OBVIOUS
    <3>1. i \in 1 .. Len(hh) /\ n + i \in 1 .. Len(a)
      BY <1>1, <2>4
    <3>2. h[i] = Entry(a[n + i]) /\ hh[i] = Entry(aa[n + i])
      BY <1>1, <1>2, <2>3, <3>1 DEF n
    <3> QED
      BY <2>2, <3>1, <3>2
  <2>6. SubSeq(hh, 1, Len(h)) = h
    <3> DEFINE u == SubSeq(hh, 1, Len(h))
    <3>1. u \in Seq(Entries) /\ Len(u) = Len(h) /\ \A i \in 1 .. Len(h) : u[i] = hh[i]
      BY <1>1, <1>2, <2>4
    <3> HIDE DEF u
    <3> QED
      BY <1>1, <2>5, <3>1, SeqEqual
  <2> QED
    BY <1>4, <2>4, <2>6, InConnection DEF h, hh
<1>5. CASE /\ \E s \in Sequence : called' = Append(called, s)
           /\ UNCHANGED asked /\ fatalError' \in {fatalError, TRUE}
  <2>1. Len(called') = n + 1 /\ aa = a
    BY <1>3, <1>5
  <2>2. fatalError' \in {fatalError, TRUE}
    BY <1>5
  <2> HIDE DEF h, hh, n, a, aa
  <2>3. Len(h) = Len(hh) + 1
    BY <1>1, <1>2, <2>1
  <2>4. h # <<>>
    BY <1>1, <1>2, <2>3
  <2>5. Len(Tail(h)) = Len(hh) /\ Tail(h) \in Seq(Entries)
        /\ \A i \in 1 .. Len(hh) : Tail(h)[i] = h[i + 1]
    BY <1>1, <1>2, <2>3, <2>4
  <2>6. \A i \in 1 .. Len(hh) : hh[i] = h[i + 1]
    <3> SUFFICES ASSUME NEW i \in 1 .. Len(hh) PROVE hh[i] = h[i + 1]
      OBVIOUS
    <3>1. i + 1 \in 1 .. Len(h) /\ n + (i + 1) = n + 1 + i
      BY <1>1, <1>2, <2>3
    <3>2. h[i + 1] = Entry(a[n + (i + 1)])
      BY <1>1, <3>1
    <3>3. hh[i] = Entry(a[n + 1 + i])
      BY <1>2, <2>1
    <3> QED
      BY <3>1, <3>2, <3>3
  <2>7. hh = Tail(h)
    BY <1>2, <2>5, <2>6, SeqEqual
  <2> QED
    BY <2>2, <2>4, <2>7, InConnection DEF h, hh
<1>6. ASSUME UNCHANGED <<asked, called>>
      PROVE  hh = h
  <2>1. Len(hh) = Len(h) /\ \A i \in 1 .. Len(hh) : hh[i] = h[i]
    BY <1>1, <1>2, <1>6
  <2> HIDE DEF h, hh
  <2> QED
    BY <1>1, <1>2, <2>1, SeqEqual
<1>7. CASE UNCHANGED <<asked, called, fatalError>>
  BY <1>6, <1>7, InConnection
<1>8. CASE UNCHANGED <<asked, called>> /\ ~fatalError /\ fatalError' = TRUE
  BY <1>6, <1>8, InConnection
<1> QED
  BY <1>4, <1>5, <1>7, <1>8, Kinds

(***************************************************************************)
(* Seen from the program the driver is one first-in first-out connection   *)
(* (Protocol.js 134-229, 325-427): what Crawler and Database assume of it. *)
(***************************************************************************)
THEOREM Implements == Spec => ImplementsConnection
<1>1. IInv /\ IInv' /\ [Next]_vars => [Conn!Next]_(Conn!conn)
  BY StepImplements
<1> QED
  BY <1>1, InitImplements, Invariance, PTL DEF Spec, ImplementsConnection, Conn!Spec
=============================================================================
