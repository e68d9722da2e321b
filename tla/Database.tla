------------------------------ MODULE Database ------------------------------
(***************************************************************************)
(* nlib/database.js, the script that drops and sets up the database the    *)
(* crawler works on.  It connects to the very database it is about to      *)
(* drop, then sends one statement from the callback of the last; only the  *)
(* three CREATE TABLEs are in the driver's queue at once, counted down by  *)
(* pending.  An error is printed and, but for two statements, passed over. *)
(* The script may be run again, and be killed, at any moment.              *)
(***************************************************************************)
EXTENDS Integers, Sequences, FiniteSets

CONSTANTS Urls, Seed,
          MaxFaults       \* bound on refused statements and lost connections

ASSUME DatabaseAssumption == IsFiniteSet(Urls) /\ Seed \in Urls /\ MaxFaults \in Nat

VARIABLES
  exists,                 \* the server has a database of the name
  made,                   \* its tables
  rows, status, content,  \* what they hold
  queue, fatal,           \* the driver
  outstanding,            \* var pending (line 67)
  printed,                \* console.error has been called
  outcome,                \* how the last run of the script ended
  faults

tables == <<rows, status, content>>
database == <<exists, made, tables>>
script == <<outstanding, printed, outcome>>
vars == <<database, queue, fatal, script, faults>>

\* The listing and its limit are the crawler's, not this script's.
T == INSTANCE Tables WITH BatchCount <- 1
C == INSTANCE Connection

Names == <<"urls", "content", "metrics">>
AllTables == {Names[i] : i \in DOMAIN Names}

Drop == [op |-> "drop"]
Create == [op |-> "create"]
Use == [op |-> "use"]
Table(name) == [op |-> "table", name |-> name]
InsertSeed == [op |-> "seed"]

Statement == {C!Handshake, Drop, Create, Use, InsertSeed, C!Quit}
               \cup {Table(name) : name \in AllTables}

TypeOK == /\ T!TypeOK
          /\ exists \in BOOLEAN /\ made \in SUBSET AllTables
          /\ queue \in Seq(Statement) /\ fatal \in BOOLEAN
          /\ outstanding \in 0 .. Len(Names)
          /\ printed \in BOOLEAN
          /\ outcome \in {"none", "running", "clean", "errors", "killed"}
          /\ faults \in 0 .. MaxFaults

NoRows == rows = {} /\ status = [u \in Urls |-> 0] /\ content = {}

\* The server has no such database, or the one an earlier crawl has filled.
Init ==
  /\ \/ exists = FALSE /\ made = {} /\ NoRows
     \/ /\ exists = TRUE /\ made = AllTables
        /\ rows \in SUBSET Urls
        /\ status \in [Urls -> {0, 2}]
        /\ content \in {{}, {[url |-> Seed, from |-> {Seed}]}}
  /\ queue = <<>> /\ fatal = FALSE
  /\ outstanding = 0 /\ printed = FALSE /\ outcome = "none"
  /\ faults = 0

-----------------------------------------------------------------------------
\* Mutants: an error that is not printed, and two slips in the countdown.
PrintNothing(ok) == UNCHANGED printed
OneTableLeft(n) == n <= 1
NoTableLeft(n) == n < 0

-----------------------------------------------------------------------------
(***************************************************************************)
(* The server                                                              *)
(***************************************************************************)
\* What the server does not refuse by itself.  The handshake names the
\* database (Handshake.js line 75), so it is refused when there is none.
Acceptable(q) ==
  CASE q.op \in {"handshake", "drop", "use"} -> exists
    [] q.op = "create" -> ~exists
    [] q.op = "table"  -> exists /\ q.name \notin made
    [] q.op = "seed"   -> "urls" \in made
    [] q.op = "quit"   -> TRUE

Execute(q) ==
  \/ /\ q.op = "drop"
     /\ exists' = FALSE /\ made' = {}
     /\ rows' = {} /\ status' = [u \in Urls |-> 0] /\ content' = {}
  \/ q.op = "create" /\ exists' = TRUE /\ UNCHANGED <<made, tables>>
  \/ q.op = "table" /\ made' = made \cup {q.name} /\ UNCHANGED <<exists, tables>>
  \/ q.op = "seed" /\ T!InsertUrls({Seed}) /\ UNCHANGED <<exists, made>>
  \/ q.op \in {"handshake", "use", "quit"} /\ UNCHANGED database

Fault == faults < MaxFaults /\ faults' = faults + 1

\* The head is answered by the server, refused by it, or ended by the driver
\* after a fatal error.
Answers(op, ok) ==
  /\ outcome = "running" /\ queue # <<>> /\ Head(queue).op = op
  /\ IF ok THEN ~fatal /\ Acceptable(Head(queue)) /\ Execute(Head(queue))
           ELSE UNCHANGED database
  /\ IF ok \/ fatal \/ ~Acceptable(Head(queue)) THEN UNCHANGED faults ELSE Fault

-----------------------------------------------------------------------------
(***************************************************************************)
(* The script                                                              *)
(***************************************************************************)
Launch == <<C!Handshake, Drop>>

Start ==
  /\ outcome # "running"
  /\ queue' = Launch /\ fatal' = FALSE
  /\ outstanding' = 0 /\ printed' = FALSE /\ outcome' = "running"
  /\ UNCHANGED <<database, faults>>

PrintError(ok) == printed' = (printed \/ ~ok)

\* The callback sends these statements next.
Then(qs) == queue' = C!Rest \o qs

\* A refused handshake is fatal.
HandshakeAnswered(ok) ==
  /\ Answers("handshake", ok)
  /\ queue' = C!Rest /\ fatal' = ~ok
  /\ UNCHANGED script

DropAnswered(ok) ==
  /\ Answers("drop", ok)
  /\ PrintError(ok) /\ Then(<<Create>>)
  /\ UNCHANGED <<fatal, outstanding, outcome>>

CreateAnswered(ok) ==
  /\ Answers("create", ok)
  /\ PrintError(ok) /\ Then(<<IF ok THEN Use ELSE C!Quit>>)
  /\ UNCHANGED <<fatal, outstanding, outcome>>

UseAnswered(ok) ==
  /\ Answers("use", ok)
  /\ PrintError(ok)
  /\ IF ok THEN /\ Then([i \in DOMAIN Names |-> Table(Names[i])])
                /\ outstanding' = Len(Names)
           ELSE Then(<<C!Quit>>) /\ UNCHANGED outstanding
  /\ UNCHANGED <<fatal, outcome>>

\* Line 73
LastTable(n) == n = 0

TableAnswered(ok) ==
  /\ Answers("table", ok)
  /\ PrintError(ok)
  /\ outstanding' = outstanding - 1
  /\ Then(IF LastTable(outstanding') THEN <<InsertSeed>> ELSE <<>>)
  /\ UNCHANGED <<fatal, outcome>>

SeedAnswered(ok) ==
  /\ Answers("seed", ok)
  /\ PrintError(ok) /\ Then(<<C!Quit>>)
  /\ UNCHANGED <<fatal, outstanding, outcome>>

\* The server closes the connection, or the driver refuses to quit after a
\* fatal error: nothing is left to wait for.
QuitAnswered ==
  /\ Answers("quit", ~fatal)
  /\ queue' = C!Rest
  /\ outcome' = IF printed THEN "errors" ELSE "clean"
  /\ UNCHANGED <<fatal, outstanding, printed>>

Callback == \/ QuitAnswered
            \/ \E ok \in BOOLEAN :
                 \/ HandshakeAnswered(ok) \/ DropAnswered(ok) \/ CreateAnswered(ok)
                 \/ UseAnswered(ok) \/ TableAnswered(ok) \/ SeedAnswered(ok)

\* The server may have carried out the statement it holds.
Unanswered == \/ UNCHANGED database
              \/ C!Serving /\ Acceptable(Head(queue)) /\ Execute(Head(queue))

ConnectionLost ==
  /\ outcome = "running" /\ ~C!Unheard /\ C!ConnectionLost /\ Fault /\ Unanswered
  /\ UNCHANGED script

Stops(how) ==
  /\ outcome' = how
  /\ queue' = <<>> /\ fatal' = FALSE
  /\ UNCHANGED <<outstanding, printed>>

\* The connection fails while the quit is all there is: an unhandled error.
ConnectionLostUnheard ==
  /\ outcome = "running" /\ ~fatal /\ C!Unheard /\ Fault
  /\ Stops("errors")
  /\ UNCHANGED database

Kill ==
  /\ outcome = "running"
  /\ Stops("killed") /\ Unanswered
  /\ UNCHANGED faults

Next == Start \/ Callback \/ ConnectionLost \/ ConnectionLostUnheard \/ Kill

Spec == Init /\ [][Next]_vars

\* The server answers, and errors are delivered.
FairSpec == Spec /\ WF_vars(Callback)

-----------------------------------------------------------------------------
(***************************************************************************)
(* Properties                                                              *)
(***************************************************************************)
\* A run that printed no error has left the tables the crawler starts from,
\* whatever earlier runs, kills and crawls had left before it (lines 55-87).
CleanRunIsFresh ==
  outcome = "clean" => exists /\ made = AllTables /\ T!Init

\* connection.end() is called once and last: nothing is sent behind it and
\* no second call, which would be an unhandled error in the driver, is made.
QuitIsLast ==
  \A i \in DOMAIN queue : queue[i].op = "quit" => i = Len(queue)

\* Whatever is refused, every run ends: some callback always sends the next
\* statement or closes the connection.
RunsEnd == []<>(outcome # "running")

-----------------------------------------------------------------------------
(***************************************************************************)
(* Why a clean run is fresh: what the statement the script waits for says  *)
(* of the database, as long as no error has been printed or is owed.       *)
(***************************************************************************)
\* The last n of the CREATE TABLEs, and the tables they are to make.
Left(n) == [i \in 1 .. n |-> Table(Names[i + Len(Names) - n])]
Missing(n) == {Names[i + Len(Names) - n] : i \in 1 .. n}

Shape ==
  IF outcome # "running" THEN queue = <<>>
  ELSE \/ outstanding > 0 /\ queue = Left(outstanding)
       \/ /\ outstanding = 0
          /\ queue \in {Launch, <<Drop>>, <<Create>>, <<Use>>, <<InsertSeed>>, <<C!Quit>>}

NoDatabase == ~exists => made = {} /\ NoRows

Progress ==
  outcome = "running" /\ ~printed /\ ~fatal =>
    /\ queue = <<Use>> => exists /\ made = {} /\ NoRows
    /\ outstanding > 0 => exists /\ made = AllTables \ Missing(outstanding) /\ NoRows
    /\ queue = <<InsertSeed>> => exists /\ made = AllTables /\ NoRows
    /\ queue = <<C!Quit>> => exists /\ made = AllTables /\ T!Init

\* The error of a lost connection is printed before the script quits.
ErrorPrinted == outcome = "running" /\ fatal /\ ~printed => queue # <<C!Quit>>

\* The inductive invariant; TypeOK is its first conjunct.
IInv == TypeOK /\ Shape /\ NoDatabase /\ Progress /\ ErrorPrinted /\ CleanRunIsFresh

-----------------------------------------------------------------------------
\* "make database" makes the database (makefile lines 20-21): a run that
\* ended by itself, with nothing refused, has left one.
SetupCompletes ==
  faults = 0 /\ outcome \in {"clean", "errors"} => exists
=============================================================================
