------------------------------ MODULE PageLife ------------------------------
(***************************************************************************)
(* What the crawler promises of each address, with the driver, the         *)
(* transfers, the pipeline and the timers abstracted away.                 *)
(*                                                                         *)
(*   unknown --Discover--> new --Fetch--> fetching --Arrive--> waiting     *)
(*                                         --Settle--> done                *)
(*                                                                         *)
(* Pages are fetched one batch at a time and settled one at a time, in the *)
(* order they arrived.  A death of the program loses the pages that wait   *)
(* (their rows are marked, and only unmarked rows are listed) and those of *)
(* the batch that were already marked; nothing ever finds them again.      *)
(* It holds of the crawler as long as no fault occurs (Crawler.tla).       *)
(***************************************************************************)
EXTENDS Integers, Sequences, FiniteSets

CONSTANTS Urls, Seed, BatchCount, PendingLimit

VARIABLES life,       \* where each address is in its life
          backlog     \* the waiting addresses, oldest first

vars == <<life, backlog>>

Lives == {"unknown", "new", "fetching", "waiting", "done", "lost"}

In(l) == {u \in Urls : life[u] = l}

\* life after every address of S has moved to l.
Become(S, l) == [u \in Urls |-> IF u \in S THEN l ELSE life[u]]

Init == /\ life = [u \in Urls |-> IF u = Seed THEN "new" ELSE "unknown"]
        /\ backlog = <<>>

\* Another page's links.
Discover == \E S \in SUBSET In("unknown") :
              life' = Become(S, "new") /\ UNCHANGED backlog

\* The next batch waits for the whole of the last, and for the backlog.
Fetch == /\ In("fetching") = {}
         /\ Len(backlog) <= PendingLimit
         /\ \E S \in SUBSET In("new") : /\ Cardinality(S) <= BatchCount
                                        /\ life' = Become(S, "fetching")
         /\ UNCHANGED backlog

\* The download's outcome, good or bad, has been written.
Arrive == \E u \in In("fetching") :
            /\ life' = Become({u}, "waiting")
            /\ backlog' = Append(backlog, u)

Settle == /\ backlog # <<>>
          /\ life' = Become({Head(backlog)}, "done")
          /\ backlog' = Tail(backlog)

\* The query at the server may still be carried out.
AfterCrash(u) ==
  CASE life[u] = "unknown"  -> {"unknown", "new"}
    [] life[u] = "fetching" -> {"new", "lost"}
    [] life[u] = "waiting"  -> IF u = Head(backlog) THEN {"lost", "done"} ELSE {"lost"}
    [] OTHER                -> {life[u]}

Crash == /\ life' \in [Urls -> Lives]
         /\ \A u \in Urls : life'[u] \in AfterCrash(u)
         /\ backlog' = <<>>

Next == Discover \/ Fetch \/ Arrive \/ Settle \/ Crash

Spec == Init /\ [][Next]_vars
=============================================================================
