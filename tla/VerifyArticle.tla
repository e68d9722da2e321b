--------------------------- MODULE VerifyArticle ----------------------------
(***************************************************************************)
(* lib/verify-article.c: the child process that decides by its exit code   *)
(* whether a downloaded page is an article.  It reads the page once, a     *)
(* character at a time, and counts for each element how much of it the     *)
(* last characters match.                                                  *)
(***************************************************************************)
EXTENDS Matching

CONSTANTS Char,         \* the characters a page may hold
          Elements,     \* elements[]: what a page needs to be an article
          Pages,        \* the pages it may be run on
          None          \* it has not returned

ASSUME VerifyAssumption ==
  /\ Elements \subseteq Seq(Char) \ {<<>>} /\ Elements # {}
  /\ Pages \subseteq Seq(Char)
  /\ None \notin {0, 1}

VARIABLES text,         \* the page
          pos,          \* the position of c in it; beyond it, feof
          check,        \* check[]: how much is matched, -1 when all has been seen
          exit          \* main's result

vars == <<text, pos, check, exit>>

Init == /\ text \in Pages
        /\ pos = 1
        /\ check = [e \in Elements |-> 0]
        /\ exit = None

\* Mutants of Seen: a mismatch keeps what has matched; the end of the element is
\* looked for after the character.
SeenKeeping(k, e, c) ==
  IF k = -1 \/ k = Len(e) THEN -1 ELSE IF e[k + 1] = c THEN k + 1 ELSE k

SeenSwapped(k, e, c) ==
  IF k = -1 THEN -1 ELSE IF k = Len(e) THEN 0 ELSE Matched(e, k, c)

\* Lines 32-52 for one element.  That all of it has matched is noticed only with
\* the character that follows.
Seen(k, e, c) == IF k = -1 \/ k = Len(e) THEN -1 ELSE Matched(e, k, c)

\* The body of the loop, and next().
Read ==
  /\ exit = None /\ pos <= Len(text)
  /\ check' = [e \in Elements |-> Seen(check[e], e, text[pos])]
  /\ IF \A e \in Elements : check'[e] = -1
     THEN exit' = 0 /\ UNCHANGED pos
     ELSE pos' = pos + 1 /\ UNCHANGED exit
  /\ UNCHANGED text

EndOfFile ==
  /\ exit = None /\ pos > Len(text)
  /\ exit' = 1
  /\ UNCHANGED <<text, pos, check>>

Next == Read \/ EndOfFile

Spec == Init /\ [][Next]_vars

-----------------------------------------------------------------------------
TypeOK == /\ text \in Seq(Char)
          /\ pos \in 1 .. Len(text) + 1
          /\ check \in [Elements -> Int]
          /\ \A e \in Elements : check[e] \in -1 .. Len(e)
          /\ exit \in {None, 0, 1}

\* Exit code 0, on which process.js uploads the page as an article, means that
\* every element is in the page.
ArticleHasElements ==
  exit = 0 => \A e \in Elements : \E i \in 1 .. Len(text) : At(e, text, i)

\* Exit code 1 means that some element is missing, but for two kinds of places
\* the scanner cannot see: at the very end of the page (line 34 wants another
\* character), and where a beginning of the element comes just before (line 46
\* gives up both).
NoArticleLacksElement ==
  exit = 1 => \E e \in Elements : \A i \in 1 .. Len(text) :
                At(e, text, i) /\ Clean(e, Len(e) - 1, text, i) => i + Len(e) = Len(text) + 1
-----------------------------------------------------------------------------
(***************************************************************************)
(* The inductive invariant behind the two.                                 *)
(***************************************************************************)
\* What check[e] counts is there, just before c.
Counted ==
  \A e \in Elements :
    /\ check[e] > 0 => EndsBefore(e, check[e], text, pos)
    /\ check[e] = -1 => \E i \in 1 .. Len(text) : At(e, text, i)

\* From the first character of an occurrence with a clean start to its last, the
\* count is the distance; beyond it, check[e] is -1.
Followed ==
  \A e \in Elements : check[e] # -1 =>
    \A i \in 1 .. Len(text) :
      At(e, text, i) /\ Clean(e, Len(e) - 1, text, i) /\ pos > i =>
        check[e] = pos - i

Returned ==
  /\ exit = 0 <=> \A e \in Elements : check[e] = -1
  /\ exit = 1 => pos > Len(text)

IInv == TypeOK /\ Counted /\ Followed /\ Returned
=============================================================================
