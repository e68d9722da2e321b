----------------------------- MODULE UrlExtract -----------------------------
(***************************************************************************)
(* lib/url-extract.c: the child process that writes every path that        *)
(* follows the domain's prefix in a page, one to a line.  The written text *)
(* is kept as the places [from, to) of the page it was copied from.        *)
(***************************************************************************)
EXTENDS Matching

CONSTANTS Char,         \* the characters a page may hold
          UrlChar,      \* those is_url_char accepts
          Prefix,       \* argv[1]
          Pages         \* the pages it may be run on

ASSUME ExtractAssumption ==
  /\ UrlChar \subseteq Char
  /\ Prefix \in Seq(Char) \ {<<>>}
  /\ Pages \subseteq Seq(Char)

VARIABLES text,         \* the page
          pos,          \* the next position fgetc reads
          idx,          \* int idx; all of Prefix: process_path is to run or runs
          start,        \* where the path begins
          out,          \* the lines written
          done          \* main has returned

vars == <<text, pos, idx, start, out, done>>

Line(from, to) == [from |-> from, to |-> to]

Init == /\ text \in Pages
        /\ pos = 1 /\ idx = 0 /\ start = 1
        /\ out = <<>>
        /\ done = FALSE

Reading == ~done /\ pos <= Len(text) /\ pos' = pos + 1 /\ UNCHANGED <<text, done>>

\* Lines 44-54
Match ==
  /\ idx < Len(Prefix) /\ Reading
  /\ idx' = Matched(Prefix, idx, text[pos])
  /\ start' = pos + 1
  /\ UNCHANGED out

\* process_path, lines 106-111
PathChar ==
  /\ idx = Len(Prefix) /\ Reading
  /\ text[pos] \in UrlChar
  /\ UNCHANGED <<idx, start, out>>

\* A mutant of NoMatch: the match is not started again after a path.
AllMatched == Len(Prefix)

\* idx = 0, lines 52 and 58
NoMatch == 0

\* The character that ends the path is not looked at again.
PathEnd ==
  /\ idx = Len(Prefix) /\ Reading
  /\ text[pos] \notin UrlChar
  /\ out' = Append(out, Line(start, pos))
  /\ idx' = NoMatch
  /\ UNCHANGED start

\* feof in the main loop, or in process_path if any of a path has been read.
EndOfFile ==
  /\ ~done /\ pos > Len(text)
  /\ done' = TRUE
  /\ out' = IF idx = Len(Prefix) /\ start < pos THEN Append(out, Line(start, pos)) ELSE out
  /\ UNCHANGED <<text, pos, idx, start>>

Next == Match \/ PathChar \/ PathEnd \/ EndOfFile

Spec == Init /\ [][Next]_vars

-----------------------------------------------------------------------------
Place == [from : Nat, to : Nat]

TypeOK == /\ text \in Seq(Char)
          /\ pos \in 1 .. Len(text) + 1
          /\ idx \in 0 .. Len(Prefix)
          /\ start \in 1 .. pos
          /\ out \in Seq(Place)
          /\ done \in BOOLEAN

\* A line is a whole path: all of it can be in an address, and what comes after
\* cannot.
IsPath(l) ==
  /\ l.from <= l.to /\ l.to <= Len(text) + 1
  /\ \A j \in l.from .. l.to - 1 : text[j] \in UrlChar
  /\ l.to <= Len(text) => text[l.to] \notin UrlChar

\* Every line is a path that follows an occurrence of the prefix in the page, so
\* every row process.js inserts (line 69) is an address the page contains, but for
\* the domain root: the empty string behind the last line break stands for it.
LinesAreLinks ==
  \A n \in DOMAIN out :
    /\ IsPath(out[n])
    /\ At(Prefix, text, out[n].from - Len(Prefix))

\* The links a page makes no difficulty about: not in the middle of something
\* that could be a path, with something after the prefix, and no beginning of the
\* prefix, nor all of it, just before.
PlainLink(i) ==
  /\ At(Prefix, text, i)
  /\ i + Len(Prefix) <= Len(text)
  /\ i = 1 \/ text[i - 1] \notin UrlChar
  /\ Clean(Prefix, Len(Prefix), text, i)

\* Every such link has its line when the scan is over, although a mismatch never
\* tries again (line 52) and the end of a path is swallowed.
PlainLinksWritten ==
  done => \A i \in 1 .. Len(text) :
            PlainLink(i) => \E n \in DOMAIN out : out[n].from = i + Len(Prefix)
-----------------------------------------------------------------------------
(***************************************************************************)
(* The inductive invariant behind the two.                                 *)
(***************************************************************************)
InPath == idx = Len(Prefix)

\* What idx counts is there, just before the next character.
Counted == ~InPath => EndsBefore(Prefix, idx, text, pos)

\* A path being copied follows the prefix.
Copying ==
  InPath => /\ At(Prefix, text, start - Len(Prefix))
            /\ \A j \in start .. pos - 1 : text[j] \in UrlChar

\* A plain link the scan has come to is being matched, copied or written.
Caught(i) ==
  \/ ~InPath /\ pos < i + Len(Prefix) /\ idx = pos - i
  \/ InPath /\ start = i + Len(Prefix) /\ ~done
  \/ \E n \in DOMAIN out : out[n].from = i + Len(Prefix)

Followed == \A i \in 1 .. Len(text) : PlainLink(i) /\ pos > i => Caught(i)

IInv == /\ TypeOK /\ Counted /\ Copying /\ LinesAreLinks /\ Followed
        /\ done => pos > Len(text)
=============================================================================
