--------------------------- MODULE ContentExtract ---------------------------
(***************************************************************************)
(* lib/content-extract.c: the child process that copies the text of a      *)
(* page's headings, each kind to a file of its own.                        *)
(*                                                                         *)
(* at is the position of the character in c; Len(text) + 1 is feof.  A     *)
(* function that finds the end of the file returns -1 and every caller     *)
(* returns in turn, which is the same as going on at the end of the file;  *)
(* so the functions are operators from a position to a position.  write    *)
(* calls itself for a heading in a heading: frames is the stack of its     *)
(* calls, innermost first.                                                 *)
(***************************************************************************)
EXTENDS Integers, Sequences, FiniteSetsExt

CONSTANTS Char, Pages

ASSUME ContentAssumption == Pages \subseteq Seq(Char)

\* tags[], lines 5-10
Tags == <<<<"h", "1">>, <<"h", "2">>>>
TagSize == 2

VARIABLES text,         \* the page
          at,           \* where c is
          frames,       \* the tags of the calls of write that have not returned
          out,          \* for each tag, the positions copied; 0 is a line break
          done          \* main has returned

vars == <<text, at, frames, out, done>>

TagIds == DOMAIN Tags
End == Len(text) + 1

\* c, when it is at position j
c(j) == IF j \in DOMAIN text THEN text[j] ELSE "EOF"
Ends(j) == c(j) \in {" ", ">"}

Init == /\ text \in Pages
        /\ at = 0 /\ frames = <<>>
        /\ out = [t \in TagIds |-> <<>>]
        /\ done = FALSE

-----------------------------------------------------------------------------
\* A mutant of NextOpenTag: at the next '<'.
NextOpenTagAt(i) ==
  LET S == {j \in DOMAIN text : j >= i /\ text[j] = "<"}
  IN  IF S = {} THEN End ELSE Min(S)

\* next_open_tag: behind the next '<'.
NextOpenTag(i) ==
  LET S == {j \in DOMAIN text : j >= i /\ text[j] = "<"}
  IN  IF S = {} THEN End ELSE Min(S) + 1

\* close_string: behind the next quote that is not escaped.
CloseString(i) ==
  LET close[j \in 1 .. End + 1] ==
        CASE j >= End       -> End
          [] c(j) = "q" -> j + 1
          [] c(j) = "\\" -> close[j + 2]
          [] OTHER          -> close[j + 1]
  IN  close[i]

\* A mutant of CloseTag: at the '>', where meta-extract's function stops.
CloseTagAt(i) ==
  LET S == {j \in DOMAIN text : j >= i /\ text[j] = ">"}
  IN  IF S = {} THEN End ELSE Min(S)

\* close_tag: behind the next '>' that is in no string.
CloseTag(i) ==
  LET close[j \in 1 .. End] ==
        CASE j = End        -> End
          [] c(j) = ">" -> j + 1
          [] c(j) = "q" -> close[CloseString(j + 1)]
          [] OTHER          -> close[j + 1]
  IN  close[i]

\* Where match_tag gives up or has the whole name: at a ' ' or '>', at the end of
\* the file, or when the name is longer than a tag's.
NameEnd(i) ==
  IF c(i) = "/" THEN i
  ELSE i + Min({TagSize} \cup {k \in 0 .. TagSize : Ends(i + k) \/ i + k >= End})

\* match_tag: the name at i is that of tag t.
IsTag(t, i) ==
  /\ \A k \in 1 .. TagSize : c(i + k - 1) = Tags[t][k]
  /\ Ends(i + TagSize)

\* match_end_tag: how much of tag t's name follows the '/' at i, and whether that
\* is an end tag of t.
EndMatched(t, i) ==
  Max({k \in 0 .. TagSize : \A j \in 1 .. k : c(i + j) = Tags[t][j]})

IsEndTag(t, i) == c(i) = "/" /\ EndMatched(t, i) = TagSize /\ Ends(i + 1 + TagSize)

EndTagEnd(t, i) == IF c(i) = "/" THEN i + 1 + EndMatched(t, i) ELSE i

\* ftell when c is at position i
Tell(i) == Min({i, Len(text)})

\* A mutant of Reread: the offset taken from the start of the file.
RereadFromStart(i, j) == IF j = i THEN Min({i + 1, End}) ELSE Tell(j) - Tell(i)

\* next() after the fseek of line 216, when c was at position i before
\* match_end_tag and is at j after it: as far again forward, where back was meant.
Reread(i, j) == Min({2 * Tell(j) - Tell(i), End})

-----------------------------------------------------------------------------
\* A mutant of Tag: what match_tag says is not looked at, and tag has its first value
\* (line 59).
TagDefault(i) ==
  /\ at' = IF NameEnd(i) >= End THEN End ELSE CloseTag(NameEnd(i))
  /\ frames' = <<IF IsTag(1, i) THEN 1 ELSE 2>> \o frames

\* Lines 57-72 and 218-231, the same twice: at i a tag's name is looked for, and
\* what is in the tag is passed over.
Tag(i) ==
  /\ at' = IF NameEnd(i) >= End THEN End ELSE CloseTag(NameEnd(i))
  /\ frames' = IF \E t \in TagIds : IsTag(t, i)
               THEN <<CHOOSE t \in TagIds : IsTag(t, i)>> \o frames ELSE frames

\* start, one tag
Start ==
  /\ frames = <<>> /\ at < End
  /\ Tag(NextOpenTag(at))
  /\ UNCHANGED <<text, out, done>>

Writing == frames # <<>> /\ at < End

Put(j) == out' = [out EXCEPT ![Head(frames)] = Append(@, j)]

\* write, lines 234-238
Copy ==
  /\ Writing /\ text[at] # "<"
  /\ Put(at)
  /\ at' = at + 1
  /\ UNCHANGED <<text, frames, done>>

\* write at a '<', lines 200-213: the heading's own end tag.
OwnEndTag ==
  /\ Writing /\ text[at] = "<" /\ IsEndTag(Head(frames), at + 1)
  /\ Put(0)
  /\ at' = CloseTag(EndTagEnd(Head(frames), at + 1))
  /\ frames' = Tail(frames)
  /\ UNCHANGED <<text, done>>

\* Lines 215-231: another tag.
OtherTag ==
  LET j == EndTagEnd(Head(frames), at + 1) IN
  /\ Writing /\ text[at] = "<" /\ ~IsEndTag(Head(frames), at + 1)
  /\ Put(0)
  /\ IF c(at + 1) = "/" /\ j >= End
     THEN at' = End /\ UNCHANGED frames
     ELSE Tag(Reread(at + 1, j))
  /\ UNCHANGED <<text, done>>

\* A mutant of Return: write does not look at feof.
ReturnIfIdle ==
  /\ ~done /\ at = End /\ frames = <<>>
  /\ done' = TRUE
  /\ UNCHANGED <<text, at, frames, out>>

\* feof: every call returns.
Return ==
  /\ ~done /\ at = End
  /\ done' = TRUE
  /\ UNCHANGED <<text, at, frames, out>>

Next == Start \/ Copy \/ OwnEndTag \/ OtherTag \/ Return

Spec == Init /\ [][Next]_vars

FairSpec == Spec /\ WF_vars(Next)

-----------------------------------------------------------------------------
Copied(t) == {out[t][n] : n \in DOMAIN out[t]} \ {0}

\* The seek never makes the program copy a character twice, into one file or into
\* two, nor out of the page's order.
CopiedOnce ==
  /\ \A t \in TagIds : \A m, n \in DOMAIN out[t] :
       m < n /\ out[t][m] # 0 /\ out[t][n] # 0 => out[t][m] < out[t][n]
  /\ \A t, u \in TagIds : t # u => Copied(t) \cap Copied(u) = {}

\* A heading without attributes whose text has no tag in it, from its '<' at i to that
\* of its end tag at k.
Heading(t, i, k) ==
  /\ text[i] = "<" /\ IsTag(t, i + 1) /\ c(i + 1 + TagSize) = ">"
  /\ k \in i + 2 + TagSize .. Len(text)
  /\ text[k] = "<" /\ IsEndTag(t, k + 1)
  /\ \A j \in i + 1 .. k - 1 : text[j] # "<"

\* Up to position i the page is as a careful author writes it: no quotes, every
\* tag closed before the next begins, and no tags in a heading.
Calm(i) ==
  \A j \in 1 .. i - 1 :
    /\ text[j] # "q"
    /\ text[j] = "<" => \E k \in j + 1 .. i - 1 :
                          /\ text[k] = ">"
                          /\ \A n \in j + 1 .. k : text[n] # "<"
    /\ \A t \in TagIds : text[j] = "<" /\ IsTag(t, j + 1) => \E k \in 1 .. i - 1 : Heading(t, j, k)

\* After a calm part of the page such a heading's text is copied to its file, whatever
\* the rest of the page is like.
HeadingsCopied ==
  done => \A t \in TagIds : \A i, k \in DOMAIN text :
            Heading(t, i, k) /\ Calm(i) => i + 2 + TagSize .. k - 1 \subseteq Copied(t)

\* The character at position n is one of a heading's text.
InHeading(t, n) == \E i, k \in DOMAIN text : Heading(t, i, k) /\ i + 1 + TagSize < n /\ n < k

\* On a calm page nothing else is.
NothingElseCopied ==
  done /\ Calm(End) => \A t \in TagIds : \A n \in Copied(t) : InHeading(t, n)

\* Position i is where the seek of line 216 lands behind an end tag of another name:
\* the '/' and the m characters that match_end_tag took are passed over twice.
Landing(i) ==
  \E t \in TagIds : \E m \in 0 .. TagSize :
    LET slash == i - 2 * (m + 1) IN
    /\ c(slash - 1) = "<" /\ c(slash) = "/"
    /\ EndMatched(t, slash) = m /\ ~IsEndTag(t, slash)

\* The scan can take what begins at i for a tag of t.
Taken(t, i) == IsTag(t, i) /\ (c(i - 1) = "<" \/ Landing(i))

\* What is copied to a tag's file comes behind a tag of that name or, because of the
\* seek, behind the name alone where a seek lands on it: in "<h1></xh2 >text" it lands
\* on "h2 " in the end tag, and the text is copied for h2 although no h2 begins in the
\* page.  Nowhere else is a name taken for a tag, on any page.
CopiedBehindTag ==
  \A t \in TagIds : \A j \in Copied(t) : \E i \in 1 .. j - 1 : Taken(t, i)

\* The scan of any page ends, although the seek may go back.
Returns == <>done
-----------------------------------------------------------------------------
(***************************************************************************)
(* The inductive invariant behind CopiedOnce and CopiedBehindTag.          *)
(***************************************************************************)
TypeOK == /\ text \in Seq(Char)
          /\ at \in 0 .. End
          /\ frames \in Seq(TagIds)
          /\ out \in [TagIds -> Seq(0 .. Len(text))]
          /\ done \in BOOLEAN

\* The scan is past whatever has been copied, line breaks included.
CopiedBefore == \A t \in TagIds : \A n \in DOMAIN out[t] : out[t][n] < at

\* Every call of write that has not returned is past what it took for its tag.
Opened(t) == \E i \in 1 .. at - 1 : Taken(t, i)

FramesOpened == \A n \in DOMAIN frames : Opened(frames[n])

IInv == TypeOK /\ CopiedBefore /\ FramesOpened /\ CopiedOnce /\ CopiedBehindTag

(***************************************************************************)
(* The one behind HeadingsCopied and NothingElseCopied.                    *)
(***************************************************************************)
\* The scan is between the headings that begin and end before position i, or in
\* one of them.
Between(i) ==
  \/ frames = <<>> /\ at <= i
  \/ \E t \in TagIds : \E j, k \in 1 .. i - 1 :
       Heading(t, j, k) /\ frames = <<t>> /\ at \in j + 2 + TagSize .. k

\* The heading at i is ahead, or copied up to where the scan is, or copied.
Met(t, i, k) ==
  \/ Between(i)
  \/ /\ frames = <<t>> /\ at \in i + 2 + TagSize .. k
     /\ i + 2 + TagSize .. at - 1 \subseteq Copied(t)
  \/ i + 2 + TagSize .. k - 1 \subseteq Copied(t)

HeadingsMet ==
  \A t \in TagIds : \A i, k \in DOMAIN text : Heading(t, i, k) /\ Calm(i) => Met(t, i, k)

\* On a calm page the scan is never elsewhere.
OnlyHeadings ==
  Calm(End) => Between(End) /\ \A t \in TagIds : \A n \in Copied(t) : InHeading(t, n)

DoneAtEnd == done => at = End

HInv == DoneAtEnd /\ HeadingsMet /\ OnlyHeadings
=============================================================================
